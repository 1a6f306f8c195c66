---------------------------- MODULE MCPublishing ----------------------------
(***************************************************************************)
(* Small instances of Publishing for TLC.                                   *)
(***************************************************************************)
EXTENDS Publishing, TLC

AttemptSymmetry == Permutations(Attempt)
=============================================================================
