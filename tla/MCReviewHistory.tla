-------------------------- MODULE MCReviewHistory --------------------------
(***************************************************************************)
(* Small instances of ReviewHistory for TLC.                                *)
(***************************************************************************)
EXTENDS ReviewHistory, TLC

NoteSymmetry == Permutations(Note)

\* A bound: a handler fails, or a webhook overtakes others, not both.
FaultOrOvertake == faults' = 0 \/ overtakes' = 0
=============================================================================
