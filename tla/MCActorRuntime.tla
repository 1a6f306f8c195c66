--------------------------- MODULE MCActorRuntime ---------------------------
(***************************************************************************)
(* Small actors for TLC.                                                    *)
(***************************************************************************)
EXTENDS ActorRuntime, TLC

CONSTANTS push1, push2, mention1, mention2, audit, d1, d2

\* Two pushes to a merge request: their reviews coalesce.
Pushes == {push1, push2}
\* Two mentions in one discussion, ten seconds apart: they batch.
Mentions == {mention1, mention2}
\* A project's daily audit, which the worker itself enqueues.
Audit == {audit}

TypeOfEvent == [e \in Event |->
    IF e \in Pushes THEN "auto_review"
    ELSE IF e \in Mentions THEN "mention" ELSE "other"]
DiscussionOf == [e \in Event |-> IF e \in Mentions THEN "thread" ELSE NoDiscussion]
SecondsOf == [e \in Event |-> IF e = mention2 THEN 10 ELSE 0]

DrainSymmetry == Permutations(Drain)

\* Cuts interleavings of the resume poll that only repeat others: its three
\* transactions run together, and it pokes an actor whose lease can be taken.
\* A poke of a leased actor starts a drain that AcquireLease turns away.
EffectivePolls ==
    /\ resume # "scan" => resume' # resume \/ crashes' # crashes
    /\ resume = "scan" /\ resume' = "clear" =>
          /\ owner = NoOne \/ expired
          /\ \E d \in Drain : Unused(d)

\* A bound: a drain stalls, or the worker may crash and the admin act, not both.
StallOrAdmin ==
    \/ stalls' = 0
    \/ /\ crashes' = 0 /\ termReq' = {}
       /\ \A e \in Event : fate'[e] # "cancelled"

=============================================================================
