----------------------------- MODULE EventLedger -----------------------------
(***************************************************************************)
(* What the durable queue of an actor promises, whatever crashes, retries   *)
(* and lease losses the runtime goes through: an event id is accepted once  *)
(* and stands in one line, behind those accepted before it; it leaves the   *)
(* line once, with a whole batch from its head that was served or given up, *)
(* or because an admin cancelled it.                                        *)
(***************************************************************************)
EXTENDS SequencesExt, Naturals

CONSTANT Event

VARIABLES
    line,  \* the accepted events that are not settled, oldest first
    fate   \* what became of each event

Init == line = <<>> /\ fate = [e \in Event |-> "unseen"]

\* A new event id joins the end of the line.
Accept(e) ==
    /\ fate[e] = "unseen"
    /\ line' = Append(line, e)
    /\ fate' = [fate EXCEPT ![e] = "queued"]

\* A batch from the head of the line is served ("acked") or given up ("dead").
SettleHead ==
    \E n \in 1..Len(line), f \in {"acked", "dead"} :
       /\ line' = SubSeq(line, n + 1, Len(line))
       /\ fate' = [e \in Event |->
                     IF e \in ToSet(SubSeq(line, 1, n)) THEN f ELSE fate[e]]

\* One waiting event is cancelled.
Cancel(e) ==
    /\ \E i \in DOMAIN line : line[i] = e /\ line' = RemoveAt(line, i)
    /\ fate' = [fate EXCEPT ![e] = "cancelled"]

Next ==
    \/ \E e \in Event : Accept(e) \/ Cancel(e)
    \/ SettleHead

Spec == Init /\ [][Next]_<<line, fate>>

=============================================================================
