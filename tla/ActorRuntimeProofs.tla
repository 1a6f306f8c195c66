------------------------- MODULE ActorRuntimeProofs -------------------------
(***************************************************************************)
(* Theorems of ActorRuntime for every set of events and drains and every    *)
(* bound: its types, and that healthy drains are serialized by the lease.   *)
(***************************************************************************)
EXTENDS ActorRuntime, SequenceTheorems, TLAPS

RunRecord == [events : Seq(Event), state : RunStates]

\* Writing a state into a run's record keeps the list of runs a list of runs.
LEMMA WriteRunType ==
    ASSUME NEW R \in Seq(RunRecord), NEW k, NEW v \in RunStates
    PROVE  /\ [R EXCEPT ![k].state = v] \in Seq(RunRecord)
           /\ DOMAIN [R EXCEPT ![k].state = v] = DOMAIN R
<1> DEFINE rec == [R[k] EXCEPT !.state = v]
<1>1. CASE k \in 1..Len(R)
  <2>1. R[k] \in RunRecord
    BY <1>1, ElementOfSeq
  <2>2. rec \in RunRecord
    BY <2>1 DEF RunRecord
  <2>3. [R EXCEPT ![k] = rec] \in Seq(RunRecord)
        /\ Len([R EXCEPT ![k] = rec]) = Len(R)
    BY <1>1, <2>2, ExceptSeq
  <2> QED
    BY <2>3, LenProperties
<1>2. CASE k \notin 1..Len(R)
  <2>1. [R EXCEPT ![k].state = v] = R
    BY <1>2, LenProperties
  <2> QED
    BY <2>1
<1> QED
  BY <1>1, <1>2

\* Removing one element keeps a sequence a sequence of the same elements.
LEMMA RemoveAtType ==
    ASSUME NEW s \in Seq(Event), NEW i \in DOMAIN s
    PROVE  RemoveAt(s, i) \in Seq(Event)
<1>1. SubSeq(s, 1, i-1) \in Seq(Event) /\ SubSeq(s, i+1, Len(s)) \in Seq(Event)
  BY SubSeqProperties
<1> QED
  BY <1>1, ConcatProperties DEF RemoveAt

\* A split of a sequence at any point yields two sequences.
LEMMA SplitType ==
    ASSUME NEW s \in Seq(Event), NEW n \in 1..Len(s)
    PROVE  SubSeq(s, 1, n) \in Seq(Event) /\ SubSeq(s, n + 1, Len(s)) \in Seq(Event)
<1>1. Len(s) \in Nat /\ \A i \in 1..Len(s) : s[i] \in Event
  BY LenProperties
<1> QED
  BY <1>1, SubSeqProperties

-----------------------------------------------------------------------------
(* Types *)

\* The types hold in every state of every instance: in particular every run a
\* drain writes to exists, and no count leaves the naturals.
LEMMA TypeInit == Init => TypeOK
<1> SUFFICES ASSUME Init PROVE TypeOK
  OBVIOUS
<1>1. runs \in Seq(RunRecord) /\ pending \in Seq(Event) /\ <<>> \in Seq(Event)
  BY EmptySeq DEF Init
<1> QED
  BY <1>1 DEF Init, TypeOK, RunRecord, PCs, RunStates, Fates

LEMMA TypeStep == TypeOK /\ [Next]_vars => TypeOK'
<1> SUFFICES ASSUME TypeOK, [Next]_vars PROVE TypeOK'
  OBVIOUS
<1> USE DEF row, records, locals, requests, history, bounds,
            Goto, SetHeartbeat, Leave, Renew
<1>b. \A d \in Drain : ToSet(batch[d]) \subseteq Event
  BY LenProperties DEF TypeOK, ToSet
<1>l. ASSUME NEW d \in Drain, NEW to \in PCs, Leave(d, to)
      PROVE  /\ pc' \in [Drain -> PCs] /\ batch' \in [Drain -> Seq(Event)]
             /\ run' \in [Drain -> Nat] /\ verdict' \in [Drain -> RunStates]
             /\ priors' \in [Drain -> SUBSET (DOMAIN runs)]
  BY <1>l, EmptySeq DEF TypeOK, RunStates
<1> HIDE DEF Leave
<1>r. runs \in Seq(RunRecord)
  BY DEF TypeOK, RunRecord
<1>1. ASSUME NEW e \in Event, AppendEvent(e) PROVE TypeOK'
  <2>1. Append(pending, e) \in Seq(Event)
    BY AppendProperties DEF TypeOK
  <2> QED
    BY <1>1, <2>1 DEF AppendEvent, TypeOK, Fates
<1>2. ASSUME NEW e \in Event, MarkScheduled(e) PROVE TypeOK'
  BY <1>2 DEF MarkScheduled, TypeOK, PCs
<1>3. ASSUME NEW e \in Event, RemovePendingEvent(e) PROVE TypeOK'
  <2>1. pending' \in Seq(Event)
    BY <1>3, RemoveAtType DEF RemovePendingEvent, TypeOK
  <2> QED
    BY <1>3, <2>1 DEF RemovePendingEvent, TypeOK, Fates
<1>4. ASSUME NEW r \in DOMAIN runs, RequestRunTermination(r) PROVE TypeOK'
  BY <1>4 DEF RequestRunTermination, TypeOK
<1>5. CASE ResumeScan
  BY <1>5 DEF ResumeScan, TypeOK, PCs
<1>6. CASE ResumeClear
  BY <1>6 DEF ResumeClear, TypeOK, PCs
<1>7. CASE ResumeMark
  BY <1>7 DEF ResumeMark, TypeOK, PCs
<1>8. ASSUME NEW d \in Drain, AcquireLease(d) PROVE TypeOK'
  BY <1>8 DEF AcquireLease, TypeOK, PCs
<1>9. ASSUME NEW d \in Drain, RestoreInflight(d) PROVE TypeOK'
  <2>1. inflight \o pending \in Seq(Event)
    BY ConcatProperties DEF TypeOK
  <2> QED
    BY <1>9, <2>1, EmptySeq DEF RestoreInflight, TypeOK, PCs
<1>10. ASSUME NEW d \in Drain, PopNothing(d) PROVE TypeOK'
  BY <1>10, <1>l DEF PopNothing, TypeOK, PCs
<1>11. ASSUME NEW d \in Drain, PopNextBatch(d) PROVE TypeOK'
  <2>1. inflight' \in Seq(Event) /\ pending' \in Seq(Event)
    BY <1>11, SplitType DEF PopNextBatch, TypeOK
  <2>2. batch' \in [Drain -> Seq(Event)]
    BY <1>11, <2>1 DEF PopNextBatch, TypeOK
  <2> QED
    BY <1>11, <2>1, <2>2 DEF PopNextBatch, TypeOK, PCs
<1>12. ASSUME NEW d \in Drain, MarkPriorStale(d) PROVE TypeOK'
  <2>1. PICK r \in priors[d] : runs' = [runs EXCEPT ![r].state = "stale"]
                                /\ priors' = [priors EXCEPT ![d] = @ \ {r}]
    BY <1>12 DEF MarkPriorStale
  <2>2. runs' \in Seq(RunRecord) /\ DOMAIN runs' = DOMAIN runs
    BY <1>r, <2>1, WriteRunType DEF RunStates, TerminalStates
  <2> QED
    BY <1>12, <2>1, <2>2 DEF MarkPriorStale, TypeOK, RunRecord
<1>13. ASSUME NEW d \in Drain, StartRun(d) PROVE TypeOK'
  <2> DEFINE rec == [events |-> batch[d], state |-> "running"]
  <2>1. rec \in RunRecord
    BY DEF TypeOK, RunRecord, RunStates
  <2>2. runs' \in Seq(RunRecord) /\ Len(runs') = Len(runs) + 1
    BY <1>13, <1>r, <2>1, AppendProperties DEF StartRun
  <2>3. DOMAIN runs \subseteq DOMAIN runs'
    BY <1>r, <2>2, LenProperties
  <2>4. Len(runs) + 1 \in Nat
    BY <1>r, LenProperties
  <2> QED
    BY <1>13, <2>2, <2>3, <2>4 DEF StartRun, TypeOK, RunRecord, PCs
<1>14. ASSUME NEW d \in Drain, CheckTermination(d) PROVE TypeOK'
  BY <1>14, <1>b DEF CheckTermination, TypeOK, PCs, RunStates, TerminalStates
<1>15. ASSUME NEW d \in Drain, FirstHeartbeat(d) PROVE TypeOK'
  BY <1>15 DEF FirstHeartbeat, TypeOK, PCs
<1>16. ASSUME NEW d \in Drain, FinalHeartbeat(d) PROVE TypeOK'
  <2>1. CASE heartbeat[d] = "failed"
    BY <1>16, <1>l, <2>1 DEF FinalHeartbeat, TypeOK, PCs
  <2>2. CASE heartbeat[d] # "failed"
    BY <1>16, <2>2 DEF FinalHeartbeat, TypeOK, PCs, RunStates, TerminalStates
  <2> QED
    BY <2>1, <2>2
<1>17. ASSUME NEW d \in Drain, AckBatch(d, "ack", "record") PROVE TypeOK'
  BY <1>17, EmptySeq DEF AckBatch, Settle, TypeOK, PCs, Fates
<1>18. ASSUME NEW d \in Drain, AckBatch(d, "ackTerminated", "recordTerminated") PROVE TypeOK'
  BY <1>18, EmptySeq DEF AckBatch, Settle, TypeOK, PCs, Fates
<1>19. ASSUME NEW d \in Drain, RecordRun(d, "record", "renew") PROVE TypeOK'
  <2>1. verdict[d] \in RunStates
    BY DEF TypeOK
  <2>2. runs' \in Seq(RunRecord) /\ DOMAIN runs' = DOMAIN runs
    BY <1>19, <1>r, <2>1, WriteRunType DEF RecordRun, WroteVerdict
  <2> QED
    BY <1>19, <2>2 DEF RecordRun, TypeOK, RunRecord, PCs
<1>20. ASSUME NEW d \in Drain, RecordRun(d, "recordTerminated", "pop") PROVE TypeOK'
  <2>1. verdict[d] \in RunStates
    BY DEF TypeOK
  <2>2. runs' \in Seq(RunRecord) /\ DOMAIN runs' = DOMAIN runs
    BY <1>20, <1>r, <2>1, WriteRunType DEF RecordRun, WroteVerdict
  <2> QED
    BY <1>20, <2>2 DEF RecordRun, TypeOK, RunRecord, PCs
<1>21. ASSUME NEW d \in Drain, MarkInflightFailed(d) PROVE TypeOK'
  <2>1. \A e \in ToSet(batch[d]) : attempts[e] + 1 \in Nat
    BY <1>b DEF TypeOK
  <2>2. attempts' \in [Event -> Nat]
    <3>1. \/ attempts' = attempts
          \/ \E charged \in {attempts[e] + 1 : e \in ToSet(batch[d])} :
                attempts' = [e \in Event |->
                    IF e \in ToSet(batch[d]) THEN charged ELSE attempts[e]]
      BY <1>21 DEF MarkInflightFailed
    <3>2. \A n \in {attempts[e] + 1 : e \in ToSet(batch[d])} : n \in Nat
      BY <2>1
    <3> HIDE DEF TypeOK
    <3>3. attempts \in [Event -> Nat]
      BY DEF TypeOK
    <3> QED
      BY <3>1, <3>2, <3>3
  <2>3. fate' \in [Event -> Fates] /\ inflight' \in Seq(Event)
    BY <1>21, EmptySeq DEF MarkInflightFailed, Settle, TypeOK, Fates
  <2>4. verdict' \in [Drain -> RunStates]
    BY <1>21 DEF MarkInflightFailed, TypeOK, RunStates, TerminalStates
  <2> QED
    BY <1>21, <2>2, <2>3, <2>4 DEF MarkInflightFailed, TypeOK, PCs
<1>22. ASSUME NEW d \in Drain, RecordFailure(d) PROVE TypeOK'
  <2>1. verdict[d] \in RunStates
    BY DEF TypeOK
  <2>2. runs' \in Seq(RunRecord) /\ DOMAIN runs' = DOMAIN runs
    BY <1>22, <1>r, <2>1, WriteRunType DEF RecordFailure, WroteVerdict
  <2> QED
    BY <1>22, <1>l, <2>2 DEF RecordFailure, TypeOK, RunRecord, PCs
<1>23. ASSUME NEW d \in Drain, LoopHeartbeat(d) PROVE TypeOK'
  BY <1>23 DEF LoopHeartbeat, TypeOK, PCs
<1>24. ASSUME NEW d \in Drain, ReleaseLease(d) PROVE TypeOK'
  BY <1>24 DEF ReleaseLease, TypeOK, PCs
<1>25. ASSUME NEW d \in Drain, ClearActorScheduled(d) PROVE TypeOK'
  BY <1>25 DEF ClearActorScheduled, TypeOK, PCs
<1>26. ASSUME NEW d \in Drain, HasActorEvents(d) PROVE TypeOK'
  BY <1>26 DEF HasActorEvents, TypeOK, PCs
<1>27. ASSUME NEW d \in Drain, MarkActorScheduled(d) PROVE TypeOK'
  BY <1>27 DEF MarkActorScheduled, TypeOK, PCs
<1>28. ASSUME NEW d \in Drain, HandlerReturns(d) PROVE TypeOK'
  BY <1>28, <1>b, OutcomesAssumption DEF HandlerReturns, TypeOK, PCs, RunStates
<1>29. ASSUME NEW d \in Drain, HandlerTerminated(d) PROVE TypeOK'
  <2>1. served' \subseteq Event
    BY <1>29, <1>b DEF HandlerTerminated, TypeOK
  <2>2. CASE heartbeat[d] = "failed"
    BY <1>29, <1>l, <2>1, <2>2 DEF HandlerTerminated, TypeOK, PCs
  <2>3. CASE heartbeat[d] # "failed"
    BY <1>29, <2>1, <2>3
       DEF HandlerTerminated, TypeOK, PCs, RunStates, TerminalStates
  <2> QED
    BY <2>2, <2>3
<1>30. ASSUME NEW d \in Drain, HandlerRaises(d) PROVE TypeOK'
  <2>1. failures' \in [Event -> Nat]
    BY <1>30 DEF HandlerRaises, TypeOK
  <2>2. CASE heartbeat[d] = "failed"
    BY <1>30, <1>l, <2>1, <2>2 DEF HandlerRaises, TypeOK, PCs
  <2>3. CASE heartbeat[d] # "failed"
    BY <1>30, <2>1, <2>3 DEF HandlerRaises, TypeOK, PCs
  <2> QED
    BY <2>2, <2>3
<1>31. ASSUME NEW d \in Drain, Heartbeat(d) PROVE TypeOK'
  BY <1>31 DEF Heartbeat, TypeOK, PCs
<1>32. ASSUME NEW d \in Drain, HeartbeatRaises(d) PROVE TypeOK'
  BY <1>32 DEF HeartbeatRaises, TypeOK, PCs
<1>33. ASSUME NEW d \in Drain, DrainAborts(d) PROVE TypeOK'
  <2>1. \/ Leave(d, "release") \/ Leave(d, "idle")
    BY <1>33 DEF DrainAborts
  <2>2. /\ pc' \in [Drain -> PCs] /\ batch' \in [Drain -> Seq(Event)]
        /\ run' \in [Drain -> Nat] /\ verdict' \in [Drain -> RunStates]
        /\ priors' \in [Drain -> SUBSET (DOMAIN runs)]
    BY <1>l, <2>1 DEF PCs
  <2>3. /\ faults' \in Nat /\ heartbeat' \in [Drain -> {"on", "off", "failed"}]
        /\ UNCHANGED <<row, records, requests, history, crashes, stalls>>
    BY <1>33 DEF DrainAborts, TypeOK
  <2> QED
    BY <2>2, <2>3 DEF TypeOK
<1>34. CASE LeaseExpires
  BY <1>34, EmptySeq DEF LeaseExpires, TypeOK, PCs, RunStates
<1>35. CASE Stall
  BY <1>35, EmptySeq DEF Stall, TypeOK, PCs, RunStates
<1>36. CASE WorkerCrash
  BY <1>36, EmptySeq DEF WorkerCrash, TypeOK, PCs, RunStates
<1>37. CASE WebCrash
  BY <1>37, EmptySeq DEF WebCrash, TypeOK, PCs, RunStates
<1>38. CASE RequestAborts
  BY <1>38 DEF RequestAborts, TypeOK
<1>39. CASE UNCHANGED vars
  BY <1>39 DEF vars, TypeOK
<1> QED
  BY <1>1, <1>2, <1>3, <1>4, <1>5, <1>6, <1>7, <1>8, <1>9, <1>10, <1>11, <1>12, <1>13, <1>14, <1>15, <1>16, <1>17, <1>18, <1>19, <1>20, <1>21, <1>22, <1>23, <1>24, <1>25, <1>26, <1>27, <1>28, <1>29, <1>30, <1>31, <1>32, <1>33, <1>34, <1>35, <1>36, <1>37, <1>38, <1>39
     DEF Next, Resume, DrainStep, Handler

\* Every reachable state has the types the code gives it.
THEOREM Typing == Spec => []TypeOK
<1> QED
  BY TypeInit, TypeStep, PTL DEF Spec

-----------------------------------------------------------------------------
(* Serialization *)

\* A drain whose heartbeat task is not dead owns an unexpired lease from its
\* acquire_lease to its finally.  The heartbeat task lives only while a handler
\* runs, or is left behind by an abort until the lease is released, and its
\* death is noticed before anything else is done.
LeaseInv ==
    /\ \A d \in Drain : Healthy(d) => owner = d /\ ~expired
    /\ \A d \in Drain : heartbeat[d] = "failed" => pc[d] \in {"run", "finalbeat"}
    /\ \A d \in Drain :
          heartbeat[d] = "on" => pc[d] \in {"run", "finalbeat", "release", "idle"}

LEMMA LeaseInit == Init => LeaseInv
  BY DEF Init, LeaseInv, Healthy, InBody

LEMMA LeaseStep ==
    ASSUME MaxStalls = 0
    PROVE  TypeOK /\ LeaseInv /\ [Next]_vars => LeaseInv'
<1> SUFFICES ASSUME TypeOK, LeaseInv, [Next]_vars PROVE LeaseInv'
  OBVIOUS
<1> USE DEF row, records, locals, requests, history, bounds,
            Goto, SetHeartbeat, Leave, Renew
<1>t. /\ pc \in [Drain -> PCs] /\ heartbeat \in [Drain -> {"off", "on", "failed"}]
      /\ owner \in Drain \cup {NoOne} /\ stalls \in Nat /\ NoOne \notin Drain
  BY DrainAssumption DEF TypeOK
<1>0. ASSUME UNCHANGED <<pc, heartbeat, owner, expired>> PROVE LeaseInv'
  BY <1>0 DEF LeaseInv, Healthy
<1>1. ASSUME NEW e \in Event, AppendEvent(e) \/ RemovePendingEvent(e)
      PROVE  LeaseInv'
  BY <1>1, <1>0 DEF AppendEvent, RemovePendingEvent
<1>2. ASSUME NEW e \in Event, MarkScheduled(e) PROVE LeaseInv'
  BY <1>2, <1>t DEF MarkScheduled, Unused, LeaseInv, Healthy, InBody, PCs
<1>3. ASSUME NEW r \in DOMAIN runs, RequestRunTermination(r) PROVE LeaseInv'
  BY <1>3, <1>0 DEF RequestRunTermination
<1>4. CASE ResumeScan \/ ResumeClear
  BY <1>4, <1>0 DEF ResumeScan, ResumeClear
<1>5. CASE ResumeMark
  BY <1>5, <1>t DEF ResumeMark, Unused, LeaseInv, Healthy, InBody, PCs
<1>6. ASSUME NEW d \in Drain, AcquireLease(d) PROVE LeaseInv'
  BY <1>6, <1>t DEF AcquireLease, LeaseInv, Healthy, InBody, PCs
<1>7. ASSUME NEW d \in Drain, RestoreInflight(d) PROVE LeaseInv'
  BY <1>7, <1>t DEF RestoreInflight, LeaseInv, Healthy, InBody, PCs
<1>8. ASSUME NEW d \in Drain, PopNothing(d) PROVE LeaseInv'
  BY <1>8, <1>t DEF PopNothing, LeaseInv, Healthy, InBody, PCs
<1>9. ASSUME NEW d \in Drain, PopNextBatch(d) PROVE LeaseInv'
  BY <1>9, <1>t DEF PopNextBatch, LeaseInv, Healthy, InBody, PCs
<1>10. ASSUME NEW d \in Drain, MarkPriorStale(d) PROVE LeaseInv'
  BY <1>10, <1>0 DEF MarkPriorStale
<1>11. ASSUME NEW d \in Drain, StartRun(d) PROVE LeaseInv'
  BY <1>11, <1>t DEF StartRun, LeaseInv, Healthy, InBody, PCs
<1>12. ASSUME NEW d \in Drain, CheckTermination(d) PROVE LeaseInv'
  BY <1>12, <1>t DEF CheckTermination, LeaseInv, Healthy, InBody, PCs
<1>13. ASSUME NEW d \in Drain, FirstHeartbeat(d) PROVE LeaseInv'
  BY <1>13, <1>t DEF FirstHeartbeat, LeaseInv, Healthy, InBody, PCs
<1>14. ASSUME NEW d \in Drain, FinalHeartbeat(d) PROVE LeaseInv'
  BY <1>14, <1>t DEF FinalHeartbeat, LeaseInv, Healthy, InBody, PCs
<1>15. ASSUME NEW d \in Drain, AckBatch(d, "ack", "record") PROVE LeaseInv'
  BY <1>15, <1>t DEF AckBatch, LeaseInv, Healthy, InBody, PCs
<1>16. ASSUME NEW d \in Drain, AckBatch(d, "ackTerminated", "recordTerminated") PROVE LeaseInv'
  BY <1>16, <1>t DEF AckBatch, LeaseInv, Healthy, InBody, PCs
<1>17. ASSUME NEW d \in Drain, RecordRun(d, "record", "renew") PROVE LeaseInv'
  BY <1>17, <1>t DEF RecordRun, LeaseInv, Healthy, InBody, PCs
<1>18. ASSUME NEW d \in Drain, RecordRun(d, "recordTerminated", "pop") PROVE LeaseInv'
  BY <1>18, <1>t DEF RecordRun, LeaseInv, Healthy, InBody, PCs
<1>19. ASSUME NEW d \in Drain, MarkInflightFailed(d) PROVE LeaseInv'
  BY <1>19, <1>t DEF MarkInflightFailed, LeaseInv, Healthy, InBody, PCs
<1>20. ASSUME NEW d \in Drain, RecordFailure(d) PROVE LeaseInv'
  BY <1>20, <1>t DEF RecordFailure, LeaseInv, Healthy, InBody, PCs
<1>21. ASSUME NEW d \in Drain, LoopHeartbeat(d) PROVE LeaseInv'
  BY <1>21, <1>t DEF LoopHeartbeat, LeaseInv, Healthy, InBody, PCs
<1>22. ASSUME NEW d \in Drain, ReleaseLease(d) PROVE LeaseInv'
  BY <1>22, <1>t DEF ReleaseLease, LeaseInv, Healthy, InBody, PCs
<1>23. ASSUME NEW d \in Drain, ClearActorScheduled(d) PROVE LeaseInv'
  BY <1>23, <1>t DEF ClearActorScheduled, LeaseInv, Healthy, InBody, PCs
<1>24. ASSUME NEW d \in Drain, HasActorEvents(d) PROVE LeaseInv'
  BY <1>24, <1>t DEF HasActorEvents, LeaseInv, Healthy, InBody, PCs
<1>25. ASSUME NEW d \in Drain, MarkActorScheduled(d) PROVE LeaseInv'
  BY <1>25, <1>t DEF MarkActorScheduled, LeaseInv, Healthy, InBody, PCs
<1>26. ASSUME NEW d \in Drain, HandlerReturns(d) PROVE LeaseInv'
  BY <1>26, <1>t DEF HandlerReturns, LeaseInv, Healthy, InBody, PCs
<1>27. ASSUME NEW d \in Drain, HandlerTerminated(d) PROVE LeaseInv'
  BY <1>27, <1>t DEF HandlerTerminated, LeaseInv, Healthy, InBody, PCs
<1>28. ASSUME NEW d \in Drain, HandlerRaises(d) PROVE LeaseInv'
  BY <1>28, <1>t DEF HandlerRaises, LeaseInv, Healthy, InBody, PCs
<1>29. ASSUME NEW d \in Drain, Heartbeat(d) PROVE LeaseInv'
  BY <1>29, <1>t DEF Heartbeat, LeaseInv, Healthy, InBody, PCs
<1>30. ASSUME NEW d \in Drain, HeartbeatRaises(d) PROVE LeaseInv'
  BY <1>30, <1>t DEF HeartbeatRaises, LeaseInv, Healthy, InBody, PCs
<1>31. ASSUME NEW d \in Drain, DrainAborts(d) PROVE LeaseInv'
  BY <1>31, <1>t DEF DrainAborts, LeaseInv, Healthy, InBody, PCs, InFinally
<1>32. CASE LeaseExpires
  BY <1>32, <1>t DEF LeaseExpires, LeaseInv, Healthy, InBody, PCs
<1>33. CASE Stall
  BY <1>33, <1>t DEF Stall
<1>34. CASE WorkerCrash
  BY <1>34 DEF WorkerCrash, LeaseInv, Healthy, InBody
<1>35. CASE WebCrash
  BY <1>35, <1>0 DEF WebCrash
<1>36. CASE RequestAborts
  BY <1>36, <1>0 DEF RequestAborts
<1>37. CASE UNCHANGED vars
  BY <1>37, <1>0 DEF vars
<1> QED
  BY <1>1, <1>2, <1>3, <1>4, <1>5, <1>6, <1>7, <1>8, <1>9, <1>10, <1>11, <1>12, <1>13, <1>14, <1>15, <1>16, <1>17, <1>18, <1>19, <1>20, <1>21, <1>22, <1>23, <1>24, <1>25, <1>26, <1>27, <1>28, <1>29, <1>30, <1>31, <1>32, <1>33, <1>34, <1>35, <1>36, <1>37
     DEF Next, Resume, DrainStep, Handler

\* While no drain stalls beyond its lease, one healthy drain at most is in the
\* body of its try: the lease serializes the runs of a merge request, through
\* crashes, restarts, aborted transactions and any number of extra drains.
THEOREM Serialized ==
    ASSUME MaxStalls = 0
    PROVE  Spec => []OneHealthyRun
<1>1. LeaseInv => OneHealthyRun
  BY DEF LeaseInv, OneHealthyRun
<1>2. TypeOK /\ LeaseInv /\ [Next]_vars => LeaseInv'
  BY LeaseStep
<1> QED
  BY <1>1, <1>2, LeaseInit, Typing, PTL DEF Spec

\* What a step does to the row's events: most leave both lists alone, and the
\* others are the drain's own moves, the append and the cancel.
LEMMA QueueStep ==
    ASSUME [Next]_vars
    PROVE  \/ UNCHANGED <<pending, inflight, fate>>
           \/ \E e \in Event : AppendEvent(e) \/ RemovePendingEvent(e)
           \/ \E d \in Drain : \/ RestoreInflight(d) \/ PopNextBatch(d)
                              \/ AckBatch(d, "ack", "record")
                              \/ AckBatch(d, "ackTerminated", "recordTerminated")
                              \/ MarkInflightFailed(d)
<1> USE DEF row, records, locals, requests, history, bounds
<1>1. ASSUME NEW e \in Event, MarkScheduled(e)
      PROVE  UNCHANGED <<pending, inflight, fate>>
  BY <1>1 DEF MarkScheduled
<1>2. ASSUME NEW r \in DOMAIN runs, RequestRunTermination(r)
      PROVE  UNCHANGED <<pending, inflight, fate>>
  BY <1>2 DEF RequestRunTermination
<1>3. CASE Resume
  BY <1>3 DEF Resume, ResumeScan, ResumeClear, ResumeMark
<1>4. ASSUME NEW d \in Drain,
             \/ AcquireLease(d) \/ PopNothing(d) \/ MarkPriorStale(d)
             \/ StartRun(d) \/ CheckTermination(d) \/ FirstHeartbeat(d)
      PROVE  UNCHANGED <<pending, inflight, fate>>
  BY <1>4 DEF AcquireLease, PopNothing, MarkPriorStale, StartRun,
              CheckTermination, FirstHeartbeat
<1>5. ASSUME NEW d \in Drain,
             \/ FinalHeartbeat(d) \/ RecordRun(d, "record", "renew")
             \/ RecordRun(d, "recordTerminated", "pop") \/ RecordFailure(d)
             \/ LoopHeartbeat(d) \/ ReleaseLease(d) \/ ClearActorScheduled(d)
             \/ HasActorEvents(d) \/ MarkActorScheduled(d)
      PROVE  UNCHANGED <<pending, inflight, fate>>
  BY <1>5 DEF FinalHeartbeat, RecordRun, RecordFailure, LoopHeartbeat,
              ReleaseLease, ClearActorScheduled, HasActorEvents, MarkActorScheduled
<1>6. ASSUME NEW d \in Drain,
             Handler(d) \/ Heartbeat(d) \/ HeartbeatRaises(d) \/ DrainAborts(d)
      PROVE  UNCHANGED <<pending, inflight, fate>>
  BY <1>6 DEF Handler, HandlerReturns, HandlerTerminated, HandlerRaises,
              Heartbeat, HeartbeatRaises, DrainAborts
<1>7. CASE LeaseExpires \/ Stall \/ RequestAborts \/ WorkerCrash \/ WebCrash
  BY <1>7 DEF LeaseExpires, Stall, RequestAborts, WorkerCrash, WebCrash
<1>8. CASE UNCHANGED vars
  BY <1>8 DEF vars
<1> QED
  BY <1>1, <1>2, <1>3, <1>4, <1>5, <1>6, <1>7, <1>8 DEF Next, DrainStep

\* While no drain stalls beyond its lease, a drain moves events into or out of
\* inflight only as the lease's owner: no way out of a drain that lost its lease
\* acks, fails or pops a batch of the drain that took over.
THEOREM OwnerMoves ==
    ASSUME MaxStalls = 0
    PROVE  Spec => OnlyOwnerMoves
<1> DEFINE A == \A d \in Drain :
                   (pc'[d] # pc[d] /\ inflight' # inflight) => owner = d
<1>1. TypeOK /\ LeaseInv /\ [Next]_vars => [A]_vars
  <2> SUFFICES ASSUME TypeOK, LeaseInv, [Next]_vars,
                      NEW d \in Drain, pc'[d] # pc[d], inflight' # inflight
               PROVE  owner = d
    OBVIOUS
  <2>1. PICK x \in Drain : \/ RestoreInflight(x) \/ PopNextBatch(x)
                          \/ AckBatch(x, "ack", "record")
                          \/ AckBatch(x, "ackTerminated", "recordTerminated")
                          \/ MarkInflightFailed(x)
    BY QueueStep DEF AppendEvent, RemovePendingEvent, records, locals
  <2>2. /\ pc[x] \in {"restore", "pop", "ack", "ackTerminated", "fail"}
        /\ \E to \in PCs : pc' = [pc EXCEPT ![x] = to]
    BY <2>1 DEF RestoreInflight, PopNextBatch, AckBatch, MarkInflightFailed,
                Goto, PCs
  <2>3. x = d
    BY <2>2 DEF TypeOK
  <2>4. Healthy(x)
    BY <2>2 DEF LeaseInv, Healthy, InBody, PCs
  <2> QED
    BY <2>3, <2>4 DEF LeaseInv
<1>2. TypeOK /\ LeaseInv /\ [Next]_vars => LeaseInv'
  BY LeaseStep
<1> QED
  BY <1>1, <1>2, LeaseInit, Typing, PTL DEF Spec, OnlyOwnerMoves

-----------------------------------------------------------------------------
(* What is acked was served *)

\* From the handler's end to the ack, a drain's batch has been served.
ServedInv ==
    /\ AckedWasServed
    /\ \A d \in Drain : pc[d] \in {"finalbeat", "ack", "ackTerminated"}
                          => ToSet(batch[d]) \subseteq served

LEMMA ServedStep == TypeOK /\ ServedInv /\ [Next]_vars => ServedInv'
<1> SUFFICES ASSUME TypeOK, ServedInv, [Next]_vars PROVE ServedInv'
  OBVIOUS
<1> USE DEF row, records, locals, requests, history, bounds, Goto, Leave
<1>t. /\ pc \in [Drain -> PCs] /\ batch \in [Drain -> Seq(Event)]
      /\ fate \in [Event -> Fates]
  BY DEF TypeOK
<1>e. ToSet(<<>>) = {}
  BY EmptySeq DEF ToSet
<1>0. ASSUME UNCHANGED <<pc, batch, served, fate>> PROVE ServedInv'
  BY <1>0 DEF ServedInv, AckedWasServed
\* A drain that goes somewhere else than to an ack owes nothing.
<1>m. ASSUME NEW d \in Drain, UNCHANGED <<served, fate>>,
             \A x \in Drain \ {d} : pc'[x] = pc[x] /\ batch'[x] = batch[x],
             pc'[d] \notin {"finalbeat", "ack", "ackTerminated"}
      PROVE  ServedInv'
  BY <1>m, <1>t DEF ServedInv, AckedWasServed
<1>1. ASSUME NEW e \in Event, AppendEvent(e) \/ RemovePendingEvent(e)
      PROVE  ServedInv'
  BY <1>1, <1>t DEF AppendEvent, RemovePendingEvent, ServedInv, AckedWasServed
<1>2. ASSUME NEW e \in Event, MarkScheduled(e) PROVE ServedInv'
  BY <1>2, <1>m, <1>t, <1>0 DEF MarkScheduled, PCs
<1>3. ASSUME NEW r \in DOMAIN runs, RequestRunTermination(r) PROVE ServedInv'
  BY <1>3, <1>0 DEF RequestRunTermination
<1>4. CASE Resume
  BY <1>4, <1>m, <1>t, <1>0 DEF Resume, ResumeScan, ResumeClear, ResumeMark, PCs
<1>5. ASSUME NEW d \in Drain,
             AcquireLease(d) \/ RestoreInflight(d) \/ PopNothing(d)
      PROVE  ServedInv'
  BY <1>5, <1>m, <1>t DEF AcquireLease, RestoreInflight, PopNothing, PCs
<1>6. ASSUME NEW d \in Drain, PopNextBatch(d) PROVE ServedInv'
  BY <1>6, <1>m, <1>t DEF PopNextBatch, PCs
<1>7. ASSUME NEW d \in Drain, MarkPriorStale(d) \/ StartRun(d)
      PROVE  ServedInv'
  BY <1>7, <1>m, <1>t, <1>0 DEF MarkPriorStale, StartRun, PCs
<1>8. ASSUME NEW d \in Drain, CheckTermination(d) PROVE ServedInv'
  BY <1>8, <1>t DEF CheckTermination, ServedInv, AckedWasServed, PCs
<1>9. ASSUME NEW d \in Drain, FirstHeartbeat(d) PROVE ServedInv'
  BY <1>9, <1>m, <1>t DEF FirstHeartbeat, PCs
<1>10. ASSUME NEW d \in Drain, FinalHeartbeat(d) PROVE ServedInv'
  <2>1. CASE pc' = [pc EXCEPT ![d] = "ack"] /\ UNCHANGED batch
    BY <1>10, <1>t, <2>1 DEF FinalHeartbeat, ServedInv, AckedWasServed
  <2>2. CASE heartbeat[d] = "failed" \/ owner # d
    BY <1>10, <1>m, <1>t, <2>2 DEF FinalHeartbeat, PCs
  <2> QED
    BY <1>10, <2>1, <2>2 DEF FinalHeartbeat
<1>11. ASSUME NEW d \in Drain, NEW from \in {"ack", "ackTerminated"},
              NEW to \in {"record", "recordTerminated"}, AckBatch(d, from, to)
       PROVE  ServedInv'
  <2>1. ToSet(batch[d]) \subseteq served
    BY <1>11 DEF AckBatch, ServedInv
  <2>2. AckedWasServed'
    BY <1>11, <2>1 DEF AckBatch, Settle, ServedInv, AckedWasServed
  <2> QED
    BY <1>11, <1>t, <2>2 DEF AckBatch, ServedInv, PCs
<1>12. ASSUME NEW d \in Drain,
              \/ RecordRun(d, "record", "renew")
              \/ RecordRun(d, "recordTerminated", "pop")
              \/ RecordFailure(d) \/ LoopHeartbeat(d)
       PROVE  ServedInv'
  BY <1>12, <1>m, <1>t DEF RecordRun, RecordFailure, LoopHeartbeat, PCs
<1>13. ASSUME NEW d \in Drain, MarkInflightFailed(d) PROVE ServedInv'
  <2>1. fate' = fate \/ fate' = Settle(batch[d], "dead")
    BY <1>13 DEF MarkInflightFailed
  <2>2. AckedWasServed'
    BY <1>13, <2>1 DEF MarkInflightFailed, Settle, ServedInv, AckedWasServed
  <2> QED
    BY <1>13, <1>t, <2>2 DEF MarkInflightFailed, ServedInv, PCs
<1>14. ASSUME NEW d \in Drain,
              \/ ReleaseLease(d) \/ ClearActorScheduled(d)
              \/ HasActorEvents(d) \/ MarkActorScheduled(d)
       PROVE  ServedInv'
  BY <1>14, <1>m, <1>t DEF ReleaseLease, ClearActorScheduled, HasActorEvents,
                     MarkActorScheduled, PCs
<1>15. ASSUME NEW d \in Drain, HandlerReturns(d) PROVE ServedInv'
  BY <1>15, <1>t DEF HandlerReturns, ServedInv, AckedWasServed, PCs
<1>16. ASSUME NEW d \in Drain, HandlerTerminated(d) PROVE ServedInv'
  BY <1>16, <1>t, <1>e DEF HandlerTerminated, ServedInv, AckedWasServed, PCs
<1>17. ASSUME NEW d \in Drain, HandlerRaises(d) PROVE ServedInv'
  BY <1>17, <1>m, <1>t DEF HandlerRaises, PCs
<1>18. ASSUME NEW d \in Drain, Heartbeat(d) \/ HeartbeatRaises(d) PROVE ServedInv'
  BY <1>18, <1>0 DEF Heartbeat, HeartbeatRaises
<1>19. ASSUME NEW d \in Drain, DrainAborts(d) PROVE ServedInv'
  BY <1>19, <1>m, <1>t DEF DrainAborts, PCs
<1>20. CASE LeaseExpires \/ Stall \/ RequestAborts \/ WebCrash
  BY <1>20, <1>0 DEF LeaseExpires, Stall, RequestAborts, WebCrash
<1>21. CASE WorkerCrash
  BY <1>21 DEF WorkerCrash, ServedInv, AckedWasServed
<1>22. CASE UNCHANGED vars
  BY <1>22, <1>0 DEF vars
<1> QED
  BY <1>1, <1>2, <1>3, <1>4, <1>5, <1>6, <1>7, <1>8, <1>9, <1>10, <1>11, <1>12,
     <1>13, <1>14, <1>15, <1>16, <1>17, <1>18, <1>19, <1>20, <1>21, <1>22
     DEF Next, DrainStep, Handler

\* An event leaves the queue as acked only after a handler finished a batch with
\* it, or a termination covered it: stalls, crashes and late acks included.
THEOREM AcksAreServed == Spec => []AckedWasServed
<1>1. Init => ServedInv
  BY DEF Init, ServedInv, AckedWasServed
<1>2. ServedInv => AckedWasServed
  BY DEF ServedInv
<1> QED
  BY <1>1, <1>2, ServedStep, Typing, PTL DEF Spec

-----------------------------------------------------------------------------
(* What is recorded as succeeded is off the queue *)

\* An event that has left the queue never comes back to it.
Gone(e) == fate[e] \notin {"unseen", "queued"}

LEMMA FateStep ==
    ASSUME TypeOK, [Next]_vars, NEW e \in Event, Gone(e)
    PROVE  Gone(e)'
<1>t. fate \in [Event -> Fates]
  BY DEF TypeOK
<1>1. CASE UNCHANGED <<pending, inflight, fate>>
  BY <1>1 DEF Gone
<1>2. ASSUME NEW x \in Event, AppendEvent(x) \/ RemovePendingEvent(x)
      PROVE  Gone(e)'
  BY <1>2, <1>t DEF AppendEvent, RemovePendingEvent, Gone
<1>3. ASSUME NEW d \in Drain, RestoreInflight(d) \/ PopNextBatch(d)
      PROVE  UNCHANGED fate
  BY <1>3 DEF RestoreInflight, PopNextBatch, history
<1>4. ASSUME NEW d \in Drain,
             \/ AckBatch(d, "ack", "record")
             \/ AckBatch(d, "ackTerminated", "recordTerminated")
             \/ MarkInflightFailed(d)
      PROVE  fate' = fate \/ \E f \in {"acked", "dead"} : fate' = Settle(batch[d], f)
  BY <1>4 DEF AckBatch, MarkInflightFailed
<1>5. ASSUME NEW d \in Drain, NEW f \in {"acked", "dead"}, fate' = Settle(batch[d], f)
      PROVE  Gone(e)'
  BY <1>5, <1>t DEF Settle, Gone
<1> QED
  BY QueueStep, <1>1, <1>2, <1>3, <1>4, <1>5 DEF Gone

\* A record once written keeps its events, and says succeeded only when a drain
\* wrote that verdict.
LEMMA RunsStep ==
    ASSUME TypeOK, [Next]_vars
    PROVE  /\ \A r \in DOMAIN runs : /\ r \in DOMAIN runs'
                                     /\ runs'[r].events = runs[r].events
           /\ \A r \in DOMAIN runs' :
                 \/ r \in DOMAIN runs
                 \/ \E d \in Drain : StartRun(d) /\ r = Len(runs) + 1
                       /\ runs'[r] = [events |-> batch[d], state |-> "running"]
           /\ \A r \in DOMAIN runs : runs'[r].state = "succeeded" =>
                 \/ runs[r].state = "succeeded"
                 \/ \E d \in Drain : /\ run[d] = r /\ verdict[d] = "succeeded"
                                     /\ \/ RecordRun(d, "record", "renew")
                                        \/ RecordRun(d, "recordTerminated", "pop")
                                        \/ RecordFailure(d)
<1> DEFINE Goal ==
           /\ \A r \in DOMAIN runs : /\ r \in DOMAIN runs'
                                     /\ runs'[r].events = runs[r].events
           /\ \A r \in DOMAIN runs' :
                 \/ r \in DOMAIN runs
                 \/ \E d \in Drain : StartRun(d) /\ r = Len(runs) + 1
                       /\ runs'[r] = [events |-> batch[d], state |-> "running"]
           /\ \A r \in DOMAIN runs : runs'[r].state = "succeeded" =>
                 \/ runs[r].state = "succeeded"
                 \/ \E d \in Drain : /\ run[d] = r /\ verdict[d] = "succeeded"
                                     /\ \/ RecordRun(d, "record", "renew")
                                        \/ RecordRun(d, "recordTerminated", "pop")
                                        \/ RecordFailure(d)
<1> SUFFICES Goal
  OBVIOUS
<1> USE DEF row, records, locals, requests, history, bounds
<1>r. runs \in Seq(RunRecord)
  BY DEF TypeOK, RunRecord
<1>0. ASSUME UNCHANGED runs PROVE Goal
  BY <1>0
\* A new state of one record.
<1>w. ASSUME NEW k, NEW v, runs' = [runs EXCEPT ![k].state = v]
      PROVE  /\ DOMAIN runs' = DOMAIN runs
             /\ \A r \in DOMAIN runs :
                   /\ runs'[r].events = runs[r].events
                   /\ runs'[r].state = IF r = k THEN v ELSE runs[r].state
  <2>1. DOMAIN runs' = DOMAIN runs
    BY <1>w
  <2>2. ASSUME NEW r \in DOMAIN runs
        PROVE  /\ runs'[r].events = runs[r].events
               /\ runs'[r].state = IF r = k THEN v ELSE runs[r].state
    <3>1. runs[r] \in RunRecord
      BY <1>r, LenProperties, ElementOfSeq
    <3> QED
      BY <1>w, <3>1 DEF RunRecord
  <2> QED
    BY <2>1, <2>2
<1> HIDE DEF Goal
<1>1. ASSUME NEW e \in Event,
             AppendEvent(e) \/ MarkScheduled(e) \/ RemovePendingEvent(e)
      PROVE  Goal
  BY <1>1, <1>0 DEF AppendEvent, MarkScheduled, RemovePendingEvent
<1>2. ASSUME NEW r \in DOMAIN runs, RequestRunTermination(r) PROVE Goal
  BY <1>2, <1>0 DEF RequestRunTermination
<1>3. CASE Resume
  BY <1>3, <1>0 DEF Resume, ResumeScan, ResumeClear, ResumeMark
<1>4. ASSUME NEW d \in Drain,
             \/ AcquireLease(d) \/ RestoreInflight(d) \/ PopNothing(d)
             \/ PopNextBatch(d) \/ CheckTermination(d) \/ FirstHeartbeat(d)
             \/ FinalHeartbeat(d)
      PROVE  Goal
  BY <1>4, <1>0 DEF AcquireLease, RestoreInflight, PopNothing, PopNextBatch,
                    CheckTermination, FirstHeartbeat, FinalHeartbeat
<1>5. ASSUME NEW d \in Drain, MarkPriorStale(d) PROVE Goal
  <2>1. PICK q \in priors[d] : runs' = [runs EXCEPT ![q].state = "stale"]
    BY <1>5 DEF MarkPriorStale
  <2> QED
    BY <1>w, <2>1 DEF Goal
<1>6. ASSUME NEW d \in Drain, StartRun(d) PROVE Goal
  <2> DEFINE rec == [events |-> batch[d], state |-> "running"]
  <2>1. rec \in RunRecord
    BY DEF TypeOK, RunRecord, RunStates
  <2>2. /\ Len(runs') = Len(runs) + 1 /\ runs'[Len(runs) + 1] = rec
        /\ \A r \in 1..Len(runs) : runs'[r] = runs[r]
        /\ runs' \in Seq(RunRecord)
    BY <1>6, <1>r, <2>1, AppendProperties DEF StartRun
  <2>3. /\ DOMAIN runs = 1..Len(runs) /\ DOMAIN runs' = 1..Len(runs) + 1
        /\ Len(runs) \in Nat
    BY <1>r, <2>2, LenProperties
  <2> QED
    BY <1>6, <2>2, <2>3 DEF Goal
<1>7. ASSUME NEW d \in Drain,
             \/ AckBatch(d, "ack", "record")
             \/ AckBatch(d, "ackTerminated", "recordTerminated")
             \/ MarkInflightFailed(d) \/ LoopHeartbeat(d)
             \/ ReleaseLease(d) \/ ClearActorScheduled(d)
             \/ HasActorEvents(d) \/ MarkActorScheduled(d)
      PROVE  Goal
  BY <1>7, <1>0 DEF AckBatch, MarkInflightFailed, LoopHeartbeat, ReleaseLease,
                    ClearActorScheduled, HasActorEvents, MarkActorScheduled
<1>8. ASSUME NEW d \in Drain,
             \/ RecordRun(d, "record", "renew")
             \/ RecordRun(d, "recordTerminated", "pop")
             \/ RecordFailure(d)
      PROVE  Goal
  <2>1. runs' = [runs EXCEPT ![run[d]].state = verdict[d]]
    BY <1>8 DEF RecordRun, RecordFailure, WroteVerdict
  <2> QED
    BY <1>8, <1>w, <2>1 DEF Goal
<1>9. ASSUME NEW d \in Drain,
             Handler(d) \/ Heartbeat(d) \/ HeartbeatRaises(d) \/ DrainAborts(d)
      PROVE  Goal
  BY <1>9, <1>0 DEF Handler, HandlerReturns, HandlerTerminated, HandlerRaises,
                    Heartbeat, HeartbeatRaises, DrainAborts
<1>10. CASE LeaseExpires \/ Stall \/ RequestAborts \/ WorkerCrash \/ WebCrash
  BY <1>10, <1>0 DEF LeaseExpires, Stall, RequestAborts, WorkerCrash, WebCrash
<1>11. CASE UNCHANGED vars
  BY <1>11, <1>0 DEF vars
<1> QED
  BY <1>1, <1>2, <1>3, <1>4, <1>5, <1>6, <1>7, <1>8, <1>9, <1>10, <1>11
     DEF Next, DrainStep

\* Where a drain holds a batch, and where it has a run of its own to write.
Holding == {"start", "check", "beat", "run", "finalbeat", "ack",
            "ackTerminated", "fail"}
Running == {"check", "beat", "run", "finalbeat", "ack", "ackTerminated", "fail",
            "record", "recordTerminated", "recordFailed"}

\* What a step may do to a drain: nothing, leave what it held, pop, start, go on
\* with the batch, give up on its lease or its handler, or ack.
Moves(d) ==
    \/ /\ pc'[d] = pc[d] /\ batch'[d] = batch[d]
       /\ run'[d] = run[d] /\ verdict'[d] = verdict[d]
       /\ heartbeat[d] = "failed" => heartbeat'[d] = "failed"
    \/ /\ pc'[d] \notin Holding \cup Running
       /\ batch'[d] \in {batch[d], <<>>}
    \/ PopNextBatch(d)
    \/ StartRun(d)
    \/ /\ {pc[d], pc'[d]} \subseteq Holding \cap Running
       /\ batch'[d] = batch[d] /\ run'[d] = run[d]
       /\ heartbeat[d] = "failed" /\ pc[d] # "beat" => heartbeat'[d] = "failed"
       /\ pc'[d] = "fail" => HandlerRaises(d)
    \/ /\ pc[d] \in Running /\ pc'[d] = "recordFailed"
       /\ batch'[d] = batch[d] /\ run'[d] = run[d]
       /\ verdict'[d] # "succeeded"
    \/ AckBatch(d, "ack", "record") \/ AckBatch(d, "ackTerminated", "recordTerminated")

LEMMA DrainMoves ==
    ASSUME TypeOK, [Next]_vars, NEW x \in Drain
    PROVE  Moves(x)
<1> USE DEF row, records, locals, requests, history, bounds, Goto, SetHeartbeat,
            Leave, Holding, Running
<1>t. /\ pc \in [Drain -> PCs] /\ batch \in [Drain -> Seq(Event)]
      /\ run \in [Drain -> Nat] /\ verdict \in [Drain -> RunStates]
      /\ heartbeat \in [Drain -> {"off", "on", "failed"}]
  BY DEF TypeOK
<1>0. ASSUME UNCHANGED <<pc, batch, run, verdict, heartbeat>> PROVE Moves(x)
  BY <1>0 DEF Moves
\* A step of another drain.
<1>o. ASSUME NEW d \in Drain, d # x,
             DrainStep(d) \/ Handler(d) \/ Heartbeat(d) \/ HeartbeatRaises(d)
                \/ DrainAborts(d)
      PROVE  Moves(x)
  <2>1. CASE \/ AcquireLease(d) \/ RestoreInflight(d) \/ PopNothing(d)
             \/ PopNextBatch(d) \/ MarkPriorStale(d) \/ StartRun(d)
             \/ CheckTermination(d) \/ FirstHeartbeat(d)
    BY <1>o, <1>t, <2>1
       DEF AcquireLease, RestoreInflight, PopNothing, PopNextBatch,
           MarkPriorStale, StartRun, CheckTermination, FirstHeartbeat, Moves
  <2>2. CASE FinalHeartbeat(d) \/ AckBatch(d, "ack", "record")
    BY <1>o, <1>t, <2>2 DEF FinalHeartbeat, AckBatch, Moves
  <2>3. CASE \/ AckBatch(d, "ackTerminated", "recordTerminated")
             \/ RecordRun(d, "record", "renew")
             \/ RecordRun(d, "recordTerminated", "pop")
    BY <1>o, <1>t, <2>3 DEF AckBatch, RecordRun, Moves
  <2>4. CASE MarkInflightFailed(d)
    <3>1. UNCHANGED <<batch, run, heartbeat>> /\ pc'[x] = pc[x]
      BY <1>o, <1>t, <2>4 DEF MarkInflightFailed
    <3>2. verdict'[x] = verdict[x]
      BY <1>o, <1>t, <2>4 DEF MarkInflightFailed
    <3> QED
      BY <3>1, <3>2 DEF Moves
  <2>5. CASE \/ RecordFailure(d) \/ LoopHeartbeat(d) \/ ReleaseLease(d)
             \/ ClearActorScheduled(d) \/ HasActorEvents(d)
             \/ MarkActorScheduled(d)
    BY <1>o, <1>t, <2>5
       DEF RecordFailure, LoopHeartbeat, ReleaseLease, ClearActorScheduled,
           HasActorEvents, MarkActorScheduled, Moves
  <2>6. CASE HandlerReturns(d) \/ HandlerTerminated(d)
    BY <1>o, <1>t, <2>6 DEF HandlerReturns, HandlerTerminated, Moves
  <2>7. CASE HandlerRaises(d)
    BY <1>o, <1>t, <2>7 DEF HandlerRaises, Moves
  <2>8. CASE Heartbeat(d) \/ HeartbeatRaises(d) \/ DrainAborts(d)
    BY <1>o, <1>t, <2>8 DEF Heartbeat, HeartbeatRaises, DrainAborts, Moves
  <2> QED
    BY <1>o, <2>1, <2>2, <2>3, <2>4, <2>5, <2>6, <2>7, <2>8
       DEF DrainStep, Handler
<1>1. ASSUME NEW e \in Event,
             AppendEvent(e) \/ RemovePendingEvent(e)
      PROVE  Moves(x)
  BY <1>1, <1>0 DEF AppendEvent, RemovePendingEvent
<1>2. ASSUME NEW e \in Event, MarkScheduled(e) PROVE Moves(x)
  BY <1>2, <1>t DEF MarkScheduled, Moves
<1>3. ASSUME NEW r \in DOMAIN runs, RequestRunTermination(r) PROVE Moves(x)
  BY <1>3, <1>0 DEF RequestRunTermination
<1>4. CASE Resume
  BY <1>4, <1>t DEF Resume, ResumeScan, ResumeClear, ResumeMark, Moves
<1>5. CASE AcquireLease(x) \/ RestoreInflight(x) \/ PopNothing(x)
  BY <1>5, <1>t DEF AcquireLease, RestoreInflight, PopNothing, Moves
<1>6. CASE PopNextBatch(x) \/ StartRun(x) \/ AckBatch(x, "ack", "record")
             \/ AckBatch(x, "ackTerminated", "recordTerminated")
  BY <1>6 DEF Moves
<1>7. CASE MarkPriorStale(x)
  BY <1>7, <1>t DEF MarkPriorStale, Moves
<1>8. CASE CheckTermination(x) \/ FirstHeartbeat(x)
  <2>1. /\ pc[x] \in {"check", "beat"}
        /\ pc'[x] \in {"ackTerminated", "beat", "run"}
        /\ UNCHANGED <<batch, run>>
    BY <1>8, <1>t DEF CheckTermination, FirstHeartbeat
  <2>2. heartbeat[x] = "failed" /\ pc[x] # "beat" => heartbeat'[x] = "failed"
    BY <1>8, <1>t DEF CheckTermination, FirstHeartbeat
  <2> QED
    BY <2>1, <2>2 DEF Moves
<1>9. CASE FinalHeartbeat(x)
  <2>1. CASE heartbeat[x] = "failed"
    BY <1>9, <1>t, <2>1 DEF FinalHeartbeat, Moves
  <2>2. CASE heartbeat[x] # "failed"
    BY <1>9, <1>t, <2>2 DEF FinalHeartbeat, Moves
  <2> QED
    BY <2>1, <2>2
<1>10. CASE \/ RecordRun(x, "record", "renew")
            \/ RecordRun(x, "recordTerminated", "pop")
            \/ RecordFailure(x) \/ LoopHeartbeat(x)
  BY <1>10, <1>t DEF RecordRun, RecordFailure, LoopHeartbeat, Moves
<1>11. CASE MarkInflightFailed(x)
  <2>1. /\ pc[x] = "fail" /\ pc'[x] = "recordFailed"
        /\ UNCHANGED <<batch, run>>
    BY <1>11, <1>t DEF MarkInflightFailed
  <2>2. verdict'[x] # "succeeded"
    BY <1>11, <1>t DEF MarkInflightFailed
  <2> QED
    BY <2>1, <2>2 DEF Moves
<1>12. CASE \/ ReleaseLease(x) \/ ClearActorScheduled(x)
            \/ HasActorEvents(x) \/ MarkActorScheduled(x)
  BY <1>12, <1>t DEF ReleaseLease, ClearActorScheduled, HasActorEvents,
                     MarkActorScheduled, Moves
<1>13. CASE HandlerReturns(x)
  BY <1>13, <1>t DEF HandlerReturns, Moves
<1>14. CASE HandlerTerminated(x)
  BY <1>14, <1>t DEF HandlerTerminated, Moves
<1>15. CASE HandlerRaises(x)
  BY <1>15, <1>t DEF HandlerRaises, Moves
<1>16. CASE Heartbeat(x) \/ HeartbeatRaises(x) \/ DrainAborts(x)
  BY <1>16, <1>t DEF Heartbeat, HeartbeatRaises, DrainAborts, InFinally, Moves
<1>17. CASE LeaseExpires \/ Stall \/ RequestAborts \/ WebCrash
  BY <1>17, <1>0 DEF LeaseExpires, Stall, RequestAborts, WebCrash
<1>18. CASE WorkerCrash
  BY <1>18 DEF WorkerCrash, Moves
<1>19. CASE UNCHANGED vars
  BY <1>19, <1>0 DEF vars
<1> QED
  BY <1>o, <1>1, <1>2, <1>3, <1>4, <1>5, <1>6, <1>7, <1>8, <1>9, <1>10, <1>11,
     <1>12, <1>13, <1>14, <1>15, <1>16, <1>17, <1>18, <1>19
     DEF Next, DrainStep, Handler

\* A drain's run is the one about its batch, and is not written as succeeded
\* after a failure.
RunInv ==
    /\ \A d \in Drain : pc[d] \in Running =>
          run[d] \in DOMAIN runs /\ runs[run[d]].events = batch[d]
    /\ \A d \in Drain : pc[d] = "recordFailed" => verdict[d] # "succeeded"

\* A healthy drain's batch is the one in the row.
HoldInv ==
    \A d \in Drain : Healthy(d) /\ pc[d] \in Holding => inflight = batch[d]

\* Between the ack and the record the batch is settled, and so it is after.
DoneInv ==
    /\ \A d \in Drain : pc[d] \in {"record", "recordTerminated"} =>
          \A e \in ToSet(batch[d]) : Gone(e)
    /\ \A r \in DOMAIN runs : runs[r].state = "succeeded" =>
          \A e \in ToSet(runs[r].events) : Gone(e)

LEMMA RunEventsType ==
    ASSUME TypeOK, NEW r \in DOMAIN runs
    PROVE  runs[r].events \in Seq(Event)
<1>1. runs \in Seq(RunRecord)
  BY DEF TypeOK, RunRecord
<1>2. runs[r] \in RunRecord
  BY <1>1, LenProperties, ElementOfSeq
<1> QED
  BY <1>2 DEF RunRecord

LEMMA RunStep == TypeOK /\ RunInv /\ [Next]_vars => RunInv'
<1> SUFFICES ASSUME TypeOK, RunInv, [Next]_vars PROVE RunInv'
  OBVIOUS
<1>1. ASSUME NEW d \in Drain
      PROVE  /\ pc'[d] \in Running =>
                   run'[d] \in DOMAIN runs' /\ runs'[run'[d]].events = batch'[d]
             /\ pc'[d] = "recordFailed" => verdict'[d] # "succeeded"
  <2>1. Moves(d)
    BY DrainMoves
  <2>k. ASSUME pc[d] \in Running, run'[d] = run[d], batch'[d] = batch[d]
        PROVE  run'[d] \in DOMAIN runs' /\ runs'[run'[d]].events = batch'[d]
    BY <2>k, RunsStep DEF RunInv
  <2>2. CASE /\ pc'[d] = pc[d] /\ batch'[d] = batch[d]
             /\ run'[d] = run[d] /\ verdict'[d] = verdict[d]
    BY <2>2, <2>k DEF RunInv
  <2>3. CASE pc'[d] \notin Holding \cup Running
    BY <2>3 DEF Running
  <2>4. CASE PopNextBatch(d)
    BY <2>4 DEF PopNextBatch, Goto, Running, TypeOK
  <2>5. CASE StartRun(d)
    <3>1. /\ run'[d] = Len(runs) + 1 /\ batch'[d] = batch[d] /\ pc'[d] = "check"
      BY <2>5 DEF StartRun, Goto, TypeOK
    <3>2. /\ Len(runs') = Len(runs) + 1 /\ Len(runs) \in Nat
          /\ runs'[Len(runs) + 1] = [events |-> batch[d], state |-> "running"]
          /\ DOMAIN runs' = 1..Len(runs')
      <4>1. [events |-> batch[d], state |-> "running"] \in RunRecord
        BY DEF TypeOK, RunRecord, RunStates
      <4> QED
        BY <2>5, <4>1, AppendProperties, LenProperties DEF StartRun, TypeOK, RunRecord
    <3> QED
      BY <3>1, <3>2
  <2>6. CASE /\ {pc[d], pc'[d]} \subseteq Holding \cap Running
             /\ batch'[d] = batch[d] /\ run'[d] = run[d]
    BY <2>6, <2>k DEF Holding
  <2>7. CASE /\ pc[d] \in Running /\ pc'[d] = "recordFailed"
             /\ batch'[d] = batch[d] /\ run'[d] = run[d]
             /\ verdict'[d] # "succeeded"
    BY <2>7, <2>k
  <2>8. CASE \/ AckBatch(d, "ack", "record")
             \/ AckBatch(d, "ackTerminated", "recordTerminated")
    <3>1. /\ pc[d] \in Running /\ run'[d] = run[d] /\ batch'[d] = batch[d]
          /\ pc'[d] # "recordFailed"
      BY <2>8 DEF AckBatch, Goto, locals, Running, TypeOK
    <3> QED
      BY <3>1, <2>k
  <2> QED
    BY <2>1, <2>2, <2>3, <2>4, <2>5, <2>6, <2>7, <2>8 DEF Moves
<1> QED
  BY <1>1 DEF RunInv

LEMMA HoldStep == TypeOK /\ LeaseInv /\ HoldInv /\ [Next]_vars => HoldInv'
<1> SUFFICES ASSUME TypeOK, LeaseInv, HoldInv, [Next]_vars,
                    NEW d \in Drain, Healthy(d)', pc'[d] \in Holding
             PROVE  inflight' = batch'[d]
  BY DEF HoldInv
<1>t. /\ pc \in [Drain -> PCs] /\ batch \in [Drain -> Seq(Event)]
      /\ heartbeat \in [Drain -> {"off", "on", "failed"}]
  BY DEF TypeOK
<1>1. Moves(d)
  BY DrainMoves
<1>2. CASE PopNextBatch(d)
  BY <1>2, <1>t DEF PopNextBatch
<1>3. CASE StartRun(d)
  <2>1. pc[d] = "start" /\ batch'[d] = batch[d] /\ inflight' = inflight
    BY <1>3, <1>t DEF StartRun, row
  <2>2. Healthy(d)
    BY <2>1 DEF LeaseInv, Healthy, InBody, PCs
  <2> QED
    BY <2>1, <2>2 DEF HoldInv, Holding
<1>4. CASE /\ pc[d] \in Holding /\ batch'[d] = batch[d]
           /\ heartbeat[d] = "failed" /\ pc[d] # "beat" => heartbeat'[d] = "failed"
           /\ pc'[d] = pc[d] \/ pc'[d] \in Running
  <2>1. Healthy(d)
    BY <1>4 DEF LeaseInv, Healthy, Holding, InBody, PCs
  <2>2. inflight = batch[d]
    BY <1>4, <2>1 DEF HoldInv
  <2>3. inflight' = inflight
    <3> SUFFICES ASSUME inflight' # inflight PROVE FALSE
      OBVIOUS
    <3>1. PICK x \in Drain : \/ RestoreInflight(x) \/ PopNextBatch(x)
                            \/ AckBatch(x, "ack", "record")
                            \/ AckBatch(x, "ackTerminated", "recordTerminated")
                            \/ MarkInflightFailed(x)
      BY QueueStep DEF AppendEvent, RemovePendingEvent, records, locals
    <3>2. /\ pc[x] \in {"restore", "pop", "ack", "ackTerminated", "fail"}
          /\ pc'[x] \in {"pop", "start", "record", "recordTerminated", "recordFailed"}
          /\ pc'[x] # pc[x]
      BY <3>1, <1>t
         DEF RestoreInflight, PopNextBatch, AckBatch, MarkInflightFailed, Goto
    <3>3. Healthy(x)
      BY <3>2 DEF LeaseInv, Healthy, InBody, PCs
    <3>4. x = d
      BY <2>1, <3>3 DEF LeaseInv
    <3> QED
      BY <1>4, <3>2, <3>4 DEF Holding, Running
  <2> QED
    BY <1>4, <2>2, <2>3
<1>5. CASE \/ AckBatch(d, "ack", "record")
           \/ AckBatch(d, "ackTerminated", "recordTerminated")
  BY <1>5, <1>t DEF AckBatch, Goto, Holding
<1> QED
  BY <1>1, <1>2, <1>3, <1>4, <1>5 DEF Moves, Holding

LEMMA DoneStep ==
    TypeOK /\ LeaseInv /\ RunInv /\ HoldInv /\ DoneInv /\ [Next]_vars => DoneInv'
<1> SUFFICES ASSUME TypeOK, LeaseInv, RunInv, HoldInv, DoneInv, [Next]_vars
             PROVE  DoneInv'
  OBVIOUS
<1>t. /\ pc \in [Drain -> PCs] /\ batch \in [Drain -> Seq(Event)]
      /\ heartbeat \in [Drain -> {"off", "on", "failed"}]
  BY DEF TypeOK
<1>b. ASSUME NEW s \in Seq(Event), NEW e \in ToSet(s) PROVE e \in Event
  BY <1>b, LenProperties, ElementOfSeq DEF ToSet
<1>f. \A e \in Event : Gone(e) => Gone(e)'
  BY FateStep
<1>1. ASSUME NEW d \in Drain, pc'[d] \in {"record", "recordTerminated"},
             NEW e \in ToSet(batch'[d])
      PROVE  Gone(e)'
  <2>1. Moves(d)
    BY DrainMoves
  <2>2. CASE pc'[d] = pc[d] /\ batch'[d] = batch[d]
    BY <1>1, <1>t, <1>b, <1>f, <2>2 DEF DoneInv
  <2>3. CASE \/ AckBatch(d, "ack", "record")
             \/ AckBatch(d, "ackTerminated", "recordTerminated")
    <3>1. pc[d] \in {"ack", "ackTerminated"} /\ batch'[d] = batch[d]
      BY <2>3 DEF AckBatch, locals
    <3>2. Healthy(d)
      BY <3>1 DEF LeaseInv, Healthy, InBody, PCs
    <3>3. inflight = batch[d]
      BY <3>1, <3>2 DEF HoldInv, Holding
    <3>4. fate' = Settle(batch[d], "acked")
      BY <2>3, <3>3 DEF AckBatch
    <3>5. e \in Event
      BY <1>1, <1>t, <1>b, <3>1
    <3> QED
      BY <1>1, <3>1, <3>4, <3>5 DEF Settle, Gone
  <2>4. ~PopNextBatch(d) /\ ~StartRun(d)
    BY <1>1, <1>t DEF PopNextBatch, StartRun, Goto
  <2> QED
    BY <1>1, <2>1, <2>2, <2>3, <2>4 DEF Moves, Holding, Running
<1>2. ASSUME NEW r \in DOMAIN runs', runs'[r].state = "succeeded",
             NEW e \in ToSet(runs'[r].events)
      PROVE  Gone(e)'
  <2>1. r \in DOMAIN runs
    <3>1. "running" # "succeeded"
      OBVIOUS
    <3> QED
      BY <1>2, <3>1, RunsStep
  <2>2. e \in ToSet(runs[r].events) /\ runs[r].events \in Seq(Event)
    BY <1>2, <2>1, RunsStep, RunEventsType
  <2>3. e \in Event
    BY <1>b, <2>2
  <2>4. CASE runs[r].state = "succeeded"
    BY <1>f, <2>1, <2>2, <2>3, <2>4 DEF DoneInv
  <2>5. ASSUME NEW d \in Drain, run[d] = r, verdict[d] = "succeeded",
               \/ RecordRun(d, "record", "renew")
               \/ RecordRun(d, "recordTerminated", "pop")
               \/ RecordFailure(d)
        PROVE  Gone(e)
    <3>1. pc[d] \in {"record", "recordTerminated"}
      BY <2>5 DEF RecordRun, RecordFailure, RunInv
    <3>2. runs[r].events = batch[d]
      BY <2>5, <3>1 DEF RunInv, Running
    <3> QED
      BY <2>2, <3>1, <3>2 DEF DoneInv
  <2> QED
    BY <1>2, <1>f, <2>1, <2>3, <2>4, <2>5, RunsStep
<1> QED
  BY <1>1, <1>2 DEF DoneInv

\* While no drain stalls beyond its lease, a run that the history shows as
\* succeeded has all its events off the queue for good: the drain that writes it
\* still held, at its ack, the batch the handler had finished.
THEOREM SuccessIsSettled ==
    ASSUME MaxStalls = 0
    PROVE  Spec => []SucceededIsSettled
<1> DEFINE Inv == RunInv /\ HoldInv /\ DoneInv
<1>1. Init => LeaseInv /\ Inv
  <2> SUFFICES ASSUME Init PROVE Inv
    BY LeaseInit
  <2>1. DOMAIN <<>> = {} /\ ToSet(<<>>) = {}
    BY EmptySeq DEF ToSet
  <2> QED
    BY <2>1 DEF Init, RunInv, HoldInv, DoneInv, Running, Healthy, InBody
<1>2. TypeOK /\ LeaseInv /\ Inv /\ [Next]_vars => LeaseInv' /\ Inv'
  BY LeaseStep, RunStep, HoldStep, DoneStep
<1>3. Inv => SucceededIsSettled
  BY DEF DoneInv, SucceededIsSettled, Gone, Queued
<1> QED
  BY <1>1, <1>2, <1>3, Typing, PTL DEF Spec

=============================================================================
