------------------------------- MODULE MCJobs -------------------------------
(***************************************************************************)
(* The jobs of the worker and what is recorded of them, one component at a     *)
(* time: the components share no state, so the one named by part moves and the  *)
(* others rest in one of their initial states.                                 *)
(***************************************************************************)
EXTENDS RunRecords, Scheduling, SelfEvolution, DailyAudit

VARIABLE part
jobsVars == <<part, recordVars, schedulingVars, evolutionVars, auditVars>>

TwoTargets == <<"p1", "p2">>
DifferentHours == [p \in Target |-> IF p = "p1" THEN 1 ELSE 2]
PromptThenTool == <<"prompt", "tool">>

\* The initial choices of the components that rest are settled.
JobsInit ==
    /\ part \in {"records", "schedule", "evolution", "audit"}
    /\ RecordsInit /\ (part # "records" => scene = "mention")
    /\ SchedulingInit /\ (part # "schedule" => hour = 0 /\ auditing = {} /\ ~evolving)
    /\ EvolutionInit /\ AuditInit

JobsNext ==
    \/ part = "records" /\ RecordsNext
         /\ UNCHANGED <<part, schedulingVars, evolutionVars, auditVars>>
    \/ part = "schedule" /\ SchedulingNext
         /\ UNCHANGED <<part, recordVars, evolutionVars, auditVars>>
    \/ part = "evolution" /\ EvolutionNext
         /\ UNCHANGED <<part, recordVars, schedulingVars, auditVars>>
    \/ part = "audit" /\ AuditNext
         /\ UNCHANGED <<part, recordVars, schedulingVars, evolutionVars>>

JobsSpec == JobsInit /\ [][JobsNext]_jobsVars
=============================================================================
