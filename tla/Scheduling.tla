----------------------------- MODULE Scheduling -----------------------------
(***************************************************************************)
(* The worker's loop that turns the calendar into events: daily audits and   *)
(* self-evolution cycles, next to the ones the admin asks for by hand.       *)
(*                                                                          *)
(* One iteration goes through the projects twice.  An event is appended in   *)
(* the runtime database, which refuses an identifier it has seen; the date of *)
(* a self-evolution is then recorded in the control plane's; then the actor   *)
(* is marked and its job enqueued.  The worker may die, or a call raise,     *)
(* between any two of these: an exception ends the whole iteration.          *)
(***************************************************************************)
EXTENDS Integers, FiniteSets, SequencesExt

CONSTANTS
    Targets,        \* GITLAB_TARGET_PROJECTS, in their order
    AuditHour,      \* DAILY_AUDIT_START_TIME_LOCAL of each project
    EvolutionHour,  \* SELF_EVOLUTION_TIME_LOCAL
    Interval,       \* SELF_EVOLUTION_INTERVAL_DAYS
    Days,           \* bound: days that pass
    MaxMishaps,     \* bound: crashes and exceptions
    MaxToggles      \* bound: changes of the settings, and requests of the admin

Target == ToSet(Targets)
Hours == 0 .. 2   \* before the start times, between them, after them

ASSUME SchedulingAssumption ==
    /\ Targets \in Seq(Target)
    /\ AuditHour \in [Target -> Hours] /\ EvolutionHour \in Hours
    /\ Interval \in Nat \ {0} /\ {Days, MaxMishaps, MaxToggles} \subseteq Nat

VARIABLES
    day, hour,   \* the time in Asia/Shanghai
    auditing,    \* the projects with DAILY_AUDIT_ENABLED
    evolving,    \* SELF_EVOLUTION_ENABLED
    appended,    \* the scheduled events: [kind, project, day]
    byHand,      \* the projects for which the admin asked for a self-evolution
    lastDate,    \* last_scheduled_date of each project, 0 before the first
    jobs,        \* the actors that are marked scheduled
    loop,        \* where the iteration is
    unrecorded,  \* history: the events whose date was not recorded in time
    owed,        \* history: what was due when the iteration began, and stayed so
    mishaps, toggles

calendar == <<day, hour>>
schedulingVars == <<calendar, auditing, evolving, appended, byHand, lastDate, jobs,
                    loop, unrecorded, owed, mishaps, toggles>>

Audit(p, d) == [kind |-> "daily_audit", project |-> p, day |-> d]
Evolution(p, d) == [kind |-> "agent_self_evolution", project |-> p, day |-> d]
Asleep == [at |-> "asleep", left |-> <<>>, now |-> <<0, 0>>]
This == Head(loop.left)
NowDay == loop.now[1]
NowHour == loop.now[2]

\* Mutant: the day of the last one is counted too.
MutantElapsed(p, d) == (d - lastDate[p]) + 1
Elapsed(p, d) == d - lastDate[p]
EvolutionDue(p, d) == lastDate[p] = 0 \/ Elapsed(p, d) >= Interval

SchedulingInit ==
    /\ day = 1 /\ hour \in Hours
    /\ auditing \in SUBSET Target /\ evolving \in BOOLEAN
    /\ appended = {} /\ byHand = {} /\ lastDate = [p \in Target |-> 0]
    /\ jobs = {} /\ loop = Asleep
    /\ unrecorded = {} /\ owed = {} /\ mishaps = 0 /\ toggles = 0

-----------------------------------------------------------------------------
(* The loop *)

\* Each of the two passes reads the clock once, at its beginning.
Pass(name) == [at |-> name, left |-> Targets, now |-> <<day, hour>>]

\* maybe_enqueue_daily_audit_events; what is due is due by this clock.
BeginAudits ==
    /\ loop = Asleep
    /\ loop' = Pass("audits")
    /\ owed' = {Audit(p, day) : p \in {q \in auditing : hour >= AuditHour[q]}}
    /\ UNCHANGED <<calendar, auditing, evolving, appended, byHand, lastDate, jobs,
                   unrecorded, mishaps, toggles>>

\* A project that is not due, or whose event is known, is passed over.
\* Mutant: the first of them ends the pass.
MutantPassOver == <<>>
PassOver == Tail(loop.left)
Advance(left) == loop' = [loop EXCEPT !.left = left]

AppendAudit ==
    /\ loop.at = "audits" /\ loop.left # <<>>
    /\ LET event == Audit(This, NowDay) IN
       IF This \in auditing /\ NowHour >= AuditHour[This] /\ event \notin appended
       THEN appended' = appended \cup {event} /\ loop' = [loop EXCEPT !.at = "mark_audit"]
       ELSE UNCHANGED appended /\ Advance(PassOver)
    /\ UNCHANGED <<calendar, auditing, evolving, byHand, lastDate, jobs, unrecorded,
                   owed, mishaps, toggles>>

\* mark_actor_scheduled, and the job if it was not.
Mark(pass) ==
    /\ jobs' = jobs \cup {This}
    /\ loop' = [loop EXCEPT !.at = pass, !.left = Tail(loop.left)]
    /\ UNCHANGED <<calendar, auditing, evolving, appended, byHand, lastDate,
                   unrecorded, owed, mishaps, toggles>>
MarkAudit == loop.at = "mark_audit" /\ Mark("audits")

BeginEvolutions ==
    /\ loop.at = "audits" /\ loop.left = <<>>
    /\ loop' = IF evolving /\ hour >= EvolutionHour THEN Pass("evolutions")
               ELSE [Pass("evolutions") EXCEPT !.left = <<>>]
    /\ owed' = owed \cup (IF evolving /\ hour >= EvolutionHour
                          THEN {Evolution(p, day) : p \in {q \in Target : EvolutionDue(q, day)}}
                          ELSE {})
    /\ UNCHANGED <<calendar, auditing, evolving, appended, byHand, lastDate, jobs,
                   unrecorded, mishaps, toggles>>

AppendEvolution ==
    /\ loop.at = "evolutions" /\ loop.left # <<>>
    /\ LET event == Evolution(This, NowDay) IN
       IF EvolutionDue(This, NowDay) /\ event \notin appended
       THEN appended' = appended \cup {event} /\ loop' = [loop EXCEPT !.at = "record"]
       ELSE UNCHANGED appended /\ Advance(PassOver)
    /\ UNCHANGED <<calendar, auditing, evolving, byHand, lastDate, jobs, unrecorded,
                   owed, mishaps, toggles>>

\* record_self_evolution_schedule.
RecordDate ==
    /\ loop.at = "record"
    /\ lastDate' = [lastDate EXCEPT ![This] = NowDay]
    /\ loop' = [loop EXCEPT !.at = "mark_evolution"]
    /\ UNCHANGED <<calendar, auditing, evolving, appended, byHand, jobs, unrecorded,
                   owed, mishaps, toggles>>

MarkEvolution == loop.at = "mark_evolution" /\ Mark("evolutions")

\* The iteration is over; the worker sleeps for a second.
Sleep ==
    /\ loop.at = "evolutions" /\ loop.left = <<>>
    /\ loop' = Asleep /\ owed' = {}
    /\ UNCHANGED <<calendar, auditing, evolving, appended, byHand, lastDate, jobs,
                   unrecorded, mishaps, toggles>>

\* The worker dies, or a call raises: the next iteration begins with
\* resume_runtime_processing, which marks the actors that have events.
IterationEnds ==
    /\ loop # Asleep /\ mishaps < MaxMishaps
    /\ mishaps' = mishaps + 1
    /\ unrecorded' = IF loop.at = "record"
                     THEN unrecorded \cup {Evolution(This, NowDay)} ELSE unrecorded
    /\ jobs' = jobs \cup {e.project : e \in appended} \cup byHand
    /\ loop' = Asleep /\ owed' = {}
    /\ UNCHANGED <<calendar, auditing, evolving, appended, byHand, lastDate, toggles>>

-----------------------------------------------------------------------------
(* The clock, the admin *)

TimePasses ==
    /\ \/ hour # 2 /\ hour' = hour + 1 /\ day' = day
       \/ hour = 2 /\ day < Days /\ hour' = 0 /\ day' = day + 1
    /\ UNCHANGED <<auditing, evolving, appended, byHand, lastDate, jobs, loop,
                   unrecorded, owed, mishaps, toggles>>

\* The settings page.  What is no longer enabled is no longer owed.
ChangeSettings ==
    /\ toggles < MaxToggles /\ toggles' = toggles + 1
    /\ \/ \E p \in Target :
             /\ auditing' = IF p \in auditing THEN auditing \ {p} ELSE auditing \cup {p}
             /\ owed' = {e \in owed : e.kind # "daily_audit" \/ e.project # p}
             /\ UNCHANGED evolving
       \/ evolving' = ~evolving /\ UNCHANGED <<auditing, owed>>
    /\ UNCHANGED <<calendar, appended, byHand, lastDate, jobs, loop, unrecorded, mishaps>>

\* admin_api_self_evolution_trigger: its event has an identifier of its own, and
\* last_manual_triggered_at is not the date that the schedule looks at.
TriggerEvolution(p) ==
    /\ toggles < MaxToggles /\ toggles' = toggles + 1
    /\ byHand' = byHand \cup {p}
    /\ jobs' = jobs \cup {p}
    /\ UNCHANGED <<calendar, auditing, evolving, appended, lastDate, loop, unrecorded,
                   owed, mishaps>>

SchedulingNext ==
    \/ BeginAudits \/ AppendAudit \/ MarkAudit \/ BeginEvolutions \/ AppendEvolution
    \/ RecordDate \/ MarkEvolution \/ Sleep \/ IterationEnds \/ TimePasses
    \/ ChangeSettings \/ \E p \in Target : TriggerEvolution(p)

SchedulingSpec == SchedulingInit /\ [][SchedulingNext]_schedulingVars

-----------------------------------------------------------------------------
(* Properties *)

\* Two scheduled self-evolutions of a project are at least the interval apart,
\* except after a cycle whose date was not recorded: the worker stopped between
\* the append and the record, the event is known on the same day (so the date is
\* never made good), and the next day brings another cycle.
EvolutionsAreSpaced ==
    \A e, f \in appended :
        /\ e.kind = "agent_self_evolution" /\ f.kind = "agent_self_evolution"
        /\ e.project = f.project /\ e.day < f.day
        => f.day - e.day >= Interval \/ e \in unrecorded

\* An iteration that comes to its end has scheduled whatever was due when it
\* looked at the clock: a project that is off, not due yet or already scheduled
\* does not keep the ones after it from their turn.
DueIsScheduled ==
    (loop.at = "evolutions" /\ loop.left = <<>>) => owed \subseteq appended
=============================================================================
