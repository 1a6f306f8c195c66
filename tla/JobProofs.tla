------------------------------ MODULE JobProofs ------------------------------
(***************************************************************************)
(* Proofs about the jobs of the worker, one component after the other, for    *)
(* any projects, cycles, attempts and faults: the calendar of the loop that    *)
(* schedules, the cycles of self-evolution, and the daily audit.              *)
(***************************************************************************)
EXTENDS Scheduling, SelfEvolution, DailyAudit, SequenceTheorems, FiniteSetTheorems, TLAPS

-----------------------------------------------------------------------------
(* Scheduling: cycles whose date was recorded keep their distance *)


ScheduledEvents == [kind : {"daily_audit", "agent_self_evolution"}, project : Target, day : Nat \ {0}]
Loops == [at : {"asleep", "audits", "mark_audit", "evolutions", "record", "mark_evolution"},
          left : Seq(Target), now : Nat \X Hours]

CalendarTyped ==
    /\ day \in Nat \ {0} /\ hour \in Hours
    /\ lastDate \in [Target -> Nat]
    /\ appended \subseteq ScheduledEvents
    /\ loop \in Loops
    /\ loop.at \in {"mark_audit", "record", "mark_evolution"} => loop.left # <<>>
    /\ loop.at # "asleep" => NowDay \in Nat \ {0} /\ NowDay <= day

CycleEvents == {e \in appended : e.kind = "agent_self_evolution"}
InSecondPass == loop.at \in {"evolutions", "record", "mark_evolution"}

\* No cycle is dated later than the clock that the loop goes by.
NotAheadOfClock ==
    \A e \in CycleEvents : e.day <= day /\ (InSecondPass => e.day <= NowDay)

\* The date of a cycle is recorded, lost, or the next thing to be recorded.
Dated ==
    \A e \in CycleEvents :
        \/ e \in unrecorded
        \/ lastDate[e.project] >= e.day
        \/ loop.at = "record" /\ This = e.project /\ NowDay = e.day

CalendarInv == CalendarTyped /\ NotAheadOfClock /\ Dated /\ EvolutionsAreSpaced

-----------------------------------------------------------------------------

\* The project whose turn it is is one of the targets, and so are the rest.
LEMMA Turn ==
  ASSUME loop \in Loops, loop.left # <<>>
  PROVE  This \in Target /\ Tail(loop.left) \in Seq(Target)
  BY DEF Loops, This

LEMMA CalendarInit == SchedulingInit => CalendarInv
  BY SchedulingAssumption
  DEF SchedulingInit, CalendarInv, CalendarTyped, NotAheadOfClock, Dated, EvolutionsAreSpaced, CycleEvents,
      InSecondPass, Asleep, Loops, Hours, NowDay

\* What does not touch the events, the dates or the loop disturbs nothing, as
\* long as the clock does not go back.
LEMMA Undisturbed ==
  ASSUME CalendarInv, day' \in Nat \ {0}, day <= day', hour' \in Hours,
         UNCHANGED <<appended, lastDate, loop, unrecorded>>
  PROVE  CalendarInv'
  <1>1. CalendarTyped'
    BY DEF CalendarInv, CalendarTyped, NowDay
  <1>2. NotAheadOfClock'
    <2> SUFFICES ASSUME NEW e \in CycleEvents' PROVE (e.day <= day /\ (InSecondPass => e.day <= NowDay))'
      BY DEF NotAheadOfClock
    <2>1. e \in CycleEvents /\ e.day \in Nat
      BY DEF CycleEvents, CalendarInv, CalendarTyped, ScheduledEvents
    <2> QED BY <2>1 DEF CalendarInv, CalendarTyped, NotAheadOfClock, InSecondPass, NowDay
  <1>3. Dated' /\ EvolutionsAreSpaced'
    BY DEF CalendarInv, Dated, EvolutionsAreSpaced, CycleEvents, This, NowDay
  <1> QED BY <1>1, <1>2, <1>3 DEF CalendarInv

\* A step of the loop that appends and records nothing, and does not go back
\* from a cycle that is to be recorded.
LEMMA OnlyTheLoopMoves ==
  ASSUME CalendarInv, UNCHANGED <<day, hour, appended, lastDate, unrecorded>>,
         loop' \in Loops, loop.at # "record", loop'.at # "record",
         loop'.at \in {"mark_audit", "mark_evolution"} => loop'.left # <<>>,
         loop'.at # "asleep" =>
            (loop'.now[1] = day \/ (loop.at # "asleep" /\ loop'.now = loop.now)),
         InSecondPass' => loop'.now[1] = day \/ (InSecondPass /\ loop'.now = loop.now)
  PROVE  CalendarInv'
  <1>1. CalendarTyped'
    BY DEF CalendarInv, CalendarTyped, NowDay
  <1>2. NotAheadOfClock'
    BY DEF CalendarInv, NotAheadOfClock, CycleEvents, NowDay
  <1>3. Dated' /\ EvolutionsAreSpaced'
    BY DEF CalendarInv, Dated, EvolutionsAreSpaced, CycleEvents
  <1> QED BY <1>1, <1>2, <1>3 DEF CalendarInv

\* A cycle is appended only when the recorded ones are far enough in the past.
LEMMA CycleStep ==
  ASSUME CalendarInv, AppendEvolution
  PROVE  CalendarInv'
  <1> DEFINE event == Evolution(This, NowDay)
  <1>1. This \in Target /\ Tail(loop.left) \in Seq(Target)
    BY Turn DEF AppendEvolution, CalendarInv, CalendarTyped
  <1>2. UNCHANGED <<day, hour, lastDate, unrecorded>> /\ loop.at = "evolutions" /\ loop.left # <<>>
    BY DEF AppendEvolution, calendar
  <1>3. NowDay \in Nat \ {0} /\ NowDay <= day /\ day \in Nat
    BY <1>2 DEF CalendarInv, CalendarTyped
  <1>4. CASE ~(EvolutionDue(This, NowDay) /\ event \notin appended)
    <2>1. UNCHANGED appended /\ loop' = [loop EXCEPT !.left = Tail(loop.left)]
      BY <1>4 DEF AppendEvolution, Advance, PassOver
    <2>2. loop' \in Loops /\ loop'.at = "evolutions" /\ loop'.now = loop.now
      BY <2>1, <1>1, <1>2 DEF CalendarInv, CalendarTyped, Loops
    <2> QED BY <2>1, <2>2, <1>2, OnlyTheLoopMoves DEF InSecondPass
  <1>5. CASE EvolutionDue(This, NowDay) /\ event \notin appended
    <2>1. appended' = appended \cup {event} /\ loop' = [loop EXCEPT !.at = "record"]
      BY <1>5 DEF AppendEvolution
    <2>2. /\ loop' \in Loops /\ loop'.at = "record" /\ loop'.now = loop.now
          /\ loop'.left = loop.left /\ This' = This /\ NowDay' = NowDay
      BY <2>1 DEF CalendarInv, CalendarTyped, Loops, This, NowDay
    <2>3. event \in ScheduledEvents /\ event.project = This /\ event.day = NowDay
      BY <1>1, <1>3 DEF Evolution, ScheduledEvents
    <2>4. CycleEvents' \subseteq CycleEvents \cup {event}
      BY <2>1 DEF CycleEvents
    <2>5. CalendarTyped'
      BY <2>1, <2>2, <2>3, <1>2 DEF CalendarInv, CalendarTyped
    <2>6. NotAheadOfClock'
      BY <2>2, <2>3, <2>4, <1>2, <1>3 DEF CalendarInv, NotAheadOfClock, InSecondPass
    <2>7. Dated'
      BY <2>2, <2>3, <2>4, <1>2 DEF CalendarInv, Dated
    <2>8. EvolutionsAreSpaced'
      <3> SUFFICES ASSUME NEW e \in CycleEvents', NEW f \in CycleEvents',
                          e.project = f.project, e.day < f.day
                   PROVE  f.day - e.day >= Interval \/ e \in unrecorded
        BY <1>2 DEF EvolutionsAreSpaced, CycleEvents
      <3>1. CASE e \in CycleEvents /\ f \in CycleEvents
        BY <3>1 DEF CalendarInv, EvolutionsAreSpaced, CycleEvents
      <3>2. CASE e = event
        <4>1. f.day <= NowDay
          BY <2>3, <2>4, <1>2, <1>3 DEF CalendarInv, NotAheadOfClock, InSecondPass
        <4> QED BY <4>1, <3>2, <2>3, <1>3, <2>4 DEF CalendarInv, CalendarTyped, CycleEvents, ScheduledEvents
      <3>3. CASE e \in CycleEvents /\ f = event /\ e \notin unrecorded
        <4>1. lastDate[This] >= e.day
          BY <3>3, <2>3, <1>2 DEF CalendarInv, Dated
        <4>2. e.day \in Nat \ {0} /\ lastDate[This] \in Nat
          BY <3>3, <1>1 DEF CalendarInv, CalendarTyped, CycleEvents, ScheduledEvents
        <4>3. NowDay - lastDate[This] >= Interval
          BY <4>1, <4>2, <1>5 DEF EvolutionDue, Elapsed
        <4>4. Interval \in Nat
          BY SchedulingAssumption
        <4> QED BY <4>1, <4>2, <4>3, <4>4, <3>3, <2>3, <1>3
      <3> QED BY <3>1, <3>2, <3>3, <2>4
    <2> QED BY <2>5, <2>6, <2>7, <2>8 DEF CalendarInv
  <1> QED BY <1>4, <1>5

\* The date is the one of the cycle that was just appended.
LEMMA RecordStep ==
  ASSUME CalendarInv, RecordDate
  PROVE  CalendarInv'
  <1>1. This \in Target
    BY Turn DEF RecordDate, CalendarInv, CalendarTyped
  <1>2. /\ loop.at = "record"
        /\ lastDate' = [lastDate EXCEPT ![This] = NowDay]
        /\ loop' = [loop EXCEPT !.at = "mark_evolution"]
        /\ UNCHANGED <<day, hour, appended, unrecorded>>
    BY DEF RecordDate, calendar
  <1>3. NowDay \in Nat \ {0}
    BY <1>2 DEF CalendarInv, CalendarTyped
  <1>4. loop' \in Loops /\ loop'.at = "mark_evolution" /\ loop'.now = loop.now
        /\ loop'.left = loop.left
    BY <1>2 DEF CalendarInv, CalendarTyped, Loops
  <1>5. CalendarTyped'
    BY <1>1, <1>2, <1>3, <1>4 DEF CalendarInv, CalendarTyped, NowDay
  <1>6. NotAheadOfClock'
    BY <1>2, <1>4 DEF CalendarInv, NotAheadOfClock, InSecondPass, CycleEvents, NowDay
  <1>7. Dated'
    <2> SUFFICES ASSUME NEW e \in CycleEvents', e \notin unrecorded
                 PROVE  lastDate'[e.project] >= e.day
      BY <1>2 DEF Dated
    <2>1. e \in CycleEvents /\ e \in ScheduledEvents
      BY <1>2 DEF CycleEvents, CalendarInv, CalendarTyped
    <2>2. CASE e.project = This
      <3>1. e.day <= NowDay
        BY <2>1, <1>2 DEF CalendarInv, NotAheadOfClock, InSecondPass
      <3>2. lastDate'[e.project] = NowDay
        BY <2>2, <1>1, <1>2 DEF CalendarInv, CalendarTyped
      <3> QED BY <3>1, <3>2, <2>1, <1>3 DEF ScheduledEvents
    <2>3. CASE e.project # This
      BY <2>1, <2>3, <1>1, <1>2 DEF CalendarInv, CalendarTyped, Dated, ScheduledEvents
    <2> QED BY <2>2, <2>3
  <1>8. EvolutionsAreSpaced'
    BY <1>2 DEF CalendarInv, EvolutionsAreSpaced
  <1> QED BY <1>5, <1>6, <1>7, <1>8 DEF CalendarInv

\* A cycle that was to be recorded when the iteration ended is lost.
LEMMA CutStep ==
  ASSUME CalendarInv, IterationEnds
  PROVE  CalendarInv'
  <1>1. UNCHANGED <<day, hour, appended, lastDate>> /\ loop' = Asleep
    BY DEF IterationEnds, calendar
  <1>2. unrecorded \subseteq unrecorded'
    BY DEF IterationEnds
  <1>3. loop.at = "record" => Evolution(This, NowDay) \in unrecorded'
    BY DEF IterationEnds
  <1>4. Asleep \in Loops /\ Asleep.at = "asleep" /\ Asleep.left = <<>>
    BY DEF Asleep, Loops, Hours
  <1>5. CalendarTyped' /\ NotAheadOfClock'
    BY <1>1, <1>4 DEF CalendarInv, CalendarTyped, NotAheadOfClock, InSecondPass, CycleEvents
  <1>6. Dated'
    <2> SUFFICES ASSUME NEW e \in CycleEvents PROVE e \in unrecorded' \/ lastDate[e.project] >= e.day
      BY <1>1 DEF Dated, CycleEvents
    <2>1. CASE loop.at = "record" /\ This = e.project /\ NowDay = e.day
      <3>1. e = Evolution(This, NowDay)
        BY <2>1 DEF Evolution, CycleEvents, CalendarInv, CalendarTyped, ScheduledEvents
      <3> QED BY <3>1, <2>1, <1>3
    <2> QED BY <2>1, <1>2 DEF CalendarInv, Dated
  <1>7. EvolutionsAreSpaced'
    BY <1>1, <1>2 DEF CalendarInv, EvolutionsAreSpaced
  <1> QED BY <1>5, <1>6, <1>7 DEF CalendarInv

\* The audits are no cycles.
LEMMA AuditStep ==
  ASSUME CalendarInv, AppendAudit
  PROVE  CalendarInv'
  <1> DEFINE event == Audit(This, NowDay)
  <1>1. This \in Target /\ Tail(loop.left) \in Seq(Target)
    BY Turn DEF AppendAudit, CalendarInv, CalendarTyped
  <1>2. UNCHANGED <<day, hour, lastDate, unrecorded>> /\ loop.at = "audits" /\ loop.left # <<>>
    BY DEF AppendAudit, calendar
  <1>3. NowDay \in Nat \ {0} /\ NowDay <= day /\ day \in Nat
    BY <1>2 DEF CalendarInv, CalendarTyped
  <1>4. event \in ScheduledEvents /\ event.kind = "daily_audit"
    BY <1>1, <1>3 DEF Audit, ScheduledEvents
  <1>5. appended' \in {appended, appended \cup {event}} /\ CycleEvents' = CycleEvents
    BY <1>4 DEF AppendAudit, CycleEvents
  <1>6. /\ loop' \in Loops /\ loop'.at \in {"audits", "mark_audit"} /\ loop'.now = loop.now
        /\ loop'.at = "mark_audit" => loop'.left = loop.left
    BY <1>1, <1>2 DEF AppendAudit, Advance, PassOver, CalendarInv, CalendarTyped, Loops
  <1>7. CalendarTyped'
    BY <1>2, <1>3, <1>4, <1>5, <1>6 DEF CalendarInv, CalendarTyped, NowDay
  <1>8. NotAheadOfClock' /\ Dated'
    BY <1>2, <1>5, <1>6 DEF CalendarInv, NotAheadOfClock, Dated, InSecondPass
  <1>9. EvolutionsAreSpaced'
    BY <1>2, <1>4, <1>5 DEF CalendarInv, EvolutionsAreSpaced, CycleEvents
  <1> QED BY <1>7, <1>8, <1>9 DEF CalendarInv

\* The steps of the loop that only go on to the next project, or the next pass.
LEMMA LoopSteps ==
  ASSUME CalendarInv, BeginAudits \/ MarkAudit \/ BeginEvolutions \/ MarkEvolution \/ Sleep
  PROVE  CalendarInv'
  <1>1. CASE BeginAudits
    <2>1. Pass("audits") \in Loops /\ Pass("audits").at = "audits" /\ Pass("audits").now[1] = day
      BY SchedulingAssumption DEF CalendarInv, CalendarTyped, Pass, Loops, Hours
    <2>2. loop' = Pass("audits") /\ loop.at # "record"
          /\ UNCHANGED <<day, hour, appended, lastDate, unrecorded>>
      BY <1>1 DEF BeginAudits, calendar, Asleep
    <2> QED BY <2>1, <2>2, OnlyTheLoopMoves DEF InSecondPass
  <1>2. CASE BeginEvolutions
    <2> DEFINE pass == Pass("evolutions")
    <2>1. pass \in Loops /\ pass.at = "evolutions" /\ pass.now[1] = day
      BY SchedulingAssumption DEF CalendarInv, CalendarTyped, Pass, Loops, Hours
    <2>2. <<>> \in Seq(Target)
      OBVIOUS
    <2>3. loop' \in {pass, [pass EXCEPT !.left = <<>>]}
      BY <1>2 DEF BeginEvolutions
    <2>4. loop' \in Loops /\ loop'.at = "evolutions" /\ loop'.now[1] = day
      BY <2>1, <2>2, <2>3 DEF Loops
    <2>5. loop.at # "record" /\ UNCHANGED <<day, hour, appended, lastDate, unrecorded>>
      BY <1>2 DEF BeginEvolutions, calendar
    <2> QED BY <2>4, <2>5, OnlyTheLoopMoves DEF InSecondPass
  <1>3. CASE Sleep
    <2>1. Asleep \in Loops /\ Asleep.at = "asleep"
      BY DEF Asleep, Loops, Hours
    <2>2. loop' = Asleep /\ loop.at # "record"
          /\ UNCHANGED <<day, hour, appended, lastDate, unrecorded>>
      BY <1>3 DEF Sleep, calendar
    <2> QED BY <2>1, <2>2, OnlyTheLoopMoves DEF InSecondPass
  <1>4. CASE MarkAudit \/ MarkEvolution
    <2>1. loop.at \in {"mark_audit", "mark_evolution"}
      BY <1>4 DEF MarkAudit, MarkEvolution
    <2>2. Tail(loop.left) \in Seq(Target)
      BY <2>1, Turn DEF CalendarInv, CalendarTyped
    <2>3. loop' = [loop EXCEPT !.at = IF loop.at = "mark_audit" THEN "audits" ELSE "evolutions",
                               !.left = Tail(loop.left)]
          /\ UNCHANGED <<day, hour, appended, lastDate, unrecorded>>
      BY <1>4 DEF MarkAudit, MarkEvolution, Mark, calendar
    <2>4. /\ loop' \in Loops /\ loop'.at \in {"audits", "evolutions"} /\ loop'.now = loop.now
          /\ loop'.at = "evolutions" => loop.at = "mark_evolution"
      BY <2>1, <2>2, <2>3 DEF CalendarInv, CalendarTyped, Loops
    <2> QED BY <2>1, <2>3, <2>4, OnlyTheLoopMoves DEF InSecondPass
  <1> QED BY <1>1, <1>2, <1>3, <1>4

\* The clock goes forward; the admin touches neither the dates nor the schedule's
\* own events.
LEMMA OtherSteps ==
  ASSUME CalendarInv, \/ TimePasses \/ ChangeSettings \/ \E p \in Target : TriggerEvolution(p)
              \/ UNCHANGED schedulingVars
  PROVE  CalendarInv'
  <1>1. UNCHANGED <<appended, lastDate, loop, unrecorded>>
    BY DEF TimePasses, ChangeSettings, TriggerEvolution, schedulingVars
  <1>2. day' \in Nat \ {0} /\ day <= day' /\ hour' \in Hours
    BY DEF TimePasses, ChangeSettings, TriggerEvolution, schedulingVars, calendar, CalendarInv, CalendarTyped,
           Hours
  <1> QED BY <1>1, <1>2, Undisturbed

LEMMA CalendarStep ==
  CalendarInv /\ [SchedulingNext]_schedulingVars => CalendarInv'
  BY CycleStep, RecordStep, CutStep, AuditStep, LoopSteps, OtherSteps DEF SchedulingNext

\* Two scheduled self-evolutions of a project are the interval apart, unless the
\* date of the earlier one was lost between the append and the record.
THEOREM CyclesKeepTheirDistance == SchedulingSpec => []EvolutionsAreSpaced
  <1>1. CalendarInv => EvolutionsAreSpaced
    BY DEF CalendarInv
  <1> QED BY CalendarInit, CalendarStep, <1>1, PTL DEF SchedulingSpec

-----------------------------------------------------------------------------
(* Scheduling: what is due is scheduled *)

\* The projects that still have their turn in this pass, this one's events aside.
ToCome == IF loop.at \in {"audits", "evolutions"} THEN ToSet(loop.left)
          ELSE ToSet(Tail(loop.left))

DueAudit(e) ==
    /\ loop.at \in {"audits", "mark_audit"}
    /\ e = Audit(e.project, NowDay)
    /\ e.project \in auditing /\ NowHour >= AuditHour[e.project]

DueEvolution(e) ==
    /\ loop.at \in {"evolutions", "record", "mark_evolution"}
    /\ e = Evolution(e.project, NowDay)
    /\ EvolutionDue(e.project, NowDay)

\* What is owed and not yet appended is due by the clock of the pass that comes to
\* it.
OwedInv ==
    /\ auditing \subseteq Target
    /\ loop.at = "asleep" => owed = {}
    /\ loop.at = "record" => Evolution(This, NowDay) \in appended
    /\ \A e \in owed \ appended : e.project \in ToCome /\ (DueAudit(e) \/ DueEvolution(e))

LEMMA FirstAndRest ==
  ASSUME NEW S, NEW s \in Seq(S), s # <<>>
  PROVE  \A x \in ToSet(s) : x = Head(s) \/ x \in ToSet(Tail(s))
  <1> SUFFICES ASSUME NEW x \in ToSet(s), x # Head(s)
               PROVE  x \in ToSet(Tail(s))
    OBVIOUS
  <1>1. PICK i \in 1..Len(s) : s[i] = x
    BY DEF ToSet
  <1>2. i - 1 \in 1..Len(Tail(s)) /\ Tail(s)[i - 1] = x
    BY <1>1
  <1>3. DOMAIN Tail(s) = 1..Len(Tail(s))
    <2>1. Tail(s) \in Seq(S)
      OBVIOUS
    <2> QED
      BY <2>1
  <1> QED
    BY <1>2, <1>3 DEF ToSet

\* The pass goes on: what was appended or passed over is not to come any more.
LEMMA OwedStays ==
  ASSUME OwedInv, UNCHANGED <<auditing, lastDate>>, owed' \subseteq owed,
         loop'.at = "record" => (Evolution(This, NowDay) \in appended)',
         appended \subseteq appended', loop'.now = loop.now, loop.at # "asleep",
         loop'.at \in IF loop.at \in {"audits", "mark_audit"} THEN {"audits", "mark_audit"}
                      ELSE {"evolutions", "record", "mark_evolution"},
         \A e \in owed' \ appended' : e.project \in ToCome => e.project \in ToCome'
  PROVE  OwedInv'
  <1> SUFFICES ASSUME NEW e \in owed' \ appended'
               PROVE  e.project \in ToCome' /\ (DueAudit(e) \/ DueEvolution(e))'
    BY DEF OwedInv
  <1>1. e.project \in ToCome /\ (DueAudit(e) \/ DueEvolution(e))
    BY DEF OwedInv
  <1>2. NowDay' = NowDay /\ NowHour' = NowHour
    BY DEF NowDay, NowHour
  <1>3. DueAudit(e) => DueAudit(e)'
    BY <1>2 DEF DueAudit
  <1>4. DueEvolution(e) => DueEvolution(e)'
    BY <1>2 DEF DueEvolution, EvolutionDue, Elapsed
  <1> QED
    BY <1>1, <1>3, <1>4

LEMMA OwedStep ==
  CalendarTyped /\ CalendarTyped' /\ OwedInv /\ [SchedulingNext]_schedulingVars => OwedInv'
  <1> SUFFICES ASSUME CalendarTyped, CalendarTyped', OwedInv, [SchedulingNext]_schedulingVars
               PROVE  OwedInv'
    OBVIOUS
  <1>t. ASSUME loop.left # <<>>
        PROVE  /\ \A p \in ToSet(loop.left) : p = This \/ p \in ToSet(Tail(loop.left))
               /\ This \in Target
    <2>1. loop.left \in Seq(Target)
      BY DEF CalendarTyped, Loops
    <2> QED
      BY <1>t, <2>1, FirstAndRest DEF This
  <1>1. CASE BeginAudits
    <2>1. /\ loop' = Pass("audits") /\ UNCHANGED <<day, hour, auditing, appended>>
          /\ owed' = {Audit(p, day) : p \in {q \in auditing : hour >= AuditHour[q]}}
      BY <1>1 DEF BeginAudits, calendar
    <2>2. /\ loop'.at = "audits" /\ loop'.left = Targets
          /\ NowDay' = day /\ NowHour' = hour
      BY <2>1 DEF Pass, NowDay, NowHour
    <2> QED
      BY <2>1, <2>2 DEF OwedInv, ToCome, DueAudit, Audit, Target
  <1>2. CASE AppendAudit
    <2>1. /\ UNCHANGED <<auditing, lastDate, owed>> /\ appended \subseteq appended'
          /\ loop.at = "audits" /\ loop.left # <<>>
      BY <1>2 DEF AppendAudit
    <2>2. CASE loop' = [loop EXCEPT !.at = "mark_audit"]
               /\ appended' = appended \cup {Audit(This, NowDay)}
      <3>1. loop'.at = "mark_audit" /\ loop'.left = loop.left /\ loop'.now = loop.now
        BY <2>2 DEF CalendarTyped, Loops
      <3>2. ASSUME NEW e \in owed \ appended', e.project \in ToCome
            PROVE  e.project \in ToSet(Tail(loop.left))
        <4>1. e = Audit(e.project, NowDay)
          BY <2>1, <3>2 DEF OwedInv, DueAudit, DueEvolution
        <4>2. e.project # This
          BY <2>2, <3>2, <4>1
        <4> QED
          BY <1>t, <2>1, <3>2, <4>2 DEF ToCome
      <3> QED
        BY <2>1, <3>1, <3>2, OwedStays DEF ToCome
    <2>3. CASE loop' = [loop EXCEPT !.left = Tail(loop.left)] /\ UNCHANGED appended
               /\ ~(This \in auditing /\ NowHour >= AuditHour[This]
                    /\ Audit(This, NowDay) \notin appended)
      <3>1. loop'.at = "audits" /\ loop'.left = Tail(loop.left) /\ loop'.now = loop.now
        BY <2>1, <2>3 DEF CalendarTyped, Loops
      <3>2. ASSUME NEW e \in owed \ appended, e.project \in ToCome
            PROVE  e.project \in ToSet(Tail(loop.left))
        <4>1. DueAudit(e)
          BY <2>1, <3>2 DEF OwedInv, DueEvolution
        <4>2. e.project # This
          BY <2>3, <3>2, <4>1 DEF DueAudit
        <4> QED
          BY <1>t, <2>1, <3>2, <4>2 DEF ToCome
      <3> QED
        BY <2>1, <2>3, <3>1, <3>2, OwedStays DEF ToCome
    <2> QED
      BY <1>2, <2>2, <2>3 DEF AppendAudit, Advance, PassOver
  <1>3. CASE BeginEvolutions
    <2>1. /\ UNCHANGED <<day, hour, auditing, appended, lastDate>>
          /\ loop.at = "audits" /\ loop.left = <<>>
      BY <1>3 DEF BeginEvolutions, calendar
    <2>2. owed \subseteq appended
      BY <2>1 DEF OwedInv, ToCome, ToSet
    <2>3. CASE owed' = owed \cup {Evolution(p, day) : p \in {q \in Target : EvolutionDue(q, day)}}
               /\ loop' = Pass("evolutions")
      <3>1. loop'.at = "evolutions" /\ loop'.left = Targets /\ NowDay' = day
        BY <2>3 DEF Pass, NowDay
      <3>2. ASSUME NEW e \in owed' \ appended'
            PROVE  e.project \in Target /\ e = Evolution(e.project, day)
                   /\ EvolutionDue(e.project, day)
        BY <2>1, <2>2, <2>3, <3>2 DEF Evolution
      <3>3. \A p : EvolutionDue(p, day) => EvolutionDue(p, NowDay)'
        BY <2>1, <3>1 DEF EvolutionDue, Elapsed
      <3> QED
        BY <2>1, <3>1, <3>2, <3>3 DEF OwedInv, ToCome, DueEvolution, Target
    <2>4. CASE owed' = owed /\ loop' = [Pass("evolutions") EXCEPT !.left = <<>>]
      <3>1. loop'.at = "evolutions"
        BY <2>4 DEF Pass
      <3> QED
        BY <2>1, <2>2, <2>4, <3>1 DEF OwedInv
    <2> QED
      BY <1>3, <2>3, <2>4 DEF BeginEvolutions
  <1>4. CASE AppendEvolution
    <2>1. /\ UNCHANGED <<auditing, lastDate, owed>> /\ appended \subseteq appended'
          /\ loop.at = "evolutions" /\ loop.left # <<>>
      BY <1>4 DEF AppendEvolution
    <2>2. CASE loop' = [loop EXCEPT !.at = "record"]
               /\ appended' = appended \cup {Evolution(This, NowDay)}
      <3>1. loop'.at = "record" /\ loop'.left = loop.left /\ loop'.now = loop.now
        BY <2>2 DEF CalendarTyped, Loops
      <3>2. ASSUME NEW e \in owed \ appended', e.project \in ToCome
            PROVE  e.project \in ToSet(Tail(loop.left))
        <4>1. e = Evolution(e.project, NowDay)
          BY <2>1, <3>2 DEF OwedInv, DueAudit, DueEvolution
        <4>2. e.project # This
          BY <2>2, <3>2, <4>1
        <4> QED
          BY <1>t, <2>1, <3>2, <4>2 DEF ToCome
      <3>3. (Evolution(This, NowDay))' \in appended'
        BY <2>2, <3>1 DEF Evolution, This, NowDay
      <3> QED
        BY <2>1, <3>1, <3>2, <3>3, OwedStays DEF ToCome
    <2>3. CASE loop' = [loop EXCEPT !.left = Tail(loop.left)] /\ UNCHANGED appended
               /\ ~(EvolutionDue(This, NowDay) /\ Evolution(This, NowDay) \notin appended)
      <3>1. loop'.at = "evolutions" /\ loop'.left = Tail(loop.left) /\ loop'.now = loop.now
        BY <2>1, <2>3 DEF CalendarTyped, Loops
      <3>2. ASSUME NEW e \in owed \ appended, e.project \in ToCome
            PROVE  e.project \in ToSet(Tail(loop.left))
        <4>1. DueEvolution(e)
          BY <2>1, <3>2 DEF OwedInv, DueAudit
        <4>2. e.project # This
          BY <2>3, <3>2, <4>1 DEF DueEvolution
        <4> QED
          BY <1>t, <2>1, <3>2, <4>2 DEF ToCome
      <3> QED
        BY <2>1, <2>3, <3>1, <3>2, OwedStays DEF ToCome
    <2> QED
      BY <1>4, <2>2, <2>3 DEF AppendEvolution, Advance, PassOver
  <1>5. CASE RecordDate
    <2>1. /\ UNCHANGED <<auditing, appended, owed>> /\ loop.at = "record"
          /\ lastDate' = [lastDate EXCEPT ![This] = NowDay]
          /\ loop' = [loop EXCEPT !.at = "mark_evolution"]
      BY <1>5 DEF RecordDate
    <2>2. /\ loop'.at = "mark_evolution" /\ loop'.left = loop.left /\ loop'.now = loop.now
          /\ NowDay' = NowDay /\ ToCome' = ToCome
      BY <2>1 DEF CalendarTyped, Loops, NowDay, ToCome
    <2>3. Evolution(This, NowDay) \in appended
      BY <2>1 DEF OwedInv
    <2> SUFFICES ASSUME NEW e \in owed \ appended
                 PROVE  e.project \in ToCome /\ DueEvolution(e)'
      BY <2>1, <2>2 DEF OwedInv
    <2>4. e.project \in ToCome /\ DueEvolution(e)
      BY <2>1 DEF OwedInv, DueAudit
    <2>5. e.project # This
      BY <2>3, <2>4 DEF DueEvolution
    <2>6. lastDate'[e.project] = lastDate[e.project]
      BY <2>1, <2>5 DEF CalendarTyped
    <2> QED
      BY <2>2, <2>4, <2>6 DEF DueEvolution, EvolutionDue, Elapsed
  <1>6. CASE MarkAudit \/ MarkEvolution
    <2>1. /\ UNCHANGED <<auditing, lastDate, owed, appended>>
          /\ loop' = [loop EXCEPT !.at = IF loop.at = "mark_audit" THEN "audits" ELSE "evolutions",
                                  !.left = Tail(loop.left)]
          /\ loop.at \in {"mark_audit", "mark_evolution"}
      BY <1>6 DEF MarkAudit, MarkEvolution, Mark
    <2>2. /\ loop'.at = IF loop.at = "mark_audit" THEN "audits" ELSE "evolutions"
          /\ loop'.left = Tail(loop.left) /\ loop'.now = loop.now
      BY <2>1 DEF CalendarTyped, Loops
    <2>3. ToCome' = ToCome
      BY <2>1, <2>2 DEF ToCome
    <2> QED
      BY <2>1, <2>2, <2>3, OwedStays
  <1>7. CASE Sleep \/ IterationEnds
    BY <1>7 DEF Sleep, IterationEnds, Asleep, OwedInv
  <1>8. CASE UNCHANGED <<auditing, lastDate, owed, appended, loop>>
    BY <1>8 DEF OwedInv, ToCome, DueAudit, DueEvolution, EvolutionDue, Elapsed, NowDay, NowHour,
                This
  <1>9. CASE ChangeSettings
    <2>1. ASSUME NEW p \in Target,
                 auditing' = IF p \in auditing THEN auditing \ {p} ELSE auditing \cup {p},
                 owed' = {e \in owed : e.kind # "daily_audit" \/ e.project # p}
          PROVE  OwedInv'
      <3>1. UNCHANGED <<lastDate, appended, loop>>
        BY <1>9 DEF ChangeSettings
      <3>2. /\ NowDay' = NowDay /\ NowHour' = NowHour /\ ToCome' = ToCome /\ This' = This
            /\ \A q : EvolutionDue(q, NowDay) => EvolutionDue(q, NowDay)'
        BY <3>1 DEF NowDay, NowHour, ToCome, This, EvolutionDue, Elapsed
      <3>3. auditing' \subseteq Target
        BY <2>1 DEF OwedInv
      <3>4. ASSUME NEW e \in owed' \ appended
            PROVE  e.project \in ToCome /\ (DueAudit(e) \/ DueEvolution(e))'
        <4>1. e.project \in ToCome /\ (DueAudit(e) \/ DueEvolution(e))
          BY <2>1, <3>4 DEF OwedInv
        <4>2. CASE DueAudit(e)
          <5>1. e.kind = "daily_audit"
            BY <4>2 DEF DueAudit, Audit
          <5>2. e.project \in auditing'
            BY <2>1, <3>4, <4>2, <5>1 DEF DueAudit
          <5> QED
            BY <3>1, <3>2, <4>1, <4>2, <5>2 DEF DueAudit
        <4>3. CASE DueEvolution(e)
          BY <3>1, <3>2, <4>1, <4>3 DEF DueEvolution
        <4> QED
          BY <4>1, <4>2, <4>3
      <3> QED
        BY <3>1, <3>2, <3>3, <3>4, <2>1 DEF OwedInv
    <2>2. UNCHANGED <<appended, lastDate, loop>>
      BY <1>9 DEF ChangeSettings
    <2> QED
      BY <1>8, <1>9, <2>1, <2>2 DEF ChangeSettings
  <1> QED
    BY <1>1, <1>2, <1>3, <1>4, <1>5, <1>6, <1>7, <1>8, <1>9
    DEF SchedulingNext, TimePasses, TriggerEvolution, schedulingVars

\* For any projects, hours and settings that change at any time: an iteration that
\* comes to its end has scheduled all that was due by the clock it read, and still
\* is enabled (worker.py:1589-1724).
THEOREM DueGetsScheduled == SchedulingSpec => []DueIsScheduled
  <1>1. SchedulingInit => OwedInv
    BY DEF SchedulingInit, OwedInv, Asleep
  <1>2. OwedInv => DueIsScheduled
    <2> SUFFICES ASSUME OwedInv, loop.at = "evolutions", loop.left = <<>>,
                        NEW e \in owed, e \notin appended
                 PROVE  FALSE
      BY DEF DueIsScheduled
    <2>1. e.project \in ToSet(<<>>)
      BY DEF OwedInv, ToCome
    <2> QED
      BY <2>1 DEF ToSet
  <1>3. CalendarInv => CalendarTyped
    BY DEF CalendarInv
  <1> QED
    BY CalendarInit, CalendarStep, OwedStep, <1>1, <1>2, <1>3, PTL DEF SchedulingSpec

-----------------------------------------------------------------------------
(* Self-evolution: the repository and the branch *)

CycleStates ==
    [at : {"start", "target", "seed", "read", "optimize", "evaluate", "apply", "merge"},
     left : Seq(Assets), heldOut : BOOLEAN, baseline : Nat, candidate : Nat,
     tree : [Assets -> Nat]]

OnAsset == {"read", "optimize", "evaluate", "apply", "merge"}

EvolutionTyped ==
    /\ repo \in {NoRepo, "seeded", "empty", "ready"}
    /\ head \in [Assets -> Nat] /\ texts \in Nat
    /\ cycle \in [Cycles -> CycleStates] /\ DOMAIN result = Cycles
    /\ bootLock \in Cycles \cup {"nobody"} /\ applyLock \in Cycles \cup {"nobody"}

\* Whoever bootstraps holds its lock; only a death leaves an empty repository.
Bootstrapping ==
    /\ repo = "empty" /\ bootLock = "nobody" => torn
    /\ bootLock # "nobody" => repo # "ready" /\ cycle[bootLock].at = "seed"

\* Whoever merges holds the lock on a repository that is ready, and its candidate
\* is not in place.
Merging ==
    applyLock # "nobody" =>
        /\ repo = "ready" /\ cycle[applyLock].at = "merge"
        /\ head[Asset(applyLock)] # cycle[applyLock].candidate

InCycle(c) ==
    /\ cycle[c].at = "merge" => applyLock = c
    /\ cycle[c].at \in OnAsset => cycle[c].left # <<>>
    /\ result[c] # "none" => cycle[c].at = "target" /\ cycle[c].left = <<>>

EvolutionInv ==
    EvolutionTyped /\ Bootstrapping /\ Merging /\ \A c \in Cycles : InCycle(c)

LEMMA FreshCycle == Fresh \in CycleStates /\ Fresh.at = "start"
  BY EvolutionAssumption DEF Fresh, CycleStates

LEMMA EvolutionStart == EvolutionInit => EvolutionInv
  BY FreshCycle
  DEF EvolutionInit, EvolutionInv, EvolutionTyped, Bootstrapping, Merging, InCycle, OnAsset,
      NoRepo

\* A cycle goes on in a way that concerns no one else: it neither takes a lock
\* nor has one.
LEMMA GoesOn ==
  ASSUME EvolutionInv, NEW c \in Cycles, NEW r \in CycleStates,
         cycle' = [cycle EXCEPT ![c] = r],
         UNCHANGED <<repo, head, bootLock, applyLock, result, torn>>, texts' \in Nat,
         cycle[c].at \notin {"merge", "seed"}, r.at # "merge",
         r.at \in OnAsset => r.left # <<>>,
         cycle[c].at # "target" \/ cycle[c].left # <<>>
  PROVE  EvolutionInv'
  <1>1. /\ cycle'[c] = r
        /\ \A d \in Cycles \ {c} : cycle'[d] = cycle[d]
    BY DEF EvolutionInv, EvolutionTyped
  <1>2. EvolutionTyped'
    BY DEF EvolutionInv, EvolutionTyped
  <1>3. \A d \in Cycles : InCycle(d)'
    BY <1>1 DEF EvolutionInv, InCycle
  <1>4. bootLock # c /\ applyLock # c
    BY EvolutionAssumption DEF EvolutionInv, Bootstrapping, Merging
  <1>5. Bootstrapping' /\ Merging'
    BY <1>1, <1>4 DEF EvolutionInv, EvolutionTyped, Bootstrapping, Merging, Asset
  <1> QED
    BY <1>2, <1>3, <1>5 DEF EvolutionInv

\* A cycle that has an asset goes on to the next one.
LEMMA NextAsset ==
  ASSUME EvolutionInv, NEW c \in Cycles, cycle[c].left # <<>>
  PROVE  LET r == [Fresh EXCEPT !.at = "target", !.left = Tail(cycle[c].left)]
         IN  r \in CycleStates /\ r.at = "target"
  <1>1. cycle[c].left \in Seq(Assets)
    BY DEF EvolutionInv, EvolutionTyped, CycleStates
  <1>2. Tail(cycle[c].left) \in Seq(Assets)
    BY <1>1
  <1> QED
    BY <1>2, FreshCycle DEF CycleStates

LEMMA OutcomeGoesOn ==
  ASSUME EvolutionInv, NEW c \in Cycles, cycle[c].left # <<>>,
         \E status : Outcome(c, status),
         UNCHANGED <<repo, head, bootLock, applyLock, result, torn>>, texts' \in Nat,
         cycle[c].at \notin {"merge", "seed"}
  PROVE  EvolutionInv'
  <1> DEFINE r == [Fresh EXCEPT !.at = "target", !.left = Tail(cycle[c].left)]
  <1>1. r \in CycleStates /\ r.at = "target" /\ cycle' = [cycle EXCEPT ![c] = r]
    BY NextAsset DEF Outcome
  <1> HIDE DEF r
  <1> QED
    BY <1>1, GoesOn DEF OnAsset

\* Who merges lets go of its lock with the outcome.
LEMMA LetsGo ==
  ASSUME EvolutionInv, NEW c \in Cycles, applyLock = c, applyLock' = "nobody",
         \E status : Outcome(c, status), head' \in [Assets -> Nat],
         UNCHANGED <<repo, bootLock, result, torn, texts>>
  PROVE  EvolutionInv'
  <1> DEFINE r == [Fresh EXCEPT !.at = "target", !.left = Tail(cycle[c].left)]
  <1>0. /\ repo = "ready" /\ cycle[c].at = "merge" /\ cycle[c].left # <<>>
        /\ result[c] = "none" /\ bootLock = "nobody"
        /\ \A d \in Cycles \ {c} : cycle[d].at # "merge"
    BY EvolutionAssumption DEF EvolutionInv, Merging, InCycle, OnAsset, Bootstrapping
  <1>1. r \in CycleStates /\ r.at = "target" /\ cycle' = [cycle EXCEPT ![c] = r]
    BY <1>0, NextAsset DEF Outcome
  <1> HIDE DEF r
  <1>2. /\ cycle'[c] = r
        /\ \A d \in Cycles \ {c} : cycle'[d] = cycle[d]
    BY <1>1 DEF EvolutionInv, EvolutionTyped
  <1>3. EvolutionTyped'
    BY <1>1 DEF EvolutionInv, EvolutionTyped
  <1>4. \A d \in Cycles : InCycle(d)'
    BY <1>0, <1>1, <1>2 DEF EvolutionInv, InCycle, OnAsset
  <1>5. Bootstrapping' /\ Merging'
    BY <1>0 DEF Bootstrapping, Merging
  <1> QED
    BY <1>3, <1>4, <1>5 DEF EvolutionInv

LEMMA EnterStep ==
  ASSUME EvolutionInv, NEW c \in Cycles, EnterBootstrap(c)
  PROVE  EvolutionInv'
  <1>1. /\ cycle[c].at = "start" /\ bootLock = "nobody"
        /\ UNCHANGED <<head, applyLock, result, texts, torn>>
    BY DEF EnterBootstrap, Stands
  <1>2. CASE Valid
    <2> DEFINE r == [cycle[c] EXCEPT !.at = "target"]
    <2>1. cycle' = [cycle EXCEPT ![c] = r] /\ UNCHANGED <<bootLock, repo>>
      BY <1>2 DEF EnterBootstrap, Goes
    <2>2. r \in CycleStates /\ r.at = "target"
      BY DEF EvolutionInv, EvolutionTyped, CycleStates
    <2> HIDE DEF r
    <2> QED
      BY <1>1, <2>1, <2>2, GoesOn DEF OnAsset, EvolutionInv, EvolutionTyped
  <1>3. CASE ~Valid
    <2> DEFINE r == [cycle[c] EXCEPT !.at = "seed"]
    <2>1. cycle' = [cycle EXCEPT ![c] = r] /\ bootLock' = c /\ repo' = NoRepo
      BY <1>3 DEF EnterBootstrap, Goes
    <2>2. r \in CycleStates /\ r.at = "seed"
      BY DEF EvolutionInv, EvolutionTyped, CycleStates
    <2> HIDE DEF r
    <2>3. /\ cycle'[c] = r
          /\ \A d \in Cycles \ {c} : cycle'[d] = cycle[d]
      BY <2>1 DEF EvolutionInv, EvolutionTyped
    <2>4. applyLock = "nobody"
      BY <1>3 DEF EvolutionInv, Merging, Valid
    <2>5. EvolutionTyped'
      BY <1>1, <2>1, <2>2 DEF EvolutionInv, EvolutionTyped
    <2>6. Bootstrapping' /\ Merging'
      BY <1>1, <2>1, <2>2, <2>3, <2>4 DEF Bootstrapping, Merging, NoRepo
    <2>7. \A d \in Cycles : InCycle(d)'
      BY <1>1, <2>2, <2>3 DEF EvolutionInv, InCycle, OnAsset
    <2> QED
      BY <2>5, <2>6, <2>7 DEF EvolutionInv
  <1> QED
    BY <1>2, <1>3

LEMMA BootstrapStep ==
  ASSUME EvolutionInv, NEW c \in Cycles, Bootstrap(c)
  PROVE  EvolutionInv'
  <1>1. /\ bootLock = c /\ cycle[c].at = "seed" /\ repo # "ready" /\ applyLock = "nobody"
        /\ UNCHANGED <<applyLock, result, texts, torn>>
    BY EvolutionAssumption DEF Bootstrap, EvolutionInv, Bootstrapping, Merging
  <1>2. CASE /\ repo' \in {"seeded", "empty"} /\ UNCHANGED <<bootLock, cycle, head>>
    <2>1. EvolutionTyped' /\ Bootstrapping' /\ Merging'
      BY <1>1, <1>2, EvolutionAssumption
      DEF EvolutionInv, EvolutionTyped, Bootstrapping, Merging
    <2>2. \A d \in Cycles : InCycle(d)'
      BY <1>1, <1>2 DEF EvolutionInv, InCycle
    <2> QED
      BY <2>1, <2>2 DEF EvolutionInv
  <1>3. CASE /\ repo' = "ready" /\ bootLock' = "nobody" /\ Goes(c, "target")
             /\ head' = [a \in Assets |-> 0]
    <2> DEFINE r == [cycle[c] EXCEPT !.at = "target"]
    <2>1. cycle' = [cycle EXCEPT ![c] = r]
      BY <1>3 DEF Goes
    <2>2. r \in CycleStates /\ r.at = "target"
      BY DEF EvolutionInv, EvolutionTyped, CycleStates
    <2> HIDE DEF r
    <2>3. /\ cycle'[c] = r
          /\ \A d \in Cycles \ {c} : cycle'[d] = cycle[d]
      BY <2>1 DEF EvolutionInv, EvolutionTyped
    <2>4. EvolutionTyped'
      BY <1>1, <1>3, <2>1, <2>2 DEF EvolutionInv, EvolutionTyped
    <2>5. Bootstrapping' /\ Merging'
      BY <1>1, <1>3 DEF Bootstrapping, Merging
    <2>6. \A d \in Cycles : InCycle(d)'
      BY <1>1, <2>2, <2>3 DEF EvolutionInv, InCycle, OnAsset
    <2> QED
      BY <2>4, <2>5, <2>6 DEF EvolutionInv
  <1>4. \/ /\ repo' \in {"seeded", "empty"} /\ UNCHANGED <<bootLock, cycle, head>>
        \/ /\ repo' = "ready" /\ bootLock' = "nobody" /\ Goes(c, "target")
           /\ head' = [a \in Assets |-> 0]
    <2>1. repo \in {NoRepo, "seeded", "empty"}
      BY <1>1 DEF EvolutionInv, EvolutionTyped
    <2>2. CASE repo = NoRepo
      BY <2>2 DEF Bootstrap, BootstrapSteps
    <2>3. CASE repo = "seeded"
      <3>1. (CHOOSE i \in 1 .. 3 : BootstrapSteps[i] = "seeded") = 1
        BY DEF BootstrapSteps
      <3> QED
        BY <2>3, <3>1 DEF Bootstrap, BootstrapSteps, NoRepo
    <2>4. CASE repo = "empty"
      <3>1. (CHOOSE i \in 1 .. 3 : BootstrapSteps[i] = "empty") = 2
        BY DEF BootstrapSteps
      <3> QED
        BY <2>4, <3>1 DEF Bootstrap, BootstrapSteps, NoRepo
    <2> QED
      BY <2>1, <2>2, <2>3, <2>4
  <1> QED
    BY <1>2, <1>3, <1>4

LEMMA AssetStep ==
  ASSUME EvolutionInv, NEW c \in Cycles,
         GatherTasks(c) \/ ReadBaseline(c) \/ Optimize(c) \/ Evaluate(c)
  PROVE  EvolutionInv'
  <1>1. /\ UNCHANGED <<repo, head, bootLock, applyLock, result, torn>> /\ texts' \in Nat
        /\ cycle[c].at \notin {"merge", "seed"} /\ cycle[c].left # <<>>
    BY DEF GatherTasks, ReadBaseline, Optimize, Evaluate, Stands, EvolutionInv, InCycle,
           EvolutionTyped, OnAsset
  <1>2. CASE \E status : Outcome(c, status)
    BY <1>1, <1>2, OutcomeGoesOn
  <1>3. ASSUME NEW r \in CycleStates, cycle' = [cycle EXCEPT ![c] = r],
               r.at \in OnAsset \ {"merge"}, r.left = cycle[c].left
        PROVE  EvolutionInv'
    BY <1>1, <1>3, GoesOn
  <1>4. cycle[c] \in CycleStates
    BY DEF EvolutionInv, EvolutionTyped
  <1>5. CASE GatherTasks(c)
    <2>1. ASSUME NEW held \in BOOLEAN, cycle' = [cycle EXCEPT ![c].at = "read", ![c].heldOut = held]
          PROVE  EvolutionInv'
      <3> DEFINE r == [cycle[c] EXCEPT !.at = "read", !.heldOut = held]
      <3>1. r \in CycleStates /\ r.at = "read" /\ r.left = cycle[c].left
        BY <1>4 DEF CycleStates
      <3>2. cycle' = [cycle EXCEPT ![c] = r]
        BY <2>1
      <3> HIDE DEF r
      <3> QED
        BY <1>3, <3>1, <3>2 DEF OnAsset
    <2> QED
      BY <1>2, <1>5, <2>1 DEF GatherTasks, HeldOut
  <1>6. CASE ReadBaseline(c)
    <2> DEFINE r == [cycle[c] EXCEPT !.at = "optimize", !.baseline = head[Asset(c)]]
    <2>1. head[Asset(c)] \in Nat
      <3>1. cycle[c].left \in Seq(Assets)
        BY <1>4 DEF CycleStates
      <3>2. Asset(c) \in Assets
        BY <1>1, <3>1 DEF Asset
      <3> QED
        BY <3>2 DEF EvolutionInv, EvolutionTyped
    <2>2. r \in CycleStates /\ r.at = "optimize" /\ r.left = cycle[c].left
      BY <1>4, <2>1 DEF CycleStates
    <2>3. cycle' = [cycle EXCEPT ![c] = r]
      BY <1>6 DEF ReadBaseline
    <2> HIDE DEF r
    <2> QED
      BY <1>3, <2>2, <2>3 DEF OnAsset
  <1>7. CASE Optimize(c)
    <2>1. PICK n \in Nat : cycle' = [cycle EXCEPT ![c].at = "evaluate", ![c].candidate = n]
      <3>1. texts + 1 \in Nat /\ cycle[c].baseline \in Nat
        BY <1>4 DEF CycleStates, EvolutionInv, EvolutionTyped
      <3> QED
        BY <1>7, <3>1 DEF Optimize
    <2> DEFINE r == [cycle[c] EXCEPT !.at = "evaluate", !.candidate = n]
    <2>2. r \in CycleStates /\ r.at = "evaluate" /\ r.left = cycle[c].left
      BY <1>4, <2>1 DEF CycleStates
    <2>3. cycle' = [cycle EXCEPT ![c] = r]
      BY <2>1
    <2> HIDE DEF r
    <2> QED
      BY <1>3, <2>2, <2>3 DEF OnAsset
  <1>8. CASE Evaluate(c)
    <2>1. ASSUME cycle' = [cycle EXCEPT ![c].at = "apply", ![c].heldOut = FALSE]
          PROVE  EvolutionInv'
      <3> DEFINE r == [cycle[c] EXCEPT !.at = "apply", !.heldOut = FALSE]
      <3>1. r \in CycleStates /\ r.at = "apply" /\ r.left = cycle[c].left
        BY <1>4 DEF CycleStates
      <3>2. cycle' = [cycle EXCEPT ![c] = r]
        BY <2>1
      <3> HIDE DEF r
      <3> QED
        BY <1>3, <3>1, <3>2 DEF OnAsset
    <2> QED
      BY <1>2, <1>8, <2>1 DEF Evaluate
  <1> QED
    BY <1>5, <1>6, <1>7, <1>8

LEMMA ApplyStep ==
  ASSUME EvolutionInv, NEW c \in Cycles,
         AssetFails(c) \/ TakeApplyLock(c) \/ MergeCandidate(c)
  PROVE  EvolutionInv'
  <1>1. /\ UNCHANGED <<repo, bootLock, result, torn, texts>>
        /\ cycle[c].at \in OnAsset /\ cycle[c].left # <<>> /\ texts \in Nat
        /\ head \in [Assets -> Nat] /\ cycle[c] \in CycleStates
    BY DEF AssetFails, TakeApplyLock, MergeCandidate, Stands, EvolutionInv, InCycle,
           EvolutionTyped, OnAsset
  <1>2. CASE AssetFails(c)
    <2>1. CASE applyLock = c
      BY <1>1, <1>2, <2>1, LetsGo DEF AssetFails
    <2>2. CASE applyLock # c
      <3>1. cycle[c].at \notin {"merge", "seed"}
        BY <1>1, <2>2 DEF EvolutionInv, InCycle, OnAsset
      <3> QED
        BY <1>1, <1>2, <2>2, <3>1, OutcomeGoesOn DEF AssetFails
    <2> QED
      BY <2>1, <2>2
  <1>3. CASE MergeCandidate(c)
    <2>1. applyLock = c
      BY <1>3 DEF MergeCandidate, Stands, EvolutionInv, InCycle
    <2>2. head' \in [Assets -> Nat]
      BY <1>1, <1>3 DEF MergeCandidate, CycleStates
    <2> QED
      BY <1>1, <1>3, <2>1, <2>2, LetsGo DEF MergeCandidate
  <1>4. CASE TakeApplyLock(c) /\ \E status : Outcome(c, status) /\ UNCHANGED applyLock
    BY <1>1, <1>4, OutcomeGoesOn DEF TakeApplyLock, Stands
  <1>5. CASE TakeApplyLock(c) /\ applyLock' = c
    <2> DEFINE r == [cycle[c] EXCEPT !.at = "merge", !.tree = head]
    <2>1. /\ cycle[c].at = "apply" /\ applyLock = "nobody" /\ UNCHANGED head
      BY <1>5 DEF TakeApplyLock, Stands
    <2>2. /\ head[Asset(c)] # cycle[c].candidate /\ repo = "ready"
          /\ cycle' = [cycle EXCEPT ![c] = r]
      BY <1>5, <2>1, EvolutionAssumption DEF TakeApplyLock, InPlace
    <2>3. /\ r \in CycleStates /\ r.at = "merge" /\ r.left = cycle[c].left
          /\ r.candidate = cycle[c].candidate
      BY <1>1 DEF CycleStates
    <2> HIDE DEF r
    <2>4. /\ cycle'[c] = r
          /\ \A d \in Cycles \ {c} : cycle'[d] = cycle[d]
      BY <2>2 DEF EvolutionInv, EvolutionTyped
    <2>5. EvolutionTyped'
      BY <1>1, <1>5, <2>1, <2>2, <2>3 DEF EvolutionInv, EvolutionTyped
    <2>6. bootLock = "nobody"
      BY <2>2 DEF EvolutionInv, Bootstrapping
    <2>7. Bootstrapping' /\ Merging'
      BY <1>1, <1>5, <2>1, <2>2, <2>3, <2>4, <2>6 DEF Bootstrapping, Merging, Asset
    <2>8. \A d \in Cycles : InCycle(d)'
      <3>1. \A d \in Cycles : cycle[d].at # "merge"
        BY <2>1, EvolutionAssumption DEF EvolutionInv, InCycle
      <3>2. result[c] = "none"
        BY <2>1 DEF EvolutionInv, InCycle
      <3> QED
        BY <1>1, <1>5, <2>3, <2>4, <3>1, <3>2 DEF EvolutionInv, InCycle
    <2> QED
      BY <2>5, <2>7, <2>8 DEF EvolutionInv
  <1> QED
    BY <1>2, <1>3, <1>4, <1>5 DEF TakeApplyLock

LEMMA EndOrDeathStep ==
  ASSUME EvolutionInv, (\E c \in Cycles : FinishCycle(c)) \/ WorkerDiesEvolving
  PROVE  EvolutionInv'
  <1>1. ASSUME NEW c \in Cycles, FinishCycle(c) PROVE EvolutionInv'
    <2>1. /\ UNCHANGED <<repo, head, bootLock, applyLock, cycle, texts, torn>>
          /\ cycle[c].at = "target" /\ cycle[c].left = <<>>
          /\ DOMAIN result' = Cycles
          /\ \A d \in Cycles \ {c} : result'[d] = result[d]
      BY <1>1 DEF FinishCycle, Stands, EvolutionInv, EvolutionTyped
    <2>2. EvolutionTyped' /\ Bootstrapping' /\ Merging'
      BY <2>1 DEF EvolutionInv, EvolutionTyped, Bootstrapping, Merging, Asset
    <2>3. \A d \in Cycles : InCycle(d)'
      BY <2>1 DEF EvolutionInv, InCycle, OnAsset
    <2> QED
      BY <2>2, <2>3 DEF EvolutionInv
  <1>2. CASE WorkerDiesEvolving
    <2>1. /\ UNCHANGED <<repo, head, result, texts>> /\ torn' = (torn \/ repo = "empty")
          /\ bootLock' = "nobody" /\ applyLock' = "nobody"
          /\ cycle' = [c \in Cycles |-> IF result[c] = "none" THEN Fresh ELSE cycle[c]]
      BY <1>2 DEF WorkerDiesEvolving
    <2>2. EvolutionTyped' /\ Bootstrapping' /\ Merging'
      BY <2>1, FreshCycle DEF EvolutionInv, EvolutionTyped, Bootstrapping, Merging
    <2>3. \A d \in Cycles : InCycle(d)'
      BY <2>1, FreshCycle DEF EvolutionInv, InCycle, OnAsset
    <2> QED
      BY <2>2, <2>3 DEF EvolutionInv
  <1> QED
    BY <1>1, <1>2

LEMMA EvolutionInvStep == EvolutionInv /\ [EvolutionNext]_evolutionVars => EvolutionInv'
  <1> SUFFICES ASSUME EvolutionInv, [EvolutionNext]_evolutionVars PROVE EvolutionInv'
    OBVIOUS
  <1>1. CASE UNCHANGED evolutionVars
    BY <1>1 DEF evolutionVars, EvolutionInv, EvolutionTyped, Bootstrapping, Merging, InCycle,
                Asset
  <1>2. CASE EvolutionNext
    BY <1>2, EnterStep, BootstrapStep, AssetStep, ApplyStep, EndOrDeathStep
    DEF EvolutionNext, EvolutionStep
  <1> QED
    BY <1>1, <1>2

\* For any number of cycles, assets and deaths: what validation lets pass can be
\* applied to, unless a worker died between git init and the first commit
\* (selfevolution/repo.py:73-145).
THEOREM ValidIsReady == EvolutionSpec => []ValidMeansReady
  <1>1. EvolutionInv => ValidMeansReady
    BY DEF EvolutionInv, Bootstrapping, ValidMeansReady, Valid
  <1> QED
    BY EvolutionStart, EvolutionInvStep, <1>1, PTL DEF EvolutionSpec

\* A candidate that is its own baseline is merged only over a text that someone
\* else has put in place since (selfevolution/apply.py:71-155).
THEOREM NothingNewIsNotMerged == EvolutionSpec => NothingFoundChangesNothing
  <1>1. EvolutionInv => \A c \in Cycles :
           applyLock = c /\ cycle[c].candidate = cycle[c].baseline
             => head[Asset(c)] # cycle[c].baseline
    BY EvolutionAssumption DEF EvolutionInv, Merging
  <1>2. EvolutionInv => \A c \in Cycles :
           (applyLock = c /\ applyLock' # c /\ cycle[c].candidate = cycle[c].baseline)
             => head[Asset(c)] # cycle[c].baseline
    BY <1>1
  <1> QED
    BY EvolutionStart, EvolutionInvStep, <1>2, PTL
    DEF EvolutionSpec, NothingFoundChangesNothing

-----------------------------------------------------------------------------
(* Daily audit: what it publishes, and what is remembered of it *)

AuditStates ==
    [at : {"new", "direction", "analysis", "report", "fix", "push", "request", "done", "cut"},
     lines : Nat]

AuditTyped ==
    /\ audit \in [Attempts -> AuditStates]
    /\ issues \subseteq Attempts /\ requests \subseteq Attempts
    /\ events \in [MemoryKinds -> Seq(Attempts)]
    /\ working \in [MemoryKinds -> BOOLEAN]
    /\ memory \in [MemoryKinds -> SUBSET Attempts]
    /\ misfortunes \in Nat

\* Who has published is at its end; while no one was late, it was the only one, and
\* nobody else begins.
OnceInv ==
    /\ \A t \in Published : audit[t].at \in {"done", "cut"}
    /\ issues \cap requests = {}
    /\ ~late =>
          /\ \A t, u \in Attempts : Auditing(t) /\ Auditing(u) => t = u
          /\ Published # {} => handled /\ \A t \in Attempts : ~Auditing(t)
          /\ \A t, u \in Published : t = u

\* A follow-up that is being handled is the oldest, and was fit to be begun.
FollowUpInv ==
    \A k \in MemoryKinds : working[k] =>
        /\ events[k] # <<>>
        /\ k # "direction" => Head(events[k]) \in archived
        /\ <<k, Head(events[k])>> \in early

MaterialInv == AuditTyped /\ FollowUpInv /\ MemoryIsOfSoundAudits

LEMMA AuditStart == AuditInit => OnceInv /\ MaterialInv
  BY AuditAssumption
  DEF AuditInit, OnceInv, MaterialInv, AuditTyped, AuditStates, FollowUpInv,
      MemoryIsOfSoundAudits, Published, Auditing

\* Follow-ups queue behind what is there.
LEMMA QueuedBehind ==
  ASSUME AuditTyped, NEW t \in Attempts, NEW kinds, FollowUp(t, kinds)
  PROVE  /\ events' \in [MemoryKinds -> Seq(Attempts)]
         /\ \A k \in MemoryKinds : events[k] # <<>> =>
               events'[k] # <<>> /\ Head(events'[k]) = Head(events[k])
  <1> SUFFICES ASSUME NEW k \in MemoryKinds
               PROVE  /\ events'[k] \in Seq(Attempts)
                      /\ events[k] # <<>> =>
                            events'[k] # <<>> /\ Head(events'[k]) = Head(events[k])
    BY DEF FollowUp
  <1>1. events[k] \in Seq(Attempts)
    BY DEF AuditTyped
  <1>2. events'[k] \in {events[k], Append(events[k], t)}
    BY DEF FollowUp
  <1>3. /\ Append(events[k], t) \in Seq(Attempts) /\ Append(events[k], t) # <<>>
        /\ events[k] # <<>> => Append(events[k], t)[1] = events[k][1]
    BY <1>1, AppendProperties
  <1>4. \A s \in Seq(Attempts) : s # <<>> => Head(s) = s[1]
    OBVIOUS
  <1> QED
    BY <1>1, <1>2, <1>3, <1>4

\* A step of an attempt: its events queue behind the others, its transcript is kept.
LEMMA AttemptStep ==
  ASSUME MaterialInv, NEW t \in Attempts,
         \/ BeginAudit(t) \/ Direction(t) \/ Analysis(t) \/ Report(t) \/ Commit(t)
         \/ PushBranch(t) \/ OpenRequest(t) \/ TerminateAudit(t) \/ CutAttempt(t)
         \/ RequestAuditEnd(t)
  PROVE  MaterialInv'
  <1> USE DEF MaterialInv, gitlab, memories
  <1>1. UNCHANGED <<working, memory, early>> /\ archived \subseteq archived'
    BY DEF BeginAudit, Direction, Analysis, Report, Commit, PushBranch, OpenRequest,
           TerminateAudit, CutAttempt, RequestAuditEnd, ArchiveTranscript
  <1>2. UNCHANGED events \/ \E kinds : FollowUp(t, kinds)
    BY DEF BeginAudit, Direction, Analysis, Report, Commit, PushBranch, OpenRequest,
           TerminateAudit, CutAttempt, RequestAuditEnd
  <1>3. /\ events' \in [MemoryKinds -> Seq(Attempts)]
        /\ \A k \in MemoryKinds : events[k] # <<>> =>
               events'[k] # <<>> /\ Head(events'[k]) = Head(events[k])
    BY <1>2, QueuedBehind DEF AuditTyped
  <1>4. /\ issues' \subseteq Attempts /\ requests' \subseteq Attempts /\ misfortunes' \in Nat
    BY DEF BeginAudit, Direction, Analysis, Report, Commit, PushBranch, OpenRequest,
           TerminateAudit, CutAttempt, RequestAuditEnd, AuditTyped, Misfortune
  <1>5. audit' \in [Attempts -> AuditStates]
    <2>1. \A s \in {"direction", "analysis", "push", "request", "done", "cut"} :
             [audit EXCEPT ![t].at = s] \in [Attempts -> AuditStates]
      BY DEF AuditTyped, AuditStates
    <2>2. CASE Analysis(t)
      <3>0. PICK autofix \in BOOLEAN, lines \in 0..MaxLines :
               audit' = [audit EXCEPT ![t] = [at |-> IF autofix THEN "fix" ELSE "report",
                                              lines |-> IF autofix THEN lines ELSE 0]]
        BY <2>2 DEF Analysis
      <3>1. PICK s \in {"fix", "report"}, n \in Nat :
               audit' = [audit EXCEPT ![t] = [at |-> s, lines |-> n]]
        <4>1. (IF autofix THEN lines ELSE 0) \in Nat
          BY AuditAssumption
        <4> QED
          BY <3>0, <4>1
      <3>2. [at |-> s, lines |-> n] \in AuditStates
        BY DEF AuditStates
      <3> QED
        BY <3>1, <3>2 DEF AuditTyped
    <2>3. CASE ~Analysis(t)
      BY <2>1, <2>3
      DEF BeginAudit, Direction, Report, Commit, PushBranch, OpenRequest, AuditTyped,
          TerminateAudit, CutAttempt, RequestAuditEnd, Proceeds, AfterReport
    <2> QED
      BY <2>2, <2>3
  <1>6. AuditTyped'
    BY <1>1, <1>3, <1>4, <1>5 DEF AuditTyped
  <1>7. FollowUpInv'
    BY <1>1, <1>3 DEF FollowUpInv
  <1>8. MemoryIsOfSoundAudits'
    BY <1>1 DEF MemoryIsOfSoundAudits
  <1> QED
    BY <1>6, <1>7, <1>8

LEMMA FollowUpStep ==
  ASSUME MaterialInv, NEW k \in MemoryKinds, BeginFollowUp(k) \/ EndFollowUp(k)
  PROVE  MaterialInv'
  <1> USE DEF MaterialInv, gitlab
  <1>1. UNCHANGED <<audit, archived, issues, requests>>
    BY DEF BeginFollowUp, EndFollowUp
  <1>2. /\ events[k] # <<>> /\ events[k] \in Seq(Attempts)
        /\ Head(events[k]) \in Attempts /\ Tail(events[k]) \in Seq(Attempts)
    <2>1. events[k] # <<>> /\ events[k] \in Seq(Attempts)
      BY DEF BeginFollowUp, EndFollowUp, FollowUpInv, AuditTyped
    <2> QED
      BY <2>1
  <1>3. events' \in [MemoryKinds -> Seq(Attempts)] /\ misfortunes' \in Nat
        /\ \A j \in MemoryKinds \ {k} : events'[j] = events[j]
    <2>1. misfortunes' \in Nat
      BY DEF BeginFollowUp, EndFollowUp, AuditTyped, Misfortune
    <2>2. events' = events \/ events' = [events EXCEPT ![k] = Tail(events[k])]
      BY DEF BeginFollowUp, EndFollowUp, Drop
    <2> QED
      BY <1>2, <2>1, <2>2 DEF AuditTyped
  <1>4. CASE BeginFollowUp(k)
    <2> DEFINE t == Head(events[k])
    <2>1. UNCHANGED memory /\ early \subseteq early' /\ ~working[k]
      BY <1>4 DEF BeginFollowUp
    <2>2. \/ UNCHANGED working
          \/ /\ working' = [working EXCEPT ![k] = TRUE] /\ UNCHANGED events
             /\ k = "direction" \/ t \in archived
             /\ <<k, t>> \in early'
      BY <1>4 DEF BeginFollowUp, HasMaterial, ParentTerminated
    <2>3. AuditTyped'
      BY <1>1, <1>3, <2>1, <2>2 DEF AuditTyped
    <2>4. FollowUpInv'
      BY <1>1, <1>2, <1>3, <2>1, <2>2 DEF FollowUpInv, AuditTyped
    <2> QED
      BY <1>1, <2>1, <2>3, <2>4 DEF MemoryIsOfSoundAudits
  <1>5. CASE EndFollowUp(k)
    <2> DEFINE t == Head(events[k])
    <2>1. /\ working[k] /\ working' = [working EXCEPT ![k] = FALSE] /\ UNCHANGED early
          /\ UNCHANGED memory \/ memory' = [memory EXCEPT ![k] = @ \cup {t}]
      BY <1>5 DEF EndFollowUp, Remember
    <2>2. (k # "direction" => t \in archived) /\ <<k, t>> \in early
      BY <2>1 DEF FollowUpInv
    <2>3. AuditTyped'
      BY <1>1, <1>2, <1>3, <2>1 DEF AuditTyped
    <2>4. FollowUpInv'
      BY <1>1, <1>3, <2>1 DEF FollowUpInv, AuditTyped
    <2>5. MemoryIsOfSoundAudits'
      BY <1>1, <2>1, <2>2 DEF MemoryIsOfSoundAudits, AuditTyped
    <2> QED
      BY <2>3, <2>4, <2>5
  <1> QED
    BY <1>4, <1>5

LEMMA MaterialStep == MaterialInv /\ [AuditNext]_auditVars => MaterialInv'
  <1> SUFFICES ASSUME MaterialInv, [AuditNext]_auditVars PROVE MaterialInv'
    OBVIOUS
  <1>1. CASE UNCHANGED auditVars
    BY <1>1 DEF auditVars, gitlab, memories, MaterialInv, AuditTyped, FollowUpInv,
                MemoryIsOfSoundAudits
  <1>2. CASE AuditNext
    BY <1>2, AttemptStep, FollowUpStep DEF AuditNext
  <1> QED
    BY <1>1, <1>2

\* For any number of attempts, kinds of memory and misfortunes: memory comes from
\* archived analyses only, by follow-ups that began before their audit was asked to
\* terminate (session_lifecycle.py:138, short_term.py:59).
THEOREM MemoryIsSound == AuditSpec => []MemoryIsOfSoundAudits
  <1>1. MaterialInv => MemoryIsOfSoundAudits
    BY DEF MaterialInv
  <1> QED
    BY AuditStart, MaterialStep, <1>1, PTL DEF AuditSpec

\* An attempt at t that ends, publishing or not, was the only one, or someone was
\* late; what it publishes is its only output.
LEMMA OnceEnds ==
  ASSUME AuditTyped, OnceInv, NEW t \in Attempts, Auditing(t),
         audit' \in {[audit EXCEPT ![t].at = "done"], [audit EXCEPT ![t].at = "cut"]},
         Published' = Published \/ Published' = Published \cup {t},
         issues' \cap requests' = {}, late => late',
         Published' # Published => late' \/ handled', handled => handled'
  PROVE  OnceInv'
  <1>1. /\ audit'[t].at \in {"done", "cut"}
        /\ \A u \in Attempts \ {t} : audit'[u] = audit[u]
    BY DEF AuditTyped, AuditStates
  <1>2. /\ ~Auditing(t)'
        /\ \A u \in Attempts : Auditing(u)' => Auditing(u)
    BY <1>1 DEF Auditing
  <1>3. Published \subseteq Attempts
    BY DEF AuditTyped, Published
  <1>4. \A u \in Published' : audit'[u].at \in {"done", "cut"}
    BY <1>1, <1>3 DEF OnceInv
  <1>5. ASSUME ~late'
        PROVE  /\ \A v, u \in Attempts : Auditing(v)' /\ Auditing(u)' => v = u
               /\ Published' # {} => handled' /\ \A u \in Attempts : ~Auditing(u)'
               /\ \A v, u \in Published' : v = u
    <2>1. Published = {} /\ \A u \in Attempts : Auditing(u) => u = t
      BY <1>5 DEF OnceInv
    <2> QED
      BY <1>2, <1>5, <2>1
  <1> QED
    BY <1>4, <1>5 DEF OnceInv

LEMMA OnceStep == AuditTyped /\ OnceInv /\ [AuditNext]_auditVars => OnceInv'
  <1> SUFFICES ASSUME AuditTyped, OnceInv, [AuditNext]_auditVars PROVE OnceInv'
    OBVIOUS
  <1> USE DEF gitlab
  <1>1. ASSUME NEW t \in Attempts, BeginAudit(t) PROVE OnceInv'
    <2>1. /\ audit[t].at = "new" /\ audit' = [audit EXCEPT ![t].at = "direction"]
          /\ ~handled /\ UNCHANGED <<issues, requests, handled>>
          /\ (\E u \in Attempts : Auditing(u)) => late'
          /\ ~late' => ~late
      BY <1>1 DEF BeginAudit, Proceeds
    <2>2. /\ audit'[t].at = "direction"
          /\ \A u \in Attempts \ {t} : audit'[u] = audit[u]
      BY <2>1 DEF AuditTyped, AuditStates
    <2>3. \A u \in Published' : audit'[u].at \in {"done", "cut"}
      BY <2>1, <2>2 DEF OnceInv, Published, AuditTyped
    <2>4. ~late' => Published = {} /\ \A u \in Attempts : Auditing(u)' => u = t
      BY <2>1, <2>2 DEF OnceInv, Auditing
    <2> QED
      BY <2>1, <2>3, <2>4 DEF OnceInv, Published
  <1>2. ASSUME NEW t \in Attempts, Direction(t) \/ Analysis(t) \/ Commit(t) \/ PushBranch(t)
        PROVE  OnceInv'
    <2>1. /\ UNCHANGED <<issues, requests, handled, late>> /\ Auditing(t)
          /\ audit'[t].at \in {"analysis", "fix", "report", "push", "request"}
          /\ \A u \in Attempts \ {t} : audit'[u] = audit[u]
      BY <1>2 DEF Direction, Analysis, Commit, PushBranch, Proceeds, AuditTyped, AuditStates,
                  Auditing
    <2>2. \A u \in Attempts : Auditing(u)' <=> Auditing(u)
      BY <2>1 DEF Auditing
    <2>3. \A u \in Published' : audit'[u].at \in {"done", "cut"}
      BY <2>1 DEF OnceInv, Published, AuditTyped, Auditing
    <2> QED
      BY <2>1, <2>2, <2>3 DEF OnceInv, Published
  <1>3. ASSUME NEW t \in Attempts, Report(t) \/ OpenRequest(t) \/ TerminateAudit(t) \/ CutAttempt(t)
        PROVE  OnceInv'
    <2>1. Auditing(t)
      BY <1>3 DEF Report, OpenRequest, TerminateAudit, CutAttempt, Proceeds, Auditing
    <2>2. t \notin Published
      BY <2>1 DEF OnceInv, Auditing
    <2>3. \/ /\ UNCHANGED <<issues, requests>>
          \/ /\ issues' = issues \cup {t} /\ UNCHANGED requests /\ (late' \/ handled')
          \/ /\ requests' = requests \cup {t} /\ UNCHANGED issues /\ (late' \/ handled')
      BY <1>3 DEF Report, OpenRequest, TerminateAudit, CutAttempt, AfterReport
    <2>4. /\ late => late'
          /\ handled => handled'
          /\ audit' \in {[audit EXCEPT ![t].at = "done"], [audit EXCEPT ![t].at = "cut"]}
      <3>1. CASE Report(t)
        BY <3>1 DEF Report, AfterReport
      <3>2. CASE OpenRequest(t)
        BY <3>2 DEF OpenRequest, Proceeds
      <3>3. CASE TerminateAudit(t)
        BY <3>3 DEF TerminateAudit
      <3>4. CASE CutAttempt(t)
        <4>1. late => late'
          BY <3>4 DEF CutAttempt
        <4>2. audit' = [audit EXCEPT ![t].at = "cut"]
          BY <3>4 DEF CutAttempt
        <4>3. handled => handled'
          BY <3>4, Zenon DEF CutAttempt
        <4> QED
          BY <4>1, <4>2, <4>3
      <3> QED
        BY <1>3, <3>1, <3>2, <3>3, <3>4
    <2>5. issues' \cap requests' = {} /\ Published' \in {Published, Published \cup {t}}
      BY <2>2, <2>3 DEF OnceInv, Published
    <2>6. Published' # Published => late' \/ handled'
      BY <2>3 DEF Published
    <2> QED
      BY <2>1, <2>4, <2>5, <2>6, OnceEnds
  <1>4. CASE UNCHANGED <<audit, issues, requests, handled, late>>
    BY <1>4 DEF OnceInv, Published, Auditing
  <1>5. ASSUME NEW t \in Attempts, RequestAuditEnd(t) PROVE OnceInv'
    BY <1>4, <1>5 DEF RequestAuditEnd
  <1>6. ASSUME NEW k \in MemoryKinds, BeginFollowUp(k) \/ EndFollowUp(k) PROVE OnceInv'
    BY <1>4, <1>6 DEF BeginFollowUp, EndFollowUp
  <1> QED
    BY <1>1, <1>2, <1>3, <1>4, <1>5, <1>6 DEF AuditNext, auditVars

\* For any number of attempts: an audit opens one issue or one merge request, unless
\* an attempt was cut after its output or two ran at once; there is no receipt that
\* keeps a later attempt from publishing (daily_audit/orchestrator.py:347-624).
THEOREM AuditSpeaksOnce == AuditSpec => []AuditPublishesOnce
  <1>1. AuditTyped /\ OnceInv => AuditPublishesOnce
    <2> SUFFICES ASSUME AuditTyped, OnceInv, ~late PROVE Cardinality(Published) <= 1
      BY DEF OnceInv, AuditPublishesOnce
    <2>1. CASE Published = {}
      BY <2>1, FS_EmptySet
    <2>2. CASE Published # {}
      <3>0. PICK t : t \in Published
        BY <2>2
      <3>1. Published = {t}
        BY <3>0 DEF OnceInv
      <3> QED
        BY <3>1, FS_Singleton
    <2> QED
      BY <2>1, <2>2
  <1>2. MaterialInv => AuditTyped
    BY DEF MaterialInv
  <1> QED
    BY AuditStart, MaterialStep, OnceStep, <1>1, <1>2, PTL DEF AuditSpec

=============================================================================
