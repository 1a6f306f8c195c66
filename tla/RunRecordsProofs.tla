-------------------------- MODULE RunRecordsProofs --------------------------
(***************************************************************************)
(* Proofs about what is recorded of the runs of a batch, for any number of     *)
(* runs, observations and feedback: the console is never ahead of the store,    *)
(* feedback is lost only by the declaration of an interruption, a result is      *)
(* recorded as a failure only beside a second writer, and an interruption is     *)
(* told of.                                                                   *)
(*                                                                          *)
(* The program of a run is the sequence `todo' of its steps, so the argument    *)
(* is about such sequences: in what is left to do, a step of one kind comes      *)
(* only after one of another kind (Guarded) or is followed only by some kinds    *)
(* (Then), or else what that earlier step brings about is there already.         *)
(***************************************************************************)
EXTENDS RunRecords, SequenceTheorems, FiniteSetTheorems, TLAPS

-----------------------------------------------------------------------------
(* Steps *)

PlainOps == {"priors", "check", "restart", "metadata", "sandbox", "compare", "try",
             "scene", "leave", "clear", "ack", "retry", "raise"}
Stages == {"none", "preflight", "sandbox_prepare", "scene_execute"}
Events == {"stage_started", "checkpoint_written", "stage_completed", "run_completed",
           "run_terminated", "run_failed", "run_restarted"}
EndStates == {"succeeded", "stale", "failed", "terminated"}

Plain(ops) == [op : ops]
Journals == [op : {"journal"}, kind : Events, stage : Stages]
Checkpoints == [op : {"checkpoint"}, stage : Stages]
Writes == [op : {"write"}, state : EndStates \cup {"running"}]
Tracks == [op : {"track"}, state : EndStates \cup {"running"}]
Rewrites == [op : {"stale", "copy", "overwrite"}, prior : Run]
AnyStep == Plain(PlainOps) \cup Journals \cup Checkpoints \cup Writes \cup Tracks
             \cup Rewrites

StepsOf(ops) == {x \in AnyStep : x.op \in ops}
Stale(q) == [op |-> "stale", prior |-> q]
Rewrite(q) == {x \in Rewrites : x.op # "stale" /\ x.prior = q}
EndTracks == {x \in Tracks : x.state # "running"}
EndWrites == {x \in Writes : x.state # "running"}
SceneStep == StepsOf({"scene"})
Early == StepsOf({"priors", "stale", "copy", "overwrite", "write"})
AfterScene == StepsOf({"journal", "checkpoint", "clear", "leave"})
EndEvents == {x \in Journals : x.kind \in Ends}
Clears == StepsOf({"clear"})
Told == {x \in Journals : x.kind = "checkpoint_written"}
Later == StepsOf({"metadata", "sandbox", "compare", "try", "scene", "leave", "raise",
                  "checkpoint"})
Telling == {x \in Journals : \/ x.kind = "run_restarted"
                             \/ x.kind = "run_terminated" /\ x.stage = "none"}
Restarts == StepsOf({"restart"})

-----------------------------------------------------------------------------
(* Sequences of steps *)

Holds(s, B) == \E j \in 1 .. Len(s) : s[j] \in B
Guarded(s, A, B) ==
    \A i \in 1 .. Len(s) : s[i] \in A => \E j \in 1 .. Len(s) : j < i /\ s[j] \in B
Then(s, A, B) == \A i, j \in 1 .. Len(s) : i < j /\ s[i] \in A => s[j] \in B

LEMMA TailOf ==
  ASSUME NEW s \in Seq(AnyStep), s # <<>>
  PROVE  /\ Tail(s) \in Seq(AnyStep) /\ Len(s) \in Nat /\ Len(s) >= 1
         /\ Len(Tail(s)) = Len(s) - 1
         /\ \A i \in 1 .. Len(Tail(s)) : Tail(s)[i] = s[i + 1]
         /\ Head(s) = s[1] /\ Head(s) \in AnyStep
  <1>1. Len(s) \in Nat \ {0}
    BY EmptySeq
  <1>2. Head(s) = s[1]
    OBVIOUS
  <1> QED
    BY <1>1, <1>2, HeadTailProperties

LEMMA GuardedTail ==
  ASSUME NEW s \in Seq(AnyStep), s # <<>>, NEW A, NEW B, Guarded(s, A, B)
  PROVE  Head(s) \notin A /\ (Head(s) \notin B => Guarded(Tail(s), A, B))
  <1>1. s[1] \notin A
    BY TailOf DEF Guarded
  <1>2. ASSUME s[1] \notin B, NEW i \in 1 .. Len(Tail(s)), Tail(s)[i] \in A
        PROVE  \E j \in 1 .. Len(Tail(s)) : j < i /\ Tail(s)[j] \in B
    <2>1. i + 1 \in 1 .. Len(s) /\ s[i + 1] \in A
      BY <1>2, TailOf
    <2>2. PICK j \in 1 .. Len(s) : j < i + 1 /\ s[j] \in B
      BY <2>1 DEF Guarded
    <2>3. j # 1
      BY <1>2, <2>2
    <2>4. j - 1 \in 1 .. Len(Tail(s)) /\ j - 1 < i /\ Tail(s)[j - 1] = s[j]
      BY <1>2, <2>2, <2>3, TailOf
    <2> QED
      BY <2>2, <2>4
  <1> QED
    BY <1>1, <1>2, TailOf DEF Guarded

LEMMA ThenTail ==
  ASSUME NEW s \in Seq(AnyStep), s # <<>>, NEW A, NEW B, Then(s, A, B)
  PROVE  /\ Then(Tail(s), A, B)
         /\ Head(s) \in A => \A i \in 1 .. Len(Tail(s)) : Tail(s)[i] \in B
  <1>1. \A i \in 1 .. Len(Tail(s)) : i + 1 \in 1 .. Len(s) /\ Tail(s)[i] = s[i + 1]
    BY TailOf
  <1>2. 1 \in 1 .. Len(s) /\ s[1] = Head(s)
    BY TailOf
  <1> QED
    BY <1>1, <1>2 DEF Then

LEMMA Joined ==
  ASSUME NEW s \in Seq(AnyStep), NEW t \in Seq(AnyStep)
  PROVE  /\ s \o t \in Seq(AnyStep)
         /\ Len(s) \in Nat /\ Len(t) \in Nat /\ Len(s \o t) = Len(s) + Len(t)
         /\ \A i \in 1 .. Len(s) : (s \o t)[i] = s[i]
         /\ \A i \in 1 .. Len(t) : (s \o t)[Len(s) + i] = t[i]
         /\ \A i \in 1 .. Len(s \o t) :
               \/ i \in 1 .. Len(s)
               \/ \E k \in 1 .. Len(t) : i = Len(s) + k
  <1>1. Len(s) \in Nat /\ Len(t) \in Nat
    OBVIOUS
  <1>2. /\ s \o t \in Seq(AnyStep) /\ Len(s \o t) = Len(s) + Len(t)
        /\ \A i \in 1 .. Len(s) + Len(t) :
              (s \o t)[i] = IF i <= Len(s) THEN s[i] ELSE t[i - Len(s)]
    BY ConcatProperties
  <1>3. \A i \in 1 .. Len(t) : (s \o t)[Len(s) + i] = t[i]
    BY <1>1, <1>2
  <1>4. ASSUME NEW i \in 1 .. Len(s \o t), i \notin 1 .. Len(s)
        PROVE  \E k \in 1 .. Len(t) : i = Len(s) + k
    <2>1. i - Len(s) \in 1 .. Len(t) /\ i = Len(s) + (i - Len(s))
      BY <1>1, <1>2, <1>4
    <2> QED
      BY <2>1
  <1> QED
    BY <1>1, <1>2, <1>3, <1>4

LEMMA GuardedJoin ==
  ASSUME NEW s \in Seq(AnyStep), NEW t \in Seq(AnyStep), NEW A, NEW B,
         Guarded(s, A, B), Guarded(t, A, B) \/ Holds(s, B)
  PROVE  Guarded(s \o t, A, B)
  <1> SUFFICES ASSUME NEW i \in 1 .. Len(s \o t), (s \o t)[i] \in A
               PROVE  \E j \in 1 .. Len(s \o t) : j < i /\ (s \o t)[j] \in B
    BY DEF Guarded
  <1>1. CASE i \in 1 .. Len(s)
    <2>1. PICK j \in 1 .. Len(s) : j < i /\ s[j] \in B
      BY <1>1, Joined DEF Guarded
    <2> QED
      BY <2>1, Joined
  <1>2. ASSUME NEW k \in 1 .. Len(t), i = Len(s) + k
        PROVE  \E j \in 1 .. Len(s \o t) : j < i /\ (s \o t)[j] \in B
    <2>1. CASE Holds(s, B)
      <3>1. PICK j \in 1 .. Len(s) : s[j] \in B
        BY <2>1 DEF Holds
      <3>2. j \in 1 .. Len(s \o t) /\ j < i /\ (s \o t)[j] \in B
        BY <1>2, <3>1, Joined
      <3> QED
        BY <3>2
    <2>2. CASE Guarded(t, A, B)
      <3>1. t[k] \in A
        BY <1>2, Joined
      <3>2. PICK j \in 1 .. Len(t) : j < k /\ t[j] \in B
        BY <2>2, <3>1 DEF Guarded
      <3>3. Len(s) + j \in 1 .. Len(s \o t) /\ Len(s) + j < i /\ (s \o t)[Len(s) + j] \in B
        BY <1>2, <3>2, Joined
      <3> QED
        BY <3>3
    <2> QED
      BY <2>1, <2>2
  <1>3. i \in 1 .. Len(s) \/ \E k \in 1 .. Len(t) : i = Len(s) + k
    BY Joined
  <1> QED
    BY <1>1, <1>2, <1>3

LEMMA ThenJoin ==
  ASSUME NEW s \in Seq(AnyStep), NEW t \in Seq(AnyStep), NEW A, NEW B,
         Then(s, A, B), Then(t, A, B), ~Holds(s, A) \/ \A i \in 1 .. Len(t) : t[i] \in B
  PROVE  Then(s \o t, A, B)
  <1> SUFFICES ASSUME NEW i \in 1 .. Len(s \o t), NEW j \in 1 .. Len(s \o t), i < j,
                      (s \o t)[i] \in A
               PROVE  (s \o t)[j] \in B
    BY DEF Then
  <1>1. CASE j \in 1 .. Len(s)
    <2>1. i \in 1 .. Len(s)
      BY <1>1
    <2> QED
      BY <1>1, <2>1, Joined DEF Then
  <1>2. ASSUME NEW k \in 1 .. Len(t), j = Len(s) + k
        PROVE  (s \o t)[j] \in B
    <2>1. (s \o t)[j] = t[k]
      BY <1>2, Joined
    <2>2. CASE i \in 1 .. Len(s)
      BY <1>2, <2>1, <2>2, Joined DEF Holds
    <2>3. ASSUME NEW m \in 1 .. Len(t), i = Len(s) + m PROVE (s \o t)[j] \in B
      <3>1. m < k /\ t[m] \in A
        BY <1>2, <2>3, Joined
      <3> QED
        BY <2>1, <3>1 DEF Then
    <2> QED
      BY <2>2, <2>3, Joined
  <1> QED
    BY <1>1, <1>2, Joined

LEMMA HoldsJoin ==
  ASSUME NEW s \in Seq(AnyStep), NEW t \in Seq(AnyStep), NEW B
  PROVE  Holds(s \o t, B) <=> Holds(s, B) \/ Holds(t, B)
  <1>1. Holds(s, B) => Holds(s \o t, B)
    BY Joined DEF Holds
  <1>2. Holds(t, B) => Holds(s \o t, B)
    <2> SUFFICES ASSUME NEW k \in 1 .. Len(t), t[k] \in B PROVE Holds(s \o t, B)
      BY DEF Holds
    <2>1. Len(s) + k \in 1 .. Len(s \o t) /\ (s \o t)[Len(s) + k] \in B
      BY Joined
    <2> QED
      BY <2>1 DEF Holds
  <1>3. Holds(s \o t, B) => Holds(s, B) \/ Holds(t, B)
    BY Joined DEF Holds
  <1> QED
    BY <1>1, <1>2, <1>3

\* Where there is no step of the one kind.
LEMMA Vacuous ==
  ASSUME NEW s, NEW A, NEW B, ~Holds(s, A)
  PROVE  Guarded(s, A, B) /\ Then(s, A, B)
  BY DEF Holds, Guarded, Then

-----------------------------------------------------------------------------
(* The programs *)

LEMMA KindsOfSteps ==
  /\ \A o \in PlainOps : Op(o) \in AnyStep /\ Op(o).op = o
  /\ \A k \in Events, g \in Stages :
        Journal(k, g) \in Journals /\ Journal(k, g).kind = k /\ Journal(k, g).stage = g
  /\ \A g \in Stages : Checkpoint(g) \in AnyStep /\ Checkpoint(g).op = "checkpoint"
  /\ \A e \in EndStates \cup {"running"} :
        /\ WriteRun(e) \in Writes /\ WriteRun(e).state = e
        /\ Track(e) \in Tracks /\ Track(e).state = e
  /\ \A q \in Run : Stale(q) \in Rewrites /\ Stale(q).op = "stale" /\ Stale(q).prior = q
  BY DEF Op, Journal, Checkpoint, WriteRun, Track, Stale, AnyStep, Plain, Journals, Checkpoints,
         Writes, Tracks, Rewrites

\* What a step is, by its op.
LEMMA KindByOp ==
  /\ \A x \in Journals : x \in AnyStep /\ x.op = "journal"
  /\ \A x \in Writes : x \in AnyStep /\ x.op = "write"
  /\ \A x \in Tracks : x \in AnyStep /\ x.op = "track"
  /\ \A x \in Rewrites : x \in AnyStep /\ x.op \in {"stale", "copy", "overwrite"}
  /\ \A x \in AnyStep :
        /\ x.op = "journal" => x \in Journals
        /\ x.op = "write" => x \in Writes
        /\ x.op = "track" => x \in Tracks
        /\ x.op \in {"stale", "copy", "overwrite"} => x \in Rewrites
        /\ x.op = "checkpoint" => x \in Checkpoints
        /\ x.op \in PlainOps \/ x.op \in {"journal", "write", "track", "stale", "copy",
                                          "overwrite", "checkpoint"}
  BY DEF AnyStep, Plain, Journals, Checkpoints, Writes, Tracks, Rewrites, PlainOps

\* What is left of a program, whatever has happened: a tracked row is overwritten
\* after it is read, the last step says how the run ended, what follows the scene
\* only writes it down, and before the scene no end is in the program.
Script(s) ==
    /\ s \in Seq(AnyStep)
    /\ \A i \in 1 .. Len(s) :
          s[i].op = "copy" => i + 1 \in 1 .. Len(s) /\ s[i + 1].op = "overwrite"
    /\ Then(s, EndTracks, {})
    /\ \A i, j \in 1 .. Len(s) : s[i] \in EndTracks /\ s[j] \in Writes => s[i].state = s[j].state
    /\ Then(s, SceneStep, AfterScene)
    /\ Holds(s, SceneStep) => ~Holds(s, EndWrites)

\* Parts of a handler.
HandlerOps == {"restart", "journal", "metadata", "checkpoint", "compare", "try", "sandbox",
               "scene", "clear", "leave"}
Fragment(s) ==
    /\ s \in Seq(AnyStep)
    /\ \A i \in 1 .. Len(s) : s[i].op \in HandlerOps
    /\ Then(s, SceneStep, AfterScene)
    /\ Then(s, Clears, AnyStep \ Told)
    /\ Guarded(s, Clears, EndEvents)
    /\ Guarded(s, Told, Checkpoints)
Begun(s) ==
    /\ Guarded(s, Later, Journals)
    /\ Guarded(s, Journals \ Telling, Journals \cup Restarts)
    /\ Holds(s, Journals)
NoClear(s) == ~Holds(s, Clears)
NoScene(s) == ~Holds(s, SceneStep)
Records(s) == \A i \in 1 .. Len(s) : s[i] \in AfterScene

LEMMA FragmentJoin ==
  ASSUME NEW s, NEW t, Fragment(s), Fragment(t), NoClear(s), NoScene(s) \/ Records(t)
  PROVE  /\ Fragment(s \o t)
         /\ NoClear(t) => NoClear(s \o t)
         /\ NoScene(s) /\ NoScene(t) => NoScene(s \o t)
         /\ Begun(s) => Begun(s \o t)
         /\ Records(s) /\ Records(t) => Records(s \o t)
  <1>1. s \in Seq(AnyStep) /\ t \in Seq(AnyStep)
    BY DEF Fragment
  <1>2. \A i \in 1 .. Len(s \o t) : (s \o t)[i].op \in HandlerOps
    BY <1>1, Joined DEF Fragment
  <1>3. Then(s \o t, SceneStep, AfterScene)
    BY <1>1, ThenJoin DEF Fragment, NoScene, Records
  <1>4. Then(s \o t, Clears, AnyStep \ Told)
    BY <1>1, ThenJoin DEF Fragment, NoClear
  <1>5. Guarded(s \o t, Clears, EndEvents)
    BY <1>1, GuardedJoin DEF Fragment
  <1>6. Guarded(s \o t, Told, Checkpoints)
    BY <1>1, GuardedJoin DEF Fragment
  <1>7. Begun(s) => Begun(s \o t)
    <2> SUFFICES ASSUME Begun(s) PROVE Begun(s \o t)
      OBVIOUS
    <2>1. Holds(s, Journals) /\ Holds(s, Journals \cup Restarts)
      BY DEF Begun, Holds
    <2>2. Guarded(s \o t, Later, Journals)
      BY <1>1, <2>1, GuardedJoin DEF Begun
    <2>3. Guarded(s \o t, Journals \ Telling, Journals \cup Restarts)
      BY <1>1, <2>1, GuardedJoin DEF Begun
    <2>4. Holds(s \o t, Journals)
      BY <1>1, <2>1, HoldsJoin
    <2> QED
      BY <2>2, <2>3, <2>4 DEF Begun
  <1>8. s \o t \in Seq(AnyStep)
    BY <1>1, Joined
  <1>9. NoClear(t) => NoClear(s \o t)
    BY <1>1, HoldsJoin DEF NoClear
  <1>10. NoScene(s) /\ NoScene(t) => NoScene(s \o t)
    BY <1>1, HoldsJoin DEF NoScene
  <1>11. Records(s) /\ Records(t) => Records(s \o t)
    BY <1>1, Joined DEF Records
  <1> QED
    BY <1>2, <1>3, <1>4, <1>5, <1>6, <1>7, <1>8, <1>9, <1>10, <1>11 DEF Fragment

LEMMA ClosesShape ==
  ASSUME NEW g \in Stages
  PROVE  Fragment(Closes(g)) /\ NoClear(Closes(g)) /\ NoScene(Closes(g)) /\ Records(Closes(g))
  <1> DEFINE a == Checkpoint(g)
             b == Journal("checkpoint_written", g)
             c == Journal("stage_completed", g)
  <1>1. /\ a \in Checkpoints /\ a \in AnyStep /\ a.op = "checkpoint"
        /\ b \in AnyStep /\ b.op = "journal"
        /\ c \in AnyStep /\ c.op = "journal" /\ c.kind = "stage_completed"
    BY KindsOfSteps, KindByOp DEF Events
  <1> HIDE DEF a, b, c
  <1>2. Closes(g) = <<a, b, c>>
    BY DEF Closes, a, b, c
  <1>3. ~Holds(<<a, b, c>>, Clears) /\ ~Holds(<<a, b, c>>, SceneStep)
    BY <1>1 DEF Holds, Clears, SceneStep, StepsOf
  <1>4. Guarded(<<a, b, c>>, Told, Checkpoints)
    BY <1>1, KindByOp DEF Guarded, Told
  <1>5. Records(<<a, b, c>>)
    BY <1>1 DEF Records, AfterScene, StepsOf
  <1>6. <<a, b, c>> \in Seq(AnyStep) /\ \A i \in 1 .. 3 : <<a, b, c>>[i].op \in HandlerOps
    BY <1>1 DEF HandlerOps
  <1> QED
    BY <1>2, <1>3, <1>4, <1>5, <1>6, Vacuous DEF Fragment, NoClear, NoScene

LEMMA PartsShape ==
  LET start == <<Op("restart"), Journal("stage_started", "preflight"), Op("metadata")>>
      compare == <<Op("compare")>>
      prepare == <<Op("try"), Journal("stage_started", "sandbox_prepare"), Op("sandbox")>>
      execute == <<Journal("stage_started", "scene_execute"), Op("scene")>>
  IN  /\ Fragment(start) /\ NoClear(start) /\ NoScene(start) /\ Begun(start)
      /\ Fragment(compare) /\ NoClear(compare) /\ NoScene(compare)
      /\ Fragment(prepare) /\ NoClear(prepare) /\ NoScene(prepare)
         /\ Holds(prepare, StepsOf({"try"}))
      /\ Fragment(execute) /\ NoClear(execute)
      /\ Fragment(Completes) /\ NoScene(Completes) /\ Records(Completes)
  <1> DEFINE j1 == Journal("stage_started", "preflight")
             j2 == Journal("stage_started", "sandbox_prepare")
             j3 == Journal("stage_started", "scene_execute")
             j4 == Journal("run_completed", "none")
  <1>1. \A j \in {j1, j2, j3} :
           j \in Journals /\ j \in AnyStep /\ j.op = "journal" /\ j.kind = "stage_started"
    BY KindsOfSteps, KindByOp DEF Events, Stages
  <1>2. j4 \in Journals /\ j4 \in AnyStep /\ j4.op = "journal" /\ j4.kind = "run_completed"
    BY KindsOfSteps, KindByOp DEF Events, Stages
  <1> HIDE DEF j1, j2, j3, j4
  <1>3. \A o \in PlainOps : Op(o) \in AnyStep /\ Op(o).op = o
    BY KindsOfSteps
  <1>4. /\ Fragment(<<Op("restart"), j1, Op("metadata")>>)
        /\ NoClear(<<Op("restart"), j1, Op("metadata")>>)
        /\ NoScene(<<Op("restart"), j1, Op("metadata")>>)
    <2> DEFINE s == <<Op("restart"), j1, Op("metadata")>>
    <2>1. s \in Seq(AnyStep) /\ \A i \in 1 .. Len(s) : s[i].op \in HandlerOps
      BY <1>1, <1>3 DEF HandlerOps, PlainOps
    <2>2. ~Holds(s, Clears) /\ ~Holds(s, SceneStep) /\ ~Holds(s, Told)
      BY <1>1, <1>3, KindByOp DEF PlainOps, Holds, Clears, SceneStep, StepsOf, Told
    <2> HIDE DEF s
    <2> QED
      BY <2>1, <2>2, Vacuous DEF Fragment, NoClear, NoScene, s
  <1>5. Begun(<<Op("restart"), j1, Op("metadata")>>)
    BY <1>1, <1>3, KindByOp DEF PlainOps, Begun, Guarded, Holds, Later, StepsOf, Restarts
  <1>6. Fragment(<<Op("compare")>>) /\ NoClear(<<Op("compare")>>) /\ NoScene(<<Op("compare")>>)
    <2> DEFINE s == <<Op("compare")>>
    <2>1. s \in Seq(AnyStep) /\ \A i \in 1 .. Len(s) : s[i].op \in HandlerOps
      BY <1>3 DEF HandlerOps, PlainOps
    <2>2. ~Holds(s, Clears) /\ ~Holds(s, SceneStep) /\ ~Holds(s, Told)
      BY <1>3, KindByOp DEF PlainOps, Holds, Clears, SceneStep, StepsOf, Told
    <2> HIDE DEF s
    <2> QED
      BY <2>1, <2>2, Vacuous DEF Fragment, NoClear, NoScene, s
  <1>7. /\ Fragment(<<Op("try"), j2, Op("sandbox")>>)
        /\ NoClear(<<Op("try"), j2, Op("sandbox")>>)
        /\ NoScene(<<Op("try"), j2, Op("sandbox")>>)
        /\ Holds(<<Op("try"), j2, Op("sandbox")>>, StepsOf({"try"}))
    <2> DEFINE s == <<Op("try"), j2, Op("sandbox")>>
    <2>1. s \in Seq(AnyStep) /\ \A i \in 1 .. Len(s) : s[i].op \in HandlerOps
      BY <1>1, <1>3 DEF HandlerOps, PlainOps
    <2>2. ~Holds(s, Clears) /\ ~Holds(s, SceneStep) /\ ~Holds(s, Told)
      BY <1>1, <1>3, KindByOp DEF PlainOps, Holds, Clears, SceneStep, StepsOf, Told
    <2>3. Holds(s, StepsOf({"try"}))
      BY <1>3 DEF PlainOps, Holds, StepsOf
    <2> HIDE DEF s
    <2> QED
      BY <2>1, <2>2, <2>3, Vacuous DEF Fragment, NoClear, NoScene, s
  <1>8. Fragment(<<j3, Op("scene")>>) /\ NoClear(<<j3, Op("scene")>>)
    <2> DEFINE s == <<j3, Op("scene")>>
    <2>1. s \in Seq(AnyStep) /\ \A i \in 1 .. Len(s) : s[i].op \in HandlerOps
      BY <1>1, <1>3 DEF HandlerOps, PlainOps
    <2>2. ~Holds(s, Clears) /\ ~Holds(s, Told)
      BY <1>1, <1>3, KindByOp DEF PlainOps, Holds, Clears, StepsOf, Told
    <2>3. Then(s, SceneStep, AfterScene)
      BY <1>1, <1>3 DEF PlainOps, Then, SceneStep, StepsOf
    <2> HIDE DEF s
    <2> QED
      BY <2>1, <2>2, <2>3, Vacuous DEF Fragment, NoClear, s
  <1>9. Fragment(Completes) /\ NoScene(Completes) /\ Records(Completes)
    <2> DEFINE s == <<j4, Op("clear"), Op("leave")>>
    <2>1. s \in Seq(AnyStep) /\ \A i \in 1 .. Len(s) : s[i].op \in HandlerOps
      BY <1>2, <1>3 DEF HandlerOps, PlainOps
    <2>2. ~Holds(s, SceneStep) /\ ~Holds(s, Told)
      BY <1>2, <1>3, KindByOp DEF PlainOps, Holds, SceneStep, StepsOf, Told
    <2>3. Then(s, Clears, AnyStep \ Told)
      BY <1>2, <1>3, KindByOp DEF PlainOps, Then, Clears, StepsOf, Told
    <2>4. Guarded(s, Clears, EndEvents)
      BY <1>2, <1>3 DEF PlainOps, Guarded, Clears, StepsOf, EndEvents, Ends
    <2>5. Records(s)
      BY <1>2, <1>3 DEF PlainOps, Records, AfterScene, StepsOf
    <2>6. s = Completes
      BY DEF Completes, j4
    <2> HIDE DEF s
    <2> QED
      BY <2>1, <2>2, <2>3, <2>4, <2>5, <2>6, Vacuous DEF Fragment, NoScene
  <1> QED
    BY <1>4, <1>5, <1>6, <1>7, <1>8, <1>9 DEF j1, j2, j3

LEMMA HandlerShape ==
  ASSUME RecordsAssumption
  PROVE  Fragment(Handler) /\ Begun(Handler) /\ Holds(Handler, StepsOf({"try"}))
  <1> DEFINE start == <<Op("restart"), Journal("stage_started", "preflight"), Op("metadata")>>
             compare == <<Op("compare")>>
             prepare == <<Op("try"), Journal("stage_started", "sandbox_prepare"), Op("sandbox")>>
             execute == <<Journal("stage_started", "scene_execute"), Op("scene")>>
             c1 == Closes("preflight")
             c2 == Closes("sandbox_prepare")
             c3 == Closes("scene_execute")
  <1>1. \A c \in {c1, c2, c3} : Fragment(c) /\ NoClear(c) /\ NoScene(c) /\ Records(c)
    BY ClosesShape DEF Stages
  <1>2. /\ Fragment(start) /\ NoClear(start) /\ NoScene(start) /\ Begun(start)
        /\ Fragment(compare) /\ NoClear(compare) /\ NoScene(compare)
        /\ Fragment(prepare) /\ NoClear(prepare) /\ NoScene(prepare)
        /\ Holds(prepare, StepsOf({"try"}))
        /\ Fragment(execute) /\ NoClear(execute)
        /\ Fragment(Completes) /\ NoScene(Completes) /\ Records(Completes)
    BY PartsShape
  <1>3. Preflight = start \o c1 /\ Prepare = prepare \o c2
        /\ Execute = (execute \o c3) \o Completes
    BY DEF Preflight, Prepare, Execute
  <1> HIDE DEF start, compare, prepare, execute, c1, c2, c3
  <1>4. Fragment(Preflight) /\ NoClear(Preflight) /\ NoScene(Preflight) /\ Begun(Preflight)
    BY <1>1, <1>2, <1>3, FragmentJoin
  <1>5. /\ Fragment(Prepare) /\ NoClear(Prepare) /\ NoScene(Prepare)
        /\ Holds(Prepare, StepsOf({"try"}))
    <2>1. Fragment(Prepare) /\ NoClear(Prepare) /\ NoScene(Prepare)
      BY <1>1, <1>2, <1>3, FragmentJoin
    <2>2. prepare \in Seq(AnyStep) /\ c2 \in Seq(AnyStep)
      BY <1>1, <1>2 DEF Fragment
    <2> QED
      BY <1>2, <1>3, <2>1, <2>2, HoldsJoin
  <1>6. Fragment(execute \o c3) /\ NoClear(execute \o c3)
    BY <1>1, <1>2, FragmentJoin
  <1>7. Fragment(Execute)
    BY <1>2, <1>3, <1>6, FragmentJoin
  <1>8. ASSUME NEW s, Fragment(s), NoClear(s), NoScene(s), Begun(s)
        PROVE  /\ Fragment((s \o Prepare) \o Execute) /\ Begun((s \o Prepare) \o Execute)
               /\ Holds((s \o Prepare) \o Execute, StepsOf({"try"}))
    <2>1. /\ Fragment(s \o Prepare) /\ NoClear(s \o Prepare) /\ NoScene(s \o Prepare)
          /\ Begun(s \o Prepare)
      BY <1>5, <1>8, FragmentJoin
    <2>2. Fragment((s \o Prepare) \o Execute) /\ Begun((s \o Prepare) \o Execute)
      BY <1>7, <2>1, FragmentJoin
    <2>3. s \in Seq(AnyStep) /\ Prepare \in Seq(AnyStep) /\ Execute \in Seq(AnyStep)
          /\ s \o Prepare \in Seq(AnyStep)
      BY <1>5, <1>7, <1>8, <2>1 DEF Fragment
    <2> QED
      BY <1>5, <2>2, <2>3, HoldsJoin
  <1>9. /\ Fragment(Preflight \o compare) /\ NoClear(Preflight \o compare)
        /\ NoScene(Preflight \o compare) /\ Begun(Preflight \o compare)
    BY <1>2, <1>4, FragmentJoin
  <1>10. /\ ReviewHandler = ((Preflight \o compare) \o Prepare) \o Execute
         /\ MentionHandler = ((Preflight \o compare) \o Prepare) \o Execute
         /\ AuditHandler = (Preflight \o Prepare) \o Execute
    BY DEF ReviewHandler, MentionHandler, AuditHandler, compare
  <1>11. Handler \in {ReviewHandler, MentionHandler, AuditHandler}
    BY DEF Handler
  <1> QED
    BY <1>4, <1>8, <1>9, <1>10, <1>11

\* A run before its first step.
LEMMA FreshShape ==
  ASSUME RecordsAssumption
  PROVE  LET s == Opens \o Handler IN
         /\ Script(s) /\ ~Holds(s, Rewrites) /\ ~Holds(s, EndTracks)
         /\ Holds(s, StepsOf({"try"}))
         /\ Guarded(s, AnyStep \ Early, Writes)
         /\ Guarded(s, Later, Journals)
         /\ Guarded(s, Journals \ Telling, Journals \cup Restarts)
         /\ Guarded(s, Clears, EndEvents)
         /\ Guarded(s, Told, Checkpoints)
         /\ Then(s, Clears, AnyStep \ Told)
  <1> DEFINE s == Opens \o Handler
             a == Op("priors")
             b == WriteRun("running")
             c == Track("running")
             d == Op("check")
  <1>1. Fragment(Handler) /\ Begun(Handler) /\ Holds(Handler, StepsOf({"try"}))
    BY HandlerShape
  <1>2. /\ a \in AnyStep /\ a.op = "priors" /\ d \in AnyStep /\ d.op = "check"
        /\ b \in Writes /\ b \in AnyStep /\ b.op = "write" /\ b.state = "running"
        /\ c \in AnyStep /\ c.op = "track" /\ c.state = "running"
    BY KindsOfSteps, KindByOp DEF PlainOps
  <1> HIDE DEF a, b, c, d
  <1>3. Opens = <<a, b, c, d>>
    BY DEF Opens, a, b, c, d
  <1>4. Opens \in Seq(AnyStep) /\ \A i \in 1 .. Len(Opens) : Opens[i].op \in {"priors", "write", "track", "check"}
    BY <1>2, <1>3
  <1>5. Guarded(Opens, AnyStep \ Early, Writes) /\ Holds(Opens, Writes)
    BY <1>2, <1>3 DEF Guarded, Holds, Early, StepsOf
  <1>6. /\ ~Holds(Opens, Clears) /\ ~Holds(Opens, Told) /\ ~Holds(Opens, Later)
        /\ ~Holds(Opens, Journals) /\ ~Holds(Opens, SceneStep)
        /\ ~Holds(Opens, Rewrites)
    BY <1>4, KindByOp DEF Holds, Clears, Told, Later, SceneStep, StepsOf
  <1>7. ~Holds(Opens, EndTracks) /\ ~Holds(Opens, EndWrites)
    BY <1>2, <1>3, KindByOp DEF Holds, EndTracks, EndWrites
  <1>8. Handler \in Seq(AnyStep) /\ \A i \in 1 .. Len(Handler) : Handler[i].op \in HandlerOps
    BY <1>1 DEF Fragment
  <1>9. /\ ~Holds(Handler, Rewrites) /\ ~Holds(Handler, EndTracks) /\ ~Holds(Handler, EndWrites)
    BY <1>8, KindByOp DEF Holds, HandlerOps, EndTracks, EndWrites
  <1>10. s \in Seq(AnyStep) /\ ~Holds(s, Rewrites) /\ ~Holds(s, EndTracks) /\ ~Holds(s, EndWrites)
    BY <1>4, <1>6, <1>7, <1>8, <1>9, HoldsJoin, Joined
  <1>11. Holds(s, StepsOf({"try"}))
    BY <1>1, <1>4, <1>8, HoldsJoin
  <1>12. Guarded(s, AnyStep \ Early, Writes)
    BY <1>4, <1>5, <1>8, GuardedJoin
  <1>13. /\ Guarded(s, Later, Journals)
         /\ Guarded(s, Journals \ Telling, Journals \cup Restarts)
         /\ Guarded(s, Clears, EndEvents)
         /\ Guarded(s, Told, Checkpoints)
    <2>1. ~Holds(Opens, Journals \ Telling)
      BY <1>6 DEF Holds
    <2> QED
      BY <1>1, <1>4, <1>6, <1>8, <2>1, Vacuous, GuardedJoin DEF Fragment, Begun
  <1>14. Then(s, Clears, AnyStep \ Told) /\ Then(s, SceneStep, AfterScene)
    BY <1>1, <1>4, <1>6, <1>8, Vacuous, ThenJoin DEF Fragment
  <1>15. Script(s)
    <2>1. Then(s, EndTracks, {})
      BY <1>10, Vacuous
    <2>2. \A i \in 1 .. Len(s) : s[i] \notin EndTracks /\ s[i] \notin Rewrites /\ s[i] \in AnyStep
      BY <1>10 DEF Holds
    <2>3. \A i \in 1 .. Len(s) : s[i].op # "copy"
      BY <2>2, KindByOp
    <2> QED
      BY <1>10, <1>14, <2>1, <2>2, <2>3 DEF Script
  <1> QED
    BY <1>10, <1>11, <1>12, <1>13, <1>14, <1>15

\* How a run ends, from the return of its handler or from what it raised.
Ending(s) ==
    /\ Script(s) /\ ~Holds(s, Rewrites) /\ ~Holds(s, Told) /\ ~Holds(s, SceneStep)
    /\ Holds(s, StepsOf({"leave"})) => Holds(s, StepsOf({"try"}))
    /\ \A e \in EndStates : Guarded(s, {Track(e)}, {WriteRun(e)})
    /\ Guarded(s, Clears, EndEvents)
    /\ Guarded(s, Later, Journals)

\* What the handler does of it.
Prelude(s) ==
    /\ s \in Seq(AnyStep)
    /\ \A i \in 1 .. Len(s) : s[i].op \in {"journal", "clear", "raise"}
    /\ ~Holds(s, Told)
    /\ Guarded(s, Clears, EndEvents)
    /\ Guarded(s, Later, Journals)

LEMMA EndingJoin ==
  ASSUME NEW s, NEW t, Prelude(s), Ending(t)
  PROVE  Ending(s \o t)
  <1>1. s \in Seq(AnyStep) /\ t \in Seq(AnyStep)
    BY DEF Prelude, Ending, Script
  <1>0. /\ s \o t \in Seq(AnyStep)
        /\ Len(s) \in Nat /\ Len(t) \in Nat /\ Len(s \o t) = Len(s) + Len(t)
        /\ \A i \in 1 .. Len(s) : (s \o t)[i] = s[i]
        /\ \A i \in 1 .. Len(t) : (s \o t)[Len(s) + i] = t[i]
        /\ \A i \in 1 .. Len(s \o t) :
              \/ i \in 1 .. Len(s)
              \/ \E k \in 1 .. Len(t) : i = Len(s) + k
    BY <1>1, Joined
  <1>2. /\ ~Holds(s, Rewrites) /\ ~Holds(s, EndTracks) /\ ~Holds(s, Writes)
        /\ ~Holds(s, SceneStep) /\ ~Holds(s, StepsOf({"leave"}))
        /\ \A e \in EndStates : ~Holds(s, {Track(e)})
    BY KindByOp, KindsOfSteps DEF Prelude, Holds, EndTracks, SceneStep, StepsOf
  <1>3. ~Holds(s \o t, Rewrites) /\ ~Holds(s \o t, Told) /\ ~Holds(s \o t, SceneStep)
    BY <1>1, <1>2, HoldsJoin DEF Prelude, Ending
  <1>4. Holds(s \o t, StepsOf({"leave"})) => Holds(s \o t, StepsOf({"try"}))
    BY <1>1, <1>2, HoldsJoin DEF Ending
  <1>5. \A e \in EndStates : Guarded(s \o t, {Track(e)}, {WriteRun(e)})
    BY <1>1, <1>2, Vacuous, GuardedJoin DEF Ending
  <1>6. Guarded(s \o t, Clears, EndEvents) /\ Guarded(s \o t, Later, Journals)
    BY <1>1, GuardedJoin DEF Ending, Prelude
  <1>7. Then(s \o t, EndTracks, {}) /\ Then(s \o t, SceneStep, AfterScene)
    BY <1>1, <1>2, Vacuous, ThenJoin DEF Ending, Script
  <1>8. \A i, j \in 1 .. Len(s \o t) :
           (s \o t)[i] \in EndTracks /\ (s \o t)[j] \in Writes => (s \o t)[i].state = (s \o t)[j].state
    <2> SUFFICES ASSUME NEW i \in 1 .. Len(s \o t), NEW j \in 1 .. Len(s \o t),
                        (s \o t)[i] \in EndTracks, (s \o t)[j] \in Writes
                 PROVE  (s \o t)[i].state = (s \o t)[j].state
      OBVIOUS
    <2>1. i \notin 1 .. Len(s) /\ j \notin 1 .. Len(s)
      BY <1>0, <1>2 DEF Holds
    <2>2. PICK k \in 1 .. Len(t) : i = Len(s) + k
      BY <1>0, <2>1
    <2>3. PICK m \in 1 .. Len(t) : j = Len(s) + m
      BY <1>0, <2>1
    <2>4. (s \o t)[i] = t[k] /\ (s \o t)[j] = t[m]
      BY <1>0, <2>2, <2>3
    <2> QED
      BY <2>4 DEF Ending, Script
  <1>9. \A i \in 1 .. Len(s \o t) : (s \o t)[i].op # "copy"
    <2> SUFFICES ASSUME NEW i \in 1 .. Len(s \o t), (s \o t)[i].op = "copy" PROVE FALSE
      OBVIOUS
    <2>1. (s \o t)[i] \in AnyStep
      BY <1>0
    <2> QED
      BY <1>3, <2>1, KindByOp DEF Holds
  <1>10. s \o t \in Seq(AnyStep)
    BY <1>0
  <1> QED
    BY <1>3, <1>4, <1>5, <1>6, <1>7, <1>8, <1>9, <1>10 DEF Ending, Script

\* Write, then track: nothing else of the kind.
LEMMA EndingIs ==
  ASSUME NEW s \in Seq(AnyStep), NEW e \in EndStates,
         \A i \in 1 .. Len(s) :
            \/ s[i].op \in {"ack", "retry"}
            \/ s[i] = WriteRun(e) /\ i = 2
            \/ s[i] \in EndEvents /\ i = 3
            \/ s[i].op = "clear" /\ i = 4 /\ s[3] \in EndEvents
            \/ s[i] = Track(e) /\ i = Len(s) /\ Len(s) > 2 /\ s[2] = WriteRun(e)
  PROVE  Ending(s)
  <1>1. /\ WriteRun(e) \in Writes /\ WriteRun(e).state = e /\ WriteRun(e).op = "write"
        /\ Track(e) \in Tracks /\ Track(e).state = e /\ Track(e).op = "track" /\ e # "running"
    BY KindsOfSteps, KindByOp DEF EndStates
  <1>2. \A x \in EndEvents : x \in Journals /\ x.op = "journal" /\ x.kind \in Ends
    BY KindByOp DEF EndEvents
  <1>3. Len(s) \in Nat
    OBVIOUS
  <1>4. \A i \in 1 .. Len(s) : s[i].op \in {"ack", "retry", "write", "journal", "clear", "track"}
    BY <1>1, <1>2
  <1>5. /\ ~Holds(s, Rewrites) /\ ~Holds(s, StepsOf({"leave"})) /\ ~Holds(s, Later)
        /\ ~Holds(s, SceneStep) /\ \A i \in 1 .. Len(s) : s[i].op # "copy"
    BY <1>4, KindByOp DEF Holds, SceneStep, StepsOf, Later
  <1>6. ~Holds(s, Told)
    BY <1>1, <1>2, KindByOp DEF Holds, Told, Ends
  <1>7. \A i \in 1 .. Len(s) : s[i] \in Tracks => s[i] = Track(e) /\ i = Len(s) /\ Len(s) > 2
                                                  /\ s[2] = WriteRun(e)
    BY <1>1, <1>2, KindByOp
  <1>8. \A f \in EndStates : Guarded(s, {Track(f)}, {WriteRun(f)})
    <2> SUFFICES ASSUME NEW f \in EndStates, NEW i \in 1 .. Len(s), s[i] = Track(f)
                 PROVE  \E j \in 1 .. Len(s) : j < i /\ s[j] = WriteRun(f)
      BY DEF Guarded
    <2>1. Track(f) \in Tracks /\ Track(f).state = f
      BY KindsOfSteps
    <2>2. s[i] = Track(e) /\ i = Len(s) /\ Len(s) > 2 /\ s[2] = WriteRun(e)
      BY <1>7, <2>1
    <2>3. f = e
      BY <1>1, <2>1, <2>2
    <2> QED
      BY <1>3, <2>2, <2>3
  <1>9. Guarded(s, Clears, EndEvents)
    <2> SUFFICES ASSUME NEW i \in 1 .. Len(s), s[i].op = "clear"
                 PROVE  \E j \in 1 .. Len(s) : j < i /\ s[j] \in EndEvents
      BY DEF Guarded, Clears, StepsOf
    <2>1. i = 4 /\ s[3] \in EndEvents
      BY <1>1, <1>2
    <2> QED
      BY <1>3, <2>1
  <1>10. Script(s)
    <2>1. Then(s, EndTracks, {})
      BY <1>3, <1>7 DEF Then, EndTracks
    <2>2. \A i \in 1 .. Len(s) : s[i] \in Writes => s[i] = WriteRun(e)
      BY <1>1, <1>2, KindByOp
    <2>3. \A i, j \in 1 .. Len(s) : s[i] \in EndTracks /\ s[j] \in Writes => s[i].state = s[j].state
      BY <1>1, <1>7, <2>2 DEF EndTracks
    <2> QED
      BY <1>5, <2>1, <2>3, Vacuous DEF Script
  <1> QED
    BY <1>5, <1>6, <1>8, <1>9, <1>10, Vacuous DEF Ending

LEMMA EndingPrograms ==
  /\ \A e \in EndStates : Ending(Returns(e)) /\ ~Holds(Returns(e), Journals)
                          /\ Returns(e) = <<Op("ack"), WriteRun(e), Track(e)>>
  /\ Ending(Fails) /\ ~Holds(Fails, Journals)
  /\ Ending(Terminates)
  /\ Guarded(Terminates, Journals \ Telling, Journals \cup Restarts)
  /\ Ending(StaleResult)
  /\ Ending(OnFailure \o Fails)
  /\ Ending(OnTermination \o Terminates)
  <1>1. \A o \in PlainOps : Op(o) \in AnyStep /\ Op(o).op = o
    BY KindsOfSteps
  <1>2. \A e \in EndStates : /\ WriteRun(e) \in AnyStep /\ WriteRun(e).op = "write"
                             /\ Track(e) \in AnyStep /\ Track(e).op = "track"
    BY KindsOfSteps, KindByOp
  <1>3. ASSUME NEW e \in EndStates
        PROVE  Ending(<<Op("ack"), WriteRun(e), Track(e)>>)
               /\ ~Holds(<<Op("ack"), WriteRun(e), Track(e)>>, Journals)
    <2> DEFINE s == <<Op("ack"), WriteRun(e), Track(e)>>
    <2>1. s \in Seq(AnyStep) /\ Len(s) = 3 /\ s[1].op = "ack" /\ s[2] = WriteRun(e) /\ s[3] = Track(e)
      BY <1>1, <1>2 DEF PlainOps
    <2>2. ~Holds(s, Journals)
      BY <1>2, <2>1, KindByOp DEF Holds
    <2>3. \A i \in 1 .. Len(s) : i = 1 \/ i = 2 \/ i = 3
      BY <2>1
    <2> HIDE DEF s
    <2>5. \A i \in 1 .. Len(s) :
             \/ s[i].op \in {"ack", "retry"}
             \/ s[i] = WriteRun(e) /\ i = 2
             \/ s[i] \in EndEvents /\ i = 3
             \/ s[i].op = "clear" /\ i = 4 /\ s[3] \in EndEvents
             \/ s[i] = Track(e) /\ i = Len(s) /\ Len(s) > 2 /\ s[2] = WriteRun(e)
      BY <2>1, <2>3
    <2>4. Ending(s)
      BY <2>1, <2>5, EndingIs
    <2> QED
      BY <2>2, <2>4 DEF s
  <1>4. Ending(Fails) /\ ~Holds(Fails, Journals)
    <2> DEFINE s == <<Op("retry"), WriteRun("failed"), Track("failed")>>
    <2>0. "failed" \in EndStates
      BY DEF EndStates
    <2>1. s \in Seq(AnyStep) /\ Len(s) = 3 /\ s[1].op = "retry" /\ s[2] = WriteRun("failed")
          /\ s[3] = Track("failed")
      BY <1>1, <1>2, <2>0 DEF PlainOps
    <2>2. ~Holds(s, Journals)
      BY <1>2, <2>0, <2>1, KindByOp DEF Holds
    <2>3. \A i \in 1 .. Len(s) : i = 1 \/ i = 2 \/ i = 3
      BY <2>1
    <2> HIDE DEF s
    <2>5. \A i \in 1 .. Len(s) :
             \/ s[i].op \in {"ack", "retry"}
             \/ s[i] = WriteRun("failed") /\ i = 2
             \/ s[i] \in EndEvents /\ i = 3
             \/ s[i].op = "clear" /\ i = 4 /\ s[3] \in EndEvents
             \/ s[i] = Track("failed") /\ i = Len(s) /\ Len(s) > 2 /\ s[2] = WriteRun("failed")
      BY <2>1, <2>3
    <2>4. Ending(s)
      BY <2>0, <2>1, <2>5, EndingIs
    <2> QED
      BY <2>2, <2>4 DEF s, Fails
  <1> DEFINE j == Journal("run_terminated", "none")
             k == Journal("run_completed", "none")
             f == Journal("run_failed", "scene_execute")
             g == Journal("run_terminated", "scene_execute")
  <1>5. /\ j \in EndEvents /\ j \in Telling /\ j \in AnyStep
        /\ k \in EndEvents /\ k \in AnyStep /\ k \in Journals /\ k.op = "journal"
        /\ f \in Journals /\ f \in AnyStep /\ f.op = "journal" /\ f.kind = "run_failed"
        /\ g \in EndEvents /\ g \in AnyStep /\ g.op = "journal" /\ g.kind = "run_terminated"
        /\ g \in Journals /\ k.kind = "run_completed"
    BY KindsOfSteps, KindByOp DEF Events, Stages, EndEvents, Ends, Telling
  <1>6. /\ Returns("succeeded") = <<Op("ack"), WriteRun("succeeded"), Track("succeeded")>>
        /\ Terminates = <<Op("ack"), WriteRun("terminated"), j, Op("clear"), Track("terminated")>>
        /\ StaleResult = <<k, Op("clear"), Op("try"), Op("leave")>>
        /\ OnFailure = <<f, Op("raise")>>
        /\ OnTermination = <<g, Op("clear"), Op("raise")>>
    BY DEF Returns, Terminates, StaleResult, OnFailure, OnTermination
  <1> HIDE DEF j, k, f, g
  <1>7. Ending(Terminates) /\ Guarded(Terminates, Journals \ Telling, Journals \cup Restarts)
    <2> DEFINE s == <<Op("ack"), WriteRun("terminated"), j, Op("clear"), Track("terminated")>>
    <2>0. "terminated" \in EndStates
      BY DEF EndStates
    <2>1. /\ s \in Seq(AnyStep) /\ Len(s) = 5 /\ s[1].op = "ack" /\ s[2] = WriteRun("terminated")
          /\ s[3] = j /\ s[4].op = "clear" /\ s[5] = Track("terminated")
      BY <1>1, <1>2, <1>5, <2>0 DEF PlainOps
    <2>3. \A i \in 1 .. Len(s) : i = 1 \/ i = 2 \/ i = 3 \/ i = 4 \/ i = 5
      BY <2>1
    <2> HIDE DEF s
    <2>2. ~Holds(s, Journals \ Telling)
      BY <1>2, <1>5, <2>0, <2>1, <2>3, KindByOp DEF Holds
    <2>5. \A i \in 1 .. Len(s) :
             \/ s[i].op \in {"ack", "retry"}
             \/ s[i] = WriteRun("terminated") /\ i = 2
             \/ s[i] \in EndEvents /\ i = 3
             \/ s[i].op = "clear" /\ i = 4 /\ s[3] \in EndEvents
             \/ s[i] = Track("terminated") /\ i = Len(s) /\ Len(s) > 2 /\ s[2] = WriteRun("terminated")
      BY <1>5, <2>1, <2>3
    <2>4. Ending(s)
      BY <2>0, <2>1, <2>5, EndingIs
    <2> QED
      BY <1>6, <2>2, <2>4, Vacuous DEF s
  <1>8. Ending(StaleResult)
    <2> DEFINE s == <<k, Op("clear"), Op("try"), Op("leave")>>
    <2>1. /\ s \in Seq(AnyStep) /\ Len(s) = 4 /\ s[1] = k /\ s[2].op = "clear" /\ s[3].op = "try"
          /\ s[4].op = "leave" /\ s[3] \in AnyStep
      BY <1>1, <1>5 DEF PlainOps
    <2>2. \A i \in 1 .. Len(s) : i = 1 \/ i = 2 \/ i = 3 \/ i = 4
      BY <2>1
    <2> HIDE DEF s
    <2>3. \A i \in 1 .. Len(s) : s[i].op \in {"journal", "clear", "try", "leave"}
      BY <1>5, <2>1, <2>2
    <2>4. /\ ~Holds(s, Rewrites) /\ ~Holds(s, Writes) /\ ~Holds(s, Tracks) /\ ~Holds(s, EndTracks)
          /\ ~Holds(s, SceneStep) /\ \A i \in 1 .. Len(s) : s[i].op # "copy"
      BY <2>3, KindByOp DEF Holds, EndTracks, SceneStep, StepsOf
    <2>5. ~Holds(s, Told)
      BY <1>5, <2>1, <2>2, KindByOp DEF Holds, Told
    <2>6. Holds(s, StepsOf({"try"}))
      BY <2>1 DEF Holds, StepsOf
    <2>7. \A e \in EndStates : ~Holds(s, {Track(e)})
      BY <2>4, KindsOfSteps DEF Holds
    <2>8. Guarded(s, Clears, EndEvents) /\ Guarded(s, Later, Journals)
      BY <1>5, <2>1, <2>2, KindByOp DEF Guarded, Clears, Later, StepsOf
    <2>9. Script(s)
      BY <2>1, <2>4, Vacuous DEF Script, Holds
    <2>10. \A e \in EndStates : Guarded(s, {Track(e)}, {WriteRun(e)})
      BY <2>7, Vacuous
    <2> QED
      BY <1>6, <2>4, <2>5, <2>6, <2>8, <2>9, <2>10 DEF Ending, s
  <1>9. Prelude(OnFailure)
    <2> DEFINE s == <<f, Op("raise")>>
    <2>1. /\ s \in Seq(AnyStep) /\ Len(s) = 2 /\ s[1] = f /\ s[2].op = "raise"
      BY <1>1, <1>5 DEF PlainOps
    <2>2. \A i \in 1 .. Len(s) : i = 1 \/ i = 2
      BY <2>1
    <2> HIDE DEF s
    <2>3. Prelude(s)
      BY <1>5, <2>1, <2>2, KindByOp DEF Prelude, Holds, Told, Guarded, Clears, Later, StepsOf
    <2> QED
      BY <1>6, <2>3 DEF s
  <1>10. Prelude(OnTermination)
    <2> DEFINE s == <<g, Op("clear"), Op("raise")>>
    <2>1. /\ s \in Seq(AnyStep) /\ Len(s) = 3 /\ s[1] = g /\ s[2].op = "clear" /\ s[3].op = "raise"
      BY <1>1, <1>5 DEF PlainOps
    <2>2. \A i \in 1 .. Len(s) : i = 1 \/ i = 2 \/ i = 3
      BY <2>1
    <2> HIDE DEF s
    <2>3. Prelude(s)
      BY <1>5, <2>1, <2>2, KindByOp DEF Prelude, Holds, Told, Guarded, Clears, Later, StepsOf
    <2> QED
      BY <1>6, <2>3 DEF s
  <1> QED
    BY <1>3, <1>4, <1>7, <1>8, <1>9, <1>10, EndingJoin DEF Returns

-----------------------------------------------------------------------------
(* What is owed: a step that is still to come finds what it relies on, or finds  *)
(* the step before it that brings it about.                                    *)

Owes(r, s) ==
    /\ \A q \in Run : q \in declared \/ Guarded(s, Rewrite(q), {Stale(q)})
    /\ \A i \in 1 .. Len(s) :
          s[i] \in Rewrites => s[i].prior # r /\ runs[s[i].prior] \in {"running", "stale"}
    /\ \A e \in EndStates : runs[r] = e \/ Guarded(s, {Track(e)}, {WriteRun(e)})
    /\ runs[r] # "none" \/ Guarded(s, AnyStep \ Early, Writes)
    /\ journal[r] # <<>> \/ Guarded(s, Later, Journals)
    /\ Holds(s, StepsOf({"leave"})) => Holds(s, StepsOf({"try"})) \/ journal[r] # <<>>
    /\ Holds(s, SceneStep) => runs[r] \in {"none", "running"}

\* While the build is the first one.
OwesTold(r, s) ==
    /\ Kinds(r) \cap Ends # {} \/ Guarded(s, Clears, EndEvents)
    /\ checkpoint # NoCheckpoint \/ Guarded(s, Told, Checkpoints)
    /\ Then(s, Clears, AnyStep \ Told)
    /\ \/ journal[r] # <<>> \/ checkpoint = NoCheckpoint
       \/ Guarded(s, Journals \ Telling, Journals \cup Restarts)

LEMMA ScriptTail ==
  ASSUME NEW t, Script(t), t # <<>>
  PROVE  Script(Tail(t))
  <1>1. t \in Seq(AnyStep)
    BY DEF Script
  <1>2. /\ Tail(t) \in Seq(AnyStep)
        /\ \A i \in 1 .. Len(Tail(t)) : i + 1 \in 1 .. Len(t) /\ Tail(t)[i] = t[i + 1]
        /\ Len(Tail(t)) = Len(t) - 1 /\ Len(t) \in Nat
    BY <1>1, TailOf
  <1>3. Then(Tail(t), EndTracks, {}) /\ Then(Tail(t), SceneStep, AfterScene)
    BY <1>1, ThenTail DEF Script
  <1>4. ASSUME NEW i \in 1 .. Len(Tail(t)), Tail(t)[i].op = "copy"
        PROVE  i + 1 \in 1 .. Len(Tail(t)) /\ Tail(t)[i + 1].op = "overwrite"
    <2>1. i + 1 \in 1 .. Len(t) /\ t[i + 1].op = "copy"
      BY <1>2, <1>4
    <2>2. (i + 1) + 1 \in 1 .. Len(t) /\ t[(i + 1) + 1].op = "overwrite"
      BY <2>1 DEF Script
    <2>3. i + 1 \in 1 .. Len(Tail(t))
      BY <1>2, <2>2
    <2> QED
      BY <1>2, <2>2, <2>3
  <1>5. \A i, j \in 1 .. Len(Tail(t)) : Tail(t)[i] \in EndTracks /\ Tail(t)[j] \in Writes
           => Tail(t)[i].state = Tail(t)[j].state
    BY <1>2 DEF Script
  <1>6. Holds(Tail(t), SceneStep) => ~Holds(Tail(t), EndWrites)
    BY <1>2 DEF Script, Holds
  <1> QED
    BY <1>2, <1>3, <1>4, <1>5, <1>6 DEF Script

\* A step is made, and what it was owed for is there.
LEMMA Advances ==
  ASSUME NEW r \in Run, NEW t, t # <<>>, Script(t), Owes(r, t),
         declared \subseteq declared', Head(t).op = "stale" => Head(t).prior \in declared',
         \A q \in Run \ {r} :
            runs[q] \in {"running", "stale"} => runs'[q] \in {"running", "stale"},
         runs'[r] = IF Head(t).op = "write" THEN Head(t).state ELSE runs[r],
         journal[r] # <<>> \/ Head(t).op = "journal" => journal'[r] # <<>>
  PROVE  Owes(r, Tail(t))'
  <1>1. t \in Seq(AnyStep) /\ Head(t) \in AnyStep /\ Head(t) = t[1]
    BY TailOf DEF Script
  <1>2. /\ Tail(t) \in Seq(AnyStep)
        /\ \A i \in 1 .. Len(Tail(t)) : i + 1 \in 1 .. Len(t) /\ Tail(t)[i] = t[i + 1]
        /\ 1 \in 1 .. Len(t)
    BY <1>1, TailOf
  <1>3. ASSUME NEW q \in Run PROVE q \in declared' \/ Guarded(Tail(t), Rewrite(q), {Stale(q)})
    <2>1. q \in declared \/ Guarded(t, Rewrite(q), {Stale(q)})
      BY DEF Owes
    <2>2. Head(t) = Stale(q) => q \in declared'
      BY KindsOfSteps
    <2> QED
      BY <1>1, <2>1, <2>2, GuardedTail
  <1>4. \A i \in 1 .. Len(Tail(t)) : Tail(t)[i] \in Rewrites =>
           Tail(t)[i].prior # r /\ runs'[Tail(t)[i].prior] \in {"running", "stale"}
    <2> TAKE i \in 1 .. Len(Tail(t))
    <2>1. t[i + 1] \in Rewrites => /\ t[i + 1].prior # r /\ t[i + 1].prior \in Run
                                   /\ runs[t[i + 1].prior] \in {"running", "stale"}
      BY <1>2 DEF Owes, Rewrites
    <2> QED
      BY <1>2, <2>1
  <1>5. ASSUME NEW e \in EndStates
        PROVE  runs'[r] = e \/ Guarded(Tail(t), {Track(e)}, {WriteRun(e)})
    <2>1. runs[r] = e \/ Guarded(t, {Track(e)}, {WriteRun(e)})
      BY DEF Owes
    <2>2. CASE Head(t).op # "write"
      <3>1. Head(t) # WriteRun(e)
        BY <2>2, KindsOfSteps, KindByOp
      <3> QED
        BY <1>1, <2>1, <2>2, <3>1, GuardedTail
    <2>3. CASE Head(t).op = "write" /\ Head(t).state # e
      <3>1. Head(t) \in Writes
        BY <1>1, <2>3, KindByOp
      <3>2. ~Holds(t, {Track(e)})
        <4> SUFFICES ASSUME NEW i \in 1 .. Len(t), t[i] = Track(e) PROVE FALSE
          BY DEF Holds
        <4>1. Track(e) \in EndTracks /\ Track(e).state = e
          BY KindsOfSteps DEF EndTracks, EndStates
        <4> QED
          BY <1>1, <1>2, <2>3, <3>1, <4>1 DEF Script
      <3>3. ~Holds(Tail(t), {Track(e)})
        BY <1>2, <3>2 DEF Holds
      <3> QED
        BY <3>3, Vacuous
    <2> QED
      BY <2>2, <2>3
  <1>6. runs'[r] # "none" \/ Guarded(Tail(t), AnyStep \ Early, Writes)
    <2>1. Head(t) \in Writes => Head(t).state # "none" /\ Head(t).op = "write"
      BY KindByOp DEF Writes, EndStates
    <2>2. Head(t).op = "write" => Head(t) \in Writes
      BY <1>1, KindByOp
    <2>3. runs[r] # "none" \/ Guarded(t, AnyStep \ Early, Writes)
      BY DEF Owes
    <2> QED
      BY <1>1, <2>1, <2>2, <2>3, GuardedTail
  <1>7. journal'[r] # <<>> \/ Guarded(Tail(t), Later, Journals)
    <2>1. journal[r] # <<>> \/ Guarded(t, Later, Journals)
      BY DEF Owes
    <2> QED
      BY <1>1, <2>1, GuardedTail, KindByOp
  <1>8. Holds(Tail(t), StepsOf({"leave"})) => Holds(Tail(t), StepsOf({"try"})) \/ journal'[r] # <<>>
    <2> SUFFICES ASSUME Holds(Tail(t), StepsOf({"leave"})), ~Holds(Tail(t), StepsOf({"try"})),
                        journal'[r] = <<>>
                 PROVE  FALSE
      OBVIOUS
    <2>1. Holds(t, StepsOf({"leave"}))
      BY <1>2 DEF Holds
    <2>2. PICK i \in 1 .. Len(t) : t[i] \in StepsOf({"try"})
      BY <2>1 DEF Owes, Holds
    <2>3. i = 1
      <3> SUFFICES ASSUME i # 1 PROVE FALSE
        OBVIOUS
      <3>1. i - 1 \in 1 .. Len(Tail(t)) /\ Tail(t)[i - 1] = t[i]
        BY <1>1, TailOf
      <3> QED
        BY <2>2, <3>1 DEF Holds
    <2>4. Head(t) \in Later
      BY <1>1, <2>2, <2>3 DEF Later, StepsOf
    <2>5. Guarded(t, Later, Journals)
      BY DEF Owes
    <2> QED
      BY <1>1, <2>4, <2>5, GuardedTail
  <1>9. Holds(Tail(t), SceneStep) => runs'[r] \in {"none", "running"}
    <2> SUFFICES ASSUME Holds(Tail(t), SceneStep) PROVE runs'[r] \in {"none", "running"}
      OBVIOUS
    <2>1. Holds(t, SceneStep)
      BY <1>2 DEF Holds
    <2>2. ~Holds(t, EndWrites) /\ runs[r] \in {"none", "running"}
      BY <2>1 DEF Script, Owes
    <2>3. Head(t).op = "write" => Head(t).state = "running"
      BY <1>1, <1>2, <2>2, KindByOp DEF Holds, EndWrites
    <2> QED
      BY <2>2, <2>3
  <1> QED
    BY <1>3, <1>4, <1>5, <1>6, <1>7, <1>8, <1>9 DEF Owes

LEMMA AdvancesTold ==
  ASSUME NEW r \in Run, NEW t, t # <<>>, Script(t), OwesTold(r, t),
         Kinds(r) \cap Ends # {} \/ Head(t) \in EndEvents => (Kinds(r) \cap Ends)' # {},
         Head(t) \in Checkpoints => checkpoint' # NoCheckpoint /\ journal'[r] # <<>>,
         \/ checkpoint' = checkpoint
         \/ Head(t) \in Checkpoints
         \/ Head(t) \in Clears /\ checkpoint' = NoCheckpoint,
         journal[r] # <<>> \/ Head(t) \in Journals => journal'[r] # <<>>,
         Head(t) \in Restarts => checkpoint' = NoCheckpoint
  PROVE  OwesTold(r, Tail(t))'
  <1>1. t \in Seq(AnyStep)
    BY DEF Script
  <1>2. /\ Tail(t) \in Seq(AnyStep)
        /\ \A i \in 1 .. Len(Tail(t)) : i + 1 \in 1 .. Len(t) /\ Tail(t)[i] = t[i + 1]
    BY <1>1, TailOf
  <1>3. (Kinds(r) \cap Ends)' # {} \/ Guarded(Tail(t), Clears, EndEvents)
    BY <1>1, GuardedTail DEF OwesTold
  <1>4. Then(Tail(t), Clears, AnyStep \ Told)
        /\ (Head(t) \in Clears => \A i \in 1 .. Len(Tail(t)) : Tail(t)[i] \in AnyStep \ Told)
    BY <1>1, ThenTail DEF OwesTold
  <1>5. checkpoint' # NoCheckpoint \/ Guarded(Tail(t), Told, Checkpoints)
    <2>1. CASE Head(t) \in Clears
      <3>1. ~Holds(Tail(t), Told)
        BY <1>4, <2>1 DEF Holds
      <3> QED
        BY <3>1, Vacuous
    <2>2. CASE Head(t) \notin Clears
      BY <1>1, <2>2, GuardedTail DEF OwesTold
    <2> QED
      BY <2>1, <2>2
  <1>6. \/ journal'[r] # <<>> \/ checkpoint' = NoCheckpoint
        \/ Guarded(Tail(t), Journals \ Telling, Journals \cup Restarts)
    <2> SUFFICES ASSUME journal'[r] = <<>>, checkpoint' # NoCheckpoint
                 PROVE  Guarded(Tail(t), Journals \ Telling, Journals \cup Restarts)
      OBVIOUS
    <2>1. Guarded(t, Journals \ Telling, Journals \cup Restarts)
      BY DEF OwesTold
    <2>2. Head(t) \notin Journals \cup Restarts
      OBVIOUS
    <2> QED
      BY <1>1, <2>1, <2>2, GuardedTail
  <1> QED
    BY <1>3, <1>4, <1>5, <1>6 DEF OwesTold

\* Another program takes the place of what was left.
LEMMA Replaced ==
  ASSUME NEW r \in Run, NEW p, Ending(p), runs'[r] # "none"
  PROVE  Owes(r, p)'
  <1>1. \A q \in Run : ~Holds(p, Rewrite(q))
    BY DEF Ending, Holds, Rewrite
  <1>2. \A i \in 1 .. Len(p) : p[i] \notin Rewrites
    BY DEF Ending, Holds
  <1> QED
    BY <1>1, <1>2, Vacuous DEF Ending, Owes

LEMMA ReplacedTold ==
  ASSUME NEW r \in Run, NEW p, Ending(p),
         journal'[r] # <<>> \/ Guarded(p, Journals \ Telling, Journals \cup Restarts)
  PROVE  OwesTold(r, p)'
  <1>1. \A i \in 1 .. Len(p) : p[i] \in AnyStep \ Told
    BY DEF Ending, Script, Holds
  <1>2. Then(p, Clears, AnyStep \ Told)
    BY <1>1 DEF Then
  <1>3. Guarded(p, Told, Checkpoints)
    BY Vacuous DEF Ending
  <1> QED
    BY <1>2, <1>3 DEF Ending, OwesTold

\* Nothing is left.
LEMMA NothingIsOwed ==
  ASSUME NEW r \in Run
  PROVE  /\ Script(<<>>) /\ Owes(r, <<>>) /\ OwesTold(r, <<>>)
         /\ Owes(r, <<>>)' /\ OwesTold(r, <<>>)'
  <1>1. <<>> \in Seq(AnyStep) /\ Len(<<>>) = 0
    BY EmptySeq
  <1>2. \A B : ~Holds(<<>>, B)
    BY <1>1 DEF Holds
  <1>3. \A A, B : Guarded(<<>>, A, B) /\ Then(<<>>, A, B)
    BY <1>1 DEF Guarded, Then
  <1>4. \A i \in 1 .. Len(<<>>) : FALSE
    BY <1>1
  <1> QED
    BY <1>1, <1>2, <1>3, <1>4 DEF Script, Owes, OwesTold

\* Steps come in before what is left.
Insert(l) ==
    /\ l \in Seq(AnyStep)
    /\ \A i \in 1 .. Len(l) : l[i].op \in {"stale", "copy", "overwrite", "journal", "clear"}
    /\ \A i \in 1 .. Len(l) :
          l[i].op = "copy" => i + 1 \in 1 .. Len(l) /\ l[i + 1].op = "overwrite"
    /\ \A q \in Run : Guarded(l, Rewrite(q), {Stale(q)})

LEMMA InsertKinds ==
  ASSUME NEW l, Insert(l)
  PROVE  /\ ~Holds(l, EndTracks) /\ ~Holds(l, Writes) /\ ~Holds(l, SceneStep)
         /\ ~Holds(l, StepsOf({"leave"})) /\ ~Holds(l, Later)
         /\ \A e \in EndStates : ~Holds(l, {Track(e)})
  BY KindByOp, KindsOfSteps DEF Insert, Holds, EndTracks, SceneStep, StepsOf, Later

LEMMA InsertScript ==
  ASSUME NEW l, NEW t, Insert(l), Script(t)
  PROVE  Script(l \o t)
  <1>1. l \in Seq(AnyStep) /\ t \in Seq(AnyStep)
    BY DEF Insert, Script
  <1>0. /\ l \o t \in Seq(AnyStep)
        /\ Len(l) \in Nat /\ Len(t) \in Nat /\ Len(l \o t) = Len(l) + Len(t)
        /\ \A i \in 1 .. Len(l) : (l \o t)[i] = l[i]
        /\ \A i \in 1 .. Len(t) : (l \o t)[Len(l) + i] = t[i]
        /\ \A i \in 1 .. Len(l \o t) :
              \/ i \in 1 .. Len(l)
              \/ \E k \in 1 .. Len(t) : i = Len(l) + k
    BY <1>1, Joined
  <1>2. Then(l \o t, EndTracks, {}) /\ Then(l \o t, SceneStep, AfterScene)
    BY <1>1, InsertKinds, Vacuous, ThenJoin DEF Script
  <1>3. ASSUME NEW i \in 1 .. Len(l \o t), (l \o t)[i].op = "copy"
        PROVE  i + 1 \in 1 .. Len(l \o t) /\ (l \o t)[i + 1].op = "overwrite"
    <2>1. CASE i \in 1 .. Len(l)
      <3>1. l[i].op = "copy"
        BY <1>0, <1>3, <2>1
      <3>2. i + 1 \in 1 .. Len(l) /\ l[i + 1].op = "overwrite"
        BY <2>1, <3>1 DEF Insert
      <3>3. (l \o t)[i + 1] = l[i + 1]
        BY <1>0, <3>2
      <3>4. i + 1 \in 1 .. Len(l \o t)
        BY <1>0, <3>2
      <3> QED
        BY <3>2, <3>3, <3>4
    <2>2. ASSUME NEW k \in 1 .. Len(t), i = Len(l) + k
          PROVE  i + 1 \in 1 .. Len(l \o t) /\ (l \o t)[i + 1].op = "overwrite"
      <3>1. t[k].op = "copy"
        BY <1>0, <1>3, <2>2
      <3>2. k + 1 \in 1 .. Len(t) /\ t[k + 1].op = "overwrite"
        BY <3>1 DEF Script
      <3>3. (l \o t)[Len(l) + (k + 1)] = t[k + 1]
        BY <1>0, <3>2
      <3>4. i + 1 = Len(l) + (k + 1) /\ i + 1 \in 1 .. Len(l \o t)
        BY <1>0, <2>2, <3>2
      <3> QED
        BY <3>2, <3>3, <3>4
    <2> QED
      BY <1>0, <2>1, <2>2
  <1>4. ASSUME NEW i \in 1 .. Len(l \o t), NEW j \in 1 .. Len(l \o t),
               (l \o t)[i] \in EndTracks, (l \o t)[j] \in Writes
        PROVE  (l \o t)[i].state = (l \o t)[j].state
    <2>1. i \notin 1 .. Len(l) /\ j \notin 1 .. Len(l)
      BY <1>0, <1>4, InsertKinds DEF Holds
    <2>2. PICK k \in 1 .. Len(t) : i = Len(l) + k
      BY <1>0, <2>1
    <2>3. PICK m \in 1 .. Len(t) : j = Len(l) + m
      BY <1>0, <2>1
    <2>4. (l \o t)[i] = t[k] /\ (l \o t)[j] = t[m]
      BY <1>0, <2>2, <2>3
    <2> QED
      BY <1>4, <2>4 DEF Script
  <1>5. l \o t \in Seq(AnyStep)
    BY <1>0
  <1>6. Holds(l \o t, SceneStep) => ~Holds(l \o t, EndWrites)
    <2>1. ~Holds(l, SceneStep) /\ ~Holds(l, EndWrites)
      BY InsertKinds DEF Holds, EndWrites
    <2> QED
      BY <1>1, <2>1, HoldsJoin DEF Script
  <1> QED
    BY <1>2, <1>3, <1>4, <1>5, <1>6 DEF Script

LEMMA InsertOwes ==
  ASSUME NEW r \in Run, NEW l, NEW t, Insert(l), Script(t), Owes(r, t)',
         \A i \in 1 .. Len(l) :
            l[i] \in Rewrites => l[i].prior # r /\ runs'[l[i].prior] \in {"running", "stale"},
         runs'[r] # "none" \/ \A i \in 1 .. Len(l) : l[i] \in Rewrites
  PROVE  Owes(r, l \o t)'
  <1>1. l \in Seq(AnyStep) /\ t \in Seq(AnyStep)
    BY DEF Insert, Script
  <1>0. /\ l \o t \in Seq(AnyStep)
        /\ Len(l) \in Nat /\ Len(t) \in Nat /\ Len(l \o t) = Len(l) + Len(t)
        /\ \A i \in 1 .. Len(l) : (l \o t)[i] = l[i]
        /\ \A i \in 1 .. Len(t) : (l \o t)[Len(l) + i] = t[i]
        /\ \A i \in 1 .. Len(l \o t) :
              \/ i \in 1 .. Len(l)
              \/ \E k \in 1 .. Len(t) : i = Len(l) + k
    BY <1>1, Joined
  <1>2. \A q \in Run : q \in declared' \/ Guarded(l \o t, Rewrite(q), {Stale(q)})
    BY <1>1, GuardedJoin DEF Owes, Insert
  <1>3. \A i \in 1 .. Len(l \o t) : (l \o t)[i] \in Rewrites =>
           (l \o t)[i].prior # r /\ runs'[(l \o t)[i].prior] \in {"running", "stale"}
    <2> TAKE i \in 1 .. Len(l \o t)
    <2>1. CASE i \in 1 .. Len(l)
      <3>1. (l \o t)[i] = l[i]
        BY <1>0, <2>1
      <3> QED
        BY <2>1, <3>1
    <2>2. ASSUME NEW k \in 1 .. Len(t), i = Len(l) + k
          PROVE  (l \o t)[i] \in Rewrites =>
                   (l \o t)[i].prior # r /\ runs'[(l \o t)[i].prior] \in {"running", "stale"}
      <3>1. (l \o t)[i] = t[k]
        BY <1>0, <2>2
      <3> QED
        BY <3>1 DEF Owes
    <2> QED
      BY <1>0, <2>1, <2>2
  <1>4. \A e \in EndStates : runs'[r] = e \/ Guarded(l \o t, {Track(e)}, {WriteRun(e)})
    BY <1>1, InsertKinds, Vacuous, GuardedJoin DEF Owes
  <1>5. runs'[r] # "none" \/ Guarded(l \o t, AnyStep \ Early, Writes)
    <2> SUFFICES ASSUME \A i \in 1 .. Len(l) : l[i] \in Rewrites, runs'[r] = "none"
                 PROVE  Guarded(l \o t, AnyStep \ Early, Writes)
      OBVIOUS
    <2>1. ~Holds(l, AnyStep \ Early)
      BY KindByOp DEF Holds, Early, StepsOf
    <2> QED
      BY <1>1, <2>1, Vacuous, GuardedJoin DEF Owes
  <1>6. journal'[r] # <<>> \/ Guarded(l \o t, Later, Journals)
    BY <1>1, InsertKinds, Vacuous, GuardedJoin DEF Owes
  <1>7. Holds(l \o t, StepsOf({"leave"}))
           => Holds(l \o t, StepsOf({"try"})) \/ journal'[r] # <<>>
    BY <1>1, InsertKinds, HoldsJoin DEF Owes
  <1>8. Holds(l \o t, SceneStep) => runs'[r] \in {"none", "running"}
    BY <1>1, InsertKinds, HoldsJoin DEF Owes
  <1> QED
    BY <1>2, <1>3, <1>4, <1>5, <1>6, <1>7, <1>8 DEF Owes

LEMMA InsertTold ==
  ASSUME NEW r \in Run, NEW l, NEW t, Insert(l), Script(t),
         ~Holds(l, Clears), ~Holds(l, Told), ~Holds(l, Journals \ Telling),
         (Kinds(r) \cap Ends)' # {} \/ Guarded(t, Clears, EndEvents),
         checkpoint' # NoCheckpoint \/ Guarded(t, Told, Checkpoints),
         Then(t, Clears, AnyStep \ Told),
         \/ journal'[r] # <<>> \/ checkpoint' = NoCheckpoint \/ Holds(l, Journals)
         \/ Guarded(t, Journals \ Telling, Journals \cup Restarts)
  PROVE  OwesTold(r, l \o t)'
  <1>1. l \in Seq(AnyStep) /\ t \in Seq(AnyStep)
    BY DEF Insert, Script
  <1>2. (Kinds(r) \cap Ends)' # {} \/ Guarded(l \o t, Clears, EndEvents)
    BY <1>1, Vacuous, GuardedJoin
  <1>3. checkpoint' # NoCheckpoint \/ Guarded(l \o t, Told, Checkpoints)
    BY <1>1, Vacuous, GuardedJoin
  <1>4. Then(l \o t, Clears, AnyStep \ Told)
    BY <1>1, Vacuous, ThenJoin
  <1>5. Guarded(l, Journals \ Telling, Journals \cup Restarts)
    BY Vacuous
  <1>6. Holds(l, Journals) => Holds(l, Journals \cup Restarts)
    BY DEF Holds
  <1>7. \/ journal'[r] # <<>> \/ checkpoint' = NoCheckpoint
        \/ Guarded(l \o t, Journals \ Telling, Journals \cup Restarts)
    BY <1>1, <1>5, <1>6, GuardedJoin
  <1> QED
    BY <1>2, <1>3, <1>4, <1>7 DEF OwesTold

-----------------------------------------------------------------------------
(* The invariant *)

States == EndStates \cup {"none", "running"}
Versions == {1, 2}
RecordsTyped ==
    /\ runs \in [Run -> States] /\ tracked \in [Run -> States]
    /\ DOMAIN journal = Run /\ \A r \in Run : journal[r] \in Seq([kind : Events \cup {"observation"},
                                                                 stage : Stages])
    /\ checkpoint \in [stage : Stages, version : Versions \cup {0}]
    /\ todo \in [Run -> Seq(AnyStep)]
    /\ sequence \in Nat /\ seen \in [Run -> Int] /\ version \in Versions
    /\ declared \subseteq Run /\ done \subseteq Run /\ watched \subseteq Run
    /\ observers \subseteq Run
    /\ feedback \in [Run -> SUBSET Feedback] /\ copy \in [Run -> SUBSET Feedback]
    /\ target \in [Feedback -> Run \cup {NoRun}] /\ accepted \subseteq Feedback

\* Runs are begun in their order, one is at work, and those after it have not begun.
OneAtATime ==
    /\ \A r, q \in Run : r # q /\ Live(r) => ~Live(q)
    /\ \A r, q \in Run : q < r /\ (Live(r) \/ runs[r] # "none") => runs[q] # "none"
    /\ \A r, q \in Run : r < q /\ Live(r) => runs[q] = "none"
    /\ \A r \in Run : journal[r] # <<>> \/ r \in done => runs[r] # "none"
    /\ \A r \in observers : journal[r] # <<>>
    /\ \A q \in declared : runs[q] = "stale" /\ ~Live(q)

Programs ==
    \A r \in Run : /\ Script(todo[r]) /\ Owes(r, todo[r])
                   /\ version = 1 => OwesTold(r, todo[r])

\* A run at work has not been shown as ended.
ConsoleInv ==
    /\ \A r \in Run : Live(r) => tracked[r] \in {"none", "running"}
    /\ ConsoleNeverAhead

FeedbackInv ==
    /\ \A f \in accepted : target[f] # NoRun
    /\ FeedbackLostOnlyByRestart

\* Without a second writer, what a run with a result has left cannot raise.
AfterResult == AfterScene \cup StepsOf({"ack"})
                 \cup {WriteRun("succeeded"), Track("succeeded")}
ResultInv ==
    watched = {} =>
       /\ observers = {} /\ \A r \in Run : seen[r] = -1
       /\ \A r \in done : /\ runs[r] # "failed"
                          /\ \A i \in 1 .. Len(todo[r]) : todo[r][i] \in AfterResult

\* The checkpoint of the last run that wrote to the journal is there until the run
\* that follows has told of it.
Broken(r) == "checkpoint_written" \in Kinds(r) /\ Kinds(r) \cap Ends = {}
ToldInv ==
    /\ version = 1 =>
          /\ checkpoint = NoCheckpoint \/ checkpoint.version = 1
          /\ \A r \in Run : Broken(r) /\ (\A q \in Run : r < q => journal[q] = <<>>)
                => checkpoint # NoCheckpoint
    /\ InterruptionIsTold

RecordsInv == /\ RecordsTyped /\ OneAtATime /\ Programs
              /\ ConsoleInv /\ FeedbackInv /\ ResultInv /\ ToldInv

-----------------------------------------------------------------------------
(* The step a run is at *)

LEMMA HeadFacts ==
  ASSUME RecordsTyped, Programs, NEW r \in Run, Live(r)
  PROVE  LET x == Step(r) IN
         /\ x \in AnyStep
         /\ x.op \notin {"priors", "stale", "copy", "overwrite", "write"} => runs[r] # "none"
         /\ x \in Later => journal[r] # <<>>
         /\ x \in Rewrites => /\ x.prior \in Run \ {r} /\ runs[x.prior] \in {"running", "stale"}
                              /\ x.op # "stale" => x.prior \in declared
         /\ x \in EndTracks => runs[r] = x.state /\ Tail(todo[r]) = <<>>
         /\ x.op = "scene" => /\ runs[r] \in {"none", "running"}
                              /\ \A i \in 1 .. Len(Tail(todo[r])) : Tail(todo[r])[i] \in AfterScene
         /\ version = 1 => /\ x \in Clears => Kinds(r) \cap Ends # {}
                           /\ x \in Told => checkpoint # NoCheckpoint
                           /\ x \in Journals \ Telling => journal[r] # <<>> \/ checkpoint = NoCheckpoint
  <1> DEFINE t == todo[r]
             x == Step(r)
  <1>1. t \in Seq(AnyStep) /\ t # <<>> /\ Script(t) /\ Owes(r, t) /\ x = Head(t)
        /\ (version = 1 => OwesTold(r, t))
    BY DEF RecordsTyped, Programs, Live, Step
  <1> HIDE DEF t, x
  <1>2. x \in AnyStep /\ x = t[1] /\ 1 \in 1 .. Len(t)
        /\ Tail(t) \in Seq(AnyStep)
    BY <1>1, TailOf
  <1>3. x.op \notin {"priors", "stale", "copy", "overwrite", "write"} => runs[r] # "none"
    <2>1. x.op \notin {"priors", "stale", "copy", "overwrite", "write"} => x \notin Early
      BY DEF Early, StepsOf
    <2> QED
      BY <1>1, <1>2, <2>1, GuardedTail DEF Owes
  <1>4. x \in Later => journal[r] # <<>>
    BY <1>1, GuardedTail DEF Owes
  <1>5. x \in Rewrites => /\ x.prior \in Run \ {r} /\ runs[x.prior] \in {"running", "stale"}
                          /\ x.op # "stale" => x.prior \in declared
    <2> SUFFICES ASSUME x \in Rewrites
                 PROVE  /\ x.prior \in Run \ {r} /\ runs[x.prior] \in {"running", "stale"}
                        /\ x.op # "stale" => x.prior \in declared
      OBVIOUS
    <2>1. x.prior \in Run
      BY DEF Rewrites
    <2>2. x.prior # r /\ runs[x.prior] \in {"running", "stale"}
      BY <1>1, <1>2 DEF Owes
    <2>3. x.op # "stale" => x \in Rewrite(x.prior)
      BY DEF Rewrite
    <2> QED
      BY <1>1, <2>1, <2>2, <2>3, GuardedTail DEF Owes
  <1>6. x \in EndTracks => runs[r] = x.state /\ Tail(t) = <<>>
    <2> SUFFICES ASSUME x \in EndTracks PROVE runs[r] = x.state /\ Tail(t) = <<>>
      OBVIOUS
    <2>1. x.state \in EndStates /\ x = Track(x.state)
      BY DEF EndTracks, Tracks, Track
    <2>2. runs[r] = x.state
      BY <1>1, <2>1, GuardedTail DEF Owes
    <2>7. Then(t, EndTracks, {}) /\ t \in Seq(AnyStep) /\ t # <<>> /\ Head(t) \in EndTracks
      BY <1>1 DEF Script
    <2>8. \A i \in 1 .. Len(Tail(t)) : Tail(t)[i] \in {}
      BY <2>7, ThenTail
    <2>3. \A i \in 1 .. Len(Tail(t)) : FALSE
      BY <2>8
    <2>4. Len(Tail(t)) \in Nat
      BY <1>2
    <2>5. ~(1 <= Len(Tail(t)))
      BY <2>3, <2>4
    <2>6. Tail(t) = <<>>
      BY <1>2, <2>4, <2>5, EmptySeq
    <2> QED
      BY <2>2, <2>6
  <1>7. x.op = "scene" => /\ runs[r] \in {"none", "running"}
                          /\ \A i \in 1 .. Len(Tail(t)) : Tail(t)[i] \in AfterScene
    <2>1. x.op = "scene" => x \in SceneStep
      BY <1>2 DEF SceneStep, StepsOf
    <2>2. x.op = "scene" => Holds(t, SceneStep)
      BY <1>2, <2>1 DEF Holds
    <2> QED
      BY <1>1, <2>1, <2>2, ThenTail DEF Script, Owes
  <1>8. version = 1 => /\ x \in Clears => Kinds(r) \cap Ends # {}
                       /\ x \in Told => checkpoint # NoCheckpoint
                       /\ x \in Journals \ Telling => journal[r] # <<>> \/ checkpoint = NoCheckpoint
    BY <1>1, GuardedTail DEF OwesTold
  <1> QED
    BY <1>2, <1>3, <1>4, <1>5, <1>6, <1>7, <1>8 DEF t, x

\* Only the run at work has a program left.
LEMMA OthersRest ==
  ASSUME RecordsTyped, OneAtATime, NEW r \in Run,
         Live(r) \/ \A q \in Run : ~Live(q), NEW p, todo' = [todo EXCEPT ![r] = p],
         Script(p), Owes(r, p)', version' = 1 => OwesTold(r, p)'
  PROVE  Programs'
  <1>1. todo'[r] = p /\ \A q \in Run \ {r} : todo'[q] = <<>>
    BY DEF RecordsTyped, OneAtATime, Live
  <1>2. ASSUME NEW q \in Run
        PROVE  Script(todo[q])' /\ Owes(q, todo[q])' /\ (version' = 1 => OwesTold(q, todo[q])')
    <2>1. PICK t : t = todo'[q] /\ (q = r => t = p) /\ (q # r => t = <<>>)
      BY <1>1
    <2>2. Script(t) /\ Owes(q, t)' /\ (version' = 1 => OwesTold(q, t)')
      <3>1. CASE q = r
        BY <2>1, <3>1
      <3>2. CASE q # r
        BY <2>1, <3>2, NothingIsOwed
      <3> QED
        BY <3>1, <3>2
    <2> QED
      BY <2>1, <2>2 DEF Script, Owes, OwesTold
  <1> QED
    BY <1>2 DEF Programs

\* The run goes on to its next step.
LEMMA Continues ==
  ASSUME RecordsTyped, OneAtATime, Programs, NEW r \in Run, Live(r),
         todo' = [todo EXCEPT ![r] = Tail(todo[r])], version' = version,
         declared \subseteq declared', Step(r).op = "stale" => Step(r).prior \in declared',
         \A q \in Run \ {r} :
            runs[q] \in {"running", "stale"} => runs'[q] \in {"running", "stale"},
         runs'[r] = IF Step(r).op = "write" THEN Step(r).state ELSE runs[r],
         journal[r] # <<>> \/ Step(r).op = "journal" => journal'[r] # <<>>,
         Kinds(r) \cap Ends # {} \/ Step(r) \in EndEvents => (Kinds(r) \cap Ends)' # {},
         Step(r).op = "checkpoint" => checkpoint' # NoCheckpoint,
         \/ checkpoint' = checkpoint
         \/ Step(r).op = "checkpoint"
         \/ Step(r).op = "clear" /\ checkpoint' = NoCheckpoint,
         Step(r).op = "restart" => checkpoint' = NoCheckpoint
  PROVE  Programs'
  <1>1. PICK t, p : t = todo[r] /\ p = Tail(t)
    OBVIOUS
  <1>2. t # <<>> /\ Head(t) = Step(r) /\ Script(t) /\ Owes(r, t)
        /\ (version = 1 => OwesTold(r, t))
    BY <1>1 DEF Live, Step, Programs
  <1>3. Head(t) \in AnyStep
    BY <1>2, TailOf DEF Script
  <1>4. Script(p)
    BY <1>1, <1>2, ScriptTail
  <1>5. Owes(r, Tail(t))'
    BY <1>2, Advances
  <1>6. Owes(r, p)'
    BY <1>1, <1>5 DEF Owes
  <1>7. ASSUME version = 1 PROVE OwesTold(r, p)'
    <2>1. /\ Head(t) \in Checkpoints => Head(t).op = "checkpoint" /\ Head(t) \in Later
          /\ Head(t) \in Journals => Head(t).op = "journal"
          /\ Head(t) \in Restarts => Head(t).op = "restart"
          /\ Head(t).op = "clear" => Head(t) \in Clears
          /\ Head(t).op = "checkpoint" => Head(t) \in Checkpoints
      BY <1>3, KindByOp DEF Checkpoints, Restarts, Later, Clears, StepsOf
    <2>2. Head(t) \in Later => journal[r] # <<>>
      BY <1>2, HeadFacts
    <2>3. OwesTold(r, Tail(t))'
      BY <1>2, <1>7, <2>1, <2>2, AdvancesTold
    <2> QED
      BY <1>1, <2>3 DEF OwesTold
  <1> QED
    BY <1>1, <1>4, <1>6, <1>7, OthersRest

\* As before, and nothing is recorded.
LEMMA ContinuesPlain ==
  ASSUME RecordsTyped, OneAtATime, Programs, NEW r \in Run, Live(r),
         todo' = [todo EXCEPT ![r] = Tail(todo[r])],
         UNCHANGED <<runs, journal, checkpoint, declared, version>>,
         Step(r).op \notin {"stale", "write", "journal", "checkpoint", "clear", "restart"}
  PROVE  Programs'
  <1>1. Step(r) \notin EndEvents
    BY KindByOp DEF EndEvents
  <1>2. (Kinds(r) \cap Ends)' = Kinds(r) \cap Ends
    BY DEF Kinds
  <1> QED
    BY <1>1, <1>2, Continues

\* Its program is replaced by one that ends it.
LEMMA Turns ==
  ASSUME RecordsTyped, OneAtATime, NEW r \in Run, Live(r), NEW p, Ending(p),
         todo' = [todo EXCEPT ![r] = p], runs'[r] # "none",
         journal'[r] # <<>> \/ Guarded(p, Journals \ Telling, Journals \cup Restarts)
  PROVE  Programs'
  BY Replaced, ReplacedTold, OthersRest DEF Ending

\* Its program is at an end.
LEMMA Stops ==
  ASSUME RecordsTyped, OneAtATime, NEW r \in Run, Live(r), todo' = [todo EXCEPT ![r] = <<>>]
  PROVE  Programs'
  BY NothingIsOwed, OthersRest

\* What raises leaves a run that only ends.
LEMMA Raises ==
  ASSUME RecordsTyped, OneAtATime, Programs, NEW r \in Run, Live(r), Raise(r),
         runs' = runs, journal' = journal, runs[r] # "none"
  PROVE  Programs'
  <1>1. todo' = [todo EXCEPT ![r] = AfterRaise(r)]
    BY DEF Raise, Becomes
  <1>2. Script(todo[r]) /\ Owes(r, todo[r])
    BY DEF Programs
  <1>3. \A o \in PlainOps : Has(r, o) <=> Holds(todo[r], StepsOf({o}))
    <2>1. todo[r] \in Seq(AnyStep) /\ DOMAIN todo[r] = 1 .. Len(todo[r])
      BY <1>2 DEF Script
    <2>2. \A i \in 1 .. Len(todo[r]) : todo[r][i] \in AnyStep
      BY <2>1
    <2> QED
      BY <2>1, <2>2 DEF Has, Holds, StepsOf
  <1>4. Has(r, "leave") => Has(r, "try") \/ journal[r] # <<>>
    BY <1>2, <1>3 DEF Owes, PlainOps
  <1>5. CASE AfterRaise(r) = Fails
    <2>1. Guarded(Fails, Journals \ Telling, Journals \cup Restarts)
      BY EndingPrograms, Vacuous DEF Holds
    <2>2. todo' = [todo EXCEPT ![r] = Fails]
      BY <1>1, <1>5
    <2> QED
      BY <2>1, <2>2, EndingPrograms, Turns
  <1>6. CASE AfterRaise(r) = OnFailure \o Fails /\ journal[r] # <<>>
    <2>1. todo' = [todo EXCEPT ![r] = OnFailure \o Fails]
      BY <1>1, <1>6
    <2> QED
      BY <1>6, <2>1, EndingPrograms, Turns
  <1>7. CASE AfterRaise(r) = <<>>
    BY <1>1, <1>7, Stops
  <1> QED
    BY <1>4, <1>5, <1>6, <1>7 DEF AfterRaise

\* No program moves.
LEMMA Stays ==
  ASSUME RecordsTyped, OneAtATime, Programs,
         UNCHANGED <<todo, runs, declared, version, checkpoint>>,
         \A r \in Run : /\ journal[r] # <<>> => journal'[r] # <<>>
                        /\ Kinds(r) \cap Ends # {} => (Kinds(r) \cap Ends)' # {}
  PROVE  Programs'
  <1>1. ASSUME NEW r \in Run
        PROVE  Script(todo[r])' /\ Owes(r, todo[r])' /\ (version' = 1 => OwesTold(r, todo[r])')
    <2>1. Script(todo[r]) /\ Owes(r, todo[r]) /\ (version = 1 => OwesTold(r, todo[r]))
      BY DEF Programs
    <2>2. PICK t : t = todo[r]
      OBVIOUS
    <2>3. Script(t) /\ Owes(r, t) /\ (version = 1 => OwesTold(r, t))
      BY <2>1, <2>2
    <2>4. Owes(r, t)'
      BY <2>3 DEF Owes
    <2>5. version = 1 => OwesTold(r, t)'
      BY <2>3 DEF OwesTold
    <2> QED
      BY <2>2, <2>3, <2>4, <2>5 DEF Script, Owes, OwesTold
  <1> QED
    BY <1>1 DEF Programs

-----------------------------------------------------------------------------
(* The programs are kept, by every step *)

\* A step that records nothing leaves what the next one is owed.
LEMMA Onward ==
  ASSUME NEW r \in Run, NEW t, t # <<>>, Script(t), Owes(r, t), version = 1 => OwesTold(r, t),
         UNCHANGED <<runs, journal, checkpoint, declared, version>>,
         Head(t).op \notin {"stale", "write", "journal", "checkpoint", "clear", "restart"}
  PROVE  /\ Script(Tail(t)) /\ Owes(r, Tail(t)) /\ (version = 1 => OwesTold(r, Tail(t)))
         /\ Owes(r, Tail(t))' /\ (version' = 1 => OwesTold(r, Tail(t))')
  <1>1. Script(Tail(t))
    BY ScriptTail
  <1>2. Owes(r, Tail(t))'
    BY Advances
  <1>3. Head(t) \notin EndEvents /\ Head(t) \notin Checkpoints /\ Head(t) \notin Restarts
        /\ Head(t) \notin Journals
    <2>1. Head(t) \in AnyStep
      BY TailOf DEF Script
    <2> QED
      BY <2>1, KindByOp DEF EndEvents, Checkpoints, Restarts, StepsOf
  <1>4. (Kinds(r) \cap Ends)' = Kinds(r) \cap Ends
    BY DEF Kinds
  <1>5. version = 1 => OwesTold(r, Tail(t))'
    BY <1>3, <1>4, AdvancesTold
  <1>6. Owes(r, Tail(t)) <=> Owes(r, Tail(t))'
    BY DEF Owes
  <1>7. OwesTold(r, Tail(t)) <=> OwesTold(r, Tail(t))'
    BY <1>4 DEF OwesTold
  <1> QED
    BY <1>1, <1>2, <1>5, <1>6, <1>7

\* A prior run is to be rewritten.
LEMMA RewritesFirst ==
  ASSUME NEW r \in Run, NEW q \in Run, q # r, runs'[q] \in {"running", "stale"},
         NEW t, Script(t), Owes(r, t)', version' = 1 => OwesTold(r, t)'
  PROVE  /\ Script(Stales(q) \o t) /\ Owes(r, Stales(q) \o t)'
         /\ version' = 1 => OwesTold(r, Stales(q) \o t)'
  <1> DEFINE a == [op |-> "stale", prior |-> q]
             b == [op |-> "copy", prior |-> q]
             c == [op |-> "overwrite", prior |-> q]
  <1>1. /\ \A x \in {a, b, c} : x \in Rewrites /\ x \in AnyStep /\ x.prior = q
        /\ a.op = "stale" /\ b.op = "copy" /\ c.op = "overwrite" /\ a = Stale(q)
    BY DEF Rewrites, AnyStep, Stale
  <1>2. Stales(q) = <<a, b, c>>
    BY DEF Stales
  <1> HIDE DEF a, b, c
  <1> DEFINE l == <<a, b, c>>
  <1>3. /\ l \in Seq(AnyStep) /\ Len(l) = 3 /\ l[1] = a /\ l[2] = b /\ l[3] = c
        /\ \A i \in 1 .. Len(l) : i = 1 \/ i = 2 \/ i = 3
    BY <1>1
  <1> HIDE DEF l
  <1>4. \A i \in 1 .. Len(l) : l[i] \in Rewrites /\ l[i].prior = q
                               /\ l[i].op \in {"stale", "copy", "overwrite"}
    BY <1>1, <1>3
  <1>5. \A i \in 1 .. Len(l) : l[i].op = "copy" => i + 1 \in 1 .. Len(l) /\ l[i + 1].op = "overwrite"
    BY <1>1, <1>3
  <1>6. ASSUME NEW p \in Run PROVE Guarded(l, Rewrite(p), {Stale(p)})
    <2> SUFFICES ASSUME NEW i \in 1 .. Len(l), l[i] \in Rewrite(p)
                 PROVE  \E j \in 1 .. Len(l) : j < i /\ l[j] \in {Stale(p)}
      BY DEF Guarded
    <2>1. p = q /\ i # 1
      BY <1>1, <1>3, <1>4 DEF Rewrite
    <2>2. 1 \in 1 .. Len(l) /\ 1 < i /\ l[1] = Stale(p)
      BY <1>1, <1>3, <2>1
    <2> QED
      BY <2>2
  <1>7. Insert(l)
    BY <1>3, <1>4, <1>5, <1>6 DEF Insert
  <1>8. ~Holds(l, Clears) /\ ~Holds(l, Told) /\ ~Holds(l, Journals \ Telling)
    BY <1>4, KindByOp DEF Holds, Clears, StepsOf, Told
  <1>9. Script(l \o t) /\ Owes(r, l \o t)'
    BY <1>4, <1>7, InsertScript, InsertOwes
  <1>10. version' = 1 => OwesTold(r, l \o t)'
    BY <1>7, <1>8, InsertTold DEF OwesTold
  <1> QED
    BY <1>2, <1>9, <1>10 DEF l

\* The restart is to be told of.
LEMMA RestartInserts ==
  ASSUME NEW g \in Stages
  PROVE  LET j == Journal("run_restarted", g) IN
         /\ Insert(<<j>>) /\ Insert(<<Op("clear")>> \o <<j>>)
         /\ \A i \in 1 .. Len(<<j>>) : <<j>>[i] \notin Rewrites
         /\ LET l == <<Op("clear")>> \o <<j>> IN \A i \in 1 .. Len(l) : l[i] \notin Rewrites
         /\ ~Holds(<<j>>, Clears) /\ ~Holds(<<j>>, Told) /\ ~Holds(<<j>>, Journals \ Telling)
         /\ Holds(<<j>>, Journals)
  <1> DEFINE j == Journal("run_restarted", g)
             c == Op("clear")
  <1>1. /\ j \in Journals /\ j \in AnyStep /\ j.op = "journal" /\ j.kind = "run_restarted"
        /\ j \in Telling /\ c \in AnyStep /\ c.op = "clear"
    BY KindsOfSteps, KindByOp DEF Events, Telling, PlainOps
  <1> HIDE DEF j, c
  <1>3. ASSUME NEW l \in Seq(AnyStep), \A i \in 1 .. Len(l) : l[i].op \in {"journal", "clear"}
        PROVE  Insert(l) /\ \A i \in 1 .. Len(l) : l[i] \notin Rewrites
    <2>1. \A i \in 1 .. Len(l) : l[i] \notin Rewrites
      BY <1>3, KindByOp
    <2>2. \A q \in Run : ~Holds(l, Rewrite(q))
      BY <2>1 DEF Holds, Rewrite
    <2> QED
      BY <1>3, <2>1, <2>2, Vacuous DEF Insert
  <1>4. <<j>> \in Seq(AnyStep) /\ \A i \in 1 .. Len(<<j>>) : <<j>>[i].op \in {"journal", "clear"}
    BY <1>1
  <1>2. <<c>> \in Seq(AnyStep) /\ \A i \in 1 .. Len(<<c>>) : <<c>>[i].op \in {"journal", "clear"}
    BY <1>1
  <1>5. <<c>> \o <<j>> \in Seq(AnyStep)
        /\ \A i \in 1 .. Len(<<c>> \o <<j>>) : (<<c>> \o <<j>>)[i].op \in {"journal", "clear"}
    BY <1>2, <1>4, Joined
  <1>6. /\ ~Holds(<<j>>, Clears) /\ ~Holds(<<j>>, Told) /\ ~Holds(<<j>>, Journals \ Telling)
        /\ Holds(<<j>>, Journals)
    BY <1>1 DEF Holds, Clears, StepsOf, Told
  <1> QED
    BY <1>3, <1>4, <1>5, <1>6 DEF j, c

\* What the insertion of an event records.
LEMMA Writing ==
  ASSUME RecordsTyped, NEW r \in Run, NEW k \in Events \cup {"observation"}, NEW g \in Stages,
         Write(r, k, g)
  PROVE  /\ journal'[r] # <<>> /\ DOMAIN journal' = Run
         /\ journal'[r] \in Seq([kind : Events \cup {"observation"}, stage : Stages])
         /\ journal'[r][1] = IF journal[r] = <<>> THEN [kind |-> k, stage |-> g] ELSE journal[r][1]
         /\ Kinds(r)' = Kinds(r) \cup {k}
         /\ \A q \in Run \ {r} : journal'[q] = journal[q] /\ Kinds(q)' = Kinds(q)
  <1> DEFINE J == [kind : Events \cup {"observation"}, stage : Stages]
             e == [kind |-> k, stage |-> g]
  <1>1. journal[r] \in Seq(J) /\ e \in J /\ DOMAIN journal = Run
    BY DEF RecordsTyped
  <1>2. journal' = [journal EXCEPT ![r] = Append(journal[r], e)]
    BY DEF Write
  <1>3. e.kind = k
    OBVIOUS
  <1> HIDE DEF J, e
  <1>4. journal'[r] = Append(journal[r], e) /\ DOMAIN journal' = Run
        /\ \A q \in Run \ {r} : journal'[q] = journal[q]
    BY <1>1, <1>2
  <1>5. PICK s, n : s = journal[r] /\ n = Append(s, e) /\ n = journal'[r]
    BY <1>4
  <1>6. /\ s \in Seq(J) /\ n \in Seq(J) /\ Len(s) \in Nat /\ Len(n) = Len(s) + 1
        /\ n[Len(s) + 1] = e /\ \A i \in 1 .. Len(s) : n[i] = s[i]
    <2>1. s \in Seq(J) /\ e \in J
      BY <1>1, <1>5
    <2>2. Append(s, e) \in Seq(J) /\ Len(Append(s, e)) = Len(s) + 1
          /\ Append(s, e)[Len(s) + 1] = e /\ \A i \in 1 .. Len(s) : Append(s, e)[i] = s[i]
      BY <2>1, AppendProperties
    <2> QED
      BY <1>5, <2>1, <2>2
  <1>7. n # <<>>
    BY <1>6, EmptySeq
  <1>8. n[1] = IF s = <<>> THEN e ELSE s[1]
    BY <1>6, EmptySeq
  <1>9. /\ Kinds(r) = {s[i].kind : i \in 1 .. Len(s)}
        /\ Kinds(r)' = {n[i].kind : i \in 1 .. Len(n)}
    <2>1. DOMAIN s = 1 .. Len(s) /\ DOMAIN n = 1 .. Len(n)
      BY <1>6
    <2> QED
      BY <1>5, <2>1 DEF Kinds
  <1>10. {n[i].kind : i \in 1 .. Len(n)} = {s[i].kind : i \in 1 .. Len(s)} \cup {k}
    <2>1. \A i \in 1 .. Len(n) : i \in 1 .. Len(s) \/ i = Len(s) + 1
      BY <1>6
    <2>2. \A i \in 1 .. Len(s) : i \in 1 .. Len(n)
      BY <1>6
    <2>3. Len(s) + 1 \in 1 .. Len(n)
      BY <1>6
    <2>4. n[Len(s) + 1].kind = k
      BY <1>3, <1>6
    <2>5. \A i \in 1 .. Len(s) : n[i].kind = s[i].kind
      BY <1>6
    <2> QED
      BY <2>1, <2>2, <2>3, <2>4, <2>5
  <1>11. \A q \in Run \ {r} : Kinds(q)' = Kinds(q)
    BY <1>4 DEF Kinds
  <1> QED
    BY <1>4, <1>5, <1>6, <1>7, <1>8, <1>9, <1>10, <1>11 DEF J, e

LEMMA StartPrograms ==
  ASSUME RecordsAssumption, RecordsTyped, OneAtATime, NEW r \in Run, StartRun(r)
  PROVE  Programs'
  <1>0. PICK p : p = Opens \o Handler
    OBVIOUS
  <1>1. /\ Script(p) /\ ~Holds(p, Rewrites) /\ ~Holds(p, EndTracks)
        /\ Holds(p, StepsOf({"try"}))
        /\ Guarded(p, AnyStep \ Early, Writes)
        /\ Guarded(p, Later, Journals)
        /\ Guarded(p, Journals \ Telling, Journals \cup Restarts)
        /\ Guarded(p, Clears, EndEvents)
        /\ Guarded(p, Told, Checkpoints)
        /\ Then(p, Clears, AnyStep \ Told)
    BY <1>0, FreshShape
  <1>2. todo' = [todo EXCEPT ![r] = p] /\ \A q \in Run : ~Live(q)
    BY <1>0 DEF StartRun
  <1>3. \A q \in Run : ~Holds(p, Rewrite(q))
    BY <1>1 DEF Holds, Rewrite
  <1>4. \A i \in 1 .. Len(p) : p[i] \notin Rewrites
    BY <1>1 DEF Holds
  <1>5. \A e \in EndStates : ~Holds(p, {Track(e)})
    BY <1>1, KindsOfSteps DEF Holds, EndTracks, EndStates
  <1>6. Owes(r, p)'
    <2>1. runs'[r] = "none"
      BY DEF StartRun, records
    <2> QED
      BY <1>1, <1>3, <1>4, <1>5, <2>1, Vacuous DEF Owes
  <1>7. OwesTold(r, p)'
    BY <1>1 DEF OwesTold
  <1> QED
    BY <1>1, <1>2, <1>6, <1>7, OthersRest

LEMMA ListPrograms ==
  ASSUME RecordsAssumption, RecordsTyped, OneAtATime, Programs, NEW r \in Run, ListPriors(r)
  PROVE  Programs'
  <1> DEFINE listed == {q \in Run \ {r} : runs[q] = "running"}
             two == \E q1, q2 \in listed : q1 # q2
             n == Cardinality(listed)
  <1>1. PICK t : t = Tail(todo[r])
    OBVIOUS
  <1>2. Live(r) /\ Head(todo[r]).op = "priors"
        /\ UNCHANGED <<runs, journal, checkpoint, declared, version>>
    BY DEF ListPriors, At, records, past
  <1>3. Script(t) /\ Owes(r, t)' /\ (version' = 1 => OwesTold(r, t)')
    <2>1. PICK u : u = todo[r]
      OBVIOUS
    <2>2. u # <<>> /\ Script(u) /\ Owes(r, u) /\ (version = 1 => OwesTold(r, u)) /\ Head(u).op = "priors"
      BY <1>2, <2>1 DEF Programs, Live
    <2>3. Script(Tail(u)) /\ Owes(r, Tail(u))' /\ (version' = 1 => OwesTold(r, Tail(u))')
      BY <1>2, <2>2, Onward
    <2>4. t = Tail(u)
      BY <1>1, <2>1
    <2> QED
      BY <2>3, <2>4 DEF Owes, OwesTold
  <1>4. PICK s \in [1 .. n -> listed] :
           /\ {s[i] : i \in DOMAIN s} = listed
           /\ todo' = [todo EXCEPT ![r] = (IF s = <<>> THEN <<>>
                                           ELSE IF two THEN Stales(s[1]) \o Stales(s[2])
                                           ELSE Stales(s[1])) \o t]
    BY <1>1 DEF ListPriors, Becomes
  <1>5. n \in Nat
    <2>1. IsFiniteSet(1 .. MaxRuns)
      BY FS_Interval DEF RecordsAssumption
    <2>2. IsFiniteSet(listed)
      BY <2>1, FS_Subset DEF Run
    <2> QED
      BY <2>2, FS_CardinalityType
  <1>6. \A q \in listed : q \in Run /\ q # r /\ runs'[q] \in {"running", "stale"}
    BY <1>2
  <1>7. \A q \in listed : Stales(q) \in Seq(AnyStep)
    BY DEF Stales, AnyStep, Rewrites
  <1> HIDE DEF listed, n
  <1>8. s = <<>> \/ 1 \in 1 .. n
    <2>1. n = 0 => s = <<>>
      <3> SUFFICES ASSUME n = 0 PROVE s = <<>>
        OBVIOUS
      <3>1. s \in [1 .. 0 -> listed]
        BY <1>4
      <3>2. s \in Seq(listed) /\ Len(s) = 0
        BY <3>1
      <3> QED
        BY <3>2, EmptySeq
    <2> QED
      BY <1>5, <2>1
  <1>9. two => 2 \in 1 .. n
    <2> SUFFICES ASSUME NEW q1 \in listed, NEW q2 \in listed, q1 # q2 PROVE 2 \in 1 .. n
      OBVIOUS
    <2>1. DOMAIN s = 1 .. n
      BY <1>4
    <2>2. PICK i1 \in 1 .. n : s[i1] = q1
      BY <1>4, <2>1
    <2>3. PICK i2 \in 1 .. n : s[i2] = q2
      BY <1>4, <2>1
    <2>4. i1 # i2
      BY <2>2, <2>3
    <2> QED
      BY <1>5, <2>2, <2>3, <2>4
  <1>10. \A i \in 1 .. n : s[i] \in listed
    BY <1>4
  <1> HIDE DEF two
  <1>11. CASE s = <<>>
    <2>1. t \in Seq(AnyStep)
      BY <1>3 DEF Script
    <2>2. todo' = [todo EXCEPT ![r] = <<>> \o t]
      BY <1>4, <1>11
    <2>3. todo' = [todo EXCEPT ![r] = t]
      BY <2>1, <2>2, ConcatEmptySeq
    <2> QED
      BY <1>2, <1>3, <2>3, OthersRest
  <1>12. CASE s # <<>> /\ ~two
    <2>1. s[1] \in listed
      BY <1>8, <1>10, <1>12
    <2>2. PICK q : q = s[1]
      OBVIOUS
    <2>3. Script(Stales(q) \o t) /\ Owes(r, Stales(q) \o t)'
          /\ (version' = 1 => OwesTold(r, Stales(q) \o t)')
      BY <1>3, <1>6, <2>1, <2>2, RewritesFirst
    <2>4. todo' = [todo EXCEPT ![r] = Stales(q) \o t]
      BY <1>4, <1>12, <2>2
    <2> QED
      BY <1>2, <2>3, <2>4, OthersRest
  <1>13. CASE s # <<>> /\ two
    <2>1. s[1] \in listed /\ s[2] \in listed
      BY <1>8, <1>9, <1>10, <1>13
    <2>2. PICK a, b : a = s[1] /\ b = s[2]
      OBVIOUS
    <2>3. Script(Stales(b) \o t) /\ Owes(r, Stales(b) \o t)'
          /\ (version' = 1 => OwesTold(r, Stales(b) \o t)')
      BY <1>3, <1>6, <2>1, <2>2, RewritesFirst
    <2>4. PICK u : u = Stales(b) \o t
      OBVIOUS
    <2>5. Script(u) /\ Owes(r, u)' /\ (version' = 1 => OwesTold(r, u)')
      BY <2>3, <2>4 DEF Owes, OwesTold
    <2>6. Script(Stales(a) \o u) /\ Owes(r, Stales(a) \o u)'
          /\ (version' = 1 => OwesTold(r, Stales(a) \o u)')
      BY <1>6, <2>1, <2>2, <2>5, RewritesFirst
    <2>7. Stales(a) \in Seq(AnyStep) /\ Stales(b) \in Seq(AnyStep) /\ t \in Seq(AnyStep)
      BY <1>3, <1>7, <2>1, <2>2 DEF Script
    <2>8. (Stales(a) \o Stales(b)) \o t = Stales(a) \o u
      <3>1. \A x, y, z \in Seq(AnyStep) : (x \o y) \o z = x \o (y \o z)
        BY ConcatAssociative
      <3> QED
        BY <2>4, <2>7, <3>1
    <2>9. todo' = [todo EXCEPT ![r] = (Stales(a) \o Stales(b)) \o t]
      BY <1>4, <1>13, <2>2
    <2>10. todo' = [todo EXCEPT ![r] = Stales(a) \o u]
      BY <2>8, <2>9
    <2> QED
      BY <1>2, <2>6, <2>10, OthersRest
  <1> QED
    BY <1>11, <1>12, <1>13

LEMMA DrainPrograms ==
  ASSUME RecordsAssumption, RecordsTyped, OneAtATime, Programs, NEW r \in Run, DrainStep(r)
  PROVE  Programs'
  <1>1. CASE StartRun(r)
    BY <1>1, StartPrograms
  <1>2. CASE ListPriors(r)
    BY <1>2, ListPrograms
  <1>3. ASSUME StalePrior(r) PROVE Programs'
    <2>1. Live(r) /\ Step(r).op = "stale" /\ Step(r) \in AnyStep /\ Step(r) \in Rewrites
      BY <1>3, HeadFacts, KindByOp DEF StalePrior, At, Step
    <2>2. Step(r).prior \in Run \ {r}
      BY <2>1, HeadFacts
    <2>3. /\ todo' = [todo EXCEPT ![r] = Tail(todo[r])]
          /\ declared' = declared \cup {Step(r).prior}
          /\ runs' = [runs EXCEPT ![Step(r).prior] = "stale"]
          /\ UNCHANGED <<journal, checkpoint, version>>
      BY <1>3 DEF StalePrior, Next1, Becomes
    <2>4. runs'[r] = runs[r] /\ \A q \in Run \ {r} :
             runs[q] \in {"running", "stale"} => runs'[q] \in {"running", "stale"}
      BY <2>2, <2>3 DEF RecordsTyped
    <2>5. Step(r) \notin EndEvents
      BY <2>1, KindByOp DEF EndEvents
    <2>6. (Kinds(r) \cap Ends)' = Kinds(r) \cap Ends
      BY <2>3 DEF Kinds
    <2> QED
      BY <2>1, <2>3, <2>4, <2>5, <2>6, Continues
  <1>4. ASSUME CopyTracked(r) PROVE Programs'
    <2>1. /\ Live(r) /\ Step(r).op = "copy"
          /\ UNCHANGED <<runs, journal, checkpoint, declared, version>>
      BY <1>4 DEF CopyTracked, At, Step, records, past
    <2>2. CASE todo' = [todo EXCEPT ![r] = Tail(todo[r])]
      BY <2>1, <2>2, ContinuesPlain
    <2>3. CASE todo' = [todo EXCEPT ![r] = Tail(Tail(todo[r]))]
      <3>1. PICK t, u, w : t = todo[r] /\ u = Tail(t) /\ w = Tail(u)
        OBVIOUS
      <3>2. t # <<>> /\ Script(t) /\ Owes(r, t) /\ (version = 1 => OwesTold(r, t)) /\ Head(t).op = "copy"
        BY <2>1, <3>1 DEF Programs, Live, Step
      <3>3. Script(u) /\ Owes(r, u) /\ (version = 1 => OwesTold(r, u))
        BY <2>1, <3>1, <3>2, Onward
      <3>4. u # <<>> /\ Head(u).op = "overwrite"
        <4>1. t \in Seq(AnyStep) /\ u \in Seq(AnyStep)
          BY <3>2, <3>3 DEF Script
        <4>2. t[1].op = "copy" /\ 1 \in 1 .. Len(t)
          BY <3>2, <4>1, TailOf
        <4>3. 1 + 1 \in 1 .. Len(t) /\ t[1 + 1].op = "overwrite"
          BY <3>2, <4>2 DEF Script
        <4>4. 1 \in 1 .. Len(u) /\ u[1].op = "overwrite"
          BY <3>1, <3>2, <4>1, <4>3, TailOf
        <4>5. u # <<>>
          BY <4>1, <4>4, EmptySeq
        <4> QED
          BY <4>1, <4>4, <4>5, TailOf
      <3>5. Script(Tail(u)) /\ Owes(r, Tail(u))' /\ (version' = 1 => OwesTold(r, Tail(u))')
        BY <2>1, <3>3, <3>4, Onward
      <3>6. Script(w) /\ Owes(r, w)' /\ (version' = 1 => OwesTold(r, w)')
        BY <3>1, <3>5 DEF Owes, OwesTold
      <3>7. todo' = [todo EXCEPT ![r] = w]
        BY <2>3, <3>1
      <3> QED
        BY <2>1, <3>6, <3>7, OthersRest
    <2> QED
      BY <1>4, <2>2, <2>3 DEF CopyTracked, Next1, Becomes
  <1>5. CASE OverwriteTracked(r)
    BY <1>5, ContinuesPlain DEF OverwriteTracked, At, Step, Next1, Becomes, records, past
  <1>6. ASSUME WriteRunRow(r) PROVE Programs'
    <2>1. /\ Live(r) /\ Step(r).op = "write"
          /\ todo' = [todo EXCEPT ![r] = Tail(todo[r])]
          /\ runs' = [runs EXCEPT ![r] = Step(r).state]
          /\ UNCHANGED <<journal, checkpoint, version, declared>>
      BY <1>6 DEF WriteRunRow, At, Step, Next1, Becomes, past
    <2>2. runs'[r] = Step(r).state /\ \A q \in Run \ {r} : runs'[q] = runs[q]
      BY <2>1 DEF RecordsTyped
    <2>3. Step(r) \notin EndEvents
      BY <2>1, KindByOp DEF EndEvents
    <2>4. (Kinds(r) \cap Ends)' = Kinds(r) \cap Ends
      BY <2>1 DEF Kinds
    <2> QED
      BY <2>1, <2>2, <2>3, <2>4, Continues
  <1>7. CASE TrackRun(r)
    BY <1>7, ContinuesPlain DEF TrackRun, At, Step, Next1, Becomes, records, past
  <1>8. ASSUME CheckBeforeHandler(r) PROVE Programs'
    <2>1. /\ Live(r) /\ Step(r).op = "check"
          /\ UNCHANGED <<runs, journal, checkpoint, declared, version>>
      BY <1>8 DEF CheckBeforeHandler, At, Step, records, past
    <2>2. CASE todo' = [todo EXCEPT ![r] = Tail(todo[r])]
      BY <2>1, <2>2, ContinuesPlain
    <2>3. CASE todo' = [todo EXCEPT ![r] = Terminates]
      <3>1. runs'[r] # "none"
        BY <2>1, HeadFacts
      <3> QED
        BY <2>1, <2>3, <3>1, EndingPrograms, Turns
    <2> QED
      BY <1>8, <2>2, <2>3 DEF CheckBeforeHandler, Next1, Becomes
  <1>9. CASE EnterTry(r)
    BY <1>9, ContinuesPlain DEF EnterTry, At, Step, Next1, Becomes, records, past
  <1>10. CASE AckBatch(r)
    BY <1>10, ContinuesPlain DEF AckBatch, At, Step, Next1, Becomes, past
  <1>11. CASE MarkFailed(r)
    BY <1>11, ContinuesPlain DEF MarkFailed, At, Step, Next1, Becomes, past
  <1> QED
    BY <1>1, <1>2, <1>3, <1>4, <1>5, <1>6, <1>7, <1>8, <1>9, <1>10, <1>11 DEF DrainStep

LEMMA InsertPrograms ==
  ASSUME RecordsTyped, OneAtATime, Programs, NEW r \in Run, InsertEvent(r)
  PROVE  Programs'
  <1>1. /\ Live(r) /\ Step(r).op = "journal" /\ Step(r) \in Journals
        /\ UNCHANGED <<runs, checkpoint, version, declared>> /\ runs[r] # "none"
    <2>1. Live(r) /\ Step(r).op = "journal"
      BY DEF InsertEvent, At, Step
    <2> QED
      BY <2>1, HeadFacts, KindByOp DEF InsertEvent, past
  <1>2. ASSUME Write(r, Step(r).kind, Step(r).stage), Next1(r)
        PROVE  Programs'
    <2>1. Step(r).kind \in Events /\ Step(r).stage \in Stages
      BY <1>1 DEF Journals
    <2>2. journal'[r] # <<>> /\ Kinds(r)' = Kinds(r) \cup {Step(r).kind}
      BY <1>2, <2>1, Writing
    <2>3. Kinds(r) \cap Ends # {} \/ Step(r) \in EndEvents => (Kinds(r) \cap Ends)' # {}
      BY <2>2 DEF EndEvents, Ends
    <2>4. todo' = [todo EXCEPT ![r] = Tail(todo[r])]
      BY <1>2 DEF Next1, Becomes
    <2> QED
      BY <1>1, <2>2, <2>3, <2>4, Continues
  <1>3. CASE Raise(r) /\ UNCHANGED journal
    BY <1>1, <1>3, Raises
  <1> QED
    BY <1>2, <1>3 DEF InsertEvent

LEMMA RestartPrograms ==
  ASSUME RecordsTyped, OneAtATime, Programs, ToldInv, NEW r \in Run, RecordRestart(r)
  PROVE  Programs'
  <1>1. PICK t, u, g, j : /\ t = todo[r] /\ u = Tail(t) /\ g = checkpoint.stage
                          /\ j = Journal("run_restarted", g)
    OBVIOUS
  <1>2. /\ Live(r) /\ Step(r).op = "restart" /\ g \in Stages /\ runs[r] # "none"
        /\ UNCHANGED <<runs, journal, checkpoint, version, declared>>
    <2>1. Live(r) /\ Step(r).op = "restart" /\ UNCHANGED <<runs, journal, checkpoint, version, declared>>
      BY DEF RecordRestart, At, Step, records, past
    <2>2. g \in Stages
      BY <1>1 DEF RecordsTyped
    <2> QED
      BY <2>1, <2>2, HeadFacts
  <1>3. t # <<>> /\ Script(t) /\ Owes(r, t) /\ (version = 1 => OwesTold(r, t)) /\ Head(t).op = "restart"
        /\ Head(t) = Step(r)
    BY <1>1, <1>2 DEF Programs, Live, Step
  <1>4. Script(u) /\ Owes(r, u)'
    <2>1. Script(Tail(t)) /\ Owes(r, Tail(t))'
      BY <1>2, <1>3, ScriptTail, Advances
    <2> QED
      BY <1>1, <2>1 DEF Owes
  <1>5. (Kinds(r) \cap Ends)' = Kinds(r) \cap Ends
    BY <1>2 DEF Kinds
  <1>6. Step(r) \notin EndEvents /\ Step(r) \notin Checkpoints /\ Step(r) \notin Clears
    BY <1>2, KindByOp DEF EndEvents, Checkpoints, Clears, StepsOf
  <1>7. CASE checkpoint = NoCheckpoint
    <2>1. todo' = [todo EXCEPT ![r] = <<>> \o Tail(todo[r])]
      BY <1>7 DEF RecordRestart, Becomes
    <2>2. Tail(todo[r]) \in Seq(AnyStep)
      BY <1>1, <1>4 DEF Script
    <2>3. todo' = [todo EXCEPT ![r] = Tail(todo[r])]
      BY <2>1, <2>2, ConcatEmptySeq
    <2> QED
      BY <1>2, <1>5, <1>6, <1>7, <2>3, Continues
  <1>8. ASSUME checkpoint # NoCheckpoint, checkpoint.version = version PROVE Programs'
    <2>1. todo' = [todo EXCEPT ![r] = <<j>> \o u]
      BY <1>1, <1>8 DEF RecordRestart, Becomes
    <2>2. /\ Insert(<<j>>) /\ \A i \in 1 .. Len(<<j>>) : <<j>>[i] \notin Rewrites
          /\ ~Holds(<<j>>, Clears) /\ ~Holds(<<j>>, Told) /\ ~Holds(<<j>>, Journals \ Telling)
          /\ Holds(<<j>>, Journals)
      BY <1>1, <1>2, RestartInserts
    <2>3. PICK l : l = <<j>>
      OBVIOUS
    <2>4. /\ Insert(l) /\ \A i \in 1 .. Len(l) : l[i] \notin Rewrites
          /\ ~Holds(l, Clears) /\ ~Holds(l, Told) /\ ~Holds(l, Journals \ Telling)
          /\ Holds(l, Journals)
      BY <2>2, <2>3
    <2>5. Script(l \o u) /\ Owes(r, l \o u)'
      BY <1>2, <1>4, <2>4, InsertScript, InsertOwes
    <2>6. ASSUME version = 1 PROVE OwesTold(r, l \o u)'
      <3>1. OwesTold(r, t) /\ t \in Seq(AnyStep)
        BY <1>3, <2>6 DEF Script
      <3>2. (Kinds(r) \cap Ends)' # {} \/ Guarded(u, Clears, EndEvents)
        BY <1>1, <1>3, <1>5, <1>6, <3>1, GuardedTail DEF OwesTold
      <3>3. checkpoint' # NoCheckpoint
        BY <1>2, <1>8
      <3>4. Then(u, Clears, AnyStep \ Told)
        BY <1>1, <1>3, <3>1, ThenTail DEF OwesTold
      <3> QED
        BY <1>4, <2>4, <3>2, <3>3, <3>4, InsertTold
    <2>7. todo' = [todo EXCEPT ![r] = l \o u]
      BY <2>1, <2>3
    <2> QED
      BY <1>2, <2>5, <2>6, <2>7, OthersRest
  <1>9. ASSUME checkpoint # NoCheckpoint, checkpoint.version # version PROVE Programs'
    <2>1. todo' = [todo EXCEPT ![r] = (<<Op("clear")>> \o <<j>>) \o u]
      BY <1>1, <1>9 DEF RecordRestart, Becomes
    <2>2. LET k == <<Op("clear")>> \o <<j>> IN
          Insert(k) /\ \A i \in 1 .. Len(k) : k[i] \notin Rewrites
      BY <1>1, <1>2, RestartInserts
    <2>3. PICK l : l = <<Op("clear")>> \o <<j>>
      OBVIOUS
    <2>4. Insert(l) /\ \A i \in 1 .. Len(l) : l[i] \notin Rewrites
      BY <2>2, <2>3
    <2>5. Script(l \o u) /\ Owes(r, l \o u)'
      BY <1>2, <1>4, <2>4, InsertScript, InsertOwes
    <2>6. version # 1
      BY <1>9 DEF ToldInv
    <2>7. todo' = [todo EXCEPT ![r] = l \o u]
      BY <2>1, <2>3
    <2> QED
      BY <1>2, <2>5, <2>6, <2>7, OthersRest
  <1> QED
    BY <1>7, <1>8, <1>9

LEMMA HandlerPrograms ==
  ASSUME RecordsTyped, OneAtATime, Programs, ToldInv, NEW r \in Run, HandlerStep(r)
  PROVE  Programs'
  <1>1. CASE ReadSequence(r)
    BY <1>1, Stays DEF ReadSequence, records, past, Kinds
  <1>2. CASE InsertEvent(r)
    BY <1>2, InsertPrograms
  <1>3. ASSUME WriteCheckpoint(r) PROVE Programs'
    <2>1. /\ Live(r) /\ Step(r).op = "checkpoint"
          /\ todo' = [todo EXCEPT ![r] = Tail(todo[r])]
          /\ checkpoint' = [stage |-> Step(r).stage, version |-> version]
          /\ UNCHANGED <<runs, journal, version, declared>>
      BY <1>3 DEF WriteCheckpoint, At, Step, Next1, Becomes, past
    <2>2. checkpoint' # NoCheckpoint
      <3>1. checkpoint'.version # NoCheckpoint.version
        BY <2>1 DEF RecordsTyped, Versions, NoCheckpoint
      <3> QED
        BY <3>1
    <2>3. Step(r) \notin EndEvents
      BY <2>1, KindByOp DEF EndEvents
    <2>4. (Kinds(r) \cap Ends)' = Kinds(r) \cap Ends
      BY <2>1 DEF Kinds
    <2> QED
      BY <2>1, <2>2, <2>3, <2>4, Continues
  <1>4. ASSUME ClearCheckpoint(r) PROVE Programs'
    <2>1. /\ Live(r) /\ Step(r).op = "clear"
          /\ todo' = [todo EXCEPT ![r] = Tail(todo[r])]
          /\ checkpoint' = NoCheckpoint
          /\ UNCHANGED <<runs, journal, version, declared>>
      BY <1>4 DEF ClearCheckpoint, At, Step, Next1, Becomes, past
    <2>2. Step(r) \notin EndEvents
      BY <2>1, KindByOp DEF EndEvents
    <2>3. (Kinds(r) \cap Ends)' = Kinds(r) \cap Ends
      BY <2>1 DEF Kinds
    <2> QED
      BY <2>1, <2>2, <2>3, Continues
  <1>5. CASE RecordRestart(r)
    BY <1>5, RestartPrograms
  <1>6. ASSUME WorkRaises(r) PROVE Programs'
    <2>1. Live(r) /\ Step(r).op \in Works /\ Raise(r) /\ runs' = runs /\ journal' = journal
      BY <1>6 DEF WorkRaises, At, Step, records
    <2>2. runs[r] # "none"
      BY <2>1, HeadFacts DEF Works
    <2> QED
      BY <2>1, <2>2, Raises
  <1>7. CASE WorkReturns(r)
    BY <1>7, ContinuesPlain DEF WorkReturns, At, Step, Next1, Becomes, records, past
  <1>8. ASSUME CompareHead(r) PROVE Programs'
    <2>1. /\ Live(r) /\ Step(r).op = "compare"
          /\ UNCHANGED <<runs, journal, checkpoint, declared, version>>
      BY <1>8 DEF CompareHead, At, Step, records, past
    <2>2. CASE todo' = [todo EXCEPT ![r] = Tail(todo[r])]
      BY <2>1, <2>2, ContinuesPlain
    <2>3. CASE todo' = [todo EXCEPT ![r] = StaleResult]
      <3>1. Step(r) \in Later
        BY <2>1, HeadFacts DEF Later, StepsOf
      <3>2. runs'[r] # "none" /\ journal'[r] # <<>>
        BY <2>1, <3>1, HeadFacts
      <3> QED
        BY <2>1, <2>3, <3>2, EndingPrograms, Turns
    <2> QED
      BY <1>8, <2>2, <2>3 DEF CompareHead, Next1, Becomes
  <1>9. CASE ScenePublishes(r)
    BY <1>9, Stays DEF ScenePublishes, records, worker, past, Kinds
  <1>10. CASE SceneReturns(r)
    BY <1>10, ContinuesPlain DEF SceneReturns, At, Step, Next1, Becomes, records
  <1>11. ASSUME SceneTerminated(r) PROVE Programs'
    <2>1. /\ Live(r) /\ Step(r).op = "scene"
          /\ UNCHANGED <<runs, journal, checkpoint, declared, version>>
          /\ todo' = [todo EXCEPT ![r] = OnTermination \o Terminates]
      BY <1>11 DEF SceneTerminated, At, Step, records, past, Becomes
    <2>2. Step(r) \in Later
      BY <2>1, HeadFacts DEF Later, StepsOf
    <2>3. runs'[r] # "none" /\ journal'[r] # <<>>
      BY <2>1, <2>2, HeadFacts
    <2> QED
      BY <2>1, <2>3, EndingPrograms, Turns
  <1>12. ASSUME LeaveHandler(r) PROVE Programs'
    <2>1. UNCHANGED <<runs, journal, checkpoint, declared, version>>
      BY <1>12 DEF LeaveHandler, records, past
    <2>2. CASE At(r, "raise") /\ Next1(r)
      BY <2>1, <2>2, ContinuesPlain DEF At, Step, Next1, Becomes
    <2>3. ASSUME At(r, "leave"), NEW e \in EndStates, todo' = [todo EXCEPT ![r] = Returns(e)]
          PROVE  Programs'
      <3>1. Live(r) /\ Step(r).op = "leave"
        BY <2>3 DEF At, Step
      <3>2. runs'[r] # "none"
        BY <2>1, <3>1, HeadFacts
      <3>3. Ending(Returns(e)) /\ ~Holds(Returns(e), Journals)
        BY EndingPrograms
      <3>4. ~Holds(Returns(e), Journals \ Telling)
        BY <3>3 DEF Holds
      <3>5. Guarded(Returns(e), Journals \ Telling, Journals \cup Restarts)
        BY <3>4, Vacuous
      <3> QED
        BY <2>3, <3>1, <3>2, <3>3, <3>5, Turns
    <2>4. "succeeded" \in EndStates /\ "stale" \in EndStates
      BY DEF EndStates
    <2> QED
      BY <1>12, <2>2, <2>3, <2>4 DEF LeaveHandler, Becomes
  <1>13. CASE ScheduleObservation(r)
    BY <1>13, Stays DEF ScheduleObservation, records, Kinds
  <1> QED
    BY <1>1, <1>2, <1>3, <1>4, <1>5, <1>6, <1>7, <1>8, <1>9, <1>10, <1>11, <1>12, <1>13 DEF HandlerStep

LEMMA ProgramsStep ==
  ASSUME RecordsAssumption, RecordsInv, [RecordsNext]_recordVars
  PROVE  Programs'
  <1> USE DEF RecordsInv
  <1>1. ASSUME NEW r \in Run, DrainStep(r) PROVE Programs'
    BY <1>1, DrainPrograms
  <1>2. ASSUME NEW r \in Run, HandlerStep(r) PROVE Programs'
    BY <1>2, HandlerPrograms
  <1>3. ASSUME NEW r \in Run, Observe(r) PROVE Programs'
    <2>1. UNCHANGED <<todo, runs, declared, version, checkpoint>>
      BY <1>3 DEF Observe, past
    <2>2. CASE Write(r, "observation", "scene_execute")
      <3>1. "observation" \in Events \cup {"observation"} /\ "scene_execute" \in Stages
        BY DEF Stages
      <3>2. /\ journal'[r] # <<>> /\ Kinds(r)' = Kinds(r) \cup {"observation"}
            /\ \A q \in Run \ {r} : journal'[q] = journal[q] /\ Kinds(q)' = Kinds(q)
        BY <2>2, <3>1, Writing
      <3>3. \A q \in Run : Kinds(q) \cap Ends # {} => Kinds(q)' \cap Ends # {}
        BY <3>2
      <3>4. Ends' = Ends
        BY DEF Ends
      <3> QED
        BY <2>1, <3>2, <3>3, <3>4, Stays
    <2>3. CASE UNCHANGED journal
      BY <2>1, <2>3, Stays DEF Kinds
    <2> QED
      BY <1>3, <2>2, <2>3 DEF Observe
  <1>4. ASSUME NEW r \in Run, RequestTermination(r) PROVE Programs'
    BY <1>4, Stays DEF RequestTermination, worker, past, Kinds
  <1>5. ASSUME NEW f \in Feedback, MatchFeedback(f) \/ AppendFeedback(f) PROVE Programs'
    BY <1>5, Stays DEF MatchFeedback, AppendFeedback, records, worker, past, Kinds
  <1>6. CASE WorkerDies
    <2>1. \A q \in Run : todo'[q] = <<>>
      BY <1>6 DEF WorkerDies
    <2>2. PICK t : t = <<>>
      OBVIOUS
    <2>3. \A q \in Run : Script(t) /\ Owes(q, t)' /\ OwesTold(q, t)'
      BY <2>2, NothingIsOwed
    <2>4. ASSUME NEW q \in Run
          PROVE  Script(todo[q])' /\ Owes(q, todo[q])' /\ (version' = 1 => OwesTold(q, todo[q])')
      <3>1. todo'[q] = t
        BY <2>1, <2>2
      <3>2. Script(t) /\ Owes(q, t)' /\ OwesTold(q, t)'
        BY <2>3
      <3> QED
        BY <3>1, <3>2 DEF Script, Owes, OwesTold
    <2> QED
      BY <2>4 DEF Programs
  <1>7. CASE UNCHANGED recordVars
    BY <1>7, Stays DEF recordVars, records, worker, past, Kinds
  <1> QED
    BY <1>1, <1>2, <1>3, <1>4, <1>5, <1>6, <1>7 DEF RecordsNext

-----------------------------------------------------------------------------
(* What a step changes *)

\* The programs of the runs move one at a time, those that are at work.
LEMMA Moves ==
  ASSUME RecordsTyped, [RecordsNext]_recordVars
  PROVE  /\ DOMAIN todo' = Run /\ todo' = [r \in Run |-> todo'[r]]
         /\ \/ \E r \in Run : StartRun(r)
            \/ \A q \in Run : todo[q] = <<>> => todo'[q] = <<>>
  <1> DEFINE Moved == /\ DOMAIN todo' = Run /\ todo' = [r \in Run |-> todo'[r]]
                      /\ \A q \in Run : todo[q] = <<>> => todo'[q] = <<>>
  <1>1. ASSUME NEW r \in Run, NEW p, todo[r] # <<>>, todo' = [todo EXCEPT ![r] = p]
        PROVE  Moved
    BY <1>1 DEF RecordsTyped
  <1>2. CASE UNCHANGED todo
    BY <1>2 DEF RecordsTyped
  <1>3. ASSUME NEW r \in Run, DrainStep(r), ~StartRun(r) PROVE Moved
    <2>1. \E p : todo[r] # <<>> /\ todo' = [todo EXCEPT ![r] = p]
      <3>1. CASE CheckBeforeHandler(r)
        BY <3>1 DEF CheckBeforeHandler, At, Live, Becomes, Next1
      <3>2. CASE CopyTracked(r)
        BY <3>2 DEF CopyTracked, At, Live, Becomes, Next1
      <3>3. CASE ListPriors(r)
        BY <3>3 DEF ListPriors, At, Live, Becomes
      <3> QED
        BY <1>3, <3>1, <3>2, <3>3
        DEF DrainStep, StalePrior, OverwriteTracked, WriteRunRow, TrackRun, EnterTry, AckBatch,
            MarkFailed, At, Live, Becomes, Next1
    <2> QED
      BY <1>1, <2>1
  <1>4. ASSUME NEW r \in Run, HandlerStep(r) PROVE Moved
    <2>1. CASE UNCHANGED todo
      BY <1>2, <2>1
    <2>2. ASSUME ~UNCHANGED todo PROVE \E p : todo[r] # <<>> /\ todo' = [todo EXCEPT ![r] = p]
      <3>1. CASE InsertEvent(r)
        BY <3>1 DEF InsertEvent, At, Live, Becomes, Next1, Raise
      <3>2. CASE RecordRestart(r)
        BY <3>2 DEF RecordRestart, At, Live, Becomes
      <3>3. CASE WorkRaises(r) \/ WorkReturns(r) \/ CompareHead(r) \/ LeaveHandler(r)
        BY <3>3 DEF WorkRaises, WorkReturns, CompareHead, LeaveHandler, At, Live, Becomes, Next1,
                    Raise
      <3>4. CASE WriteCheckpoint(r) \/ ClearCheckpoint(r) \/ SceneReturns(r) \/ SceneTerminated(r)
        BY <3>4 DEF WriteCheckpoint, ClearCheckpoint, SceneReturns, SceneTerminated, At, Live,
                    Becomes, Next1
      <3> QED
        BY <1>4, <2>2, <3>1, <3>2, <3>3, <3>4
        DEF HandlerStep, ReadSequence, ScenePublishes, ScheduleObservation, worker
    <2> QED
      BY <1>1, <2>1, <2>2
  <1>5. ASSUME NEW r \in Run, StartRun(r)
        PROVE  DOMAIN todo' = Run /\ todo' = [q \in Run |-> todo'[q]]
    BY <1>5 DEF StartRun, RecordsTyped
  <1>6. ASSUME NEW r \in Run, Observe(r) \/ RequestTermination(r) PROVE UNCHANGED todo
    BY <1>6 DEF Observe, RequestTermination, worker
  <1>7. ASSUME NEW f \in Feedback, MatchFeedback(f) \/ AppendFeedback(f) PROVE UNCHANGED todo
    BY <1>7 DEF MatchFeedback, AppendFeedback, worker
  <1>8. CASE WorkerDies
    BY <1>8 DEF WorkerDies
  <1>9. CASE UNCHANGED recordVars
    BY <1>2, <1>9 DEF recordVars, worker
  <1> QED
    BY <1>2, <1>3, <1>4, <1>5, <1>6, <1>7, <1>8, <1>9 DEF RecordsNext

LEMMA TypedStep ==
  ASSUME RecordsAssumption, RecordsInv, [RecordsNext]_recordVars
  PROVE  RecordsTyped'
  <1> USE DEF RecordsInv
  <1>1. todo' \in [Run -> Seq(AnyStep)]
    <2>1. Programs'
      BY ProgramsStep
    <2>2. \A r \in Run : todo'[r] \in Seq(AnyStep)
      BY <2>1 DEF Programs, Script
    <2> QED
      BY <2>2, Moves
  <1>2. ASSUME NEW r \in Run, DrainStep(r) PROVE RecordsTyped'
    <2>1. CASE StartRun(r)
      BY <1>1, <2>1 DEF StartRun, records, plane, web, RecordsTyped
    <2>2. CASE ListPriors(r)
      BY <1>1, <2>2 DEF ListPriors, records, plane, web, past, RecordsTyped
    <2>3. ASSUME StalePrior(r) PROVE RecordsTyped'
      <3>1. Live(r) /\ Step(r).op = "stale" /\ Step(r) \in Rewrites
        BY <2>3, HeadFacts, KindByOp DEF StalePrior, At, Step
      <3>2. Step(r).prior \in Run /\ "stale" \in States
        BY <3>1, HeadFacts DEF States, EndStates
      <3>3. runs' \in [Run -> States] /\ declared' \subseteq Run
        BY <2>3, <3>2 DEF StalePrior, RecordsTyped
      <3> QED
        BY <1>1, <2>3, <3>3 DEF StalePrior, plane, web, RecordsTyped
    <2>4. ASSUME CopyTracked(r) PROVE RecordsTyped'
      <3>1. Live(r) /\ Step(r).op = "copy" /\ Step(r) \in Rewrites
        BY <2>4, HeadFacts, KindByOp DEF CopyTracked, At, Step
      <3>2. Step(r).prior \in Run
        BY <3>1, HeadFacts
      <3>3. copy' \in [Run -> SUBSET Feedback]
        BY <2>4, <3>2 DEF CopyTracked, RecordsTyped
      <3> QED
        BY <1>1, <2>4, <3>3 DEF CopyTracked, records, plane, web, past, RecordsTyped
    <2>5. ASSUME OverwriteTracked(r) PROVE RecordsTyped'
      <3>1. Live(r) /\ Step(r).op = "overwrite" /\ Step(r) \in Rewrites
        BY <2>5, HeadFacts, KindByOp DEF OverwriteTracked, At, Step
      <3>2. Step(r).prior \in Run /\ "stale" \in States
        BY <3>1, HeadFacts DEF States, EndStates
      <3>3. /\ copy' \in [Run -> SUBSET Feedback] /\ feedback' \in [Run -> SUBSET Feedback]
            /\ tracked' \in [Run -> States]
        BY <2>5, <3>2 DEF OverwriteTracked, RecordsTyped
      <3> QED
        BY <1>1, <2>5, <3>3 DEF OverwriteTracked, records, web, past, RecordsTyped
    <2>6. ASSUME WriteRunRow(r) PROVE RecordsTyped'
      <3>1. Step(r) \in Writes
        BY <2>6, HeadFacts, KindByOp DEF WriteRunRow, At, Step
      <3>2. Step(r).state \in States
        BY <3>1 DEF Writes, States
      <3>3. runs' \in [Run -> States]
        BY <2>6, <3>2 DEF WriteRunRow, RecordsTyped
      <3> QED
        BY <1>1, <2>6, <3>3 DEF WriteRunRow, plane, web, past, RecordsTyped
    <2>7. ASSUME TrackRun(r) PROVE RecordsTyped'
      <3>1. Step(r) \in Tracks
        BY <2>7, HeadFacts, KindByOp DEF TrackRun, At, Step
      <3>2. Step(r).state \in States
        BY <3>1 DEF Tracks, States
      <3>3. tracked' \in [Run -> States] /\ feedback' \in [Run -> SUBSET Feedback]
        BY <2>7, <3>2 DEF TrackRun, RecordsTyped, Kept
      <3> QED
        BY <1>1, <2>7, <3>3 DEF TrackRun, records, web, past, RecordsTyped
    <2>8. CASE CheckBeforeHandler(r)
      BY <1>1, <2>8 DEF CheckBeforeHandler, records, plane, web, past, RecordsTyped
    <2>9. CASE EnterTry(r)
      BY <1>1, <2>9 DEF EnterTry, records, plane, web, past, RecordsTyped
    <2>10. CASE AckBatch(r)
      BY <1>1, <2>10 DEF AckBatch, plane, web, past, RecordsTyped
    <2>11. CASE MarkFailed(r)
      BY <1>1, <2>11 DEF MarkFailed, plane, web, past, RecordsTyped
    <2> QED
      BY <1>2, <2>1, <2>2, <2>3, <2>4, <2>5, <2>6, <2>7, <2>8, <2>9, <2>10, <2>11 DEF DrainStep
  <1>3. ASSUME NEW r \in Run, NEW k \in Events \cup {"observation"}, NEW g \in Stages, Write(r, k, g)
        PROVE  /\ DOMAIN journal' = Run /\ sequence' \in Nat
               /\ \A q \in Run : journal'[q] \in Seq([kind : Events \cup {"observation"},
                                                      stage : Stages])
    <2>1. /\ DOMAIN journal' = Run
          /\ journal'[r] \in Seq([kind : Events \cup {"observation"}, stage : Stages])
          /\ \A q \in Run \ {r} : journal'[q] = journal[q]
      BY <1>3, Writing
    <2>2. sequence' \in Nat
      BY <1>3 DEF Write, RecordsTyped
    <2> QED
      BY <2>1, <2>2 DEF RecordsTyped
  <1>4. ASSUME NEW r \in Run, HandlerStep(r) PROVE RecordsTyped'
    <2>1. ASSUME ReadSequence(r) PROVE RecordsTyped'
      <3>1. sequence \in Int
        BY DEF RecordsTyped
      <3>2. seen' \in [Run -> Int]
        BY <2>1, <3>1 DEF ReadSequence, RecordsTyped, LastSequence
      <3> QED
        BY <1>1, <2>1, <3>2 DEF ReadSequence, records, plane, web, past, RecordsTyped
    <2>2. ASSUME InsertEvent(r) PROVE RecordsTyped'
      <3>1. Step(r) \in Journals
        BY <2>2, HeadFacts, KindByOp DEF InsertEvent, At, Step
      <3>2. Step(r).kind \in Events \cup {"observation"} /\ Step(r).stage \in Stages
        BY <3>1 DEF Journals
      <3>3. seen' \in [Run -> Int]
        BY <2>2 DEF InsertEvent, RecordsTyped
      <3>4. CASE Write(r, Step(r).kind, Step(r).stage)
        BY <1>1, <1>3, <2>2, <3>2, <3>3, <3>4 DEF InsertEvent, plane, web, past, RecordsTyped
      <3>5. CASE UNCHANGED <<journal, sequence>>
        BY <1>1, <2>2, <3>3, <3>5 DEF InsertEvent, plane, web, past, RecordsTyped
      <3> QED
        BY <2>2, <3>4, <3>5 DEF InsertEvent
    <2>3. ASSUME WriteCheckpoint(r) PROVE RecordsTyped'
      <3>1. Step(r).op = "checkpoint" /\ Step(r) \in Checkpoints
        BY <2>3, HeadFacts, KindByOp DEF WriteCheckpoint, At, Step
      <3>2. Step(r).stage \in Stages
        BY <3>1 DEF Checkpoints
      <3>3. checkpoint' \in [stage : Stages, version : Versions \cup {0}]
        BY <2>3, <3>2 DEF WriteCheckpoint, RecordsTyped
      <3> QED
        BY <1>1, <2>3, <3>3 DEF WriteCheckpoint, plane, web, past, RecordsTyped
    <2>4. ASSUME ClearCheckpoint(r) PROVE RecordsTyped'
      <3>1. checkpoint' \in [stage : Stages, version : Versions \cup {0}]
        BY <2>4 DEF ClearCheckpoint, NoCheckpoint, Stages
      <3> QED
        BY <1>1, <2>4, <3>1 DEF ClearCheckpoint, plane, web, past, RecordsTyped
    <2>5. CASE RecordRestart(r)
      BY <1>1, <2>5 DEF RecordRestart, records, plane, web, past, RecordsTyped
    <2>6. CASE WorkRaises(r)
      BY <1>1, <2>6 DEF WorkRaises, records, plane, web, past, RecordsTyped
    <2>7. CASE WorkReturns(r)
      BY <1>1, <2>7 DEF WorkReturns, records, plane, web, past, RecordsTyped
    <2>8. CASE CompareHead(r)
      BY <1>1, <2>8 DEF CompareHead, records, plane, web, past, RecordsTyped
    <2>9. CASE ScenePublishes(r)
      BY <1>1, <2>9 DEF ScenePublishes, records, worker, web, past, RecordsTyped
    <2>10. CASE SceneReturns(r)
      BY <1>1, <2>10 DEF SceneReturns, records, plane, web, RecordsTyped
    <2>11. CASE SceneTerminated(r)
      BY <1>1, <2>11 DEF SceneTerminated, records, plane, web, past, RecordsTyped
    <2>12. CASE LeaveHandler(r)
      BY <1>1, <2>12 DEF LeaveHandler, records, plane, web, past, RecordsTyped
    <2>13. CASE ScheduleObservation(r)
      BY <1>1, <2>13 DEF ScheduleObservation, records, plane, web, RecordsTyped
    <2> QED
      BY <1>4, <2>1, <2>2, <2>3, <2>4, <2>5, <2>6, <2>7, <2>8, <2>9, <2>10, <2>11, <2>12, <2>13
      DEF HandlerStep
  <1>5. ASSUME NEW r \in Run, Observe(r) PROVE RecordsTyped'
    <2>1. CASE Write(r, "observation", "scene_execute")
      <3>1. "observation" \in Events \cup {"observation"} /\ "scene_execute" \in Stages
        BY DEF Stages
      <3> QED
        BY <1>1, <1>3, <1>5, <2>1, <3>1 DEF Observe, plane, web, past, RecordsTyped
    <2>2. CASE UNCHANGED <<journal, sequence>>
      BY <1>1, <1>5, <2>2 DEF Observe, plane, web, past, RecordsTyped
    <2> QED
      BY <1>5, <2>1, <2>2 DEF Observe
  <1>6. ASSUME NEW r \in Run, RequestTermination(r) PROVE RecordsTyped'
    BY <1>6 DEF RequestTermination, plane, worker, web, past, RecordsTyped
  <1>7. ASSUME NEW f \in Feedback, MatchFeedback(f) PROVE RecordsTyped'
    <2>1. target' \in [Feedback -> Run \cup {NoRun}]
      BY <1>7 DEF MatchFeedback, RecordsTyped
    <2> QED
      BY <1>7, <2>1 DEF MatchFeedback, records, plane, worker, past, RecordsTyped
  <1>8. ASSUME NEW f \in Feedback, AppendFeedback(f) PROVE RecordsTyped'
    <2>1. target[f] \in Run
      BY <1>8 DEF AppendFeedback, RecordsTyped
    <2>2. feedback' \in [Run -> SUBSET Feedback] /\ accepted' \subseteq Feedback
      BY <1>8, <2>1 DEF AppendFeedback, RecordsTyped
    <2> QED
      BY <1>8, <2>2 DEF AppendFeedback, records, worker, past, RecordsTyped
  <1>9. ASSUME WorkerDies PROVE RecordsTyped'
    <2>1. version' \in Versions
      BY <1>9 DEF WorkerDies, RecordsTyped, Versions
    <2>2. seen' \in [Run -> Int] /\ copy' \in [Run -> SUBSET Feedback] /\ observers' \subseteq Run
      BY <1>9 DEF WorkerDies
    <2> QED
      BY <1>1, <1>9, <2>1, <2>2 DEF WorkerDies, records, plane, web, past, RecordsTyped
  <1>10. CASE UNCHANGED recordVars
    BY <1>10 DEF recordVars, records, plane, worker, web, past, RecordsTyped
  <1> QED
    BY <1>2, <1>4, <1>5, <1>6, <1>7, <1>8, <1>9, <1>10 DEF RecordsNext

\* Who writes what.
LEMMA Writers ==
  ASSUME [RecordsNext]_recordVars
  PROVE  /\ UNCHANGED runs \/ \E r \in Run : StalePrior(r) \/ WriteRunRow(r)
         /\ UNCHANGED declared \/ \E r \in Run : StalePrior(r)
         /\ UNCHANGED <<tracked, feedback>>
              \/ (\E r \in Run : OverwriteTracked(r) \/ TrackRun(r))
              \/ \E f \in Feedback : AppendFeedback(f)
         /\ UNCHANGED journal \/ \E r \in Run : InsertEvent(r) \/ Observe(r)
         /\ UNCHANGED checkpoint \/ \E r \in Run : WriteCheckpoint(r) \/ ClearCheckpoint(r)
         /\ UNCHANGED done \/ \E r \in Run : SceneReturns(r)
         /\ (UNCHANGED watched /\ observers' \subseteq observers)
              \/ \E r \in Run : ScheduleObservation(r)
         /\ UNCHANGED seen \/ WorkerDies \/ \E r \in Run : ReadSequence(r) \/ InsertEvent(r)
         /\ UNCHANGED accepted \/ \E f \in Feedback : AppendFeedback(f)
         /\ UNCHANGED target \/ \E f \in Feedback : MatchFeedback(f)
         /\ version' = version \/ version' = 2
  <1>1. ASSUME NEW r \in Run,
               \/ StartRun(r) \/ ListPriors(r) \/ CopyTracked(r) \/ CheckBeforeHandler(r)
               \/ EnterTry(r) \/ AckBatch(r) \/ MarkFailed(r)
        PROVE  UNCHANGED <<runs, declared, tracked, feedback, journal, checkpoint, done, watched,
                           observers, seen, web, version>>
    BY <1>1 DEF StartRun, ListPriors, CopyTracked, CheckBeforeHandler, EnterTry, AckBatch,
                MarkFailed, records, plane, worker, web, past
  <1>2. ASSUME NEW r \in Run,
               \/ RecordRestart(r) \/ WorkRaises(r) \/ WorkReturns(r) \/ CompareHead(r)
               \/ ScenePublishes(r) \/ SceneTerminated(r) \/ LeaveHandler(r)
               \/ RequestTermination(r)
        PROVE  UNCHANGED <<runs, declared, tracked, feedback, journal, checkpoint, done, watched,
                           observers, seen, web, version>>
    BY <1>2 DEF RecordRestart, WorkRaises, WorkReturns, CompareHead, ScenePublishes, SceneTerminated,
                LeaveHandler, RequestTermination, records, plane, worker, web, past
  <1>3. ASSUME NEW r \in Run, StalePrior(r)
        PROVE  UNCHANGED <<tracked, feedback, journal, checkpoint, done, watched,
                           observers, seen, web, version>>
    BY <1>3 DEF StalePrior, plane, web
  <1>4. ASSUME NEW r \in Run, WriteRunRow(r)
        PROVE  UNCHANGED <<declared, tracked, feedback, journal, checkpoint, done, watched,
                           observers, seen, web, version>>
    BY <1>4 DEF WriteRunRow, plane, web, past
  <1>5. ASSUME NEW r \in Run, OverwriteTracked(r) \/ TrackRun(r)
        PROVE  UNCHANGED <<runs, declared, journal, checkpoint, done, watched,
                           observers, seen, web, version>>
    BY <1>5 DEF OverwriteTracked, TrackRun, records, web, past
  <1>6. ASSUME NEW r \in Run, ReadSequence(r)
        PROVE  UNCHANGED <<runs, declared, tracked, feedback, journal, checkpoint, done, watched,
                           observers, web, version>>
    BY <1>6 DEF ReadSequence, records, plane, web, past
  <1>7. ASSUME NEW r \in Run, InsertEvent(r)
        PROVE  UNCHANGED <<runs, declared, tracked, feedback, checkpoint, done, watched,
                           observers, web, version>>
    BY <1>7 DEF InsertEvent, plane, web, past
  <1>8. ASSUME NEW r \in Run, WriteCheckpoint(r) \/ ClearCheckpoint(r)
        PROVE  UNCHANGED <<runs, declared, tracked, feedback, journal, done, watched,
                           observers, seen, web, version>>
    BY <1>8 DEF WriteCheckpoint, ClearCheckpoint, plane, web, past
  <1>9. ASSUME NEW r \in Run, SceneReturns(r)
        PROVE  UNCHANGED <<runs, declared, tracked, feedback, journal, checkpoint, watched,
                           observers, seen, web, version>>
    BY <1>9 DEF SceneReturns, records, plane, web
  <1>10. ASSUME NEW r \in Run, ScheduleObservation(r)
         PROVE  UNCHANGED <<runs, declared, tracked, feedback, journal, checkpoint, done, seen, web,
                            version>>
    BY <1>10 DEF ScheduleObservation, records, plane, web
  <1>11. ASSUME NEW r \in Run, Observe(r)
         PROVE  /\ UNCHANGED <<runs, declared, tracked, feedback, checkpoint, done, watched, seen,
                               web, version>>
                /\ observers' \subseteq observers
    BY <1>11 DEF Observe, plane, web, past
  <1>12. ASSUME NEW f \in Feedback, MatchFeedback(f)
         PROVE  UNCHANGED <<records, plane, worker, accepted, past>>
    BY <1>12 DEF MatchFeedback
  <1>13. ASSUME NEW f \in Feedback, AppendFeedback(f)
         PROVE  UNCHANGED <<records, worker, target, past>>
    BY <1>13 DEF AppendFeedback
  <1>14. ASSUME WorkerDies
         PROVE  /\ UNCHANGED <<records, plane, web, past>> /\ observers' \subseteq observers
                /\ version' \in {version, 2}
    BY <1>14 DEF WorkerDies
  <1>15. ASSUME UNCHANGED recordVars
         PROVE  UNCHANGED <<records, plane, worker, web, past>>
    BY <1>15 DEF recordVars
  <1>16. \/ \E r \in Run : DrainStep(r) \/ HandlerStep(r) \/ Observe(r) \/ RequestTermination(r)
         \/ \E f \in Feedback : MatchFeedback(f) \/ AppendFeedback(f)
         \/ WorkerDies \/ UNCHANGED recordVars
    BY DEF RecordsNext
  <1>17. ASSUME NEW r \in Run, DrainStep(r) \/ HandlerStep(r) \/ Observe(r) \/ RequestTermination(r)
         PROVE  \/ /\ UNCHANGED <<runs, declared, tracked, feedback, journal, checkpoint, done,
                                  watched, observers, seen, web, version>>
                \/ StalePrior(r) \/ WriteRunRow(r) \/ OverwriteTracked(r) \/ TrackRun(r)
                \/ ReadSequence(r) \/ InsertEvent(r) \/ WriteCheckpoint(r) \/ ClearCheckpoint(r)
                \/ SceneReturns(r) \/ ScheduleObservation(r) \/ Observe(r)
    BY <1>1, <1>2, <1>17 DEF DrainStep, HandlerStep
  <1> DEFINE Same == UNCHANGED <<runs, declared, tracked, feedback, journal, checkpoint, done,
                                 watched, observers, seen, web, version>>
  <1>18. CASE Same
    BY <1>18 DEF web
  <1>19. CASE WorkerDies \/ UNCHANGED recordVars
    BY <1>14, <1>15, <1>19 DEF records, plane, worker, web, past
  <1>20. CASE \E f \in Feedback : MatchFeedback(f) \/ AppendFeedback(f)
    BY <1>12, <1>13, <1>20 DEF records, plane, worker, web, past
  <1>21. ASSUME NEW r \in Run, StalePrior(r) \/ WriteRunRow(r)
         PROVE  /\ UNCHANGED <<tracked, feedback, journal, checkpoint, done, watched, observers,
                               seen, target, accepted, version>>
                /\ UNCHANGED declared \/ StalePrior(r)
    BY <1>3, <1>4, <1>21 DEF web
  <1>22. CASE \E r \in Run : StalePrior(r) \/ WriteRunRow(r)
    BY <1>21, <1>22
  <1>23. CASE \E r \in Run : OverwriteTracked(r) \/ TrackRun(r)
    BY <1>5, <1>23 DEF web
  <1>24. CASE \E r \in Run : ReadSequence(r) \/ InsertEvent(r)
    BY <1>6, <1>7, <1>24 DEF web
  <1>25. CASE \E r \in Run : WriteCheckpoint(r) \/ ClearCheckpoint(r)
    BY <1>8, <1>25 DEF web
  <1>26. CASE \E r \in Run : SceneReturns(r)
    BY <1>9, <1>26 DEF web
  <1>27. CASE \E r \in Run : ScheduleObservation(r)
    BY <1>10, <1>27 DEF web
  <1>28. CASE \E r \in Run : Observe(r)
    BY <1>11, <1>28 DEF web
  <1> HIDE DEF Same
  <1> QED
    BY <1>16, <1>17, <1>18, <1>19, <1>20, <1>22, <1>23, <1>24, <1>25, <1>26, <1>27, <1>28 DEF Same

\* The rows of the runs: only a run at work gets one, and none is taken away.
LEMMA Rows ==
  ASSUME RecordsInv, [RecordsNext]_recordVars
  PROVE  \A q \in Run : /\ runs'[q] = "none" => runs[q] = "none"
                        /\ runs'[q] # "none" => runs[q] # "none" \/ Live(q)
                        /\ q \in declared' => runs'[q] = "stale"
  <1> USE DEF RecordsInv
  <1>1. ASSUME NEW r \in Run, StalePrior(r), NEW q \in Run
        PROVE  /\ runs'[q] = "none" => runs[q] = "none"
               /\ runs'[q] # "none" => runs[q] # "none" \/ Live(q)
               /\ q \in declared' => runs'[q] = "stale"
    <2>1. Live(r) /\ Step(r).op = "stale" /\ Step(r) \in Rewrites
      BY <1>1, HeadFacts, KindByOp DEF StalePrior, At, Step
    <2>2. Step(r).prior \in Run /\ runs[Step(r).prior] # "none"
      BY <2>1, HeadFacts
    <2>3. /\ runs' = [runs EXCEPT ![Step(r).prior] = "stale"]
          /\ declared' = declared \cup {Step(r).prior}
      BY <1>1 DEF StalePrior
    <2> QED
      BY <2>2, <2>3 DEF RecordsTyped, OneAtATime
  <1>2. ASSUME NEW r \in Run, WriteRunRow(r), NEW q \in Run
        PROVE  /\ runs'[q] = "none" => runs[q] = "none"
               /\ runs'[q] # "none" => runs[q] # "none" \/ Live(q)
               /\ q \in declared' => runs'[q] = "stale"
    <2>1. Live(r) /\ Step(r).op = "write" /\ Step(r) \in Writes
      BY <1>2, HeadFacts, KindByOp DEF WriteRunRow, At, Step
    <2>2. Step(r).state # "none"
      BY <2>1 DEF Writes, EndStates
    <2>3. runs' = [runs EXCEPT ![r] = Step(r).state] /\ declared' = declared
      BY <1>2 DEF WriteRunRow, past
    <2> QED
      BY <2>1, <2>2, <2>3 DEF RecordsTyped, OneAtATime
  <1>3. ASSUME UNCHANGED runs, UNCHANGED declared, NEW q \in Run
        PROVE  /\ runs'[q] = "none" => runs[q] = "none"
               /\ runs'[q] # "none" => runs[q] # "none" \/ Live(q)
               /\ q \in declared' => runs'[q] = "stale"
    BY <1>3 DEF OneAtATime
  <1>4. (UNCHANGED runs /\ UNCHANGED declared) \/ \E r \in Run : StalePrior(r) \/ WriteRunRow(r)
    BY Writers
  <1> QED
    BY <1>1, <1>2, <1>3, <1>4

LEMMA OneAtATimeStep ==
  ASSUME RecordsAssumption, RecordsInv, [RecordsNext]_recordVars
  PROVE  OneAtATime'
  <1> USE DEF RecordsInv
  <1>1. \A q \in Run : /\ runs'[q] = "none" => runs[q] = "none"
                       /\ runs'[q] # "none" => runs[q] # "none" \/ Live(q)
                       /\ q \in declared' => runs'[q] = "stale"
    BY Rows
  <1>2. ASSUME NEW q \in Run, journal'[q] # <<>> \/ q \in done'
        PROVE  runs[q] # "none"
    <2>1. ASSUME NEW r \in Run, InsertEvent(r), q = r PROVE runs[q] # "none"
      <3>1. Live(r) /\ Step(r).op = "journal"
        BY <2>1 DEF InsertEvent, At, Step
      <3> QED
        BY <2>1, <3>1, HeadFacts
    <2>2. ASSUME NEW r \in Run, SceneReturns(r), q = r PROVE runs[q] # "none"
      <3>1. Live(r) /\ Step(r).op = "scene"
        BY <2>2 DEF SceneReturns, At, Step
      <3> QED
        BY <2>2, <3>1, HeadFacts
    <2>3. ASSUME NEW r \in Run, Observe(r), q = r PROVE runs[q] # "none"
      BY <2>3 DEF Observe, OneAtATime
    <2>4. CASE q \in done'
      BY <2>2, <2>4, Writers DEF OneAtATime, SceneReturns
    <2>5. CASE journal'[q] # <<>>
      <3>1. ASSUME NEW r \in Run, InsertEvent(r) \/ Observe(r), r # q PROVE journal'[q] = journal[q]
        BY <3>1 DEF InsertEvent, Observe, Write, RecordsTyped
      <3> QED
        BY <2>1, <2>3, <2>5, <3>1, Writers DEF OneAtATime
    <2> QED
      BY <1>2, <2>4, <2>5
  <1>3. ASSUME NEW q \in observers' PROVE journal'[q] # <<>>
    <2>1. \A p \in Run : journal[p] # <<>> => journal'[p] # <<>>
      <3>1. ASSUME NEW r \in Run, NEW k \in Events \cup {"observation"}, NEW g \in Stages,
                   Write(r, k, g), NEW p \in Run, journal[p] # <<>>
            PROVE  journal'[p] # <<>>
        BY <3>1, Writing
      <3>2. ASSUME NEW r \in Run, InsertEvent(r)
            PROVE  UNCHANGED journal \/ \E k \in Events \cup {"observation"}, g \in Stages : Write(r, k, g)
        <4>1. Step(r) \in Journals
          BY <3>2, HeadFacts, KindByOp DEF InsertEvent, At, Step
        <4>2. Step(r).kind \in Events \cup {"observation"} /\ Step(r).stage \in Stages
          BY <4>1 DEF Journals
        <4> QED
          BY <3>2, <4>2 DEF InsertEvent
      <3>3. ASSUME NEW r \in Run, Observe(r)
            PROVE  UNCHANGED journal \/ \E k \in Events \cup {"observation"}, g \in Stages : Write(r, k, g)
        <4>1. "observation" \in Events \cup {"observation"} /\ "scene_execute" \in Stages
          BY DEF Stages
        <4> QED
          BY <3>3, <4>1 DEF Observe
      <3> QED
        BY <3>1, <3>2, <3>3, Writers
    <2>2. ASSUME NEW r \in Run, ScheduleObservation(r), q = r PROVE journal[q] # <<>>
      <3>1. Live(r) /\ Step(r).op = "scene"
        BY <2>2 DEF ScheduleObservation, At, Step
      <3>2. Step(r) \in Later
        BY <3>1, HeadFacts DEF Later, StepsOf
      <3> QED
        BY <2>2, <3>1, <3>2, HeadFacts
    <2>3. q \in observers \/ \E r \in Run : ScheduleObservation(r) /\ q = r
      BY Writers DEF ScheduleObservation
    <2>4. q \in Run
      BY <2>3 DEF RecordsTyped
    <2> QED
      BY <2>1, <2>2, <2>3, <2>4 DEF OneAtATime
  <1>4. ASSUME NEW r \in Run, StartRun(r) PROVE OneAtATime'
    <2>1. /\ \A q \in Run : ~Live(q) /\ (q # r => ~Live(q)')
          /\ UNCHANGED <<runs, declared>> /\ runs[r] = "none"
          /\ \A q \in Run : q < r => runs[q] # "none"
      BY <1>4 DEF StartRun, records, Live, RecordsTyped
    <2>2. ASSUME NEW q \in Run, r < q PROVE runs[q] = "none"
      BY <2>1, <2>2 DEF OneAtATime
    <2>3. \A a, b \in Run : a # b /\ Live(a)' => ~Live(b)'
      BY <2>1
    <2>4. \A a, b \in Run : b < a /\ (Live(a)' \/ runs'[a] # "none") => runs'[b] # "none"
      BY <2>1 DEF OneAtATime
    <2>5. \A a, b \in Run : a < b /\ Live(a)' => runs'[b] = "none"
      BY <2>1, <2>2
    <2>6. \A q \in declared' : runs'[q] = "stale" /\ ~Live(q)'
      BY <1>1, <2>1 DEF RecordsTyped
    <2>7. \A q \in Run : journal'[q] # <<>> \/ q \in done' => runs'[q] # "none"
      BY <1>2, <2>1
    <2> QED
      BY <1>3, <2>3, <2>4, <2>5, <2>6, <2>7 DEF OneAtATime
  <1>5. CASE \A q \in Run : todo[q] = <<>> => todo'[q] = <<>>
    <2>1. \A q \in Run : Live(q)' => Live(q)
      BY <1>5 DEF Live
    <2>2. \A a, b \in Run : a # b /\ Live(a)' => ~Live(b)'
      BY <2>1 DEF OneAtATime
    <2>3. \A a, b \in Run : b < a /\ (Live(a)' \/ runs'[a] # "none") => runs'[b] # "none"
      BY <1>1, <2>1 DEF OneAtATime
    <2>4. \A a, b \in Run : a < b /\ Live(a)' => runs'[b] = "none"
      <3> SUFFICES ASSUME NEW a \in Run, NEW b \in Run, a < b, Live(a)' PROVE runs'[b] = "none"
        OBVIOUS
      <3>1. a # b
        BY DEF Run, RecordsAssumption
      <3>2. Live(a) /\ runs[b] = "none" /\ ~Live(b)
        BY <2>1, <3>1 DEF OneAtATime
      <3> QED
        BY <1>1, <3>2
    <2>5. \A q \in declared' : runs'[q] = "stale" /\ ~Live(q)'
      <3>1. declared' \subseteq Run
        BY TypedStep DEF RecordsTyped
      <3>2. ASSUME NEW q \in declared', q \notin declared PROVE ~Live(q)
        <4>1. PICK r \in Run : StalePrior(r)
          BY <3>2, Writers
        <4>2. Live(r) /\ Step(r) \in Rewrites
          BY <4>1, HeadFacts, KindByOp DEF StalePrior, At, Step
        <4>3. q = Step(r).prior /\ q \in Run /\ q # r
          BY <3>2, <4>1, <4>2, HeadFacts DEF StalePrior
        <4> QED
          BY <4>2, <4>3 DEF OneAtATime
      <3> QED
        BY <1>1, <2>1, <3>1, <3>2 DEF OneAtATime
    <2> QED
      BY <1>1, <1>2, <1>3, <2>2, <2>3, <2>4, <2>5 DEF OneAtATime
  <1> QED
    BY <1>4, <1>5, Moves

LEMMA ConsoleStep ==
  ASSUME RecordsAssumption, RecordsInv, [RecordsNext]_recordVars
  PROVE  ConsoleInv'
  <1> USE DEF RecordsInv
  <1>1. ASSUME NEW q \in Run, Live(q)' PROVE Live(q) \/ runs[q] = "none"
    <2>1. CASE \E r \in Run : StartRun(r)
      <3>1. PICK r \in Run : StartRun(r)
        BY <2>1
      <3>2. q = r
        BY <1>1, <3>1 DEF StartRun, Live, RecordsTyped
      <3> QED
        BY <3>1, <3>2 DEF StartRun
    <2> QED
      BY <1>1, <2>1, Moves DEF Live
  <1> DEFINE Shown(q) == /\ Live(q)' => tracked'[q] \in {"none", "running"}
                         /\ tracked'[q] \notin {"none", "running"} =>
                               runs'[q] \notin {"none", "running"} /\ tracked'[q] = runs'[q]
  <1>2. ASSUME NEW r \in Run, TrackRun(r), NEW q \in Run PROVE Shown(q)
    <2>1. Live(r) /\ Step(r).op = "track" /\ Step(r) \in Tracks
      BY <1>2, HeadFacts, KindByOp DEF TrackRun, At, Step
    <2>2. /\ tracked' = [tracked EXCEPT ![r] = Step(r).state] /\ runs' = runs
          /\ todo' = [todo EXCEPT ![r] = Tail(todo[r])]
      BY <1>2 DEF TrackRun, records, Next1, Becomes
    <2>3. CASE q # r
      BY <1>1, <2>2, <2>3 DEF ConsoleInv, ConsoleNeverAhead, RecordsTyped
    <2>4. CASE q = r /\ Step(r) \notin EndTracks
      BY <2>1, <2>2, <2>4 DEF RecordsTyped, EndTracks
    <2>5. CASE q = r /\ Step(r) \in EndTracks
      <3>1. runs[r] = Step(r).state /\ Tail(todo[r]) = <<>>
        BY <2>1, <2>5, HeadFacts
      <3>2. Step(r).state \notin {"none", "running"}
        BY <2>5 DEF EndTracks, Tracks, EndStates
      <3>3. ~Live(r)'
        BY <2>2, <3>1 DEF Live, RecordsTyped
      <3> QED
        BY <2>2, <2>5, <3>1, <3>2, <3>3 DEF RecordsTyped
    <2> QED
      BY <2>3, <2>4, <2>5
  <1>3. ASSUME NEW r \in Run, OverwriteTracked(r), NEW q \in Run PROVE Shown(q)
    <2>1. Live(r) /\ Step(r).op = "overwrite" /\ Step(r) \in Rewrites
      BY <1>3, HeadFacts, KindByOp DEF OverwriteTracked, At, Step
    <2>2. Step(r).prior \in Run /\ Step(r).prior \in declared
      BY <2>1, HeadFacts
    <2>3. runs[Step(r).prior] = "stale" /\ ~Live(Step(r).prior)
      BY <2>2 DEF OneAtATime
    <2>4. tracked' = [tracked EXCEPT ![Step(r).prior] = "stale"] /\ runs' = runs
      BY <1>3 DEF OverwriteTracked, records
    <2>5. CASE q # Step(r).prior
      BY <1>1, <2>2, <2>4, <2>5 DEF ConsoleInv, ConsoleNeverAhead, RecordsTyped
    <2>6. CASE q = Step(r).prior
      BY <1>1, <2>2, <2>3, <2>4, <2>6 DEF RecordsTyped
    <2> QED
      BY <2>5, <2>6
  <1>4. ASSUME NEW r \in Run, StalePrior(r), NEW q \in Run PROVE Shown(q)
    <2>1. Live(r) /\ Step(r).op = "stale" /\ Step(r) \in Rewrites
      BY <1>4, HeadFacts, KindByOp DEF StalePrior, At, Step
    <2>2. Step(r).prior \in Run /\ runs[Step(r).prior] \in {"running", "stale"}
      BY <2>1, HeadFacts
    <2>3. tracked' = tracked /\ runs' = [runs EXCEPT ![Step(r).prior] = "stale"]
      BY <1>4 DEF StalePrior, plane
    <2> QED
      BY <1>1, <2>2, <2>3 DEF ConsoleInv, ConsoleNeverAhead, RecordsTyped
  <1>5. ASSUME NEW r \in Run, WriteRunRow(r), NEW q \in Run PROVE Shown(q)
    <2>1. Live(r)
      BY <1>5 DEF WriteRunRow, At
    <2>2. tracked' = tracked /\ runs' = [runs EXCEPT ![r] = Step(r).state]
      BY <1>5 DEF WriteRunRow, plane
    <2> QED
      BY <1>1, <2>1, <2>2 DEF ConsoleInv, ConsoleNeverAhead, RecordsTyped
  <1>6. ASSUME UNCHANGED runs, UNCHANGED tracked, NEW q \in Run PROVE Shown(q)
    BY <1>1, <1>6 DEF ConsoleInv, ConsoleNeverAhead
  <1>7. ASSUME NEW f \in Feedback, AppendFeedback(f) PROVE UNCHANGED runs /\ UNCHANGED tracked
    BY <1>7 DEF AppendFeedback, records
  <1>8. \A q \in Run : Shown(q)
    <2> HIDE DEF Shown
    <2>1. UNCHANGED runs \/ \E r \in Run : StalePrior(r) \/ WriteRunRow(r)
      BY Writers
    <2>2. UNCHANGED tracked \/ \E r \in Run : OverwriteTracked(r) \/ TrackRun(r)
      BY <1>7, Writers
    <2> QED
      BY <1>2, <1>3, <1>4, <1>5, <1>6, <2>1, <2>2
  <1> QED
    BY <1>8 DEF ConsoleInv, ConsoleNeverAhead

LEMMA FeedbackStep ==
  ASSUME RecordsAssumption, RecordsInv, [RecordsNext]_recordVars
  PROVE  FeedbackInv'
  <1> USE DEF RecordsInv
  <1>1. declared \subseteq declared'
    BY Writers DEF StalePrior
  <1>2. ASSUME NEW f \in accepted
        PROVE  target'[f] = target[f] /\ target[f] # NoRun /\ target[f] \in Run
    <2>1. target[f] # NoRun /\ target[f] \in Run
      BY DEF FeedbackInv, RecordsTyped
    <2>2. ASSUME NEW g \in Feedback, MatchFeedback(g) PROVE target'[f] = target[f]
      <3>1. f # g
        BY <2>1, <2>2 DEF MatchFeedback
      <3> QED
        BY <2>2, <3>1 DEF MatchFeedback, RecordsTyped
    <2> QED
      BY <2>1, <2>2, Writers
  <1>3. ASSUME NEW r \in Run, OverwriteTracked(r), NEW q \in Run
        PROVE  feedback'[q] = feedback[q] \/ q \in declared
    <2>1. Live(r) /\ Step(r).op = "overwrite" /\ Step(r) \in Rewrites
      BY <1>3, HeadFacts, KindByOp DEF OverwriteTracked, At, Step
    <2>2. Step(r).prior \in Run /\ Step(r).prior \in declared
      BY <2>1, HeadFacts
    <2> QED
      BY <1>3, <2>2 DEF OverwriteTracked, RecordsTyped
  <1>4. ASSUME NEW r \in Run, TrackRun(r), NEW q \in Run PROVE feedback'[q] = feedback[q]
    BY <1>4 DEF TrackRun, Kept, RecordsTyped
  <1>5. ASSUME NEW g \in Feedback, AppendFeedback(g)
        PROVE  /\ target' = target /\ target[g] \in Run /\ g \in feedback'[target[g]]
               /\ accepted' = accepted \cup {g}
               /\ \A q \in Run : feedback[q] \subseteq feedback'[q]
    BY <1>5 DEF AppendFeedback, RecordsTyped
  <1>6. ASSUME NEW q \in Run PROVE feedback[q] \subseteq feedback'[q] \/ q \in declared
    BY <1>3, <1>4, <1>5, Writers
  <1>7. ASSUME NEW f \in accepted', f \notin accepted
        PROVE  target'[f] \in Run /\ target'[f] # NoRun /\ f \in feedback'[target'[f]]
    <2>1. PICK g \in Feedback : AppendFeedback(g)
      BY <1>7, Writers
    <2>2. f = g
      BY <1>5, <1>7, <2>1
    <2>3. target[g] # NoRun
      BY <2>1 DEF AppendFeedback
    <2> QED
      BY <1>5, <2>1, <2>2, <2>3
  <1>8. ASSUME NEW f \in accepted PROVE f \in feedback'[target'[f]] \/ target'[f] \in declared'
    <2>1. f \in feedback[target[f]] \/ target[f] \in declared
      BY DEF FeedbackInv, FeedbackLostOnlyByRestart
    <2> QED
      BY <1>1, <1>2, <1>6, <2>1
  <1> QED
    BY <1>2, <1>7, <1>8 DEF FeedbackInv, FeedbackLostOnlyByRestart

\* What a run with a result does, when nothing can raise.
LEMMA AfterScenePrograms ==
  ASSUME RecordsInv, [RecordsNext]_recordVars, watched = {}, NEW q \in done, Live(q)
  PROVE  todo'[q] \in {todo[q], Tail(todo[q]), <<>>, Returns("succeeded")}
  <1> USE DEF RecordsInv
  <1>1. /\ q \in Run /\ observers = {} /\ seen[q] = -1 /\ todo[q] \in Seq(AnyStep)
        /\ todo[q] # <<>>
    BY DEF RecordsTyped, ResultInv, Live
  <1>2. Step(q).op \in {"journal", "checkpoint", "clear", "leave", "ack", "write", "track"}
    <2>1. Step(q) = todo[q][1] /\ 1 \in 1 .. Len(todo[q])
      BY <1>1, TailOf DEF Step
    <2>2. Step(q) \in AfterResult
      BY <2>1 DEF ResultInv
    <2> QED
      BY <2>2 DEF AfterResult, AfterScene, StepsOf, WriteRun, Track
  <1> DEFINE Goal == todo'[q] \in {todo[q], Tail(todo[q]), <<>>, Returns("succeeded")}
  <1>3. ASSUME NEW r \in Run, DrainStep(r) \/ HandlerStep(r) PROVE r = q
    <2>1. DrainStep(r) => StartRun(r) \/ Live(r)
      BY DEF DrainStep, ListPriors, StalePrior, CopyTracked, OverwriteTracked, WriteRunRow, TrackRun,
             CheckBeforeHandler, EnterTry, AckBatch, MarkFailed, At
    <2>2. ~StartRun(r)
      BY <1>1 DEF StartRun
    <2>3. HandlerStep(r) => Live(r)
      BY DEF HandlerStep, ReadSequence, InsertEvent, WriteCheckpoint, ClearCheckpoint, RecordRestart,
             WorkRaises, WorkReturns, CompareHead, ScenePublishes, SceneReturns, SceneTerminated,
             LeaveHandler, ScheduleObservation, At
    <2> QED
      BY <1>1, <1>3, <2>1, <2>2, <2>3 DEF OneAtATime
  <1>4. ASSUME todo' = [todo EXCEPT ![q] = Tail(todo[q])] PROVE Goal
    BY <1>1, <1>4 DEF RecordsTyped
  <1>5. ASSUME UNCHANGED todo PROVE Goal
    BY <1>5
  <1>6. ASSUME todo' = [todo EXCEPT ![q] = Returns("succeeded")] PROVE Goal
    BY <1>1, <1>6 DEF RecordsTyped
  <1>7. ASSUME DrainStep(q) PROVE todo' = [todo EXCEPT ![q] = Tail(todo[q])]
    <2>1. ~StartRun(q) /\ ~ListPriors(q) /\ ~StalePrior(q) /\ ~CopyTracked(q)
          /\ ~OverwriteTracked(q) /\ ~CheckBeforeHandler(q) /\ ~EnterTry(q) /\ ~MarkFailed(q)
      BY <1>1, <1>2 DEF StartRun, ListPriors, StalePrior, CopyTracked, OverwriteTracked,
         CheckBeforeHandler, EnterTry, MarkFailed, At, Step
    <2> QED
      BY <1>7, <2>1 DEF DrainStep, WriteRunRow, TrackRun, AckBatch, Next1, Becomes
  <1>8. ASSUME HandlerStep(q)
        PROVE  \/ todo' = [todo EXCEPT ![q] = Tail(todo[q])]
               \/ todo' = [todo EXCEPT ![q] = Returns("succeeded")]
    <2>1. ~ReadSequence(q) /\ ~RecordRestart(q) /\ ~WorkRaises(q) /\ ~WorkReturns(q)
          /\ ~CompareHead(q) /\ ~ScenePublishes(q) /\ ~SceneReturns(q) /\ ~SceneTerminated(q)
          /\ ~ScheduleObservation(q)
      BY <1>1, <1>2 DEF ReadSequence, Alone, RecordRestart, WorkRaises, Works, WorkReturns,
         CompareHead, ScenePublishes, SceneReturns, SceneTerminated, ScheduleObservation, At, Step
    <2>2. InsertEvent(q) => todo' = [todo EXCEPT ![q] = Tail(todo[q])]
      BY <1>1 DEF InsertEvent, LastSequence, Next1, Becomes
    <2>3. LeaveHandler(q) => todo' = [todo EXCEPT ![q] = Returns("succeeded")]
      BY <1>2 DEF LeaveHandler, At, Step, Becomes
    <2> QED
      BY <1>8, <2>1, <2>2, <2>3 DEF HandlerStep, WriteCheckpoint, ClearCheckpoint, Next1, Becomes
  <1>9. ASSUME WorkerDies PROVE Goal
    BY <1>1, <1>9 DEF WorkerDies
  <1>10. ASSUME NEW r \in Run, Observe(r) \/ RequestTermination(r) PROVE UNCHANGED todo
    BY <1>10 DEF Observe, RequestTermination, worker
  <1>11. ASSUME NEW f \in Feedback, MatchFeedback(f) \/ AppendFeedback(f) PROVE UNCHANGED todo
    BY <1>11 DEF MatchFeedback, AppendFeedback, worker
  <1>12. ASSUME UNCHANGED recordVars PROVE UNCHANGED todo
    BY <1>12 DEF recordVars, worker
  <1> HIDE DEF Goal
  <1>13. Goal
    BY <1>3, <1>4, <1>5, <1>6, <1>7, <1>8, <1>9, <1>10, <1>11, <1>12 DEF RecordsNext
  <1> QED
    BY <1>13 DEF Goal

LEMMA ResultStep ==
  ASSUME RecordsAssumption, RecordsInv, [RecordsNext]_recordVars
  PROVE  ResultInv'
  <1> USE DEF RecordsInv
  <1> SUFFICES ASSUME watched' = {}
               PROVE  /\ observers' = {} /\ \A q \in Run : seen'[q] = -1
                      /\ \A q \in done' : /\ runs'[q] # "failed"
                                          /\ \A i \in 1 .. Len(todo'[q]) : todo'[q][i] \in AfterResult'
    BY DEF ResultInv
  <1>1. watched = {} /\ observers' = {} /\ observers = {} /\ \A q \in Run : seen[q] = -1
    BY Writers DEF ScheduleObservation, ResultInv
  <1>2. \A q \in Run : seen'[q] = -1
    <2>1. ASSUME NEW r \in Run, InsertEvent(r) PROVE \A q \in Run : seen'[q] = -1
      BY <1>1, <2>1 DEF InsertEvent, RecordsTyped
    <2>2. ASSUME NEW r \in Run, ReadSequence(r) PROVE FALSE
      BY <1>1, <2>2 DEF ReadSequence, Alone
    <2>3. ASSUME WorkerDies PROVE \A q \in Run : seen'[q] = -1
      BY <2>3 DEF WorkerDies
    <2> QED
      BY <1>1, <2>1, <2>2, <2>3, Writers
  <1>3. AfterResult' = AfterResult
    BY DEF AfterResult, AfterScene, StepsOf, WriteRun, Track
  <1>4. ASSUME NEW q \in done
        PROVE  runs'[q] # "failed" /\ \A i \in 1 .. Len(todo'[q]) : todo'[q][i] \in AfterResult
    <2>1. /\ q \in Run /\ runs[q] # "failed" /\ runs[q] # "none"
          /\ \A i \in 1 .. Len(todo[q]) : todo[q][i] \in AfterResult
      BY <1>1 DEF RecordsTyped, ResultInv, OneAtATime
    <2>2. ASSUME NEW r \in Run, StalePrior(r) PROVE runs'[q] # "failed"
      BY <2>1, <2>2 DEF StalePrior, RecordsTyped
    <2>3. ASSUME NEW r \in Run, WriteRunRow(r) PROVE runs'[q] # "failed"
      <3>1. CASE r = q
        <4>1. Live(q) /\ Step(q).op = "write" /\ todo[q] \in Seq(AnyStep) /\ todo[q] # <<>>
          BY <2>3, <3>1 DEF WriteRunRow, At, Live, Step, RecordsTyped
        <4>2. Step(q) = todo[q][1] /\ 1 \in 1 .. Len(todo[q])
          BY <4>1, TailOf DEF Step
        <4>3. Step(q) \in AfterResult
          BY <2>1, <4>2
        <4>4. Step(q).state = "succeeded"
          BY <4>1, <4>3 DEF AfterResult, AfterScene, StepsOf, WriteRun, Track
        <4> QED
          BY <2>3, <3>1, <4>4 DEF WriteRunRow, RecordsTyped
      <3> QED
        BY <2>1, <2>3, <3>1 DEF WriteRunRow, RecordsTyped
    <2>4. runs'[q] # "failed"
      BY <2>1, <2>2, <2>3, Writers
    <2>5. CASE Live(q)
      <3>1. todo[q] \in Seq(AnyStep) /\ todo[q] # <<>>
        BY <2>1, <2>5 DEF Live, RecordsTyped
      <3>2. \A i \in 1 .. Len(Tail(todo[q])) : Tail(todo[q])[i] \in AfterResult
        <4>1. \A i \in 1 .. Len(Tail(todo[q])) :
                 i + 1 \in 1 .. Len(todo[q]) /\ Tail(todo[q])[i] = todo[q][i + 1]
          BY <3>1, TailOf
        <4> QED
          BY <2>1, <4>1
      <3>3. \A i \in 1 .. Len(<<>>) : FALSE
        BY EmptySeq
      <3>4. PICK s : s = Returns("succeeded")
        OBVIOUS
      <3>5. \A i \in 1 .. Len(s) : s[i] \in AfterResult
        <4>1. Op("ack") \in StepsOf({"ack"})
          BY KindsOfSteps DEF StepsOf, PlainOps
        <4>2. /\ Op("ack") \in AfterResult /\ WriteRun("succeeded") \in AfterResult
              /\ Track("succeeded") \in AfterResult
          BY <4>1 DEF AfterResult
        <4>3. s = <<Op("ack"), WriteRun("succeeded"), Track("succeeded")>>
          BY <3>4 DEF Returns
        <4> QED
          BY <4>2, <4>3
      <3>6. todo'[q] \in {todo[q], Tail(todo[q]), <<>>, Returns("succeeded")}
        BY <1>1, <2>5, AfterScenePrograms
      <3> QED
        BY <2>1, <2>4, <3>2, <3>3, <3>4, <3>5, <3>6
    <2>6. CASE ~Live(q)
      <3>1. ASSUME NEW r \in Run, StartRun(r) PROVE todo'[q] = <<>>
        BY <2>1, <2>6, <3>1 DEF StartRun, Live, RecordsTyped
      <3>2. todo'[q] = <<>>
        BY <2>1, <2>6, <3>1, Moves DEF Live
      <3>3. \A i \in 1 .. Len(<<>>) : FALSE
        BY EmptySeq
      <3> QED
        BY <2>4, <3>2, <3>3
    <2> QED
      BY <2>5, <2>6
  <1>5. ASSUME NEW q \in Run, SceneReturns(q)
        PROVE  runs'[q] # "failed" /\ \A i \in 1 .. Len(todo'[q]) : todo'[q][i] \in AfterResult
    <2>1. /\ Live(q) /\ Step(q).op = "scene" /\ runs' = runs
          /\ todo' = [todo EXCEPT ![q] = Tail(todo[q])]
      BY <1>5 DEF SceneReturns, At, Step, records, Next1, Becomes
    <2>2. /\ runs[q] \in {"none", "running"}
          /\ \A i \in 1 .. Len(Tail(todo[q])) : Tail(todo[q])[i] \in AfterScene
      BY <2>1, HeadFacts
    <2>3. todo'[q] = Tail(todo[q])
      BY <2>1 DEF RecordsTyped
    <2> QED
      BY <2>1, <2>2, <2>3 DEF AfterResult
  <1>6. ASSUME NEW q \in done', q \notin done PROVE q \in Run /\ SceneReturns(q)
    BY <1>6, Writers DEF SceneReturns
  <1> QED
    BY <1>1, <1>2, <1>3, <1>4, <1>5, <1>6

\* What has been told stays told while the journals begin as they did.
LEMMA ToldKept ==
  ASSUME RecordsAssumption, ToldInv, version' = 1 => version = 1, checkpoint' = checkpoint,
         \A q \in Run : /\ journal'[q] = <<>> <=> journal[q] = <<>>
                        /\ journal[q] # <<>> => journal'[q][1] = journal[q][1]
                        /\ Broken(q)' <=> Broken(q)
  PROVE  ToldInv'
  <1> SUFFICES ASSUME version' = 1
               PROVE  /\ checkpoint' = NoCheckpoint \/ checkpoint'.version = 1
                      /\ \A r \in Run : Broken(r)' /\ (\A q \in Run : r < q => journal'[q] = <<>>)
                            => checkpoint' # NoCheckpoint
                      /\ \A r, q \in Run :
                            /\ r < q /\ journal'[q] # <<>>
                            /\ \A between \in r + 1 .. q - 1 : journal'[between] = <<>>
                            /\ Broken(r)'
                            => \/ journal'[q][1].kind = "run_restarted"
                               \/ journal'[q][1] = [kind |-> "run_terminated", stage |-> "none"]
    BY DEF ToldInv, InterruptionIsTold, Broken, NoCheckpoint, Ends
  <1>1. version = 1
    OBVIOUS
  <1>2. \A r, q \in Run : \A between \in r + 1 .. q - 1 : between \in Run
    BY DEF Run, RecordsAssumption
  <1>3. ASSUME NEW r \in Run, NEW q \in Run, r < q, journal'[q] # <<>>, Broken(r)',
               \A between \in r + 1 .. q - 1 : journal'[between] = <<>>
        PROVE  \/ journal'[q][1].kind = "run_restarted"
               \/ journal'[q][1] = [kind |-> "run_terminated", stage |-> "none"]
    <2>1. Broken(r) /\ journal[q] # <<>> /\ journal'[q][1] = journal[q][1]
      BY <1>3
    <2>2. \A between \in r + 1 .. q - 1 : journal[between] = <<>>
      BY <1>2, <1>3
    <2> QED
      BY <1>1, <1>3, <2>1, <2>2 DEF ToldInv, InterruptionIsTold, Broken
  <1> QED
    BY <1>1, <1>3 DEF ToldInv

\* The run at work writes an event.
LEMMA InsertTells ==
  ASSUME RecordsAssumption, RecordsInv, NEW r \in Run, InsertEvent(r)
  PROVE  ToldInv'
  <1> USE DEF RecordsInv
  <1>1. /\ Live(r) /\ Step(r).op = "journal" /\ Step(r) \in Journals
        /\ version' = version /\ checkpoint' = checkpoint
    <2>1. Live(r) /\ Step(r).op = "journal"
      BY DEF InsertEvent, At, Step
    <2> QED
      BY <2>1, HeadFacts, KindByOp DEF InsertEvent
  <1>2. CASE UNCHANGED journal
    BY <1>1, <1>2, ToldKept DEF Broken, Kinds
  <1>3. ASSUME Write(r, Step(r).kind, Step(r).stage) PROVE ToldInv'
    <2> DEFINE k == Step(r).kind
               g == Step(r).stage
    <2>1. k \in Events \cup {"observation"} /\ g \in Stages
      BY <1>1 DEF Journals
    <2>2. /\ journal'[r] # <<>>
          /\ journal'[r][1] = IF journal[r] = <<>> THEN [kind |-> k, stage |-> g] ELSE journal[r][1]
          /\ Kinds(r)' = Kinds(r) \cup {k}
          /\ \A q \in Run \ {r} : journal'[q] = journal[q] /\ Kinds(q)' = Kinds(q)
      BY <1>3, <2>1, Writing
    <2> HIDE DEF k, g
    <2>3. \A q \in Run : q > r => journal[q] = <<>>
      BY <1>1 DEF OneAtATime
    <2>4. \A q \in Run \ {r} : Broken(q)' <=> Broken(q)
      BY <2>2 DEF Broken, Ends
    <2>5. Broken(r)' => Broken(r) \/ k = "checkpoint_written"
      BY <2>2 DEF Broken, Ends
    <2> SUFFICES ASSUME version = 1
                 PROVE  /\ checkpoint = NoCheckpoint \/ checkpoint.version = 1
                        /\ \A a \in Run : Broken(a)' /\ (\A q \in Run : a < q => journal'[q] = <<>>)
                              => checkpoint # NoCheckpoint
                        /\ \A a, q \in Run :
                              /\ a < q /\ journal'[q] # <<>>
                              /\ \A between \in a + 1 .. q - 1 : journal'[between] = <<>>
                              /\ Broken(a)'
                              => \/ journal'[q][1].kind = "run_restarted"
                                 \/ journal'[q][1] = [kind |-> "run_terminated", stage |-> "none"]
      BY <1>1 DEF ToldInv, InterruptionIsTold, Broken, NoCheckpoint, Ends
    <2>6. ASSUME NEW a \in Run, Broken(a)', \A q \in Run : a < q => journal'[q] = <<>>
          PROVE  checkpoint # NoCheckpoint
      <3>1. \A q \in Run : a < q => journal[q] = <<>>
        BY <2>2, <2>6
      <3>2. CASE Broken(a)
        BY <3>1, <3>2 DEF ToldInv
      <3>3. CASE ~Broken(a)
        <4>1. a = r /\ k = "checkpoint_written"
          BY <2>4, <2>5, <2>6, <3>3
        <4>2. Step(r) \in Told
          BY <1>1, <4>1 DEF Told, k
        <4> QED
          BY <1>1, <4>2, HeadFacts
      <3> QED
        BY <3>2, <3>3
    <2>7. ASSUME NEW a \in Run, NEW q \in Run, a < q, journal'[q] # <<>>, Broken(a)',
                 \A between \in a + 1 .. q - 1 : journal'[between] = <<>>
          PROVE  \/ journal'[q][1].kind = "run_restarted"
                 \/ journal'[q][1] = [kind |-> "run_terminated", stage |-> "none"]
      <3>0. \A b \in Run : b \in Int
        BY DEF Run, RecordsAssumption
      <3>1. a # r
        BY <2>2, <2>3, <2>7, <3>0
      <3>2. Broken(a)
        BY <2>4, <2>7, <3>1
      <3>3. \A between \in a + 1 .. q - 1 : between \in Run
        BY <2>7 DEF Run, RecordsAssumption
      <3>4. \A between \in a + 1 .. q - 1 : journal[between] = <<>>
        BY <2>2, <2>7, <3>3
      <3>5. CASE journal[q] # <<>>
        <4>1. journal'[q][1] = journal[q][1]
          BY <2>2, <3>5
        <4> QED
          BY <2>7, <3>2, <3>4, <3>5, <4>1 DEF ToldInv, InterruptionIsTold, Broken
      <3>6. CASE journal[q] = <<>>
        <4>1. q = r
          BY <2>2, <2>7, <3>6
        <4>2. ASSUME NEW b \in Run, a < b PROVE journal[b] = <<>>
          <5>1. CASE b < r
            <6>1. b \in a + 1 .. q - 1
              BY <3>0, <4>1, <4>2, <5>1
            <6> QED
              BY <3>4, <6>1
          <5>2. CASE b > r
            BY <2>3, <5>2
          <5>3. b < r \/ b > r \/ b = r
            BY <3>0
          <5> QED
            BY <3>6, <4>1, <5>1, <5>2, <5>3
        <4>3. checkpoint # NoCheckpoint
          BY <3>2, <4>2 DEF ToldInv
        <4>4. Step(r) \in Telling
          BY <1>1, <3>6, <4>1, <4>3, HeadFacts
        <4>5. journal'[q][1] = [kind |-> k, stage |-> g]
          BY <2>2, <3>6, <4>1
        <4> QED
          BY <4>4, <4>5 DEF Telling, k, g
      <3> QED
        BY <3>5, <3>6
    <2> QED
      BY <2>6, <2>7 DEF ToldInv
  <1> QED
    BY <1>2, <1>3 DEF InsertEvent

LEMMA ToldStep ==
  ASSUME RecordsAssumption, RecordsInv, [RecordsNext]_recordVars
  PROVE  ToldInv'
  <1> USE DEF RecordsInv
  <1>1. ASSUME NEW r \in Run, InsertEvent(r) PROVE ToldInv'
    BY <1>1, InsertTells
  <1>2. ASSUME NEW r \in Run, Observe(r) PROVE ToldInv'
    <2>1. version' = version /\ checkpoint' = checkpoint /\ journal[r] # <<>>
      BY <1>2 DEF Observe, OneAtATime
    <2>2. CASE UNCHANGED journal
      BY <2>1, <2>2, ToldKept DEF Broken, Kinds
    <2>3. CASE Write(r, "observation", "scene_execute")
      <3>1. "observation" \in Events \cup {"observation"} /\ "scene_execute" \in Stages
        BY DEF Stages
      <3>2. /\ journal'[r] # <<>>
            /\ journal'[r][1] = journal[r][1]
            /\ Kinds(r)' = Kinds(r) \cup {"observation"}
            /\ \A q \in Run \ {r} : journal'[q] = journal[q] /\ Kinds(q)' = Kinds(q)
        BY <2>1, <2>3, <3>1, Writing
      <3>3. \A q \in Run : Broken(q)' <=> Broken(q)
        BY <3>2 DEF Broken, Ends
      <3> QED
        BY <2>1, <3>2, <3>3, ToldKept
    <2> QED
      BY <1>2, <2>2, <2>3 DEF Observe
  <1>3. ASSUME NEW r \in Run, WriteCheckpoint(r) PROVE ToldInv'
    <2>1. /\ journal' = journal /\ version' = version
          /\ checkpoint' = [stage |-> Step(r).stage, version |-> version]
      BY <1>3 DEF WriteCheckpoint
    <2>2. version' = 1 => checkpoint'.version = 1
      BY <2>1
    <2>3. version' = 1 => checkpoint' # NoCheckpoint
      BY <2>2 DEF NoCheckpoint
    <2>4. InterruptionIsTold'
      <3>1. \A q \in Run : Kinds(q)' = Kinds(q)
        BY <2>1 DEF Kinds
      <3>2. Ends' = Ends
        BY DEF Ends
      <3> QED
        BY <2>1, <3>1, <3>2 DEF ToldInv, InterruptionIsTold
    <2> QED
      BY <2>2, <2>3, <2>4 DEF ToldInv
  <1>4. ASSUME NEW r \in Run, ClearCheckpoint(r) PROVE ToldInv'
    <2>1. /\ journal' = journal /\ version' = version /\ checkpoint' = NoCheckpoint
          /\ Live(r) /\ Step(r).op = "clear"
      BY <1>4 DEF ClearCheckpoint, At, Step
    <2>2. Step(r) \in Clears
      BY <2>1, HeadFacts DEF Clears, StepsOf
    <2>3. version = 1 => Kinds(r) \cap Ends # {}
      BY <2>1, <2>2, HeadFacts
    <2>4. Kinds(r) # {} => journal[r] # <<>>
      BY DEF Kinds
    <2>5. ASSUME version = 1, NEW q \in Run, Broken(q), \A p \in Run : q < p => journal[p] = <<>>
          PROVE  FALSE
      <3>1. q # r
        BY <2>3, <2>5 DEF Broken
      <3>2. ~(q < r)
        BY <2>3, <2>4, <2>5
      <3>3. r < q
        BY <3>1, <3>2 DEF Run, RecordsAssumption
      <3>4. journal[q] = <<>>
        BY <2>1, <3>3 DEF OneAtATime
      <3>5. Kinds(q) = {}
        BY <3>4 DEF Kinds
      <3> QED
        BY <2>5, <3>5 DEF Broken
    <2>6. InterruptionIsTold'
      <3>1. \A q \in Run : Kinds(q)' = Kinds(q)
        BY <2>1 DEF Kinds
      <3>2. Ends' = Ends
        BY DEF Ends
      <3> QED
        BY <2>1, <3>1, <3>2 DEF ToldInv, InterruptionIsTold
    <2>7. \A q \in Run : Broken(q)' <=> Broken(q)
      BY <2>1 DEF Broken, Kinds, Ends
    <2> QED
      BY <2>1, <2>5, <2>6, <2>7 DEF ToldInv, NoCheckpoint
  <1>5. CASE UNCHANGED journal /\ UNCHANGED checkpoint
    <2>1. version' = 1 => version = 1
      BY Writers
    <2>2. \A q \in Run : Broken(q)' <=> Broken(q)
      BY <1>5 DEF Broken, Kinds, Ends
    <2> QED
      BY <1>5, <2>1, <2>2, ToldKept
  <1> QED
    BY <1>1, <1>2, <1>3, <1>4, <1>5, Writers

-----------------------------------------------------------------------------
(* The results *)

LEMMA RecordsStart ==
  ASSUME RecordsAssumption, RecordsInit
  PROVE  RecordsInv
  <1>1. \A r \in Run : todo[r] = <<>> /\ journal[r] = <<>> /\ runs[r] = "none" /\ tracked[r] = "none"
    BY DEF RecordsInit
  <1>2. RecordsTyped
    <2>1. <<>> \in Seq(AnyStep)
      BY EmptySeq
    <2>2. \A r \in Run : journal[r] \in Seq([kind : Events \cup {"observation"}, stage : Stages])
      BY <1>1, EmptySeq
    <2>3. checkpoint \in [stage : Stages, version : Versions \cup {0}]
      BY DEF RecordsInit, NoCheckpoint, Stages
    <2>4. seen \in [Run -> Int] /\ sequence \in Nat /\ version \in Versions
      BY DEF RecordsInit, Versions
    <2>5. runs \in [Run -> States] /\ tracked \in [Run -> States]
      BY DEF RecordsInit, States
    <2>6. target \in [Feedback -> Run \cup {NoRun}]
      BY DEF RecordsInit
    <2> QED
      BY <2>1, <2>2, <2>3, <2>4, <2>5, <2>6 DEF RecordsTyped, RecordsInit
  <1>3. OneAtATime
    BY <1>1 DEF OneAtATime, RecordsInit, Live
  <1>4. Programs
    BY <1>1, NothingIsOwed DEF Programs
  <1>5. ConsoleInv
    BY <1>1 DEF ConsoleInv, ConsoleNeverAhead
  <1>6. FeedbackInv
    BY DEF FeedbackInv, FeedbackLostOnlyByRestart, RecordsInit
  <1>7. ResultInv
    BY DEF ResultInv, RecordsInit
  <1>8. ToldInv
    <2>1. checkpoint = NoCheckpoint
      BY DEF RecordsInit
    <2>2. \A r \in Run : Kinds(r) = {}
      BY <1>1 DEF Kinds
    <2>3. \A r \in Run : ~Broken(r)
      BY <2>2 DEF Broken
    <2>4. InterruptionIsTold
      BY <1>1 DEF InterruptionIsTold
    <2> QED
      BY <2>1, <2>3, <2>4 DEF ToldInv
  <1> QED
    BY <1>2, <1>3, <1>4, <1>5, <1>6, <1>7, <1>8 DEF RecordsInv

LEMMA RecordsStep ==
  ASSUME RecordsAssumption, RecordsInv, [RecordsNext]_recordVars
  PROVE  RecordsInv'
  BY TypedStep, OneAtATimeStep, ProgramsStep, ConsoleStep, FeedbackStep, ResultStep, ToldStep
  DEF RecordsInv

LEMMA RecordsAlways == RecordsSpec => []RecordsInv
  <1>1. RecordsInit => RecordsInv
    BY RecordsStart, RecordsAssumption
  <1>2. RecordsInv /\ [RecordsNext]_recordVars => RecordsInv'
    BY RecordsStep, RecordsAssumption
  <1> QED
    BY <1>1, <1>2, PTL DEF RecordsSpec

\* A run that the console shows as ended has ended in the store, and in the same
\* way: _write_run comes before _track_run in every ending of drain_mr_actor, and a
\* tracked row is rewritten as stale only after its run was.
THEOREM ConsoleIsNeverAhead == RecordsSpec => []ConsoleNeverAhead
  <1>1. RecordsInv => ConsoleNeverAhead
    BY DEF RecordsInv, ConsoleInv
  <1> QED
    BY <1>1, RecordsAlways, PTL

\* What the webhook answered for stays on the row of its run, whatever the worker
\* writes there, except on a row that _update_tracked_run_state has copied and written
\* back for a run that was declared interrupted.
THEOREM FeedbackIsKept == RecordsSpec => []FeedbackLostOnlyByRestart
  <1>1. RecordsInv => FeedbackLostOnlyByRestart
    BY DEF RecordsInv, FeedbackInv
  <1> QED
    BY <1>1, RecordsAlways, PTL

\* A scene that returned a result is not recorded as failed, unless a background
\* observation wrote to the same journal: nothing else can raise after the scene.
THEOREM ResultsAreKept == RecordsSpec => []FailedDespiteResult
  <1>1. RecordsInv => FailedDespiteResult
    BY DEF RecordsInv, ResultInv, FailedDespiteResult
  <1> QED
    BY <1>1, RecordsAlways, PTL

\* After a run that wrote a checkpoint and did not end, the next run to write to the
\* journal tells of the restart first, while the worker stays the same build.
THEOREM InterruptionsAreTold == RecordsSpec => []InterruptionIsTold
  <1>1. RecordsInv => InterruptionIsTold
    BY DEF RecordsInv, ToldInv
  <1> QED
    BY <1>1, RecordsAlways, PTL

=============================================================================
