----------------------------- MODULE RunRecords -----------------------------
(***************************************************************************)
(* What is written down about the runs of one batch: the rows of the        *)
(* runtime store, the execution's journal and checkpoint, and the tracked   *)
(* rows of the control plane that the console shows and that feedback from  *)
(* GitLab is attached to.                                                    *)
(*                                                                          *)
(* A run is one pass of drain_mr_actor over the batch; the runs of a batch  *)
(* share their execution key, so they share the journal and the checkpoint. *)
(* The code of a pass is straight-line: `todo' holds the steps a run still  *)
(* has before it, and an exception replaces them.  A step is one            *)
(* transaction, or one call that may raise; a journal event takes two,      *)
(* because its sequence number is read in one and used in another.          *)
(* The queue itself is ActorRuntime's: here the batch is settled or not.    *)
(***************************************************************************)
EXTENDS Integers, FiniteSets, SequencesExt

CONSTANTS
    Scenes,          \* the scenes whose handlers keep a journal
    MaxRuns,         \* bound: runs of the batch
    MaxObservations, \* bound: background observations of a mention
    Feedback         \* notes and emoji that people leave on what was published

ASSUME RecordsAssumption ==
    /\ Scenes \subseteq {"auto_review", "mention", "daily_audit"}
    /\ {MaxRuns, MaxObservations} \subseteq Nat

Run == 1 .. MaxRuns
NoRun == 0   \* no run matched
NoCheckpoint == [stage |-> "none", version |-> 0]

VARIABLES
    \* The runtime store.
    runs,        \* runtime_runs: state of each run, "none" before it is written
    journal,     \* runtime_run_journal of the execution key: the events of each run
    sequence,    \* the highest sequence number in it
    checkpoint,  \* runtime_run_checkpoints of the execution key
    settled,     \* the batch is acked, or its retry budget is spent
    requested,   \* runtime_run_terminations
    scene,       \* the type of the batch's events
    \* The control plane.
    tracked,     \* tracked_runs.state
    published,   \* the runs with published_objects
    feedback,    \* tracked_runs.feedback_events_json
    \* The worker process.
    todo,        \* the steps each run still has before it
    seen,        \* the sequence a journal write has read, -1 before it has
    copy,        \* the feedback of a tracked row that a run has read
    observers,   \* the runs with a background observation task
    version,     \* the workflow version of the running build
    \* The web process.
    target,      \* the run that each feedback was matched with
    accepted,    \* the feedback that the webhook has answered for
    \* History.
    done,        \* the runs whose scene returned a result
    watched,     \* the runs that had a background observation
    declared     \* the runs declared interrupted

records == <<runs, journal, sequence, checkpoint, settled, requested, scene>>
plane   == <<tracked, published, feedback>>
worker  == <<todo, seen, copy, observers, version>>
web     == <<target, accepted>>
past    == <<done, watched, declared>>
recordVars == <<records, plane, worker, web, past>>

-----------------------------------------------------------------------------
(* The steps of a run *)

Op(o) == [op |-> o]
Journal(kind, stage) == [op |-> "journal", kind |-> kind, stage |-> stage]
Checkpoint(stage) == [op |-> "checkpoint", stage |-> stage]
WriteRun(state) == [op |-> "write", state |-> state]
Track(state) == [op |-> "track", state |-> state]

\* _write_run_checkpoint, then the stage_completed event.
Closes(stage) == <<Checkpoint(stage), Journal("checkpoint_written", stage),
                   Journal("stage_completed", stage)>>

\* The handlers.  A review and a mention compare the head they were asked for
\* with the head they find; a daily audit does not.  What raises before the try
\* is not journalled.
Preflight == <<Op("restart"), Journal("stage_started", "preflight"),
               Op("metadata")>> \o Closes("preflight")
Prepare == <<Op("try"), Journal("stage_started", "sandbox_prepare"),
             Op("sandbox")>> \o Closes("sandbox_prepare")
Completes == <<Journal("run_completed", "none"), Op("clear"), Op("leave")>>
\* The head has moved: the handler returns from before its try.
StaleResult == <<Journal("run_completed", "none"), Op("clear"), Op("try"), Op("leave")>>
Execute == <<Journal("stage_started", "scene_execute"), Op("scene")>>
               \o Closes("scene_execute") \o Completes
ReviewHandler == Preflight \o <<Op("compare")>> \o Prepare \o Execute
MentionHandler == Preflight \o <<Op("compare")>> \o Prepare \o Execute
AuditHandler == Preflight \o Prepare \o Execute
Handler == CASE scene = "auto_review" -> ReviewHandler
             [] scene = "mention" -> MentionHandler
             [] OTHER -> AuditHandler

\* The drain around the handler.
Opens == <<Op("priors"), WriteRun("running"), Track("running"), Op("check")>>
\* Mutant: the console is told before the store.
MutantReturns(state) == <<Op("ack"), Track(state), WriteRun(state)>>
Returns(state) == <<Op("ack"), WriteRun(state), Track(state)>>
Fails == <<Op("retry"), WriteRun("failed"), Track("failed")>>
Terminates == <<Op("ack"), WriteRun("terminated"),
                Journal("run_terminated", "none"), Op("clear"),
                Track("terminated")>>

Has(r, o) == \E i \in DOMAIN todo[r] : todo[r][i].op = o
Live(r) == todo[r] # <<>>
At(r, o) == Live(r) /\ Head(todo[r]).op = o
Step(r) == Head(todo[r])

\* Mutant: a failure clears the checkpoint, like a termination.
MutantOnFailure == <<Journal("run_failed", "scene_execute"), Op("clear"), Op("raise")>>
OnFailure == <<Journal("run_failed", "scene_execute"), Op("raise")>>
OnTermination == <<Journal("run_terminated", "scene_execute"), Op("clear"),
                   Op("raise")>>
\* What becomes of a run's steps when one of them raises: in the try of the
\* handler the failure is journalled first; in the drain's own code the drain
\* ends, with its run as it was.
AfterRaise(r) ==
    IF Has(r, "leave")
    THEN IF Has(r, "try") THEN Fails ELSE OnFailure \o Fails
    ELSE IF Has(r, "raise") THEN Fails ELSE <<>>

Becomes(r, s) == todo' = [todo EXCEPT ![r] = s]
Next1(r) == Becomes(r, Tail(todo[r]))
Raise(r) == Becomes(r, AfterRaise(r))

-----------------------------------------------------------------------------
(* The drain *)

RecordsInit ==
    /\ runs = [r \in Run |-> "none"] /\ tracked = [r \in Run |-> "none"]
    /\ journal = [r \in Run |-> <<>>] /\ sequence = 0 /\ checkpoint = NoCheckpoint
    /\ settled = FALSE /\ requested = {} /\ scene \in Scenes
    /\ published = {} /\ feedback = [r \in Run |-> {}]
    /\ todo = [r \in Run |-> <<>>] /\ seen = [r \in Run |-> -1]
    /\ copy = [r \in Run |-> {}] /\ observers = {}
    /\ version = 1
    /\ target = [f \in Feedback |-> NoRun] /\ accepted = {}
    /\ done = {} /\ watched = {} /\ declared = {}

\* The next pass over the batch.  The lease keeps it from starting while another
\* pass is at work, which is what ActorRuntime is about.
StartRun(r) ==
    /\ ~settled /\ runs[r] = "none" /\ \A q \in Run : ~Live(q)
    /\ \A q \in Run : q < r => runs[q] # "none"
    /\ todo' = [todo EXCEPT ![r] = Opens \o Handler]
    /\ UNCHANGED <<records, plane, seen, copy, observers, version, web, done,
                   watched, declared>>

\* _mark_interrupted_prior_runs_stale lists the runs of this execution key that
\* are running; each of them is rewritten in the store, then in the tracking.
Stales(q) == <<[op |-> "stale", prior |-> q], [op |-> "copy", prior |-> q],
               [op |-> "overwrite", prior |-> q]>>
ListPriors(r) ==
    /\ At(r, "priors")
    /\ LET listed == {q \in Run \ {r} : runs[q] = "running"}
           two == \E q1, q2 \in listed : q1 # q2
       IN \E s \in [1 .. Cardinality(listed) -> listed] :
             /\ {s[i] : i \in DOMAIN s} = listed
             /\ Becomes(r, (IF s = <<>> THEN <<>>
                            ELSE IF two THEN Stales(s[1]) \o Stales(s[2])
                            ELSE Stales(s[1])) \o Tail(todo[r]))
    /\ UNCHANGED <<records, plane, seen, copy, observers, version, web, past>>

StalePrior(r) ==
    /\ At(r, "stale")
    /\ runs' = [runs EXCEPT ![Step(r).prior] = "stale"]
    /\ declared' = declared \cup {Step(r).prior}
    /\ Next1(r)
    /\ UNCHANGED <<journal, sequence, checkpoint, settled, requested, scene, plane, seen, copy,
                   observers, version, web, done, watched>>

\* _update_tracked_run_state: get_run, then record_run of the whole row.
CopyTracked(r) ==
    /\ At(r, "copy")
    /\ IF tracked[Step(r).prior] = "none"
       THEN Becomes(r, Tail(Tail(todo[r]))) /\ UNCHANGED copy
       ELSE Next1(r) /\ copy' = [copy EXCEPT ![r] = feedback[Step(r).prior]]
    /\ UNCHANGED <<records, plane, seen, observers, version, web, past>>

OverwriteTracked(r) ==
    /\ At(r, "overwrite")
    /\ tracked' = [tracked EXCEPT ![Step(r).prior] = "stale"]
    /\ feedback' = [feedback EXCEPT ![Step(r).prior] = copy[r]]
    /\ copy' = [copy EXCEPT ![r] = {}]
    /\ Next1(r)
    /\ UNCHANGED <<records, published, seen, observers, version, web, past>>

WriteRunRow(r) ==
    /\ At(r, "write")
    /\ runs' = [runs EXCEPT ![r] = Step(r).state]
    /\ Next1(r)
    /\ UNCHANGED <<journal, sequence, checkpoint, settled, requested, scene, plane, seen, copy,
                   observers, version, web, past>>

\* _track_run and _track_run_started: record_run of a payload without the lists,
\* which keeps those of the row.
\* Mutant: a payload without lists empties them.
MutantKept(r) == {}
Kept(r) == feedback[r]
TrackRun(r) ==
    /\ At(r, "track")
    /\ tracked' = [tracked EXCEPT ![r] = Step(r).state]
    /\ feedback' = [feedback EXCEPT ![r] = Kept(r)]
    /\ Next1(r)
    /\ UNCHANGED <<records, published, seen, copy, observers, version, web, past>>

\* A termination that was asked for before the handler is called.
CheckBeforeHandler(r) ==
    /\ At(r, "check")
    /\ IF r \in requested THEN Becomes(r, Terminates) ELSE Next1(r)
    /\ UNCHANGED <<records, plane, seen, copy, observers, version, web, past>>

EnterTry(r) ==
    /\ At(r, "try")
    /\ Next1(r)
    /\ UNCHANGED <<records, plane, seen, copy, observers, version, web, past>>

AckBatch(r) ==
    /\ At(r, "ack")
    /\ settled' = TRUE
    /\ Next1(r)
    /\ UNCHANGED <<runs, journal, sequence, checkpoint, requested, scene, plane, seen, copy,
                   observers, version, web, past>>

\* mark_inflight_failed: the batch is tried again, or its budget is spent.
MarkFailed(r) ==
    /\ At(r, "retry")
    /\ settled' \in {settled, TRUE}
    /\ Next1(r)
    /\ UNCHANGED <<runs, journal, sequence, checkpoint, requested, scene, plane, seen, copy,
                   observers, version, web, past>>

-----------------------------------------------------------------------------
(* Journal and checkpoints *)

\* SELECT MAX(sequence), then INSERT under the next one: there is no transaction
\* around the two, and the primary key refuses a number that is taken.
\* Mutant: the number is taken from a listing of the journal that is limited.
MutantLastSequence == IF sequence > 9 THEN 9 ELSE sequence
LastSequence == sequence
Write(r, kind, stage) ==
    /\ journal' = [journal EXCEPT ![r] = Append(@, [kind |-> kind, stage |-> stage])]
    /\ sequence' = sequence + 1
\* While r is the only writer of the journal the two are one step.
Alone == observers = {}
ReadSequence(r) ==
    /\ At(r, "journal") /\ seen[r] = -1 /\ ~Alone
    /\ seen' = [seen EXCEPT ![r] = LastSequence]
    /\ UNCHANGED <<records, plane, todo, copy, observers, version, web, past>>

InsertEvent(r) ==
    /\ At(r, "journal") /\ (seen[r] # -1 \/ Alone)
    /\ seen' = [seen EXCEPT ![r] = -1]
    /\ IF sequence = (IF seen[r] = -1 THEN LastSequence ELSE seen[r])
       THEN Write(r, Step(r).kind, Step(r).stage) /\ Next1(r)
       ELSE Raise(r) /\ UNCHANGED <<journal, sequence>>
    /\ UNCHANGED <<runs, checkpoint, settled, requested, scene, plane, copy, observers,
                   version, web, past>>

WriteCheckpoint(r) ==
    /\ At(r, "checkpoint")
    /\ checkpoint' = [stage |-> Step(r).stage, version |-> version]
    /\ Next1(r)
    /\ UNCHANGED <<runs, journal, sequence, settled, requested, scene, plane, seen, copy,
                   observers, version, web, past>>

ClearCheckpoint(r) ==
    /\ At(r, "clear")
    /\ checkpoint' = NoCheckpoint
    /\ Next1(r)
    /\ UNCHANGED <<runs, journal, sequence, settled, requested, scene, plane, seen, copy,
                   observers, version, web, past>>

\* _record_restart_if_needed.  The stages are run again from the first one: the
\* checkpoint of the same build is only told of, that of another one is cleared.
RecordRestart(r) ==
    /\ At(r, "restart")
    /\ LET told == <<Journal("run_restarted", checkpoint.stage)>>
       IN Becomes(r, (IF checkpoint = NoCheckpoint THEN <<>>
                      ELSE IF checkpoint.version # version THEN <<Op("clear")>> \o told
                      ELSE told) \o Tail(todo[r]))
    /\ UNCHANGED <<records, plane, seen, copy, observers, version, web, past>>

-----------------------------------------------------------------------------
(* The handlers' own work *)

Works == {"metadata", "sandbox", "scene"}

\* GitLab, the sandbox or the scene raises.
WorkRaises(r) ==
    /\ \E o \in Works : At(r, o)
    /\ Raise(r)
    /\ UNCHANGED <<records, plane, seen, copy, observers, version, web, past>>

WorkReturns(r) ==
    /\ At(r, "metadata") \/ At(r, "sandbox")
    /\ Next1(r)
    /\ UNCHANGED <<records, plane, seen, copy, observers, version, web, past>>

\* The head has moved since the webhook: the run is over, and is stale.
CompareHead(r) ==
    /\ At(r, "compare")
    /\ \/ Next1(r)
       \/ Becomes(r, StaleResult)
    /\ UNCHANGED <<records, plane, seen, copy, observers, version, web, past>>

ScenePublishes(r) ==
    /\ At(r, "scene") /\ r \notin published
    /\ published' = published \cup {r}
    /\ UNCHANGED <<records, tracked, feedback, worker, web, past>>

SceneReturns(r) ==
    /\ At(r, "scene")
    /\ done' = done \cup {r}
    /\ Next1(r)
    /\ UNCHANGED <<records, plane, seen, copy, observers, version, web, watched,
                   declared>>

\* The termination middleware raises RunTerminationRequested in the scene.
SceneTerminated(r) ==
    /\ At(r, "scene") /\ r \in requested
    /\ Becomes(r, OnTermination \o Terminates)
    /\ UNCHANGED <<records, plane, seen, copy, observers, version, web, past>>

\* The handler has returned or re-raised: the drain goes on.
LeaveHandler(r) ==
    /\ \/ At(r, "raise") /\ Next1(r)
       \/ /\ At(r, "leave")
          /\ Becomes(r, Returns(IF r \in done THEN "succeeded" ELSE "stale"))
    /\ UNCHANGED <<records, plane, seen, copy, observers, version, web, past>>

\* schedule_runtime_observation: a task that nobody awaits.
ScheduleObservation(r) ==
    /\ scene = "mention" /\ At(r, "scene")
    /\ Cardinality(watched) < MaxObservations /\ r \notin watched
    /\ observers' = observers \cup {r}
    /\ watched' = watched \cup {r}
    /\ UNCHANGED <<records, plane, todo, seen, copy, version, web, done,
                   declared>>

\* The task writes its event, or loses the sequence number to another writer:
\* nobody hears of its exception.
Observe(r) ==
    /\ r \in observers
    /\ observers' = observers \ {r}
    /\ \/ Write(r, "observation", "scene_execute")
       \/ UNCHANGED <<journal, sequence>>
    /\ UNCHANGED <<runs, checkpoint, settled, requested, scene, plane, todo, seen, copy,
                   version, web, past>>

-----------------------------------------------------------------------------
(* The web process, crashes *)

\* request_run_termination of a running run; it makes no difference before the
\* two places that look for it.
RequestTermination(r) ==
    /\ runs[r] = "running" /\ r \notin requested
    /\ At(r, "check") \/ At(r, "scene")
    /\ requested' = requested \cup {r}
    /\ UNCHANGED <<runs, journal, sequence, checkpoint, settled, scene, plane, worker, web, past>>

\* _find_feedback_target_run: the run that published what the feedback is about;
\* else, for a merge request, a review that is tracked as succeeded.
MatchFeedback(f) ==
    /\ target[f] = NoRun
    /\ \E r \in Run :
          /\ r \in published \/ (scene = "auto_review" /\ tracked[r] = "succeeded")
          /\ target' = [target EXCEPT ![f] = r]
    /\ UNCHANGED <<records, plane, worker, accepted, past>>

AppendFeedback(f) ==
    /\ target[f] # NoRun /\ f \notin accepted
    /\ feedback' = [feedback EXCEPT ![target[f]] = @ \cup {f}]
    /\ accepted' = accepted \cup {f}
    /\ UNCHANGED <<records, tracked, published, worker, target, past>>

\* The worker dies; it may come back as another build.
WorkerDies ==
    /\ \E r \in Run : Live(r)
    /\ todo' = [r \in Run |-> <<>>] /\ seen' = [r \in Run |-> -1]
    /\ copy' = [r \in Run |-> {}] /\ observers' = {}
    /\ version' \in {version, 2}
    /\ UNCHANGED <<records, plane, web, past>>

DrainStep(r) ==
    \/ StartRun(r) \/ ListPriors(r) \/ StalePrior(r) \/ CopyTracked(r)
    \/ OverwriteTracked(r) \/ WriteRunRow(r) \/ TrackRun(r)
    \/ CheckBeforeHandler(r) \/ EnterTry(r) \/ AckBatch(r)
    \/ MarkFailed(r)
HandlerStep(r) ==
    \/ ReadSequence(r) \/ InsertEvent(r) \/ WriteCheckpoint(r)
    \/ ClearCheckpoint(r) \/ RecordRestart(r) \/ WorkRaises(r)
    \/ WorkReturns(r) \/ CompareHead(r) \/ ScenePublishes(r)
    \/ SceneReturns(r) \/ SceneTerminated(r) \/ LeaveHandler(r)
    \/ ScheduleObservation(r)

RecordsNext ==
    \/ \E r \in Run : DrainStep(r) \/ HandlerStep(r) \/ Observe(r)
                        \/ RequestTermination(r)
    \/ \E f \in Feedback : MatchFeedback(f) \/ AppendFeedback(f)
    \/ WorkerDies

RecordsSpec == RecordsInit /\ [][RecordsNext]_recordVars

-----------------------------------------------------------------------------
(* Properties *)

\* Feedback that the webhook answered for stays on its run, unless the worker
\* declared that run interrupted: it reads the tracked row and writes all of it
\* back (_update_tracked_run_state), while the web process appends to it.
FeedbackLostOnlyByRestart ==
    \A f \in accepted : f \in feedback[target[f]] \/ target[f] \in declared

\* The console is never ahead of the store: a run it shows as ended has ended,
\* and in the same way.
ConsoleNeverAhead ==
    \A r \in Run :
        tracked[r] \notin {"none", "running"} =>
            /\ runs[r] \notin {"none", "running"}
            /\ tracked[r] = runs[r]

\* An interruption is told of: after a run that wrote a checkpoint and did not
\* come to its end, the next run to write to the journal begins with
\* run_restarted, or is terminated before its handler is called.  After an update of the
\* worker this may be lost: the old checkpoint is cleared before the journal says so.
Ends == {"run_completed", "run_terminated"}
Kinds(r) == {journal[r][i].kind : i \in DOMAIN journal[r]}
InterruptionIsTold ==
    version = 1 =>
        \A r, q \in Run :
            /\ r < q /\ journal[q] # <<>>
            /\ \A between \in r + 1 .. q - 1 : journal[between] = <<>>
            /\ "checkpoint_written" \in Kinds(r) /\ Kinds(r) \cap Ends = {}
            => \/ journal[q][1].kind = "run_restarted"
               \/ journal[q][1] = [kind |-> "run_terminated", stage |-> "none"]

\* A scene that returned a result is recorded as failed only when the journal
\* had a second writer, a background observation, which took the sequence
\* number from under the run.
FailedDespiteResult ==
    \A r \in done : runs[r] = "failed" => watched # {}
=============================================================================
