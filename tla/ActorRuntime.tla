---------------------------- MODULE ActorRuntime ----------------------------
(***************************************************************************)
(* The durable actor runtime of agent/runtime: the row a merge request      *)
(* (an "actor") has in the SQLite store, the drains of the worker process   *)
(* that work through it (drain_mr_actor), the resume poll that wakes them,  *)
(* and the webhook and admin requests that add, cancel and terminate work.  *)
(*                                                                          *)
(* One actor is modelled: every store operation takes one actor_key and     *)
(* touches that row only, so the actors of a store do not interact.         *)
(* Each action is one transaction of the store (BEGIN IMMEDIATE ... commit) *)
(* with the code that runs up to the next await.  A drain is named by its   *)
(* worker_id, which is fresh per call of drain_mr_actor.                    *)
(***************************************************************************)
EXTENDS Naturals, Integers, FiniteSets, SequencesExt

CONSTANTS
    Event,        \* event ids; an id is accepted once (runtime_seen_event_ids)
    EventType,    \* [Event -> {"auto_review", "mention", "other"}]
    Discussion,   \* [Event -> discussion ids], NoDiscussion when there is none
    NoDiscussion,
    ReceivedAt,   \* [Event -> Int], seconds
    BatchWindow,  \* MENTION_BATCH_WINDOW_SECONDS
    FromWorker,   \* the events the worker process itself enqueues
    Controllable, \* the events an admin may cancel or terminate
    Drain,        \* worker ids
    NoOne,        \* "the lease has no owner"
    MaxAttempts,  \* RUNTIME_MAX_EVENT_ATTEMPTS
    Outcomes,     \* terminal states a handler's result may map to
    MaxCrashes,   \* bound: process crashes
    MaxFaults,    \* bound: store transactions that raise, tasks cancelled
    MaxStalls     \* bound: live drains that outlive their lease for no fault

ASSUME MaxAttemptsAssumption == MaxAttempts \in Nat \ {0}
ASSUME BoundsAssumption == {MaxCrashes, MaxFaults, MaxStalls} \subseteq Nat
ASSUME DrainAssumption == NoOne \notin Drain
ASSUME EventAssumption ==
    /\ EventType \in [Event -> {"auto_review", "mention", "other"}]
    /\ ReceivedAt \in [Event -> Int]
    /\ BatchWindow \in Int
    /\ FromWorker \subseteq Event
    /\ Controllable \subseteq Event

TerminalStates ==
    {"succeeded", "failed", "exhausted", "skipped", "stale", "terminated"}
RunStates == TerminalStates \cup {"running"}
ASSUME OutcomesAssumption == Outcomes \subseteq TerminalStates

VARIABLES
    \* The actor's row of runtime_actor_state.
    pending,      \* events_json
    inflight,     \* inflight_json
    scheduled,    \* the scheduled flag
    owner,        \* lease_owner
    expired,      \* lease_expires_at has passed
    \* The rest of the store.
    attempts,     \* _runtime_attempts in the payload of each event
    runs,         \* runtime_runs, in the order the runs were first written
    termReq,      \* runtime_run_terminations
    \* The worker process.
    pc,           \* where each drain is
    batch,        \* the batch each drain popped
    run,          \* the index in runs of each drain's run
    verdict,      \* the state each drain will write for its run
    priors,       \* the interrupted runs each drain has listed
    heartbeat,    \* each drain's heartbeat task
    resume,       \* where the resume poll is
    \* enqueue_gitlab_event calls between append_event and mark_actor_scheduled.
    marking,
    \* History, for the properties: what became of each event, which events a
    \* handler finished or a termination covered, how often a handler raised.
    fate, served, failures,
    \* Bounds.
    crashes, faults, stalls

row      == <<pending, inflight, scheduled, owner, expired>>
records  == <<attempts, runs, termReq>>
locals   == <<batch, run, verdict, priors>>
requests == <<resume, marking>>
history  == <<fate, served, failures>>
bounds   == <<crashes, faults, stalls>>
vars     == <<row, records, pc, locals, heartbeat, requests, history, bounds>>

Fates == {"unseen", "queued", "acked", "dead", "cancelled"}

PCs == {"idle", "acquire", "restore", "pop", "start", "check", "beat", "run",
        "finalbeat", "ack", "record", "renew", "ackTerminated",
        "recordTerminated", "fail", "recordFailed", "release", "clear", "has",
        "mark"}

\* The body of drain_mr_actor's try: from the acquired lease to the finally.
InBody == PCs \ {"idle", "acquire", "release", "clear", "has", "mark"}
InFinally == {"release", "clear", "has", "mark"}

Init ==
    /\ pending = <<>> /\ inflight = <<>>
    /\ scheduled = FALSE /\ owner = NoOne /\ expired = FALSE
    /\ attempts = [e \in Event |-> 0]
    /\ runs = <<>> /\ termReq = {}
    /\ pc = [d \in Drain |-> "idle"]
    /\ batch = [d \in Drain |-> <<>>]
    /\ run = [d \in Drain |-> 0]
    /\ verdict = [d \in Drain |-> "running"]
    /\ priors = [d \in Drain |-> {}]
    /\ heartbeat = [d \in Drain |-> "off"]
    /\ resume = "scan" /\ marking = {}
    /\ fate = [e \in Event |-> "unseen"]
    /\ served = {} /\ failures = [e \in Event |-> 0]
    /\ crashes = 0 /\ faults = 0 /\ stalls = 0

-----------------------------------------------------------------------------
(* Helpers *)

\* An event that the queue still holds, and the events of a sequence.
Queued(e) == fate[e] = "queued"
Settle(s, f) == [e \in Event |-> IF e \in ToSet(s) THEN f ELSE fate[e]]

\* The drain leaves the body of its try; its locals are dead.
Leave(d, to) ==
    /\ pc' = [pc EXCEPT ![d] = to]
    /\ batch' = [batch EXCEPT ![d] = <<>>]
    /\ run' = [run EXCEPT ![d] = 0]
    /\ verdict' = [verdict EXCEPT ![d] = "running"]
    /\ priors' = [priors EXCEPT ![d] = {}]

Goto(d, to) == pc' = [pc EXCEPT ![d] = to]

SetHeartbeat(d, to) == heartbeat' = [heartbeat EXCEPT ![d] = to]

\* A worker id no task is using and the lease does not remember.
Unused(d) == pc[d] = "idle" /\ heartbeat[d] = "off" /\ owner # d

\* A mention joins the batch when it is in the first one's discussion and
\* close enough in time to the one before it.
ShouldBatchMentions(first, previous, next) ==
    /\ EventType[first] = "mention" /\ Discussion[first] # NoDiscussion
    /\ EventType[next] = "mention" /\ Discussion[next] = Discussion[first]
    /\ BatchWindow <= 0 \/ ReceivedAt[next] - ReceivedAt[previous] <= BatchWindow

CanJoin(q, i) ==
    \/ EventType[q[1]] = "auto_review" /\ EventType[q[i]] = "auto_review"
    \/ ShouldBatchMentions(q[1], q[i-1], q[i])

\* n events of the queue q make the next batch.
IsNextBatch(q, n) ==
    /\ n \in 1..Len(q)
    /\ \A i \in 2..n : CanJoin(q, i)
    /\ n < Len(q) => ~CanJoin(q, n + 1)

-----------------------------------------------------------------------------
(* Requests: the webhook, the worker's own enqueuers, the admin console *)

\* enqueue_gitlab_event, first transaction.  An event id already seen returns
\* without a change, so a redelivered webhook is no step of the model.
AppendEvent(e) ==
    /\ fate[e] = "unseen"
    /\ pending' = Append(pending, e)
    /\ fate' = [fate EXCEPT ![e] = "queued"]
    /\ marking' = marking \cup {e}
    /\ UNCHANGED <<inflight, scheduled, owner, expired, records, pc, locals,
                   heartbeat, resume, served, failures, bounds>>

\* enqueue_gitlab_event, second transaction.  Only the worker's queue starts a
\* drain (ImmediateJobQueue); the web process has a PassiveJobQueue.
MarkScheduled(e) ==
    /\ e \in marking
    /\ marking' = marking \ {e}
    /\ scheduled' = TRUE
    /\ IF ~scheduled /\ e \in FromWorker
       THEN \E d \in Drain : Unused(d) /\ Goto(d, "acquire")
       ELSE UNCHANGED pc
    /\ UNCHANGED <<pending, inflight, owner, expired, records, locals,
                   heartbeat, resume, history, bounds>>

\* remove_pending_event: an admin cancels one queued event, or the terminate
\* endpoint sweeps the ones it listed.
RemovePendingEvent(e) ==
    /\ e \in Controllable
    /\ e \notin ToSet(inflight)
    /\ \E i \in DOMAIN pending :
          pending[i] = e /\ pending' = RemoveAt(pending, i)
    /\ fate' = [fate EXCEPT ![e] = "cancelled"]
    /\ UNCHANGED <<inflight, scheduled, owner, expired, records, pc, locals,
                   heartbeat, requests, served, failures, bounds>>

\* The terminate endpoint, for a run its list shows running.  The sweep of
\* the pending events that follows is RemovePendingEvent, one call per event.
RequestRunTermination(r) ==
    /\ r \in DOMAIN runs
    /\ runs[r].state = "running"
    /\ runs[r].events[1] \in Controllable
    /\ termReq' = termReq \cup {r}
    /\ UNCHANGED <<row, attempts, runs, pc, locals, heartbeat, requests,
                   history, bounds>>

-----------------------------------------------------------------------------
(* The resume poll: resume_runtime_processing, once a second *)

\* Mutant: an actor with nothing but an interrupted batch is not resumed.
ResumeScanPendingOnly ==
    /\ resume = "scan"
    /\ pending # <<>> \/ scheduled
    /\ resume' = "clear"
    /\ UNCHANGED <<row, records, pc, locals, heartbeat, marking, history, bounds>>

ResumeScan ==
    /\ resume = "scan"
    /\ pending # <<>> \/ inflight # <<>> \/ scheduled
    /\ resume' = "clear"
    /\ UNCHANGED <<row, records, pc, locals, heartbeat, marking, history, bounds>>

ResumeClear ==
    /\ resume = "clear"
    /\ scheduled' = FALSE
    /\ resume' = "mark"
    /\ UNCHANGED <<pending, inflight, owner, expired, records, pc, locals,
                   heartbeat, marking, history, bounds>>

ResumeMark ==
    /\ resume = "mark"
    /\ resume' = "scan"
    /\ scheduled' = TRUE
    /\ IF scheduled
       THEN UNCHANGED pc
       ELSE \E d \in Drain : Unused(d) /\ Goto(d, "acquire")
    /\ UNCHANGED <<pending, inflight, owner, expired, records, locals,
                   heartbeat, marking, history, bounds>>

-----------------------------------------------------------------------------
(* drain_mr_actor: taking the lease and a batch *)

\* acquire_lease.  Refused when another owner's lease is unexpired; the drain
\* then returns before its try, so nothing is cleared.
AcquireLease(d) ==
    /\ pc[d] = "acquire"
    /\ IF owner \notin {NoOne, d} /\ ~expired
       THEN Goto(d, "idle") /\ UNCHANGED <<owner, expired>>
       ELSE Goto(d, "restore") /\ owner' = d /\ expired' = FALSE
    /\ UNCHANGED <<pending, inflight, scheduled, records, locals, heartbeat,
                   requests, history, bounds>>

\* Mutants: the restored batch stays in inflight, or goes to the back.
RestoreAs(d, events, left) ==
    /\ pc[d] = "restore"
    /\ pending' = events /\ inflight' = left
    /\ Goto(d, "pop")
    /\ UNCHANGED <<scheduled, owner, expired, records, locals, heartbeat,
                   requests, history, bounds>>
RestoreKeepsInflight(d) == RestoreAs(d, inflight \o pending, inflight)
RestoreAtBack(d) == RestoreAs(d, pending \o inflight, <<>>)

\* restore_inflight puts an interrupted batch back in front.
RestoreInflight(d) ==
    /\ pc[d] = "restore"
    /\ pending' = inflight \o pending
    /\ inflight' = <<>>
    /\ Goto(d, "pop")
    /\ UNCHANGED <<scheduled, owner, expired, records, locals, heartbeat,
                   requests, history, bounds>>

\* pop_next_batch with nothing to hand out: the loop breaks to the finally.
PopNothing(d) ==
    /\ pc[d] = "pop"
    /\ inflight # <<>> \/ pending = <<>>
    /\ Leave(d, "release")
    /\ UNCHANGED <<row, records, heartbeat, requests, history, bounds>>

\* pop_next_batch, and the listing of the runs the same batch left running.
PopNextBatch(d) ==
    /\ pc[d] = "pop"
    /\ inflight = <<>>
    /\ \E n \in 1..Len(pending) :
          /\ IsNextBatch(pending, n)
          /\ inflight' = SubSeq(pending, 1, n)
          /\ pending' = SubSeq(pending, n + 1, Len(pending))
    /\ batch' = [batch EXCEPT ![d] = inflight']
    /\ Goto(d, "start")
    /\ priors' = [priors EXCEPT ![d] = {r \in DOMAIN runs :
                      runs[r].events = inflight' /\ runs[r].state = "running"}]
    /\ UNCHANGED <<scheduled, owner, expired, records, run, verdict, heartbeat,
                   requests, history, bounds>>

\* _mark_interrupted_prior_runs_stale writes the runs it listed, one by one.
MarkPriorStale(d) ==
    /\ pc[d] = "start"
    /\ \E r \in priors[d] :
          /\ runs' = [runs EXCEPT ![r].state = "stale"]
          /\ priors' = [priors EXCEPT ![d] = @ \ {r}]
    /\ UNCHANGED <<row, attempts, termReq, pc, batch, run, verdict, heartbeat,
                   requests, history, bounds>>

\* write_run of the new record.
StartRun(d) ==
    /\ pc[d] = "start"
    /\ priors[d] = {}
    /\ runs' = Append(runs, [events |-> batch[d], state |-> "running"])
    /\ run' = [run EXCEPT ![d] = Len(runs) + 1]
    /\ Goto(d, "check")
    /\ UNCHANGED <<row, attempts, termReq, batch, verdict, priors, heartbeat,
                   requests, history, bounds>>

\* Mutant: any termination request of the actor ends the run.
CheckAnyTermination(d) ==
    /\ pc[d] = "check"
    /\ IF termReq # {}
       THEN /\ Goto(d, "ackTerminated")
            /\ verdict' = [verdict EXCEPT ![d] = "terminated"]
       ELSE Goto(d, "beat") /\ UNCHANGED verdict
    /\ served' = IF run[d] \in termReq THEN served \cup ToSet(batch[d]) ELSE served
    /\ UNCHANGED <<row, records, batch, run, priors, heartbeat, requests, fate,
                   failures, bounds>>

\* get_run_termination before the handler starts.
CheckTermination(d) ==
    /\ pc[d] = "check"
    /\ IF run[d] \in termReq
       THEN /\ Goto(d, "ackTerminated")
            /\ verdict' = [verdict EXCEPT ![d] = "terminated"]
            /\ served' = served \cup ToSet(batch[d])
       ELSE Goto(d, "beat") /\ UNCHANGED <<verdict, served>>
    /\ UNCHANGED <<row, records, batch, run, priors, heartbeat, requests, fate,
                   failures, bounds>>

\* heartbeat_lease by d: renews a lease that is still d's, expired or not.
Renew(d) == expired' = IF owner = d THEN FALSE ELSE expired

\* The renewal before the handler, whose answer is not looked at, and the
\* start of the heartbeat task.
FirstHeartbeat(d) ==
    /\ pc[d] = "beat"
    /\ Renew(d)
    /\ SetHeartbeat(d, "on")
    /\ Goto(d, "run")
    /\ UNCHANGED <<pending, inflight, scheduled, owner, records, locals,
                   requests, history, bounds>>

-----------------------------------------------------------------------------
(* drain_mr_actor: while the handler runs *)

\* One turn of _lease_heartbeat_loop.  A refused renewal ends the task.
Heartbeat(d) ==
    /\ heartbeat[d] = "on"
    /\ Renew(d)
    /\ SetHeartbeat(d, IF owner = d THEN "on" ELSE "off")
    /\ UNCHANGED <<pending, inflight, scheduled, owner, records, pc, locals,
                   requests, history, bounds>>

\* The heartbeat's transaction raises ("database is locked"): the task dies
\* with the exception, and nobody looks until the handler is over.
HeartbeatRaises(d) ==
    /\ heartbeat[d] = "on"
    /\ faults < MaxFaults
    /\ faults' = faults + 1
    /\ SetHeartbeat(d, IF pc[d] \in InBody THEN "failed" ELSE "off")
    /\ UNCHANGED <<row, records, pc, locals, requests, history, crashes, stalls>>

\* Mutant: the handler's own status is recorded, not the state it maps to.
HandlerStatusRecorded(d) ==
    /\ pc[d] = "run"
    /\ verdict' = [verdict EXCEPT ![d] = "published"]
    /\ served' = served \cup ToSet(batch[d])
    /\ Goto(d, "finalbeat")
    /\ UNCHANGED <<row, records, batch, run, priors, heartbeat, requests, fate,
                   failures, bounds>>

HandlerReturns(d) ==
    /\ pc[d] = "run"
    /\ \E v \in Outcomes : verdict' = [verdict EXCEPT ![d] = v]
    /\ served' = served \cup ToSet(batch[d])
    /\ Goto(d, "finalbeat")
    /\ UNCHANGED <<row, records, batch, run, priors, heartbeat, requests, fate,
                   failures, bounds>>

\* Awaiting the cancelled heartbeat task re-raises the exception it died of,
\* out of whichever branch awaits it, straight to the finally.
HandlerTerminated(d) ==
    /\ pc[d] = "run"
    /\ run[d] \in termReq
    /\ served' = served \cup ToSet(batch[d])
    /\ SetHeartbeat(d, "off")
    /\ IF heartbeat[d] = "failed"
       THEN Leave(d, "release")
       ELSE /\ Goto(d, "ackTerminated")
            /\ verdict' = [verdict EXCEPT ![d] = "terminated"]
            /\ UNCHANGED <<batch, run, priors>>
    /\ UNCHANGED <<row, records, requests, fate, failures, bounds>>

\* Mutant: the heartbeat task's exception is swallowed.
HandlerRaisesSwallowing(d) ==
    /\ pc[d] = "run"
    /\ failures' = [e \in Event |->
                      IF e \in ToSet(batch[d]) THEN failures[e] + 1 ELSE failures[e]]
    /\ SetHeartbeat(d, "off")
    /\ Goto(d, "fail")
    /\ UNCHANGED <<row, records, locals, requests, fate, served, bounds>>

HandlerRaises(d) ==
    /\ pc[d] = "run"
    /\ failures' = [e \in Event |->
                      IF e \in ToSet(batch[d]) THEN failures[e] + 1 ELSE failures[e]]
    /\ SetHeartbeat(d, "off")
    /\ IF heartbeat[d] = "failed"
       THEN Leave(d, "release")
       ELSE Goto(d, "fail") /\ UNCHANGED locals
    /\ UNCHANGED <<row, records, requests, fate, served, bounds>>

-----------------------------------------------------------------------------
(* drain_mr_actor: settling the batch *)

\* Mutant: the outcome is recorded without the ack.
FinalHeartbeatNoAck(d) ==
    /\ pc[d] = "finalbeat"
    /\ Renew(d)
    /\ SetHeartbeat(d, "off")
    /\ Goto(d, "record")
    /\ UNCHANGED <<pending, inflight, scheduled, owner, locals, records, requests,
                   history, bounds>>

\* The heartbeat after the handler: a drain whose lease has gone to another
\* records a failure ("lost actor lease before ack") and raises.
FinalHeartbeat(d) ==
    /\ pc[d] = "finalbeat"
    /\ Renew(d)
    /\ SetHeartbeat(d, "off")
    /\ IF heartbeat[d] = "failed"
       THEN Leave(d, "release")
       ELSE /\ IF owner = d
               THEN Goto(d, "ack") /\ UNCHANGED verdict
               ELSE /\ Goto(d, "recordFailed")
                    /\ verdict' = [verdict EXCEPT ![d] = "failed"]
            /\ UNCHANGED <<batch, run, priors>>
    /\ UNCHANGED <<pending, inflight, scheduled, owner, records, requests,
                   history, bounds>>

\* ack_batch clears the row's inflight when it is d's batch, whoever owns the
\* lease.
AckBatch(d, from, to) ==
    /\ pc[d] = from
    /\ IF inflight = batch[d]
       THEN inflight' = <<>> /\ fate' = Settle(batch[d], "acked")
       ELSE UNCHANGED <<inflight, fate>>
    /\ Goto(d, to)
    /\ UNCHANGED <<pending, scheduled, owner, expired, records, locals,
                   heartbeat, requests, served, failures, bounds>>

\* Mutant: one attempt too many.
HasBudgetInclusive(charged) == charged <= MaxAttempts

\* max_attempts is the number of attempts in all, the first included.
HasBudget(charged) == charged < MaxAttempts

\* mark_inflight_failed charges every event of the batch the largest count plus
\* one, and drops the batch when that spends the budget.  A batch that is not
\* the row's inflight is reported as spent, too.
MarkInflightFailed(d) ==
    /\ pc[d] = "fail"
    /\ IF inflight # batch[d]
       THEN /\ verdict' = [verdict EXCEPT ![d] = "exhausted"]
            /\ UNCHANGED <<attempts, inflight, fate>>
       ELSE \E charged \in {attempts[e] + 1 : e \in ToSet(batch[d])} :
            /\ \A e \in ToSet(batch[d]) : attempts[e] < charged
            /\ IF HasBudget(charged)
               THEN /\ attempts' = [e \in Event |->
                          IF e \in ToSet(batch[d]) THEN charged ELSE attempts[e]]
                    /\ verdict' = [verdict EXCEPT ![d] = "failed"]
                    /\ UNCHANGED <<inflight, fate>>
               ELSE /\ inflight' = <<>>
                    /\ fate' = Settle(batch[d], "dead")
                    /\ verdict' = [verdict EXCEPT ![d] = "exhausted"]
                    /\ UNCHANGED attempts
    /\ Goto(d, "recordFailed")
    /\ UNCHANGED <<pending, scheduled, owner, expired, runs, termReq, batch,
                   run, priors, heartbeat, requests, served, failures, bounds>>

\* write_run of the terminal record, of the run d started.
WroteVerdict(d) == runs' = [runs EXCEPT ![run[d]].state = verdict[d]]

\* After an ack: the success path renews and loops, the termination path
\* loops without a look at the lease.
RecordRun(d, from, to) ==
    /\ pc[d] = from
    /\ WroteVerdict(d)
    /\ Goto(d, to)
    /\ UNCHANGED <<row, attempts, termReq, locals, heartbeat, requests, history,
                   bounds>>

\* After a failure: the record is written and the exception raised again.
RecordFailure(d) ==
    /\ pc[d] = "recordFailed"
    /\ WroteVerdict(d)
    /\ Leave(d, "release")
    /\ UNCHANGED <<row, attempts, termReq, heartbeat, requests, history, bounds>>

\* The heartbeat at the end of an iteration, its answer ignored.
LoopHeartbeat(d) ==
    /\ pc[d] = "renew"
    /\ Renew(d)
    /\ Goto(d, "pop")
    /\ UNCHANGED <<pending, inflight, scheduled, owner, records, locals,
                   heartbeat, requests, history, bounds>>

-----------------------------------------------------------------------------
(* drain_mr_actor: the finally *)

\* Mutant: the lease is released whoever owns it.
ReleaseUnchecked(d) ==
    /\ pc[d] = "release"
    /\ SetHeartbeat(d, "off")
    /\ owner' = NoOne /\ expired' = FALSE
    /\ Goto(d, "clear")
    /\ UNCHANGED <<pending, inflight, scheduled, records, locals, requests,
                   history, bounds>>

\* A heartbeat task that was left running finds another owner at its next turn
\* and returns, so it ends here.
ReleaseLease(d) ==
    /\ pc[d] = "release"
    /\ SetHeartbeat(d, "off")
    /\ IF owner = d
       THEN owner' = NoOne /\ expired' = FALSE
       ELSE UNCHANGED <<owner, expired>>
    /\ Goto(d, "clear")
    /\ UNCHANGED <<pending, inflight, scheduled, records, locals, requests,
                   history, bounds>>

ClearActorScheduled(d) ==
    /\ pc[d] = "clear"
    /\ scheduled' = FALSE
    /\ Goto(d, "has")
    /\ UNCHANGED <<pending, inflight, owner, expired, records, locals,
                   heartbeat, requests, history, bounds>>

HasActorEvents(d) ==
    /\ pc[d] = "has"
    /\ Goto(d, IF pending # <<>> \/ inflight # <<>> THEN "mark" ELSE "idle")
    /\ UNCHANGED <<row, records, locals, heartbeat, requests, history, bounds>>

\* mark_actor_scheduled, and the next drain when the flag was clear.  The new
\* worker id takes the slot of the drain that ends here.
MarkActorScheduled(d) ==
    /\ pc[d] = "mark"
    /\ scheduled' = TRUE
    /\ Goto(d, IF scheduled THEN "idle" ELSE "acquire")
    /\ UNCHANGED <<pending, inflight, owner, expired, records, locals,
                   heartbeat, requests, history, bounds>>

-----------------------------------------------------------------------------
(* The environment: time, store faults, crashes *)

\* A lease's time runs out because its owner is gone, or the heartbeat task that
\* should renew it is.
LeaseExpires ==
    /\ owner # NoOne /\ ~expired
    /\ \/ heartbeat[owner] = "failed"
       \/ pc[owner] = "idle" /\ heartbeat[owner] = "off"
    /\ expired' = TRUE
    /\ UNCHANGED <<pending, inflight, scheduled, owner, records, pc, locals,
                   heartbeat, requests, history, bounds>>

\* A live drain outlives its lease: the event loop or the host stands still for
\* MR_ACTOR_LEASE_SECONDS (a handler that blocks the loop, a suspended machine).
Stall ==
    /\ stalls < MaxStalls
    /\ stalls' = stalls + 1
    /\ owner # NoOne /\ ~expired
    /\ expired' = TRUE
    /\ UNCHANGED <<pending, inflight, scheduled, owner, records, pc, locals,
                   heartbeat, requests, history, crashes, faults>>

\* A transaction of the drain raises, or its task is cancelled: from the body
\* to the finally, from the finally out of the drain.  Nobody cancels the
\* heartbeat task on this way out.
DrainAborts(d) ==
    /\ faults < MaxFaults
    /\ faults' = faults + 1
    /\ \/ pc[d] \in InBody /\ Leave(d, "release")
       \/ pc[d] \in InFinally \cup {"acquire"} /\ Leave(d, "idle")
    /\ SetHeartbeat(d, IF heartbeat[d] = "on" THEN "on" ELSE "off")
    /\ UNCHANGED <<row, records, requests, history, crashes, stalls>>

\* A transaction of the poll or of an enqueuer raises: the poll starts over a
\* second later, the enqueuer's request ends with its event appended.
RequestAborts ==
    /\ faults < MaxFaults
    /\ faults' = faults + 1
    /\ \/ resume # "scan" /\ resume' = "scan" /\ UNCHANGED marking
       \/ \E e \in marking : marking' = marking \ {e} /\ UNCHANGED resume
    /\ UNCHANGED <<row, records, pc, locals, heartbeat, history, crashes, stalls>>

\* The worker process dies and is restarted: its drains, its poll and its own
\* enqueuers are gone, the store remains.
WorkerCrash ==
    /\ crashes < MaxCrashes
    /\ crashes' = crashes + 1
    /\ pc' = [d \in Drain |-> "idle"]
    /\ batch' = [d \in Drain |-> <<>>]
    /\ run' = [d \in Drain |-> 0]
    /\ verdict' = [d \in Drain |-> "running"]
    /\ priors' = [d \in Drain |-> {}]
    /\ heartbeat' = [d \in Drain |-> "off"]
    /\ resume' = "scan"
    /\ marking' = marking \ FromWorker
    /\ UNCHANGED <<row, records, history, faults, stalls>>

\* The web process dies between its two transactions for an event.
WebCrash ==
    /\ crashes < MaxCrashes
    /\ marking \ FromWorker # {}
    /\ crashes' = crashes + 1
    /\ marking' = marking \cap FromWorker
    /\ UNCHANGED <<row, records, pc, locals, heartbeat, resume, history, faults,
                   stalls>>

-----------------------------------------------------------------------------

Handler(d) == HandlerReturns(d) \/ HandlerTerminated(d) \/ HandlerRaises(d)

DrainStep(d) ==
    \/ AcquireLease(d) \/ RestoreInflight(d)
    \/ PopNothing(d) \/ PopNextBatch(d)
    \/ MarkPriorStale(d) \/ StartRun(d) \/ CheckTermination(d)
    \/ FirstHeartbeat(d) \/ FinalHeartbeat(d)
    \/ AckBatch(d, "ack", "record") \/ RecordRun(d, "record", "renew")
    \/ AckBatch(d, "ackTerminated", "recordTerminated")
    \/ RecordRun(d, "recordTerminated", "pop")
    \/ MarkInflightFailed(d) \/ RecordFailure(d) \/ LoopHeartbeat(d)
    \/ ReleaseLease(d) \/ ClearActorScheduled(d)
    \/ HasActorEvents(d) \/ MarkActorScheduled(d)

Resume == ResumeScan \/ ResumeClear \/ ResumeMark

Next ==
    \/ \E e \in Event : AppendEvent(e) \/ MarkScheduled(e) \/ RemovePendingEvent(e)
    \/ \E r \in DOMAIN runs : RequestRunTermination(r)
    \/ Resume
    \/ \E d \in Drain : DrainStep(d) \/ Handler(d) \/ Heartbeat(d)
                        \/ HeartbeatRaises(d) \/ DrainAborts(d)
    \/ LeaseExpires \/ Stall \/ RequestAborts \/ WorkerCrash \/ WebCrash

Spec == Init /\ [][Next]_vars

(***************************************************************************)
(* Fairness.  The poll runs for as long as the worker does (restart:        *)
(* unless-stopped); a transaction ends, since the busy timeout bounds its    *)
(* wait; a handler ends one way or another (model calls have timeouts and    *)
(* retry budgets); time passes.  Nothing is assumed of crashes, faults,      *)
(* requests or which way a handler ends.                                    *)
(***************************************************************************)
Fairness ==
    /\ WF_vars(Resume)
    /\ \A d \in Drain : WF_vars(DrainStep(d)) /\ WF_vars(Handler(d))
    /\ WF_vars(LeaseExpires)

FairSpec == Spec /\ Fairness

-----------------------------------------------------------------------------
(* Properties *)

\* The types of the row, the records, the drains and the history.
TypeOK ==
    /\ pending \in Seq(Event) /\ inflight \in Seq(Event)
    /\ scheduled \in BOOLEAN /\ expired \in BOOLEAN
    /\ owner \in Drain \cup {NoOne}
    /\ attempts \in [Event -> Nat]
    /\ runs \in Seq([events : Seq(Event), state : RunStates])
    /\ termReq \subseteq DOMAIN runs
    /\ pc \in [Drain -> PCs]
    /\ batch \in [Drain -> Seq(Event)]
    /\ run \in [Drain -> Nat]
    /\ verdict \in [Drain -> RunStates]
    /\ priors \in [Drain -> SUBSET (DOMAIN runs)]
    /\ heartbeat \in [Drain -> {"off", "on", "failed"}]
    /\ resume \in {"scan", "clear", "mark"}
    /\ marking \subseteq Event
    /\ fate \in [Event -> Fates]
    /\ served \subseteq Event
    /\ failures \in [Event -> Nat]
    /\ crashes \in Nat /\ faults \in Nat /\ stalls \in Nat

\* The durable queue keeps the ledger's promise across restore, pop, ack, retry
\* and cancel: nothing is lost, doubled or overtaken (store.py, all row updates).
Ledger == INSTANCE EventLedger WITH line <- inflight \o pending
LedgerSpec == Ledger!Spec

\* The row and the history agree: an event waits exactly while it is queued, and
\* in one place, even when two drains work on the row at once.
QueueIsExact ==
    LET line == inflight \o pending IN
    /\ ToSet(line) = {e \in Event : Queued(e)}
    /\ \A i, j \in DOMAIN line : i # j => line[i] # line[j]

\* An event is acked only when a handler finished its batch, or a termination
\* request covered it, whichever drain's ack it was (worker.py:1328, 1420, 1511).
AckedWasServed == \A e \in Event : fate[e] = "acked" => e \in served

\* While no admin cancels, a batch is given up only when an event of it has failed
\* the full budget of handler runs, and what still waits has budget left.  (Each
\* event is charged its batch's largest count, so one that outlives a cancelled
\* head is given up after fewer runs of its own; store.py:749.)
RetryBudget ==
    /\ \A e \in Event : Queued(e) => attempts[e] < MaxAttempts
    /\ (\E e \in Event : fate[e] = "dead") =>
          \E e \in Event : fate[e] = "dead" /\ failures[e] >= MaxAttempts

\* A drain in the body of its try, with its heartbeat task not dead.
Healthy(d) == pc[d] \in InBody /\ heartbeat[d] # "failed"

\* While no drain stalls beyond its lease, one healthy drain at most works on
\* the merge request, across crashes, restarts and the poll's extra drains.
OneHealthyRun == \A d1, d2 \in Drain : Healthy(d1) /\ Healthy(d2) => d1 = d2

\* While no drain stalls beyond its lease, only the lease's owner moves events
\* between pending and inflight or out of inflight: a drain that lost the lease
\* settles nothing, on any of its ways out (worker.py:1420, 1459, 1511).
OnlyOwnerMoves ==
    [][ \A d \in Drain : (pc'[d] # pc[d] /\ inflight' # inflight) => owner = d ]_vars

\* A run recorded as succeeded has its events off the queue, so the review that
\* the history shows as done is not done again (worker.py:1511-1521).
SucceededIsSettled ==
    \A r \in DOMAIN runs : runs[r].state = "succeeded" =>
        \A e \in ToSet(runs[r].events) : ~Queued(e)

\* Every accepted event is settled: no wakeup between the enqueuers, the
\* drains' finally and the poll is lost, and a dead owner's lease runs out.
EventuallySettled == \A e \in Event : Queued(e) ~> ~Queued(e)

\* README.md:26 "one active run per MR": two drains are never in their
\* handlers at once.
OneActiveRun ==
    \A d1, d2 \in Drain : pc[d1] = "run" /\ pc[d2] = "run" => d1 = d2

\* tests/test_runtime.py:565
\* test_drain_mr_actor_marks_interrupted_prior_run_stale_before_restart: when an
\* event is run again, its interrupted runs are no longer shown as running.
InterruptedRunsAreStale ==
    \A d \in Drain : pc[d] = "run" =>
        \A r \in DOMAIN runs :
            (r # run[d] /\ ToSet(runs[r].events) \cap ToSet(batch[d]) # {})
               => runs[r].state # "running"

=============================================================================
