# A TLA+ verification of Open Review

Open Review reviews GitLab merge requests with language models.  What the models
say cannot be specified; what happens around them can: a webhook becomes an event
in a durable queue, one worker drains the queue of each merge request, the
handlers look at a merge request that keeps changing, and publish to a GitLab
that may or may not have done what it was asked.  This project models that
machinery, checks it with TLC on small instances and proves its most important
properties for all instances with TLAPS.

`PROJECT.json` lists the runs, the mutants of the code that show each property can
fail, the lines each definition models, the hazards and the findings.

## The system

| Component | State | Operations | Interacts by |
| --- | --- | --- | --- |
| `agent/runtime/store.py` | per actor (one merge request, or a project's audit): `events`, `inflight`, `scheduled`, lease; seen event ids; runs; terminations; publish receipts; run journal | one SQLite transaction per method (`BEGIN IMMEDIATE`) | shared file of the web and worker processes |
| `agent/runtime/queue.py` | the job queue: in the worker an immediate `create_task`, in the web process nothing | `enqueue_gitlab_event`, `resume_runtime_processing` | calls the store, starts drains |
| `agent/runtime/worker.py` | the drains and their heartbeat tasks | `drain_mr_actor`, the handlers, the 1 s poll, the schedulers | store, GitLab, tracking service |
| `agent/runtime/publish.py` | none of its own | claim, publisher call, record, tracking | receipts in the store, notes on GitLab |
| `agent/webapp.py` | none | `gitlab_webhook` | enqueues events; feedback to the tracking service |
| `agent/admin/router.py` | none | console: sign in, settings, agent configurations, cancel an event, terminate a run, trigger a self-evolution | store, control plane |
| `agent/controlplane/service.py` | settings, agent configuration per project, session secret, admin account, schedules, tracked runs | construction with migration; one transaction per method, some of them read-modify-write over two | shared file of the web and worker processes |
| `agent/scenes/auto_review` | a lock per merge request; markers in the bot's notes | context, specialists, director, dedupe and limit, publishing | GitLab, sandbox, publish service |
| `agent/scenes/mention` | markers in the bot's notes | context, rounds of author and reviewer, push, reply | GitLab, sandbox, publish service |
| `agent/scenes/daily_audit` | run records, memory files, skills | audit, issue or merge request, follow-up events that write memory | GitLab, store, sandbox |
| `agent/selfevolution` | a git repository of prompts, skills and tool descriptions that all projects share | bootstrap, optimize, gate, apply | files, git, control plane |
| `agent/sandbox` | handles, clones, containers, worktrees, project cache | set up, refresh, clean up | docker, git |
| `agent/rlm` | patches of the process while a run lasts | recursive analysis in a thread | model providers, environment |
| `agent/middleware`, `agent/runtime/termination.py` | retry counters of one call | termination, structured retry, model retry, tool errors | model providers |
| `agent/gitlab` | cached bot identity | notes, discussions, project operations | GitLab |
| `agent/maintenance` | none | sweep of the sandboxes of merge requests | files, docker, GitLab, beside the worker |
| `deploy`, `scripts` | none | operator tools | run while the stack is down |
| `agent/observability`, `agent/utils`, `agent/config.py` | none that is shared | traces, parsers, settings | - |

The hard behaviours, all listed with their lines under `hazards`:

- **Two processes and many tasks over one row.**  Every store method is one
  transaction, but every operation is several: enqueue is append then mark; a drain's
  end is release, clear, look, mark; the poll is scan, clear, mark.
- **Leases.**  A drain may lose its lease while its handler runs, the answers of some
  heartbeats are not looked at, and several ways out of a drain do not check it.
- **Crashes** between any two transactions, and exceptions of any transaction.
- **Publishing is not atomic**: GitLab has the note before the store has the receipt.
- **The merge request moves** between preflight, checkout, context and publishing.
- **What has been reviewed is known only from markers** in the bot's notes, and what has
  been said only from its comments.
- **Two processes write the control plane**, and every one of their threads may be the one
  that constructs it.
- **Long jobs without receipts**: a daily audit, a self-evolution cycle or a mention is
  repeated from its start, whatever its earlier attempt has left at GitLab or on disk.
- **Threads of one process** share a cache (the bot's identity) or the process itself
  (the recursive sub-agent).

What makes each part correct: the queue is an exactly-once ledger in FIFO order; runs
of a merge request are serialized; the budget is what was configured; no accepted
event is left lying; an operation is published once but for faults that nobody can
see through; a published run has shown what it promised; a marker never claims
commits that were not looked at; every head of an open merge request is reviewed; what
is due is scheduled, once per interval; the records of a run agree with each other and
lose nothing that was accepted; a saved configuration stays; a finding is said once and a
mention changes the branch once; a call that is asked to stop stops; what is torn down is
not in use, and what is in use works.

## The modules

| Module | What it is |
| --- | --- |
| `EventLedger` | abstract specification: what the queue of an actor promises |
| `ActorRuntime` | store row, drains, heartbeats, poll, enqueuers, admin, crashes; refines `EventLedger` |
| `ActorRuntimeProofs`, `ActorLedgerProofs` | theorems about `ActorRuntime` |
| `MCActorRuntime` | small instances |
| `Publishing`, `MCPublishing` | receipts, GitLab calls, the order of publishing, attempts at one event |
| `PublishingProofs` | theorems about `Publishing` |
| `ReviewHistory`, `MCReviewHistory` | webhooks, event ids, the queue as `EventLedger` promises it, handlers over a moving branch, markers |
| `ReviewHistoryProofs` | theorems about `ReviewHistory` |
| `RunRecords`, `RunRecordsProofs` | runs, journal, checkpoint and tracked rows of one batch; feedback from the web process; theorems about them |
| `Scheduling` | the worker's calendar of daily audits and self-evolutions |
| `SelfEvolution` | cycles of several projects over the one service repository |
| `DailyAudit` | attempts at an audit, its output, and the follow-up events that write memory |
| `MCJobs` | small instance of these four |
| `JobProofs` | theorems about `Scheduling`, `SelfEvolution` and `DailyAudit` |
| `ControlPlane` | construction, migration, settings, agent configurations, sessions |
| `BotIdentity` | the two caches of who the bot is |
| `AgentCalls` | turns of an agent and its sub-agents under the middlewares |
| `RepoAnalyst` | threads of the recursive sub-agent and what they patch |
| `Sandboxes` | directories, containers, handles, worktrees; the maintenance sweep |
| `ReviewPipeline` | what a review says over heads and attempts |
| `MentionLoop` | rounds, push and answer of a mention over its attempts |
| `MCReviews` | small instance of these seven |
| `ServiceProofs` | theorems about `ControlPlane`, `BotIdentity`, `AgentCalls`, `RepoAnalyst` and `Sandboxes` |
| `SceneProofs` | theorems about `ReviewPipeline` and `MentionLoop` |

How they fit together: `ReviewHistory` decides which head is handled, on the queue that
`EventLedger` promises and `ActorRuntime` implements; `ReviewPipeline` and `MentionLoop` decide
what is said about it; `Publishing` is how each of these posts becomes a note; `RunRecords` is what is
written down meanwhile, with the passes of the drain as its runs; `Scheduling` makes the events of
`DailyAudit` and `SelfEvolution`; `AgentCalls` and `RepoAnalyst` are inside one call of a scene, and
`Sandboxes` is what it works in.

A definition that begins "Mutant:" is a plausible bug.  `PROJECT.json` says which
definition it replaces and which property then fails; nothing else uses it.

### ActorRuntime

One actor: every store method takes one `actor_key` and touches that row only, so
actors do not interact.  Each action is one transaction with the code up to the next
`await`; a drain's program counter names the transaction it is about to do.

| Code | Model |
| --- | --- |
| `events_json`, `inflight_json`, `scheduled`, `lease_owner`, `lease_expires_at < now` | `pending`, `inflight`, `scheduled`, `owner`, `expired` |
| `_runtime_attempts` in an event's payload | `attempts` |
| `runtime_runs`, `runtime_run_terminations` | `runs`, `termReq` |
| locals of `drain_mr_actor` | `pc`, `batch`, `run`, `verdict`, `priors` |
| the task of `_lease_heartbeat_loop` | `heartbeat`: `"on"`, `"off"`, or `"failed"`: it died of an exception nobody has awaited |
| a call of `enqueue_gitlab_event` between its two transactions | `marking` |
| a call of `resume_runtime_processing` | `resume` |
| `PassiveJobQueue` / `ImmediateJobQueue` | `MarkScheduled` starts a drain only for `FromWorker` events |

A handler is its outcome: it returns (`HandlerReturns`, with any state in `Outcomes`),
raises (`HandlerRaises`), or sees its termination (`HandlerTerminated`).  A run that
failed with reason `retry_budget_exhausted` has the verdict `"exhausted"` in the model,
to tell it from one that may be tried again.  `fate`, `served` and `failures` are
history: nothing reads them but the properties, `AppendEvent` (for the seen event ids)
and the mutants.

The environment: `LeaseExpires` for a lease whose owner, or its heartbeat, is gone;
`Stall` for a live drain that outlives its lease; `HeartbeatRaises`, `DrainAborts` and
`RequestAborts` for transactions that raise and tasks that are cancelled;
`WorkerCrash` and `WebCrash`.

### Publishing

The receipts of one event's operations, the notes they made, and the attempts of its
handler, which may overlap for a mention (a lost lease) but not for a review, whose
lock is in the process.  `Op` is the inline comments, the `"final"` summary or reply, and
the `"fallback"` note.  The publishers are synchronous calls, so `Post` is one step, with
every outcome the code can see: done, not done and raised, done and raised (the answer
was lost), and for a diff discussion the fallback to a plain note in the same call.
`slips` counts what makes a duplicate unavoidable, a lost answer or a post whose receipt
was not saved; `stolen` holds the operations whose claim aged while its publisher ran.

### ReviewHistory

One merge request over time.  People push, toggle the draft flag, close, reopen, merge,
mention the bot.  `Requests` is `gitlab_webhook`: which webhook asks for which event and
under which `event_id`; `Deliver` takes a webhook that may have overtaken others, and drops a
seen id.  The worker is the queue that
`ActorRuntime` implements: one batch at a time, reviews coalesced into the last to arrive, a
batch that failed put back in front (`Fault`).  Handlers go through their looks at the
merge request one by one (`Preflight`, `Checkout`, `BuildReviewContext` or
`BuildMentionContext`, `CheckHead`) so that pushes fall between any two of them, and leave
their markers (`PublishReview`, `Reply`).  `PushFix` is the mention agent's own commit, which
makes a webhook like any other.  `reviewed`, `masked` and `disordered` are history.

### RunRecords

The runs of one batch are passes of `drain_mr_actor` over it; they share the execution key,
so the journal and the checkpoint too.  The code of a pass is straight-line, so a run is
the list of the steps it still has (`todo`): `Opens`, then `Handler` (the stages of
`_run_auto_review_event` and its siblings, each closed by a checkpoint and two journal events),
then `Returns`, `Fails` or `Terminates`.  An exception replaces the list (`AfterRaise`), by whether
it falls inside the handler's `try` or not.

| Code | Model |
| --- | --- |
| `runtime_runs`, `runtime_run_journal`, `runtime_run_checkpoints` | `runs`, `journal` and `sequence`, `checkpoint` |
| `append_run_journal_event`: `SELECT MAX`, then `INSERT` | `ReadSequence`, `InsertEvent`; one step while there is no second writer |
| `tracked_runs`, its `feedback_events_json`, `published_objects_json` | `tracked`, `feedback`, `published` |
| `_update_tracked_run_state`: `get_run`, then `record_run` | `CopyTracked`, `OverwriteTracked` |
| `_find_feedback_target_run`, `append_feedback_event` | `MatchFeedback`, `AppendFeedback`, in the web process |
| `schedule_runtime_observation` | `ScheduleObservation`, `Observe`: a task nobody awaits |
| the running build's workflow version | `version`; `WorkerDies` may bring another one |

### Scheduling

`loop` is one iteration of the worker's loop: at which of its two passes, which projects are
`left`, and the clock as the pass read it (`now`).  Each append, record and mark is a step, the
day may turn between any two, and `IterationEnds` is a crash or an exception at any of them; the
next iteration begins with `resume_runtime_processing`, so the actors with events are marked.

### SelfEvolution

`repo` is how far `ensure_local_service_repo` has come, `head` the text of each asset on its branch;
a cycle goes through `Order`, for each asset reads the baseline, gets a candidate, and merges it in a
worktree under `applyLock`.  The optimizer, the evaluation and git answer or raise; with fewer than
three tasks the gate has one answer (`heldOut`).

### DailyAudit

Attempts at one audit event, which may overlap after a lost lease: direction, analysis, archive, the
check of the changed files and lines, issue or branch and merge request, then the follow-ups, each in
an actor of its own.  `archived` is the run records that the follow-ups read, `memory` the audits each
kind of memory knows.  `late` and `early` are history.

### ControlPlane

`phase` is where each starter is in the constructor, which is several transactions and one script
without any (`RenameOld` to `DropOld`, one statement each); a statement that fails sends its
starter back to `"down"`, as `SettingsProxy` falls back to the defaults and constructs again.
`entries` are the rows of `config_entries` with the keys of the language model, whose coercion
(`Coerced`, `Written`) is what `coerce_llm_settings` and `set_values` compute.  `request` is the rest of an
admin request that takes two transactions.  `raced` is history: two constructors at once, or one that died.

### BotIdentity, AgentCalls, RepoAnalyst

`BotIdentity`: `cache` is the minute-long answer in the process, `persisted` the one in the database;
`asking` is each thread between its steps, as the lock covers reads and writes of the cache only.
`AgentCalls`: an agent is at its turn, in the model, or waits for its sub-agents; `Concludes` is how an
end, good or bad, reaches the caller through `ToolErrorMiddleware`; `wanted` is the termination the
operator asked for.  `RepoAnalyst`: a thread saves, patches, runs and restores `os.environ` and two
functions of the library; `mixed` are the threads that overlapped.

### Sandboxes

`setup_sandbox` and `cleanup_sandbox` run on the event loop without `await`, so each is a step, with the
places where it can be cut as outcomes (`disk` is then `"broken"` or `"unnamed"`: cloned, without
`user.name`).  Containers are keyed by the cut name (`Name`), handles are the worker's and die with it,
the sweep is another process whose look at GitLab and removal are two steps.

### ReviewPipeline and MentionLoop

`ReviewPipeline` follows dedupe keys: what the bot's comments carry (`comments`, by the head they were made
for), what the summary lists (`note`), and the attempt (`review`): known keys, confirmed ones, the inline
comments still to post.  `MentionLoop` follows commits: attempts (`try`) with the head their worktree was made
of, rounds, verdicts, a push that git accepts only from the tip, and the answer; others push and put the
branch back.  `reasons` collects what has kept a mention from an answer.

## The runs

| Run | Instance | Shows |
| --- | --- | --- |
| `actor_stall` | two pushes, two drains; one stall, or one crash and the admin | `QueueIsExact`, `AckedWasServed`, `LedgerSpec` with two drains at work at once, and under cancels and terminations |
| `actor_crash` | two mentions of a discussion, two drains, budget 2, one crash, one fault | `TypeOK`, `RetryBudget`, `OneHealthyRun`, `SucceededIsSettled`, `OnlyOwnerMoves` |
| `actor_live` | a daily audit from the worker, budget 2, one crash, one fault, fairness | `EventuallySettled` |
| `actor_one_active_run` | one fault | violates `OneActiveRun` (README.md:26) |
| `actor_interrupted` | two pushes, one crash | violates `InterruptedRunsAreStale` (tests/test_runtime.py:565) |
| `publishing` | two attempts, one inline operation, three troubles | `OncePerSlip`, `OneSummary`, `PublishedIsShown`, `CompletedIsFinal` |
| `publishing_duplicate` | one trouble | violates `NoDuplicateOutput` (publish.py:1, 16) |
| `review_history` | three heads, two mentions, two toggles, one fault or one webhook that overtakes others | `MarkersAreHonest`, `ReviewedUnlessMasked` |
| `review_missed` | two heads, one mention, two toggles | violates `EveryHeadIsReviewed` (README.md:21) |
| `sandbox_left` | two heads, three toggles | violates `SandboxIsRemoved` (sandbox/manager.py:572) |
| `jobs` | one of `RunRecords` (two runs of a batch of any scene, a crash with or without an update, one feedback, one observation), `Scheduling` (two projects with different hours, interval 2, three days, one mishap, one toggle), `SelfEvolution` (two cycles, two assets, two texts, one death), `DailyAudit` (two attempts, two kinds of memory, two misfortunes) | `ConsoleNeverAhead`, `InterruptionIsTold`, `FeedbackLostOnlyByRestart`, `FailedDespiteResult`; `EvolutionsAreSpaced`, `DueIsScheduled`; `ValidMeansReady`, `NothingFoundChangesNothing`; `AuditPublishesOnce`, `MemoryIsOfSoundAudits` |
| `reviews` | one of `ControlPlane` (web and worker, two projects, two models, one death, two edits), `BotIdentity` (prime and two callers, two users, three changes), `AgentCalls` (two specialists, two turns, two structured retries, two outages), `RepoAnalyst` (two threads, two asks, two configurations), `Sandboxes` (a merge request and two audits of one cut name, two mishaps), `ReviewPipeline` (three findings, two of them located, limit 1, three heads, two cuts), `MentionLoop` (two attempts, two rounds, two commits, one reset, two accidents) | `SavedConfigIsKept`, `SessionsSurvive`, `HistoryIsCarriedOver`, `StartersComeUp`; `DeafOnlyByOverlap`, `NameIsLearned`; `NoTurnAfterStop`, `CallsEnd`; `AloneIsHarmless`; `HandlesWork`, `ContainersGoToo`; `OneCommentPerFinding`, `SummaryAgreesWithComments`; `ChangesOnce`, `SilenceHasAReason` |

`jobs` and `reviews` check several components in one run, one at a time: the components share no state,
so the product of their states would show nothing more.  `part` names the one that moves, the others rest
in one of their initial states, and every initial state of every component is explored.

Bounds, and why they are enough:

- *Two events* make every shape a queue has for these operations: one batch of two, two
  batches, one inflight and one pending.  *Two drains* are the one that lost its lease
  and the one that took it; a worker id whose drain has ended is used again, so there
  is no bound on the number of drains over time.
- *`MaxCrashes`, `MaxFaults`, `MaxStalls`* bound the trouble of a behaviour, not where it
  falls.  Two crashes, or a crash and a stall, are more than TLC can enumerate with two
  drains (`StallOrAdmin` in `actor_stall`, `FaultOrOvertake` in `review_history`); the theorems cover them
  for the properties that are proved.
- `EffectivePolls` (runs `actor_stall`, `actor_crash`) lets the three transactions of a poll
  run together and drops pokes of an actor whose lease is held, which `AcquireLease` turns
  away.  `actor_live` has the full poll.
- Drains, attempts and mentions are symmetric: no definition tells two of them apart.
  The liveness run has no symmetry.
- *Three heads* are a base, a head that is skipped and the one that is reviewed; *two
  toggles* are draft then ready, or close then reopen; *two mentions* are one before and
  one after a review.
- `Publishing` needs *two attempts* for every race on a receipt, and *three troubles* for a
  lost answer, a receipt that is not saved and a crash in one behaviour.
- *Two* of each actor of `jobs` and `reviews` (runs, cycles, attempts, starters, callers, threads) are the one
  that is overtaken and the one that overtakes; no definition of these modules counts more of them.
  Three days are an interval of two and the day after.  Three findings are one that is cut off by the
  limit, one that has no line, and one that is commented; three heads are two that are reviewed and one
  push in between.
- Deadlock is not checked: the instances stop when their events are settled.

Fairness.  In `actor_live`: weak fairness of the poll, because `run_sqlite_worker_forever`
runs as long as the worker and the container is restarted; of a drain's steps, because a
transaction ends, by commit or by the busy timeout; of a handler as a whole, because model
calls have timeouts and retry budgets; and of a dead owner's lease running out.
In `reviews`: of a starter's constructor, which is run again at each access of a setting and after each
restart (`ControlFairness`); of a caller that resolves the bot's identity, as webhooks keep coming, and of the
minute its cache lasts (`IdentityFairness`); of the steps of an agent, whose model calls time out and whose
waits end (`CallFairness`).
Nothing is assumed of requests, faults, crashes or stalls, nor of how a handler ends.

## The findings

1. **`OneActiveRun`**: the heartbeat task dies of any exception, silently; the lease runs out
   under the handler and a second run starts.
2. **`InterruptedRunsAreStale`**: a restarted review that is batched with a newer push leaves its
   interrupted run `running` for ever.
3. **`NoDuplicateOutput`**: a reply whose receipt cannot be saved is posted again as a plain note.
4. **`EveryHeadIsReviewed`**: the reply to a mention marks a head as if it had been reviewed.
5. **`SandboxIsRemoved`**: a second close within seven days is dropped as a duplicate.

Each of these has a run whose counterexample is a schedule of a few steps.  `OneHealthyRun`, `OncePerSlip`
and `ReviewedUnlessMasked` are what remains true beside 1, 3 and 4.

What else the code does that nobody is likely to have meant is in the passing properties as their exact exceptions,
which TLC shows to be the only ones, and in `PROJECT.json` under `findings` with the lines:

| Where | What | The property that excepts it |
| --- | --- | --- |
| worker.py:1303 | webhooks out of order: the newest head is not reviewed | `ReviewedUnlessMasked` |
| store.py:749 | an event that outlives a cancelled head is given up after fewer runs of its own | `RetryBudget` (no cancels) |
| worker.py:349 | feedback appended while a run is declared interrupted is lost | `FeedbackLostOnlyByRestart` |
| store.py:922 | a background observation takes the sequence number of a run, which fails after its work is done | `FailedDespiteResult` |
| worker.py:207 | the trace of an interruption is lost after an update | `InterruptionIsTold` |
| worker.py:1698 | a self-evolution whose date was not recorded comes again the next day | `EvolutionsAreSpaced` |
| selfevolution/repo.py:75 | a bootstrap cut after `git init` is valid for good | `ValidMeansReady` |
| selfevolution/apply.py:134 | a cycle that found nothing better puts an old text back | `NothingFoundChangesNothing` |
| daily_audit/orchestrator.py:384 | without receipts a repeated audit opens a second issue or merge request | `AuditPublishesOnce` |
| auto_review/orchestrator.py:1358 | the retry of a cut review takes its own comments for old news | `SummaryAgreesWithComments` |
| rlm/subagent.py:1072 | overlapping runs restore each other's environment and client | `AloneIsHarmless` |
| sandbox/manager.py:543, 267; sandbox_cleanup.py:151 | half-made clones are adopted; cut container names collide; the sweep beside a reopened merge request | `HandlesWork` |

## The theorems

Every safety property that a passing run checks is also a theorem: for any events, drains, mentions,
projects, threads and bounds, from the named assumptions on the constants in the modules, which TLC also
evaluates.  Four theorems about the actor have a hypothesis of their own, as stated with them: `MaxStalls = 0` (three
times), and finitely many drains with `Controllable = {}` (once); what these mean and why they are needed is said below.

Most of the properties are not inductive.  The invariants that carry them are listed here; each is
preserved by every action of its module, and implies the property.

### The actor (`ActorRuntimeProofs`, `ActorLedgerProofs`)

- `Typing`: `Spec => []TypeOK`.  `TypeOK` is inductive: that a run a drain writes
  to exists is part of it (`priors`, `termReq` are subsets of `DOMAIN runs`).
- `Serialized` and `OwnerMoves`, for `MaxStalls = 0`: at most one healthy drain, and only the
  lease's owner moves events.  The inductive invariant `LeaseInv` says more than the first: a
  drain with no dead heartbeat owns an *unexpired* lease from acquire to the finally, and a dead
  heartbeat, or a living one, exists only where it will be noticed.  Without the last two parts the
  invariant is not inductive: a drain could reach `ack` with a heartbeat task that had died.
  `MaxStalls = 0` says that a live drain with a living heartbeat does not outlive its lease; a stall
  breaks both properties, as it must.
- `AcksAreServed`: `AckedWasServed`, stalls included.  What has to be carried is that a drain past its handler
  holds a batch that was served (`ServedInv`), since an ack removes exactly the batch it is called with.
- `SuccessIsSettled`: `SucceededIsSettled`, for `MaxStalls = 0`.  A run names the batch of its drain (`RunInv`), a healthy
  drain's batch is the one in the row from pop to ack (`HoldInv`, by `LeaseInv`), so after its ack
  these events are gone for good (`DoneInv`).  After a stall the drain that took over may have put the batch back; the late
  drain's ack then changes nothing, and its run is recorded as succeeded all the same.
- `ImplementsLedger`: `Spec => LedgerSpec`, with `line` mapped to `inflight \o pending`.  Here stalls are
  allowed: whatever two drains do to one row, the queue is a ledger.  Pop and restore map to
  stutters, an ack or a spent budget to `SettleHead` of exactly the inflight batch, a cancel to
  `Cancel`.
- `Exactness`: `Spec => []QueueIsExact`, by way of the ledger: appending, settling a head and cancelling
  each keep a line exact, which is three lemmas about sequences, and every step of the runtime is one
  of these or a stutter of the ledger.
- `BudgetIsKept`: `RetryBudget`, for any budget, when no admin cancels an event of the actor (`Controllable = {}`).
  `BudgetInv` says what the counts in the payloads mean: whatever was charged joins the batch of the head of the line,
  which was charged most (`Charged`); the head has failed as many handler runs as it is charged for, and those that drains
  have seen fail and not yet charged (`Uncharged`); and nothing that waits is charged in full.  The hypothesis is not for convenience: with a
  budget of three, a push that was batched with an older one and outlives its cancel keeps that one's
  count (store.py:749) and is given up after too few runs; TLC shows the trace.  The drains are finitely many,
  as charges are counted over them.

### Publishing (`PublishingProofs`)

- `PublishedOnce`, `SummaryIsOne`, `ReceiptIsFinal`: `OncePerSlip`, `OneSummary` and `CompletedIsFinal`, for any number
  of attempts, inline comments and troubles.  A bound on the notes
  says nothing of who may make the next one, so `ReceiptInv` adds it: a claim that did not age under
  its publisher has one holder, and its receipt is `claimed`; the notes of an operation exceed its
  slips by one only when the receipt is completed, or its holder is about to complete it.  A crash
  turns every holder that had posted into a slip; that the slips grow by enough is a count over the
  attempts, which is why there are finitely many (`AttemptAssumption`).
- `PublishedMeansShown`: `PublishedIsShown`.  At each phase of an attempt what it promised is on GitLab, in the reply it
  will post, or still ahead of it (`Kept`), and a receipt that lets another attempt pass over an inline comment
  stands for one that is there (`ShownInv`).

### Review history (`ReviewHistoryProofs`)

- `Honest`: `MarkersAreHonest`.  The invariant carries the chain of looks:
  what is checked out is not behind the event's head (`Preflight` and a branch that only grows),
  the context that goes to work is the event's head, so not ahead of the checkout (which needs a branch
  that only grows, but no order of the webhooks), and the base is a
  marked head, so honest already.  The check of the head in `BuildReviewContext` is what the proof
  needs, and the mutant without it breaks the property.
- `ReviewedOrMasked`: `ReviewedUnlessMasked`.  A statement about rest, carried by one about unrest (`WatchInv`): the newest head
  of a merge request that is no draft was asked for by a webhook on its way (`Asked`), or is covered, queued or at
  work (`Answering`); what a seen event id would drop is being answered already; and while nothing is
  out of order, reviews are queued in the order of their heads, so that the last of a batch, which is the one
  handled, is the newest.

### Run records (`RunRecordsProofs`)

`ConsoleIsNeverAhead`, `FeedbackIsKept`, `ResultsAreKept`, `InterruptionsAreTold`: the four properties of `RunRecords`, for
any number of runs, observations and feedback, of any scene.  The code of a run is the sequence `todo` of the
steps that it has left, so the invariant is about such sequences: `Script` is the shape of what is left (the
end that is tracked is the one that is written, and comes last; what follows the scene only writes its result down),
and `Owes` says that a step finds what it relies on, or has the step that brings it about before it.  Both are
kept by taking the first step off, by putting steps in front (a restart, a retry), and by replacing the rest
with an ending (an exception, a termination); that is proved once for the sequences and used for every action.
With that, `ConsoleInv`, `FeedbackInv`, `ResultInv` and `ToldInv` are each a few conjuncts about the records.

### Jobs (`JobProofs`)

- `CyclesKeepTheirDistance`: `EvolutionsAreSpaced`, for any projects, interval and number of days.
  Of each cycle the date is recorded, lost, or the very next thing to be recorded (`Dated`), and no cycle is
  dated later than the clock the loop goes by (`NotAheadOfClock`), which may be yesterday's.
- `DueGetsScheduled`: `DueIsScheduled`.  What is owed and not appended is of a project that the iteration has still to
  come to, and is still due (`OwedInv`).
- `ValidIsReady` and `NothingNewIsNotMerged`: `ValidMeansReady` and the action property `NothingFoundChangesNothing`.  Whoever
  bootstraps holds the lock and nobody else merges meanwhile; whoever merges holds the other lock, on a repository that
  is ready, with a candidate that is not in place (`EvolutionInv`).
- `AuditSpeaksOnce`: `AuditPublishesOnce`.  Whoever has published is at its end, and while no attempt was late it was the
  only one at work and the event is handled (`OnceInv`).
- `MemoryIsSound`: `MemoryIsOfSoundAudits`.  A follow-up that is at work is the oldest of its queue and was fit to begin
  (`FollowUpInv`); others only queue behind it.

### What reviews run on (`ServiceProofs`)

- `SavedIsKept`, `HistoryCarriedOver`, `SessionsStaySigned`: `SavedConfigIsKept`, `HistoryIsCarriedOver` and `SessionsSurvive` of
  `ControlPlane`, for any number of starters.  The first holds without any condition on races.  The other two
  share `MigrationInv`: without a race one constructor is at work at a time, and `Holds` says where the history
  is at each statement of the script; a secret is stored only by a constructor that found none, and no
  session is signed before there is one.
- `DeafnessNeedsOverlap`: the action property `DeafOnlyByOverlap` of `BotIdentity`.  A caller that is about to answer that there
  is no name has seen that none is stored, and without an overlap nobody has stored one since (`IdentityInv`).
- `StopMeansNoTurn`: the action property `NoTurnAfterStop` of `AgentCalls`; each action that would begin a turn looks at
  the request first, so it needs no invariant, only that no action was forgotten.
- `AloneIsSafe`: `AloneIsHarmless` of `RepoAnalyst`.  A thread that is not mixed is alone between its first and its last
  step, and while none is mixed the saved values nest: what a thread saved is what the process began with (`PatchesNest`).
- `SandboxesWork` and `ContainersGo`: `HandlesWork` and `ContainersGoToo` of `Sandboxes`, whatever names the containers get.  A handle
  is of the mode the worker lives in, and what can go wrong with what it names is on record (`Traced`, `Usable`).

### The scenes (`SceneProofs`)

- `SaidOnce` and `SummaryAgrees`: `OneCommentPerFinding` and `SummaryAgreesWithComments` of `ReviewPipeline`.  What is still
  to be posted was not commented when the director decided, and nobody else comments (`Unsaid`); the
  comments of a head beyond the summary's belong to the attempt that runs, and are among its confirmed
  findings, or to an attempt that was cut (`ReviewAccounted`).
- `PushedOnce` and `SilenceIsExplained`: `ChangesOnce` and `SilenceHasAReason` of `MentionLoop`, for any number of
  attempts, rounds and pushes.  The first needs that an attempt pushes from the mention's head only, so
  each push needs the branch at commit 0, which only a reset brings back (`Paid`).  The second needs that every
  attempt that is over has left a reason or an answer, or has another one to follow it (`MentionAccounted`).

### What is only model-checked

`EventuallySettled`, `StartersComeUp`, `NameIsLearned` and `CallsEnd` are liveness under fairness.  Their proof
would reason about `ENABLED`, which the proof system does not support.  The five violations are refutations on small instances, for which one
trace is the proof.  No module that is proved about has a recursive operator, and the proofs need no induction over
data: what a run's program or a queue contains is said of its positions, not computed.

## What is assumed and what is left out

- `ReviewHistory`: a branch only grows (no force push, so nor the `event_id` of a head that comes back), mentions
  are in threads of their own, event ids are remembered for the whole behaviour, the lease does its work.
- `Publishing`: an operation has the same `op_key` in all attempts of one event; what the models find
  may differ.
- Time is only what has passed: a lease or a claim that ran out.
- The library code around an agent (its loop, its recursion limit) and the recursive language model's own loop are
  taken as their callers use them; git, docker and GitLab are calls that answer, refuse or lose the answer.
- A thread's step in `RepoAnalyst` is one assignment of the code; in the other modules a step is one
  transaction, or the code between two `await`s.

Not modelled, and why:

- *Deployment scripts*: run by an operator while the stack is down.
- *Static workbench, observability, utilities, prompts*: text in, text out; no state the running system shares.
- *Console pages and listings*: reads of the two databases.
- *The project cache of the sandboxes*: only the source of a clone, made anew when it is broken.
- *Code targets of self-evolution*: the engine reports them and applies none.
- *The second of two raising transactions in one drain* (worker.py:1486), *a head that comes back* (webapp.py:410):
  hazards without a property, with their reasons in `PROJECT.json`.

## Plan

Done: all modules with their runs; every safety and action property of a passing run proved.

Left, in this order:

1. A branch that may be put back in `ReviewHistory`, as `MentionLoop` has it, with the seen event ids of the heads
   that come back; `MarkersAreHonest` then speaks of heads by name, not by number, and both theorems are to be
   proved again for it.
2. Two raising transactions in one drain (worker.py:1486), on an instance with one event; `LeaseInv` has to admit a
   heartbeat task that nobody cancels.
3. An abstract specification of the publish receipts (one claim at a time, final once completed) that
   `Publishing` implements, in the way `ActorRuntime` implements `EventLedger`.
4. That `ReviewHistory`'s queue is `EventLedger`'s, as a theorem and no longer by construction.
