--------------------------- MODULE ReviewHistory ---------------------------
(***************************************************************************)
(* How one merge request gets reviewed: the webhooks GitLab sends about it,  *)
(* what the web app makes of them, the queue of its actor, and the handlers   *)
(* of reviews, mentions and sandbox cleanups.  A handler knows what has been  *)
(* reviewed only from hidden markers in the bot's notes, and looks at the     *)
(* merge request several times while people push.                            *)
(*                                                                          *)
(* Heads are numbered along a branch that only grows: head h has the commits *)
(* 1..h.  The actor's runs are serialized (module ActorRuntime); mentions are *)
(* in threads of their own, so they do not batch; a webhook may overtake      *)
(* others; the ids of seen events are not forgotten (EVENT_ID_TTL_SECONDS).   *)
(***************************************************************************)
EXTENDS Naturals, Sequences, SequencesExt

CONSTANTS
    Note,        \* comments that mention the bot
    NoNote,
    MaxHead,     \* bound: pushes
    MaxToggles,  \* bound: changes of the draft flag and of the state
    MaxFaults,   \* bound: handlers that raise or die with the worker
    MaxOvertakes \* bound: webhooks that overtake others

ASSUME NoteAssumption == NoNote \notin Note
ASSUME BoundsAssumption ==
    MaxHead \in Nat \ {0} /\ {MaxToggles, MaxFaults, MaxOvertakes} \subseteq Nat

VARIABLES
    \* GitLab.
    head,      \* the head of the source branch
    draft, state,
    marks,     \* the bot's notes with an open-review-head-sha marker, oldest first
    written,   \* the mentions people have written
    transit,   \* webhooks on their way
    \* The store.
    seen,      \* runtime_seen_event_ids
    receipts,  \* the heads whose summary has a completed receipt
    queue,     \* the actor's pending events
    \* The worker.
    phase,     \* where the handler is
    batch,     \* the events it handles
    sandbox,   \* the merge request's sandbox exists
    checkout,  \* the head its worktree is at
    context,   \* the head_sha of the handler's context
    base,      \* the head the review starts from, 0 for the target branch
    \* History.
    reviewed,  \* commits a published review has looked at
    masked,    \* commits on a head when a mention of it was answered, not reviewed then
    disordered,\* a review of a newer head was asked for before one of an older head
    toggles, faults, overtakes

gitlab  == <<head, draft, state, marks, written, transit>>
store   == <<seen, receipts, queue>>
view    == <<checkout, context, base>>
worker  == <<phase, batch, sandbox, view>>
history == <<reviewed, masked, disordered>>
bounds  == <<toggles, faults, overtakes>>
vars    == <<gitlab, store, worker, history, bounds>>

Heads == 1..MaxHead
Actions == {"open", "reopen", "update", "close", "merge", "note"}
Webhooks == [action : Actions, head : Heads, draft : BOOLEAN, pushed : BOOLEAN,
             ready : BOOLEAN, note : Note \cup {NoNote}]
Events == [type : {"auto_review", "mention", "sandbox_cleanup"}, head : Heads,
           note : Note \cup {NoNote}]
Marks == [kind : {"summary", "reply"}, head : Heads, note : Note \cup {NoNote}]

Webhook(action) ==
    [action |-> action, head |-> head', draft |-> draft', pushed |-> FALSE,
     ready |-> FALSE, note |-> NoNote]
Event(type, w) == [type |-> type, head |-> w.head, note |-> w.note]

Init ==
    /\ head = 1 /\ draft \in BOOLEAN /\ state = "opened"
    /\ marks = <<>> /\ written = {}
    /\ transit = <<[action |-> "open", head |-> 1, draft |-> draft, pushed |-> FALSE,
                    ready |-> FALSE, note |-> NoNote]>>
    /\ seen = {} /\ receipts = {} /\ queue = <<>>
    /\ phase = "idle" /\ batch = <<>>
    /\ sandbox = FALSE /\ checkout = 1 /\ context = 1 /\ base = 0
    /\ reviewed = {} /\ masked = {} /\ disordered = FALSE
    /\ toggles = 0 /\ faults = 0 /\ overtakes = 0

-----------------------------------------------------------------------------
(* People *)

Push ==
    /\ state = "opened" /\ head < MaxHead
    /\ head' = head + 1
    /\ UNCHANGED draft
    /\ transit' = Append(transit, [Webhook("update") EXCEPT !.pushed = TRUE])
    /\ UNCHANGED <<state, marks, written, store, worker, history, bounds>>

ToggleDraft ==
    /\ state = "opened" /\ toggles < MaxToggles
    /\ toggles' = toggles + 1
    /\ draft' = ~draft
    /\ UNCHANGED head
    /\ transit' = Append(transit, [Webhook("update") EXCEPT !.ready = draft])
    /\ UNCHANGED <<state, marks, written, store, worker, history, faults, overtakes>>

\* The merge request is closed, merged or, once closed, opened again.
ChangeState(action) ==
    /\ \/ action = "reopen" /\ state = "closed" /\ state' = "opened"
       \/ action = "close" /\ state = "opened" /\ state' = "closed"
       \/ action = "merge" /\ state = "opened" /\ ~draft /\ state' = "merged"
    /\ toggles < MaxToggles
    /\ toggles' = toggles + 1
    /\ UNCHANGED <<head, draft>>
    /\ transit' = Append(transit, Webhook(action))
    /\ UNCHANGED <<marks, written, store, worker, history, faults, overtakes>>

Mention(n) ==
    /\ n \notin written
    /\ written' = written \cup {n}
    /\ UNCHANGED <<head, draft>>
    /\ transit' = Append(transit, [Webhook("note") EXCEPT !.note = n])
    /\ UNCHANGED <<state, marks, store, worker, history, bounds>>

-----------------------------------------------------------------------------
(* The web app *)

\* The event a webhook asks for and its event_id, or nothing.
Requests(w) ==
    CASE w.action \in {"close", "merge"} ->
           {[id |-> <<w.action>>, event |-> Event("sandbox_cleanup", w)]}
      [] w.action \in {"open", "reopen"} /\ ~w.draft ->
           {[id |-> <<w.action, w.head>>, event |-> Event("auto_review", w)]}
      [] w.action = "update" /\ w.pushed /\ ~w.draft ->
           {[id |-> <<"update", w.head>>, event |-> Event("auto_review", w)]}
      [] w.action = "update" /\ ~w.pushed /\ w.ready ->
           {[id |-> <<"draft-ready", w.head>>, event |-> Event("auto_review", w)]}
      [] w.action = "note" ->
           {[id |-> <<"note", w.note>>, event |-> Event("mention", w)]}
      [] OTHER -> {}

ReviewsAsked(i) == {r \in Requests(transit[i]) : r.event.type = "auto_review"}

\* gitlab_webhook and append_event: a seen event_id is dropped.
Deliver(i) ==
    /\ i = 1 \/ overtakes < MaxOvertakes
    /\ overtakes' = IF i = 1 THEN overtakes ELSE overtakes + 1
    /\ disordered' = (disordered \/ \E j \in 1..i - 1 :
          \E r \in ReviewsAsked(i), q \in ReviewsAsked(j) : q.event.head < r.event.head)
    /\ transit' = RemoveAt(transit, i)
    /\ \/ \E r \in Requests(transit[i]) :
             /\ r.id \notin seen
             /\ seen' = seen \cup {r.id}
             /\ queue' = Append(queue, r.event)
       \/ /\ \A r \in Requests(transit[i]) : r.id \in seen
          /\ UNCHANGED <<seen, queue>>
    /\ UNCHANGED <<head, draft, state, marks, written, receipts, worker, reviewed, masked,
                   toggles, faults>>

-----------------------------------------------------------------------------
(* The worker *)

\* Mutant: reviews in a row are handled as the oldest of them.
HandledFirst == Head(batch)

\* The event a batch is handled as: the newest review.
Handled == Last(batch)

\* The next batch is the first n events: reviews in a row are one batch.
IsNextBatch(n) ==
    IF Head(queue).type # "auto_review" THEN n = 1
    ELSE /\ \A i \in 1..n : queue[i].type = "auto_review"
         /\ n < Len(queue) => queue[n + 1].type # "auto_review"

Pop ==
    /\ phase = "idle" /\ queue # <<>>
    /\ \E n \in 1..Len(queue) :
          /\ IsNextBatch(n)
          /\ batch' = SubSeq(queue, 1, n)
          /\ queue' = SubSeq(queue, n + 1, Len(queue))
    /\ phase' = "preflight"
    /\ UNCHANGED <<gitlab, seen, receipts, sandbox, view, history, bounds>>

CleanUp ==
    /\ phase = "preflight" /\ Handled.type = "sandbox_cleanup"
    /\ sandbox' = FALSE
    /\ phase' = "done"
    /\ UNCHANGED <<gitlab, store, batch, view, history, bounds>>

\* The handler loads the merge request: an event of an older head is stale.
Preflight ==
    /\ phase = "preflight" /\ Handled.type # "sandbox_cleanup"
    /\ phase' = IF head = Handled.head THEN "checkout" ELSE "done"
    /\ UNCHANGED <<gitlab, store, batch, sandbox, view, history, bounds>>

\* setup_sandbox fetches the branch.
Checkout ==
    /\ phase = "checkout"
    /\ sandbox' = TRUE
    /\ checkout' = head
    /\ phase' = "context"
    /\ UNCHANGED <<gitlab, store, batch, context, base, history, bounds>>

LastMarked == IF marks = <<>> THEN 0 ELSE Last(marks).head

\* Mutant: the head is not looked at again.
BuildReviewContextUnchecked ==
    /\ phase = "context" /\ Handled.type = "auto_review"
    /\ context' = head /\ base' = LastMarked
    /\ phase' = IF base' # checkout THEN "work" ELSE "done"
    /\ UNCHANGED <<gitlab, store, batch, sandbox, checkout, history, bounds>>

\* build_review_context: the review starts after the last marked head.  A review
\* with nothing to look at, or of a head that moved, is skipped.
BuildReviewContext ==
    /\ phase = "context" /\ Handled.type = "auto_review"
    /\ context' = head /\ base' = LastMarked
    /\ phase' = IF base' # checkout /\ context' = Handled.head THEN "work" ELSE "done"
    /\ UNCHANGED <<gitlab, store, batch, sandbox, checkout, history, bounds>>

\* _head_is_current before the review is published.
CheckHead ==
    /\ phase = "work" /\ Handled.type = "auto_review"
    /\ phase' = IF head = context THEN "publish" ELSE "done"
    /\ UNCHANGED <<gitlab, store, batch, sandbox, view, history, bounds>>

\* The summary replaces the last one in place, which keeps its date.
Upserted(h) ==
    LET note == [kind |-> "summary", head |-> h, note |-> NoNote]
        old  == {i \in 1..Len(marks) : marks[i].kind = "summary"}
    IN  IF old = {} THEN Append(marks, note)
        ELSE [i \in 1..Len(marks) |-> IF i \in old THEN note ELSE marks[i]]

\* _publish_review: a summary with a completed receipt is not published again.
PublishReview ==
    /\ phase = "publish"
    /\ marks' = IF context \in receipts THEN marks ELSE Upserted(context)
    /\ receipts' = receipts \cup {context}
    /\ reviewed' = reviewed \cup (base + 1)..checkout
    /\ phase' = "done"
    /\ UNCHANGED <<head, draft, state, written, transit, seen, queue, batch, sandbox,
                   view, masked, disordered, bounds>>

\* build_mention_context: a mention that was answered, or whose head moved, is
\* skipped.
BuildMentionContext ==
    /\ phase = "context" /\ Handled.type = "mention"
    /\ context' = head
    /\ phase' = IF /\ head = Handled.head
                   /\ \A i \in 1..Len(marks) :
                        ~(marks[i].note = Handled.note /\ marks[i].head = head)
                THEN "work" ELSE "done"
    /\ UNCHANGED <<gitlab, store, batch, sandbox, checkout, base, history, bounds>>

\* The mention agent pushes its commit, unless the head moved.
PushFix ==
    /\ phase = "work" /\ Handled.type = "mention"
    /\ state = "opened" /\ head < MaxHead
    /\ head = context
    /\ head' = head + 1
    /\ UNCHANGED draft
    /\ transit' = Append(transit, [Webhook("update") EXCEPT !.pushed = TRUE])
    /\ phase' = "reply"
    /\ UNCHANGED <<state, marks, written, store, batch, sandbox, view,
                   history, bounds>>

\* The mention gets its reply or a failure notice, marked with the head the
\* handler started from.
Reply ==
    /\ phase \in {"work", "reply"} /\ Handled.type = "mention"
    /\ marks' = Append(marks, [kind |-> "reply", head |-> context,
                               note |-> Handled.note])
    /\ masked' = masked \cup (1..context \ reviewed)
    /\ phase' = "done"
    /\ UNCHANGED <<head, draft, state, written, transit, store, batch, sandbox,
                   view, reviewed, disordered, bounds>>

\* The batch is acked.
Ack ==
    /\ phase = "done"
    /\ phase' = "idle" /\ batch' = <<>>
    /\ UNCHANGED <<gitlab, store, sandbox, view, history, bounds>>

\* The handler raises, or the worker dies: the batch goes back to the front.
Fault ==
    /\ phase # "idle" /\ faults < MaxFaults
    /\ faults' = faults + 1
    /\ queue' = batch \o queue
    /\ phase' = "idle" /\ batch' = <<>>
    /\ UNCHANGED <<gitlab, seen, receipts, sandbox, view, history, toggles, overtakes>>

-----------------------------------------------------------------------------

People == Push \/ ToggleDraft \/ (\E a \in Actions : ChangeState(a)) \/ (\E n \in Note : Mention(n))
Handler ==
    \/ Pop \/ CleanUp \/ Preflight \/ Checkout \/ BuildReviewContext \/ CheckHead
    \/ PublishReview \/ BuildMentionContext \/ PushFix \/ Reply \/ Ack
Next == People \/ (\E i \in 1..Len(transit) : Deliver(i)) \/ Handler \/ Fault

Spec == Init /\ [][Next]_vars

-----------------------------------------------------------------------------
(* Properties *)

\* The types of the merge request, the queue and the handler.
TypeOK ==
    /\ head \in Heads /\ draft \in BOOLEAN /\ state \in {"opened", "closed", "merged"}
    /\ marks \in Seq(Marks) /\ written \subseteq Note /\ transit \in Seq(Webhooks)
    /\ receipts \subseteq Heads /\ queue \in Seq(Events)
    /\ phase \in {"idle", "preflight", "checkout", "context", "work", "publish",
                  "reply", "done"}
    /\ batch \in Seq(Events) /\ (phase # "idle" => batch # <<>>)
    /\ sandbox \in BOOLEAN /\ checkout \in Heads /\ context \in Heads /\ base \in Nat
    /\ reviewed \subseteq Heads /\ masked \subseteq Heads
    /\ toggles \in Nat /\ faults \in Nat /\ overtakes \in Nat /\ disordered \in BOOLEAN

\* The markers can be trusted: up to a marked head every commit was reviewed, or
\* was on a head whose mention was answered first (auto_review/orchestrator.py
\* :699-703).  The next review starts there.
MarkersAreHonest ==
    \A i \in 1..Len(marks) : 1..marks[i].head \subseteq reviewed \cup masked

\* Nothing is on its way or being done.
AtRest == transit = <<>> /\ queue = <<>> /\ phase = "idle"

\* Whatever the pushes, draft flags, retries and stale handlers, an open merge
\* request that is no draft is reviewed up to its head in the end, but for what
\* an earlier answer to a mention hides, and unless the request for a newer head
\* arrived before that for an older one: the batch is handled as its last event
\* (webapp.py:375-430, worker.py:623, 1303, auto_review/orchestrator.py:773-779, 1778).
ReviewedUnlessMasked ==
    AtRest /\ state = "opened" /\ ~draft => 1..head \subseteq reviewed \cup masked \/ disordered

\* README.md:21 "Automatic MR review on open, reopen, update, and draft-to-ready
\* events".
EveryHeadIsReviewed ==
    AtRest /\ state = "opened" /\ ~draft => 1..head \subseteq reviewed

\* sandbox/manager.py:572 "Remove a sandbox when the MR is closed/merged."
SandboxIsRemoved == AtRest /\ state # "opened" => ~sandbox

=============================================================================
