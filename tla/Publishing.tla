----------------------------- MODULE Publishing -----------------------------
(***************************************************************************)
(* What the handlers of one queued event put on GitLab: the publish          *)
(* receipts of the store (claim, complete, fail), the calls to GitLab        *)
(* between them, and the order in which a review and a mention publish.      *)
(*                                                                          *)
(* An attempt is one run of the event's handler.  The runtime starts the     *)
(* next attempt when the last one raised or died with its process, or, when  *)
(* the last one lost its lease, while it is still running or although it has *)
(* ended well.  The event's head and notes do not change between attempts, so *)
(* an operation has the same op_key in all of them; what the language models  *)
(* find, and so the inline comments of an attempt, may differ.                *)
(*                                                                          *)
(* The publisher callables are synchronous and the worker is one process,    *)
(* so a call to GitLab is one step; the store's calls are awaited.           *)
(***************************************************************************)
EXTENDS Naturals, FiniteSets

CONSTANTS
    Attempt,    \* runs of the event's handler
    NoAttempt,
    Inline,     \* op_keys of inline comments: findings or snippets
    MaxTrouble  \* bound: lost answers of GitLab, store transactions that raise,
                \* crashes of the worker, attempts started next to a running one

ASSUME AttemptAssumption == IsFiniteSet(Attempt) /\ NoAttempt \notin Attempt
ASSUME InlineAssumption == Inline \cap {"final", "fallback"} = {}
ASSUME MaxTroubleAssumption == MaxTrouble \in Nat

\* "final" is the review's summary or the mention's reply, "fallback" the plain
\* note that replaces a reply to a discussion.
Op == Inline \cup {"final", "fallback"}

\* A review, a mention in a discussion thread, a mention in a plain comment.
Scenes == {"review", "thread", "comment"}

VARIABLES
    scene,
    \* runtime_publish_receipts of the actor, per op_key.
    receipt,   \* the receipt's status, "none" before the first claim
    hasId,     \* the receipt has an external_id
    aged,      \* the receipt is older than RUNTIME_PUBLISH_CLAIM_TTL_SECONDS
    \* GitLab.
    notes,     \* how many notes or discussions an op_key has created
    \* The attempts.
    latest,    \* the attempt started last: the owner of the actor's lease
    run,       \* what each attempt is doing
    \* History.
    shown,     \* the operations whose content is on GitLab
    slips,     \* per operation: lost answers and posts whose receipt was not saved
    stolen,    \* operations whose claim became stale under a running publisher
    trouble

store    == <<receipt, hasId, aged>>
history  == <<shown, slips, stolen>>
vars     == <<scene, store, notes, latest, run, history, trouble>>

LivePhases == {"working", "claim", "post", "complete", "track", "fail"}
EndPhases == {"published", "failed", "skipped", "raised", "dead"}

\* An attempt: where it is; whether it publishes its result or the notice that
\* it failed; the operations it has not come to; the one it has claimed; the
\* snippets in its reply; what it promised to publish and left to nobody.
Run == [phase : {"new"} \cup LivePhases \cup EndPhases,
        stage : {"result", "notice"},
        todo : SUBSET Op, op : Op, inReply : SUBSET Op, promised : SUBSET Op]
Ended(p) == [phase |-> p, stage |-> "result", todo |-> {}, op |-> "final",
             inReply |-> {}, promised |-> {}]

Live(a) == run[a].phase \in LivePhases

\* a is between its claim of o and the receipt that ends it.
Holds(a, o) == run[a].phase \in {"post", "complete", "fail"} /\ run[a].op = o

Init ==
    /\ scene \in Scenes
    /\ receipt = [o \in Op |-> "none"]
    /\ hasId = [o \in Op |-> FALSE]
    /\ aged = [o \in Op |-> FALSE]
    \* A review may find the summary of an earlier head.
    /\ \E earlier \in IF scene = "review" THEN {0, 1} ELSE {0} :
          notes = [o \in Op |-> IF o = "final" THEN earlier ELSE 0]
    /\ latest = NoAttempt
    /\ run = [a \in Attempt |-> Ended("new")]
    /\ shown = {}
    /\ slips = [o \in Op |-> 0]
    /\ stolen = {}
    /\ trouble = 0

\* n more things go wrong.
Trouble(n) ==
    /\ trouble + n <= MaxTrouble
    /\ trouble' = trouble + n

-----------------------------------------------------------------------------
(* Attempts *)

\* What is published next: the inline comments first, then the final note.
NextOps(r) == IF r.todo \cap Inline # {} THEN r.todo \cap Inline ELSE r.todo

\* Run r after it has dealt with operation o.
Proceeded(r, o) ==
    IF r.todo # {o} THEN [r EXCEPT !.todo = @ \ {o}, !.phase = "claim", !.op = "final"]
    ELSE IF r.stage = "notice" THEN Ended("failed")
    ELSE [Ended("published") EXCEPT !.promised = r.promised]

\* A mention that failed says so where its reply would go.
Notifying == [Ended("claim") EXCEPT !.stage = "notice", !.todo = {"final"}]

\* Run r after an exception at operation o.  A review lets it through to the
\* runtime.  A mention's reply to a discussion falls back to a note; another
\* exception is answered with a failure notice, whose own exception is the
\* runtime's.
Raised(r, o) ==
    IF scene = "thread" /\ o = "final"
    THEN [r EXCEPT !.todo = {"fallback"}, !.phase = "claim"]
    ELSE IF scene # "review" /\ r.stage = "result"
    THEN Notifying
    ELSE Ended("raised")

\* The notes that answer a mention: replies, failure notices and fallbacks.
Answers == notes["final"] + notes["fallback"]

\* The runtime runs the handler for the first time or again.  It skips a mention
\* that has been answered, and a review that the markers on the merge request
\* say is done, which may be wrong either way (see ReviewHistory).  A process
\* runs one review per merge request at a time (_REVIEW_LOCKS); mentions have no
\* such lock.
Start(a) ==
    /\ run[a].phase = "new"
    /\ IF latest = NoAttempt \/ ~Live(latest) THEN Trouble(0)
       ELSE scene # "review" /\ Trouble(1)
    /\ latest' = a
    /\ \E skip \in IF scene = "review" THEN BOOLEAN ELSE {Answers > 0} :
          run' = [run EXCEPT ![a].phase = IF skip THEN "skipped" ELSE "working"]
    /\ UNCHANGED <<scene, store, notes, history>>

\* The language models have found what to publish.
Found(a) ==
    /\ run[a].phase = "working"
    /\ \E found \in SUBSET Inline :
          run' = [run EXCEPT ![a].phase = "claim",
                             ![a].todo = found \cup {"final"},
                             ![a].promised = found \cup {"final"}]
    /\ UNCHANGED <<scene, store, notes, latest, history, trouble>>

\* The work raises before anything is published.
WorkRaises(a) ==
    /\ run[a].phase = "working"
    /\ run' = [run EXCEPT ![a] = IF scene = "review" THEN Ended("raised")
                                 ELSE Notifying]
    /\ UNCHANGED <<scene, store, notes, latest, history, trouble>>

-----------------------------------------------------------------------------
(* The publish service *)

\* Mutant: the age of a claim is not looked at.
ReclaimAnyClaim(o) == receipt[o] # "completed"

\* _publish_receipt_can_be_reclaimed, and the first claim.
CanClaim(o) ==
    \/ receipt[o] \in {"none", "failed"}
    \/ receipt[o] = "claimed" /\ aged[o]

\* claim_publish_receipt grants the operation.
Claim(a) ==
    /\ run[a].phase = "claim"
    /\ \E o \in NextOps(run[a]) :
          /\ CanClaim(o)
          /\ receipt' = [receipt EXCEPT ![o] = "claimed"]
          /\ hasId' = [hasId EXCEPT ![o] = FALSE]
          /\ aged' = [aged EXCEPT ![o] = FALSE]
          /\ run' = [run EXCEPT ![a].phase = "post", ![a].op = o]
    /\ UNCHANGED <<scene, notes, latest, history, trouble>>

\* What run r leaves to others when o is refused: a finding under a claim that is
\* not completed, or a reply with all that is in its own.
LeftToOthers(r, o) ==
    IF o \notin Inline THEN {"final"} \cup r.inReply
    ELSE IF scene = "review" /\ receipt[o] # "completed" THEN {o} ELSE {}

\* Mutant: a snippet somebody claimed is taken for published.
PassOverQuietly(a) ==
    /\ run[a].phase = "claim"
    /\ \E o \in NextOps(run[a]) :
          /\ ~CanClaim(o)
          /\ run' = [run EXCEPT ![a] =
                Proceeded([@ EXCEPT !.promised = @ \ LeftToOthers(run[a], o)], o)]
    /\ UNCHANGED <<scene, store, notes, latest, history, trouble>>

\* Run r when o is refused.  A mention's snippet without an external id goes into
\* the reply.
Refused(r, o) ==
    [r EXCEPT !.promised = @ \ LeftToOthers(r, o),
              !.inReply = IF scene # "review" /\ o \in Inline /\ ~hasId[o]
                          THEN @ \cup {o} ELSE @]

\* claim_publish_receipt refuses: the operation counts as published, whether it
\* is completed or only claimed.
PassOver(a) ==
    /\ run[a].phase = "claim"
    /\ \E o \in NextOps(run[a]) :
          /\ ~CanClaim(o)
          /\ run' = [run EXCEPT ![a] = Proceeded(Refused(run[a], o), o)]
    /\ UNCHANGED <<scene, store, notes, latest, history, trouble>>

\* What a call may come to: the notes it makes, whether the content is on
\* GitLab after it, the answers that are lost, and what it returns.
Result(made, seen, lost, returns) ==
    [made |-> made, seen |-> seen, lost |-> lost, returns |-> returns]

Creating == {Result(1, TRUE, 0, "id"), Result(0, FALSE, 0, "raise"),
             Result(1, TRUE, 1, "raise")}
Updating == {Result(0, TRUE, 0, "id"), Result(0, FALSE, 0, "raise"),
             Result(0, TRUE, 1, "raise")}

\* post_diff_discussion with and without the note that replaces it.
WithFallback == Creating \cup {Result(2, TRUE, 1, "id"), Result(2, TRUE, 2, "raise")}
WithoutFallback == {Result(1, TRUE, 0, "id"), Result(0, FALSE, 0, "none"),
                    Result(1, TRUE, 1, "none"), Result(0, FALSE, 0, "raise")}

\* Mutant: the summary is always a new note.
NewSummary(o) ==
    IF o \notin Inline THEN Creating
    ELSE IF scene = "review" THEN WithFallback ELSE WithoutFallback

\* A finding is posted with the fallback, a snippet without; the summary is an
\* upsert by its marker; everything else is a new note.
Calls(o) ==
    IF o \in Inline
    THEN IF scene = "review" THEN WithFallback ELSE WithoutFallback
    ELSE IF scene = "review" /\ notes[o] > 0 THEN Updating ELSE Creating

\* The content on GitLab once run r has posted its operation.
Shows(r) ==
    IF r.stage = "notice" THEN {}
    ELSE IF r.op \in Inline THEN {r.op} ELSE {"final"} \cup r.inReply

\* The publisher is called.
Post(a) ==
    /\ run[a].phase = "post"
    /\ LET o == run[a].op IN \E call \in Calls(o) :
          /\ Trouble(call.lost)
          /\ notes' = [notes EXCEPT ![o] = @ + call.made]
          /\ slips' = [slips EXCEPT ![o] = @ + call.lost]
          /\ shown' = IF call.seen THEN shown \cup Shows(run[a]) ELSE shown
          /\ run' = [run EXCEPT
                ![a].phase = IF call.returns = "raise" THEN "fail" ELSE "complete",
                ![a].inReply = IF call.returns = "none" THEN @ \cup {o} ELSE @]
    /\ UNCHANGED <<scene, store, latest, stolen>>

\* record_publish_receipt of a completed receipt, over whatever is stored.
Complete(a) ==
    /\ run[a].phase = "complete"
    /\ receipt' = [receipt EXCEPT ![run[a].op] = "completed"]
    /\ aged' = [aged EXCEPT ![run[a].op] = FALSE]
    /\ hasId' = [hasId EXCEPT ![run[a].op] = run[a].op \notin run[a].inReply]
    /\ run' = [run EXCEPT ![a].phase = "track"]
    /\ UNCHANGED <<scene, notes, latest, history, trouble>>

\* append_published_object to the tracked run.
Track(a) ==
    /\ run[a].phase = "track"
    /\ run' = [run EXCEPT ![a] = Proceeded(@, run[a].op)]
    /\ UNCHANGED <<scene, store, notes, latest, history, trouble>>

\* record_publish_receipt of a failed receipt, and the exception goes on.
Fail(a) ==
    /\ run[a].phase = "fail"
    /\ receipt' = [receipt EXCEPT ![run[a].op] = "failed"]
    /\ aged' = [aged EXCEPT ![run[a].op] = FALSE]
    /\ hasId' = [hasId EXCEPT ![run[a].op] = FALSE]
    /\ run' = [run EXCEPT ![a] = Raised(@, run[a].op)]
    /\ UNCHANGED <<scene, notes, latest, history, trouble>>

-----------------------------------------------------------------------------
(* The environment *)

\* A transaction raises.  A receipt that is not saved stays claimed.
StoreRaises(a) ==
    /\ Trouble(1)
    /\ \/ /\ run[a].phase = "claim"
          /\ \E o \in NextOps(run[a]) : run' = [run EXCEPT ![a] = Raised(@, o)]
          /\ UNCHANGED slips
       \/ /\ run[a].phase \in {"complete", "track", "fail"}
          /\ run' = [run EXCEPT ![a] = Raised(@, run[a].op)]
          /\ slips' = IF run[a].phase = "complete"
                      THEN [slips EXCEPT ![run[a].op] = @ + 1] ELSE slips
    /\ UNCHANGED <<scene, store, notes, latest, shown, stolen>>

\* The worker dies with all its attempts.
Crash ==
    /\ Trouble(1)
    /\ run' = [a \in Attempt |-> IF Live(a) THEN Ended("dead") ELSE run[a]]
    /\ slips' = [o \in Op |-> slips[o] + Cardinality(
          {a \in Attempt : run[a].phase = "complete" /\ run[a].op = o})]
    /\ UNCHANGED <<scene, store, notes, latest, shown, stolen>>

\* RUNTIME_PUBLISH_CLAIM_TTL_SECONDS pass after a claim.  (The age of another
\* receipt is never looked at.)
ClaimAges(o) ==
    /\ receipt[o] = "claimed" /\ ~aged[o]
    /\ aged' = [aged EXCEPT ![o] = TRUE]
    /\ stolen' = IF \E a \in Attempt : Holds(a, o)
                 THEN stolen \cup {o} ELSE stolen
    /\ UNCHANGED <<scene, receipt, hasId, notes, latest, run, shown, slips,
                   trouble>>

-----------------------------------------------------------------------------

Next ==
    \/ \E a \in Attempt :
          \/ Start(a) \/ Found(a) \/ WorkRaises(a) \/ Claim(a) \/ PassOver(a) \/ Post(a)
          \/ Complete(a) \/ Track(a) \/ Fail(a) \/ StoreRaises(a)
    \/ \E o \in Op : ClaimAges(o)
    \/ Crash

Spec == Init /\ [][Next]_vars

-----------------------------------------------------------------------------
(* Properties *)

\* The types of the receipts, the attempts and the history.
TypeOK ==
    /\ scene \in Scenes
    /\ receipt \in [Op -> {"none", "claimed", "completed", "failed"}]
    /\ hasId \in [Op -> BOOLEAN]
    /\ aged \in [Op -> BOOLEAN]
    /\ notes \in [Op -> Nat]
    /\ latest \in Attempt \cup {NoAttempt}
    /\ run \in [Attempt -> Run]
    /\ shown \subseteq Op
    /\ slips \in [Op -> Nat]
    /\ stolen \subseteq Op
    /\ trouble \in Nat

\* An operation makes one note, and one more for each answer that was lost and
\* each post whose receipt was not saved, over any number of retries, as long
\* as publishers are faster than the claim's time to live (publish.py:90-117).
OncePerSlip ==
    \A o \in Op \ stolen : notes[o] <= 1 + slips[o]

\* A review's summary stays one note over heads and retries, whatever is lost or
\* repeated: it is updated in place (comments.py:49).
OneSummary == scene = "review" => notes["final"] <= 1

\* A run that ends as published has everything it set out to publish on GitLab,
\* in place or inside the reply, but for what it left to a claim that nobody
\* completed or to another attempt's reply (publish.py:99, mention/
\* orchestrator.py:562-600).
PublishedIsShown ==
    \A a \in Attempt : run[a].phase = "published" => run[a].promised \subseteq shown

\* A completed receipt is final while no running publisher's claim got stale.
CompletedIsFinal ==
    [][\A o \in Op : receipt[o] = "completed" /\ o \notin stolen
          => receipt'[o] = "completed"]_vars

\* publish.py:1 "Helpers for idempotent GitLab publishing backed by the runtime
\* store", publish.py:16 "so repeated runs do not duplicate GitLab output": a
\* mention is answered once.
NoDuplicateOutput == scene # "review" => Answers <= 1

=============================================================================
