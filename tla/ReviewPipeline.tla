--------------------------- MODULE ReviewPipeline ---------------------------
(***************************************************************************)
(* What a review says: from the decision of the director to the inline        *)
(* comments and the summary, over the heads of one merge request and the      *)
(* attempts at each.  A finding is known again by its dedupe key, which the    *)
(* bot's inline comments carry and its summary does not.                      *)
(*                                                                          *)
(* The models' answers are taken as they come.  Reviews of one merge request  *)
(* are serialized by _REVIEW_LOCKS.  Which head is reviewed is in             *)
(* ReviewHistory, the receipts of each post are in Publishing.                *)
(***************************************************************************)
EXTENDS Naturals, FiniteSets

CONSTANTS
    MaxKeys,     \* dedupe keys 1 .. MaxKeys, in the order of _finding_sort_key
    Located,     \* the keys whose findings lie on an added line, with high confidence
    Limit,       \* AUTO_REVIEW_MAX_PUBLISHED_FINDINGS, 0 for none
    MaxHeads,    \* bound: heads of the merge request
    MaxCuts      \* bound: attempts that raise while publishing or die, terminations

Keys == 1 .. MaxKeys
ASSUME ReviewPipelineAssumption ==
    /\ {MaxKeys, Limit, MaxHeads, MaxCuts} \subseteq Nat /\ Located \subseteq Keys

VARIABLES
    newest,      \* the head of the merge request
    comments,    \* per key: the heads for which an inline comment was made
    note,        \* the summary: its head, the findings it lists, its recommendation
    review,      \* the attempt that is running
    asked,       \* its termination is requested
    partial,        \* history: heads at which an attempt ended between its posts
    cuts

pipelineVars == <<newest, comments, note, review, asked, partial, cuts>>

NoReview == [at |-> "idle", head |-> 0, known |-> {}, confirmed |-> {}, todo |-> {},
             advice |-> "none"]
NoNote == [head |-> 0, lists |-> {}, advice |-> "none"]

PipelineInit ==
    /\ newest = 1 /\ comments = [k \in Keys |-> {}] /\ note = NoNote
    /\ review = NoReview /\ asked = FALSE /\ partial = {} /\ cuts = 0

Reviewing(where) == review.at = where
Advances(where) == review' = [review EXCEPT !.at = where]
Cut == cuts < MaxCuts /\ cuts' = cuts + 1

-----------------------------------------------------------------------------
(* One attempt *)

Commented == {k \in Keys : comments[k] # {}}
\* Mutant: the limit on the history of comments also cuts the keys read from it.
MutantKnown == {k \in Keys : newest \in comments[k]}
\* previous_bot_dedupe_keys: from all of the bot's comments, of any head.
Known == Commented

\* build_review_context.  The head that the summary names is not reviewed again.
BeginReview ==
    /\ Reviewing("idle") /\ note.head # newest
    /\ review' = [NoReview EXCEPT !.at = "director", !.head = newest, !.known = Known]
    /\ asked' = FALSE
    /\ UNCHANGED <<newest, comments, note, partial, cuts>>

\* The first n of a set of findings, the gravest first.
First(n, found) == {k \in found : Cardinality({j \in found : j < k}) < n}
Most(found) == IF Limit = 0 THEN found ELSE First(Limit, found)
\* _resolve_review_recommendation.
Advice(given, confirmed) ==
    IF given # "none" THEN given ELSE IF confirmed # {} THEN "rework" ELSE "merge"

\* Mutant: the inline comments are chosen before the limit is applied.
MutantInlines(fresh) == fresh \cap Located
Inlines(fresh) == Most(fresh) \cap Located

\* _finalize_director_decision: what was said in an inline comment before is left
\* out.  What is only suspected is listed too, and is not followed here.
Finalize(confirmed, given) ==
    LET fresh == confirmed \ review.known IN
    [review EXCEPT !.at = "check", !.confirmed = Most(fresh), !.todo = Inlines(fresh),
                   !.advice = Advice(given, Most(fresh))]

\* _head_is_current, after the director.
HeadMoved == newest # review.head

\* The director and its specialists decide.
Direct ==
    /\ Reviewing("director")
    /\ \E confirmed \in SUBSET Keys, given \in {"none", "merge", "rework"} :
          review' = IF HeadMoved THEN NoReview ELSE Finalize(confirmed, given)
    /\ UNCHANGED <<newest, comments, note, asked, partial, cuts>>

\* Any exception of the director, a requested termination among them, and an
\* answer without content: a summary without findings takes its place.
DirectorFails ==
    /\ Reviewing("director")
    /\ review' = IF HeadMoved THEN NoReview ELSE Finalize({}, "rework")
    /\ UNCHANGED <<newest, comments, note, asked, partial, cuts>>

\* raise_if_run_termination_requested before the first post.
CheckBeforePosting ==
    /\ Reviewing("check")
    /\ IF asked THEN review' = NoReview ELSE Advances("post")
    /\ UNCHANGED <<newest, comments, note, asked, partial, cuts>>

\* The inline comments, the gravest first.
PostInline ==
    /\ Reviewing("post")
    /\ \E k \in review.todo :
          /\ \A j \in review.todo : k <= j
          /\ comments' = [comments EXCEPT ![k] = @ \cup {review.head}]
          /\ review' = [review EXCEPT !.todo = @ \ {k}]
    /\ UNCHANGED <<newest, note, asked, partial, cuts>>

\* The summary replaces the one before it.
PostSummary ==
    /\ Reviewing("post") /\ review.todo = {}
    /\ note' = [head |-> review.head, lists |-> review.confirmed,
                advice |-> review.advice]
    /\ review' = NoReview
    /\ UNCHANGED <<newest, comments, asked, partial, cuts>>

\* A post raises or the worker dies; the drain starts the next attempt.
AttemptIsCut ==
    /\ ~Reviewing("idle") /\ Cut
    /\ partial' = IF Reviewing("post") THEN partial \cup {review.head} ELSE partial
    /\ review' = NoReview
    /\ UNCHANGED <<newest, comments, note, asked>>

PushHead ==
    /\ newest < MaxHeads /\ newest' = newest + 1
    /\ UNCHANGED <<comments, note, review, asked, partial, cuts>>

AskToStop ==
    /\ ~Reviewing("idle") /\ ~asked /\ Cut /\ asked' = TRUE
    /\ UNCHANGED <<newest, comments, note, review, partial>>

PipelineNext ==
    \/ BeginReview \/ Direct \/ DirectorFails \/ CheckBeforePosting \/ PostInline
    \/ PostSummary \/ AttemptIsCut \/ PushHead \/ AskToStop

PipelineSpec == PipelineInit /\ [][PipelineNext]_pipelineVars

-----------------------------------------------------------------------------
(* Properties *)

\* A finding gets one inline comment, however many heads it lives through and
\* however often a head is reviewed (auto_review/orchestrator.py:1358).
OneCommentPerFinding == \A k \in Keys : Cardinality(comments[k]) <= 1

\* The summary lists the findings that were commented for its head, unless an
\* attempt at that head was cut between its posts: the next one takes its
\* comments for old news, counts no finding and may advise to merge.
SummaryAgreesWithComments ==
    {k \in Keys : note.head \in comments[k]} \subseteq note.lists \/ note.head \in partial
=============================================================================
