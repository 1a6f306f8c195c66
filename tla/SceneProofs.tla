----------------------------- MODULE SceneProofs -----------------------------
(***************************************************************************)
(* Proofs about the two scenes that speak on a merge request, one after the    *)
(* other.  A review, for any number of findings, heads and cut attempts: a      *)
(* finding is commented once, and the summary agrees with the comments.  A      *)
(* mention, for any attempts, rounds, commits, resets and accidents: it changes *)
(* the branch once, and it is not dropped in silence without one of the reasons *)
(* that are known.                                                            *)
(***************************************************************************)
EXTENDS ReviewPipeline, MentionLoop, FiniteSetTheorems, TLAPS

-----------------------------------------------------------------------------
(* The review *)

Stages == {"idle", "director", "check", "post"}
Reviews == [at : Stages, head : Nat, known : SUBSET Keys, confirmed : SUBSET Keys,
            todo : SUBSET Keys, advice : {"none", "merge", "rework"}]

ReviewTyped ==
    /\ newest \in Nat /\ partial \subseteq Nat
    /\ comments \in [Keys -> SUBSET Nat]
    /\ note.head \in Nat /\ note.head <= newest
    /\ review \in Reviews

\* What an attempt is about to say has not been said before.
Unsaid ==
    /\ Reviewing("director") => Commented \subseteq review.known
    /\ review.todo \cap Commented = {}
    /\ \A k \in Keys : \A g, h \in comments[k] : g = h

SaidFor(h) == {k \in Keys : h \in comments[k]}

\* An attempt is about a newer head than the summary, and beyond the summary's
\* head there are comments of the attempt itself and of attempts that were cut.
ReviewAccounted ==
    /\ ~Reviewing("idle") => note.head < review.head /\ review.head <= newest
    /\ review.todo \subseteq review.confirmed
    /\ \A h \in Nat : note.head < h /\ SaidFor(h) # {} =>
          h \in partial \/ (Reviewing("post") /\ review.head = h)
    /\ Reviewing("post") =>
          SaidFor(review.head) \subseteq review.confirmed \/ review.head \in partial
    /\ SummaryAgreesWithComments

ReviewInv == ReviewTyped /\ Unsaid /\ ReviewAccounted

-----------------------------------------------------------------------------

\* What is chosen for posting is fresh, and is listed.
LEMMA Chosen ==
  ASSUME NEW fresh \in SUBSET Keys
  PROVE  /\ Most(fresh) \subseteq fresh
         /\ Inlines(fresh) \subseteq Most(fresh)
  BY DEF Most, First, Inlines

\* _finalize_director_decision leaves a well-formed attempt that repeats nothing.
LEMMA Finalized ==
  ASSUME ReviewInv, Reviewing("director"), NEW confirmed \in SUBSET Keys,
         NEW given \in {"none", "merge", "rework"}, review' = Finalize(confirmed, given)
  PROVE  /\ review' \in Reviews
         /\ review'.at = "check" /\ review'.head = review.head
         /\ review'.todo \cap Commented = {}
         /\ review'.todo \subseteq review'.confirmed
  <1> DEFINE fresh == confirmed \ review.known
  <1>1. fresh \in SUBSET Keys
    OBVIOUS
  <1>2. Most(fresh) \subseteq fresh /\ Inlines(fresh) \subseteq Most(fresh)
    BY <1>1, Chosen
  <1>3. review' = [review EXCEPT !.at = "check", !.confirmed = Most(fresh),
                      !.todo = Inlines(fresh), !.advice = Advice(given, Most(fresh))]
    BY DEF Finalize
  <1>4. Advice(given, Most(fresh)) \in {"none", "merge", "rework"}
    BY DEF Advice
  <1>5. fresh \cap Commented = {}
    BY DEF ReviewInv, Unsaid
  <1>6. Most(fresh) \in SUBSET Keys /\ Inlines(fresh) \in SUBSET Keys
    BY <1>1, <1>2
  <1>7. /\ review'.at = "check" /\ review'.head = review.head
        /\ review'.todo = Inlines(fresh) /\ review'.confirmed = Most(fresh)
    BY <1>3 DEF ReviewInv, ReviewTyped, Reviews
  <1>8. review' \in Reviews
    BY <1>3, <1>4, <1>6 DEF ReviewInv, ReviewTyped, Reviews, Stages
  <1>9. review'.todo \cap Commented = {}
    BY <1>2, <1>5, <1>7
  <1> QED
    BY <1>2, <1>7, <1>8, <1>9

\* Before the first review nothing is said.
LEMMA ReviewInitially == PipelineInit => ReviewInv
  BY DEF PipelineInit, ReviewInv, ReviewTyped, Unsaid, ReviewAccounted, Reviews, Stages, NoReview,
         NoNote, Commented, SaidFor, SummaryAgreesWithComments, Reviewing

\* The decision of the director, or what takes its place.
LEMMA Decides ==
  ASSUME ReviewInv, Reviewing("director"), NEW confirmed \in SUBSET Keys,
         NEW given \in {"none", "merge", "rework"},
         review' = IF HeadMoved THEN NoReview ELSE Finalize(confirmed, given),
         UNCHANGED <<newest, comments, note, partial>>
  PROVE  ReviewInv'
  <1>1. CASE HeadMoved
    BY <1>1 DEF ReviewInv, ReviewTyped, Unsaid, ReviewAccounted, Reviews, Stages, NoReview, Commented,
                SaidFor, SummaryAgreesWithComments, Reviewing
  <1>2. CASE ~HeadMoved
    <2>1. /\ review' \in Reviews
          /\ review'.at = "check" /\ review'.head = review.head
          /\ review'.todo \cap Commented = {}
          /\ review'.todo \subseteq review'.confirmed
      BY <1>2, Finalized
    <2> QED
      BY <2>1 DEF ReviewInv, ReviewTyped, Unsaid, ReviewAccounted, Commented, SaidFor,
                  SummaryAgreesWithComments, Reviewing
  <1> QED
    BY <1>1, <1>2

\* One more inline comment.
LEMMA Posts ==
  ASSUME ReviewInv, PostInline
  PROVE  ReviewInv'
  <1>1. PICK k \in review.todo :
          /\ comments' = [comments EXCEPT ![k] = @ \cup {review.head}]
          /\ review' = [review EXCEPT !.todo = @ \ {k}]
    BY DEF PostInline
  <1>2. k \in Keys /\ review.head \in Nat /\ Reviewing("post")
    BY DEF ReviewInv, ReviewTyped, Reviews, PostInline
  <1>3. comments[k] = {} /\ comments'[k] = {review.head}
    BY <1>1, <1>2 DEF ReviewInv, ReviewTyped, Unsaid, Commented
  <1>4. \A j \in Keys \ {k} : comments'[j] = comments[j]
    BY <1>1, <1>2 DEF ReviewInv, ReviewTyped
  <1>5. ReviewTyped'
    BY <1>1, <1>2 DEF ReviewInv, ReviewTyped, Reviews, PostInline
  <1>6. /\ review' \in Reviews /\ review'.at = "post" /\ review'.head = review.head
        /\ review'.confirmed = review.confirmed /\ review'.todo = review.todo \ {k}
    BY <1>1, <1>2, <1>5 DEF ReviewInv, ReviewTyped, Reviews, Reviewing
  <1>7. Unsaid'
    BY <1>2, <1>3, <1>4, <1>6 DEF ReviewInv, ReviewTyped, Unsaid, Commented, Reviewing
  <1>8. /\ SaidFor(review.head)' = SaidFor(review.head) \cup {k}
        /\ \A h \in Nat \ {review.head} : SaidFor(h)' = SaidFor(h)
    BY <1>2, <1>3, <1>4, <1>6 DEF SaidFor
  <1>9. ReviewAccounted'
    <2>1. note' = note /\ partial' = partial /\ newest' = newest
      BY DEF PostInline
    <2>2. note.head # review.head /\ note.head \in Nat
      BY <1>2 DEF ReviewInv, ReviewTyped, ReviewAccounted, Reviewing
    <2>3. SummaryAgreesWithComments'
      BY <1>8, <2>1, <2>2 DEF ReviewInv, ReviewAccounted, SummaryAgreesWithComments, SaidFor
    <2> QED
      BY <1>2, <1>6, <1>8, <2>1, <2>3 DEF ReviewInv, ReviewAccounted, Reviewing
  <1> QED
    BY <1>5, <1>7, <1>9 DEF ReviewInv

\* The summary of an attempt speaks for every comment made for its head.
LEMMA Concludes ==
  ASSUME ReviewInv, PostSummary
  PROVE  ReviewInv'
  <1>1. /\ note' = [head |-> review.head, lists |-> review.confirmed,
                    advice |-> review.advice]
        /\ review' = NoReview /\ comments' = comments /\ partial' = partial
        /\ newest' = newest /\ Reviewing("post")
    BY DEF PostSummary
  <1>2. review.head \in Nat /\ note.head < review.head /\ review.head <= newest
    BY <1>1 DEF ReviewInv, ReviewTyped, ReviewAccounted, Reviews, Reviewing
  <1>3. ReviewTyped' /\ Unsaid'
    BY <1>1, <1>2 DEF ReviewInv, ReviewTyped, Unsaid, Reviews, Stages, NoReview, Commented, Reviewing
  <1>4. \A h : SaidFor(h)' = SaidFor(h)
    BY <1>1 DEF SaidFor
  <1>5. SummaryAgreesWithComments'
    BY <1>1 DEF ReviewInv, ReviewAccounted, SummaryAgreesWithComments, SaidFor
  <1>6. \A h \in Nat : review.head < h /\ SaidFor(h) # {} => h \in partial
    BY <1>1, <1>2 DEF ReviewInv, ReviewTyped, ReviewAccounted
  <1>7. ReviewAccounted'
    BY <1>1, <1>4, <1>5, <1>6 DEF ReviewAccounted, NoReview, Reviewing
  <1> QED
    BY <1>3, <1>7 DEF ReviewInv

\* Every step of the pipeline keeps the invariant.
LEMMA ReviewPreserved == ReviewInv /\ [PipelineNext]_pipelineVars => ReviewInv'
  <1> SUFFICES ASSUME ReviewInv, [PipelineNext]_pipelineVars PROVE ReviewInv'
    OBVIOUS
  <1> USE DEF Reviewing
  <1>1. CASE BeginReview
    <2>1. review' = [NoReview EXCEPT !.at = "director", !.head = newest, !.known = Known]
      BY <1>1 DEF BeginReview
    <2>2. /\ review' \in Reviews /\ review'.at = "director" /\ review'.head = newest
          /\ review'.known = Commented /\ review'.todo = {} /\ review'.confirmed = {}
      BY <2>1 DEF ReviewInv, ReviewTyped, Reviews, Stages, NoReview, Known, Commented
    <2>3. ReviewTyped' /\ Unsaid'
      BY <1>1, <2>2 DEF BeginReview, ReviewInv, ReviewTyped, Unsaid, Commented
    <2>4. ReviewAccounted'
      BY <1>1, <2>2 DEF BeginReview, ReviewInv, ReviewTyped, ReviewAccounted, SaidFor,
                        SummaryAgreesWithComments
    <2> QED
      BY <2>3, <2>4 DEF ReviewInv
  <1>2. CASE Direct
    BY <1>2, Decides DEF Direct
  <1>3. CASE DirectorFails
    BY <1>3, Decides DEF DirectorFails
  <1>4. CASE CheckBeforePosting
    <2>1. CASE asked
      BY <1>4, <2>1 DEF CheckBeforePosting, ReviewInv, ReviewTyped, Unsaid, ReviewAccounted, Reviews,
                        Stages, NoReview, Commented, SaidFor, SummaryAgreesWithComments
    <2>2. CASE ~asked
      <3>1. /\ review' \in Reviews /\ review'.at = "post" /\ review'.head = review.head
            /\ review'.todo = review.todo /\ review'.confirmed = review.confirmed
        BY <1>4, <2>2 DEF CheckBeforePosting, Advances, ReviewInv, ReviewTyped, Reviews, Stages
      <3>2. SaidFor(review.head) = {} \/ review.head \in partial
        BY <1>4 DEF CheckBeforePosting, ReviewInv, ReviewTyped, ReviewAccounted, Reviews
      <3>3. ReviewTyped' /\ Unsaid'
        BY <1>4, <3>1 DEF CheckBeforePosting, ReviewInv, ReviewTyped, Unsaid, Commented
      <3>4. \A h : SaidFor(h)' = SaidFor(h)
        BY <1>4 DEF CheckBeforePosting, SaidFor
      <3>5. SummaryAgreesWithComments'
        BY <1>4 DEF CheckBeforePosting, ReviewInv, ReviewAccounted, SummaryAgreesWithComments
      <3>6. ReviewAccounted'
        BY <1>4, <3>1, <3>2, <3>4, <3>5 DEF CheckBeforePosting, ReviewInv, ReviewAccounted
      <3> QED
        BY <3>3, <3>6 DEF ReviewInv
    <2> QED
      BY <2>1, <2>2
  <1>5. CASE PostInline
    BY <1>5, Posts
  <1>6. CASE PostSummary
    BY <1>6, Concludes
  <1>7. CASE AttemptIsCut
    <2>1. ReviewTyped'
      BY <1>7 DEF AttemptIsCut, ReviewInv, ReviewTyped, Reviews, Stages, NoReview
    <2>2. Unsaid'
      BY <1>7 DEF AttemptIsCut, ReviewInv, Unsaid, NoReview, Commented
    <2>3. \A h : SaidFor(h)' = SaidFor(h)
      BY <1>7 DEF AttemptIsCut, SaidFor
    <2>4. partial \subseteq partial' /\ (review.at = "post" => review.head \in partial')
      BY <1>7 DEF AttemptIsCut
    <2>5. ReviewAccounted'
      BY <1>7, <2>3, <2>4 DEF AttemptIsCut, ReviewInv, ReviewAccounted, NoReview, SaidFor,
                              SummaryAgreesWithComments
    <2> QED
      BY <2>1, <2>2, <2>5 DEF ReviewInv
  <1>8. CASE PushHead
    BY <1>8 DEF PushHead, ReviewInv, ReviewTyped, Unsaid, ReviewAccounted, Reviews, Commented, SaidFor,
                SummaryAgreesWithComments
  <1>9. CASE AskToStop \/ UNCHANGED pipelineVars
    BY <1>9 DEF AskToStop, pipelineVars, ReviewInv, ReviewTyped, Unsaid, ReviewAccounted, Commented,
                SaidFor, SummaryAgreesWithComments
  <1> QED
    BY <1>1, <1>2, <1>3, <1>4, <1>5, <1>6, <1>7, <1>8, <1>9 DEF PipelineNext

\* The invariant holds throughout.
LEMMA ReviewInvariance == PipelineSpec => []ReviewInv
  BY ReviewInitially, ReviewPreserved, PTL DEF PipelineSpec

-----------------------------------------------------------------------------

\* A finding gets one inline comment, however many heads it lives through and
\* however many attempts are cut.
THEOREM SaidOnce == PipelineSpec => []OneCommentPerFinding
  <1>1. ReviewInv => OneCommentPerFinding
    <2> SUFFICES ASSUME ReviewInv, NEW k \in Keys PROVE Cardinality(comments[k]) <= 1
      BY DEF OneCommentPerFinding
    <2>1. CASE comments[k] = {}
      BY <2>1, FS_EmptySet
    <2>2. CASE comments[k] # {}
      <3>1. PICK h : h \in comments[k]
        BY <2>2
      <3>2. comments[k] = {h}
        BY <3>1 DEF ReviewInv, Unsaid
      <3>3. Cardinality(comments[k]) = 1
        BY <3>2, FS_Singleton
      <3> QED
        BY <3>3
    <2> QED
      BY <2>1, <2>2
  <1> QED
    BY <1>1, ReviewInvariance, PTL

\* The summary lists what was commented for its head, unless an attempt at that
\* head was cut between its posts.
THEOREM SummaryAgrees == PipelineSpec => []SummaryAgreesWithComments
  <1>1. ReviewInv => SummaryAgreesWithComments
    BY DEF ReviewInv, ReviewAccounted
  <1> QED
    BY <1>1, ReviewInvariance, PTL

-----------------------------------------------------------------------------
(* The mention *)

Places == Over \cup {"new", "author", "review", "result", "push", "publish", "notice"}
Attempts == [at : Places, base : {0}, round : Nat, dirty : BOOLEAN, approved : BOOLEAN,
             pushed : BOOLEAN]

\* An attempt that goes to work has found the head of the mention.
MentionTyped ==
    /\ tip \in Nat /\ commits \in Nat /\ answers \in Nat
    /\ own \in Nat /\ resets \in Nat
    /\ settled \in BOOLEAN
    /\ try \in [Tries -> Attempts]
    /\ \A t \in Tries : try[t].at = "new" => ~try[t].pushed

\* Each push but the last has been put back.
Paid == own <= resets + (IF tip = 0 THEN 0 ELSE 1)

Reasons == {"terminated", "overtaken", "spent", "no_identity", "cut"}
Explained == answers # 0 \/ reasons \cap Reasons # {}
HasPushed(t) == try[t].pushed

\* The branch is not at the mention's head because someone else or an attempt
\* has pushed; an attempt that has pushed is at work or has explained itself.
MentionAccounted ==
    /\ tip # 0 => "overtaken" \in reasons \/ \E t \in Tries : HasPushed(t)
    /\ \A t \in Tries : HasPushed(t) => Active(t) \/ Explained
    /\ settled => Explained \/ \E t \in Tries : HasPushed(t)

MentionInv == MentionTyped /\ Paid /\ MentionAccounted

-----------------------------------------------------------------------------

\* Nothing has happened yet.
LEMMA MentionInitially == MentionInit => MentionInv
  <1> SUFFICES ASSUME MentionInit PROVE MentionInv
    OBVIOUS
  <1>1. New \in Attempts /\ New.at = "new" /\ ~New.pushed
    BY DEF New, Attempts, Places
  <1>2. try \in [Tries -> Attempts] /\ \A t \in Tries : try[t].at = "new" /\ ~try[t].pushed
    BY <1>1 DEF MentionInit
  <1>3. MentionTyped
    <2>1. settled \in BOOLEAN
      BY DEF MentionInit
    <2> QED
      BY <1>2, <2>1 DEF MentionInit, MentionTyped
  <1>4. Paid
    BY DEF MentionInit, Paid
  <1>5. MentionAccounted
    BY <1>2 DEF MentionInit, MentionAccounted, HasPushed
  <1> QED
    BY <1>3, <1>4, <1>5 DEF MentionInv

\* What an attempt's move leaves: it stays well-formed, and so do the others.
LEMMA Moved ==
  ASSUME MentionInv, NEW t \in Tries, NEW where \in Places, where # "new", Moves(t, where)
  PROVE  /\ try' \in [Tries -> Attempts]
         /\ \A u \in Tries : u # t => try'[u] = try[u]
         /\ try'[t].at = where /\ try'[t].pushed = try[t].pushed
  BY DEF MentionInv, MentionTyped, Moves, Attempts

\* The end of an attempt that gives a reason or has answered explains it.
LEMMA EndsWell ==
  ASSUME MentionInv, NEW t \in Tries, NEW why, Ends(t, why),
         UNCHANGED <<tip, commits, own, resets>>, answers' \in Nat, answers' >= answers,
         answers' # 0 \/ why \cap Reasons # {} \/ (why = {"moved"} /\ tip # 0 /\ try[t].at = "new")
  PROVE  MentionInv'
  <1>1. "done" \in Places /\ Moves(t, "done") /\ settled' = TRUE
        /\ reasons' = reasons \cup why
    BY DEF Ends, Places, Over
  <1>2. /\ try' \in [Tries -> Attempts]
        /\ \A u \in Tries : u # t => try'[u] = try[u]
        /\ try'[t].at = "done" /\ try'[t].pushed = try[t].pushed
    BY <1>1, Moved
  <1>3. MentionTyped' /\ Paid'
    BY <1>1, <1>2 DEF MentionInv, MentionTyped, Paid
  <1>4. \A u \in Tries : HasPushed(u)' = HasPushed(u)
    BY <1>2 DEF HasPushed
  <1>5. Explained => Explained'
    BY <1>1 DEF Explained, MentionInv, MentionTyped
  <1>6. CASE answers' # 0 \/ why \cap Reasons # {}
    <2>1. Explained'
      BY <1>1, <1>6 DEF Explained
    <2> QED
      BY <1>1, <1>3, <1>4, <2>1 DEF MentionInv, MentionAccounted
  <1>7. CASE tip # 0 /\ try[t].at = "new"
    <2>1. ~HasPushed(t)
      BY <1>7 DEF MentionInv, MentionTyped, HasPushed
    <2>2. \A u \in Tries : HasPushed(u) => Active(u)' \/ Explained'
      BY <1>2, <1>5, <2>1 DEF MentionInv, MentionAccounted, Active
    <2>3. Explained' \/ \E u \in Tries : HasPushed(u)
      BY <1>1, <1>7 DEF MentionInv, MentionAccounted, Explained, Reasons
    <2>4. "overtaken" \in reasons' \/ \E u \in Tries : HasPushed(u)
      BY <1>1, <1>7 DEF MentionInv, MentionAccounted
    <2> QED
      BY <1>1, <1>3, <1>4, <2>2, <2>3, <2>4 DEF MentionInv, MentionAccounted
  <1> QED
    BY <1>6, <1>7

\* A move of an attempt within its work, which touches nothing else.
LEMMA WorksOn ==
  ASSUME MentionInv, NEW t \in Tries, try' \in [Tries -> Attempts], 
         \A u \in Tries : u # t => try'[u] = try[u],
         try'[t].at \notin Over \cup {"new"}, try'[t].pushed = try[t].pushed,
         UNCHANGED <<tip, commits, settled, answers, own, resets, reasons>>
  PROVE  MentionInv'
  <1>1. MentionTyped' /\ Paid'
    BY DEF MentionInv, MentionTyped, Paid
  <1>2. \A u \in Tries : HasPushed(u)' = HasPushed(u) /\ (Active(u) => Active(u)')
    BY DEF HasPushed, Active
  <1>3. Explained' = Explained
    BY DEF Explained
  <1> QED
    BY <1>1, <1>2, <1>3 DEF MentionInv, MentionAccounted

\* The bot's own push is made where the mention was written for.
LEMMA Pushes ==
  ASSUME MentionInv, NEW t \in Tries, PushFix(t)
  PROVE  MentionInv'
  <1>1. CASE Moves(t, "notice") /\ UNCHANGED <<tip, commits, own>>
    BY <1>1, WorksOn, Moved DEF PushFix, Places, Over
  <1>2. CASE /\ tip = try[t].base /\ commits' = commits + 1 /\ tip' = commits'
             /\ own' = own + 1
             /\ \E where \in {"publish", "notice"} :
                   try' = [try EXCEPT ![t].at = where, ![t].pushed = TRUE]
    <2>1. PICK where \in {"publish", "notice"} :
             try' = [try EXCEPT ![t].at = where, ![t].pushed = TRUE]
      BY <1>2
    <2>2. /\ try' \in [Tries -> Attempts]
          /\ \A u \in Tries : u # t => try'[u] = try[u]
          /\ try'[t].at = where /\ try'[t].pushed
      BY <2>1 DEF MentionInv, MentionTyped, Attempts, Places
    <2>3. tip = 0 /\ tip' # 0
      BY <1>2 DEF MentionInv, MentionTyped, Attempts
    <2>4. UNCHANGED <<settled, answers, resets, reasons>>
      BY DEF PushFix
    <2>5. MentionTyped'
      BY <1>2, <2>2, <2>4 DEF MentionInv, MentionTyped
    <2>6. Paid'
      BY <1>2, <2>3, <2>4 DEF MentionInv, MentionTyped, Paid
    <2>7. HasPushed(t)' /\ \A u \in Tries : u # t => HasPushed(u)' = HasPushed(u)
      BY <2>2 DEF HasPushed
    <2>8. Active(t)' /\ \A u \in Tries : u # t => Active(u)' = Active(u)
      BY <2>2 DEF Active, Over
    <2>9. MentionAccounted'
      BY <2>4, <2>7, <2>8 DEF MentionInv, MentionAccounted, Explained
    <2> QED
      BY <2>5, <2>6, <2>9 DEF MentionInv
  <1> QED
    BY <1>1, <1>2 DEF PushFix

\* A notice that cannot be posted: a push that it should have told of is a reason.
LEMMA NoticeFails ==
  ASSUME MentionInv, NEW t \in Tries, Moves(t, "raised"),
         UNCHANGED <<tip, commits, answers, own, resets>>,
         settled' = (settled \/ LastTry(t)),
         reasons' = reasons \cup (IF LastTry(t) THEN {"spent"} ELSE {})
                            \cup (IF try[t].pushed THEN {"cut"} ELSE {})
  PROVE  MentionInv'
  <1>1. /\ try' \in [Tries -> Attempts]
        /\ \A u \in Tries : u # t => try'[u] = try[u]
        /\ try'[t].at = "raised" /\ try'[t].pushed = try[t].pushed
    BY Moved DEF Places, Over
  <1>2. settled' \in BOOLEAN
    OBVIOUS
  <1>3. MentionTyped' /\ Paid'
    BY <1>1, <1>2 DEF MentionInv, MentionTyped, Paid
  <1>4. \A u \in Tries : HasPushed(u)' = HasPushed(u)
    BY <1>1 DEF HasPushed
  <1>5. \A u \in Tries : u # t => Active(u)' = Active(u)
    BY <1>1 DEF Active
  <1>6. Explained => Explained'
    BY DEF Explained
  <1>7. HasPushed(t) => Explained'
    BY DEF Explained, HasPushed, Reasons
  <1>8. settled' => Explained' \/ \E u \in Tries : HasPushed(u)
    BY <1>6 DEF MentionInv, MentionAccounted, Explained, Reasons
  <1>9. "overtaken" \in reasons => "overtaken" \in reasons'
    OBVIOUS
  <1> QED
    BY <1>3, <1>4, <1>5, <1>6, <1>7, <1>8, <1>9 DEF MentionInv, MentionAccounted

\* The worker dies: what had been pushed and not told of is a reason.
LEMMA Dies == MentionInv /\ WorkerDiesInMention => MentionInv'
  <1> SUFFICES ASSUME MentionInv, WorkerDiesInMention PROVE MentionInv'
    OBVIOUS
  <1> DEFINE cut == \E t \in Tries : Active(t) /\ try[t].pushed
             spent == ~settled /\ \A t \in Tries : try[t].at # "new"
  <1>1. /\ settled' = (settled \/ spent)
        /\ reasons' = reasons \cup (IF spent THEN {"spent"} ELSE {})
                              \cup (IF cut THEN {"cut"} ELSE {})
        /\ UNCHANGED <<tip, commits, answers, own, resets>>
    BY DEF WorkerDiesInMention
  <1>2. try' = [t \in Tries |-> IF Active(t) THEN [try[t] EXCEPT !.at = "dead"]
                                ELSE try[t]]
    BY DEF WorkerDiesInMention
  <1>3. /\ try' \in [Tries -> Attempts]
        /\ \A t \in Tries : /\ try'[t].pushed = try[t].pushed
                            /\ Active(t) => try'[t].at = "dead"
                            /\ ~Active(t) => try'[t].at = try[t].at
    BY <1>2 DEF MentionInv, MentionTyped, Attempts, Places, Over
  <1>4. MentionTyped' /\ Paid'
    BY <1>1, <1>3 DEF MentionInv, MentionTyped, Paid
  <1>5. \A t \in Tries : HasPushed(t)' = HasPushed(t)
    BY <1>3 DEF HasPushed
  <1>6. Explained => Explained'
    BY <1>1 DEF Explained
  <1>7. \A t \in Tries : HasPushed(t) => Explained'
    BY <1>1, <1>6 DEF MentionInv, MentionAccounted, Explained, HasPushed, Reasons
  <1>8. settled' => Explained' \/ \E t \in Tries : HasPushed(t)
    BY <1>1, <1>6 DEF MentionInv, MentionAccounted, Explained, Reasons
  <1> QED
    BY <1>1, <1>4, <1>5, <1>7, <1>8 DEF MentionInv, MentionAccounted

\* Every step of a mention keeps the invariant.
LEMMA MentionPreserved == MentionInv /\ [MentionNext]_mentionVars => MentionInv'
  <1> SUFFICES ASSUME MentionInv, [MentionNext]_mentionVars PROVE MentionInv'
    OBVIOUS
  <1>1. ASSUME NEW t \in Tries, BeginMention(t) PROVE MentionInv'
    <2>1. CASE Skips /\ Ends(t, IF answers = 0 THEN {"moved"} ELSE {})
      BY <1>1, <2>1, EndsWell DEF BeginMention, Skips, On, MentionInv, MentionTyped
    <2>2. CASE Ends(t, {"no_identity"})
      BY <1>1, <2>2, EndsWell DEF BeginMention, Reasons, MentionInv, MentionTyped
    <2>3. CASE /\ ~Skips /\ UNCHANGED <<settled, reasons>>
               /\ try' = [try EXCEPT ![t].at = "author", ![t].base = tip]
      <3>1. /\ try' \in [Tries -> Attempts] /\ try'[t].at = "author"
            /\ \A u \in Tries : u # t => try'[u] = try[u]
            /\ try'[t].pushed = try[t].pushed
        BY <2>3 DEF Skips, MentionInv, MentionTyped, Attempts, Places
      <3> QED
        BY <1>1, <2>3, <3>1, WorksOn DEF BeginMention, Over
    <2> QED
      BY <1>1, <2>1, <2>2, <2>3 DEF BeginMention
  <1>2. ASSUME NEW t \in Tries, AuthorRound(t) PROVE MentionInv'
    <2>1. PICK changes \in BOOLEAN :
            try' = [try EXCEPT ![t].at = "review", ![t].dirty = @ \/ changes]
      BY <1>2 DEF AuthorRound
    <2>2. PICK dirty \in BOOLEAN :
            try' = [try EXCEPT ![t].at = "review", ![t].dirty = dirty]
      BY <2>1
    <2>3. /\ try' \in [Tries -> Attempts] /\ try'[t].at = "review"
          /\ \A u \in Tries : u # t => try'[u] = try[u]
          /\ try'[t].pushed = try[t].pushed
      BY <2>2 DEF MentionInv, MentionTyped, Attempts, Places
    <2> QED
      BY <1>2, <2>3, WorksOn DEF AuthorRound, Over
  <1>3. ASSUME NEW t \in Tries, ReviewRound(t) PROVE MentionInv'
    <2>1. PICK approved \in BOOLEAN, leaves \in BOOLEAN :
            try' = [try EXCEPT ![t].approved = approved, ![t].dirty = @ \/ leaves,
                      ![t].at = IF approved \/ try[t].round = MaxRounds
                                THEN "result" ELSE "author",
                      ![t].round = IF approved \/ try[t].round = MaxRounds
                                   THEN @ ELSE @ + 1]
      BY <1>3 DEF ReviewRound
    <2>2. PICK dirty \in BOOLEAN, round \in Nat, where \in {"result", "author"} :
            try' = [try EXCEPT ![t].approved = approved, ![t].dirty = dirty,
                      ![t].at = where, ![t].round = round]
      <3> DEFINE last == approved \/ try[t].round = MaxRounds
                 where == IF last THEN "result" ELSE "author"
                 round == IF last THEN try[t].round ELSE try[t].round + 1
                 dirty == try[t].dirty \/ leaves
      <3>1. try' = [try EXCEPT ![t].approved = approved, ![t].dirty = dirty,
                      ![t].at = where, ![t].round = round]
        BY <2>1
      <3>2. round \in Nat /\ where \in {"result", "author"}
        BY DEF MentionInv, MentionTyped, Attempts
      <3>3. dirty \in BOOLEAN
        BY Zenon
      <3> HIDE DEF round, where, dirty
      <3> QED
        BY <3>1, <3>2, <3>3
    <2>3. /\ try' \in [Tries -> Attempts] /\ try'[t].at \in {"result", "author"}
          /\ \A u \in Tries : u # t => try'[u] = try[u]
          /\ try'[t].pushed = try[t].pushed
      <3> DEFINE new == [try[t] EXCEPT !.approved = approved, !.dirty = dirty,
                           !.at = where, !.round = round]
      <3>1. try[t] \in Attempts
        BY DEF MentionInv, MentionTyped
      <3>2. new \in Attempts /\ new.at = where /\ new.pushed = try[t].pushed
        BY <3>1 DEF Attempts, Places
      <3>3. try' = [try EXCEPT ![t] = new]
        BY <2>2
      <3> HIDE DEF new
      <3> QED
        BY <3>2, <3>3 DEF MentionInv, MentionTyped
    <2> QED
      BY <1>3, <2>3, WorksOn DEF ReviewRound, Over
  <1>4. ASSUME NEW t \in Tries, Materialize(t) PROVE MentionInv'
    <2>1. PICK where \in {"push", "publish"} : Moves(t, where)
      BY <1>4 DEF Materialize
    <2> QED
      BY <1>4, <2>1, Moved, WorksOn DEF Materialize, Places, Over
  <1>5. ASSUME NEW t \in Tries, PushFix(t) PROVE MentionInv'
    BY <1>5, Pushes
  <1>6. ASSUME NEW t \in Tries, Reply(t) PROVE MentionInv'
    <2>1. CASE answers' = answers + 1 /\ Ends(t, {})
      BY <1>6, <2>1, EndsWell DEF Reply, MentionInv, MentionTyped
    <2>2. CASE Moves(t, "notice") /\ UNCHANGED <<answers, settled, reasons>>
      BY <1>6, <2>2, Moved, WorksOn DEF Reply, Places, Over
    <2> QED
      BY <1>6, <2>1, <2>2 DEF Reply
  <1>7. ASSUME NEW t \in Tries, Notice(t) PROVE MentionInv'
    <2>1. CASE answers' = answers + 1 /\ Ends(t, {})
      BY <1>7, <2>1, EndsWell DEF Notice, MentionInv, MentionTyped
    <2>2. CASE /\ Moves(t, "raised") /\ UNCHANGED answers
               /\ settled' = (settled \/ LastTry(t))
               /\ reasons' = reasons \cup (IF LastTry(t) THEN {"spent"} ELSE {})
                                \cup (IF try[t].pushed THEN {"cut"} ELSE {})
      BY <1>7, <2>2, NoticeFails DEF Notice
    <2> QED
      BY <1>7, <2>1, <2>2 DEF Notice
  <1>8. ASSUME NEW t \in Tries, MentionRaises(t) PROVE MentionInv'
    BY <1>8, Moved, WorksOn DEF MentionRaises, Places, Over
  <1>9. ASSUME NEW t \in Tries, TerminateMention(t) PROVE MentionInv'
    BY <1>9, EndsWell DEF TerminateMention, Reasons, MentionInv, MentionTyped
  <1>10. CASE SomeonePushes
    <2>1. Explained'
      BY <1>10 DEF SomeonePushes, Explained, Reasons
    <2> QED
      BY <1>10, <2>1 DEF SomeonePushes, MentionInv, MentionTyped, Paid, MentionAccounted
  <1>11. CASE SomeoneResets
    BY <1>11 DEF SomeoneResets, MentionInv, MentionTyped, Paid, MentionAccounted, HasPushed, Active, Explained
  <1>12. CASE WorkerDiesInMention
    BY <1>12, Dies
  <1>13. CASE UNCHANGED mentionVars
    BY <1>13 DEF mentionVars, MentionInv, MentionTyped, Paid, MentionAccounted, HasPushed, Active, Explained
  <1> QED
    BY <1>1, <1>2, <1>3, <1>4, <1>5, <1>6, <1>7, <1>8, <1>9, <1>10, <1>11, <1>12, <1>13
       DEF MentionNext, MentionStep

\* The invariant holds throughout.
LEMMA MentionInvariance == MentionSpec => []MentionInv
  BY MentionInitially, MentionPreserved, PTL DEF MentionSpec

-----------------------------------------------------------------------------

\* A mention changes the branch once, unless someone puts the branch back.
THEOREM PushedOnce == MentionSpec => []ChangesOnce
  <1>1. MentionInv => ChangesOnce
    BY DEF MentionInv, MentionTyped, Paid, ChangesOnce
  <1> QED
    BY <1>1, MentionInvariance, PTL

\* A mention that is settled without an answer has one of the known reasons.
THEOREM SilenceIsExplained == MentionSpec => []SilenceHasAReason
  <1>1. MentionInv => SilenceHasAReason
    BY DEF MentionInv, MentionAccounted, Explained, HasPushed, Reasons, SilenceHasAReason
  <1> QED
    BY <1>1, MentionInvariance, PTL
=============================================================================
