----------------------------- MODULE MentionLoop -----------------------------
(***************************************************************************)
(* A mention from its context to its answer: the rounds of the author and    *)
(* the reviewer over one worktree, the decision to push, the push, and the    *)
(* reply, over the attempts of the event.                                     *)
(*                                                                          *)
(* Commit 0 is the head the mention was written for.  Others push to the      *)
(* branch, and may put it back.  From the check of the head to the end of the *)
(* push the event loop is held, so only GitLab moves in between; the          *)
(* fast-forward rule is git's.  How a reply is posted is in Publishing.       *)
(***************************************************************************)
EXTENDS Naturals, FiniteSets

CONSTANTS
    Tries,       \* attempts at the event, in any order
    MaxRounds,   \* _MAX_MENTION_REVIEW_ROUNDS
    MaxCommits,  \* bound: commits on the branch
    MaxResets,   \* bound: times someone puts the branch back
    MaxAccidents \* bound: deaths, lost leases, requests to terminate

ASSUME MentionAssumption ==
    IsFiniteSet(Tries) /\ {MaxRounds, MaxCommits, MaxResets, MaxAccidents} \subseteq Nat

VARIABLES
    tip,        \* the commit at the head of the source branch
    commits,    \* commits made so far
    try,        \* what each attempt is doing
    settled,    \* the event is acked or its retries are spent
    answers,    \* notes that answer the mention
    \* History.
    own,        \* pushes of the bot
    resets,     \* times the branch was put back
    reasons,    \* what has kept the mention from an answer
    accidents

mentionVars == <<tip, commits, try, settled, answers, own, resets, reasons, accidents>>

\* The head its worktree was made of; the round; whether the worktree is changed;
\* the last verdict; whether it has pushed.
New == [at |-> "new", base |-> 0, round |-> 1, dirty |-> FALSE, approved |-> FALSE,
        pushed |-> FALSE]

MentionInit ==
    /\ tip = 0 /\ commits = 0 /\ try = [t \in Tries |-> New]
    /\ settled = FALSE /\ answers = 0 /\ own = 0 /\ resets = 0
    /\ reasons = {} /\ accidents = 0

Over == {"done", "raised", "dead"}
Active(t) == try[t].at \notin Over \cup {"new"}
\* t may go on: no synchronous push of another attempt holds the event loop.
On(t, where) ==
    /\ try[t].at = where
    /\ \A u \in Tries \ {t} : try[u].at # "push"
Moves(t, where) == try' = [try EXCEPT ![t].at = where]
Accident == accidents < MaxAccidents /\ accidents' = accidents + 1

\* The drain acks what returned and what was terminated.
Ends(t, why) == Moves(t, "done") /\ settled' = TRUE /\ reasons' = reasons \cup why

-----------------------------------------------------------------------------
(* One attempt *)

\* Mutant: the head the mention was written for is not compared.
MutantSkips == answers > 0
\* An answer for the same head, or another head than the mention's.
Skips == answers > 0 \/ tip # 0

\* The context is built, and the attempt skipped, or refused for want of the
\* bot's name; both return a result without a word on GitLab.  A second attempt
\* next to a live one is one that lost its lease.
BeginMention(t) ==
    /\ On(t, "new") /\ (~settled \/ \E u \in Tries : Active(u))
    /\ IF \E u \in Tries : Active(u) THEN Accident ELSE UNCHANGED accidents
    /\ \/ Skips /\ Ends(t, IF answers = 0 THEN {"moved"} ELSE {})
       \/ ~Skips /\ Ends(t, {"no_identity"})
       \/ /\ ~Skips /\ UNCHANGED <<settled, reasons>>
          /\ try' = [try EXCEPT ![t].at = "author", ![t].base = tip]
    /\ UNCHANGED <<tip, commits, answers, own, resets>>

\* The author answers, and may have changed the worktree.
AuthorRound(t) ==
    /\ On(t, "author")
    /\ \E changes \in BOOLEAN :
          try' = [try EXCEPT ![t].at = "review", ![t].dirty = @ \/ changes]
    /\ UNCHANGED <<tip, commits, settled, answers, own, resets, reasons, accidents>>

\* The reviewer has the tree's diff.  The files of its backend are read-only, but
\* its shell is not, and what a build of its leaves in the worktree stays there.
ReviewRound(t) ==
    /\ On(t, "review")
    /\ \E approved, leaves \in BOOLEAN :
          LET last == approved \/ try[t].round = MaxRounds IN
          try' = [try EXCEPT ![t].approved = approved, ![t].dirty = @ \/ leaves,
                             ![t].at = IF last THEN "result" ELSE "author",
                             ![t].round = IF last THEN @ ELSE @ + 1]
    /\ UNCHANGED <<tip, commits, settled, answers, own, resets, reasons, accidents>>

\* _materialize_main_agent_result up to the push: a changed tree, approved, and
\* the head has not moved; that the candidate is not declared as a code change,
\* has too many files, or is for a branch one may not push to is left open.
Materialize(t) ==
    /\ On(t, "result")
    /\ \/ try[t].dirty /\ try[t].approved /\ tip = try[t].base /\ Moves(t, "push")
       \/ Moves(t, "publish")
    /\ UNCHANGED <<tip, commits, settled, answers, own, resets, reasons, accidents>>

\* Commit and push.  git refuses what is not a fast-forward; the answer of a
\* push that was done may be lost.
PushFix(t) ==
    /\ On(t, "push")
    /\ \/ /\ tip = try[t].base /\ commits < MaxCommits
          /\ commits' = commits + 1 /\ tip' = commits' /\ own' = own + 1
          /\ \E where \in {"publish", "notice"} :
                try' = [try EXCEPT ![t].at = where, ![t].pushed = TRUE]
       \/ Moves(t, "notice") /\ UNCHANGED <<tip, commits, own>>
    /\ UNCHANGED <<settled, answers, resets, reasons, accidents>>

\* The reply; what raises in it is answered by the failure notice.
Reply(t) ==
    /\ On(t, "publish")
    /\ \/ answers' = answers + 1 /\ Ends(t, {})
       \/ Moves(t, "notice") /\ UNCHANGED <<answers, settled, reasons>>
    /\ UNCHANGED <<tip, commits, own, resets, accidents>>

\* Any exception of the rounds ends in the failure notice.
MentionRaises(t) ==
    /\ \E where \in {"author", "review", "result"} : On(t, where)
    /\ Moves(t, "notice")
    /\ UNCHANGED <<tip, commits, settled, answers, own, resets, reasons, accidents>>

\* What a notice that cannot be posted leaves behind: the exception is the
\* drain's, which tries again or, after the last attempt, gives up.
LastTry(t) == \A u \in Tries \ {t} : try[u].at # "new"
\* Mutant: a mention that was pushed is not tried again, and counts as handled.
MutantNotice(t) ==
    /\ On(t, "notice")
    /\ \/ answers' = answers + 1 /\ Ends(t, {})
       \/ try[t].pushed /\ Ends(t, {}) /\ UNCHANGED answers
    /\ UNCHANGED <<tip, commits, own, resets, accidents>>
Notice(t) ==
    /\ On(t, "notice")
    /\ \/ answers' = answers + 1 /\ Ends(t, {})
       \/ /\ Moves(t, "raised") /\ UNCHANGED answers
          /\ settled' = (settled \/ LastTry(t))
          /\ reasons' = reasons \cup (IF LastTry(t) THEN {"spent"} ELSE {})
                                \cup (IF try[t].pushed THEN {"cut"} ELSE {})
    /\ UNCHANGED <<tip, commits, own, resets, accidents>>

\* raise_if_run_termination_requested: before the context, before each call of a
\* model, and after the rounds, whose push may have been done.
TerminateMention(t) ==
    /\ \E where \in {"author", "review", "publish"} : On(t, where)
    /\ Accident
    /\ Ends(t, {"terminated"})
    /\ UNCHANGED <<tip, commits, answers, own, resets>>

-----------------------------------------------------------------------------
(* The others *)

SomeonePushes ==
    /\ commits < MaxCommits
    /\ commits' = commits + 1 /\ tip' = commits'
    /\ reasons' = reasons \cup {"overtaken"}
    /\ UNCHANGED <<try, settled, answers, own, resets, accidents>>

SomeoneResets ==
    /\ tip # 0 /\ resets < MaxResets
    /\ tip' = 0 /\ resets' = resets + 1
    /\ UNCHANGED <<commits, try, settled, answers, own, reasons, accidents>>

WorkerDiesInMention ==
    /\ Accident
    /\ try' = [t \in Tries |-> IF Active(t) THEN [try[t] EXCEPT !.at = "dead"]
                               ELSE try[t]]
    /\ LET spent == ~settled /\ \A t \in Tries : try[t].at # "new"
           cut == \E t \in Tries : Active(t) /\ try[t].pushed
       IN /\ settled' = (settled \/ spent)
          /\ reasons' = reasons \cup (IF spent THEN {"spent"} ELSE {})
                                \cup (IF cut THEN {"cut"} ELSE {})
    /\ UNCHANGED <<tip, commits, answers, own, resets>>

MentionStep(t) ==
    \/ BeginMention(t) \/ AuthorRound(t) \/ ReviewRound(t) \/ Materialize(t)
    \/ PushFix(t) \/ Reply(t) \/ Notice(t) \/ MentionRaises(t) \/ TerminateMention(t)
MentionNext ==
    \/ \E t \in Tries : MentionStep(t)
    \/ SomeonePushes \/ SomeoneResets \/ WorkerDiesInMention

MentionSpec == MentionInit /\ [][MentionNext]_mentionVars

-----------------------------------------------------------------------------
(* Properties *)

\* A mention changes the branch once, over retries and attempts that overlap,
\* unless someone puts the branch back to the head the mention was written for.
ChangesOnce == own <= 1 + resets

\* A mention that is settled without an answer was terminated, overtaken by a
\* push, out of retries, or without the bot's name; or the worker died, or the
\* answer failed, after the bot's own push, which makes the retry skip it as
\* one for an old head (mention/orchestrator.py:869).
SilenceHasAReason ==
    (settled /\ answers = 0 /\ \A t \in Tries : ~Active(t)) =>
       reasons \cap {"terminated", "overtaken", "spent", "no_identity", "cut"} # {}
=============================================================================
