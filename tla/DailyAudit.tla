----------------------------- MODULE DailyAudit -----------------------------
(***************************************************************************)
(* A daily audit over the attempts of its event: the direction and the         *)
(* analysis, the transcript they leave, the issue or the merge request, and     *)
(* the four follow-up events that turn transcripts into memory, each the        *)
(* business of an actor of its own beside the audit.                           *)
(*                                                                          *)
(* The audit publishes without receipts.  Each attempt has its own run and so   *)
(* its own worktree, branch and follow-ups.                                    *)
(***************************************************************************)
EXTENDS Naturals, FiniteSets, SequencesExt

CONSTANTS
    Attempts,      \* attempts at the event, in any order
    MemoryKinds,         \* of memory: "direction", and any of the three that want a transcript
    MaxChanged,    \* DAILY_AUDIT_MAX_CHANGED_LINES; 0: no limit
    MaxLines,      \* bound: lines changed by the agent
    MaxMisfortunes \* bound: deaths, lost leases, exceptions, terminations

ASSUME AuditAssumption ==
    /\ IsFiniteSet(Attempts)
    /\ MemoryKinds \subseteq {"direction", "short_term", "long_term", "skill"}
    /\ {MaxChanged, MaxLines, MaxMisfortunes} \subseteq Nat

VARIABLES
    audit,     \* each attempt: where it is, the lines of known files it changed
    handled,   \* the event is acked or its retries are spent
    archived,  \* attempts whose analysis is in the run's records
    issues, branches, requests, \* attempts whose output of the kind is at GitLab
    events,    \* queued follow-ups of each kind, as attempts, in order
    working,   \* the follow-up being handled: whether its actor may write
    memory,    \* attempts each kind of memory knows
    terminate, \* attempts whose termination is requested
    misfortunes,
    late,      \* History: an attempt was cut, or overtaken, after its output;
    early      \* follow-ups that began before the request to terminate

auditVars == <<audit, handled, archived, issues, branches, requests, events, working,
               memory, terminate, misfortunes, late, early>>
gitlab == <<issues, branches, requests>>
memories == <<working, memory, early>>

AuditInit ==
    /\ audit = [t \in Attempts |-> [at |-> "new", lines |-> 0]]
    /\ handled = FALSE /\ archived = {}
    /\ issues = {} /\ branches = {} /\ requests = {}
    /\ events = [k \in MemoryKinds |-> <<>>] /\ working = [k \in MemoryKinds |-> FALSE]
    /\ memory = [k \in MemoryKinds |-> {}]
    /\ terminate = {} /\ misfortunes = 0 /\ late = FALSE /\ early = {}

Misfortune == misfortunes < MaxMisfortunes /\ misfortunes' = misfortunes + 1
Auditing(t) == audit[t].at \notin {"new", "done", "cut"}
Published == issues \cup requests
Proceeds(t, from, to) ==
    /\ audit[t].at = from /\ t \notin terminate
    /\ audit' = [audit EXCEPT ![t].at = to]
FollowUp(t, kinds) ==
    events' = [k \in MemoryKinds |-> IF k \in kinds THEN Append(events[k], t) ELSE events[k]]

-----------------------------------------------------------------------------
(* One attempt; every step of it looks for a termination first *)

\* A second attempt beside a live one is one that lost its lease.
BeginAudit(t) ==
    /\ Proceeds(t, "new", "direction") /\ ~handled
    /\ IF \E u \in Attempts : Auditing(u) THEN Misfortune /\ late' = TRUE
       ELSE UNCHANGED <<misfortunes, late>>
    /\ UNCHANGED <<handled, archived, gitlab, events, memories, terminate>>

\* The selected workflow, for the archive of directions.
Direction(t) ==
    /\ Proceeds(t, "direction", "analysis")
    /\ FollowUp(t, {"direction"})
    /\ UNCHANGED <<handled, archived, gitlab, memories, terminate, misfortunes, late>>

\* archive_daily_audit_run_transcript: with a run's records and messages to keep.
ArchiveTranscript(t, done) ==
    archived' = archived \cup (IF done THEN {t} ELSE {})

\* The analysis, its transcript, the other three follow-ups; what it changed in
\* the worktree, and whether it wants that published.
Analysis(t) ==
    /\ audit[t].at = "analysis" /\ t \notin terminate
    /\ \E autofix, done \in BOOLEAN, lines \in 0..MaxLines :
          /\ audit' = [audit EXCEPT ![t] =
                          [at |-> IF autofix THEN "fix" ELSE "report",
                           lines |-> IF autofix THEN lines ELSE 0]]
          /\ ArchiveTranscript(t, done)
          /\ IF done THEN FollowUp(t, MemoryKinds \ {"direction"})
             ELSE UNCHANGED events
    /\ UNCHANGED <<handled, gitlab, memories, terminate, misfortunes, late>>

\* _is_safe_autofix: git diff shows changed lines of known files, not new files,
\* which the commit adds; without any changed line there is nothing to fix.
SafeAutofix(t) ==
    audit[t].lines > 0 /\ (MaxChanged = 0 \/ audit[t].lines <= MaxChanged)

\* Mutant: a fix that is not safe is reported, and published nevertheless.
MutantAfterReport(t) == IF audit[t].lines > 0 THEN "push" ELSE "done"
AfterReport(t) == "done"
\* A report, or a fix that is not safe: an issue, which is then recorded.
Report(t) ==
    /\ audit[t].at = "report" \/ (audit[t].at = "fix" /\ ~SafeAutofix(t))
    /\ t \notin terminate
    /\ issues' = issues \cup {t}
    /\ audit' = [audit EXCEPT ![t].at = AfterReport(t)]
    /\ handled' = (AfterReport(t) = "done")
    /\ UNCHANGED <<archived, branches, requests, events, memories, terminate,
                   misfortunes, late>>

Commit(t) ==
    /\ SafeAutofix(t) /\ Proceeds(t, "fix", "push")
    /\ UNCHANGED <<handled, archived, gitlab, events, memories, terminate,
                   misfortunes, late>>
PushBranch(t) ==
    /\ Proceeds(t, "push", "request") /\ branches' = branches \cup {t}
    /\ UNCHANGED <<handled, archived, issues, requests, events, memories, terminate,
                   misfortunes, late>>
OpenRequest(t) ==
    /\ Proceeds(t, "request", "done")
    /\ requests' = requests \cup {t} /\ handled' = TRUE
    /\ UNCHANGED <<archived, issues, branches, events, memories, terminate,
                   misfortunes, late>>

\* The drain acks what was terminated; the worktree goes with every end.
TerminateAudit(t) ==
    /\ Auditing(t) /\ t \in terminate
    /\ audit' = [audit EXCEPT ![t].at = "done"] /\ handled' = TRUE
    /\ UNCHANGED <<archived, gitlab, events, memories, terminate, misfortunes, late>>

\* A stage, git or GitLab raises, or the worker dies; at the end of an attempt,
\* with the output at GitLab and its answer lost or not recorded.
CutAttempt(t) ==
    /\ Auditing(t) /\ t \notin terminate /\ Misfortune
    /\ audit' = [audit EXCEPT ![t].at = "cut"]
    /\ handled' = (handled \/ \A u \in Attempts \ {t} : audit[u].at # "new")
    /\ \/ UNCHANGED <<gitlab, late>>
       \/ /\ audit[t].at = "report" /\ issues' = issues \cup {t} /\ late' = TRUE
          /\ UNCHANGED <<branches, requests>>
       \/ /\ audit[t].at = "push" /\ branches' = branches \cup {t}
          /\ UNCHANGED <<issues, requests, late>>
       \/ /\ audit[t].at = "request" /\ requests' = requests \cup {t} /\ late' = TRUE
          /\ UNCHANGED <<issues, branches>>
    /\ UNCHANGED <<archived, events, memories, terminate>>

-----------------------------------------------------------------------------
(* Follow-ups: the oldest of each kind *)

\* Mutant: the request is looked for in the run of the follow-up, not its parent's.
MutantParentTerminated(t) == FALSE
ParentTerminated(t) == t \in terminate
\* get_run_transcript; the archive of directions is written from the event.
HasMaterial(k, t) == k = "direction" \/ t \in archived
Drop(k) == events' = [events EXCEPT ![k] = Tail(@)]
BeginFollowUp(k) ==
    /\ events[k] # <<>> /\ ~working[k]
    /\ LET t == Head(events[k])
       IN IF HasMaterial(k, t) /\ ~ParentTerminated(t)
          THEN /\ working' = [working EXCEPT ![k] = TRUE]
               /\ early' = early \cup (IF t \in terminate THEN {} ELSE {<<k, t>>})
               /\ UNCHANGED events
          ELSE Drop(k) /\ UNCHANGED <<working, early>>
    /\ UNCHANGED <<audit, handled, archived, gitlab, memory, terminate, misfortunes, late>>

\* The tools of the agents of follow-ups, which know the run by its name.
Remember(k) == memory' = [memory EXCEPT ![k] = @ \cup {Head(events[k])}]

\* Its agent calls the tool that writes, or does not; a raise after either puts the
\* event back in front.
EndFollowUp(k) ==
    /\ working[k] /\ working' = [working EXCEPT ![k] = FALSE]
    /\ Remember(k) \/ UNCHANGED memory
    /\ \/ Drop(k) /\ UNCHANGED misfortunes
       \/ Misfortune /\ UNCHANGED events
    /\ UNCHANGED <<audit, handled, archived, gitlab, terminate, late, early>>

RequestAuditEnd(t) ==
    /\ Auditing(t) /\ t \notin terminate /\ Misfortune
    /\ terminate' = terminate \cup {t}
    /\ UNCHANGED <<audit, handled, archived, gitlab, events, memories, late>>

AuditNext ==
    \/ \E t \in Attempts :
          \/ BeginAudit(t) \/ Direction(t) \/ Analysis(t) \/ Report(t) \/ Commit(t)
          \/ PushBranch(t) \/ OpenRequest(t) \/ TerminateAudit(t) \/ CutAttempt(t)
          \/ RequestAuditEnd(t)
    \/ \E k \in MemoryKinds : BeginFollowUp(k) \/ EndFollowUp(k)

AuditSpec == AuditInit /\ [][AuditNext]_auditVars

-----------------------------------------------------------------------------
(* Properties *)

\* An audit opens one issue or one merge request, unless an attempt was cut when
\* its output was already at GitLab or two attempts ran at once: there are no
\* receipts (orchestrator.py:384), every later attempt publishes anew.
AuditPublishesOnce ==
    /\ issues \cap requests = {}
    /\ Cardinality(Published) <= 1 \/ late

\* Memory comes from archived analyses only, and a follow-up that begins after
\* its audit was asked to terminate writes none (session_lifecycle.py:138,
\* short_term.py:59).
MemoryIsOfSoundAudits ==
    \A k \in MemoryKinds, t \in Attempts : t \in memory[k] =>
       /\ k # "direction" => t \in archived
       /\ <<k, t>> \in early
=============================================================================
