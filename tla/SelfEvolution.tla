---------------------------- MODULE SelfEvolution ----------------------------
(***************************************************************************)
(* Self-evolution: a cycle per project goes through the assets of the three  *)
(* agents, lets an optimizer write a candidate for each, and merges what      *)
(* passes the gate into the service repository, which all projects share.    *)
(*                                                                          *)
(* The baseline of a candidate is read long before it is merged and outside   *)
(* any lock; the merge, in a worktree of its own, holds the apply lock.  The  *)
(* repository is made by the first cycle that misses it, under another lock.  *)
(* The optimizer, the evaluation and git itself are taken as calls that       *)
(* answer or raise.                                                           *)
(***************************************************************************)
EXTENDS Integers, FiniteSets, SequencesExt

CONSTANTS
    Cycles,      \* the projects whose cycles overlap
    Assets,      \* prompts and skills, and tool descriptions, which share a file
    Order,       \* the order in which a cycle goes through them
    MaxTexts,    \* bound: texts that the optimizer writes
    MaxDeaths    \* bound: deaths of the worker

ASSUME EvolutionAssumption ==
    /\ Order \in Seq(Assets) /\ "nobody" \notin Cycles
    /\ {MaxTexts, MaxDeaths} \subseteq Nat

VARIABLES
    repo,       \* the service repository: how far its bootstrap has come
    head,       \* the text of each asset at the head of its branch
    bootLock,   \* who holds the bootstrap lock, "nobody" if none
    applyLock,  \* who holds the apply lock
    cycle,      \* where each cycle is
    outcomes,   \* the statuses of the outcomes of its assets so far
    result,     \* the merged status, "none" before the end
    texts,      \* texts written so far; 0 is the text of the release
    deaths,
    torn        \* history: a worker died between git init and the first commit

evolutionVars == <<repo, head, bootLock, applyLock, cycle, outcomes, result, texts,
                   deaths, torn>>

NoRepo == "none"   \* then "seeded" (files, no .git), "empty" (.git, no commit), "ready"
Fresh == [at |-> "start", left |-> Order, heldOut |-> FALSE,
          baseline |-> 0, candidate |-> 0, tree |-> [a \in Assets |-> 0]]

EvolutionInit ==
    /\ repo = NoRepo /\ head = [a \in Assets |-> 0]
    /\ bootLock = "nobody" /\ applyLock = "nobody"
    /\ cycle = [c \in Cycles |-> Fresh]
    /\ outcomes = [c \in Cycles |-> {}] /\ result = [c \in Cycles |-> "none"]
    /\ texts = 0 /\ deaths = 0 /\ torn = FALSE

Stands(c, where) == cycle[c].at = where
Goes(c, where) == cycle' = [cycle EXCEPT ![c].at = where]
Asset(c) == Head(cycle[c].left)

-----------------------------------------------------------------------------
(* The repository *)

\* ensure_self_repo_checkout: under the lock, validate; what is not valid is
\* removed and made anew.  Valid is: there is a .git, and the assets are there.
\* Mutant: the assets being there is enough.
MutantValid == repo # NoRepo
Valid == repo \in {"empty", "ready"}

EnterBootstrap(c) ==
    /\ Stands(c, "start") /\ bootLock = "nobody"
    /\ IF Valid THEN Goes(c, "target") /\ UNCHANGED <<bootLock, repo>>
       ELSE Goes(c, "seed") /\ bootLock' = c /\ repo' = NoRepo
    /\ UNCHANGED <<head, applyLock, outcomes, result, texts, deaths, torn>>

\* copytree, git init, and the commit.
BootstrapSteps == <<"seeded", "empty", "ready">>
Bootstrap(c) ==
    /\ bootLock = c
    /\ LET done == IF repo = NoRepo THEN 0
                   ELSE CHOOSE i \in 1 .. 3 : BootstrapSteps[i] = repo
       IN /\ repo' = BootstrapSteps[done + 1]
          /\ IF done + 1 = 3
             THEN bootLock' = "nobody" /\ Goes(c, "target") /\ head' = [a \in Assets |-> 0]
             ELSE UNCHANGED <<bootLock, cycle, head>>
    /\ UNCHANGED <<applyLock, outcomes, result, texts, deaths, torn>>

-----------------------------------------------------------------------------
(* One asset *)

\* The next asset, with the outcome of this one.
Outcome(c, status) ==
    /\ outcomes' = [outcomes EXCEPT ![c] = @ \cup {status}]
    /\ cycle' = [cycle EXCEPT ![c] = [Fresh EXCEPT !.at = "target",
                                                    !.left = Tail(cycle[c].left)]]

\* The recorded runs of the asset become tasks; without any it is skipped, and
\* with fewer than three none is held out.
HeldOut(tasks) == tasks = "several"
GatherTasks(c) ==
    /\ Stands(c, "target") /\ cycle[c].left # <<>>
    /\ \E tasks \in {"none", "few", "several"} :
          IF tasks = "none" THEN Outcome(c, "skipped")
          ELSE /\ cycle' = [cycle EXCEPT ![c].at = "read", ![c].heldOut = HeldOut(tasks)]
               /\ UNCHANGED outcomes
    /\ UNCHANGED <<repo, head, bootLock, applyLock, result, texts, deaths, torn>>

\* The baseline is read from the checkout, without a lock.
ReadBaseline(c) ==
    /\ Stands(c, "read")
    /\ cycle' = [cycle EXCEPT ![c].at = "optimize", ![c].baseline = head[Asset(c)]]
    /\ UNCHANGED <<repo, head, bootLock, applyLock, outcomes, result, texts, deaths, torn>>

\* The optimizer returns a new text, or the seed it was given.
Optimize(c) ==
    /\ Stands(c, "optimize")
    /\ \/ /\ texts < MaxTexts /\ texts' = texts + 1
          /\ cycle' = [cycle EXCEPT ![c].at = "evaluate", ![c].candidate = texts']
       \/ /\ cycle' = [cycle EXCEPT ![c].at = "evaluate", ![c].candidate = cycle[c].baseline]
          /\ UNCHANGED texts
    /\ UNCHANGED <<repo, head, bootLock, applyLock, outcomes, result, deaths, torn>>

\* What the evaluation may say of a candidate on the tasks that are held out: it
\* is worse, or it is not.  Where the evaluator raises, a rule of thumb scores.
Verdicts(c) == IF cycle[c].heldOut THEN {"worse", "passed"} ELSE {"passed"}
Evaluate(c) ==
    /\ Stands(c, "evaluate")
    /\ \E verdict \in Verdicts(c) :
          IF verdict = "worse" THEN Outcome(c, "rejected")
          ELSE /\ cycle' = [cycle EXCEPT ![c].at = "apply", ![c].heldOut = FALSE]
               /\ UNCHANGED outcomes
    /\ UNCHANGED <<repo, head, bootLock, applyLock, result, texts, deaths, torn>>

\* Any exception on the way, a conflict in git among them.  The assets that follow
\* have their turn.
AssetFails(c) ==
    /\ \E where \in {"read", "optimize", "evaluate", "apply", "merge"} : Stands(c, where)
    /\ Outcome(c, "failed")
    /\ applyLock' = IF applyLock = c THEN "nobody" ELSE applyLock
    /\ UNCHANGED <<repo, head, bootLock, result, texts, deaths, torn>>

\* Under the apply lock: what is in place already is not applied again; else a
\* worktree is made of the branch.  git refuses when the branch has no commit.
\* Mutant: the candidate is compared with its baseline.
MutantInPlace(c) == FALSE
InPlace(c) == head[Asset(c)] = cycle[c].candidate
TakeApplyLock(c) ==
    /\ Stands(c, "apply") /\ applyLock = "nobody"
    /\ IF InPlace(c) THEN Outcome(c, "already_applied") /\ UNCHANGED applyLock
       ELSE IF repo # "ready" THEN Outcome(c, "failed") /\ UNCHANGED applyLock
       ELSE /\ applyLock' = c /\ UNCHANGED outcomes
            /\ cycle' = [cycle EXCEPT ![c].at = "merge", ![c].tree = head]
    /\ UNCHANGED <<repo, head, bootLock, result, texts, deaths, torn>>

\* The file in the worktree is written: for a tool description its key in the
\* file as it is there.  Then the commit, the fast-forward, and the clean-up.
MergeCandidate(c) ==
    /\ Stands(c, "merge")
    /\ head = cycle[c].tree
    /\ head' = [cycle[c].tree EXCEPT ![Asset(c)] = cycle[c].candidate]
    /\ Outcome(c, "applied")
    /\ applyLock' = "nobody"
    /\ UNCHANGED <<repo, bootLock, result, texts, deaths, torn>>

-----------------------------------------------------------------------------
(* The cycle's result, deaths *)

\* _is_productive_asset_outcome.
Productive == {"applied", "candidate_generated", "already_applied"}

\* finalize_agent_self_evolution_result, merge_agent_self_evolution_results.
FinishCycle(c) ==
    /\ Stands(c, "target") /\ cycle[c].left = <<>> /\ result[c] = "none"
    /\ result' = [result EXCEPT ![c] =
                    IF "failed" \in outcomes[c] THEN "failed"
                    ELSE IF outcomes[c] \cap Productive # {} THEN "reported" ELSE "skipped"]
    /\ UNCHANGED <<repo, head, bootLock, applyLock, cycle, outcomes, texts, deaths, torn>>

\* The worker dies with all its cycles.  The kernel lets go of the locks; the
\* batches are tried again.  A worktree that is left behind has a name of its own.
WorkerDiesEvolving ==
    /\ deaths < MaxDeaths /\ deaths' = deaths + 1
    /\ torn' = (torn \/ repo = "empty")
    /\ bootLock' = "nobody" /\ applyLock' = "nobody"
    /\ cycle' = [c \in Cycles |-> IF result[c] = "none" THEN Fresh ELSE cycle[c]]
    /\ outcomes' = [c \in Cycles |-> IF result[c] = "none" THEN {} ELSE outcomes[c]]
    /\ UNCHANGED <<repo, head, result, texts>>

EvolutionStep(c) ==
    \/ EnterBootstrap(c) \/ Bootstrap(c) \/ GatherTasks(c) \/ ReadBaseline(c)
    \/ Optimize(c) \/ Evaluate(c) \/ AssetFails(c) \/ TakeApplyLock(c)
    \/ MergeCandidate(c) \/ FinishCycle(c)
EvolutionNext == (\E c \in Cycles : EvolutionStep(c)) \/ WorkerDiesEvolving

EvolutionSpec == EvolutionInit /\ [][EvolutionNext]_evolutionVars

-----------------------------------------------------------------------------
(* Properties *)

\* A repository that validation lets pass can be applied to, unless a worker died
\* between git init and the first commit: then it passes for good, and every
\* candidate fails.
ValidMeansReady ==
    Valid /\ bootLock = "nobody" => repo = "ready" \/ torn

\* An optimizer that found nothing better leaves the branch alone, unless another
\* cycle changed the asset since: then its old text is put back.
NothingFoundChangesNothing ==
    [][\A c \in Cycles :
          (applyLock = c /\ applyLock' # c /\ cycle[c].candidate = cycle[c].baseline)
              => head[Asset(c)] # cycle[c].baseline]_evolutionVars
=============================================================================
