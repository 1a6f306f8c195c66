----------------------------- MODULE RepoAnalyst -----------------------------
(***************************************************************************)
(* The repo_analyst sub-agent: runs of the recursive language model, each in  *)
(* a thread of the worker (asyncio.to_thread), over what they patch in the     *)
(* process: its environment and two functions of the library.                 *)
(*                                                                          *)
(* The library is taken as: get a client by the name of its backend, then      *)
(* ask the model up to max_iterations times, each answer being code for the    *)
(* REPL, or a final answer that find_final_answer recognises.                 *)
(***************************************************************************)
EXTENDS Naturals, FiniteSets

CONSTANTS
    Threads,   \* runs of the sub-agent
    MaxAsks,  \* _RLM_MAX_ITERATIONS
    MaxConfigs \* bound: configurations over time

ASSUME AnalystAssumption == IsFiniteSet(Threads) /\ {MaxAsks, MaxConfigs} \subseteq Nat

VARIABLES
    env,       \* API keys in os.environ: 0 as started, else a configuration's
    library,   \* rlm_core's functions: "own", or "patched" by the wrappers
    config,    \* the configuration now
    custom,    \* its provider needs the LangChain client
    threads,   \* each run
    mixed \* History: runs that were in the process together with another

analystVars == <<env, library, config, custom, threads, mixed>>

\* env and library are what the run saved; custom is its backend, final whether
\* the REPL holds final_answer, result what it returns.
NotRunning == [at |-> "idle", env |-> 0, library |-> "own", custom |-> FALSE,
         turn |-> 0, final |-> FALSE, result |-> "none"]

AnalystInit ==
    /\ env = 0 /\ library = "own" /\ config = 1 /\ custom \in BOOLEAN
    /\ threads = [t \in Threads |-> NotRunning] /\ mixed = {}

Within(t) == threads[t].at \notin {"idle", "read", "done"}

-----------------------------------------------------------------------------
(* Around the library *)

\* What the model is shown is read from the repository first; a tool that raises
\* there ends the run before it has touched the process.
ReadRepository(t) ==
    /\ threads[t].at = "idle"
    /\ \/ threads' = [threads EXCEPT ![t].at = "read"]
       \/ threads' = [threads EXCEPT ![t].at = "done", ![t].result = "error"]
    /\ UNCHANGED <<env, library, config, custom, mixed>>

\* _configured_provider_env saves and sets.
EnterEnvironment(t) ==
    /\ threads[t].at = "read"
    /\ threads' = [threads EXCEPT ![t].at = "env", ![t].env = env, ![t].custom = custom]
    /\ env' = config
    /\ LET others == {u \in Threads \ {t} : Within(u)} IN
       mixed' = mixed \cup (IF others = {} THEN {} ELSE others \cup {t})
    /\ UNCHANGED <<library, config, custom>>

\* _patched_rlm_get_client saves and sets.
EnterPatch(t) ==
    /\ threads[t].at = "env"
    /\ threads' = [threads EXCEPT ![t].at = "open", ![t].library = library]
    /\ library' = "patched"
    /\ UNCHANGED <<env, config, custom, mixed>>

\* The finally of each context manager puts back what it saved.
LeavePatch(t) ==
    /\ threads[t].at = "unpatch"
    /\ threads' = [threads EXCEPT ![t].at = "unenv"]
    /\ library' = threads[t].library
    /\ UNCHANGED <<env, config, custom, mixed>>

LeaveEnvironment(t) ==
    /\ threads[t].at = "unenv"
    /\ threads' = [threads EXCEPT ![t].at = "done"]
    /\ env' = threads[t].env
    /\ UNCHANGED <<library, config, custom, mixed>>

-----------------------------------------------------------------------------
(* In the library *)

Finishes(t, result) ==
    threads' = [threads EXCEPT ![t].at = "unpatch", ![t].result = result]

\* The library knows its own backends; open_review_langchain is the wrapper's.
OpenClient(t) ==
    /\ threads[t].at = "open"
    /\ IF threads[t].custom /\ library = "own" THEN Finishes(t, "error")
       ELSE threads' = [threads EXCEPT ![t].at = "ask"]
    /\ UNCHANGED <<env, library, config, custom, mixed>>

\* What a final answer that is only a placeholder becomes: the wrapper takes the
\* variable of the REPL instead, and without one the loop goes on.
\* Mutant: without the variable the placeholder is the answer.
MutantPlaceholder(t) == IF library = "patched" /\ threads[t].final
                        THEN "answer" ELSE "placeholder"
Placeholder(t) == IF library = "own" THEN "placeholder"
                  ELSE IF threads[t].final THEN "answer" ELSE "again"

Asking(t) == threads[t].at = "ask" /\ threads[t].turn < MaxAsks
Again(t, final) ==
    threads' = [threads EXCEPT ![t].turn = @ + 1, ![t].final = final]

\* The answer is code for the REPL, which may set the variable; the tools that it
\* calls read the repository, and what they raise is text.
RunCode(t) ==
    /\ Asking(t)
    /\ \E sets \in BOOLEAN : Again(t, threads[t].final \/ sets)
    /\ UNCHANGED <<env, library, config, custom, mixed>>

\* The answer is final.  The LangChain client has asked again, once, before it
\* returns a placeholder.
GiveAnswer(t) ==
    /\ Asking(t)
    /\ \/ Finishes(t, "answer")
       \/ LET answer == Placeholder(t) IN
          IF answer = "again" THEN Again(t, FALSE) ELSE Finishes(t, answer)
    /\ UNCHANGED <<env, library, config, custom, mixed>>

\* The client or the library raises, its time is over among other things.
RunRaises(t) ==
    /\ threads[t].at \in {"open", "ask"}
    /\ Finishes(t, "error")
    /\ UNCHANGED <<env, library, config, custom, mixed>>

\* Out of iterations: one last call, whose text is the result.
LastAnswer(t) ==
    /\ threads[t].at = "ask" /\ threads[t].turn = MaxAsks
    /\ Finishes(t, "default")
    /\ UNCHANGED <<env, library, config, custom, mixed>>

\* Another configuration is saved.
Reconfigure ==
    /\ config < MaxConfigs /\ config' = config + 1 /\ custom' \in BOOLEAN
    /\ UNCHANGED <<env, library, threads, mixed>>

AnalystNext ==
    \/ \E t \in Threads :
          \/ ReadRepository(t) \/ EnterEnvironment(t) \/ EnterPatch(t)
          \/ OpenClient(t) \/ RunCode(t) \/ GiveAnswer(t) \/ LastAnswer(t)
          \/ RunRaises(t) \/ LeavePatch(t) \/ LeaveEnvironment(t)
    \/ Reconfigure

AnalystSpec == AnalystInit /\ [][AnalystNext]_analystVars

-----------------------------------------------------------------------------
(* Properties *)

\* Runs that never overlap leave the process as they found it and never return a
\* placeholder or miss their client: what goes wrong in any run, keys of an old
\* configuration that stay in the environment, needs two threads that leave in
\* the order in which they came (rlm/subagent.py:1018, 1072).
AloneIsHarmless ==
    /\ (mixed = {} /\ \A t \in Threads : ~Within(t)) => env = 0 /\ library = "own"
    /\ \A t \in Threads \ mixed : threads[t].result # "placeholder"
    /\ \A t \in Threads \ mixed : threads[t].at = "ask" => library = "patched"
=============================================================================
