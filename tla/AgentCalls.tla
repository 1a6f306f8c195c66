----------------------------- MODULE AgentCalls -----------------------------
(***************************************************************************)
(* One call of an agent by a scene: its turns of model and tools, the         *)
(* sub-agents it calls as tools, and the middlewares around both, from the     *)
(* outermost: termination, structured output, retry of the model, tool errors. *)
(*                                                                          *)
(* An exception of a sub-agent is an exception of its caller's tool and       *)
(* becomes a message; one of the caller is the scene's.  The agent loop of    *)
(* the library is taken as: check, model, tools, and again, up to its limit   *)
(* of turns.                                                                  *)
(***************************************************************************)
EXTENDS Naturals

CONSTANTS
    Specialists,    \* sub-agents that the main agent may call, side by side
    Main,           \* the scene's agent
    MaxTurns,       \* bound: the library's recursion limit, in turns
    MaxStructured,  \* max_retries of StructuredOutputRetryMiddleware
    MaxOutages      \* bound: transient errors of the model

Agents == Specialists \cup {Main}
ASSUME AgentCallsAssumption ==
    /\ Main \notin Specialists /\ MaxTurns \in Nat \ {0}
    /\ {MaxStructured, MaxOutages} \subseteq Nat

VARIABLES
    agent,      \* where each agent is
    turns,      \* the turns it has begun
    reprompts,  \* structured retries in the model call it is in
    outages,
    wanted,     \* the operator has requested termination
    ending      \* how the call ended: "none", "result", "terminated", "error"

callVars == <<agent, turns, reprompts, outages, wanted, ending>>

CallInit ==
    /\ agent = [a \in Agents |-> IF a = Main THEN "turn" ELSE "idle"]
    /\ turns = [a \in Agents |-> 0] /\ reprompts = [a \in Agents |-> 0]
    /\ outages = 0 /\ wanted = FALSE /\ ending = "none"

Comes(a, where) == agent' = [agent EXCEPT ![a] = where]

\* A sub-agent's end is the end of its caller's tool, and the caller goes on once
\* all the tools of its message have ended; the main agent's is the scene's.
\* Mutant: an exception of a sub-agent does not become its caller's message.
MutantConcludes(a, how) ==
    IF a = Main THEN Comes(a, "idle") /\ ending' = how
    ELSE /\ agent' = [agent EXCEPT ![a] = "idle",
                         ![Main] = IF how = "result" THEN "turn" ELSE @]
         /\ UNCHANGED ending
Concludes(a, how) ==
    IF a = Main THEN Comes(a, "idle") /\ ending' = how
    ELSE /\ agent' = [agent EXCEPT ![a] = "idle",
                         ![Main] = IF \E b \in Specialists \ {a} : agent[b] # "idle"
                                   THEN @ ELSE "turn"]
         /\ UNCHANGED ending

-----------------------------------------------------------------------------
(* Turns *)

\* Mutant: only tool calls are checked.
MutantStopsHere(a) == wanted /\ agent[a] = "tools"
\* RunTerminationMiddleware, before the agent, the model, and each tool.
StopsHere(a) == wanted /\ agent[a] \in {"turn", "tools"}
Stops(a) ==
    /\ StopsHere(a)
    /\ Concludes(a, "terminated")
    /\ UNCHANGED <<turns, reprompts, outages, wanted>>

BeginTurn(a) ==
    /\ agent[a] = "turn" /\ ~StopsHere(a)
    /\ IF turns[a] = MaxTurns
       THEN Concludes(a, "error") /\ UNCHANGED <<turns, reprompts>>
       ELSE /\ Comes(a, "model") /\ UNCHANGED ending
            /\ turns' = [turns EXCEPT ![a] = @ + 1]
            /\ reprompts' = [reprompts EXCEPT ![a] = 0]
    /\ UNCHANGED <<outages, wanted>>

-----------------------------------------------------------------------------
(* The model *)

\* A transient error: wait and call again, without a limit and without a look at
\* the termination.
ModelIsOut(a) ==
    /\ agent[a] = "model" /\ outages < MaxOutages
    /\ outages' = outages + 1 /\ Comes(a, "waiting")
    /\ UNCHANGED <<turns, reprompts, wanted, ending>>
RetryModel(a) ==
    /\ agent[a] = "waiting" /\ Comes(a, "model")
    /\ UNCHANGED <<turns, reprompts, outages, wanted, ending>>

\* An error that is not retried.
ModelFails(a) ==
    /\ agent[a] = "model" /\ Concludes(a, "error")
    /\ UNCHANGED <<turns, reprompts, outages, wanted>>

\* Plain text where a structure is wanted: ask again, within the same turn.
ModelTalks(a) ==
    /\ agent[a] = "model"
    /\ IF reprompts[a] >= MaxStructured
       THEN Concludes(a, "error") /\ UNCHANGED reprompts
       ELSE /\ reprompts' = [reprompts EXCEPT ![a] = @ + 1]
            /\ UNCHANGED <<agent, ending>>
    /\ UNCHANGED <<turns, outages, wanted>>

ModelAnswers(a) ==
    /\ agent[a] = "model"
    /\ \/ Concludes(a, "result")
       \/ Comes(a, "tools") /\ UNCHANGED ending
    /\ UNCHANGED <<turns, reprompts, outages, wanted>>

-----------------------------------------------------------------------------
(* Tools *)

\* A tool of the sandbox returns or raises: ToolErrorMiddleware makes a message of
\* what is raised, blocked git commands and missing files among it.
RunTool(a) ==
    /\ agent[a] = "tools" /\ ~StopsHere(a)
    /\ Comes(a, "turn")
    /\ UNCHANGED <<turns, reprompts, outages, wanted, ending>>

\* The task tool: sub-agents begin anew, and their caller waits.
CallSpecialists ==
    /\ agent[Main] = "tools" /\ ~StopsHere(Main)
    /\ \E called \in (SUBSET Specialists) \ {{}} :
          /\ agent' = [a \in Agents |-> IF a = Main THEN "waits"
                                        ELSE IF a \in called THEN "turn" ELSE "idle"]
          /\ turns' = [a \in Agents |-> IF a \in called THEN 0 ELSE turns[a]]
    /\ UNCHANGED <<reprompts, outages, wanted, ending>>

RequestStop ==
    /\ ~wanted /\ ending = "none" /\ wanted' = TRUE
    /\ UNCHANGED <<agent, turns, reprompts, outages, ending>>

CallStep(a) ==
    \/ Stops(a) \/ BeginTurn(a) \/ ModelIsOut(a) \/ RetryModel(a) \/ ModelFails(a)
    \/ ModelTalks(a) \/ ModelAnswers(a) \/ RunTool(a)
CallNext == (\E a \in Agents : CallStep(a)) \/ CallSpecialists \/ RequestStop

\* Models answer, waits end, tools return.
CallFairness ==
    /\ \A a \in Agents : WF_callVars(CallStep(a))
CallSpec == CallInit /\ [][CallNext]_callVars /\ CallFairness

-----------------------------------------------------------------------------
(* Properties *)

\* After the request no agent begins another turn, whichever of them hears of it
\* first and although the tool errors of a caller hide it
\* (termination.py:82, tool_error_handler.py:62).
NoTurnAfterStop ==
    [][wanted => \A a \in Agents : turns'[a] = turns[a]]_callVars

\* Every call of an agent ends, if the outages of the model do: text without
\* structure is asked for again only so often, and a sub-agent that fails or is
\* terminated does not leave its caller waiting.
EveryCallEnds == <>(ending # "none")
=============================================================================
