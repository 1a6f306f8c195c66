----------------------------- MODULE MCReviews ------------------------------
(***************************************************************************)
(* What a review, a mention or the admin runs on, one component at a time:     *)
(* the components share no state, so the one named by part moves and the       *)
(* others rest in one of their initial states.                                 *)
(***************************************************************************)
EXTENDS ControlPlane, BotIdentity, AgentCalls, RepoAnalyst, Sandboxes,
        ReviewPipeline, MentionLoop

Parts == {"control", "identity", "calls", "analyst", "sandbox", "review", "mention"}

VARIABLE part
reviewsVars == <<part, controlVars, identityVars, callVars, analystVars, sandboxVars,
                 pipelineVars, mentionVars>>

\* Two projects whose names agree in 24 characters, and a merge request.
OneNameForTwo == [s \in Sandboxes |-> IF s = "m" THEN "m" ELSE "ab"]

\* The initial choices of the components that rest are settled.
ReviewsInit ==
    /\ part \in Parts
    /\ ControlInit /\ (part # "control" => table.schema = "none")
    /\ IdentityInit /\ (part # "identity" => reachable /\ token = persisted /\ token = "u1")
    /\ CallInit
    /\ AnalystInit /\ (part # "analyst" => custom)
    /\ SandboxInit /\ (part # "sandbox" => mode = "docker")
    /\ PipelineInit /\ MentionInit

OnlyControl == UNCHANGED <<part, identityVars, callVars, analystVars,
                      sandboxVars, pipelineVars, mentionVars>>
OnlyIdentity == UNCHANGED <<part, controlVars, callVars, analystVars,
                      sandboxVars, pipelineVars, mentionVars>>
OnlyCalls == UNCHANGED <<part, controlVars, identityVars, analystVars,
                      sandboxVars, pipelineVars, mentionVars>>

ReviewsNext ==
    \/ part = "control" /\ ControlNext /\ OnlyControl
    \/ part = "identity" /\ IdentityNext /\ OnlyIdentity
    \/ part = "calls" /\ CallNext /\ OnlyCalls
    \/ part = "analyst" /\ AnalystNext
         /\ UNCHANGED <<part, controlVars, identityVars, callVars,
                        sandboxVars, pipelineVars, mentionVars>>
    \/ part = "sandbox" /\ SandboxNext
         /\ UNCHANGED <<part, controlVars, identityVars, callVars,
                        analystVars, pipelineVars, mentionVars>>
    \/ part = "review" /\ PipelineNext
         /\ UNCHANGED <<part, controlVars, identityVars, callVars,
                        analystVars, sandboxVars, mentionVars>>
    \/ part = "mention" /\ MentionNext
         /\ UNCHANGED <<part, controlVars, identityVars, callVars,
                        analystVars, sandboxVars, pipelineVars>>

\* The fairness of the component that moves.
ReviewsFairness ==
    /\ \A p \in Starters : WF_reviewsVars(part = "control" /\ Construct(p) /\ OnlyControl)
    /\ \A c \in Callers : WF_reviewsVars(part = "identity" /\ Resolve(c) /\ OnlyIdentity)
    /\ WF_reviewsVars(part = "identity" /\ CacheExpires /\ OnlyIdentity)
    /\ \A a \in Agents : WF_reviewsVars(part = "calls" /\ CallStep(a) /\ OnlyCalls)

ReviewsSpec == ReviewsInit /\ [][ReviewsNext]_reviewsVars /\ ReviewsFairness

-----------------------------------------------------------------------------
(* The liveness properties of the components, for the one that moves *)

\* However often the starters fail or get into each other's way, each of them
\* comes to have its service.
StartersComeUp == part = "control" => EveryStarterComesUp

\* When GitLab stays reachable the process comes back, again and again, to
\* knowing the user of the token it has, whatever it cached in between.
NameIsLearned == part = "identity" => LearnsItsName

\* Every call of an agent ends, if the outages of the model do.
CallsEnd == part = "calls" => EveryCallEnds
=============================================================================
