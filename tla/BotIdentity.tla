---------------------------- MODULE BotIdentity -----------------------------
(***************************************************************************)
(* Who the bot is: resolve_bot_identity asks GitLab for the user of the      *)
(* token, and remembers the answer for a minute in the process and for good   *)
(* in the control plane's database.  The webhooks and the scenes call it,     *)
(* and a background thread when the process starts.  The lock covers the       *)
(* reads and writes of the process's cache, not what is done between them.    *)
(***************************************************************************)
EXTENDS Integers, FiniteSets

CONSTANTS
    Callers,    \* threads of one process
    Prime,      \* the one of them that schedule_bot_identity_prime starts
    Users,      \* the users whose tokens the admin may configure
    MaxChanges  \* bound: new tokens, outages and recoveries of GitLab

ASSUME IdentityAssumption == Prime \in Callers /\ MaxChanges \in Nat

VARIABLES
    token,      \* GITLAB_TOKEN, named by its user
    reachable,  \* GitLab answers GET /user
    persisted,  \* gitlab_identity_cache, "nobody" before there is one
    cache,      \* _CACHE_RESOLUTION, "empty" when there is none or it has expired
    asking,     \* what each caller is doing
    changes,
    overlapped  \* history: two callers were between their fetch and their answer

identityVars == <<token, reachable, persisted, cache, asking, changes, overlapped>>

Empty == [source |-> "empty", user |-> "nobody"]
LiveAnswer(user) == [source |-> "live", user |-> user]
Unavailable == [source |-> "unavailable", user |-> "nobody"]
Resting == [step |-> "rest", user |-> "nobody"]
Priming == [step |-> "prime", user |-> "nobody"]

IdentityInit ==
    /\ token \in Users /\ reachable \in BOOLEAN
    /\ persisted \in Users \cup {"nobody"} /\ cache = Empty
    /\ asking = [c \in Callers |-> IF c = Prime THEN Priming ELSE Resting]
    /\ changes = 0 /\ overlapped = FALSE

Ask(c, step, user) == asking' = [asking EXCEPT ![c] = [step |-> step, user |-> user]]

\* Mutant: an answer that was there once is never asked for again.
MutantExpires == cache.source = "live"
Expires == cache # Empty

\* An answer in the cache is returned as it is; the prime asks in any case, once.
Fetch(c) ==
    /\ \/ asking[c] = Resting /\ c # Prime /\ cache = Empty
       \/ asking[c] = Priming
    /\ IF reachable THEN Ask(c, "persist", token) ELSE Ask(c, "fallback", "nobody")
    /\ overlapped' = (overlapped \/ \E d \in Callers : asking[d] \notin {Resting, Priming})
    /\ UNCHANGED <<token, reachable, persisted, cache, changes>>

Persist(c) ==
    /\ asking[c].step = "persist"
    /\ persisted' = asking[c].user
    /\ Ask(c, "live", asking[c].user)
    /\ UNCHANGED <<token, reachable, cache, changes, overlapped>>

\* _load_persisted_identity.
\* Mutant: what is persisted is not looked for.
MutantFallback == "nobody"
Fallback == persisted
LoadPersisted(c) ==
    /\ asking[c].step = "fallback"
    /\ Ask(c, IF Fallback = "nobody" THEN "unavailable" ELSE "cached", Fallback)
    /\ UNCHANGED <<token, reachable, persisted, cache, changes, overlapped>>

\* _cache_resolution: the last one to answer wins.
CacheResolution(c) ==
    /\ asking[c].step \in {"live", "cached", "unavailable"}
    /\ cache' = [source |-> asking[c].step, user |-> asking[c].user]
    /\ Ask(c, "rest", "nobody")
    /\ UNCHANGED <<token, reachable, persisted, changes, overlapped>>

\* A minute has passed.
CacheExpires ==
    /\ Expires
    /\ cache' = Empty
    /\ UNCHANGED <<token, reachable, persisted, asking, changes, overlapped>>

\* A new GITLAB_TOKEN leaves both caches as they are.
ChangeToken ==
    /\ changes < MaxChanges /\ changes' = changes + 1
    /\ token' \in Users \ {token}
    /\ UNCHANGED <<reachable, persisted, cache, asking, overlapped>>

GitLabChanges ==
    /\ changes < MaxChanges /\ changes' = changes + 1
    /\ reachable' = ~reachable
    /\ UNCHANGED <<token, persisted, cache, asking, overlapped>>

Resolve(c) == Fetch(c) \/ Persist(c) \/ LoadPersisted(c) \/ CacheResolution(c)
IdentityNext ==
    \/ \E c \in Callers : Resolve(c)
    \/ CacheExpires \/ ChangeToken \/ GitLabChanges

\* Webhooks keep coming, a call comes to an end, and so does a minute.
IdentityFairness ==
    /\ \A c \in Callers : WF_identityVars(Resolve(c))
    /\ WF_identityVars(CacheExpires)
IdentitySpec == IdentityInit /\ [][IdentityNext]_identityVars /\ IdentityFairness

-----------------------------------------------------------------------------
(* Properties *)

\* The minute in which mentions are turned away for want of a bot name begins only
\* when the name has never been learned, or when a caller that failed answers
\* after one that did not: an outage of GitLab alone does not make the bot deaf.
DeafOnlyByOverlap ==
    [][cache # Unavailable /\ cache' = Unavailable => persisted = "nobody" \/ overlapped]_identityVars

\* When GitLab stays reachable the process comes back, again and again, to
\* knowing the user of the token it has, whatever it cached in between.
LearnsItsName == <>[](reachable) => []<>(cache = LiveAnswer(token))
=============================================================================
