---------------------------- MODULE ControlPlane ----------------------------
(***************************************************************************)
(* The control plane's database as the web process and the worker share it: *)
(* the settings, the agent configuration of each managed project, the       *)
(* secret that admin sessions are signed with, and the schema of            *)
(* tracked_runs.                                                             *)
(*                                                                          *)
(* Every process, and in the web process every thread, that first needs a   *)
(* setting builds a ControlPlaneService: get_config_service has no lock.    *)
(* The constructor creates and migrates the tables and fills in what is     *)
(* missing, in several transactions; when it raises, SettingsProxy goes on   *)
(* with the defaults and the next access constructs it again.  The admin's  *)
(* handlers run on the event loop of the web process, one at a time.        *)
(***************************************************************************)
EXTENDS Integers, FiniteSets, SequencesExt

CONSTANTS
    Starters,    \* the threads and processes that construct the service
    Web,         \* the one of them that serves the admin
    Projects,    \* what GITLAB_TARGET_PROJECTS may name
    Models,      \* the names of language models
    MaxFailures, \* bound: crashes of the starters
    MaxEdits     \* bound: edits of the admin

ASSUME ControlPlaneAssumption ==
    /\ Web \in Starters
    /\ {MaxFailures, MaxEdits} \subseteq Nat

Providers == {"openai", "anthropic"}
NoModel == "none"
NoId == <<"none", NoModel>>
LlmKeys == {"provider", "openai", "anthropic", "id"}
SettingKeys == LlmKeys \cup {"targets"}
Unset == [provider |-> "none", openai |-> NoModel, anthropic |-> NoModel,
          id |-> NoId, targets |-> {}]

VARIABLES
    \* The database.
    entries,   \* config_entries: a function on the keys that have a row
    agents,    \* project_agent_config_entries: "absent", "default" or "edited"
    secret,    \* internal_state: the session secret, 0 before there is one
    table,     \* tracked_runs: its schema, and whether it has all there is of history
    leftover,  \* tracked_runs_old: "none", or whether it has it
    account,   \* there is an admin_account
    \* The processes.
    phase,     \* where each starter is in the constructor
    absent,    \* the keys that _bootstrap_config_if_needed found missing
    request,   \* the rest of the admin's request that the web process serves
    \* History.
    minted,    \* the secrets made so far
    cookies,   \* the secrets that sessions were signed with
    edited,    \* the projects whose agent configuration the admin has edited
    failures, edits,
    raced      \* two starters were in the constructor at once, or one crashed in it

database == <<entries, agents, secret, table, leftover, account>>
controlVars == <<database, phase, absent, request, minted, cookies, edited,
                 failures, edits, raced>>

-----------------------------------------------------------------------------
(* Settings *)

\* coerce_llm_settings: the provider is the stored one, or that of a model id
\* written before there were providers; the model id follows from the two.
Coerced(d) ==
    LET provider == IF d.provider # "none" THEN d.provider
                    ELSE IF d.id[1] # "none" THEN d.id[1] ELSE "openai"
        Model(p) == IF d[p] = NoModel /\ d.id[1] = p THEN d.id[2] ELSE d[p]
        models == [p \in Providers |-> Model(p)]
    IN [d EXCEPT !.provider = provider, !.openai = models.openai,
                 !.anthropic = models.anthropic, !.id = <<provider, models[provider]>>]

\* get_snapshot: the rows on top of the defaults.
Snapshot == Coerced([k \in SettingKeys |->
    IF k \in DOMAIN entries THEN entries[k] ELSE Unset[k]])

With(rows, new) ==
    [k \in DOMAIN rows \cup DOMAIN new |-> IF k \in DOMAIN new THEN new[k] ELSE rows[k]]

\* set_values: a change of one of the keys of the language model writes all of
\* them, from the snapshot that the change was merged into.
Written(update) ==
    LET merged == Coerced(With(Snapshot, update))
    IN IF DOMAIN update \cap LlmKeys = {} THEN update
       ELSE With(update, [k \in LlmKeys |-> merged[k]])

\* What one form of the admin changes: the provider, a model, or the projects.
Updates ==
    [{"provider"} -> Providers] \cup [{"openai"} -> Models] \cup
    [{"anthropic"} -> Models] \cup [{"targets"} -> SUBSET Projects \ {{}}]

\* ensure_project_agent_configs: INSERT OR IGNORE.
\* Mutant: INSERT OR REPLACE.
MutantEnsured(projects) ==
    [p \in Projects |-> IF p \in projects THEN "default" ELSE agents[p]]
Ensured(projects) ==
    [p \in Projects |-> IF p \in projects /\ agents[p] = "absent"
                        THEN "default" ELSE agents[p]]

-----------------------------------------------------------------------------
(* Construction *)

\* Before the first start there is no database, or that of an earlier release:
\* its tracked_runs has the old schema, its settings may be a model id only.
ControlInit ==
    /\ \/ table = [schema |-> "none", full |-> TRUE] /\ entries = <<>>
       \/ /\ table = [schema |-> "old", full |-> TRUE]
          /\ entries \in {<<>>} \cup [{"id"} -> Providers \X Models]
    /\ agents = [p \in Projects |-> "absent"]
    /\ secret = 0 /\ leftover = "none" /\ account = FALSE
    /\ phase = [p \in Starters |-> "down"] /\ absent = [p \in Starters |-> {}]
    /\ request = <<>> /\ minted = 0 /\ cookies = {} /\ edited = {}
    /\ failures = 0 /\ edits = 0 /\ raced = FALSE

Constructing(p) == phase[p] \notin {"down", "up"}
Go(p, to) == phase' = [phase EXCEPT ![p] = to]

\* The script that moves an old tracked_runs aside, one statement at a time.
\* Mutant: the old table is dropped before it is copied.
MutantAfter == [tables |-> "rename", rename |-> "create", create |-> "drop",
                drop |-> "copy", copy |-> "select"]
After == [tables |-> "rename", rename |-> "create", create |-> "copy",
          copy |-> "drop", drop |-> "select"]

\* CREATE TABLE IF NOT EXISTS, and a look at the columns of tracked_runs.
CreateTables(p) ==
    /\ phase[p] = "down"
    /\ table' = IF table.schema = "none" THEN [table EXCEPT !.schema = "new"] ELSE table
    /\ Go(p, IF table.schema = "old" THEN After.tables ELSE "select")
    /\ raced' = (raced \/ \E q \in Starters : Constructing(q))
    /\ UNCHANGED <<entries, agents, secret, leftover, account, absent, request,
                   minted, cookies, edited, failures, edits>>

MigrationStep(p, step, ok) ==
    /\ phase[p] = step
    /\ Go(p, IF ok THEN After[step] ELSE "down")
    /\ UNCHANGED <<entries, agents, secret, account, absent, request, minted,
                   cookies, edited, failures, edits, raced>>

RenameOld(p) ==
    LET ok == table.schema # "none" /\ leftover = "none" IN
    /\ MigrationStep(p, "rename", ok)
    /\ IF ok
       THEN /\ leftover' = IF table.full THEN "full" ELSE "empty"
            /\ table' = [schema |-> "none", full |-> FALSE]
       ELSE UNCHANGED <<table, leftover>>

CreateNew(p) ==
    LET ok == table.schema = "none" IN
    /\ MigrationStep(p, "create", ok)
    /\ table' = IF ok THEN [schema |-> "new", full |-> FALSE] ELSE table
    /\ UNCHANGED leftover

CopyOld(p) ==
    LET ok == leftover # "none" /\ table.schema # "none" IN
    /\ MigrationStep(p, "copy", ok)
    /\ table' = IF ok /\ leftover = "full" THEN [table EXCEPT !.full = TRUE] ELSE table
    /\ UNCHANGED leftover

DropOld(p) ==
    /\ MigrationStep(p, "drop", leftover # "none")
    /\ leftover' = "none"
    /\ UNCHANGED table

\* _bootstrap_config_if_needed: a SELECT, then one transaction of INSERTs, which
\* fails as a whole if a row has appeared.
\* Mutant: the rows that exist are inserted again.
MutantMissing == SettingKeys
Missing == SettingKeys \ DOMAIN entries
SelectConfig(p) ==
    /\ phase[p] = "select"
    /\ absent' = [absent EXCEPT ![p] = Missing]
    /\ Go(p, "insert")
    /\ UNCHANGED <<database, request, minted, cookies, edited, failures, edits, raced>>

InsertConfig(p) ==
    /\ phase[p] = "insert"
    /\ IF absent[p] \cap DOMAIN entries = {}
       THEN /\ entries' = With(entries, [k \in absent[p] |-> Snapshot[k]])
            /\ Go(p, "projects")
       ELSE UNCHANGED entries /\ Go(p, "down")
    /\ absent' = [absent EXCEPT ![p] = {}]
    /\ UNCHANGED <<agents, secret, table, leftover, account, request, minted,
                   cookies, edited, failures, edits, raced>>

EnsureProjects(p) ==
    /\ phase[p] = "projects"
    /\ agents' = Ensured(Snapshot.targets)
    /\ Go(p, "secret")
    /\ UNCHANGED <<entries, secret, table, leftover, account, absent, request,
                   minted, cookies, edited, failures, edits, raced>>

\* _bootstrap_internal_state_if_needed: a look for the secret, and an upsert.
\* Mutant: every start makes a new one.
MutantHasSecret == FALSE
HasSecret == secret # 0
LookForSecret(p) ==
    /\ phase[p] = "secret"
    /\ Go(p, IF HasSecret THEN "up" ELSE "store")
    /\ UNCHANGED <<database, absent, request, minted, cookies, edited, failures,
                   edits, raced>>

StoreSecret(p) ==
    /\ phase[p] = "store"
    /\ minted' = minted + 1 /\ secret' = minted'
    /\ Go(p, "up")
    /\ UNCHANGED <<entries, agents, table, leftover, account, absent, request,
                   cookies, edited, failures, edits, raced>>

-----------------------------------------------------------------------------
(* The admin's requests *)

Idle == phase[Web] = "up" /\ request = <<>>

\* create_initial_admin, or verify_admin_password; then _sign_session.
SignIn ==
    /\ Idle
    /\ account' = TRUE
    /\ cookies' = cookies \cup {secret}
    /\ UNCHANGED <<entries, agents, secret, table, leftover, phase, absent, request,
                   minted, edited, failures, edits, raced>>

\* _is_authenticated: the cookie is signed with the secret of now.
Authenticated == Idle /\ account /\ secret \in cookies /\ edits < MaxEdits

\* admin_settings_update, admin_api_settings_update: set_values writes in one
\* transaction and ensures the projects in another.
SetValues ==
    /\ Authenticated
    /\ \E update \in Updates :
          /\ entries' = With(entries, Written(update))
          /\ request' = IF "targets" \in DOMAIN update
                        THEN <<[call |-> "ensure", projects |-> update.targets]>>
                        ELSE <<>>
    /\ edits' = edits + 1
    /\ UNCHANGED <<agents, secret, table, leftover, account, phase, absent, minted,
                   cookies, edited, failures, raced>>

\* set_project_agent_config: it is refused for a project that is not managed, and
\* ensures the rows before it writes to them.
SetProjectAgentConfig(project) ==
    /\ Authenticated /\ project \in Snapshot.targets
    /\ request' = <<[call |-> "ensure", projects |-> {project}],
                    [call |-> "upsert", projects |-> {project}]>>
    /\ edits' = edits + 1
    /\ UNCHANGED <<database, phase, absent, minted, cookies, edited, failures, raced>>

ServeRequest ==
    /\ phase[Web] = "up" /\ request # <<>>
    /\ LET projects == Head(request).projects IN
       CASE Head(request).call = "ensure" ->
              agents' = Ensured(projects) /\ UNCHANGED edited
         [] OTHER ->
              /\ agents' = [p \in Projects |->
                               IF p \in projects THEN "edited" ELSE agents[p]]
              /\ edited' = edited \cup projects
    /\ request' = Tail(request)
    /\ UNCHANGED <<entries, secret, table, leftover, account, phase, absent, minted,
                   cookies, failures, edits, raced>>

\* get_project_agent_config, in the worker, the scenes and the console: it
\* ensures the rows of any project that is asked for.
GetProjectAgentConfig(p, project) ==
    /\ phase[p] = "up" /\ agents[project] = "absent"
    /\ agents' = Ensured({project})
    /\ UNCHANGED <<entries, secret, table, leftover, account, phase, absent, request,
                   minted, cookies, edited, failures, edits, raced>>

StarterDies(p) ==
    /\ phase[p] # "down" /\ failures < MaxFailures
    /\ failures' = failures + 1
    /\ Go(p, "down")
    /\ absent' = [absent EXCEPT ![p] = {}]
    /\ request' = IF p = Web THEN <<>> ELSE request
    /\ raced' = (raced \/ Constructing(p))
    /\ UNCHANGED <<database, minted, cookies, edited, edits>>

-----------------------------------------------------------------------------

Construct(p) ==
    \/ CreateTables(p) \/ RenameOld(p) \/ CreateNew(p) \/ CopyOld(p)
    \/ DropOld(p) \/ SelectConfig(p) \/ InsertConfig(p) \/ EnsureProjects(p)
    \/ LookForSecret(p) \/ StoreSecret(p)

ControlNext ==
    \/ \E p \in Starters : Construct(p) \/ StarterDies(p)
    \/ \E p \in Starters, project \in Projects : GetProjectAgentConfig(p, project)
    \/ SignIn \/ SetValues \/ ServeRequest
    \/ \E project \in Projects : SetProjectAgentConfig(project)

\* A process that runs goes on with its constructor, and is restarted.
ControlFairness == \A p \in Starters : WF_controlVars(Construct(p))
ControlSpec == ControlInit /\ [][ControlNext]_controlVars /\ ControlFairness

-----------------------------------------------------------------------------
(* Properties *)

\* An agent configuration that the admin has saved is not put back to the
\* defaults by whoever ensures the rows of its project, in whatever order the
\* INSERT OR IGNOREs of the two processes and the edit come.
SavedConfigIsKept == \A p \in edited : agents[p] = "edited"

\* Sessions stay signed in across restarts: the secret is replaced only when two
\* constructors were at work at once, or one was interrupted.
SessionsSurvive == \A c \in cookies : c = secret \/ raced

\* The run history of an earlier release is carried over by the migration of
\* tracked_runs unless the migration is interrupted or raced: it is a script
\* without a transaction (ControlPlaneService._initialize).
HistoryIsCarriedOver ==
    (table.schema = "new" /\ ~raced /\ \A p \in Starters : ~Constructing(p))
        => table.full /\ leftover = "none"

\* However often the starters fail or get into each other's way, each of them
\* comes to have its service.
EveryStarterComesUp == \A p \in Starters : <>[](phase[p] = "up")
=============================================================================
