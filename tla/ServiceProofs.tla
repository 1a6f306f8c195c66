---------------------------- MODULE ServiceProofs ----------------------------
(***************************************************************************)
(* Proofs about what a review, a mention or the admin runs on, one component   *)
(* after the other: the control plane's database, the bot's name, the calls of *)
(* agents, the repo_analyst sub-agent, and the sandboxes.                      *)
(***************************************************************************)
EXTENDS ControlPlane, BotIdentity, AgentCalls, RepoAnalyst, Sandboxes, TLAPS

-----------------------------------------------------------------------------
(* Control plane: for any number of processes that construct the service *)


\* A constructor after the migration of tracked_runs.
Late == {"select", "insert", "projects", "secret", "store"}
Phases == {"down", "up", "rename", "create", "copy", "drop"} \cup Late
Calls == [call : {"ensure", "upsert"}, projects : SUBSET Projects]

-----------------------------------------------------------------------------
(* Agent configurations *)

ConfigInv ==
    /\ agents \in [Projects -> {"absent", "default", "edited"}]
    /\ request \in Seq(Calls)
    /\ edited \subseteq Projects
    /\ SavedConfigIsKept

\* INSERT OR IGNORE leaves the rows that there are.
LEMMA EnsuringKeeps ==
  ASSUME ConfigInv, NEW projects, agents' = Ensured(projects), edited' = edited
  PROVE  /\ agents' \in [Projects -> {"absent", "default", "edited"}]
         /\ SavedConfigIsKept'
  BY DEF ConfigInv, Ensured, SavedConfigIsKept

LEMMA ServeKeeps ==
  ASSUME ConfigInv, ServeRequest
  PROVE  ConfigInv'
  <1> DEFINE served == Head(request)
  <1>1. /\ served \in Calls /\ Tail(request) \in Seq(Calls)
        /\ request' = Tail(request)
    BY DEF ServeRequest, ConfigInv
  <1>2. CASE served.call = "ensure"
    <2>1. agents' = Ensured(served.projects) /\ edited' = edited
      BY <1>2 DEF ServeRequest
    <2> QED BY <1>1, <2>1, EnsuringKeeps DEF ConfigInv
  <1>3. CASE served.call # "ensure"
    <2>1. /\ agents' = [p \in Projects |-> IF p \in served.projects THEN "edited" ELSE agents[p]]
          /\ edited' = edited \cup served.projects
      BY <1>3 DEF ServeRequest
    <2>2. served.projects \subseteq Projects
      BY <1>1 DEF Calls
    <2> QED BY <1>1, <2>1, <2>2 DEF ConfigInv, SavedConfigIsKept
  <1> QED BY <1>2, <1>3

\* The admin's handlers leave what is to be done to the rows in the request.
LEMMA RequestsAreCalls ==
  ASSUME ConfigInv, SetValues \/ \E p \in Projects : SetProjectAgentConfig(p)
  PROVE  ConfigInv'
  <1>1. CASE SetValues
    <2>1. PICK update \in Updates :
             request' = IF "targets" \in DOMAIN update
                        THEN <<[call |-> "ensure", projects |-> update.targets]>> ELSE <<>>
      BY <1>1 DEF SetValues
    <2>2. "targets" \in DOMAIN update => update.targets \subseteq Projects
      BY DEF Updates
    <2>3. <<>> \in Seq(Calls) /\ \A c \in Calls : <<c>> \in Seq(Calls)
      OBVIOUS
    <2>4. CASE "targets" \in DOMAIN update
      <3>1. [call |-> "ensure", projects |-> update.targets] \in Calls
        BY <2>2, <2>4 DEF Calls
      <3> QED BY <3>1, <2>1, <2>3, <2>4, <1>1 DEF SetValues, ConfigInv, SavedConfigIsKept
    <2>5. CASE "targets" \notin DOMAIN update
      BY <2>1, <2>3, <2>5, <1>1 DEF SetValues, ConfigInv, SavedConfigIsKept
    <2> QED BY <2>4, <2>5
  <1>2. ASSUME NEW p \in Projects, SetProjectAgentConfig(p) PROVE ConfigInv'
    <2>1. request' \in Seq(Calls)
      BY <1>2 DEF SetProjectAgentConfig, Calls
    <2> QED BY <1>2, <2>1 DEF SetProjectAgentConfig, database, ConfigInv, SavedConfigIsKept
  <1> QED BY <1>1, <1>2

LEMMA ConfigStep ==
  ASSUME ConfigInv, [ControlNext]_controlVars
  PROVE  ConfigInv'
  <1>1. ASSUME NEW p \in Starters, EnsureProjects(p) PROVE ConfigInv'
    BY <1>1, EnsuringKeeps DEF EnsureProjects, ConfigInv
  <1>2. ASSUME NEW p \in Starters, NEW project \in Projects, GetProjectAgentConfig(p, project)
        PROVE  ConfigInv'
    BY <1>2, EnsuringKeeps DEF GetProjectAgentConfig, ConfigInv
  <1>3. ASSUME NEW p \in Starters, Construct(p), ~EnsureProjects(p) PROVE ConfigInv'
    <2>1. UNCHANGED <<agents, edited, request>>
      BY <1>3 DEF Construct, CreateTables, RenameOld, CreateNew, CopyOld, DropOld,
           MigrationStep, SelectConfig, InsertConfig, LookForSecret, StoreSecret, database
    <2> QED BY <2>1 DEF ConfigInv, SavedConfigIsKept
  <1>4. ASSUME NEW p \in Starters, StarterDies(p) PROVE ConfigInv'
    <2>1. UNCHANGED <<agents, edited>> /\ request' \in {request, <<>>}
      BY <1>4 DEF StarterDies, database
    <2>2. <<>> \in Seq(Calls)
      OBVIOUS
    <2> QED BY <2>1, <2>2 DEF ConfigInv, SavedConfigIsKept
  <1>5. CASE SignIn
    BY <1>5 DEF SignIn, ConfigInv, SavedConfigIsKept
  <1>6. CASE UNCHANGED controlVars
    BY <1>6 DEF controlVars, database, ConfigInv, SavedConfigIsKept
  <1> QED BY <1>1, <1>2, <1>3, <1>4, <1>5, <1>6, ServeKeeps, RequestsAreCalls DEF ControlNext

\* An agent configuration that the admin has saved is never put back to the
\* defaults by the inserts of another process.
THEOREM SavedIsKept == ControlSpec => []SavedConfigIsKept
  <1>1. ControlInit => ConfigInv
    BY DEF ControlInit, ConfigInv, SavedConfigIsKept
  <1>2. ConfigInv => SavedConfigIsKept
    BY DEF ConfigInv
  <1> QED BY <1>1, <1>2, ConfigStep, PTL DEF ControlSpec

-----------------------------------------------------------------------------
(* The migration *)

Tables == [schema : {"none", "old", "new"}, full : BOOLEAN]

LEMMA TableValues ==
  ASSUME NEW s \in {"none", "old", "new"}, NEW b \in BOOLEAN
  PROVE  [schema |-> s, full |-> b] \in Tables
  BY DEF Tables

\* Without a race there is one constructor at a time.
OneAtATime == ~raced => \A p, q \in Starters : Constructing(p) /\ Constructing(q) => p = q

\* Where the history is while a constructor is at a step of the script.
Holds(at) ==
    /\ at = "rename" => table.schema = "old" /\ table.full /\ leftover = "none"
    /\ at = "create" => table.schema = "none" /\ leftover = "full"
    /\ at = "copy"   => table.schema = "new" /\ leftover = "full"
    /\ at = "drop"   => table.schema = "new" /\ table.full /\ leftover = "full"
    /\ at \in Late   => table.schema = "new" /\ table.full /\ leftover = "none"

MigrationInv ==
    /\ phase \in [Starters -> Phases] /\ raced \in BOOLEAN
    /\ table \in Tables
    /\ leftover \in {"none", "full", "empty"}
    /\ OneAtATime
    /\ ~raced => \A p \in Starters : Holds(phase[p])
    /\ (~raced /\ \A p \in Starters : ~Constructing(p)) => table.full /\ leftover = "none"

\* One constructor goes on to a place where the history is as it should be.
LEMMA Advances ==
  ASSUME MigrationInv, NEW p \in Starters, Constructing(p), NEW to \in Phases, Go(p, to),
         table' \in Tables,
         leftover' \in {"none", "full", "empty"}, raced' = raced,
         ~raced => Holds(to)',
         ~raced /\ to \in {"down", "up"} => table'.full /\ leftover' = "none"
  PROVE  MigrationInv'
  <1>1. phase' \in [Starters -> Phases] /\ phase'[p] = to
        /\ \A q \in Starters \ {p} : phase'[q] = phase[q]
    BY DEF MigrationInv, Go
  <1>2. ~raced => \A q \in Starters \ {p} : phase[q] \in {"down", "up"}
    BY DEF MigrationInv, OneAtATime, Constructing
  <1>3. OneAtATime'
    BY <1>1, <1>2 DEF OneAtATime, Constructing
  <1>4. ~raced' => \A q \in Starters : Holds(phase[q])'
    BY <1>1, <1>2 DEF Holds, Late
  <1>5. (~raced' /\ \A q \in Starters : ~Constructing(q)') => table'.full /\ leftover' = "none"
    BY <1>1 DEF Constructing
  <1> QED BY <1>1, <1>3, <1>4, <1>5 DEF MigrationInv

LEMMA MigrationSteps ==
  ASSUME MigrationInv, NEW p \in Starters,
         RenameOld(p) \/ CreateNew(p) \/ CopyOld(p) \/ DropOld(p)
  PROVE  MigrationInv'
  <1> USE DEF MigrationStep
  <1>1. ~raced => Holds(phase[p])
    BY DEF MigrationInv
  <1>2. CASE RenameOld(p)
    <2> DEFINE ok == table.schema # "none" /\ leftover = "none"
    <2>1. Constructing(p) /\ Go(p, IF ok THEN "create" ELSE "down") /\ raced' = raced
      BY <1>2 DEF RenameOld, Constructing, After
    <2>2. /\ ok => table' = [schema |-> "none", full |-> FALSE]
                   /\ leftover' = IF table.full THEN "full" ELSE "empty"
          /\ ~ok => UNCHANGED <<table, leftover>>
      BY <1>2 DEF RenameOld
    <2>3. ~raced => ok /\ table.full
      BY <1>1, <1>2 DEF RenameOld, Holds
    <2>4. CASE ok
      <3>1. Go(p, "create") /\ "create" \in Phases /\ (~raced => Holds("create")')
        BY <2>1, <2>2, <2>3, <2>4 DEF Phases, Holds, Late, MigrationInv
      <3>2. table' \in Tables
        BY <2>2, <2>4, TableValues
      <3>3. leftover' \in {"none", "full", "empty"}
        BY <2>2, <2>4
      <3> QED BY <2>1, <3>1, <3>2, <3>3, Advances
    <2>5. CASE ~ok
      <3>1. Go(p, "down") /\ "down" \in Phases /\ raced
        BY <2>1, <2>3, <2>5 DEF Phases, MigrationInv
      <3>2. /\ table' \in Tables
            /\ leftover' \in {"none", "full", "empty"}
        BY <2>2, <2>5 DEF MigrationInv
      <3> QED BY <2>1, <3>1, <3>2, Advances
    <2> QED BY <2>4, <2>5
  <1>3. CASE CreateNew(p)
    <2> DEFINE ok == table.schema = "none"
    <2>1. Constructing(p) /\ Go(p, IF ok THEN "copy" ELSE "down") /\ raced' = raced
      BY <1>3 DEF CreateNew, Constructing, After
    <2>2. table' = (IF ok THEN [schema |-> "new", full |-> FALSE] ELSE table)
          /\ leftover' = leftover
      BY <1>3 DEF CreateNew
    <2>3. ~raced => ok /\ leftover = "full"
      BY <1>1, <1>3 DEF CreateNew, Holds
    <2>4. CASE ok
      <3>1. Go(p, "copy") /\ "copy" \in Phases /\ (~raced => Holds("copy")')
        BY <2>1, <2>2, <2>3, <2>4 DEF Phases, Holds, Late, MigrationInv
      <3>2. /\ table' \in Tables
            /\ leftover' \in {"none", "full", "empty"}
        BY <2>2, <2>4 DEF MigrationInv, Tables
      <3> QED BY <2>1, <3>1, <3>2, Advances
    <2>5. CASE ~ok
      <3>1. Go(p, "down") /\ "down" \in Phases /\ raced
        BY <2>1, <2>3, <2>5 DEF Phases, MigrationInv
      <3>2. /\ table' \in Tables
            /\ leftover' \in {"none", "full", "empty"}
        BY <2>2, <2>5 DEF MigrationInv
      <3> QED BY <2>1, <3>1, <3>2, Advances
    <2> QED BY <2>4, <2>5
  <1>4. CASE CopyOld(p)
    <2> DEFINE ok == leftover # "none" /\ table.schema # "none"
    <2>1. Constructing(p) /\ Go(p, IF ok THEN "drop" ELSE "down") /\ raced' = raced
      BY <1>4 DEF CopyOld, Constructing, After
    <2>2. table' = (IF ok /\ leftover = "full" THEN [table EXCEPT !.full = TRUE] ELSE table)
          /\ leftover' = leftover
      BY <1>4 DEF CopyOld
    <2>3. ~raced => ok /\ leftover = "full" /\ table.schema = "new"
      BY <1>1, <1>4 DEF CopyOld, Holds
    <2>4. CASE ok
      <3>1. Go(p, "drop") /\ "drop" \in Phases /\ (~raced => Holds("drop")')
        BY <2>1, <2>2, <2>3, <2>4 DEF Phases, Holds, Late, MigrationInv
      <3>2. /\ table' \in Tables
            /\ leftover' \in {"none", "full", "empty"}
        BY <2>2, <2>4 DEF MigrationInv, Tables
      <3> QED BY <2>1, <3>1, <3>2, Advances
    <2>5. CASE ~ok
      <3>1. Go(p, "down") /\ "down" \in Phases /\ raced
        BY <2>1, <2>3, <2>5 DEF Phases, MigrationInv
      <3>2. /\ table' \in Tables
            /\ leftover' \in {"none", "full", "empty"}
        BY <2>2, <2>5 DEF MigrationInv
      <3> QED BY <2>1, <3>1, <3>2, Advances
    <2> QED BY <2>4, <2>5
  <1>5. CASE DropOld(p)
    <2>1. Constructing(p) /\ Go(p, IF leftover # "none" THEN "select" ELSE "down")
          /\ raced' = raced
      BY <1>5 DEF DropOld, Constructing, After
    <2>2. table' = table /\ leftover' = "none"
      BY <1>5 DEF DropOld
    <2>3. ~raced => leftover # "none" /\ table.full /\ table.schema = "new"
      BY <1>1, <1>5 DEF DropOld, Holds
    <2> QED BY <2>1, <2>2, <2>3, Advances DEF MigrationInv, Phases, Late, Holds
  <1> QED BY <1>2, <1>3, <1>4, <1>5

\* The rest of the constructor finds the history in its new place.
LEMMA LateSteps ==
  ASSUME MigrationInv, NEW p \in Starters,
         SelectConfig(p) \/ InsertConfig(p) \/ EnsureProjects(p) \/ LookForSecret(p)
             \/ StoreSecret(p)
  PROVE  MigrationInv'
  <1>1. phase[p] \in Late /\ Constructing(p)
    BY DEF SelectConfig, InsertConfig, EnsureProjects, LookForSecret, StoreSecret, Late,
           Constructing
  <1>2. UNCHANGED <<table, leftover, raced>>
    BY DEF SelectConfig, InsertConfig, EnsureProjects, LookForSecret, StoreSecret, database
  <1>3. PICK to \in Late \cup {"down", "up"} : Go(p, to)
    BY DEF SelectConfig, InsertConfig, EnsureProjects, LookForSecret, StoreSecret, Late
  <1>4. ~raced => table.schema = "new" /\ table.full /\ leftover = "none"
    BY <1>1 DEF MigrationInv, Holds, Late
  <1>5. to \in Phases /\ (~raced => Holds(to)')
    BY <1>2, <1>4 DEF Phases, Late, Holds
  <1> QED BY <1>1, <1>2, <1>3, <1>4, <1>5, Advances DEF MigrationInv

\* A constructor that begins alone finds all of the history in the table.
LEMMA BeginStep ==
  ASSUME MigrationInv, NEW p \in Starters, CreateTables(p)
  PROVE  MigrationInv'
  <1>0. PICK to \in {"rename", "select"} : to = IF table.schema = "old" THEN "rename" ELSE "select"
    OBVIOUS
  <1>1. /\ phase[p] = "down" /\ Go(p, to) /\ leftover' = leftover
        /\ table' = IF table.schema = "none" THEN [table EXCEPT !.schema = "new"] ELSE table
        /\ raced' = (raced \/ \E q \in Starters : Constructing(q))
    BY <1>0 DEF CreateTables, After
  <1>2. /\ phase' \in [Starters -> Phases] /\ phase'[p] = to
        /\ \A q \in Starters \ {p} : phase'[q] = phase[q]
    BY <1>1 DEF MigrationInv, Go, Phases, Late
  <1>3. /\ table' \in Tables
        /\ raced' \in BOOLEAN /\ leftover' \in {"none", "full", "empty"}
    BY <1>1 DEF MigrationInv, Tables
  <1>4. ~raced' => /\ ~raced /\ table.full /\ leftover = "none"
                   /\ \A q \in Starters : phase[q] \in {"down", "up"}
    BY <1>1 DEF MigrationInv, Constructing
  <1>5. OneAtATime'
    BY <1>2, <1>4 DEF OneAtATime, Constructing
  <1>6. ~raced' => \A q \in Starters : Holds(phase[q])'
    <2>1. ~raced' => Holds(to)'
      BY <1>0, <1>1, <1>4 DEF Holds, Late, MigrationInv, Tables
    <2>2. ~raced' => \A q \in Starters \ {p} : Holds(phase[q])'
      BY <1>2, <1>4 DEF Holds, Late
    <2> QED BY <2>1, <2>2, <1>2
  <1>7. Constructing(p)'
    BY <1>2 DEF Constructing
  <1> QED BY <1>2, <1>3, <1>5, <1>6, <1>7 DEF MigrationInv

LEMMA MigrationDeath ==
  ASSUME MigrationInv, NEW p \in Starters, StarterDies(p)
  PROVE  MigrationInv'
  <1>1. /\ Go(p, "down") /\ UNCHANGED <<table, leftover>>
        /\ raced' = (raced \/ Constructing(p))
    BY DEF StarterDies, database
  <1>2. /\ phase' \in [Starters -> Phases] /\ phase'[p] = "down"
        /\ \A q \in Starters \ {p} : phase'[q] = phase[q]
    BY <1>1 DEF MigrationInv, Go, Phases
  <1>3. raced' \in BOOLEAN /\ (~raced' => ~raced /\ ~Constructing(p))
    BY <1>1 DEF MigrationInv, Constructing
  <1>4. OneAtATime'
    BY <1>2, <1>3 DEF MigrationInv, OneAtATime, Constructing
  <1>5. ~raced' => \A q \in Starters : Holds(phase[q])'
    BY <1>1, <1>2, <1>3 DEF MigrationInv, Holds, Late
  <1>6. (~raced' /\ \A q \in Starters : ~Constructing(q)') => table'.full /\ leftover' = "none"
    BY <1>1, <1>2, <1>3 DEF MigrationInv, Constructing
  <1> QED BY <1>1, <1>2, <1>3, <1>4, <1>5, <1>6 DEF MigrationInv

LEMMA MigrationStepInv ==
  ASSUME MigrationInv, [ControlNext]_controlVars
  PROVE  MigrationInv'
  <1>1. CASE UNCHANGED <<table, leftover, phase, raced>>
    BY <1>1 DEF MigrationInv, OneAtATime, Constructing, Holds
  <1>2. (SignIn \/ SetValues \/ ServeRequest \/ UNCHANGED controlVars)
           => UNCHANGED <<table, leftover, phase, raced>>
    BY DEF SignIn, SetValues, ServeRequest, controlVars, database
  <1>3. ASSUME NEW project \in Projects, SetProjectAgentConfig(project)
        PROVE  UNCHANGED <<table, leftover, phase, raced>>
    BY <1>3 DEF SetProjectAgentConfig, database
  <1>4. ASSUME NEW p \in Starters, NEW project \in Projects, GetProjectAgentConfig(p, project)
        PROVE  UNCHANGED <<table, leftover, phase, raced>>
    BY <1>4 DEF GetProjectAgentConfig
  <1> QED BY <1>1, <1>2, <1>3, <1>4, BeginStep, MigrationSteps, LateSteps, MigrationDeath
          DEF ControlNext, Construct

LEMMA MigrationInit == ControlInit => MigrationInv
  <1> SUFFICES ASSUME ControlInit PROVE MigrationInv
    OBVIOUS
  <1>1. /\ table \in {[schema |-> "none", full |-> TRUE], [schema |-> "old", full |-> TRUE]}
        /\ leftover = "none" /\ raced = FALSE
    BY DEF ControlInit
  <1>2. phase \in [Starters -> Phases] /\ \A p \in Starters : phase[p] = "down"
    BY DEF ControlInit, Phases
  <1>3. table.full
    BY <1>1
  <1>4. table \in Tables
    BY <1>1, TableValues
  <1>5. OneAtATime /\ \A p \in Starters : Holds(phase[p])
    BY <1>2 DEF OneAtATime, Constructing, Holds, Late
  <1> QED BY <1>1, <1>2, <1>3, <1>4, <1>5 DEF MigrationInv

\* The run history of an earlier release is carried over, whatever else the
\* starters do, unless its migration is raced or interrupted.
THEOREM HistoryCarriedOver == ControlSpec => []HistoryIsCarriedOver
  <1>1. MigrationInv => HistoryIsCarriedOver
    BY DEF MigrationInv, HistoryIsCarriedOver
  <1> QED BY <1>1, MigrationInit, MigrationStepInv, PTL DEF ControlSpec

-----------------------------------------------------------------------------
(* Sessions *)

SecretInv ==
    /\ minted \in Nat /\ secret \in Nat /\ 0 \notin cookies
    /\ \A p \in Starters : phase[p] = "up" => secret # 0
    /\ cookies # {} => secret # 0
    /\ ~raced => /\ cookies \subseteq {secret}
                 /\ \A p \in Starters : phase[p] = "store" => secret = 0

\* The secret stays, the sessions stay, and nobody is up who was not.
LEMMA SecretStays ==
  ASSUME SecretInv, UNCHANGED <<minted, secret, cookies>>, raced => raced',
         \A p \in Starters : phase'[p] = phase[p] \/ phase'[p] \notin {"up", "store"}
  PROVE  SecretInv'
  BY DEF SecretInv

LEMMA SecretSteps ==
  ASSUME SecretInv, MigrationInv, NEW p \in Starters, LookForSecret(p) \/ StoreSecret(p)
  PROVE  SecretInv'
  <1>1. raced' = raced /\ cookies' = cookies
    BY DEF LookForSecret, StoreSecret
  <1>2. CASE LookForSecret(p)
    <2>1. /\ UNCHANGED <<minted, secret>>
          /\ Go(p, IF secret # 0 THEN "up" ELSE "store")
      BY <1>2 DEF LookForSecret, HasSecret, database
    <2>2. \A q \in Starters :
             phase'[q] = IF q = p THEN (IF secret # 0 THEN "up" ELSE "store") ELSE phase[q]
      BY <2>1 DEF Go, MigrationInv
    <2> QED BY <1>1, <2>1, <2>2 DEF SecretInv
  <1>3. CASE StoreSecret(p)
    <2>1. minted' = minted + 1 /\ secret' = minted' /\ phase[p] = "store" /\ Go(p, "up")
      BY <1>3 DEF StoreSecret
    <2>2. \A q \in Starters : phase'[q] = IF q = p THEN "up" ELSE phase[q]
      BY <2>1 DEF Go, MigrationInv
    <2>3. minted' \in Nat /\ secret' \in Nat /\ secret' # 0
      BY <2>1 DEF SecretInv
    <2>4. ~raced => cookies = {}
      BY <2>1 DEF SecretInv
    <2>5. ~raced => \A q \in Starters : phase'[q] # "store"
      BY <2>1, <2>2 DEF MigrationInv, OneAtATime, Constructing
    <2> QED BY <1>1, <2>3, <2>4, <2>5 DEF SecretInv
  <1> QED BY <1>2, <1>3

LEMMA SecretStep ==
  ASSUME SecretInv, MigrationInv, [ControlNext]_controlVars
  PROVE  SecretInv'
  <1>1. ASSUME NEW p \in Starters, Construct(p), ~LookForSecret(p), ~StoreSecret(p)
        PROVE  SecretInv'
    <2>1. UNCHANGED <<minted, secret, cookies>>
      BY <1>1 DEF Construct, CreateTables, RenameOld, CreateNew, CopyOld, DropOld,
           MigrationStep, SelectConfig, InsertConfig, EnsureProjects, database
    <2>2. raced => raced'
      <3>1. CASE CreateTables(p)
        BY <3>1 DEF CreateTables
      <3>2. CASE ~CreateTables(p)
        BY <1>1, <3>2 DEF Construct, RenameOld, CreateNew, CopyOld, DropOld,
             MigrationStep, SelectConfig, InsertConfig, EnsureProjects
      <3> QED BY <3>1, <3>2
    <2>3. PICK to \in Phases \ {"up", "store"} : Go(p, to)
      BY <1>1 DEF Construct, CreateTables, RenameOld, CreateNew, CopyOld, DropOld,
           MigrationStep, SelectConfig, InsertConfig, EnsureProjects, After, Phases, Late
    <2>4. \A q \in Starters : phase'[q] = phase[q] \/ phase'[q] \notin {"up", "store"}
      BY <2>3 DEF Go, MigrationInv
    <2> QED BY <2>1, <2>2, <2>4, SecretStays
  <1>2. ASSUME NEW p \in Starters, StarterDies(p) PROVE SecretInv'
    <2>1. UNCHANGED <<minted, secret, cookies>> /\ (raced => raced') /\ Go(p, "down")
      BY <1>2 DEF StarterDies, database
    <2>2. \A q \in Starters : phase'[q] = phase[q] \/ phase'[q] \notin {"up", "store"}
      BY <2>1 DEF Go, MigrationInv
    <2> QED BY <2>1, <2>2, SecretStays
  <1>3. CASE SignIn
    <2>1. phase[Web] = "up" /\ cookies' = cookies \cup {secret}
          /\ UNCHANGED <<minted, secret, phase, raced>>
      BY <1>3 DEF SignIn, Idle
    <2>2. secret # 0
      BY <2>1, ControlPlaneAssumption DEF SecretInv
    <2> QED BY <2>1, <2>2 DEF SecretInv
  <1>4. CASE UNCHANGED <<minted, secret, cookies, phase, raced>>
    BY <1>4, SecretStays
  <1>5. (SetValues \/ ServeRequest \/ UNCHANGED controlVars)
           => UNCHANGED <<minted, secret, cookies, phase, raced>>
    BY DEF SetValues, ServeRequest, controlVars, database
  <1>6. ASSUME NEW project \in Projects, SetProjectAgentConfig(project)
        PROVE  UNCHANGED <<minted, secret, cookies, phase, raced>>
    BY <1>6 DEF SetProjectAgentConfig, database
  <1>7. ASSUME NEW p \in Starters, NEW project \in Projects, GetProjectAgentConfig(p, project)
        PROVE  UNCHANGED <<minted, secret, cookies, phase, raced>>
    BY <1>7 DEF GetProjectAgentConfig
  <1> QED BY <1>1, <1>2, <1>3, <1>4, <1>5, <1>6, <1>7, SecretSteps DEF ControlNext

\* Sessions stay signed in across restarts, unless two constructors were at
\* work at once or one was interrupted.
THEOREM SessionsStaySigned == ControlSpec => []SessionsSurvive
  <1>1. ControlInit => SecretInv
    BY DEF ControlInit, SecretInv
  <1>2. SecretInv => SessionsSurvive
    BY DEF SecretInv, SessionsSurvive
  <1> QED BY <1>1, <1>2, MigrationInit, MigrationStepInv, SecretStep, PTL DEF ControlSpec

-----------------------------------------------------------------------------
(* Bot identity *)

AskingSteps == {"rest", "prime", "persist", "fallback", "live", "cached", "unavailable"}
IsAsking(c) == asking[c] \notin {Resting, Priming}

\* Callers that overlap are known to; one that is about to answer that there is no
\* name is right, or is not alone.
IdentityInv ==
    /\ asking \in [Callers -> [step : AskingSteps, user : Users \cup {"nobody"}]]
    /\ token \in Users /\ persisted \in Users \cup {"nobody"}
    /\ \A c, d \in Callers : c # d /\ IsAsking(c) /\ IsAsking(d) => overlapped
    /\ \A c \in Callers :
          asking[c].step = "unavailable" => persisted = "nobody" \/ overlapped

LEMMA IdentityStart == IdentityInit => IdentityInv
  BY DEF IdentityInit, IdentityInv, AskingSteps, IsAsking, Resting, Priming

LEMMA IdentityStep == IdentityInv /\ [IdentityNext]_identityVars => IdentityInv'
  <1> SUFFICES ASSUME IdentityInv, [IdentityNext]_identityVars PROVE IdentityInv'
    OBVIOUS
  <1>1. ASSUME NEW c \in Callers, NEW step \in AskingSteps, NEW user \in Users \cup {"nobody"},
               Ask(c, step, user), UNCHANGED token,
               persisted' \in Users \cup {"nobody"}, overlapped => overlapped',
               persisted' # persisted => IsAsking(c),
               step = "unavailable" => persisted' = "nobody",
               \/ (step = "rest" /\ user = "nobody") \/ IsAsking(c)
               \/ \A d \in Callers \ {c} : IsAsking(d) => overlapped'
        PROVE  IdentityInv'
    <2>1. /\ asking'[c] = [step |-> step, user |-> user]
          /\ \A d \in Callers \ {c} : asking'[d] = asking[d]
      BY <1>1 DEF Ask, IdentityInv
    <2>2. asking' \in [Callers -> [step : AskingSteps, user : Users \cup {"nobody"}]]
      BY <1>1 DEF Ask, IdentityInv
    <2>3. step = "rest" /\ user = "nobody" => ~IsAsking(c)'
      BY <2>1 DEF IsAsking, Resting
    <2>4. \A d \in Callers \ {c} : IsAsking(d)' = IsAsking(d)
      BY <2>1 DEF IsAsking
    <2>5. \A d, e \in Callers : d # e /\ IsAsking(d)' /\ IsAsking(e)' => overlapped'
      BY <1>1, <2>3, <2>4 DEF IdentityInv
    <2>6. \A d \in Callers : asking[d].step = "unavailable" => IsAsking(d)
      BY DEF IsAsking, Resting, Priming
    <2>7. \A d \in Callers :
             asking'[d].step = "unavailable" => persisted' = "nobody" \/ overlapped'
      BY <1>1, <2>1, <2>6 DEF IdentityInv
    <2> QED
      BY <1>1, <2>2, <2>5, <2>7 DEF IdentityInv
  <1>2. ASSUME NEW c \in Callers, Fetch(c) PROVE IdentityInv'
    <2>1. PICK step \in {"persist", "fallback"}, user \in Users \cup {"nobody"} : Ask(c, step, user)
      BY <1>2 DEF Fetch, IdentityInv
    <2> QED
      BY <1>1, <1>2, <2>1 DEF Fetch, IsAsking, AskingSteps, IdentityInv
  <1>3. ASSUME NEW c \in Callers, Persist(c) PROVE IdentityInv'
    <2>1. asking[c].user \in Users \cup {"nobody"} /\ IsAsking(c)
      BY <1>3 DEF Persist, IdentityInv, IsAsking, Resting, Priming
    <2> QED
      BY <1>1, <1>3, <2>1 DEF Persist, AskingSteps
  <1>4. ASSUME NEW c \in Callers, LoadPersisted(c) PROVE IdentityInv'
    <2>1. IsAsking(c)
      BY <1>4 DEF LoadPersisted, IsAsking, Resting, Priming
    <2>2. PICK step \in {"unavailable", "cached"} :
             Ask(c, step, persisted) /\ (step = "unavailable" => persisted = "nobody")
      BY <1>4 DEF LoadPersisted, Fallback
    <2> QED
      BY <1>1, <1>4, <2>1, <2>2 DEF LoadPersisted, AskingSteps, IdentityInv
  <1>5. ASSUME NEW c \in Callers, CacheResolution(c) PROVE IdentityInv'
    BY <1>1, <1>5 DEF CacheResolution, AskingSteps, IdentityInv
  <1>6. CASE UNCHANGED <<persisted, asking, overlapped>> /\ token' \in Users
    BY <1>6 DEF IdentityInv, IsAsking
  <1>7. CASE CacheExpires \/ ChangeToken \/ GitLabChanges \/ UNCHANGED identityVars
    BY <1>6, <1>7 DEF CacheExpires, ChangeToken, GitLabChanges, identityVars, IdentityInv
  <1> QED
    BY <1>2, <1>3, <1>4, <1>5, <1>7 DEF IdentityNext, Resolve

\* For any number of callers: the minute without a name begins only before the
\* name was ever learned, or when answers overlap (gitlab/identity.py:74-168).
THEOREM DeafnessNeedsOverlap == IdentitySpec => DeafOnlyByOverlap
  <1>1. IdentityInv /\ [IdentityNext]_identityVars =>
           (cache # Unavailable /\ cache' = Unavailable => persisted = "nobody" \/ overlapped)
    <2> SUFFICES ASSUME IdentityInv, [IdentityNext]_identityVars,
                        cache # Unavailable, cache' = Unavailable
                 PROVE  persisted = "nobody" \/ overlapped
      OBVIOUS
    <2>1. PICK c \in Callers : CacheResolution(c)
      BY DEF IdentityNext, identityVars, Resolve, Fetch, Persist, LoadPersisted, CacheExpires,
             ChangeToken, GitLabChanges, Empty, Unavailable
    <2>2. asking[c].step = "unavailable"
      BY <2>1 DEF CacheResolution, Unavailable
    <2> QED
      BY <2>2 DEF IdentityInv
  <1> QED
    BY IdentityStart, IdentityStep, <1>1, PTL DEF IdentitySpec, DeafOnlyByOverlap

-----------------------------------------------------------------------------
(* Calls of agents *)

\* For any number of sub-agents: once termination is requested no agent begins
\* another turn, and none is called anew (runtime/termination.py:60-104).
THEOREM StopMeansNoTurn == CallSpec => NoTurnAfterStop
  <1>1. [CallNext]_callVars => (wanted => \A a \in Agents : turns'[a] = turns[a])
    <2> SUFFICES ASSUME [CallNext]_callVars, wanted PROVE UNCHANGED turns
      OBVIOUS
    <2>1. ASSUME NEW a \in Agents, CallStep(a) PROVE UNCHANGED turns
      BY <2>1 DEF CallStep, Stops, BeginTurn, StopsHere, ModelIsOut, RetryModel, ModelFails,
                  ModelTalks, ModelAnswers, RunTool
    <2> QED
      BY <2>1 DEF CallNext, CallSpecialists, StopsHere, RequestStop, callVars
  <1> QED
    BY <1>1, PTL DEF CallSpec, NoTurnAfterStop

-----------------------------------------------------------------------------
(* The repo_analyst sub-agent *)

RunSteps == {"idle", "read", "env", "open", "ask", "unpatch", "unenv", "done"}
Patched == {"open", "ask", "unpatch"}
Results == {"none", "error", "answer", "default", "placeholder"}
RunRecord == [at : RunSteps, env : Nat, library : {"own", "patched"}, custom : BOOLEAN,
              turn : Nat, final : BOOLEAN, result : Results]

\* A run that is not mixed is alone while it is within, and the process is as it
\* patched it; while no run is mixed, each has saved the process as it started.
AnalystTyped ==
    /\ threads \in [Threads -> RunRecord]
    /\ env \in Nat /\ library \in {"own", "patched"}
    /\ config \in Nat /\ custom \in BOOLEAN
UnmixedIsAlone ==
    \A t, u \in Threads : t # u /\ t \notin mixed /\ Within(t) => ~Within(u)
UnmixedIsPatched ==
    \A t \in Threads \ mixed :
       /\ threads[t].at \in Patched => library = "patched"
       /\ threads[t].result # "placeholder"
PatchesNest ==
    mixed = {} =>
       /\ (\A t \in Threads : ~Within(t)) => env = 0 /\ library = "own"
       /\ \A t \in Threads :
             /\ Within(t) => threads[t].env = 0
             /\ threads[t].at \in {"env", "unenv"} => library = "own"
             /\ threads[t].at \in Patched => threads[t].library = "own"
AnalystInv == AnalystTyped /\ UnmixedIsAlone /\ UnmixedIsPatched /\ PatchesNest

LEMMA AnalystStart == AnalystInit => AnalystInv
  BY DEF AnalystInit, AnalystInv, AnalystTyped, UnmixedIsAlone, UnmixedIsPatched, PatchesNest,
         RunRecord, RunSteps, Results, Patched, NotRunning, Within

\* A step of one run in the library: what it saved stays, and so does the process.
LEMMA InLibrary ==
  ASSUME AnalystInv, NEW t \in Threads, UNCHANGED <<env, library, config, custom, mixed>>,
         NEW r \in RunRecord, threads' = [threads EXCEPT ![t] = r],
         threads[t].at \in {"open", "ask"}, r.at \in {"ask", "unpatch"},
         r.env = threads[t].env, r.library = threads[t].library,
         t \notin mixed => r.result # "placeholder"
  PROVE  AnalystInv'
  <1>1. threads'[t] = r /\ \A u \in Threads \ {t} : threads'[u] = threads[u]
    BY DEF AnalystInv, AnalystTyped
  <1>2. threads' \in [Threads -> RunRecord]
    BY DEF AnalystInv, AnalystTyped
  <1>3. \A u \in Threads : Within(u)' = Within(u)
    BY <1>1 DEF Within
  <1>4. UnmixedIsAlone'
    BY <1>3 DEF AnalystInv, UnmixedIsAlone
  <1>5. UnmixedIsPatched'
    BY <1>1 DEF AnalystInv, UnmixedIsPatched, Patched
  <1>6. PatchesNest'
    BY <1>1, <1>3 DEF AnalystInv, PatchesNest, Patched
  <1> QED
    BY <1>2, <1>4, <1>5, <1>6 DEF AnalystInv, AnalystTyped

\* Whoever enters beside another mixes both.
LEMMA Entering ==
  ASSUME AnalystInv, NEW t \in Threads, EnterEnvironment(t)
  PROVE  AnalystInv'
  <1> DEFINE others == {u \in Threads \ {t} : Within(u)}
  <1> DEFINE r == [threads[t] EXCEPT !.at = "env", !.env = env, !.custom = custom]
  <1>1. threads[t] \in RunRecord /\ threads[t].at = "read"
    BY DEF EnterEnvironment, AnalystInv, AnalystTyped
  <1>2. /\ r \in RunRecord /\ r.at = "env" /\ r.env = env
        /\ r.library = threads[t].library /\ r.result = threads[t].result
    BY <1>1 DEF RunRecord, RunSteps, AnalystInv, AnalystTyped
  <1>3. threads' = [threads EXCEPT ![t] = r]
    BY <1>1 DEF EnterEnvironment, AnalystInv, AnalystTyped, RunRecord
  <1> HIDE DEF r
  <1>4. threads'[t] = r /\ \A u \in Threads \ {t} : threads'[u] = threads[u]
    BY <1>3 DEF AnalystInv, AnalystTyped
  <1>5. /\ env' = config /\ UNCHANGED <<library, config, custom>>
        /\ mixed' = mixed \cup (IF others = {} THEN {} ELSE others \cup {t})
    BY DEF EnterEnvironment
  <1>6. AnalystTyped'
    BY <1>2, <1>3, <1>5 DEF AnalystInv, AnalystTyped
  <1>7. /\ ~Within(t) /\ Within(t)'
        /\ \A u \in Threads \ {t} : Within(u)' = Within(u)
    BY <1>1, <1>2, <1>4 DEF Within
  <1>8. \A u \in Threads \ mixed' : u \notin mixed /\ (u = t \/ Within(t)' => ~Within(u) \/ u = t)
    BY <1>5
  <1>9. UnmixedIsAlone'
    <2> SUFFICES ASSUME NEW u \in Threads, NEW v \in Threads, u # v, u \notin mixed',
                        Within(u)', Within(v)'
                 PROVE  FALSE
      BY DEF UnmixedIsAlone
    <2>1. u \notin mixed
      BY <1>5
    <2>2. others # {} => u \notin others /\ u # t
      BY <1>5
    <2>3. others = {}
      BY <2>2, <1>7
    <2> QED
      BY <2>1, <2>3, <1>7 DEF AnalystInv, UnmixedIsAlone
  <1>10. UnmixedIsPatched'
    BY <1>2, <1>4, <1>5 DEF AnalystInv, UnmixedIsPatched, Patched
  <1>11. PatchesNest'
    <2> SUFFICES ASSUME mixed' = {} PROVE PatchesNest'
      BY DEF PatchesNest
    <2>1. mixed = {} /\ others = {}
      BY <1>5
    <2>2. \A u \in Threads : ~Within(u)
      BY <2>1, <1>7
    <2>3. env = 0 /\ library = "own"
      BY <2>1, <2>2 DEF AnalystInv, PatchesNest
    <2>4. \A u \in Threads \ {t} : threads[u].at \notin Patched \cup {"env", "unenv"}
      BY <2>2 DEF Within, Patched
    <2> QED
      BY <2>1, <2>2, <2>3, <2>4, <1>2, <1>4, <1>5, <1>7 DEF PatchesNest, Patched
  <1> QED
    BY <1>6, <1>9, <1>10, <1>11 DEF AnalystInv

\* The steps that save or restore: only the run's own place changes.
LEMMA Around ==
  ASSUME AnalystInv, NEW t \in Threads,
         ReadRepository(t) \/ EnterPatch(t) \/ LeavePatch(t) \/ LeaveEnvironment(t)
  PROVE  AnalystInv'
  <1>1. threads[t] \in RunRecord
    BY DEF AnalystInv, AnalystTyped
  <1>2. PICK r \in RunRecord :
           /\ threads' = [threads EXCEPT ![t] = r]
           /\ r.env = threads[t].env
           /\ r.result # threads[t].result => r.result = "error"
           /\ ReadRepository(t) => threads[t].at = "idle" /\ r.at \in {"read", "done"}
           /\ EnterPatch(t) => threads[t].at = "env" /\ r.at = "open" /\ r.library = library
           /\ LeavePatch(t) => threads[t].at = "unpatch" /\ r.at = "unenv"
           /\ LeaveEnvironment(t) => threads[t].at = "unenv" /\ r.at = "done"
    <2> DEFINE Moved(at, result, lib) ==
                 threads' = [threads EXCEPT ![t] =
                   [threads[t] EXCEPT !.at = at, !.result = result, !.library = lib]]
    <2> HIDE DEF Moved
    <2>1. ASSUME NEW at \in RunSteps, NEW result \in Results, NEW lib \in {"own", "patched"},
                 Moved(at, result, lib)
          PROVE  \E r \in RunRecord :
                    /\ threads' = [threads EXCEPT ![t] = r]
                    /\ r.env = threads[t].env /\ r.at = at /\ r.result = result
                    /\ r.library = lib
      <3> DEFINE r == [threads[t] EXCEPT !.at = at, !.result = result, !.library = lib]
      <3>1. /\ r \in RunRecord /\ r.env = threads[t].env /\ r.at = at
            /\ r.result = result /\ r.library = lib
        BY <1>1 DEF RunRecord
      <3>2. threads' = [threads EXCEPT ![t] = r]
        BY <2>1 DEF Moved
      <3> HIDE DEF r
      <3> QED
        BY <3>1, <3>2
    <2>0. threads[t].result \in Results /\ threads[t].library \in {"own", "patched"}
          /\ library \in {"own", "patched"}
      BY <1>1 DEF RunRecord, AnalystInv, AnalystTyped
    <2>2. CASE ReadRepository(t)
      <3>1. PICK at \in {"read", "done"}, result \in {threads[t].result, "error"} :
               Moved(at, result, threads[t].library)
        BY <1>1, <2>2 DEF ReadRepository, AnalystInv, AnalystTyped, RunRecord, Moved
      <3>2. PICK r \in RunRecord :
               /\ threads' = [threads EXCEPT ![t] = r]
               /\ r.env = threads[t].env /\ r.at = at /\ r.result = result
               /\ r.library = threads[t].library
        BY <2>0, <2>1, <3>1 DEF RunSteps, Results
      <3> QED
        BY <2>2, <3>1, <3>2 DEF ReadRepository, EnterPatch, LeavePatch, LeaveEnvironment
    <2>3. CASE EnterPatch(t)
      <3>1. Moved("open", threads[t].result, library)
        BY <1>1, <2>3 DEF EnterPatch, AnalystInv, AnalystTyped, RunRecord, Moved
      <3>2. PICK r \in RunRecord :
               /\ threads' = [threads EXCEPT ![t] = r]
               /\ r.env = threads[t].env /\ r.at = "open" /\ r.result = threads[t].result
               /\ r.library = library
        BY <2>0, <2>1, <3>1 DEF RunSteps, Results
      <3> QED
        BY <2>3, <3>1, <3>2 DEF ReadRepository, EnterPatch, LeavePatch, LeaveEnvironment
    <2>4. CASE LeavePatch(t)
      <3>1. Moved("unenv", threads[t].result, threads[t].library)
        BY <1>1, <2>4 DEF LeavePatch, AnalystInv, AnalystTyped, RunRecord, Moved
      <3>2. PICK r \in RunRecord :
               /\ threads' = [threads EXCEPT ![t] = r]
               /\ r.env = threads[t].env /\ r.at = "unenv" /\ r.result = threads[t].result
               /\ r.library = threads[t].library
        BY <2>0, <2>1, <3>1 DEF RunSteps, Results
      <3> QED
        BY <2>4, <3>1, <3>2 DEF ReadRepository, EnterPatch, LeavePatch, LeaveEnvironment
    <2>5. CASE LeaveEnvironment(t)
      <3>1. Moved("done", threads[t].result, threads[t].library)
        BY <1>1, <2>5 DEF LeaveEnvironment, AnalystInv, AnalystTyped, RunRecord, Moved
      <3>2. PICK r \in RunRecord :
               /\ threads' = [threads EXCEPT ![t] = r]
               /\ r.env = threads[t].env /\ r.at = "done" /\ r.result = threads[t].result
               /\ r.library = threads[t].library
        BY <2>0, <2>1, <3>1 DEF RunSteps, Results
      <3> QED
        BY <2>5, <3>1, <3>2 DEF ReadRepository, EnterPatch, LeavePatch, LeaveEnvironment
    <2> QED
      BY <2>2, <2>3, <2>4, <2>5
  <1>3. threads'[t] = r /\ \A u \in Threads \ {t} : threads'[u] = threads[u]
    BY <1>2 DEF AnalystInv, AnalystTyped
  <1>4. /\ mixed' = mixed /\ config' = config /\ custom' = custom
        /\ ReadRepository(t) => UNCHANGED <<env, library>>
        /\ EnterPatch(t) => env' = env /\ library' = "patched"
        /\ LeavePatch(t) => env' = env /\ library' = threads[t].library
        /\ LeaveEnvironment(t) => env' = threads[t].env /\ library' = library
    BY DEF ReadRepository, EnterPatch, LeavePatch, LeaveEnvironment
  <1>5. threads' \in [Threads -> RunRecord]
    BY <1>2 DEF AnalystInv, AnalystTyped
  <1>6. AnalystTyped'
    BY <1>1, <1>4, <1>5 DEF AnalystInv, AnalystTyped, RunRecord
  <1>7. /\ \A u \in Threads \ {t} : Within(u)' = Within(u)
        /\ Within(t)' => Within(t)
        /\ Within(t)' # Within(t) => LeaveEnvironment(t)
    BY <1>2, <1>3 DEF Within
  <1>8. UnmixedIsAlone'
    BY <1>4, <1>7 DEF AnalystInv, UnmixedIsAlone
  <1>9. Within(t) => \A u \in Threads \ {t} : Within(u) => u \in mixed
    BY DEF AnalystInv, UnmixedIsAlone
  <1>10. \A u \in Threads : threads[u].at \in Patched \cup {"env", "unenv"} => Within(u)
    BY DEF Within, Patched
  <1>11. UnmixedIsPatched'
    <2>1. \A u \in Threads \ {t} : u \notin mixed => 
             /\ threads'[u].at \in Patched => library' = "patched"
             /\ threads'[u].result # "placeholder"
      BY <1>2, <1>3, <1>4, <1>9, <1>10 DEF AnalystInv, UnmixedIsPatched, Within
    <2>2. t \notin mixed =>
             /\ r.at \in Patched => library' = "patched"
             /\ r.result # "placeholder"
      BY <1>2, <1>4 DEF AnalystInv, UnmixedIsPatched, Patched
    <2> QED
      BY <1>3, <1>4, <2>1, <2>2 DEF UnmixedIsPatched
  <1>12. PatchesNest'
    <2> SUFFICES ASSUME mixed = {} PROVE PatchesNest'
      BY <1>4 DEF PatchesNest
    <2>1. /\ (\A u \in Threads : ~Within(u)) => env = 0 /\ library = "own"
          /\ \A u \in Threads :
                /\ Within(u) => threads[u].env = 0
                /\ threads[u].at \in {"env", "unenv"} => library = "own"
                /\ threads[u].at \in Patched => threads[u].library = "own"
      BY DEF AnalystInv, PatchesNest
    <2>2. CASE ReadRepository(t)
      <3>1. ~Within(t) /\ ~Within(t)' /\ r.at \notin Patched \cup {"env", "unenv"}
        BY <1>2, <1>3, <2>2 DEF Within, Patched
      <3> QED
        BY <1>3, <1>4, <1>7, <2>1, <2>2, <3>1 DEF PatchesNest
    <2>3. CASE ~ReadRepository(t)
      <3>1. Within(t) /\ threads[t].env = 0
        BY <1>2, <2>1, <2>3 DEF Within
      <3>2. \A u \in Threads \ {t} : ~Within(u) /\ ~Within(u)'
        BY <1>7, <1>9, <3>1
      <3>3. \A u \in Threads \ {t} : threads'[u].at \notin Patched \cup {"env", "unenv"}
        BY <1>3, <1>10, <3>2
      <3>4. /\ r.at \in {"env", "unenv"} => library' = "own"
            /\ r.at \in Patched => r.library = "own"
            /\ ~Within(t)' => env' = 0 /\ library' = "own"
        BY <1>2, <1>3, <1>4, <2>1, <2>3 DEF Patched, Within
      <3> QED
        BY <1>2, <1>3, <3>1, <3>2, <3>3, <3>4 DEF PatchesNest
    <2> QED
      BY <2>2, <2>3
  <1> QED
    BY <1>6, <1>8, <1>11, <1>12 DEF AnalystInv

LEMMA AnalystStep == AnalystInv /\ [AnalystNext]_analystVars => AnalystInv'
  <1> SUFFICES ASSUME AnalystInv, [AnalystNext]_analystVars PROVE AnalystInv'
    OBVIOUS
  <1>0. ASSUME NEW t \in Threads, OpenClient(t) \/ RunCode(t) \/ GiveAnswer(t) \/ LastAnswer(t)
                 \/ RunRaises(t)
        PROVE  AnalystInv'
    <2>1. threads[t] \in RunRecord /\ threads[t].at \in {"open", "ask"}
      BY <1>0 DEF AnalystInv, AnalystTyped, OpenClient, RunCode, GiveAnswer, LastAnswer, RunRaises,
                  Asking
    <2>2. UNCHANGED <<env, library, config, custom, mixed>>
      BY <1>0 DEF OpenClient, RunCode, GiveAnswer, LastAnswer, RunRaises
    <2>3. ASSUME NEW result \in Results, Finishes(t, result),
                 t \notin mixed => result # "placeholder"
          PROVE  AnalystInv'
      <3> DEFINE r == [threads[t] EXCEPT !.at = "unpatch", !.result = result]
      <3>1. /\ r \in RunRecord /\ r.env = threads[t].env /\ r.library = threads[t].library
            /\ r.at = "unpatch" /\ r.result = result
        BY <2>1 DEF RunRecord, RunSteps
      <3>2. threads' = [threads EXCEPT ![t] = r]
        BY <2>1, <2>3 DEF Finishes, RunRecord, AnalystInv, AnalystTyped
      <3> HIDE DEF r
      <3> QED
        BY <2>1, <2>2, <2>3, <3>1, <3>2, InLibrary
    <2> DEFINE Asked(turn, final) ==
                 threads' = [threads EXCEPT ![t] =
                    [threads[t] EXCEPT !.at = "ask", !.turn = turn, !.final = final]]
    <2> HIDE DEF Asked
    <2>4. ASSUME NEW turn \in Nat, NEW final \in BOOLEAN, Asked(turn, final)
          PROVE  AnalystInv'
      <3> DEFINE r == [threads[t] EXCEPT !.at = "ask", !.turn = turn, !.final = final]
      <3>1. /\ r \in RunRecord /\ r.env = threads[t].env /\ r.library = threads[t].library
            /\ r.at = "ask" /\ r.result = threads[t].result
        BY <2>1 DEF RunRecord, RunSteps
      <3>2. threads' = [threads EXCEPT ![t] = r]
        BY <2>4 DEF Asked
      <3>3. t \notin mixed => r.result # "placeholder"
        BY <3>1 DEF AnalystInv, UnmixedIsPatched
      <3> HIDE DEF r
      <3> QED
        BY <2>1, <2>2, <3>1, <3>2, <3>3, InLibrary
    <2>5. threads[t].turn \in Nat /\ threads[t].final \in BOOLEAN
      BY <2>1 DEF RunRecord
    <2>6. ASSUME NEW final \in BOOLEAN, threads[t].at = "ask", Again(t, final) PROVE AnalystInv'
      <3>1. Asked(threads[t].turn + 1, final)
        BY <2>1, <2>6 DEF Asked, Again, RunRecord, AnalystInv, AnalystTyped
      <3> QED
        BY <2>4, <2>5, <3>1
    <2>7. CASE OpenClient(t)
      <3>1. CASE Finishes(t, "error")
        BY <2>3, <3>1 DEF Results
      <3>2. CASE threads' = [threads EXCEPT ![t].at = "ask"]
        <4>1. Asked(threads[t].turn, threads[t].final)
          BY <2>1, <3>2 DEF Asked, RunRecord, AnalystInv, AnalystTyped
        <4> QED
          BY <2>4, <2>5, <4>1
      <3> QED
        BY <2>7, <3>1, <3>2 DEF OpenClient
    <2>8. CASE RunCode(t)
      <3>1. PICK sets \in BOOLEAN : Again(t, threads[t].final \/ sets)
        BY <2>8 DEF RunCode
      <3>2. threads[t].at = "ask" /\ (threads[t].final \/ sets) \in BOOLEAN
        BY <2>5, <2>8 DEF RunCode, Asking
      <3> QED
        BY <2>6, <3>1, <3>2
    <2>9. CASE GiveAnswer(t)
      <3>1. threads[t].at = "ask"
        BY <2>9 DEF GiveAnswer, Asking
      <3>2. Placeholder(t) \in {"placeholder", "answer", "again"}
        BY DEF Placeholder
      <3>3. t \notin mixed => Placeholder(t) # "placeholder"
        BY <3>1 DEF Placeholder, AnalystInv, UnmixedIsPatched, Patched
      <3>4. \/ Finishes(t, "answer") \/ Again(t, FALSE)
            \/ Placeholder(t) # "again" /\ Finishes(t, Placeholder(t))
        BY <2>9 DEF GiveAnswer
      <3> QED
        BY <2>3, <2>6, <3>1, <3>2, <3>3, <3>4 DEF Results
    <2>10. CASE LastAnswer(t)
      BY <2>3, <2>10 DEF LastAnswer, Results
    <2>11. CASE RunRaises(t)
      BY <2>3, <2>11 DEF RunRaises, Results
    <2> QED
      BY <1>0, <2>7, <2>8, <2>9, <2>10, <2>11
  <1>1. CASE Reconfigure
    BY <1>1 DEF Reconfigure, AnalystInv, AnalystTyped, UnmixedIsAlone, UnmixedIsPatched,
                PatchesNest, Within
  <1>2. CASE UNCHANGED analystVars
    BY <1>2 DEF analystVars, AnalystInv, AnalystTyped, UnmixedIsAlone, UnmixedIsPatched,
                PatchesNest, Within
  <1> QED
    BY <1>0, <1>1, <1>2, Entering, Around DEF AnalystNext

\* For any number of threads: runs that never overlap leave the process as they
\* found it, and only one that did returns a placeholder (rlm/subagent.py:1018-1110).
THEOREM AloneIsSafe == AnalystSpec => []AloneIsHarmless
  <1>1. AnalystInv => AloneIsHarmless
    BY DEF AnalystInv, UnmixedIsPatched, PatchesNest, AloneIsHarmless, Patched
  <1> QED
    BY <1>1, AnalystStart, AnalystStep, PTL DEF AnalystSpec

-----------------------------------------------------------------------------
(* Sandboxes *)

SandboxTyped ==
    /\ disk \in [Sandboxes -> {"none", "broken", "unnamed", "ready"}]
    /\ container \in [Names -> Sandboxes \cup {Nobody}]
    /\ handle \in [Sandboxes -> {"none"} \cup Modes]
    /\ mode \in Modes
    /\ trees \in [Sandboxes -> SUBSET Runs]
    /\ active \in [Sandboxes -> SUBSET Runs]
    /\ sweep \in Sandboxes \cup {Nobody}

\* A handle is of the mode the worker lives in; a clone that was cut short stays
\* on record; what is found in local mode is from before the mode changed.
Traced(s) ==
    /\ handle[s] \in {"none", mode}
    /\ handle[s] = "none" => active[s] = {}
    /\ disk[s] \in {"unnamed", "broken"} => s \in cut
    /\ handle[s] # "none" /\ disk[s] = "none" => s \in swept
    /\ mode = "local" /\ container[Name[s]] = s => s \in stray
    /\ container[Name[s]] = s /\ disk[s] = "none" => s \in stray \cup cut
Usable(s) ==
    handle[s] # "none" =>
       /\ handle[s] = "docker" =>
             \/ container[Name[s]] = s \/ s \in swept
             \/ \E u \in Sandboxes \ {s} : Name[u] = Name[s]
       /\ active[s] \subseteq trees[s] \/ s \in swept
SandboxInv == SandboxTyped /\ \A s \in Sandboxes : Traced(s) /\ Usable(s)

LEMMA SandboxStart == SandboxInit => SandboxInv
  BY SandboxAssumption DEF SandboxInit, SandboxInv, SandboxTyped, Traced, Usable, Modes, Names

\* A sandbox that a step does not touch, nor the container of its name.
LEMMA Untouched ==
  ASSUME SandboxInv, NEW s \in Sandboxes, mode' = mode,
         disk'[s] = disk[s], handle'[s] = handle[s], trees'[s] = trees[s],
         active'[s] = active[s],
         container'[Name[s]] = container[Name[s]]
           \/ (container'[Name[s]] # s /\ \E u \in Sandboxes \ {s} : Name[u] = Name[s]),
         s \in cut => s \in cut', s \in stray => s \in stray', s \in swept => s \in swept'
  PROVE  Traced(s)' /\ Usable(s)'
  BY DEF SandboxInv, Traced, Usable

LEMMA ContainerOf ==
  ASSUME SandboxInv, NEW s \in Sandboxes, NEW owner \in Sandboxes \cup {Nobody},
         owner = s \/ owner = Nobody,
         container' = [container EXCEPT ![Name[s]] = owner]
  PROVE  /\ container' \in [Names -> Sandboxes \cup {Nobody}]
         /\ container'[Name[s]] = owner
         /\ \A u \in Sandboxes \ {s} :
               container'[Name[u]] = container[Name[u]]
                 \/ (container'[Name[u]] # u /\ \E v \in Sandboxes \ {u} : Name[v] = Name[u])
  BY SandboxAssumption DEF SandboxInv, SandboxTyped, Names

LEMMA Providing ==
  ASSUME SandboxInv, NEW s \in Sandboxes, container' = Provided(s)
  PROVE  /\ container' \in [Names -> Sandboxes \cup {Nobody}]
         /\ container'[Name[s]] = IF mode = "docker" THEN s ELSE container[Name[s]]
         /\ \A u \in Sandboxes \ {s} :
               container'[Name[u]] = container[Name[u]]
                 \/ (container'[Name[u]] # u /\ \E v \in Sandboxes \ {u} : Name[v] = Name[u])
  <1>1. CASE mode = "docker"
    BY <1>1, ContainerOf DEF Provided
  <1>2. CASE mode # "docker"
    BY <1>2 DEF Provided, SandboxInv, SandboxTyped
  <1> QED
    BY <1>1, <1>2

LEMMA Discarding ==
  ASSUME SandboxInv, NEW s \in Sandboxes, NEW h, Discard(s, h)
  PROVE  /\ container' \in [Names -> Sandboxes \cup {Nobody}]
         /\ container'[Name[s]] = IF RemovesContainer(h) THEN Nobody ELSE container[Name[s]]
         /\ \A u \in Sandboxes \ {s} :
               container'[Name[u]] = container[Name[u]]
                 \/ (container'[Name[u]] # u /\ \E v \in Sandboxes \ {u} : Name[v] = Name[u])
         /\ disk'[s] = "none" /\ trees'[s] = {}
         /\ \A u \in Sandboxes \ {s} : disk'[u] = disk[u] /\ trees'[u] = trees[u]
         /\ disk' \in [Sandboxes -> {"none", "broken", "unnamed", "ready"}]
         /\ trees' \in [Sandboxes -> SUBSET Runs]
  <1>1. CASE RemovesContainer(h)
    <2>1. container' = [container EXCEPT ![Name[s]] = Nobody]
      BY <1>1 DEF Discard
    <2>2. /\ container' \in [Names -> Sandboxes \cup {Nobody}] /\ container'[Name[s]] = Nobody
          /\ \A u \in Sandboxes \ {s} :
                container'[Name[u]] = container[Name[u]]
                  \/ (container'[Name[u]] # u /\ \E v \in Sandboxes \ {u} : Name[v] = Name[u])
      BY <2>1, ContainerOf
    <2> QED
      BY <1>1, <2>2 DEF Discard, SandboxInv, SandboxTyped
  <1>2. CASE ~RemovesContainer(h)
    BY <1>2 DEF Discard, SandboxInv, SandboxTyped
  <1> QED
    BY <1>1, <1>2

LEMMA SettingUp ==
  ASSUME SandboxInv, NEW s \in Sandboxes, SetUp(s)
  PROVE  SandboxInv'
  <1>1. /\ handle[s] = "none" /\ disk[s] # "broken" /\ mode' = mode
        /\ active' = active /\ trees' = trees /\ sweep' = sweep
        /\ cut' = cut /\ stray' = stray /\ swept' = swept
        /\ container' = Provided(s)
        /\ disk' = [disk EXCEPT ![s] = Becomes(@)]
        /\ handle' = [handle EXCEPT ![s] = mode]
    BY DEF SetUp, history
  <1>2. /\ disk'[s] = Becomes(disk[s]) /\ handle'[s] = mode
        /\ \A u \in Sandboxes \ {s} : disk'[u] = disk[u] /\ handle'[u] = handle[u]
    BY <1>1 DEF SandboxInv, SandboxTyped
  <1>3. Becomes(disk[s]) \in {"unnamed", "ready"}
    BY <1>1 DEF Becomes, SandboxInv, SandboxTyped
  <1>4. SandboxTyped'
    BY <1>1, <1>2, <1>3, Providing DEF SandboxInv, SandboxTyped, Modes
  <1>5. \A u \in Sandboxes \ {s} : Traced(u)' /\ Usable(u)'
    <2> TAKE u \in Sandboxes \ {s}
    <2>1. u \in Sandboxes /\ disk'[u] = disk[u] /\ handle'[u] = handle[u]
      BY <1>2
    <2>2. container'[Name[u]] = container[Name[u]]
            \/ (container'[Name[u]] # u /\ \E v \in Sandboxes \ {u} : Name[v] = Name[u])
      BY <1>1, Providing
    <2> QED
      BY <1>1, <2>1, <2>2, Untouched
  <1>6. Traced(s) /\ Usable(s) /\ mode \in Modes
    BY DEF SandboxInv, SandboxTyped
  <1>7. container'[Name[s]] = IF mode = "docker" THEN s ELSE container[Name[s]]
    BY <1>1, Providing
  <1>8. Traced(s)'
    BY <1>1, <1>2, <1>3, <1>6, <1>7 DEF Traced, Becomes, Modes
  <1>9. Usable(s)'
    BY <1>1, <1>2, <1>3, <1>6, <1>7 DEF Traced, Usable, Modes
  <1> QED
    BY <1>4, <1>5, <1>8, <1>9 DEF SandboxInv

LEMMA SettingUpIsCut ==
  ASSUME SandboxInv, NEW s \in Sandboxes, SetUpIsCut(s)
  PROVE  SandboxInv'
  <1>1. /\ handle[s] = "none" /\ mode' = mode /\ trees' = trees /\ sweep' = sweep
        /\ cut' = cut \cup {s} /\ stray' = stray /\ container' = Provided(s)
    BY DEF SetUpIsCut
  <1>2. PICK dies \in BOOLEAN :
           /\ IF dies THEN Reset ELSE UNCHANGED <<handle, active, swept>>
           /\ IF disk[s] = "none"
              THEN \E d \in {"none", "unnamed", "ready"} \cup (IF dies THEN {"broken"} ELSE {}) :
                      disk' = [disk EXCEPT ![s] = d]
              ELSE UNCHANGED disk
    BY DEF SetUpIsCut
  <1>3. PICK d \in {"none", "broken", "unnamed", "ready"} : disk' = [disk EXCEPT ![s] = d]
    <2>1. CASE disk[s] = "none"
      BY <1>2, <2>1
    <2>2. CASE disk[s] # "none"
      <3>1. disk' = [disk EXCEPT ![s] = disk[s]]
        BY <1>2, <2>2 DEF SandboxInv, SandboxTyped
      <3>2. disk[s] \in {"none", "broken", "unnamed", "ready"}
        BY DEF SandboxInv, SandboxTyped
      <3> QED
        BY <3>1, <3>2
    <2> QED
      BY <2>1, <2>2
  <1>4. \A u \in Sandboxes \ {s} : disk'[u] = disk[u]
    BY <1>3 DEF SandboxInv, SandboxTyped
  <1>5. Traced(s) /\ mode \in Modes
    BY DEF SandboxInv, SandboxTyped
  <1>6. container'[Name[s]] = IF mode = "docker" THEN s ELSE container[Name[s]]
    BY <1>1, Providing
  <1>7. disk' \in [Sandboxes -> {"none", "broken", "unnamed", "ready"}]
        /\ container' \in [Names -> Sandboxes \cup {Nobody}]
    BY <1>1, <1>3, Providing DEF SandboxInv, SandboxTyped
  <1>8. CASE ~dies
    <2>1. handle' = handle /\ active' = active /\ swept' = swept
      BY <1>2, <1>8
    <2>2. SandboxTyped'
      BY <1>1, <1>7, <2>1 DEF SandboxInv, SandboxTyped
    <2>3. \A u \in Sandboxes \ {s} : Traced(u)' /\ Usable(u)'
      <3> TAKE u \in Sandboxes \ {s}
      <3>1. container'[Name[u]] = container[Name[u]]
              \/ (container'[Name[u]] # u /\ \E v \in Sandboxes \ {u} : Name[v] = Name[u])
        BY <1>1, Providing
      <3>2. u \in Sandboxes
        OBVIOUS
      <3> QED
        BY <1>1, <1>4, <2>1, <3>1, <3>2, Untouched
    <2>4. Traced(s)' /\ Usable(s)'
      BY <1>1, <1>5, <1>6, <2>1 DEF Traced, Usable, Modes
    <2> QED
      BY <2>2, <2>3, <2>4 DEF SandboxInv
  <1>9. CASE dies
    <2>1. /\ handle' = [u \in Sandboxes |-> "none"] /\ active' = [u \in Sandboxes |-> {}]
          /\ swept' = {}
      BY <1>2, <1>9 DEF Reset
    <2>2. SandboxTyped'
      BY <1>1, <1>7, <2>1 DEF SandboxInv, SandboxTyped
    <2>3. \A u \in Sandboxes \ {s} : Traced(u)' /\ Usable(u)'
      <3> TAKE u \in Sandboxes \ {s}
      <3>1. container'[Name[u]] = u => container[Name[u]] = u
        BY <1>1, Providing
      <3>2. Traced(u)
        BY DEF SandboxInv
      <3> QED
        BY <1>1, <1>4, <2>1, <3>1, <3>2 DEF Traced, Usable
    <2>4. Traced(s)' /\ Usable(s)'
      BY <1>1, <1>5, <1>6, <2>1 DEF Traced, Usable, Modes
    <2> QED
      BY <2>2, <2>3, <2>4 DEF SandboxInv
  <1> QED
    BY <1>8, <1>9

LEMMA CleaningUp ==
  ASSUME SandboxInv, NEW s \in Sandboxes, CleanUp(s)
  PROVE  SandboxInv'
  <1>1. /\ active[s] = {} /\ mode' = mode /\ active' = active /\ sweep' = sweep
        /\ cut' = cut \ {s} /\ stray' = stray /\ swept' = swept
        /\ Discard(s, handle[s]) /\ handle' = [handle EXCEPT ![s] = "none"]
    BY DEF CleanUp, Forgotten
  <1>2. /\ handle'[s] = "none" /\ \A u \in Sandboxes \ {s} : handle'[u] = handle[u]
    BY <1>1 DEF SandboxInv, SandboxTyped
  <1>3. SandboxTyped'
    BY <1>1, Discarding DEF SandboxInv, SandboxTyped
  <1>4. \A u \in Sandboxes \ {s} : Traced(u)' /\ Usable(u)'
    <2> TAKE u \in Sandboxes \ {s}
    <2>1. /\ container'[Name[u]] = container[Name[u]]
               \/ (container'[Name[u]] # u /\ \E v \in Sandboxes \ {u} : Name[v] = Name[u])
          /\ disk'[u] = disk[u] /\ trees'[u] = trees[u]
      BY <1>1, Discarding
    <2>2. u \in Sandboxes /\ (u \in cut => u \in cut')
      BY <1>1
    <2> QED
      BY <1>1, <1>2, <2>1, <2>2, Untouched
  <1>5. /\ disk'[s] = "none"
        /\ container'[Name[s]] = IF RemovesContainer(handle[s]) THEN Nobody ELSE container[Name[s]]
    BY <1>1, Discarding
  <1>6. Traced(s) /\ mode \in Modes
    BY DEF SandboxInv, SandboxTyped
  <1>7. ~RemovesContainer(handle[s]) => mode = "local"
    BY <1>6 DEF RemovesContainer, Traced, Modes
  <1>8. Traced(s)' /\ Usable(s)'
    BY <1>1, <1>2, <1>5, <1>6, <1>7, SandboxAssumption DEF Traced, Usable
  <1> QED
    BY <1>3, <1>4, <1>8 DEF SandboxInv

LEMMA Sweeping ==
  ASSUME SandboxInv, SweepRemoves
  PROVE  SandboxInv'
  <1>1. /\ sweep \in Sandboxes /\ mode' = mode /\ active' = active /\ sweep' = Nobody
        /\ cut' = cut \ {sweep} /\ stray' = stray /\ handle' = handle
        /\ swept' = swept \cup (IF handle[sweep] = "none" THEN {} ELSE {sweep})
        /\ Discard(sweep, "none")
    BY DEF SweepRemoves, SandboxInv, SandboxTyped
  <1> DEFINE s == sweep
  <1> s \in Sandboxes
    BY <1>1
  <1>2. SandboxTyped'
    BY <1>1, Discarding DEF SandboxInv, SandboxTyped
  <1>3. \A u \in Sandboxes \ {s} : Traced(u)' /\ Usable(u)'
    <2> TAKE u \in Sandboxes \ {s}
    <2>1. /\ container'[Name[u]] = container[Name[u]]
               \/ (container'[Name[u]] # u /\ \E v \in Sandboxes \ {u} : Name[v] = Name[u])
          /\ disk'[u] = disk[u] /\ trees'[u] = trees[u]
      BY <1>1, Discarding
    <2>2. u \in Sandboxes /\ (u \in cut => u \in cut') /\ (u \in swept => u \in swept')
      BY <1>1
    <2> QED
      BY <1>1, <2>1, <2>2, Untouched
  <1>4. /\ disk'[s] = "none" 
        /\ container'[Name[s]] = IF RemovesContainer("none") THEN Nobody ELSE container[Name[s]]
    BY <1>1, Discarding
  <1>5. Traced(s) /\ mode \in Modes
    BY DEF SandboxInv, SandboxTyped
  <1>6. ~RemovesContainer("none") => mode = "local"
    BY <1>5 DEF RemovesContainer, Modes
  <1>7. \A u : u = s => Traced(u)' /\ Usable(u)'
    BY <1>1, <1>4, <1>5, <1>6, SandboxAssumption DEF Traced, Usable
  <1> QED
    BY <1>2, <1>3, <1>7 DEF SandboxInv

LEMMA SandboxStep == SandboxInv /\ [SandboxNext]_sandboxVars => SandboxInv'
  <1> SUFFICES ASSUME SandboxInv, [SandboxNext]_sandboxVars PROVE SandboxInv'
    OBVIOUS
  <1>1. ASSUME NEW s \in Sandboxes, BeginRun(s) PROVE SandboxInv'
    <2>1. /\ UNCHANGED <<disk, container, handle, mode, sweep, cut, stray, swept>>
          /\ handle[s] # "none"
      BY <1>1 DEF BeginRun, history
    <2>2. PICK r \in Runs :
             /\ trees' = [trees EXCEPT ![s] = @ \cup {r}]
             /\ active' = [active EXCEPT ![s] = {r}]
      BY <1>1 DEF BeginRun
    <2>3. /\ trees' \in [Sandboxes -> SUBSET Runs] /\ active' \in [Sandboxes -> SUBSET Runs]
          /\ active'[s] \subseteq trees'[s]
          /\ \A u \in Sandboxes \ {s} : trees'[u] = trees[u] /\ active'[u] = active[u]
      BY <2>2 DEF SandboxInv, SandboxTyped
    <2> QED
      BY <2>1, <2>3 DEF SandboxInv, SandboxTyped, Traced, Usable
  <1>2. ASSUME NEW s \in Sandboxes, EndRun(s) PROVE SandboxInv'
    <2>1. /\ UNCHANGED <<disk, container, handle, mode, sweep, cut, stray, swept>>
          /\ trees' = [trees EXCEPT ![s] = @ \ active[s]]
          /\ active' = [active EXCEPT ![s] = {}]
      BY <1>2 DEF EndRun, history
    <2>2. /\ trees' \in [Sandboxes -> SUBSET Runs] /\ active' \in [Sandboxes -> SUBSET Runs]
          /\ active'[s] = {}
          /\ \A u \in Sandboxes \ {s} : trees'[u] = trees[u] /\ active'[u] = active[u]
      BY <2>1 DEF SandboxInv, SandboxTyped
    <2> QED
      BY <2>1, <2>2 DEF SandboxInv, SandboxTyped, Traced, Usable
  <1>3. CASE UNCHANGED <<disk, container, handle, mode, trees, active, history>>
             /\ sweep' \in Sandboxes \cup {Nobody}
    BY <1>3 DEF history, SandboxInv, SandboxTyped, Traced, Usable
  <1>4. ASSUME NEW s \in Sandboxes, SweepLooks(s) \/ Close(s) \/ Reopen(s) PROVE SandboxInv'
    BY <1>3, <1>4 DEF SweepLooks, Close, Reopen, SandboxInv, SandboxTyped
  <1>5. CASE RestartWorker
    <2>1. /\ UNCHANGED <<disk, container, trees, sweep, cut>> /\ mode' \in Modes
          /\ handle' = [u \in Sandboxes |-> "none"] /\ active' = [u \in Sandboxes |-> {}]
          /\ swept' = {}
          /\ stray' = stray \cup (IF mode' = mode THEN {}
                                  ELSE {s \in Sandboxes : container[Name[s]] = s})
      BY <1>5 DEF RestartWorker, Reset
    <2>2. SandboxTyped'
      BY <2>1 DEF SandboxInv, SandboxTyped
    <2>3. \A s \in Sandboxes : Traced(s)' /\ Usable(s)'
      BY <2>1 DEF SandboxInv, Traced, Usable
    <2> QED
      BY <2>2, <2>3 DEF SandboxInv
  <1>6. CASE UNCHANGED sandboxVars
    BY <1>6 DEF sandboxVars, SandboxInv, SandboxTyped, Traced, Usable
  <1> QED
    BY <1>1, <1>2, <1>4, <1>5, <1>6, SettingUp, SettingUpIsCut, CleaningUp, Sweeping
       DEF SandboxNext

\* For any number of sandboxes, worktrees and deaths of the worker, whatever names
\* the containers get: a handle can be worked with (sandbox/manager.py:514-586).
THEOREM SandboxesWork == SandboxSpec => []HandlesWork
  <1>1. SandboxInv => HandlesWork
    BY DEF SandboxInv, SandboxTyped, Traced, Usable, HandlesWork
  <1> QED
    BY <1>1, SandboxStart, SandboxStep, PTL DEF SandboxSpec

\* And a container goes with its sandbox, unless SANDBOX_TYPE changed while it was
\* there or its setup failed (manager.py:571).
THEOREM ContainersGo == SandboxSpec => []ContainersGoToo
  <1>1. SandboxInv => ContainersGoToo
    BY DEF SandboxInv, Traced, ContainersGoToo
  <1> QED
    BY <1>1, SandboxStart, SandboxStep, PTL DEF SandboxSpec

=============================================================================
