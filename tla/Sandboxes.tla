------------------------------ MODULE Sandboxes ------------------------------
(***************************************************************************)
(* Sandboxes of merge requests and audits: a directory with a clone, a         *)
(* container that mounts it, a handle in the worker (SANDBOX_CACHE), and the    *)
(* temporary worktrees of its runs.  setup_sandbox and cleanup_sandbox do not   *)
(* await, so each is one step of the worker, unless it raises or the worker     *)
(* dies within it; the maintenance sweep is a process beside the worker.        *)
(*                                                                          *)
(* One actor, so one run at a time, per sandbox.  The project cache is only the *)
(* source of a clone here.                                                  *)
(***************************************************************************)
EXTENDS FiniteSets, Naturals

CONSTANTS
    Sandboxes,  \* thread ids
    Audits,     \* those of daily audits: no merge request, never cleaned up
    Name,       \* _docker_container_name: cut after 24 characters
    Runs,       \* bound: worktree names
    Nobody,
    MaxMishaps, \* bound: deaths of the worker, and exceptions in a setup
    MaxCloses   \* bound: times a merge request is closed

Modes == {"docker", "local"}
Names == {Name[s] : s \in Sandboxes}
ASSUME SandboxAssumption ==
    /\ IsFiniteSet(Sandboxes) /\ Audits \subseteq Sandboxes /\ Nobody \notin Sandboxes
    /\ {MaxMishaps, MaxCloses} \subseteq Nat

VARIABLES
    disk,      \* the clone: "none", "broken" (cut short), "unnamed", "ready"
    container, \* whose directory the container of a name mounts
    handle,    \* the worker's handle: "none" or the mode it was made in
    mode,      \* SANDBOX_TYPE, frozen for the life of the worker
    trees,     \* worktrees of each sandbox
    active,    \* runs in each sandbox
    closed,    \* the merge request is closed
    due,       \* its cleanup event is queued
    sweep,     \* the sandbox the sweep is about to remove
    mishaps, closes,
    cut,       \* History: sandboxes in whose setup something went wrong,
    stray,     \* that had a container when the mode changed,
    swept      \* that were swept while the worker had a handle

sandboxVars == <<disk, container, handle, mode, trees, active, closed, due, sweep,
                 mishaps, closes, cut, stray, swept>>
history == <<cut, stray, swept>>

SandboxInit ==
    /\ disk = [s \in Sandboxes |-> "none"] /\ container = [n \in Names |-> Nobody]
    /\ handle = [s \in Sandboxes |-> "none"] /\ mode \in Modes
    /\ trees = [s \in Sandboxes |-> {}] /\ active = [s \in Sandboxes |-> {}]
    /\ closed = [s \in Sandboxes |-> FALSE] /\ due = [s \in Sandboxes |-> FALSE]
    /\ sweep = Nobody /\ mishaps = 0 /\ closes = 0
    /\ cut = {} /\ stray = {} /\ swept = {}

Mishap == mishaps < MaxMishaps /\ mishaps' = mishaps + 1
Reset ==
    /\ handle' = [s \in Sandboxes |-> "none"] /\ active' = [s \in Sandboxes |-> {}]
    /\ swept' = {}

-----------------------------------------------------------------------------
(* Setting up *)

\* _ensure_docker_container: a container of that name is kept if it mounts this
\* directory, and replaced if it mounts another.
Provided(s) == IF mode = "docker" THEN [container EXCEPT ![Name[s]] = s] ELSE container

\* What setup leaves: a directory with .git is only refreshed.
Becomes(d) == IF d = "none" THEN "ready" ELSE d

\* No handle: a clone on disk is adopted after a refresh, else a new one is made.
SetUp(s) ==
    /\ handle[s] = "none" /\ ~closed[s] /\ disk[s] # "broken"
    /\ container' = Provided(s)
    /\ disk' = [disk EXCEPT ![s] = Becomes(@)]
    /\ handle' = [handle EXCEPT ![s] = mode]
    /\ UNCHANGED <<mode, trees, active, closed, due, sweep, mishaps, closes, history>>

\* It raises or the worker dies on the way: in the cache or the clone, which git
\* takes away unless it is killed; at the checkout of a branch the cache does not
\* have, or before the identity; in the refresh.
SetUpIsCut(s) ==
    /\ handle[s] = "none" /\ ~closed[s] /\ Mishap
    /\ container' = Provided(s)
    /\ \E dies \in BOOLEAN :
          /\ IF dies THEN Reset ELSE UNCHANGED <<handle, active, swept>>
          /\ IF disk[s] = "none"
             THEN \E d \in {"none", "unnamed", "ready"} \cup (IF dies THEN {"broken"} ELSE {}) :
                     disk' = [disk EXCEPT ![s] = d]
             ELSE UNCHANGED disk
    /\ cut' = cut \cup {s}
    /\ UNCHANGED <<mode, trees, closed, due, sweep, closes, stray>>

\* A run in a sandbox with a handle: the refresh needs the directory.
BeginRun(s) ==
    /\ handle[s] # "none" /\ disk[s] # "none" /\ active[s] = {} /\ ~closed[s]
    /\ \E r \in Runs \ trees[s] :
          /\ trees' = [trees EXCEPT ![s] = @ \cup {r}]
          /\ active' = [active EXCEPT ![s] = {r}]
    /\ UNCHANGED <<disk, container, handle, mode, closed, due, sweep, mishaps, closes,
                   history>>

EndRun(s) ==
    /\ active[s] # {}
    /\ trees' = [trees EXCEPT ![s] = @ \ active[s]]
    /\ active' = [active EXCEPT ![s] = {}]
    /\ UNCHANGED <<disk, container, handle, mode, closed, due, sweep, mishaps, closes,
                   history>>

-----------------------------------------------------------------------------
(* Cleaning up *)

\* cleanup_sandbox in a process that holds the handle h: the container goes by its
\* name if the handle, or without one the configuration, says docker.
\* Mutant: without a handle only the directory is removed.
MutantRemovesContainer(h) == h = "docker"
RemovesContainer(h) == IF h = "none" THEN mode = "docker" ELSE h = "docker"
Discard(s, h) ==
    /\ container' = IF RemovesContainer(h) THEN [container EXCEPT ![Name[s]] = Nobody]
                    ELSE container
    /\ disk' = [disk EXCEPT ![s] = "none"]
    /\ trees' = [trees EXCEPT ![s] = {}]

\* Mutant: the handle stays in the cache.
MutantForgotten(s) == handle
Forgotten(s) == [handle EXCEPT ![s] = "none"]
CleanUp(s) ==
    /\ due[s] /\ active[s] = {}
    /\ Discard(s, handle[s])
    /\ handle' = Forgotten(s)
    /\ due' = [due EXCEPT ![s] = FALSE]
    /\ cut' = cut \ {s}
    /\ UNCHANGED <<mode, active, closed, sweep, mishaps, closes, stray, swept>>

\* cleanup_historical_mr_sandboxes: the actor is idle, then the merge request is
\* closed, then the sandbox goes; the handle is in another process.
SweepLooks(s) ==
    /\ sweep = Nobody /\ s \notin Audits
    /\ disk[s] # "none" /\ active[s] = {} /\ ~due[s] /\ closed[s]
    /\ sweep' = s
    /\ UNCHANGED <<disk, container, handle, mode, trees, active, closed, due, mishaps,
                   closes, history>>
SweepRemoves ==
    /\ sweep # Nobody
    /\ Discard(sweep, "none")
    /\ swept' = swept \cup (IF handle[sweep] = "none" THEN {} ELSE {sweep})
    /\ sweep' = Nobody /\ cut' = cut \ {sweep}
    /\ UNCHANGED <<handle, mode, active, closed, due, mishaps, closes, stray>>

-----------------------------------------------------------------------------
(* The others *)

\* The cleanup event of a close may be dropped as one seen before.
Close(s) ==
    /\ s \notin Audits /\ ~closed[s] /\ closes < MaxCloses /\ closes' = closes + 1
    /\ closed' = [closed EXCEPT ![s] = TRUE]
    /\ \E queued \in BOOLEAN : due' = [due EXCEPT ![s] = @ \/ queued]
    /\ UNCHANGED <<disk, container, handle, mode, trees, active, sweep, mishaps, history>>
Reopen(s) ==
    /\ closed[s] /\ closed' = [closed EXCEPT ![s] = FALSE]
    /\ UNCHANGED <<disk, container, handle, mode, trees, active, due, sweep, mishaps,
                   closes, history>>

\* The worker dies or is restarted, and comes back with the configured mode.
RestartWorker ==
    /\ Mishap /\ Reset /\ mode' \in Modes
    /\ stray' = stray \cup (IF mode' = mode THEN {}
                            ELSE {s \in Sandboxes : container[Name[s]] = s})
    /\ UNCHANGED <<disk, container, trees, closed, due, sweep, closes, cut>>

SandboxNext ==
    \/ \E s \in Sandboxes :
          \/ SetUp(s) \/ SetUpIsCut(s) \/ BeginRun(s) \/ EndRun(s)
          \/ CleanUp(s) \/ SweepLooks(s) \/ Close(s) \/ Reopen(s)
    \/ SweepRemoves \/ RestartWorker

SandboxSpec == SandboxInit /\ [][SandboxNext]_sandboxVars

-----------------------------------------------------------------------------
(* Properties *)

\* A handle can be worked with: its clone can commit, its directory is there, its
\* container mounts that directory, and the worktrees of its runs are there.
\* What breaks it: a setup that was cut between the clone and the identity
\* (manager.py:543), whose clone is adopted as it is for good; the sweep beside a
\* reopened merge request (sandbox_cleanup.py:151); two audits whose project
\* names agree in 24 characters (manager.py:259).
HandlesWork ==
    \A s \in Sandboxes : handle[s] # "none" =>
       /\ disk[s] = "ready" \/ s \in cut \cup swept
       /\ handle[s] = "docker" =>
             \/ container[Name[s]] = s \/ s \in swept
             \/ \E u \in Sandboxes \ {s} : Name[u] = Name[s]
       /\ active[s] \subseteq trees[s] \/ s \in swept

\* A container whose sandbox is gone was left by a change of SANDBOX_TYPE or by a
\* setup that failed (manager.py:571).
ContainersGoToo ==
    \A s \in Sandboxes :
       container[Name[s]] = s /\ disk[s] = "none" => s \in stray \cup cut
=============================================================================
