---------------------------- MODULE RunnerDaemon ----------------------------
(***************************************************************************)
(* The daemon of src/runner_daemon/mod.rs: the loop that reserves a permit *)
(* and polls GitLab for a job, the task it spawns per job with its         *)
(* concurrency slot, workspace registration and workspace, the background  *)
(* eviction of unused workspaces, and the shutdown that drains the tasks.  *)
(*                                                                         *)
(* The actors are the loop, one task per job, the eviction tasks and the   *)
(* signal handler.  An action is the code between two points where another *)
(* actor can run: an await, or the lock of a shared map.                   *)
(***************************************************************************)
EXTENDS Integers, FiniteSets

CONSTANTS
    Jobs,               \* the jobs GitLab will hand out, each at most once
    Projects,           \* the GitLab projects they belong to
    ProjectOf,          \* Jobs -> Projects
    ProtectionOf,       \* what GitLab says of the ref: git_info.protected
    Concurrent,         \* `concurrent` of the config
    KeepWorkspaces,     \* workspace_max_age_days > 0
    Leftover,           \* workspaces an earlier run of the runner kept
    Evictors            \* eviction tasks that may overlap (a bound)

Protection == {"protected", "unprotected", "unknown"}

ASSUME DaemonAssumption ==
    /\ Concurrent \in Nat \ {0}
    /\ ProjectOf \in [Jobs -> Projects]
    /\ ProtectionOf \in [Jobs -> Protection]
    /\ KeepWorkspaces \in BOOLEAN

VARIABLES
    loop,               \* where the daemon loop is
    permits,            \* free permits of the semaphore
    shutdown,           \* the watch channel the signal handler writes
    pc,                 \* where each job is: at GitLab, then in its task
    slot,               \* the ids `acquire` gave the job
    runnerIds,          \* ConcurrencySlots.runner
    projectIds,         \* ConcurrencySlots.projects
    inUse,              \* workspaces_in_use
    evictionDue,        \* last_eviction is at least EVICTION_INTERVAL ago
    present,            \* workspaces on disk
    stale,              \* those not used for workspace_max_age_days
    leftBy,             \* <<w, j>>: the workspace w holds files of job j
    epc,                \* where each eviction task is
    seen,               \* the copy of inUse it works with
    todo,               \* the directories it has still to look at
    victim,             \* the directory it found too old, if any
    before              \* history: the jobs registered when it copied inUse

loopVars  == <<loop, permits, shutdown>>
slotVars  == <<slot, runnerIds, projectIds>>
diskVars  == <<present, stale, leftBy>>
evictVars == <<epc, seen, todo, victim, before>>
vars == <<loopVars, pc, slotVars, inUse, evictionDue, diskVars, evictVars>>

-----------------------------------------------------------------------------
(* A job at GitLab, then the steps of execute_job and run_job. *)
AtGitLab  == {"pending", "lost", "rejected"}
HasSlot   == {"slotted", "registered", "made", "running", "ran", "cleaned",
              "reporting"}
HasPermit == HasSlot \cup {"spawned", "released"}
Registers == {"registered", "made", "running", "ran", "cleaned"}

Holders     == {j \in Jobs : pc[j] \in HasPermit}
SlotOwners  == {j \in Jobs : pc[j] \in HasSlot}
Registered  == {j \in Jobs : pc[j] \in Registers}

(* Mutants of lowest_free: the number of ids, and one above the largest. *)
LowestFree_Count(used) == Cardinality(used)
LowestFree_Above(used) ==
    IF used = {} THEN 0 ELSE 1 + (CHOOSE m \in used : \A k \in used : k <= m)

(* ConcurrencySlots::lowest_free: the first number not in the set. *)
LowestFree(used) ==
    CHOOSE i \in 0..Cardinality(used) :
        i \notin used /\ \A k \in 0..(i - 1) : k \in used

NoSlot == [runner |-> 0, project |-> 0]

(* Mutants of workspace: without the slot, and without the protection. *)
Workspace_NoSlot(j) ==
    IF ProtectionOf[j] = "unknown"
      THEN <<"job", j>>
      ELSE <<"project", ProjectOf[j], 0, ProtectionOf[j]>>
Workspace_NoProtection(j) ==
    IF ProtectionOf[j] = "unknown"
      THEN <<"job", j>>
      ELSE <<"project", ProjectOf[j], slot[j].project, "any">>

(* executor::workspace: the directory name, and whether it may be reused. *)
Workspace(j) ==
    IF ProtectionOf[j] = "unknown"
      THEN <<"job", j>>
      ELSE <<"project", ProjectOf[j], slot[j].project, ProtectionOf[j]>>

Reusable(j) == ProtectionOf[j] # "unknown"

None == <<"none">>

Init ==
    /\ loop = "Wait"
    /\ permits = Concurrent
    /\ shutdown = "Running"
    /\ pc = [j \in Jobs |-> "pending"]
    /\ slot = [j \in Jobs |-> NoSlot]
    /\ runnerIds = {}
    /\ projectIds = [p \in Projects |-> {}]
    /\ inUse = {}
    /\ evictionDue = KeepWorkspaces
    /\ present = Leftover
    /\ stale = {}
    /\ leftBy = {}
    /\ epc = [e \in Evictors |-> "none"]
    /\ seen = [e \in Evictors |-> {}]
    /\ todo = [e \in Evictors |-> {}]
    /\ victim = [e \in Evictors |-> None]
    /\ before = [e \in Evictors |-> {}]

-----------------------------------------------------------------------------
(* The daemon loop: RunnerDaemon::start. *)

Rank == [Running |-> 0, Graceful |-> 1, Abort |-> 2]

(* ShutdownHandle::request: SIGQUIT asks for Graceful, SIGTERM for Abort. *)
RequestShutdown(mode) ==
    /\ Rank[mode] > Rank[shutdown]
    /\ shutdown' = mode
    /\ UNCHANGED <<loop, permits, pc, slotVars, inUse, evictionDue, diskVars,
                   evictVars>>

(* The first select of the loop; it is not `biased`, so with a free permit *)
(* and a shutdown requested either branch may be the one taken.            *)
AcquirePermit ==
    /\ loop = "Wait"
    /\ permits > 0
    /\ permits' = permits - 1
    /\ loop' = "Request"
    /\ UNCHANGED <<shutdown, pc, slotVars, inUse, evictionDue, diskVars,
                   evictVars>>

WaitBreak ==
    /\ loop = "Wait"
    /\ shutdown # "Running"
    /\ loop' = "Drain"
    /\ UNCHANGED <<permits, shutdown, pc, slotVars, inUse, evictionDue,
                   diskVars, evictVars>>

(* Mutant: the permit is dropped although the task carries on with it. *)
ReceiveJob_DropsPermit(j) ==
    /\ loop = "Request"
    /\ pc[j] = "pending"
    /\ pc' = [pc EXCEPT ![j] = "spawned"]
    /\ loop' = "Wait"
    /\ permits' = permits + 1
    /\ UNCHANGED <<shutdown, slotVars, inUse, evictionDue, diskVars, evictVars>>

(* claim_with_permit returned a job: its task is spawned with the permit. *)
ReceiveJob(j) ==
    /\ loop = "Request"
    /\ pc[j] = "pending"
    /\ pc' = [pc EXCEPT ![j] = "spawned"]
    /\ loop' = "Wait"
    /\ UNCHANGED <<permits, shutdown, slotVars, inUse, evictionDue, diskVars,
                   evictVars>>

(* Mutant: an empty answer leaks the permit. *)
ReceiveNothing_Leaks ==
    /\ loop = "Request"
    /\ loop' = "Idle"
    /\ UNCHANGED <<permits, shutdown, pc, slotVars, inUse, evictionDue,
                   diskVars, evictVars>>

(* No job (204), an error status, or GitLab not reached: the permit is     *)
(* dropped with the future.                                                *)
ReceiveNothing ==
    /\ loop = "Request"
    /\ permits' = permits + 1
    /\ loop' = "Idle"
    /\ UNCHANGED <<shutdown, pc, slotVars, inUse, evictionDue, diskVars,
                   evictVars>>

(* Mutant: the error path leaks the permit. *)
LoseJob_Leaks(j) ==
    /\ loop = "Request"
    /\ pc[j] = "pending"
    /\ pc' = [pc EXCEPT ![j] = "lost"]
    /\ loop' = "Idle"
    /\ UNCHANGED <<permits, shutdown, slotVars, inUse, evictionDue, diskVars,
                   evictVars>>

(* GitLab assigned the job but the answer was lost, or was a payload the   *)
(* runner cannot parse, which request_job itself reports as failed.        *)
LoseJob(j) ==
    /\ loop = "Request"
    /\ pc[j] = "pending"
    /\ \E outcome \in {"lost", "rejected"} :
         pc' = [pc EXCEPT ![j] = outcome]
    /\ permits' = permits + 1
    /\ loop' = "Idle"
    /\ UNCHANGED <<shutdown, slotVars, inUse, evictionDue, diskVars, evictVars>>

(* The second select: sleep check_interval, or a shutdown. *)
IdleElapsed ==
    /\ loop = "Idle"
    /\ loop' = "Wait"
    /\ UNCHANGED <<permits, shutdown, pc, slotVars, inUse, evictionDue,
                   diskVars, evictVars>>

IdleBreak ==
    /\ loop = "Idle"
    /\ shutdown # "Running"
    /\ loop' = "Drain"
    /\ UNCHANGED <<permits, shutdown, pc, slotVars, inUse, evictionDue,
                   diskVars, evictVars>>

(* Mutant: the daemon stops without waiting for its tasks. *)
Stop_NoDrain ==
    /\ loop = "Drain"
    /\ loop' = "Stopped"
    /\ UNCHANGED <<permits, shutdown, pc, slotVars, inUse, evictionDue,
                   diskVars, evictVars>>

(* acquire_many(concurrent): every task has returned its permit. *)
Stop ==
    /\ loop = "Drain"
    /\ permits = Concurrent
    /\ loop' = "Stopped"
    /\ UNCHANGED <<permits, shutdown, pc, slotVars, inUse, evictionDue,
                   diskVars, evictVars>>

-----------------------------------------------------------------------------
(* The task of one job: execute_job around run_job. *)

Step(j, from, to) == pc[j] = from /\ pc' = [pc EXCEPT ![j] = to]

AcquireSlot(j) ==
    /\ Step(j, "spawned", "slotted")
    /\ LET p  == ProjectOf[j]
           id == LowestFree(runnerIds)
           project_id == LowestFree(projectIds[p])
       IN  /\ slot' = [slot EXCEPT ![j] = [runner |-> id,
                                           project |-> project_id]]
           /\ runnerIds' = runnerIds \cup {id}
           /\ projectIds' = [projectIds EXCEPT ![p] = @ \cup {project_id}]
    /\ UNCHANGED <<loopVars, inUse, evictionDue, diskVars, evictVars>>

(* The daemon's evict_workspaces, when due: an eviction task is spawned. *)
SpawnEviction ==
    IF KeepWorkspaces /\ evictionDue
      THEN /\ evictionDue' = FALSE
           /\ \E e \in Evictors :
                /\ epc[e] = "none"
                /\ epc' = [epc EXCEPT ![e] = "spawned"]
           /\ UNCHANGED <<seen, todo, victim, before>>
      ELSE UNCHANGED <<evictionDue, evictVars>>

(* The job's workspace joins workspaces_in_use. *)
Register(j) ==
    /\ Step(j, "slotted", "registered")
    /\ inUse' = inUse \cup {Workspace(j)}
    /\ SpawnEviction
    /\ UNCHANGED <<loopVars, slotVars, diskVars>>

(* prepare: create_dir_all, which leaves an old directory as it is ... *)
MakeWorkspace(j) ==
    /\ Step(j, "registered", "made")
    /\ present' = present \cup {Workspace(j)}
    /\ leftBy' = leftBy \cup {<<Workspace(j), j>>}
    /\ UNCHANGED <<loopVars, slotVars, inUse, evictionDue, stale, evictVars>>

(* ... then the write of the LAST_USED marker, which makes it fresh. *)
MarkUsed(j) ==
    /\ Workspace(j) \in present
    /\ Step(j, "made", "running")
    /\ stale' = stale \ {Workspace(j)}
    /\ UNCHANGED <<loopVars, slotVars, inUse, evictionDue, present, leftBy,
                   evictVars>>

(* Either await of prepare fails: the disk, or the directory is gone again. *)
PrepareFails(j) ==
    /\ Step(j, "registered", "ran") \/ Step(j, "made", "ran")
    /\ UNCHANGED <<loopVars, slotVars, inUse, evictionDue, diskVars, evictVars>>

(* execute, upload_artifacts and upload_cache have returned. *)
Finish(j) ==
    /\ Step(j, "running", "ran")
    /\ UNCHANGED <<loopVars, slotVars, inUse, evictionDue, diskVars, evictVars>>

Delete(w) ==
    /\ present' = present \ {w}
    /\ stale' = stale \ {w}
    /\ leftBy' = {f \in leftBy : f[1] # w}

(* cleanup: a reusable workspace stays when workspaces are kept; remove_dir *)
(* only warns when it fails, which also leaves the directory.               *)
Cleanup(j) ==
    /\ Step(j, "ran", "cleaned")
    /\ \/ ~(KeepWorkspaces /\ Reusable(j)) /\ Delete(Workspace(j))
       \/ UNCHANGED diskVars
    /\ UNCHANGED <<loopVars, slotVars, inUse, evictionDue, evictVars>>

(* Mutant: the workspace stays registered. *)
Leave_KeepsInUse(j) ==
    /\ Step(j, "cleaned", "reporting")
    /\ UNCHANGED <<loopVars, slotVars, inUse, evictionDue, diskVars, evictVars>>

Leave(j) ==
    /\ Step(j, "cleaned", "reporting")
    /\ inUse' = inUse \ {Workspace(j)}
    /\ UNCHANGED <<loopVars, slotVars, evictionDue, diskVars, evictVars>>

(* The trace is finished and the final state reported, then slots.release. *)
ReleaseSlot(j) ==
    /\ Step(j, "reporting", "released")
    /\ runnerIds' = runnerIds \ {slot[j].runner}
    /\ projectIds' = [projectIds EXCEPT ![ProjectOf[j]] =
                                             @ \ {slot[j].project}]
    /\ slot' = [slot EXCEPT ![j] = NoSlot]
    /\ UNCHANGED <<loopVars, inUse, evictionDue, diskVars, evictVars>>

(* Mutant: the task ends and its permit is never dropped. *)
EndTask_Leaks(j) ==
    /\ Step(j, "released", "done")
    /\ UNCHANGED <<loopVars, slotVars, inUse, evictionDue, diskVars, evictVars>>

(* The end of the task drops its permit. *)
EndTask(j) ==
    /\ Step(j, "released", "done")
    /\ permits' = permits + 1
    /\ UNCHANGED <<loop, shutdown, slotVars, inUse, evictionDue, diskVars,
                   evictVars>>

-----------------------------------------------------------------------------
(* Eviction of workspaces: the spawned task of evict_workspaces. *)

(* EVICTION_INTERVAL has passed since the last eviction was spawned; at     *)
(* most Cardinality(Evictors) evictions overlap.                            *)
IntervalPasses ==
    /\ KeepWorkspaces
    /\ \E e \in Evictors : epc[e] = "none"
    /\ evictionDue' = TRUE
    /\ UNCHANGED <<loopVars, pc, slotVars, inUse, diskVars, evictVars>>

(* workspace_max_age_days have passed since the marker was written. *)
Age(w) ==
    /\ KeepWorkspaces
    /\ w \in present
    /\ stale' = stale \cup {w}
    /\ UNCHANGED <<loopVars, pc, slotVars, inUse, evictionDue, present, leftBy,
                   evictVars>>

(* Mutant: the copy of workspaces_in_use is empty. *)
CopyInUse_Empty(e) ==
    /\ epc[e] = "spawned"
    /\ epc' = [epc EXCEPT ![e] = "looking"]
    /\ seen' = [seen EXCEPT ![e] = {}]
    /\ todo' = [todo EXCEPT ![e] = present]
    /\ before' = [before EXCEPT ![e] = Registered]
    /\ UNCHANGED <<loopVars, pc, slotVars, inUse, evictionDue, diskVars, victim>>

(* The task starts: it copies workspaces_in_use and lists the directories. *)
CopyInUse(e) ==
    /\ epc[e] = "spawned"
    /\ epc' = [epc EXCEPT ![e] = "looking"]
    /\ seen' = [seen EXCEPT ![e] = inUse]
    /\ todo' = [todo EXCEPT ![e] = present]
    /\ before' = [before EXCEPT ![e] = Registered]
    /\ UNCHANGED <<loopVars, pc, slotVars, inUse, evictionDue, diskVars, victim>>

(* One directory: skipped when in the copy, gone or used recently. *)
Judge(e, w) ==
    /\ epc[e] = "looking"
    /\ victim[e] = None
    /\ w \in todo[e]
    /\ todo' = [todo EXCEPT ![e] = @ \ {w}]
    /\ victim' = IF w \notin seen[e] /\ w \in stale
                   THEN [victim EXCEPT ![e] = w]
                   ELSE victim
    /\ UNCHANGED <<loopVars, pc, slotVars, inUse, evictionDue, diskVars, epc,
                   seen, before>>

(* remove_dir of the directory judged too old, which may fail with a warning. *)
Evict(e) ==
    /\ victim[e] # None
    /\ victim' = [victim EXCEPT ![e] = None]
    /\ Delete(victim[e]) \/ UNCHANGED diskVars
    /\ UNCHANGED <<loopVars, pc, slotVars, inUse, evictionDue, epc, seen, todo,
                   before>>

EndEviction(e) ==
    /\ epc[e] = "looking"
    /\ victim[e] = None
    /\ todo[e] = {}
    /\ epc' = [epc EXCEPT ![e] = "none"]
    /\ seen' = [seen EXCEPT ![e] = {}]
    /\ before' = [before EXCEPT ![e] = {}]
    /\ UNCHANGED <<loopVars, pc, slotVars, inUse, evictionDue, diskVars, todo,
                   victim>>

-----------------------------------------------------------------------------
LoopStep ==
    \/ AcquirePermit
    \/ WaitBreak
    \/ \E j \in Jobs : ReceiveJob(j) \/ LoseJob(j)
    \/ ReceiveNothing
    \/ IdleElapsed
    \/ IdleBreak
    \/ Stop

TaskStep(j) ==
    \/ AcquireSlot(j)
    \/ Register(j)
    \/ MakeWorkspace(j)
    \/ MarkUsed(j)
    \/ PrepareFails(j)
    \/ Finish(j)
    \/ Cleanup(j)
    \/ Leave(j)
    \/ ReleaseSlot(j)
    \/ EndTask(j)

(* The eviction tasks end with the process. *)
EvictorStep(e) ==
    /\ loop # "Stopped"
    /\ \/ CopyInUse(e)
       \/ \E w \in todo[e] : Judge(e, w)
       \/ Evict(e)
       \/ EndEviction(e)

(* The process has ended; nothing the daemon waits for is left. *)
Stopped == loop = "Stopped" /\ UNCHANGED vars

Next ==
    \/ LoopStep
    \/ \E j \in Jobs : TaskStep(j)
    \/ \E e \in Evictors : EvictorStep(e)
    \/ \E mode \in {"Graceful", "Abort"} : RequestShutdown(mode)
    \/ IntervalPasses
    \/ \E w \in present : Age(w)
    \/ Stopped

(* tokio polls every ready task, a job ends by its timeout and every        *)
(* request has one, so the loop and the tasks always move on.  The branches *)
(* of an unbiased select are polled in random order, so a branch that is    *)
(* ready again and again is taken: strong fairness.  Nobody promises a      *)
(* shutdown, the passing of an interval or another job.                     *)
Fairness ==
    /\ WF_vars(LoopStep)
    /\ SF_vars(WaitBreak)
    /\ \A j \in Jobs : WF_vars(TaskStep(j))
    /\ \A e \in Evictors : WF_vars(EvictorStep(e))

Spec == Init /\ [][Next]_vars /\ Fairness

-----------------------------------------------------------------------------
(* Properties. *)

(* Type invariant of the daemon's state; the slot ids are only known to be  *)
(* numbers here, IdsBelowConcurrent bounds them.                            *)
TypeOK ==
    /\ loop \in {"Wait", "Request", "Idle", "Drain", "Stopped"}
    /\ permits \in 0..Concurrent
    /\ shutdown \in DOMAIN Rank
    /\ pc \in [Jobs -> AtGitLab \cup HasPermit \cup {"done"}]
    /\ slot \in [Jobs -> [runner : Nat, project : Nat]]
    /\ runnerIds \in SUBSET Nat
    /\ projectIds \in [Projects -> SUBSET Nat]
    /\ evictionDue \in BOOLEAN
    /\ stale \subseteq present
    /\ epc \in [Evictors -> {"none", "spawned", "looking"}]
    /\ DOMAIN seen = Evictors /\ DOMAIN todo = Evictors
    /\ DOMAIN victim = Evictors /\ before \in [Evictors -> SUBSET Jobs]

(* No permit is lost or made up on any path of the loop and the tasks: the  *)
(* free ones, the one of the request in flight and those of the job tasks   *)
(* are always `concurrent` in all.  A leaked permit would shrink the runner *)
(* for good, a doubled one would take more jobs than `concurrent`.          *)
PermitConservation ==
    permits + Cardinality(Holders) + (IF loop = "Request" THEN 1 ELSE 0)
        = Concurrent

(* CI_CONCURRENT_ID and CI_CONCURRENT_PROJECT_ID are distinct among the     *)
(* jobs that hold them at the same time.                                    *)
DistinctIds ==
    \A i, j \in SlotOwners :
        i # j => /\ slot[i].runner # slot[j].runner
                 /\ ProjectOf[i] = ProjectOf[j] => slot[i].project # slot[j].project

(* ... and below `concurrent`, so scripts that keep one directory per id    *)
(* keep at most `concurrent` of them: a task gives its ids back before its  *)
(* permit.                                                                  *)
IdsBelowConcurrent ==
    \A j \in SlotOwners : /\ slot[j].runner < Concurrent
                          /\ slot[j].project < Concurrent

(* Two jobs that are registered at the same time never work in the same     *)
(* directory, and both directories are in workspaces_in_use: the id a       *)
(* directory is named after is given back only after it left the set.       *)
WorkspaceExclusive ==
    /\ \A i, j \in Registered : i # j => Workspace(i) # Workspace(j)
    /\ inUse = {Workspace(j) : j \in Registered}

(* A job works among the files of its own project and, for a protected ref, *)
(* of protected refs only, whatever earlier jobs, failed removals and       *)
(* evictions left on the disk.                                              *)
LeftoversTrusted ==
    \A i, j \in Jobs :
        /\ i \in Registered
        /\ <<Workspace(i), j>> \in leftBy
        => \/ i = j
           \/ /\ ProjectOf[i] = ProjectOf[j]
              /\ ProtectionOf[i] = ProtectionOf[j]
              /\ ProtectionOf[i] # "unknown"

(* An eviction never takes the directory of a job that was registered when  *)
(* it began and still is, however long the job runs.                        *)
EvictionSparesRegistered ==
    \A e \in Evictors : \A j \in before[e] \cap Registered :
        victim[e] # Workspace(j)

(* When start returns nothing is left behind: every task has ended, and     *)
(* every permit, id and registration is back.                               *)
StopsClean ==
    loop = "Stopped" =>
        /\ Holders = {}
        /\ permits = Concurrent
        /\ runnerIds = {}
        /\ \A p \in Projects : projectIds[p] = {}
        /\ inUse = {}

(* A requested shutdown ends the daemon: the drain waits for the running    *)
(* jobs and nothing else.                                                   *)
ShutdownStops == shutdown # "Running" ~> loop = "Stopped"

(* Without a shutdown the runner asks GitLab for jobs again and again: no   *)
(* path through a job or a failed request loses the permit for good.        *)
KeepsPolling == []<>(loop = "Request" \/ shutdown # "Running")

(* What docs and comments say and the code does not do. *)

(* "Take no new jobs": no request begins after a shutdown was requested.    *)
TakesNoNewJobs ==
    [][loop = "Wait" /\ loop' = "Request" => shutdown = "Running"]_vars

(* "Workspaces of running jobs, never evicted". *)
RunningKeepsWorkspace ==
    \A j \in Jobs : pc[j] = "running" => Workspace(j) \in present

-----------------------------------------------------------------------------
(* RunnerDaemon implements JobPool. *)
PoolState(place) == CASE place = "pending"              -> "waiting"
                      [] place \in {"lost", "rejected"} -> "lost"
                      [] place = "done"                 -> "ended"
                      [] OTHER                          -> "held"

Pool == INSTANCE JobPool WITH
    Capacity <- Concurrent,
    open     <- loop # "Stopped",
    job      <- [j \in Jobs |-> PoolState(pc[j])]

(* The runner holds at most `concurrent` jobs, ends each one it holds, and  *)
(* takes nothing once it has stopped.                                       *)
ImplementsJobPool == Pool!Spec
=============================================================================
