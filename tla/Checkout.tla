------------------------------ MODULE Checkout ------------------------------
(***************************************************************************)
(* The sources of the jobs that use one workspace, one after the other:    *)
(* git.rs and checkout of executor.rs.  A job may leave the repository     *)
(* broken or locked, with a config and hooks of its own, other tracked and *)
(* untracked files, and may be killed between two commands.  Flags in the  *)
(* index, replaced objects and the options of the commands (depth,         *)
(* refspecs, flags) are left out.                                          *)
(***************************************************************************)
EXTENDS Integers, SequencesExt

CONSTANTS
    Commits,            \* git_info.sha of the jobs
    Jobs,               \* what jobs may ask for
    MaxJobs,            \* jobs in the workspace (a bound)
    MaxAttempts         \* GET_SOURCES_ATTEMPTS

(* What a job's variables ask for: GIT_STRATEGY, GIT_SUBMODULE_STRATEGY,     *)
(* GIT_CHECKOUT, GIT_CLEAN_FLAGS; and whether its payload is valid.          *)
JobType == [sha : Commits, strategy : {"none", "empty", "clone", "fetch", "default"},
            allow : BOOLEAN, submodules : BOOLEAN, checkout : BOOLEAN, clean : BOOLEAN,
            valid : BOOLEAN]

CheckoutAssumption ==
    /\ Jobs \subseteq JobType /\ Jobs # {}
    /\ MaxJobs \in Nat /\ MaxAttempts \in Nat \ {0}
    /\ {"none", "job"} \cap Commits = {}

VARIABLES
    git,                \* the repository: none, ok, broken
    config, hooks,      \* none, git's own, or of a job
    remote,             \* the config has `origin`
    have,               \* commits in the repository
    locks,              \* locks left by a killed git: none, known, other
    modules,            \* .git/modules
    tree,               \* the tracked files are those of a commit; changed by a
                        \* job; none
    extra,              \* files that git does not track
    pc, job, jobs, plan, updating, attempt,
    foreign,            \* a git command ran with a job's config or hooks (history)
    outage              \* a command failed for reasons outside (history)

repo == <<git, config, hooks, remote, have, locks, modules>>
workspace == <<repo, tree, extra>>
control == <<job, jobs, attempt>>
vars == <<workspace, pc, control, plan, updating, foreign, outage>>

Init ==
    /\ git = "none" /\ config = "none" /\ hooks = "none" /\ remote = FALSE
    /\ have = {} /\ locks = "none" /\ modules = FALSE
    /\ tree = "none" /\ extra = FALSE
    /\ pc = "idle" /\ job \in Jobs /\ jobs = 0 /\ plan = <<>> /\ updating = FALSE
    /\ attempt = 0 /\ foreign = FALSE /\ outage = FALSE

-----------------------------------------------------------------------------
(* git.rs *)

Strategy(j) ==
    IF j.strategy # "default" THEN j.strategy ELSE IF j.allow THEN "fetch" ELSE "clone"

(* Mutant: only what was cloned is cleaned. *)
SyncCommands_CleanFresh(j, existing) ==
    (IF existing THEN <<"rm config", "rm hooks">> ELSE <<>>)
    \o <<"init", "remote", "fetch">>
    \o (IF ~j.checkout THEN <<>>
        ELSE <<"checkout">> \o (IF ~existing /\ j.clean THEN <<"clean">> ELSE <<>>))
    \o (IF j.submodules THEN <<"submodules">> ELSE <<>>)

(* Mutant: the hooks of an earlier job stay. *)
SyncCommands_Hooks(j, existing) ==
    (IF existing THEN <<"rm config">> ELSE <<>>)
    \o <<"init", "remote", "fetch">>
    \o (IF ~j.checkout THEN <<>>
        ELSE <<"checkout">> \o (IF existing /\ j.clean THEN <<"clean">> ELSE <<>>))
    \o (IF j.submodules THEN <<"submodules">> ELSE <<>>)

SyncCommands(j, existing) ==
    (IF existing THEN <<"rm config", "rm hooks">> ELSE <<>>)
    \o <<"init", "remote", "fetch">>
    \o (IF ~j.checkout THEN <<>>
        ELSE <<"checkout">> \o (IF existing /\ j.clean THEN <<"clean">> ELSE <<>>))
    \o (IF j.submodules THEN <<"submodules">> ELSE <<>>)

FreshCommands(j) == <<"wipe">> \o SyncCommands(j, FALSE)

(* checkout_script updates what an earlier job left, but never submodules.   *)
Reuses(j) ==
    /\ Strategy(j) = "fetch" /\ ~j.submodules
    /\ git # "none" /\ ~modules

-----------------------------------------------------------------------------
(* Effects of the commands on the workspace, and when they fail for its     *)
(* state; with a network or a disk any command may fail.                     *)

IsGit(c) == c \in {"init", "remote", "fetch", "checkout", "clean", "submodules", "lfs"}

Works(c) ==
    CASE c = "remote" -> git = "ok" /\ ~remote
      [] c = "fetch" -> git = "ok" /\ remote /\ locks = "none"
      [] c = "checkout" -> git = "ok" /\ job.sha \in have /\ locks = "none"
      [] c \in {"clean", "submodules"} -> git = "ok"
      [] OTHER -> TRUE

Effect(c) ==
    /\ git' = CASE c = "wipe" -> "none" [] c = "init" /\ git = "none" -> "ok" [] OTHER -> git
    /\ config' = CASE c \in {"wipe", "rm config"} -> "none"
                   [] c = "init" /\ config = "none" -> "own" [] OTHER -> config
    /\ hooks' = CASE c \in {"wipe", "rm hooks"} -> "none"
                  [] c = "init" /\ hooks = "none" -> "own" [] OTHER -> hooks
    /\ remote' = CASE c \in {"wipe", "rm config"} -> FALSE [] c = "remote" -> TRUE
                   [] OTHER -> remote
    /\ have' = CASE c = "wipe" -> {} [] c = "fetch" -> have \cup {job.sha} [] OTHER -> have
    /\ locks' = IF c = "wipe" \/ (c = "rm config" /\ locks = "known") THEN "none" ELSE locks
    /\ modules' = CASE c = "wipe" -> FALSE [] c = "submodules" -> TRUE [] OTHER -> modules
    /\ tree' = CASE c = "wipe" -> "none" [] c = "checkout" -> job.sha [] OTHER -> tree
    /\ extra' = (extra /\ c \notin {"wipe", "clean"})

-----------------------------------------------------------------------------
(* checkout *)

Start ==
    /\ pc = "idle" /\ jobs < MaxJobs /\ jobs' = jobs + 1
    /\ \E j \in Jobs :
        /\ job' = j /\ attempt' = 1 /\ outage' = FALSE
        /\ pc' = CASE Strategy(j) = "none" -> "built"
                   [] Strategy(j) = "empty" \/ j.valid -> "begin"
                   [] OTHER -> "failed"
    /\ UNCHANGED <<workspace, plan, updating, foreign>>

Begin ==
    /\ pc = "begin" /\ pc' = "script"
    /\ updating' = Reuses(job)
    /\ plan' = IF Strategy(job) = "empty" THEN <<"wipe">>
               ELSE (IF Reuses(job) THEN SyncCommands(job, TRUE) ELSE FreshCommands(job))
                    \o <<"lfs">>
    /\ UNCHANGED <<workspace, control, foreign, outage>>

Succeeds ==
    /\ pc = "script" /\ plan # <<>> /\ Works(Head(plan))
    /\ Effect(Head(plan)) /\ plan' = Tail(plan)
    /\ foreign' = (foreign \/ (IsGit(Head(plan)) /\ "job" \in {config, hooks}))
    /\ UNCHANGED <<pc, control, updating, outage>>

(* Mutant: the update is the last word. *)
Fails_NoClone ==
    /\ pc = "script" /\ plan # <<>>
    /\ \/ ~Works(Head(plan)) /\ UNCHANGED outage
       \/ outage' = TRUE
    /\ plan' = <<>> /\ pc' = IF attempt < MaxAttempts THEN "reset" ELSE "failed"
    /\ UNCHANGED <<workspace, control, updating, foreign>>

(* A failed update clones again; a failed clone ends the attempt.            *)
Fails ==
    /\ pc = "script" /\ plan # <<>>
    /\ \/ ~Works(Head(plan)) /\ UNCHANGED outage
       \/ outage' = TRUE
    /\ IF updating /\ Head(plan) # "lfs"
       THEN plan' = FreshCommands(job) \o <<"lfs">> /\ updating' = FALSE /\ UNCHANGED pc
       ELSE /\ plan' = <<>> /\ UNCHANGED updating
            /\ pc' = IF attempt < MaxAttempts THEN "reset" ELSE "failed"
    /\ UNCHANGED <<workspace, control, foreign>>

Done ==
    /\ pc = "script" /\ plan = <<>> /\ pc' = "built"
    /\ UNCHANGED <<workspace, control, plan, updating, foreign, outage>>

(* The repository is removed before the next attempt, unless that fails.     *)
Retry ==
    /\ pc = "reset" /\ pc' = "begin" /\ attempt' = attempt + 1
    /\ \/ /\ git' = "none" /\ config' = "none" /\ hooks' = "none" /\ remote' = FALSE
          /\ have' = {} /\ locks' = "none" /\ modules' = FALSE
       \/ UNCHANGED repo
    /\ UNCHANGED <<tree, extra, job, jobs, plan, updating, foreign, outage>>

-----------------------------------------------------------------------------

(* The job's own commands, of which a strategy without sources may work on   *)
(* those of an earlier job, too.                                             *)
Script ==
    /\ pc = "built" /\ pc' = "ran"
    /\ git' \in (IF git = "none" THEN {"none", "ok"} ELSE {git, "broken"})
    /\ config' \in (IF git' = "none" THEN {"none"} ELSE {config, "job"})
    /\ hooks' \in (IF git' = "none" THEN {"none"} ELSE {hooks, "job"})
    /\ extra' \in BOOLEAN /\ tree' \in {tree, "job"}
    /\ locks' \in (IF git' = "none" THEN {"none"} ELSE {locks, "other"})
    /\ remote' \in (IF config' = "none" THEN {FALSE} ELSE {remote, TRUE})
    /\ UNCHANGED <<have, modules, control, plan, updating, foreign, outage>>

(* The job ends, or is killed during its script or a command.                *)
End ==
    /\ pc # "idle" /\ pc' = "idle" /\ plan' = <<>> /\ updating' = FALSE
    /\ locks' \in (IF pc = "script" /\ plan # <<>> /\ IsGit(Head(plan)) /\ git = "ok"
                   THEN {locks, "known", "other"} ELSE {locks})
    /\ git' \in (IF pc = "script" /\ plan # <<>> /\ git = "ok" THEN {git, "broken"} ELSE {git})
    /\ UNCHANGED <<config, hooks, remote, have, modules, tree, extra, control, foreign, outage>>

Next == Start \/ Begin \/ Succeeds \/ Fails \/ Done \/ Retry \/ Script \/ End

Spec == Init /\ [][Next]_vars

-----------------------------------------------------------------------------
(* Properties *)

TypeOK ==
    /\ git \in {"none", "ok", "broken"} /\ {config, hooks} \subseteq {"none", "own", "job"}
    /\ git = "none" => config = "none" /\ hooks = "none" /\ ~remote /\ have = {}
    /\ have \subseteq Commits /\ locks \in {"none", "known", "other"}
    /\ tree \in Commits \cup {"none", "job"}
    /\ {remote, modules, extra, updating, foreign, outage} \subseteq BOOLEAN
    /\ pc \in {"idle", "begin", "script", "reset", "built", "ran", "failed"}
    /\ job \in Jobs /\ attempt \in 0..MaxAttempts

HasSources == pc = "built" /\ Strategy(job) \in {"fetch", "clone"}

(* A job is built from exactly the commit GitLab names, and without files of *)
(* earlier jobs, whatever these did to the repository's config, hooks, locks *)
(* and files, and wherever they were killed: git.rs.                         *)
BuiltFromCommit ==
    HasSources /\ job.checkout => tree = job.sha /\ (job.clean => ~extra)

(* No git command of the runner runs with the config or hooks of a job.      *)
NothingForeignRuns == ~foreign

(* Whatever of these earlier jobs left: sources fail only when something     *)
(* outside the workspace fails, since a failed update clones again.          *)
RepairsItself ==
    pc \in {"reset", "failed"} /\ job.valid => outage

=============================================================================
