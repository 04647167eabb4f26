--------------------------- MODULE JobEnvironment ---------------------------
(***************************************************************************)
(* The variables of the jobs that use one workspace, one after the other:  *)
(* apply_runner_config, job_env and service_env, and the files of `file`   *)
(* variables from prepare to cleanup.  The runner may be killed anywhere.  *)
(***************************************************************************)
EXTENDS Integers, FiniteSets, Expansion

CONSTANTS
    Jobs,               \* the jobs of the workspace
    Before, After,      \* variables of the runner's proxy and `environment`
    Directories,        \* the clone paths that are valid
    HasCa,              \* GitLab's certificate needs a custom CA
    MaxJobs             \* a bound

Project == <<Text("project")>>

(* A job has variables, a GIT_CLONE_PATH (or none), and a service with       *)
(* variables of its own.                                                     *)
IsVariables(vars) ==
    \A i \in DOMAIN vars : /\ {vars[i].raw, vars[i].file, vars[i].public} \subseteq BOOLEAN
                           /\ \A t \in Range(vars[i].value) : t[1] \in {"text", "ref"}

EnvironmentAssumption ==
    /\ IsVariables(Before) /\ IsVariables(After)
    /\ \A j \in Jobs : IsVariables(j.vars) /\ IsVariables(j.service)
    /\ Project \in Directories /\ HasCa \in BOOLEAN /\ MaxJobs \in Nat

VARIABLES
    job, jobs,
    pc,
    files,              \* the files to write, and those in the workspace:
    disk,               \* their directories, names and contents
    kept                \* a removal failed in this job

vars == <<job, jobs, pc, files, disk, kept>>

Init ==
    /\ job \in Jobs /\ jobs = 0 /\ pc = "idle"
    /\ files = <<>> /\ disk = {} /\ kept = FALSE

-----------------------------------------------------------------------------
(* script.rs *)

(* apply_runner_config *)
Variables(j) == Before \o j.vars \o After

(* The values as they were given, the last of each name. *)
Given(variables, env) ==
    FoldLeft(LAMBDA e, v : Set(e, v.key, v.value), env, variables)

ProjectSubdir(j) ==
    IF j.clone = <<>> THEN Project ELSE Expand(j.clone, Given(Variables(j), None))

IsValid(j) == ProjectSubdir(j) \in Directories
Directory(j) == IF IsValid(j) THEN ProjectSubdir(j) ELSE Project

Path(j, key) == <<Text("tmp")>> \o Directory(j) \o <<Text(key)>>
CaFile == "CI_SERVER_TLS_CA_FILE"

(* What the runner defines itself. *)
Defaults(j) ==
    LET dirs == Set(None, "CI_PROJECT_DIR", Directory(j)) IN
    IF HasCa THEN Set(Set(dirs, "GIT_SSL_CAINFO", Path(j, CaFile)), CaFile, Path(j, CaFile))
    ELSE dirs

Value(v, values) == IF v.raw THEN v.value ELSE Expand(v.value, values)

(* Mutant: a variable sees those before it. *)
JobEnv_Position(j) ==
    FoldLeft(LAMBDA env, v : Set(env, v.key, IF v.file THEN Path(j, v.key) ELSE Value(v, env)),
             Defaults(j), Variables(j))

(* Every variable is visible to expansion, whatever its position. *)
JobEnv(j) ==
    LET values == Given(Variables(j), Defaults(j)) IN
    FoldLeft(LAMBDA env, v :
                Set(env, v.key, IF v.file THEN Path(j, v.key) ELSE Value(v, values)),
             Defaults(j), Variables(j))

(* The files to write, as a sequence of names and contents. *)
JobFiles(j) ==
    LET values == Given(Variables(j), Defaults(j)) IN
    FoldLeft(LAMBDA fs, v : IF ~v.file THEN fs
                            ELSE Append(SelectSeq(fs, LAMBDA f : f[1] # v.key),
                                        <<v.key, Value(v, values)>>),
             IF HasCa THEN <<<<CaFile, <<Text("ca")>>>>>> ELSE <<>>, Variables(j))

(* Mutant: the first definition wins. *)
Setting_First(j, key) ==
    LET is == {i \in DOMAIN Variables(j) : Variables(j)[i].key = key} IN
    Variables(j)[CHOOSE i \in is : \A k \in is : k >= i].value

(* variable_value: how the runner itself reads a variable.                   *)
Setting(j, key) ==
    LET is == {i \in DOMAIN Variables(j) : Variables(j)[i].key = key} IN
    Variables(j)[CHOOSE i \in is : \A k \in is : k <= i].value

(* Mutant: the job's variables win. *)
ServiceEnv_JobWins(j) ==
    FoldLeft(LAMBDA env, v : Set(env, v.key, Value(v, JobEnv(j))),
             None, j.service \o SelectSeq(Variables(j), LAMBDA v : v.public /\ ~v.file))

ServiceEnv(j) ==
    FoldLeft(LAMBDA env, v : Set(env, v.key, Value(v, JobEnv(j))),
             None, SelectSeq(Variables(j), LAMBDA v : v.public /\ ~v.file) \o j.service)

-----------------------------------------------------------------------------
(* The files of a job *)

Goes(to) == pc' = to /\ UNCHANGED <<job, jobs>>

Start ==
    /\ pc = "idle" /\ jobs < MaxJobs /\ job' \in Jobs /\ jobs' = jobs + 1
    /\ pc' = "prepare" /\ kept' = FALSE /\ UNCHANGED <<files, disk>>

(* Removes the directory of the job's variables; an error is only logged.    *)
RemoveDir ==
    \/ disk' = {f \in disk : f[1] # Directory(job)} /\ UNCHANGED kept
    \/ UNCHANGED disk /\ kept' = TRUE

(* Mutant: what an earlier job left stays. *)
Prepare_Keeps ==
    /\ pc = "prepare" /\ Goes("write") /\ UNCHANGED <<disk, kept>>
    /\ files' = JobFiles(job)

Prepare ==
    /\ pc = "prepare" /\ RemoveDir /\ Goes("write")
    /\ files' = JobFiles(job)

WriteFile ==
    /\ pc = "write" /\ files # <<>> /\ Goes("write") /\ files' = Tail(files)
    /\ disk' = {f \in disk : f[1] # Directory(job) \/ f[2] # Head(files)[1]}
               \cup {<<Directory(job)>> \o Head(files)}
    /\ UNCHANGED kept

WriteFails ==
    /\ pc = "write" /\ files # <<>> /\ Goes("cleanup") /\ files' = <<>>
    /\ UNCHANGED <<disk, kept>>

(* The clone path is looked at when the files are written. *)
Written ==
    /\ pc = "write" /\ files = <<>> /\ Goes(IF IsValid(job) THEN "run" ELSE "cleanup")
    /\ UNCHANGED <<files, disk, kept>>

Ended == pc = "run" /\ Goes("cleanup") /\ UNCHANGED <<files, disk, kept>>

(* Mutant: the default directory is removed. *)
Cleanup_Project ==
    /\ pc = "cleanup" /\ Goes("idle") /\ UNCHANGED <<files, kept>>
    /\ disk' = {f \in disk : f[1] # Project}

Cleanup == pc = "cleanup" /\ RemoveDir /\ Goes("idle") /\ UNCHANGED files

Kill == pc # "idle" /\ Goes("idle") /\ files' = <<>> /\ kept' = TRUE /\ UNCHANGED disk

Next == Start \/ Prepare \/ WriteFile \/ WriteFails \/ Written \/ Ended \/ Cleanup \/ Kill

Spec == Init /\ [][Next]_vars

-----------------------------------------------------------------------------
(* Properties *)

TypeOK ==
    /\ job \in Jobs /\ jobs \in 0..MaxJobs
    /\ pc \in {"idle", "prepare", "write", "run", "cleanup"}
    /\ \A f \in disk : f[1] \in Directories /\ f[2] \in STRING
    /\ pc \notin {"write"} => files = <<>>
    /\ kept \in BOOLEAN

(* Whatever earlier jobs left in the directory of this job's clone path:     *)
(* each variable that names a file does so with the content of its last      *)
(* definition, and that directory has no other file (NothingIsLeft has the   *)
(* directories of other clone paths): prepare, write_variable_files.         *)
FilesAreOwn ==
    pc = "run" /\ ~kept =>
        LET own == {f \in disk : f[1] = Directory(job)} IN
        /\ \A key \in DOMAIN JobEnv(job) : JobEnv(job)[key] = Path(job, key) =>
            Cardinality({f \in own : f[2] = key}) = 1
        /\ \A f \in own :
            \/ f[2] = CaFile /\ HasCa
            \/ \E i \in DOMAIN Variables(job) :
                LET v == Variables(job)[i] IN
                /\ v.file /\ v.key = f[2]
                /\ f[3] = Value(v, Given(Variables(job), Defaults(job)))
                /\ \A k \in (i + 1)..Len(Variables(job)) :
                    Variables(job)[k].key = v.key => ~Variables(job)[k].file

(* Jobs leave no file variables behind, unless a removal failed or the       *)
(* runner was killed: cleanup.                                               *)
RemovesFiles ==
    pc = "cleanup" /\ pc' = "idle" /\ ~kept' => \A f \in disk' : f[1] # Directory(job)
FilesAreRemoved == [][RemovesFiles]_vars

(* A claim the code does not keep: a job starts with "remove what an earlier *)
(* job left of its file variables" (executor.rs:196).  Only the directory of *)
(* this job's own clone path is cleared (executor.rs:201); a runner that was *)
(* killed leaves those of the clone path that job had.                       *)
NothingIsLeft ==
    pc = "run" /\ ~kept => \A f \in disk : f[1] = Directory(job)

(* Where names are unique the order of a job's variables does not matter:    *)
(* job_env.                                                                  *)
OrderDoesNotMatter ==
    LET unique == \A i, k \in DOMAIN Variables(job) :
                      Variables(job)[i].key = Variables(job)[k].key => i = k
    IN  unique => JobEnv(job) = JobEnv([job EXCEPT !.vars = Reverse(@)])

(* The runner reads a plain variable as the job sees it: variable_value.     *)
SettingsAgree ==
    \A i \in DOMAIN Variables(job) :
        LET v == Variables(job)[i] IN
        v.raw /\ ~v.file /\ (\A k \in DOMAIN Variables(job) : Variables(job)[k].key = v.key => k <= i)
            => JobEnv(job)[v.key] = Setting(job, v.key)

(* "the service's own variables, which take precedence": service_env.        *)
ServiceVariablesWin ==
    \A i \in DOMAIN job.service :
        (\A k \in DOMAIN job.service : job.service[k].key = job.service[i].key => k <= i)
            => ServiceEnv(job)[job.service[i].key] = Value(job.service[i], JobEnv(job))

=============================================================================
