# TurboCI, specified in TLA+

TurboCI is a GitLab CI runner: a daemon that polls GitLab for jobs, runs up to
`concurrent` of them in workspaces or containers, streams their logs and
reports their results.  This directory models the parts of it in which several
actors meet (loop, job tasks, heartbeats, background tasks, GitLab, S3, the
Docker daemon, the network, signals, the scripts themselves) and the algorithms
whose results other parts rely on, checks them with TLC and proves properties of
the core with TLAPS.  Paths below are relative to the repository; its crate is
under `src/`.

- [Inventory](#inventory)
- [Modules](#modules): what models what
- [Runs](#runs): what each run checks, its bounds, the fairness it assumes
- [Where code and documentation differ](#where-code-and-documentation-differ)
- [Proofs](#proofs)
- [What is left out](#what-is-left-out)
- [Plan](#plan)

## Inventory

| Component | State | Operations | Correct when |
|---|---|---|---|
| Daemon loop, `runner_daemon/mod.rs` `start`, `claim_with_permit`, `execute_job` | semaphore, idle flag | reserve a permit, ask for a job, spawn its task, wait, drain | no permit is lost or doubled; ends when told to; otherwise polls on |
| Concurrency ids, `ConcurrencySlots` | ids in use, for the runner and per project | `acquire`, `release` | ids of running jobs are distinct and below `concurrent` |
| Workspaces, `executor.rs` `workspace`, `prepare`, `cleanup`, `evict_workspaces` | directories with their last-used marker, `workspaces_in_use`, `last_eviction` | name, create, mark, remove, evict | two jobs never share a directory; no file crosses projects or the protected boundary; a job keeps its directory |
| Shutdown, `Shutdown`, `ShutdownHandle`, `main.rs` | a watch channel | SIGQUIT drains, SIGTERM/SIGINT aborts; only ever escalates | takes no new jobs; running jobs end and are reported |
| Job run, `run_job`, `run_job_steps` | outcome, deadlines, step, uploads | prepare, pull, sources, restore, steps, after_script, uploads, caches, cleanup, report | the verdict is the one the job earned; it is reported; the run ends in time |
| Cancellation, `cancel.rs`, `spawn_heartbeat` | `CancelSignal`, heartbeat task | answers of heartbeats and log updates, the shutdown | only escalates; reaches every wait |
| Job log, `trace.rs`, `patch_trace` | trace, acknowledged offset, limit | write, flush, finish | GitLab's log is a prefix of what was written; nothing counts as stored that is not |
| GitLab client, `gitlab/mod.rs` | none | request, update, touch, patch, upload; retries with backoff | bounded retries; a repeated request does no harm; a job it cannot run is failed, not forgotten |
| Token rotation, `token.rs`, `mod.rs` `rotate_token` | token, its end and its file | verify, reset before the end, save, load | what is stored is what GitLab takes, whatever the runner dies of |
| Shell executor, `executor/shell.rs` | pipes, process group | run, read output, kill the group | all output is shown; a limit ends the script and what it started |
| Docker executor, `executor/docker.rs`, `image.rs` | containers, network, volumes, labels; logins | pull, create, exec, wait for services, release, sweep of orphans | what a job created is removed; nothing else is; images and logins stay with their jobs |
| Job cache, `job_cache.rs` | archives with ETag sidecars | restore with fallbacks, fetch, save, upload, evict | a job gets the cache of its own key and side of the protected boundary; archive, ETag and object agree |
| S3 client, `s3.rs` | circuit breaker shared by all jobs | get, put, retry, one trial after a cooldown | a dead S3 costs little, a live one is used again |
| Secret scrubber, `security/secret_scrubber.rs` | held-back tail | push, finish | no secret leaves, however output is cut in chunks |
| Artifacts, `artifacts.rs` | archive, workspace | select, archive, upload; download, extract | outside of the workspace nothing changes; what is wanted is sent, whole |
| Sources, `git.rs`, `checkout` | the repository in the workspace | update or clone, attempts | a job builds its commit, and runs nothing an earlier job left |
| Environment, `executor.rs` `job_env`, `script.rs` | variables, files of `file` variables | expand, write, remove | the same value at each use; files are the job's own and are removed |
| Configuration, network, command line | read once; `upgrade` replaces the program | validate, warn, `upgrade` | what was checked is accepted; the program file is always whole |
| System id, `system_id.rs` | a file | load or create | two runners on a host never share one |
| Installer, packaging | none | shell scripts of an administrator | |

**How they interact.**  The loop owns nothing but the permit of the next job;
it hands the permit to the task it spawns.  A task takes its ids from
`ConcurrencySlots`, registers its workspace in `workspaces_in_use`, starts its
heartbeat and possibly an eviction task, and gives all of it back in a fixed
order: registration, ids, permit.  The executor reports into the task's outcome;
the `CancelSignal` is written by the heartbeat and by answers to log updates and
read at every wait.  The signal handler writes one watch channel that the loop,
the heartbeats and the end of `run_job` read.  A script's output goes through
the scrubber into the trace, whose text the token rotation and the job's
variables tell it to mask.  Jobs meet in what they share: the cache directory
and bucket with its breaker, the images and names of one Docker daemon, and the
workspace that the next job of the project gets.

**What is hard.**  (1) a `select!` with both branches ready; (2) sets copied
under a lock and used after it; (3) requests whose answer is lost and that are
sent again; (4) a cancel signal with four writers and a dozen readers; (5) a
flag read once, and the signal it explains read again later; (6) uploads that
fail after the scripts succeeded; (7) waits without a deadline of their own;
(8) two files that have to agree and are replaced one after the other; (9) a
kill between a change and its record; (10) names on a shared daemon or disk that
are inspected and then acted on; (11) text that is cut anywhere and has to be
seen whole; (12) processes that change files while they are read.
`PROJECT.json` lists each hazard with its line and its properties.

## Modules

| Module | Models | Composed with |
|---|---|---|
| `JobPool` | the abstract runner: holds at most `Capacity` jobs, ends each, closes only when empty | implemented by `RunnerDaemon` |
| `RunnerDaemon` | loop, tasks, ids, workspaces, evictions, shutdown | |
| `JobLog` | the abstract log: what is kept is a growing beginning of what was written | implemented by `TraceStream` |
| `TraceStream` | `TraceWriter` over `patch_trace`, retries, GitLab's log | |
| `JobRun` | one `run_job`: executor, steps, uploads, report, heartbeat, shutdown, GitLab | |
| `Deadlines` | the limits of a job's scripts, on a clock | |
| `ScriptRun` | one script: processes, two streams, deadline, cancel, kill | |
| `JobRequest` | `request_job` and a payload that cannot be parsed | |
| `TokenRotation` | `rotate_token`, `TokenStore`, GitLab's tokens, kills and restarts | |
| `DockerHost` | containers, networks and volumes of runners that share a daemon; system ids | |
| `ImagePull` | pull policies, logins and pulls of jobs that share the images of a host | |
| `Services` | services, their names, NO_PROXY, the wait for them | `Expansion` |
| `DockerSettings` | sizes in the configuration, `validate`, `host_config`, dockerd | |
| `RegistryWarnings` | what the runner says of dockerd's registries, and the pull that follows | |
| `JobCache` | one cache key: archives, sidecars, objects; jobs on one or more hosts | |
| `CacheKeys` | the keys of a job, fallbacks, protection, what is saved under them | `Expansion` |
| `S3Breaker` | calls to S3 in an outage | |
| `SecretScrubber` | `SecretScrubber` and `StreamScrubber`, character by character | |
| `Extraction` | extraction of an archive into a workspace that changes meanwhile | |
| `ArtifactUpload` | selection, archives and uploads of a job's artifacts | |
| `Checkout` | the sources of the jobs of one workspace | |
| `Expansion` | `script.rs` `expand` and what variables are | |
| `JobEnvironment` | variables of jobs and services, files of `file` variables | `Expansion` |
| `Upgrade` | processes of `turboci upgrade` | |
| `...Proofs` | theorems about `RunnerDaemon`, `TraceStream`, `JobRun`, `JobRequest`, `Deadlines`, `TokenRotation`, `JobCache`, `Upgrade` | |
| `MCRunnerDaemon`, `MCJobRun` | values of the constants that a .cfg cannot write | |
| `MCHost`, `MCStages`, `MCWaits` | the components of one run, side by side: see [Runs](#three-runs-for-many-components) | |

Definitions ending in `_Word` (`Workspace_NoSlot`) are deliberately wrong
variants of the definition before the underscore.  `PROJECT.json` pairs each
property with one of them that violates it, and says for each definition which
lines it stands for.

### RunnerDaemon

An action is the code between two points where another actor can run: an await,
or a lock of a shared map.  `loop` is the position in `start` (`Wait` for a
permit, `Request` under way, `Idle` before the next poll, `Drain`, `Stopped`),
`pc[j]` the position of job j's task: `spawned`, `slotted` (ids acquired),
`registered` (in `workspaces_in_use`), `made` and `running` (the two steps of
`prepare`), `ran`, `cleaned`, `reporting`, `released` (ids given back), `done`.
`AcquirePermit` and `WaitBreak` are the two branches of the first select, which
is unbiased.  `LoseJob` is a job GitLab assigned whose answer the runner cannot
use.  `present`, `stale` and `leftBy` are the directories on disk, those whose
marker is old, and whose files they hold; `Delete` may fail, as `remove_dir`
may.  An eviction task copies `workspaces_in_use` (`CopyInUse`), then looks at
each directory (`Judge`: read the marker; `Evict`: remove it) with other actors
free to run between the two.

### TraceStream

A byte is its number, so that GitLab's log shows a lost, repeated or reordered
one.  `Write` and `Finish` append (`AppendOutput` has the limit, the cut at a
character boundary and the notice), `Flush` and `FinishFlush` send what lies
beyond `sent`, `AttemptFails` is one attempt of `retry_with_backoff` that ended
without a usable answer.  A request that was given up stays in `net` and may
still be served.  `Serve` is GitLab as `patch_trace` reads it: append at its own
end, 416 with its length otherwise, 403 once the job is over.

### JobRun

`pc` follows `run_job` and, while it is in `Executing`, `Executor::execute`.
`outcome` is `JobOutcome` reduced to "ok" or the reason of the first failure
(`OrElse` is `get_or_insert`).  A script ends by itself (`ScriptExits`: exit
code 0, another exit code, an error of the runner) or because of a limit
(`ScriptStopped`): its deadline has passed, or the cancel signal has reached
`stop_at`, which is `Canceling` for everything but the after_script.  `Expire`
is the clock.  `NextStep` is the head of the loop over the steps: the check of
the cancel signal, `when`, and the `CI_JOB_STATUS` of an after_script.  `Panic`
is what `catch_unwind` catches.  `UploadsOver` turns a failed upload into the
outcome.  `Judge` reads the shutdown once (`stopped`); `Check` reads the cancel
signal again after the awaits of `FinishTrace`.  `ReportTaken`,
`ReportUnanswered` and `ReportRejected` are one attempt of `update_job` with what
GitLab did and what the runner heard.  The payload comes from GitLab, which sends
an after_script as the last step: `AfterScriptIsLast` assumes it of `Steps`.

`heartbeat = "last"` is a poll of the heartbeat that was running on another
worker thread when the task dropped it: `abort()` only asks, so this poll may
still write the signal.

### Deadlines

One `run_job_steps` on a clock of abstract units: the payload's timeout, the two
variables and the step's own timeout are chosen at the start; `deadline`,
`scriptDeadline` and `limit` are the instants the code computes from them, with
`CheckedAdd` for `checked_add` (an instant that does not exist falls back).
`GetSources`, `RunStep`, `RunAfterScript` begin something, `Ends` is a script that
ends by itself, `Stopped` one at its limit; `Tick` lets time pass, but not past a
limit that is reached: what stops a script is `ScriptRun`'s subject.  Between two
scripts at most `MaxPause` passes, the writes to the log.

### ScriptRun

A script is a leader and a child it may leave in the background; each is in the
script's process group, out of it (`setsid`), or gone, and `holds` says who still
has the output open.  `Write`, `Background`, `Escape`, `CloseOutput`, `Exit` are the
script's, `Expire` and `Cancel` the clock's and the user's.  The runner's actions
are the branches of the two `select!` loops (`shell.rs` `run_script`, `docker.rs`
`run`): `Read` through `Utf8Decoder`, `StreamEnds`, `Exited`, `Drained`, `TimesOut`,
`IsCanceled`, and `Stop`, which kills the group or the exec's processes and may
fail.  Bytes are "a" and the two halves of one character.

### JobRequest

The loop of one runner around `request_job`.  `Answer` assigns a job, `AnswerLost`
assigns one of which the runner never learns, `Explain` starts `reject_job` for a
payload that does not parse: a trace update and a state update, each a request with
attempts that may fail before or after GitLab took it (`Fails`, `late`, `Arrive`).
`Refused` is a status the update does not try again (400, 401, 429), after which
the job runs on at GitLab; `refused` remembers it.
`Unidentified` is a payload without id or token, of which nobody can be told.

### TokenRotation

`pc` is where `rotate_token` stands: verify, sleep, save the old token, reset, save,
mask, install.  Token n of config token c is `<<c, n>>`; `valid` and `expires` are
GitLab's.  `ResetLost` is a reset that GitLab made and whose answer was lost, `Kill`
comes at any point, `Stop` only when the rotation does not hold its lock, `Start`
loads the file and may come with another config token.  `faults` records for each
config token what outside the program broke it, so that the properties can say
"but for".

### DockerHost

One name per kind of container of job N (sources, service, wait helper, job,
cleanup and untracked helpers) and one network, on a daemon that several runners
share.  `Inspect`, `Remove`, `Create`, `StartContainer` are the calls of
`create_named` and `start_helper`, one step each; `rec` and `net` are
`JobContainers`, what `release` will remove.  `SweepList` to `SweepNetwork` are
`sweep_orphans`.  `Start` reads or makes the system ID.  `lost` is a history
variable with the reason for which a container may be left: a removal that
failed, a helper that was created and not started, a kill.

### ImagePull

Per job the list of images to ensure and to use (`rest`), built by `Steps` as
`start_and_run` does.  `Inspect`, `UseLocal`, `Refuse`, `StartPull`, `Pulled`,
`PullFails`, `PullCanceled` follow `ensure_image`; `Resolve` is
`pull_policies`/`allowed`, `RegistryLogin` and `IsFor` are the choice of a login in
`image.rs`.  `Access` is what the registries grant; `Prune` an administrator.

### Services

`StartService` and `StartFails` follow `create_service`, with the names and
aliases of `service_aliases`; `Wait` is the list the helper gets, at most
`MaxPorts` ports per service, `Answered` and `NotYet` one try.  `Listen` and `Crash`
are the services themselves.  `EffectiveNoProxy` is what `apply_runner_config`
puts into `NO_PROXY`, from the variables before the runner's
`Environment` is added to them; `IsRenamed` is a service whose name that changes.

### DockerSettings and RegistryWarnings

Both are algorithms with one decision after them.  `parse_size`, `validate` and
`host_config` over texts (a number and a unit), then dockerd's own checks
(`Refused`, external).  `registry_host`, `ip_in_cidr` and `daemon_warnings` over
addresses of few bits, then the pull as dockerd would do it.

### JobCache, CacheKeys, S3Breaker

`JobCache` has one key.  Archive and sidecar are two files, and every await between
them is a step: `Fetch` (read the ETag), `GetNothing`/`GetObject`/`GetFails` (S3's
answer), `SaveDownload` (two renames), `Touch`, `Extract`; `SaveArchive`,
`HashArchive`, `OpenArchive`, `PutObject`, `SaveSidecar`; `Evict`, `RemoveArchive`,
`RemoveSidecar`.  A job may be dropped, its host killed, the object expired at any of
them.  `Others` are jobs with other keys, which evict in the same directory.
Archives are numbered in the order they are made, an ETag is the number.  Jobs of the
key may run together on a host, which nothing in the code prevents: `overtaken` has
the jobs under which another one wrote the files, `mixed` the hosts where such a job
left its mark.  Both are history variables, and say where the properties end.

`CacheKeys` has the keys: `KeysOf` is `restore_workspace`'s list (own key, fallback
keys, `CACHE_FALLBACK_KEY` when `MayFallBack`), a restore walks it and starts over
when an archive cannot be extracted; an archive is the job that saved it.  What
earlier jobs left under the keys is any of `Stores`; `OtherSaves` and `Vanish` are the
other jobs and the evictions meanwhile, also of the key that is restored (`gone`).

`S3Breaker`: `Call`, `Skip`, `Send`, `Answer`, `Unreachable`, `Retry`, `Awake`, `Chunk`,
`BodyEnds` follow `Bucket::send` and `until_stalled`, `Drop` is a job that is
canceled during its call, `Change` is S3.

### SecretScrubber

`Push` and `Finish` follow `StreamScrubber` on sequences of characters; `MatchRanges`,
`Boundary`, `HeldBack`, `MaskGrowing` are the functions of the file, with one pattern
of the kind `password=...` for all of them.  The reference is `Scrub(input)`, the
masking of the whole output at once.

### Extraction and ArtifactUpload

`Extraction` is `extract_zip_reader` over `safe_fs`: nodes with directory entries, a
walk by open handles (`OpenDir`, `MakeDir`, `ReopenDir`), `ClearLeaf`, the leaf,
`CopyChunk`; between any two system calls the job's processes may `Change` the tree.
A failed attempt starts over on what it left.  `Stop` is the flag that a dropped
future leaves for the thread.

`ArtifactUpload` is the loop over a job's artifacts: `Collect` the paths, `Take` them
into an archive one by one (with `Stat` and `Open` apart, for raw artifacts), send with
retries.  `Change` replaces files at any moment.

### Checkout

`SyncCommands` and `FreshCommands` are the command lists of `git.rs`; `Works` and
`Effect` say when a command succeeds on a given repository and what it changes, as
far as the lists depend on it (external: git).  `Fails` chooses what `checkout` does
next: remove a known lock, clone anew, try again, give up.  `Script` is a job that
may leave anything in the workspace; it may also be killed in the middle of a
command, which leaves locks or a broken repository.

### JobEnvironment

`JobEnv`, `ServiceEnv`, `Setting` and `JobFiles` are the functions that expand
variables; `Prepare`, `WriteFile`, `WriteFails`, `Cleanup` and `Kill` the life of the
files of `file` variables.  `Expansion` has `expand` and the representation of a
value: a sequence of texts and references.

### Upgrade

Files are inodes: `Open`, `Write`, `Chmod`, `Try`, `Remove`, `Rename` are the system calls
of `upgrade`, with Linux's rule that a file which is running is not written and one
which is being written does not run.  Releases may appear between the two downloads
of one run.  Several upgrades may run; `crossed` has those that had the file next to
the program in hand together with another one, `doubtful` says that one of them put
the program in place.  `replaced` has those whose own file was renamed over: Linux calls
it "turboci (deleted)", and they upgrade that name (`Astray`).

## Runs

| Run | Module, cfg | Question | Result |
|---|---|---|---|
| `pool` | `MCRunnerDaemon`, `RunnerDaemon_pool.cfg` | permits, ids, drain, liveness, refinement of `JobPool` | holds |
| `workspaces` | `RunnerDaemon_workspaces.cfg` | exclusion, leftovers, evictions | holds |
| `evicted` | `RunnerDaemon_evicted.cfg` | "Workspaces of running jobs, never evicted" | violated |
| `newjob` | `RunnerDaemon_newjob.cfg` | "Take no new jobs" | violated |
| `trace` | `TraceStream.cfg` | the log under lost, late and repeated requests; refinement of `JobLog` | holds |
| `job_run` | `MCJobRun`, `JobRun.cfg` | verdict, after_script status, caches, report; what ends a run | holds |
| `run_artifacts` | `JobRun_artifacts.cfg` | a success has its artifacts | violated |
| `run_report` | `JobRun_report.cfg` | a run always reports | violated |
| `host` | `MCHost` | what jobs and runners share: Docker, caches, S3, token, program, settings | holds |
| `cache_sidecar` | `MCHost_sidecar.cfg` | "`<archive>.etag` holds the ETag of its S3 object" | violated |
| `stages` | `MCStages` | the stages of a job: environment, sources, cache keys, images, archives, limits, output | holds |
| `waits` | `MCWaits` | what must come to an end | holds |

All end in under five minutes with two workers.  A run that is violated checks one
sentence of the repository as it stands, over the same model as a run above it; the
passing run checks what does hold, and names the exceptions.

### Three runs for many components

`host`, `stages` and `waits` each check several components side by side.  These
components share no state and synchronise only through the job that calls them, so
a product would show nothing that its factors do not: a behaviour of such a run
is a behaviour of one component, chosen at the start from `Parts` as `part`, while the
variables of the others stay put; `cache_sidecar` has one part.  The state space is the sum, not the product, and what holds
of the run holds of each component by itself; nothing is claimed of their
composition.  Deadlock is not checked in these runs, because most parts stop when their
job, call or run is over; that they stop only when they should is the subject of `waits`
and of `FailureIsTold`, `LeftoversDoNotMatter` and the like.  A property of these
runs is the conjunction of properties that the modules of the components define and
explain:

| Property | Of module | Conjuncts |
|---|---|---|
| `DockerIsLeftClean` | `DockerHost` | `LeftoversExplained`, `SweepClears`, `OthersAreSpared` |
| `CacheIsCurrent` | `JobCache`, `S3Breaker` | `NotModifiedIsCurrent`, `RestoredIsCurrent`, `SavedIsUploaded`; `OneTrialPerCooldown` |
| `RunnerSurvivesKills` | `TokenRotation`, `Upgrade` | `StoredIsValid`, `TokenIsMasked`, `StoredEndIsTrue`, `ResetsOnlyStored`, `EndsOnlyByFailure`; `ExeIsWhole`, `LeftoversDoNotMatter`, `UpgradedIsInstalled` |
| `SettingsAreUnderstood` | `DockerSettings`, `RegistryWarnings` | `SizesAreExact`, `RefusedForThese`; `TroubleIsWarnedOf`, `WarningsAreTrueOfOneFamily` |
| `WorkspaceIsOwn` | `JobEnvironment`, `Checkout` | `FilesAreOwn`, `FilesAreRemoved`, `OrderDoesNotMatter`, `SettingsAgree`, `ServiceVariablesWin`; `BuiltFromCommit`, `NothingForeignRuns`, `RepairsItself` |
| `NothingIsForeign` | `CacheKeys`, `ImagePull` | `ProtectedStaysApart`, `FallbackIsLast`; `NoForeignImages`, `LoginsGoHome`, `OwnLoginFirst`, `MissingIsTold` |
| `FilesArriveWhole` | `Extraction`, `ArtifactUpload` | `OutsideIsUntouched`, `ExtractedIsWhole`, `LimitIsKept`; `NamedFilesAreSent`, `RawIsAFile`, `FailureIsTold`, `OthersAreTried` |
| `DeadlinesHold` | `Deadlines` | `StepsInTime`, `SlotIsFreed`, `GraceIsGiven`, `TimeoutIsTrue` |
| `OutputIsShownAndMasked` | `ScriptRun`, `SecretScrubber` | `OutputIsShown`, `StoppedIsGone`; `ChunksDoNotMatter`, `SecretsAreMasked` |
| `ServicesAreAwaited` | `Services` | `ScriptWaits`, `AliasesAreDirect`, `WaitEnds` |
| `JobsAreNotForgotten` | `JobRequest` | `NotForgotten`, `FailedIsExplained`, `PollsOn` |
| `StuckWorkEnds` | `S3Breaker`, `ImagePull`, `ScriptRun`, `ArtifactUpload` | `Recovers`; `AbortEndsPulls`; `CancelEnds`, `DeadlineEnds`; `UploadsEnd` |

`TypeOK` of each component is one of the conjuncts, too.  For every conjunct there is a
variant `X_Word` in its module that breaks it in these runs; `PROJECT.json` names
one for each property.

### Bounds, and why they are enough

**pool.**  Three jobs of two projects, two permits, a shutdown at any moment.
Three jobs over two permits is the least that makes a job wait for a permit
while ids are given back; two projects make the runner's ids and a project's
ids differ.

**workspaces.**  Kept workspaces, three jobs of one project of which one is
protected, one workspace left by an earlier run, one eviction task at a time.
Bounds: no shutdown (`NoShutdown`: it does not touch how a running task uses its
workspace), and the two unprotected jobs are symmetric.

**evicted** uses one more bound, `FastEvictions`: no directory grows old *while*
an eviction runs, so the violation does not rest on an eviction that takes days.

**trace.**  Four bytes with a limit of three, so that the limit is met exactly,
passed, and passed by a cut; three attempts per request (`max_attempts` of the
code), two of finish, three flushes before it.  Three requests can be on the way
at once.

**job_run.**  A payload with a plain step, a step that may fail, an
on_failure step and an after_script; artifacts with every `when`, caches for both
results; two checkout attempts and three report attempts, so that there is a
first, a middle and a last one.  The code's larger numbers (10 and 8) only add
middle ones.  Of what ends a run, each property names what it needs:
`AbortEndsRun` nothing beyond the run itself; `GoneEndsRun` that heartbeats are
answered (`WF(Touch)`); `DeadlinesEndRun` that image pulls end and deadlines pass.
That pulls need an assumption of their own is what the code does: `ensure_image`
has no deadline and no look at `canceling`.

**host.**

- `DockerHost`: one runner with every kind of container, two starts (so that a
  sweep follows a kill) and one call that fails for no reason; and two runners, one
  start each, whose jobs have a service, for the races over a name.
- `JobCache`: two hosts with a job each at a time, one of them with a job of another
  key that evicts; two archives, since a stale one needs an old and a new one; two
  attempts to restore.  And two jobs of the key at once on one host, with three archives:
  one that is overtaken, one that overtakes, and what was there before.
- `S3Breaker`: three calls (the trial, one that skips, one still retrying from before
  the outage), two attempts, one call dropped; the cooldown is as long as a stall, as
  in the code.
- `TokenRotation`: two config tokens, a lifetime of four and a clock to nine, which is
  two rotations and a restart between them.
- `Upgrade`: two processes at a time, two runs of each, two releases.
- `DockerSettings`: 63 for `i64::MAX`, 4 for 1024; sizes at 0, at dockerd's minimum,
  at and beyond the largest integer, -1 and none.
- `RegistryWarnings`: addresses of two and three bits, every CIDR over them, alone
  and beside one of the other family, all forms of a registry's name.

**stages.**

- `JobEnvironment`: jobs whose variables refer to each other, are files, raw, given
  twice, with and without a clone path of their own.
- `Checkout`: two jobs in one workspace, all strategies that differ, two attempts.
- `CacheKeys`: one job of any kind with two attempts, over any archives and objects that
  earlier ones may have saved under its keys, while jobs of every kind save here and
  elsewhere, objects expire and what may be old is evicted.
- `ImagePull`: two jobs, one image removed by an administrator, users who may and may
  not pull.
- `Extraction`: archives with directories, files and links, to names that exist or
  are replaced meanwhile once; two attempts.
- `Deadlines`: timeouts of 0, short and longer than the last instant.
- `ScriptRun`: two bytes of output over two streams and two processes.
- `SecretScrubber`: two settings, one with a secret made of letters next to a
  pattern, one with signs and encoded forms; every output of up to six (five) characters in
  every division into chunks.
- `ArtifactUpload`: two artifacts, a directory, a link to one, files that are
  replaced twice; three attempts.

**waits.**  The same components with less room for data and more for time: two calls
to S3 of which one is dropped, pulls that never answer, services that crash or never
listen, a script that prints forever, requests that never succeed.  The runner's
`environment` sets a variable that the name of a service refers to.

### Fairness

`RunnerDaemon`: weak fairness of the loop, of each task and of each
eviction task, since tokio polls every ready task and every request of theirs has
a timeout; strong fairness of `WaitBreak`, since `select!` starts at a random
branch, so a branch that is ready again and again is eventually taken.  A job's
task is taken to end: `job_run` shows from which assumptions it does.
`TraceStream`: weak fairness of the writer's own steps; GitLab and the network
promise nothing.  `JobRun`: weak fairness of what the task does by itself or when
a limit it waits for has been reached (`Progress`), and of the heartbeat's
reaction to an abort; nothing is assumed of scripts, pulls, users, GitLab or
clocks.

In `waits`: `S3Breaker` has weak fairness of each call's steps, of new calls and of
the clock; nothing of S3, but `Recovers` speaks of an S3 that stays up.
`ImagePull` has weak fairness of what a job does by itself, not of the registry's
answers (`Pulled`, `PullFails`): a pull may hang.  `Services`: of the helper's and the
runner's steps, not of `Listen`.  `ScriptRun`: of the branches the runner's select
would take; in Docker the deadline is not one of them while output is ready, since
`timeout_at` polls the output first.  `ArtifactUpload`: of the runner's steps; each
request has a timeout, so an attempt ends.  `JobRequest`: of the loop's steps, for the
same reason, and of the shutdown.

## Where code and documentation differ

Each run that ends in a violation stands for one of these:

1. **A running job can lose its workspace** (`evicted`).  The field's comment
   says "Workspaces of running jobs, never evicted".  The eviction task works
   with a copy of `workspaces_in_use`; a job that registers after the copy is
   protected only by its fresh marker.  If the task read the old marker before
   the job's `prepare` wrote the new one, it removes the directory afterwards.
   What does hold, and is proved: a job registered *before* the copy keeps its
   workspace.
2. **A shutdown may still start one more job** (`newjob`).  `Shutdown::Graceful`
   is documented as "Take no new jobs", as is SIGQUIT in `docs/operations.md`.
   The select in `start` is not biased, so with a free permit and a shutdown
   already requested it may take the permit and ask GitLab for a job.
3. **A successful job without its artifacts** (`run_artifacts`).  On SIGTERM
   during the after_script the heartbeat sets the signal to `Aborted`; the
   outcome of a job that succeeded so far stays Ok; the uploads are skipped; and
   because the runner is shutting down the run does not return early but reports
   success.  `docs/operations.md` says such jobs are reported as failed, and the
   comment at the uploads says a job without its uploads fails.
4. **A run without a report** (`run_report`).  `execute_job` is documented to
   "always report a final state to GitLab".  A SIGTERM that arrives after
   `stopped_by_shutdown` was read, seen by a last poll of the heartbeat that is
   already running on another worker, sets the signal to `Aborted`; `run_job`
   then takes the job for one canceled in GitLab and returns Ok.
   `FinishedIsFinal` in `job_run` shows that this window is the only one.

The others are met in the components of `host`, `stages` and `waits`.  Where a claim is
named, the MC module states what is written as it stands, without the exceptions that the
passing run's properties make, and the claim fails: TLC shows how, given a cfg with that
component alone in `Parts` and the claim as its property, as `cache_sidecar` (9) has it.
That run is kept because two jobs with one cache key on a host are ordinary as soon as
`concurrent` is above 1.  The rest the models leave out or allow for.

| | Where | What the code does | What is written | Claim |
|---|---|---|---|---|
| 5 | `docker.rs:900` | `create_named` inspects the container of its name and later removes what has the name, also one that another runner created in between | `docker.rs:881` "must not be killed" | `OthersAreNotKilled` |
| 6 | `docker.rs:692` | networks are removed by name, without a look at their label | `docs/gitlab.md:118` "only touches containers and networks it labels" | |
| 7 | `docker.rs:373` | a helper that was created but did not start is not recorded, so `release` leaves it to the next sweep | `docs/operations.md:33` "removed when it ends, also when it fails" | |
| 8 | `docker.rs:562` | a cache volume's name has neither runner nor GitLab in it: two runners on one daemon share the volumes of project 5 | `docker.rs:551` "parallel jobs do not share one" | |
| 9 | `job_cache.rs:228` | a download that started before a save of the same key may put the old archive next to the new ETag | `job_cache.rs:4` the sidecar holds the ETag of the archive's object | `SidecarIsOfArchive` |
| 10 | `job_cache.rs:278` | `save` uploads by path, so what a download put there meanwhile | `docs/configuration.md:156` "Saved archives are written locally and uploaded" | `SavedIsInS3` |
| 11 | `job_cache.rs:184` | an archive may be evicted between S3's 304 and the look at the file; the restore finds nothing | `docs/configuration.md:155` "taken from the local disk" | `UnchangedIsFound` |
| 12 | `s3.rs:332` | a trial may last longer than the cooldown, and a second one then starts | `docs/configuration.md:168` "one call tries S3 again while the others keep skipping it" | `OneCallTries` |
| 13 | `secret_scrubber.rs:208` | what ends with no token character is out at once: with `password: ` in one chunk and the value in the next, the name is gone before the pattern can match | `secret_scrubber.rs:166` "still masked" | `SplitSecretIsMasked` |
| 14 | `secret_scrubber.rs:221` | the boundary moves in one pass, so a later match can move it into an earlier one | `secret_scrubber.rs:219` "Never cut through a match" | `MatchesAreWhole` |
| 15 | `docker.rs:1116` | `timeout_at` polls the output first: output that is ready at each poll keeps the deadline from being seen | `docs/pipelines.md:14` the job times out | |
| 16 | `shell.rs:168` | what called `setsid` is out of the group that is killed | `shell.rs:107` "kills everything the script started" | `StopKillsAll` |
| 17 | `executor.rs:758` | an invalid byte makes an incomplete character at the chunk's end invalid too | `executor.rs:745` "without breaking characters split across chunks" | |
| 18 | `artifacts.rs:132` | entries before an unsafe one are already extracted | `artifacts.rs:102` "The whole archive is rejected" | `UnsafeIsRejected` |
| 19 | `artifacts.rs:419` | a file behind a link to a directory of the workspace is archived a second time | `artifacts.rs:389` "matches reached through a symlinked directory are skipped" | `LinkedFilesAreSkipped` |
| 20 | `executor.rs:201` | only the directory of this job's own clone path is cleared of an earlier job's files | `executor.rs:196` "remove what an earlier job left" | `EarlierFilesAreRemoved` |
| 21 | `docker.rs:665` | the job timeout starts after the pulls, which have none: a stalled registry holds the slot | `docs/pipelines.md:14` | |
| 22 | `mod.rs:44` | NO_PROXY expands a service's names without the runner's `environment`, the network with it | `mod.rs:43` service aliases are "never behind the proxy" | `NamesAreDirect` |
| 23 | `main.rs:274` | two upgrades at once share `<exe>.new`: one may rename what the other has just truncated; and one whose own file was renamed over upgrades "turboci (deleted)", and says that it succeeded | `main.rs:214` "checking it ... and making sure it runs" | `ProgramAlwaysRuns` |
| 24 | `config.rs:219` | `validate` accepts limits that dockerd refuses (`memory = "0"` beside a swap, less than its minimum, a reservation above the limit) | `config.rs:204` "Check every setting that can be wrong" | `SwapNeedsMemory` |
| 25 | `docker.rs:289` | names are resolved to IPv6 only when they have no IPv4 address; dockerd looks at all | `docker.rs:100` "Like dockerd" | `LikeDockerd` |
| 26 | `executor.rs:451` | near the end of the job an after_script has five minutes, also when it was given ten | `docs/pipelines.md:15` "5 minutes, or `RUNNER_AFTER_SCRIPT_TIMEOUT`" | |
| 27 | `job_cache.rs:138` | the eviction of 11 makes the restore go on to a fallback key, though S3 has the archive of the key | `docs/pipelines.md:72` "Tried in order when the key has no archive" | `FallbackWithoutArchive` |
| 28 | `gitlab/mod.rs:278` | `update_job` does not try again after a status it does not name, 429 for one: the job runs on at GitLab | `gitlab/mod.rs:191` "fail it instead of leaving it running" | `RejectedJobsFail` |

(`docker.rs`, `shell.rs`, `executor.rs`, `job_cache.rs`, `artifacts.rs`, `s3.rs`,
`config.rs` and `mod.rs` are those of `src/src/runner_daemon/`.  Of 20 and 22 it takes a
`GIT_CLONE_PATH` of its own and an `environment` that a service's name refers to, of 9 and 10
two jobs with one cache key on a host.)

## Proofs

`RunnerDaemonProofs` proves, for every set of jobs and projects, every
`concurrent`, every number of overlapping evictions and every set of leftover
workspaces, from `DaemonAssumption` alone (the constants have their types and
`concurrent` is positive):

- `TypeCorrect`, `PermitsConserved`, `IdsDistinct`, `IdsBounded`,
  `WorkspacesExclusive`, `EvictionsSpareRegistered`, `LeftoversAreTrusted`,
  `StopsCleanly`: the invariants of the runs `pool` and `workspaces`;
- `LowestFreeId`: `lowest_free` of any finite set of ids is unused and at most
  their number;
- `ImplementsPoolSafety`: every behaviour of the daemon is one of `JobPool`'s
  safety part.

The inductive invariant `IInv` is built in layers, each inductive given the ones
below it, with a lemma for its initial and its step part:

1. `TypeOK` and `PermitInv`.  The permits are conserved *among finitely many
   holders*: finiteness is part of the invariant, since the set of jobs may be
   infinite and only the permits bound the holders.
2. `SlotInv`.  `IdsExact` says that `ConcurrencySlots` holds exactly the ids of
   the tasks that have one; with it `lowest_free` is fresh (`DistinctIds`), and
   fewer than `concurrent` others hold an id, because each also holds a permit
   (`IdsBelowConcurrent`).  This is where releasing ids before the permit matters.
3. `WorkspaceExclusive` follows the ids: registered jobs own an id, and
   `workspaces_in_use` is exactly their directories.
4. `EvictionInv`: as long as a job that was registered when the copy was made
   still is, its directory is in the copy.  A registered job never registers
   again, which is what makes this stable.
5. `LeftByInv`: files of a job lie only in directories named after that job's
   project and protection.

`TraceStreamProofs` proves `TypeCorrect`, `LogsArePrefixes`, `AckedAreStored`,
`CompletesAreStored` and `SentNeverBack` (`NeverUnacknowledged`) for every limit,
every number of attempts and every amount of output, from `TraceAssumption`.  Its
`IInv` adds to the properties what makes them survive a request that arrives late:

- `Faithful`: every request in `net`, given up or not, is the part of the trace
  its range names.  The trace only grows (`AppendGrows`), so this stays true, and
  a request that happens to continue GitLab's log extends it by the right bytes.
- `CallInv`: the request still waited for starts at `sent`, so the 202 to it is
  about the current range; an answer that does not say "over" has an offset
  between `sent` and the length of the log.  The 416 case needs `AckedIsStored`
  itself: GitLab reports its length, which is at least what was acknowledged.
- an `Aborted` answer implies that the job is over at GitLab, which never changes
  back; that is the only case in which `sent` may run ahead of the log.

Two theorems rest on this invariant.  `TracesAreOutput` (`TraceIsOutput`) says byte by
byte what the trace holds (`OutputInv`): all that was produced, or the part that fits
the limit and then the notice.  `ImplementsLogSafety` shows that `TraceStream` implements
the safety part of `JobLog`: a request that is served extends what the log keeps by
what was written, and nothing else changes it.  The fairness part of `ImplementsJobLog`
stays with TLC.

`JobRunProofs` proves `TypeCorrect`, `VerdictsEarned`, `AfterScriptsKnow`,
`CachesMatch`, `CancelsNotOurs` and `FinishedFinal` for every payload, every set of
artifacts and caches and every number of attempts, from `RunAssumption` and
`AfterScriptIsLast`.  The steps of users, GitLab, clocks and the heartbeat leave
the task's own state alone (`OutsideFrame`), so each layer of `IInv` is one lemma
per step of the task:

1. `PlaceInv`, `DataInv`: where the task is, that a retry is always one that is
   allowed, and the ranges of its data.
2. `VerdictInv`: the outcome is a failure exactly when something that counts went
   wrong; while uploads run, a failed one is not yet part of the outcome.
3. `CacheInv`: no cache is saved before the outcome is settled between success
   and failure, and every saved one is wanted under it.
4. `SignalInv`: what the cancel signal may be taken to mean.  `Aborted` is either
   the runner's abort or a final state at GitLab; `Judge` and `Check` tell the two
   apart, up to the window of finding 4.
5. `KnowInv`: once an after_script was told a status it is the last thing the
   executor runs, so only uploads, a panic and the shutdown can change the outcome.

The theorems about the components of `host`, `stages` and `waits` have their hypotheses
in their statements; the MC module of each run evaluates them for its constants.

`JobRequestProofs` proves `TypeCorrect`, `JobsNotForgotten` (`NotForgotten`) and
`FailuresExplained` (`FailedIsExplained`) for every set of jobs and every number of
attempts, from `RequestAssumption`; a job that GitLab refused to end (`refused`) is one of the
ways `NotForgotten` names in which a job stays running (divergence 28).  Besides the two properties `IInv` needs three facts:
a job whose answer arrived is never `pending` again (`AssignedInv`); attempts stay within
their bounds (`AttemptInv`); and an update that fails a job is sent, and may arrive late,
only when the job is `Settled`: its log has the reason, or GitLab ended the job, or the
attempts to write the reason were used up (`OrderInv`).  A late update makes the last one
necessary: it fails a job long after the loop went on.

`DeadlinesProofs` proves `StepsEndInTime`, `SlotsAreFreed`, `GraceGiven`, `TimeoutsTrue`
and `TypeCorrect`, which are the conjuncts of `DeadlinesHold`, for every timeout, default
and number of steps.  `IInv` says that what runs has the limit of its
phase (`LimitInv`), how the steps' deadline follows from the job's and their own
(`ScriptInv`), where the after_script's limit lies (`AfterInv`), and that the clock does
not pass a limit (`ClockInv`).  That no instant overflows needs more: a bound on all
pauses between stages (`PauseInv`) and `InstantsSuffice`, which the code has because a
timeout is a 32-bit number of seconds and an `Instant` holds more; the code adds to
an instant unchecked in two places.

`TokenRotationProofs` proves `StoredValid`, `StoredEndsTrue`, `TokensMasked`,
`ResetsAreStored` and `EndsByFailures` for every set of config tokens, every lifetime and
any length of time, from `TokenAssumption`.  The heart of `IInv` is which token is the
valid one: none is newer (`TokenInv`), the one in use is it, or its loss has one of four
names (`InUseInv`), the answer at hand is it between the reset and `install`; and while a
reset is under way the file holds the token that is reset with its true end (`HeldInv`,
`EndInv`).  `WaitInv` ties the sleep to the reset time, which is what makes a token
that ends in use the fault of a request or of the file.

`JobCacheProofs` proves `NotModifiedCurrent`, `RestoresAreCurrent`, `SavesAreUploaded` and
`TypeCorrect` for any number of hosts, jobs, other jobs that evict, archives and attempts,
from `CacheAssumption` alone, whichever jobs run together on a host.  What holds of a job
holds until another one of the key overtakes it, what holds of a host until such a job has
written there; a host is sound again when one job has written both of its files
(`Overtakes`).  Archive and sidecar are written one after the other, so `IInv`
says at each step of a job what the two are relative to what it has in hand:

1. `DownloadInv`: between archive and sidecar of a download the old sidecar is none, or
   that of the new archive, or no object's that S3 still has.
2. `SaveInv`: between archive and sidecar of a save the sidecar is older than the archive,
   which is harmless (`HostInv`); the object uploaded is the archive that was made, unless
   another job has replaced it, which overtakes this one.
3. `RestoreInv`: an ETag that was read stands for an archive that is there, so what S3
   answered names one that is there, unless an eviction took it (`evicted`).
4. `UnsentInv`: an archive that was not sent yet is known to nobody, so the object that
   a `put_file` makes is no ETag of any host or job: this is what keeps `HostInv` on the
   *other* hosts.

`UpgradeProofs` proves `ProgramIsWhole`, `LeftoversHarmless`, `UpgradesInstalled` and
`TypeCorrect` for any number of releases and of upgrades, at a time or one after the other,
each ended by a fault, a kill or itself, from `UpgradeAssumption` alone.  `CrossedInv` says
that two upgrades with the file in hand are both crossed.  For one that is not, `OwnInv`
follows the file next to the program: it is the upgrade's own once it is opened, it is never
the program's (`TypeOK`), it holds the verified release once written, and is executable once
it is tried; so the rename puts a whole release in place, and a leftover cannot get in its
way.  A crossed one may put a file in place that is cut short (`doubtful`), and write on in
it (`FileInv`), but what it writes was verified: the program is never a foreign download.

Model-checked only:

- liveness (`ShutdownStops`, `KeepsPolling`, the fairness parts of `ImplementsJobPool` and
  `ImplementsJobLog`, `FinishReturns`, `AbortEndsRun`, `GoneEndsRun`, `DeadlinesEndRun` and
  the temporal properties of `waits`): liveness and ENABLED are beyond TLAPS;
- the bound on the number of resets in `TypeOK` of `TokenRotation`, which is a bound of the
  model's clock;
- what is computed by folds over data (`SecretScrubber`, `JobEnvironment`, `Extraction`), which would need
  induction over it;
- the other components of `host`, `stages` and `waits`, whose state proofs do not cover
  yet (see the plan).

## What is left out

- Data: log text, scripts, archive contents, exit codes, wording.
- The components of `host`, `stages` and `waits` are not composed with each other or
  with `JobRun`.
- `RunnerDaemon`: the sweep of orphans before the loop, the token rotation task and
  the lock it holds at the drain, file variables.
- `JobRun`: the pulls of a job's several images are one `PullEnds`, all that
  `start_and_run` sets up is one `Create`; hooks that are not configured are
  hooks that exit with 0; the wait for an interrupted restore
  (`RESTORE_STOP_GRACE`) is part of `RestoreEnds`; answers to log updates arrive
  as `TraceAnswered` at any point where the task writes; a panic occurs only
  inside the executor, where the code catches it.
- `JobRequest`: the JSON.
- `Deadlines`: which steps run, and why.
- `DockerHost`: containers' settings; two jobs of one runner on it at a time.
- `ImagePull`: versions, digests, credential helpers.  `Services`: the flags of dind,
  how long a try takes.
- `DockerSettings`: TOML and the range checks of other settings.
  `RegistryWarnings`: docker.io's own entry, DNS that changes, IPv4-mapped addresses.
- `CacheKeys`: `encode_key`, archives that are extracted in part.
- `Checkout`: flags of the index, `refs/replace`, options of single git commands: what
  an earlier job leaves of these is not among what `Script` may leave.
- `Extraction`, `ArtifactUpload`: directories that are swapped while they are
  archived, files that are changed in place.
- `JobEnvironment`: `parse_duration`, `step_script`, hooks, Docker's order of writing
  files.
- `Upgrade`: a killed upgrade's `--version` child is taken to end with it; `current_exe` is
  Linux's.
- The installer, the HTTP clients' settings, the start-up of `main.rs`: code without
  state or concurrency of its own.

## Plan

Modelled: loop and workspaces, log, job run and their proofs; then token rotation,
Docker, caches and S3, scrubber, and the stages of a job.  Open:

1. Proofs: `ProtectedStaysApart` of `CacheKeys`, `OneTrialPerCooldown` of `S3Breaker`,
   `LeftoversExplained` and `SparesOthers` of `DockerHost`, `StoppedIsGone` of `ScriptRun`,
   where no recursion is in the way.
2. `RunnerDaemon` with `JobRun` as its tasks, to show that an abort drains the daemon
   when its jobs never end by themselves.  The product is beyond TLC; it needs an
   abstraction of `JobRun` to its phases, shown to be implemented by it.
3. Pairs that meet: `JobCache` under `CacheKeys`, `TokenRotation` under `RunnerDaemon`'s
   drain.
