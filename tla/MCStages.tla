------------------------------- MODULE MCStages -------------------------------
(* The stages of one job: its variables, the checkout, the cache's keys, the *)
(* images, what is extracted, the scripts with their deadlines, their output *)
(* and its secrets, the artifacts.  JobRun has their order; here each is     *)
(* looked at alone: a behaviour is one of a single component, `part`, while  *)
(* the others stay Idle.                                                     *)
EXTENDS Integers, FiniteSets, Expansion

CONSTANTS
    Parts,              \* the components to look at
    Nobody,             \* no job saved it
    private, common     \* jobs that pull images

VARIABLES
    part,               \* the component this behaviour is of
    \* JobEnvironment
    envJob, envJobs, envPc, envFiles, disk, kept,
    \* Checkout
    git, gitConfig, hooks, remote, have, locks, modules, tree, extra, gitPc,
    gitJob, gitJobs, plan, updating, gitAttempt, foreign, outage,
    \* CacheKeys
    keyArchive, object, old, keyPc, keyJob, keys, at, tries, warned, had, gone,
    got,
    \* ImagePull
    imageConfig, work, imageRest, imagePhase, reason, local, pulled, sent,
    used, cancel, prunes,
    \* Extraction
    extractArchive, kind, child, data, extractPc, extractI, dir, extractRest,
    extractOut, left, total, extractAttempt, extractResult, stop,
    extractChanges,
    \* Deadlines
    now, timeout, scriptTimeout, afterTimeout, stepTimeout, timePhase, running,
    began, limit, deadline, scriptDeadline, stepsFrom, steps, timeFailure,
    \* ScriptRun
    executor, state, holds, pipe, written, open, decoder, shown, scriptPc, due,
    canceled, code, killed, scriptResult,
    \* SecretScrubber
    input, pending, swallowing, scrubOut, finished,
    \* ArtifactUpload
    uploadJob, succeeded, target, node, uploadChanges, untracked, uploadPc,
    uploadI, uploadFiles, read, staged, seen, uploadAttempt, uploadFailure,
    gitlab, met

Idle == "idle"

-----------------------------------------------------------------------------
(* Secrets, in the order of the job: one starts like the other, and the      *)
(* short one comes first; or they have signs that are encoded.               *)
SecretsOfWords == <<<<"a", "b">>, <<"a", "b", "b">>>>
SecretsOfSigns == <<<<"a", "!">>, <<"a", "!", "a">>, <<"a", " ", "!">>>>

(* Archives: directories and files below them, a link that stays and one     *)
(* that leaves, a file where a directory is needed, an unsafe path, and      *)
(* files that are too big together.                                          *)
DirEntry(path)          == [path |-> path, kind |-> "dir", target |-> <<>>, size |-> 0]
FileEntry(path, size)   == [path |-> path, kind |-> "file", target |-> <<>>, size |-> size]
LinkEntry(path, points) == [path |-> path, kind |-> "link", target |-> points, size |-> 0]
ArchivesMC ==
    {<<DirEntry(<<"a">>), FileEntry(<<"a", "b">>, 2), FileEntry(<<"b">>, 1)>>,
     <<LinkEntry(<<"a">>, <<"b">>), FileEntry(<<"a", "b">>, 1)>>,
     <<LinkEntry(<<"a">>, <<"..", "b">>), FileEntry(<<"a", "b">>, 1)>>,
     <<FileEntry(<<"a">>, 1), FileEntry(<<"a", "b">>, 1)>>,
     <<FileEntry(<<"b">>, 1), FileEntry(<<"..", "b">>, 1)>>,
     <<FileEntry(<<"a">>, 2), FileEntry(<<"b">>, 3)>>}

(* Checkouts: all but those that differ only in what does not matter.        *)
CheckoutsMC ==
    {j \in [sha : {"c1", "c2"}, strategy : {"none", "empty", "clone", "fetch", "default"},
            allow : BOOLEAN, submodules : BOOLEAN, checkout : BOOLEAN, clean : BOOLEAN,
            valid : BOOLEAN] :
        /\ j.strategy # "default" => ~j.allow
        /\ j.strategy \notin {"fetch", "default"} => ~j.submodules
        /\ j.strategy \in {"none", "empty"} => j.checkout
        /\ j.strategy # "fetch" \/ ~j.checkout => j.clean
        /\ ~j.valid => j.strategy = "fetch" /\ j.checkout}

(* Variables: references forwards, backwards and to oneself, names that are  *)
(* defined twice, files, clone paths.                                        *)
Plain(key, value) == [key |-> key, value |-> value, raw |-> FALSE, file |-> FALSE, public |-> TRUE]
Raw(key, value)   == [Plain(key, value) EXCEPT !.raw = TRUE]
InFile(key, value) == [Plain(key, value) EXCEPT !.file = TRUE]
a == Text("a")
b == Text("b")
ProxyMC == <<Raw("PROXY", <<a>>)>>
EnvironmentMC == <<Plain("ENV", <<Ref("A")>>)>>
VariablesMC ==
    {<<>>,
     <<Plain("A", <<Ref("B"), a>>), Raw("B", <<b, Ref("A")>>), InFile("F", <<Ref("A")>>)>>,
     <<InFile("F", <<a>>), Raw("PROXY", <<b>>), InFile("F", <<Ref("ENV"), b>>)>>,
     <<InFile("A", <<b>>), Raw("A", <<a>>), InFile("CI_SERVER_TLS_CA_FILE", <<Ref("A")>>)>>,
     <<Raw("A", <<a>>), Raw("A", <<b>>), InFile("G", <<Ref("PROXY"), Ref("CI_PROJECT_DIR")>>)>>}
JobsMC ==
    {[vars |-> v, clone |-> c, service |-> s] :
        v \in VariablesMC, c \in {<<>>, <<a>>, <<Ref("A")>>},
        s \in {<<>>, <<Plain("A", <<Ref("B")>>), Plain("PROXY", <<Ref("A"), b>>)>>}}

(* Artifacts: a directory with a report, a glob that goes through a link,    *)
(* untracked files, and artifacts of jobs that failed.                       *)
Artifact(when, format, paths, exclude, untrackedToo) ==
    [when |-> when, format |-> format, paths |-> paths, exclude |-> exclude,
     untracked |-> untrackedToo]
ArtifactsMC ==
    {<<Artifact("on_success", "zip", {<<"d", ".">>}, {<<"d", "y">>}, FALSE),
       Artifact("always", "raw", {<<"d", "x">>}, {}, FALSE)>>,
     <<Artifact("always", "gzip", {<<"d", "x">>, <<"l", "x">>, <<"l", ".">>}, {}, FALSE),
       Artifact("on_failure", "zip", {}, {}, TRUE)>>,
     <<Artifact("on_failure", "raw", {<<"d", ".">>}, {}, FALSE),
       Artifact("on_success", "zip", {<<"d", "y">>, <<"l", "y">>, <<"l", ".">>}, {}, TRUE)>>}

(* Images: a private one of GitLab's registry that the user of one job may   *)
(* pull, one of Docker Hub, one a company pays for, and the helper.          *)
App    == [path |-> <<"gitlab.corp", "app">>, tag |-> "1"]
Pg     == [path |-> <<"postgres">>, tag |-> ""]
Paid   == [path |-> <<"index.docker.io", "paid">>, tag |-> "latest"]
Helper == [path |-> <<"turboci", "helper">>, tag |-> "2"]

NoUser == "no user"          \* as ImagePull has it
AccessMC(image) ==
    CASE image.path = App.path -> {"alice", "runner"}
      [] image.path = Paid.path -> {"paying"}
      [] OTHER -> {NoUser, "alice", "bob", "runner", "paying"}

Wanted(image, policies) == [image |-> image, policies |-> policies]
Credential(user) == [type |-> "registry", host |-> "gitlab.corp", user |-> user]
Login(where, user) == [host |-> where, user |-> user]

WorksMC ==
    {[images |-> <<Wanted(App, <<>>), Wanted(Pg, <<"if-not-present">>)>>, sources |-> TRUE,
      auths |-> <<>>,
      credentials |-> <<[Credential("bob") EXCEPT !.type = "other"], Credential("alice")>>],
     [images |-> <<Wanted(App, <<"never", "sometimes", "if-not-present">>)>>, sources |-> FALSE,
      auths |-> <<>>, credentials |-> <<Credential("bob")>>],
     [images |-> <<Wanted(Paid, <<"always">>), Wanted(App, <<"never", "always">>)>>,
      sources |-> FALSE,
      auths |-> <<Login("docker.io", "paying"), Login("gitlab.corp", NoUser)>>,
      credentials |-> <<Credential("bob")>>],
     [images |-> <<Wanted(App, <<"sometimes", "if-not-present">>)>>, sources |-> TRUE,
      auths |-> <<Login("gitlab.corp", "alice")>>, credentials |-> <<Credential("bob")>>]}

ConfigMC(default, allowed, auths) ==
    [default |-> default, allowed |-> allowed, auths |-> auths, helper |-> Helper]
ConfigsMC ==
    {ConfigMC("always", {}, <<>>),
     ConfigMC("always", {"always", "if-not-present"}, <<>>),
     ConfigMC("never", {"never", "if-not-present"}, <<Login("gitlab.corp", "runner")>>)}

(* Cache keys of jobs of a protected and of an unprotected branch.  The      *)
(* fallback is written out, put together, hidden in a variable or behind     *)
(* blanks, of another protection, or empty.                                  *)
Branch == <<Ref("CI_COMMIT_REF_SLUG")>>
Common == <<Text("common")>>
ProtectedSuffix == Text("-protected")
Env(branch) == [k \in {"CI_COMMIT_REF_SLUG", "TARGET", "CACHE"} |->
    CASE k = "CI_COMMIT_REF_SLUG" -> <<Text(branch)>>
      [] k = "TARGET" -> <<Text("main")>>
      [] OTHER -> <<Text("main"), ProtectedSuffix>>]
OfMain == [protected |-> TRUE, vars |-> Env("main"), key |-> Branch,
           fallbacks |-> <<Common>>, last |-> <<>>]
OfDev(last) == [protected |-> FALSE, vars |-> Env("dev"), key |-> Branch,
                fallbacks |-> <<Common>>, last |-> last]
KeysMC ==
    {OfMain,
     [OfMain EXCEPT !.key = Common],
     OfDev(<< <<Text("main"), ProtectedSuffix, Text(" ")>> >>),
     OfDev(<< <<Ref("CACHE")>> >>),
     OfDev(<< <<Ref("TARGET"), Text("-non_protected")>> >>),
     [OfDev(<< <<Ref("UNSET"), Text(" ")>> >>) EXCEPT !.key = <<Ref("UNSET")>>, !.fallbacks = <<Branch>>],
     [OfDev(<<>>) EXCEPT !.key = <<Ref("TARGET")>>]}

-----------------------------------------------------------------------------
(* The components. *)

(* Two jobs in a workspace, with a proxy, an environment and a custom CA.    *)
Variables == INSTANCE JobEnvironment WITH
    Jobs <- JobsMC, Before <- ProxyMC, After <- EnvironmentMC,
    Directories <- {<<Text("project")>>, <<a>>, <<b>>}, HasCa <- TRUE,
    MaxJobs <- 2, job <- envJob, jobs <- envJobs, pc <- envPc,
    files <- envFiles

(* Two jobs in one workspace, two attempts each.                            *)
Sources == INSTANCE Checkout WITH
    Commits <- {"c1", "c2"}, Jobs <- CheckoutsMC, MaxJobs <- 2,
    MaxAttempts <- 2, config <- gitConfig, pc <- gitPc, job <- gitJob,
    jobs <- gitJobs, attempt <- gitAttempt

(* One job, while others save and evict archives, here and in S3.            *)
CacheOf == INSTANCE CacheKeys WITH
    Jobs <- KeysMC, Attempts <- 2, Nobody <- Nobody,
    archive <- keyArchive, pc <- keyPc, job <- keyJob

Images == INSTANCE ImagePull WITH
    Jobs <- {private, common}, Works <- WorksMC, Configs <- ConfigsMC,
    Hosts <- {"gitlab.corp", "index.docker.io", "registry-1.docker.io"},
    Access <- AccessMC, MaxPrunes <- 1, config <- imageConfig,
    rest <- imageRest, phase <- imagePhase

(* Two attempts, over what an earlier job left, while the job makes changes. *)
Extracts == INSTANCE Extraction WITH
    Names <- {"a", "b"}, Archives <- ArchivesMC,
    Leftovers <- {"none", "dir", "file", "link"}, MaxEntries <- 3,
    MaxBytes <- 3, Tries <- 2, MaxNodes <- 10, MaxChanges <- 1,
    archive <- extractArchive, pc <- extractPc, i <- extractI,
    rest <- extractRest, out <- extractOut, attempt <- extractAttempt,
    result <- extractResult, changes <- extractChanges

(* A timeout before, at and after the limits of the stages; the largest      *)
(* overflows.  The defaults differ from every value that is asked for.      *)
Times == INSTANCE Deadlines WITH
    JobTimeouts <- {0, 3, 9}, StageTimeouts <- {0, 1, 5, 12, 60},
    StepTimeouts <- {0, 2}, DefaultJob <- 6, DefaultAfter <- 4,
    MaxInstant <- 60, MaxSteps <- 2, MaxPause <- 2, phase <- timePhase,
    failure <- timeFailure

(* Any output of two bytes on two streams, with both executors.             *)
Script == INSTANCE ScriptRun WITH
    Executors <- {"shell", "docker"}, MaxBytes <- 2, Endless <- FALSE,
    pc <- scriptPc, result <- scriptResult

(* Outputs of words with the pattern, and of encoded and plain signs.        *)
Words == INSTANCE SecretScrubber WITH
    Letters <- {"a", "b"}, Others <- {}, Key <- "k", Percent <- "%",
    MAX_HOLDBACK <- 2, MAX_PENDING <- 3, ShortestSecret <- 2,
    ShortestValue <- 2, ChunkSizes <- {1, 3}, Printed <- {"a", "b", "k", " "},
    MaxInput <- 6, JobSecrets <- SecretsOfWords, out <- scrubOut
Signs == INSTANCE SecretScrubber WITH
    Letters <- {"a", "b"}, Others <- {"!"}, Key <- "k", Percent <- "%",
    MAX_HOLDBACK <- 1, MAX_PENDING <- 3, ShortestSecret <- 3,
    ShortestValue <- 2, ChunkSizes <- {1, 2}, Printed <- {"a", "%", "!", " "},
    MaxInput <- 5, JobSecrets <- SecretsOfSigns, out <- scrubOut

(* Two artifacts of a job whose files are replaced twice meanwhile.          *)
Artifacts == INSTANCE ArtifactUpload WITH
    Dirs <- {"d"}, Links <- {"l"}, Leaves <- {"x", "y"},
    Untracked <- {<<"d", "x">>}, Jobs <- ArtifactsMC, MaxAttempts <- 3,
    MaxChanges <- 2, job <- uploadJob, changes <- uploadChanges,
    pc <- uploadPc, i <- uploadI, files <- uploadFiles,
    attempt <- uploadAttempt, failure <- uploadFailure

EnvIdle ==
    /\ envJob = Idle /\ envJobs = Idle /\ envPc = Idle /\ envFiles = Idle
    /\ disk = Idle /\ kept = Idle

GitIdle ==
    /\ git = Idle /\ gitConfig = Idle /\ hooks = Idle /\ remote = Idle
    /\ have = Idle /\ locks = Idle /\ modules = Idle /\ tree = Idle
    /\ extra = Idle /\ gitPc = Idle /\ gitJob = Idle /\ gitJobs = Idle
    /\ plan = Idle /\ updating = Idle /\ gitAttempt = Idle /\ foreign = Idle
    /\ outage = Idle

KeyIdle ==
    /\ keyArchive = Idle /\ object = Idle /\ old = Idle /\ keyPc = Idle
    /\ keyJob = Idle /\ keys = Idle /\ at = Idle /\ tries = Idle
    /\ warned = Idle /\ had = Idle /\ gone = Idle /\ got = Idle

ImageIdle ==
    /\ imageConfig = Idle /\ work = Idle /\ imageRest = Idle
    /\ imagePhase = Idle /\ reason = Idle /\ local = Idle /\ pulled = Idle
    /\ sent = Idle /\ used = Idle /\ cancel = Idle /\ prunes = Idle

ExtractIdle ==
    /\ extractArchive = Idle /\ kind = Idle /\ child = Idle /\ data = Idle
    /\ extractPc = Idle /\ extractI = Idle /\ dir = Idle /\ extractRest = Idle
    /\ extractOut = Idle /\ left = Idle /\ total = Idle
    /\ extractAttempt = Idle /\ extractResult = Idle /\ stop = Idle
    /\ extractChanges = Idle

TimeIdle ==
    /\ now = Idle /\ timeout = Idle /\ scriptTimeout = Idle
    /\ afterTimeout = Idle /\ stepTimeout = Idle /\ timePhase = Idle
    /\ running = Idle /\ began = Idle /\ limit = Idle /\ deadline = Idle
    /\ scriptDeadline = Idle /\ stepsFrom = Idle /\ steps = Idle
    /\ timeFailure = Idle

ScriptIdle ==
    /\ executor = Idle /\ state = Idle /\ holds = Idle /\ pipe = Idle
    /\ written = Idle /\ open = Idle /\ decoder = Idle /\ shown = Idle
    /\ scriptPc = Idle /\ due = Idle /\ canceled = Idle /\ code = Idle
    /\ killed = Idle /\ scriptResult = Idle

ScrubIdle ==
    /\ input = Idle /\ pending = Idle /\ swallowing = Idle /\ scrubOut = Idle
    /\ finished = Idle

UploadIdle ==
    /\ uploadJob = Idle /\ succeeded = Idle /\ target = Idle /\ node = Idle
    /\ uploadChanges = Idle /\ untracked = Idle /\ uploadPc = Idle
    /\ uploadI = Idle /\ uploadFiles = Idle /\ read = Idle /\ staged = Idle
    /\ seen = Idle /\ uploadAttempt = Idle /\ uploadFailure = Idle
    /\ gitlab = Idle /\ met = Idle

envVars ==
    <<envJob, envJobs, envPc, envFiles, disk, kept>>
gitVars ==
    <<git, gitConfig, hooks, remote, have, locks, modules, tree, extra, gitPc,
      gitJob, gitJobs, plan, updating, gitAttempt, foreign, outage>>
keyVars ==
    <<keyArchive, object, old, keyPc, keyJob, keys, at, tries, warned, had, gone,
      got>>
imageVars ==
    <<imageConfig, work, imageRest, imagePhase, reason, local, pulled, sent,
      used, cancel, prunes>>
extractVars ==
    <<extractArchive, kind, child, data, extractPc, extractI, dir, extractRest,
      extractOut, left, total, extractAttempt, extractResult, stop,
      extractChanges>>
timeVars ==
    <<now, timeout, scriptTimeout, afterTimeout, stepTimeout, timePhase, running,
      began, limit, deadline, scriptDeadline, stepsFrom, steps, timeFailure>>
scriptVars ==
    <<executor, state, holds, pipe, written, open, decoder, shown, scriptPc, due,
      canceled, code, killed, scriptResult>>
scrubVars ==
    <<input, pending, swallowing, scrubOut, finished>>
uploadVars ==
    <<uploadJob, succeeded, target, node, uploadChanges, untracked, uploadPc,
      uploadI, uploadFiles, read, staged, seen, uploadAttempt, uploadFailure,
      gitlab, met>>
all == <<part, envVars, gitVars, keyVars, imageVars, extractVars, timeVars, scriptVars, scrubVars, uploadVars>>

Init ==
    /\ part \in Parts
    /\ IF part = "variables" THEN Variables!Init ELSE EnvIdle
    /\ IF part = "checkout" THEN Sources!Init ELSE GitIdle
    /\ IF part = "cache keys" THEN CacheOf!Init ELSE KeyIdle
    /\ IF part = "images" THEN Images!Init ELSE ImageIdle
    /\ IF part = "extraction" THEN Extracts!Init ELSE ExtractIdle
    /\ IF part = "deadlines" THEN Times!Init ELSE TimeIdle
    /\ IF part = "script" THEN Script!Init ELSE ScriptIdle
    /\ IF part = "words" THEN Words!Init
       ELSE IF part = "signs" THEN Signs!Init ELSE ScrubIdle
    /\ IF part = "artifacts" THEN Artifacts!Init ELSE UploadIdle

EnvStep ==
    /\ part = "variables" /\ Variables!Next
    /\ UNCHANGED <<part, gitVars, keyVars, imageVars, extractVars, timeVars,
                   scriptVars, scrubVars, uploadVars>>

GitStep ==
    /\ part = "checkout" /\ Sources!Next
    /\ UNCHANGED <<part, envVars, keyVars, imageVars, extractVars, timeVars,
                   scriptVars, scrubVars, uploadVars>>

KeyStep ==
    /\ part = "cache keys" /\ CacheOf!Next
    /\ UNCHANGED <<part, envVars, gitVars, imageVars, extractVars, timeVars,
                   scriptVars, scrubVars, uploadVars>>

ImageStep ==
    /\ part = "images" /\ Images!Next
    /\ UNCHANGED <<part, envVars, gitVars, keyVars, extractVars, timeVars,
                   scriptVars, scrubVars, uploadVars>>

ExtractStep ==
    /\ part = "extraction" /\ Extracts!Next
    /\ UNCHANGED <<part, envVars, gitVars, keyVars, imageVars, timeVars,
                   scriptVars, scrubVars, uploadVars>>

TimeStep ==
    /\ part = "deadlines" /\ Times!Next
    /\ UNCHANGED <<part, envVars, gitVars, keyVars, imageVars, extractVars,
                   scriptVars, scrubVars, uploadVars>>

ScriptStep ==
    /\ part = "script" /\ Script!Next
    /\ UNCHANGED <<part, envVars, gitVars, keyVars, imageVars, extractVars,
                   timeVars, scrubVars, uploadVars>>

ScrubStep ==
    /\ \/ part = "words" /\ Words!Next
       \/ part = "signs" /\ Signs!Next
    /\ UNCHANGED <<part, envVars, gitVars, keyVars, imageVars, extractVars,
                   timeVars, scriptVars, uploadVars>>

UploadStep ==
    /\ part = "artifacts" /\ Artifacts!Next
    /\ UNCHANGED <<part, envVars, gitVars, keyVars, imageVars, extractVars,
                   timeVars, scriptVars, scrubVars>>

Next ==
    \/ EnvStep \/ GitStep \/ KeyStep \/ ImageStep
    \/ ExtractStep \/ TimeStep \/ ScriptStep \/ ScrubStep
    \/ UploadStep

Spec == Init /\ [][Next]_all

-----------------------------------------------------------------------------
(* Properties: each is stated, with its reasons, in the module of its component. *)

ASSUME Assumptions ==
    /\ Variables!EnvironmentAssumption /\ Sources!CheckoutAssumption
    /\ CacheOf!KeysAssumption /\ Images!ImageAssumption /\ Extracts!ExtractionAssumption
    /\ Times!DeadlinesAssumption /\ Times!DeadlineExists /\ Times!InstantsSuffice
    /\ Script!ScriptAssumption
    /\ Words!ScrubberAssumption /\ Signs!ScrubberAssumption
    /\ Artifacts!UploadAssumption

(* A job has its own files in the directories of its own clone path, though  *)
(* earlier jobs left files, a config, hooks, locks or a broken repository    *)
(* there.  Variables that name files do so with the content of their last    *)
(* definition, cleanup removes them, the order of unique names does not      *)
(* matter, the runner reads a variable as the job sees it, a service's own   *)
(* variables win.  A job is built from the commit GitLab names, git runs     *)
(* with no config or hooks of other jobs, sources fail only for reasons      *)
(* outside of the workspace: job_env, write_variable_files, cleanup, git.rs. *)
WorkspaceIsOwn ==
    /\ [](part = "variables" => /\ Variables!TypeOK /\ Variables!FilesAreOwn
                                /\ Variables!OrderDoesNotMatter /\ Variables!SettingsAgree
                                /\ Variables!ServiceVariablesWin)
    /\ [][part = "variables" => Variables!RemovesFiles]_all
    /\ [](part = "checkout" => /\ Sources!TypeOK /\ Sources!BuiltFromCommit
                               /\ Sources!NothingForeignRuns /\ Sources!RepairsItself)

(* A job gets no cache and no image of others.  One of an unprotected branch *)
(* restores no archive of a protected one, and a fallback key is used only   *)
(* when no key before it had an archive, but for those S3 failed for and     *)
(* those evicted before they were looked at.  Images that it may not pull run *)
(* only where the settings allow what is on the host; logins go to their own *)
(* registries, the job's own first; an image that cannot be had is told as a *)
(* failed pull: resolve_key, restore_workspace, ensure_image, image.rs.      *)
NothingIsForeign ==
    /\ [](part = "cache keys" => /\ CacheOf!TypeOK /\ CacheOf!ProtectedStaysApart
                                 /\ CacheOf!FallbackIsLast)
    /\ [](part = "images" => /\ Images!TypeOK /\ Images!NoForeignImages /\ Images!LoginsGoHome
                             /\ Images!OwnLoginFirst /\ Images!MissingIsTold)

(* What is extracted lands in the workspace; a success leaves it whole, and  *)
(* the first attempt stays within the limit.  What is uploaded has all that  *)
(* the job asked for: files nobody touched are in the archive GitLab has, a  *)
(* raw artifact is one regular file, failures are told and do not keep other *)
(* artifacts from being sent: safe_fs.rs, create_archive, upload_artifacts.  *)
FilesArriveWhole ==
    /\ [](part = "extraction" => /\ Extracts!TypeOK /\ Extracts!OutsideIsUntouched
                                 /\ Extracts!ExtractedIsWhole /\ Extracts!LimitIsKept)
    /\ [](part = "artifacts" => /\ Artifacts!TypeOK /\ Artifacts!NamedFilesAreSent
                                /\ Artifacts!RawIsAFile /\ Artifacts!FailureIsTold
                                /\ Artifacts!OthersAreTried)

(* Steps end in the job's time; after_script ends, too, but has its grace; a *)
(* timeout that is told was one: executor.rs, script_timeouts.               *)
DeadlinesHold ==
    /\ [](part = "deadlines" => /\ Times!TypeOK /\ Times!StepsInTime /\ Times!SlotIsFreed)
    /\ [][part = "deadlines" => Times!GivesGrace /\ Times!TimesOutTruly]_all

(* The output of a script that ended by itself is in the trace, if it is     *)
(* text.  Of a script that was stopped no process runs on but, of the shell  *)
(* executor, what left its process group.  However the output is split into  *)
(* chunks, what is masked is what masking the whole output gives, but for    *)
(* secrets that cross each other and values of a pattern that start like no  *)
(* token; and no secret is in the log, but for those that cross: run_script, *)
(* stop, push, finish.  What fails of the rest is stated at the end.         *)
OutputIsShownAndMasked ==
    /\ [](part = "script" => /\ Script!TypeOK /\ Script!OutputIsShown /\ Script!StoppedIsGone)
    /\ [](part = "words" => Words!TypeOK /\ Words!ChunksDoNotMatter)
    /\ [](part = "signs" => Signs!TypeOK /\ Signs!SecretsAreMasked)

-----------------------------------------------------------------------------
(* What documents and comments say without these conditions.  None of it     *)
(* holds: with its component alone in Parts, TLC finds how.                  *)

(* "Tried in order when the key has no archive" (docs/pipelines.md:72).      *)
FallbackWithoutArchive == part = "cache keys" => CacheOf!NoArchiveNoFallback

(* "Remove what an earlier job left of its file variables" (executor.rs:196), *)
(* with two clone paths.                                                     *)
EarlierFilesAreRemoved == part = "variables" => Variables!NothingIsLeft

(* "The whole archive is rejected if any entry would land outside"           *)
(* (artifacts.rs:102).                                                       *)
UnsafeIsRejected == part = "extraction" => Extracts!RejectedAsAWhole

(* "Matches reached through a symlinked directory are skipped"               *)
(* (artifacts.rs:389).                                                       *)
LinkedFilesAreSkipped == part = "artifacts" => Artifacts!LinksAreNotFollowed

(* "Kills everything the script started" (shell.rs:107).                     *)
StopKillsAll == part = "script" => Script!AllIsGone

(* "A secret split across chunks is still masked" (secret_scrubber.rs:166).  *)
SplitSecretIsMasked == part = "words" => Words!SplitIsMasked

(* "Never cut through a match" (secret_scrubber.rs:219).                     *)
MatchesAreWhole == [][part = "signs" => Signs!NeverCuts]_all

=============================================================================
