------------------------------- MODULE MCWaits --------------------------------
(* What must come to an end, whatever registries, services, GitLab and the   *)
(* job's processes do: waits, retries and requests, under the fairness that  *)
(* each component states.  The components share no state: a behaviour is one *)
(* of a single component, `part`, while the others are over.                 *)
EXTENDS Integers, FiniteSets, Expansion

CONSTANTS
    Parts,              \* the components to look at
    j1, j2, j3, NoJob   \* jobs that GitLab gives, and that pull images

VARIABLES
    part,               \* the component this behaviour is of
    \* S3Breaker
    s3, tripped, left, breakerPc, breakerAttempt, trial, timer, age, drops,
    \* ImagePull
    config, work, rest, phase, reason, local, pulled, sent, used, cancel,
    prunes,
    \* Services
    serviceJob, servicePc, serviceStarted, names, serviceOpen, heard, checks,
    tries, answered,
    \* ScriptRun
    executor, scriptState, holds, pipe, written, scriptOpen, decoder, shown,
    scriptPc, due, canceled, code, killed, result,
    \* ArtifactUpload
    uploadJob, succeeded, target, node, changes, untracked, uploadPc, i, files,
    read, staged, seen, uploadAttempt, failure, gitlab, met,
    \* JobRequest
    at, pollJob, pollAttempt, pollStarted, stop, pollState, explained, late,
    received, givenUp, refused

-----------------------------------------------------------------------------
(* Images: one of GitLab's registry, one of Docker Hub, and the helper.      *)
App    == [path |-> <<"gitlab.corp", "app">>, tag |-> "1"]
Pg     == [path |-> <<"postgres">>, tag |-> ""]
Helper == [path |-> <<"turboci", "helper">>, tag |-> "2"]
AccessMC(image) == IF image.path = App.path THEN {"alice"} ELSE {"no user", "alice", "bob"}
Work(user, image) ==
    [images |-> <<[image |-> image, policies |-> <<>>]>>, sources |-> TRUE, auths |-> <<>>,
     credentials |-> <<[type |-> "registry", host |-> "gitlab.corp", user |-> user]>>]
WorksMC == {Work("alice", App), Work("bob", App), Work("bob", Pg)}
SettingsMC == {[default |-> "always", allowed |-> {}, auths |-> <<>>, helper |-> Helper]}

(* Services: several ports of which one listens, more ports than are tried,  *)
(* a health check, no port, and names from variables, of which the runner's  *)
(* `environment` sets one again.                                             *)
Service(path, alias, ports, listens) ==
    [path |-> path, alias |-> alias, ports |-> ports, listens |-> listens, health |-> 0]
Given(key, value) == [key |-> key, value |-> value]
Dind     == Service(<<Text("docker")>>, {<<Text("docker")>>}, {2375, 2376}, {2375, 2376})
Database == Service(<<Ref("GROUP"), Text("pg")>>, {<<Text("db")>>}, {5432}, {5432, 80})
Many     == Service(<<Ref("CORP"), Ref("OTHER")>>, {}, {1, 2, 3}, {3})
Health   == [Service(<<Text("group"), Text("api")>>, {}, {1}, {1, 8080}) EXCEPT !.health = 8080]
EnvironmentMC == <<Given("OTHER", <<Text("z")>>)>>
JobsMC ==
    {[vars |-> <<Given("GROUP", <<Ref("CORP"), Text("group")>>),
                 Given("CORP", <<Text("a"), Text("b")>>)>>,
      services |-> <<Dind, Database>>],
     [vars |-> <<Given("OTHER", <<Text("x")>>), Given("OTHER", <<Text("y")>>)>>,
      services |-> <<Many, Health>>],
     [vars |-> <<Given("NO_PROXY", <<>>)>>, services |-> <<Health>>],
     [vars |-> <<>>, services |-> <<>>]}

(* Artifacts: a directory, a glob that goes through a link, and one for jobs *)
(* that failed.                                                              *)
Artifact(when, format, paths) ==
    [when |-> when, format |-> format, paths |-> paths, exclude |-> {}, untracked |-> FALSE]
ArtifactsMC ==
    {<<Artifact("always", "zip", {<<"d", ".">>}), Artifact("on_failure", "raw", {<<"d", "x">>})>>,
     <<Artifact("on_success", "gzip", {<<"l", "x">>, <<"l", ".">>})>>}

-----------------------------------------------------------------------------
(* The components. *)

(* Two calls, each of which may be dropped, and an S3 that comes back.       *)
Calls == INSTANCE S3Breaker WITH
    Calls <- {"get", "put"}, ATTEMPTS <- 2, Cooldown <- 2, Stall <- 2,
    MaxDrops <- 1, pc <- breakerPc, attempt <- breakerAttempt

(* Registries that need not answer.                                          *)
Images == INSTANCE ImagePull WITH
    Jobs <- {j1, j2}, Works <- WorksMC, Configs <- SettingsMC,
    Hosts <- {"gitlab.corp", "index.docker.io", "registry-1.docker.io"},
    Access <- AccessMC, MaxPrunes <- 0

(* Services that may start to listen, crash, or do nothing.                  *)
Waiting == INSTANCE Services WITH
    Jobs <- JobsMC, ConfigServices <- <<Service(<<Text("cache")>>, {}, {},
    {1})>>, Environment <- EnvironmentMC, NoProxy <- {<<Text(".corp.local")>>},
    MaxPorts <- 2, MaxTries <- 3, job <- serviceJob, pc <- servicePc,
    started <- serviceStarted, open <- serviceOpen

(* A script that may print forever.                                          *)
Script == INSTANCE ScriptRun WITH
    Executors <- {"shell", "docker"}, MaxBytes <- 0, Endless <- TRUE,
    state <- scriptState, open <- scriptOpen, pc <- scriptPc

(* Requests that may fail before or after GitLab took them.                  *)
Artifacts == INSTANCE ArtifactUpload WITH
    Dirs <- {"d"}, Links <- {"l"}, Leaves <- {"x"},
    Untracked <- {<<"d", "x">>}, Jobs <- ArtifactsMC, MaxAttempts <- 3,
    MaxChanges <- 0, job <- uploadJob, pc <- uploadPc, attempt <- uploadAttempt

(* A job that can be run, one that can only be failed, and one of which not  *)
(* even the id can be read.                                                  *)
Requests == INSTANCE JobRequest WITH
    Jobs <- {j1, j2, j3}, Parsable <- {j1}, Identified <- {j1, j2},
    MaxPatches <- 2, MaxUpdates <- 3, NoJob <- NoJob, job <- pollJob,
    attempt <- pollAttempt, started <- pollStarted, state <- pollState

BreakerIdle ==
    /\ s3 = "up" /\ tripped = FALSE /\ left = 0 /\ drops = 0
    /\ breakerPc = [c \in {"get", "put"} |-> "over"]
    /\ breakerAttempt = [c \in {"get", "put"} |-> 0] /\ trial = [c \in {"get", "put"} |-> FALSE]
    /\ timer = [c \in {"get", "put"} |-> 0] /\ age = [c \in {"get", "put"} |-> 0]

ImageIdle ==
    /\ config \in SettingsMC /\ work = [j \in {j1, j2} |-> Work("bob", Pg)]
    /\ rest = [j \in {j1, j2} |-> <<>>] /\ phase = [j \in {j1, j2} |-> "ended"]
    /\ reason = [j \in {j1, j2} |-> "none"] /\ local = {} /\ sent = {} /\ prunes = 0
    /\ pulled = [j \in {j1, j2} |-> {}] /\ used = [j \in {j1, j2} |-> {}]
    /\ cancel = [j \in {j1, j2} |-> "running"]

ServiceIdle ==
    /\ serviceJob = [vars |-> <<>>, services |-> <<>>]
    /\ servicePc = "ended" /\ serviceStarted = 0 /\ names = {} /\ serviceOpen = {} /\ heard = {}
    /\ checks = {} /\ tries = <<>> /\ answered = {}

ScriptIdle ==
    /\ executor = "shell" /\ scriptState = [p \in {"leader", "child"} |-> "none"]
    /\ holds = [p \in {"leader", "child"} |-> FALSE]
    /\ pipe = [s \in {"stdout", "stderr"} |-> <<>>] /\ written = pipe /\ decoder = pipe /\ shown = pipe
    /\ scriptOpen = [s \in {"stdout", "stderr"} |-> FALSE] /\ scriptPc = "done"
    /\ due = FALSE /\ canceled = FALSE /\ code = 0 /\ killed = "no" /\ result = "none"

UploadIdle ==
    /\ uploadJob = <<>> /\ succeeded = TRUE /\ target = [l \in {"l"} |-> "d"]
    /\ node = [f \in {<<"d", "x">>} |-> <<"none", 0>>] /\ changes = 0 /\ untracked = {}
    /\ uploadPc = "done" /\ i = 1 /\ files = {} /\ read = {} /\ staged = {}
    /\ seen = <<"none", 0>> /\ uploadAttempt = 0 /\ failure = FALSE
    /\ gitlab = <<>> /\ met = <<>>

PollIdle ==
    /\ at = "stopped" /\ pollJob = NoJob /\ pollAttempt = 0 /\ pollStarted = {} /\ stop = TRUE
    /\ pollState = [j \in {j1, j2, j3} |-> "pending"] /\ explained = {} /\ late = {}
    /\ received = {} /\ givenUp = {} /\ refused = {}

breakerVars ==
    <<s3, tripped, left, breakerPc, breakerAttempt, trial, timer, age, drops>>
imageVars ==
    <<config, work, rest, phase, reason, local, pulled, sent, used, cancel,
      prunes>>
serviceVars ==
    <<serviceJob, servicePc, serviceStarted, names, serviceOpen, heard, checks,
      tries, answered>>
scriptVars ==
    <<executor, scriptState, holds, pipe, written, scriptOpen, decoder, shown,
      scriptPc, due, canceled, code, killed, result>>
uploadVars ==
    <<uploadJob, succeeded, target, node, changes, untracked, uploadPc, i, files,
      read, staged, seen, uploadAttempt, failure, gitlab, met>>
pollVars ==
    <<at, pollJob, pollAttempt, pollStarted, stop, pollState, explained, late,
      received, givenUp, refused>>
all == <<part, breakerVars, imageVars, serviceVars, scriptVars, uploadVars, pollVars>>

Init ==
    /\ part \in Parts
    /\ IF part = "s3" THEN Calls!Init ELSE BreakerIdle
    /\ IF part = "images" THEN Images!Init ELSE ImageIdle
    /\ IF part = "services" THEN Waiting!Init ELSE ServiceIdle
    /\ IF part = "script" THEN Script!Init ELSE ScriptIdle
    /\ IF part = "artifacts" THEN Artifacts!Init ELSE UploadIdle
    /\ IF part = "requests" THEN Requests!Init ELSE PollIdle

BreakerStep ==
    /\ part = "s3" /\ Calls!Next
    /\ UNCHANGED <<part, imageVars, serviceVars, scriptVars, uploadVars,
                   pollVars>>

ImageStep ==
    /\ part = "images" /\ Images!Next
    /\ UNCHANGED <<part, breakerVars, serviceVars, scriptVars, uploadVars,
                   pollVars>>

ServiceStep ==
    /\ part = "services" /\ Waiting!Next
    /\ UNCHANGED <<part, breakerVars, imageVars, scriptVars, uploadVars,
                   pollVars>>

ScriptStep ==
    /\ part = "script" /\ Script!Next
    /\ UNCHANGED <<part, breakerVars, imageVars, serviceVars, uploadVars,
                   pollVars>>

UploadStep ==
    /\ part = "artifacts" /\ Artifacts!Next
    /\ UNCHANGED <<part, breakerVars, imageVars, serviceVars, scriptVars,
                   pollVars>>

PollStep ==
    /\ part = "requests" /\ Requests!Next
    /\ UNCHANGED <<part, breakerVars, imageVars, serviceVars, scriptVars,
                   uploadVars>>

Next ==
    \/ BreakerStep \/ ImageStep \/ ServiceStep \/ ScriptStep
    \/ UploadStep \/ PollStep

(* What each component may count on; those that are over have no step to     *)
(* take.                                                                     *)
Fairness ==
    /\ Calls!Fairness /\ Images!Fairness /\ Waiting!Fairness /\ Script!Fairness
    /\ Artifacts!Fairness /\ Requests!Fairness

Spec == Init /\ [][Next]_all /\ Fairness

-----------------------------------------------------------------------------
(* Properties: each is stated, with its reasons, in the module of its component. *)

ASSUME Assumptions ==
    /\ Calls!BreakerAssumption /\ Images!ImageAssumption /\ Waiting!ServiceAssumption
    /\ Script!ScriptAssumption /\ Artifacts!UploadAssumption /\ Requests!RequestAssumption

(* A script starts when its services listen or were tried often enough, and  *)
(* does start; their names bypass the proxy, except those that the runner's  *)
(* `environment` changes: wait_for_services, apply_runner_config.            *)
ServicesAreAwaited ==
    /\ [](part = "services" => /\ Waiting!TypeOK /\ Waiting!ScriptWaits
                               /\ Waiting!AliasesAreDirect)
    /\ Waiting!WaitEnds

(* A job whose answer arrived is not forgotten, but when each attempt to     *)
(* fail it was lost or GitLab answered with a status that ends the attempts; *)
(* its failure is explained, and the loop asks for the next one:             *)
(* request_job, reject_job.                                                  *)
JobsAreNotForgotten ==
    /\ [](part = "requests" => /\ Requests!TypeOK /\ Requests!NotForgotten
                               /\ Requests!FailedIsExplained)
    /\ Requests!PollsOn

(* Nothing outside keeps the runner waiting.  When S3 is back for good the   *)
(* breaker does not stay open; an aborted job does not wait for its          *)
(* registry; a cancel and the shell executor's deadline end a script that    *)
(* never ends; uploads end whatever GitLab answers: check_breaker,           *)
(* ensure_image, run_script, retry_with_backoff.                             *)
StuckWorkEnds ==
    /\ Calls!Recovers
    /\ Images!AbortEndsPulls
    /\ Script!CancelEnds /\ Script!DeadlineEnds
    /\ Artifacts!UploadsEnd

-----------------------------------------------------------------------------
(* What comments say without these exceptions.  None of it holds: with its   *)
(* component alone in Parts, TLC finds how.                                  *)

(* "Never behind the proxy" (mod.rs:43).                                     *)
NamesAreDirect == part = "services" => Waiting!NeverBehindProxy

(* "The job is already assigned to us; fail it instead of leaving it         *)
(* running" (gitlab/mod.rs:191).                                             *)
RejectedJobsFail == part = "requests" => Requests!RejectedIsFailed

=============================================================================
