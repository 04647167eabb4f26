------------------------------ MODULE ImagePull ------------------------------
(***************************************************************************)
(* The images of jobs that start together on one Docker host: pull         *)
(* policies, registry logins and pulls, from start_and_run to the          *)
(* containers: ensure_image of src/runner_daemon/executor/docker.rs and    *)
(* src/runner_daemon/image.rs.                                             *)
(*                                                                         *)
(* The jobs share the host's images, which an administrator may remove.    *)
(* A pull may stall for ever; the registry knows who may have an image.    *)
(***************************************************************************)
EXTENDS Naturals, Sequences, FiniteSets

CONSTANTS
    Jobs,
    Works,              \* the jobs there are: images, logins, sources or not
    Configs,            \* the runner's settings
    Hosts,              \* first components that are a registry's host
    Access(_),          \* the registries: who may pull an image
    MaxPrunes           \* removals of images (a bound)

Policies == {"always", "if-not-present", "never"}
NoUser == "no user"
Hub == {"docker.io", "index.docker.io", "registry-1.docker.io"}

ImageAssumption ==
    /\ \A w \in Works : w.images # <<>> /\ w.sources \in BOOLEAN
    /\ \A c \in Configs : c.allowed \subseteq STRING
    /\ Hub \ {"docker.io"} \subseteq Hosts /\ MaxPrunes \in Nat

VARIABLES
    config,
    work,               \* per job, one of Works
    rest,               \* per job, the images to ensure and to use
    phase,
    reason,             \* why it failed
    local,              \* the host's images
    pulled,             \* per job, what it pulled itself (history)
    sent,               \* logins sent to registries (history)
    used,               \* per job, the images of its containers
    cancel,             \* per job, what GitLab says of it
    prunes

vars == <<config, work, rest, phase, reason, local, pulled, sent, used, cancel, prunes>>

-----------------------------------------------------------------------------
(* image.rs.  A name is a path and a tag or digest, which may be empty.      *)

Registry(image) ==
    IF Len(image.path) > 1 /\ Head(image.path) \in Hosts THEN Head(image.path)
    ELSE "docker.io"

WithDefaultTag(image) ==
    IF image.tag = "" THEN [image EXCEPT !.tag = "latest"] ELSE image

(* Mutant: Docker Hub's login fits every registry. *)
IsFor_Hub(host, image) == host = Registry(image) \/ host \in Hub

IsFor(host, image) ==
    host = Registry(image) \/ {host, Registry(image)} \subseteq Hub

(* The first entry for the registry decides; one that cannot be read is none. *)
First(entries) == IF entries = <<>> THEN NoUser ELSE Head(entries).user

DockerConfigAuth(auths, image) ==
    First(SelectSeq(auths, LAMBDA a : IsFor(a.host, image)))

CredentialsFor(image, credentials) ==
    First(SelectSeq(credentials, LAMBDA c : c.type = "registry" /\ IsFor(c.host, image)))

(* Mutant: GitLab's credentials come first. *)
RegistryLogin_GitLabFirst(j, image) ==
    LET logins == SelectSeq(<<CredentialsFor(image, work[j].credentials),
                              DockerConfigAuth(work[j].auths, image),
                              DockerConfigAuth(config.auths, image)>>,
                            LAMBDA user : user # NoUser)
    IN  IF logins = <<>> THEN NoUser ELSE Head(logins)

RegistryLogin(j, image) ==
    LET logins == SelectSeq(<<DockerConfigAuth(work[j].auths, image),
                              DockerConfigAuth(config.auths, image),
                              CredentialsFor(image, work[j].credentials)>>,
                            LAMBDA user : user # NoUser)
    IN  IF logins = <<>> THEN NoUser ELSE Head(logins)

(* Mutant: any policy of the job's is taken. *)
Resolve_Any(policies) ==
    LET chosen == SelectSeq(policies, LAMBDA p : p \in Policies) IN
    IF policies = <<>> THEN (IF config.default \in Policies THEN config.default ELSE "always")
    ELSE IF chosen = <<>> THEN "none" ELSE Head(chosen)

Resolve(policies) ==
    LET allowed == IF config.allowed = {} THEN {config.default} ELSE config.allowed
        chosen  == SelectSeq(policies, LAMBDA p : p \in allowed \cap Policies)
    IN  IF policies = <<>> THEN (IF config.default \in Policies THEN config.default ELSE "always")
        ELSE IF chosen = <<>> THEN "none" ELSE Head(chosen)

-----------------------------------------------------------------------------
(* start_and_run *)

Ensure(image, policy) == [do |-> "ensure", image |-> image, policy |-> policy]
Use(image)            == [do |-> "use", image |-> image, policy |-> "used"]

Steps(w) ==
    LET n == Len(w.images)
        policy(i) == Resolve(w.images[i].policies)
        services[i \in 1..n] ==
            IF i = 1 THEN <<>>
            ELSE services[i - 1] \o <<Ensure(w.images[i].image, policy(i)), Use(w.images[i].image)>>
        helper == IF w.sources THEN <<Ensure(config.helper, "if-not-present"), Use(config.helper)>>
                  ELSE <<>>
    IN  <<Ensure(w.images[1].image, policy(1))>> \o helper \o services[n] \o <<Use(w.images[1].image)>>

Init ==
    /\ config \in Configs /\ work \in [Jobs -> Works]
    /\ rest = [j \in Jobs |-> Steps(work[j])]
    /\ phase = [j \in Jobs |-> "next"] /\ reason = [j \in Jobs |-> "none"]
    /\ local = {} /\ sent = {} /\ prunes = 0
    /\ pulled = [j \in Jobs |-> {}] /\ used = [j \in Jobs |-> {}]
    /\ cancel = [j \in Jobs |-> "running"]

Image(j) == Head(rest[j]).image
Policy(j) == Head(rest[j]).policy
Doing(j, do) == rest[j] # <<>> /\ Head(rest[j]).do = do

Goes(j, to) == phase' = [phase EXCEPT ![j] = to]
Same(others) == UNCHANGED <<config, work, others>>

NextStep(j) ==
    /\ Goes(j, IF Tail(rest[j]) = <<>> THEN "runs" ELSE "next")
    /\ rest' = [rest EXCEPT ![j] = Tail(@)] /\ UNCHANGED reason

Fail(j, why) ==
    /\ Goes(j, "ended") /\ rest' = [rest EXCEPT ![j] = <<>>]
    /\ reason' = [reason EXCEPT ![j] = why]

(* ensure_image *)
Inspect(j) ==
    /\ phase[j] = "next" /\ Doing(j, "ensure")
    /\ Goes(j, IF WithDefaultTag(Image(j)) \in local THEN "present" ELSE "missing")
    /\ Same(<<rest, reason, local, pulled, sent, used, cancel, prunes>>)

UseLocal(j) ==
    /\ phase[j] = "present" /\ Policy(j) \in {"never", "if-not-present"}
    /\ NextStep(j) /\ Same(<<local, pulled, sent, used, cancel, prunes>>)

(* Mutant: a missing image is left to Docker. *)
Refuse_NotNever(j) ==
    /\ phase[j] \in {"present", "missing"}
    /\ \/ Policy(j) = "none" /\ Fail(j, "image_pull_failure")
       \/ Policy(j) = "never" /\ phase[j] = "missing" /\ NextStep(j)
    /\ Same(<<local, pulled, sent, used, cancel, prunes>>)

Refuse(j) ==
    /\ phase[j] \in {"present", "missing"}
    /\ Policy(j) = "none" \/ (Policy(j) = "never" /\ phase[j] = "missing")
    /\ Fail(j, "image_pull_failure")
    /\ Same(<<local, pulled, sent, used, cancel, prunes>>)

StartPull(j) ==
    /\ \/ (phase[j] \in {"present", "missing"} /\ Policy(j) = "always")
       \/ (phase[j] = "missing" /\ Policy(j) = "if-not-present")
    /\ Goes(j, "pulling")
    /\ sent' = sent \cup {[job |-> j, registry |-> Registry(Image(j)),
                           user |-> RegistryLogin(j, Image(j))]}
    /\ Same(<<rest, reason, local, pulled, used, cancel, prunes>>)

Pulled(j) ==
    /\ phase[j] = "pulling" /\ RegistryLogin(j, Image(j)) \in Access(WithDefaultTag(Image(j)))
    /\ NextStep(j) /\ local' = local \cup {WithDefaultTag(Image(j))}
    /\ pulled' = [pulled EXCEPT ![j] = @ \cup {WithDefaultTag(Image(j))}]
    /\ Same(<<sent, used, cancel, prunes>>)

PullFails(j) ==
    /\ phase[j] = "pulling" /\ Fail(j, "image_pull_failure")
    /\ Same(<<local, pulled, sent, used, cancel, prunes>>)

(* Mutant: a stalled pull is not looked at. *)
PullCanceled_Ready(j) ==
    /\ phase[j] = "pulling" /\ cancel[j] = "aborted"
    /\ RegistryLogin(j, Image(j)) \in Access(WithDefaultTag(Image(j))) /\ Fail(j, "job_canceled")
    /\ Same(<<local, pulled, sent, used, cancel, prunes>>)

PullCanceled(j) ==
    /\ phase[j] = "pulling" /\ cancel[j] = "aborted" /\ Fail(j, "job_canceled")
    /\ Same(<<local, pulled, sent, used, cancel, prunes>>)

(* The container is made from what the host has by now. *)
Create(j) ==
    /\ phase[j] = "next" /\ Doing(j, "use")
    /\ IF WithDefaultTag(Image(j)) \in local
       THEN NextStep(j) /\ used' = [used EXCEPT ![j] = @ \cup {Image(j)}]
       ELSE Fail(j, "runner_system_failure") /\ UNCHANGED used
    /\ Same(<<local, pulled, sent, cancel, prunes>>)

(* GitLab cancels a job, first politely; images are removed. *)
Cancel(j) ==
    /\ phase[j] # "ended" /\ cancel[j] # "aborted"
    /\ cancel' = [cancel EXCEPT ![j] = IF @ = "running" THEN "canceling" ELSE "aborted"]
    /\ Same(<<rest, phase, reason, local, pulled, sent, used, prunes>>)

Prune ==
    /\ prunes < MaxPrunes /\ prunes' = prunes + 1
    /\ \E image \in local : local' = local \ {image}
    /\ Same(<<rest, phase, reason, pulled, sent, used, cancel>>)

(* The scripts, which have deadlines (JobRun). *)
Run(j) ==
    /\ phase[j] = "runs" /\ Goes(j, "ended")
    /\ Same(<<rest, reason, local, pulled, sent, used, cancel, prunes>>)

Step(j) ==
    \/ Inspect(j) \/ UseLocal(j) \/ Refuse(j) \/ StartPull(j) \/ Create(j)
    \/ PullCanceled(j) \/ Run(j)

Done == (\A j \in Jobs : phase[j] = "ended") /\ UNCHANGED vars

Next ==
    \/ \E j \in Jobs : Step(j) \/ Pulled(j) \/ PullFails(j) \/ Cancel(j)
    \/ Prune \/ Done

(* A registry need never answer. *)
Fairness == \A j \in Jobs : WF_vars(Step(j))
Spec == Init /\ [][Next]_vars /\ Fairness

-----------------------------------------------------------------------------
(* Properties *)

TypeOK ==
    /\ config \in Configs /\ work \in [Jobs -> Works]
    /\ phase \in [Jobs -> {"next", "present", "missing", "pulling", "runs", "ended"}]
    /\ reason \in [Jobs -> {"none", "image_pull_failure", "job_canceled", "runner_system_failure"}]
    /\ cancel \in [Jobs -> {"running", "canceling", "aborted"}]
    /\ \A j \in Jobs : phase[j] \in {"runs", "ended"} <=> rest[j] = <<>>

(* A job runs an image that it may not pull only where the runner's settings *)
(* let jobs use what is on the host, however the image got there: resolve.   *)
NoForeignImages ==
    \A j \in Jobs : \A image \in used[j] \ {config.helper} :
        \/ RegistryLogin(j, image) \in Access(WithDefaultTag(image))
        \/ ({config.default} \cup config.allowed) \cap {"if-not-present", "never"} # {}

(* A login goes to the registry it was given for, or from one name of Docker *)
(* Hub to another: docker_config_auth, credentials_for.                      *)
LoginsGoHome ==
    \A s \in sent : s.user # NoUser =>
        LET given == {work[s.job].auths, config.auths, work[s.job].credentials} IN
        \E list \in given : \E i \in DOMAIN list :
            /\ list[i].user = s.user
            /\ list[i].host = s.registry \/ {list[i].host, s.registry} \subseteq Hub

(* The login of a job's own DOCKER_AUTH_CONFIG is never passed over, where   *)
(* it can be read: registry_login.                                           *)
OwnLoginFirst ==
    \A s \in sent :
        LET own == {i \in DOMAIN work[s.job].auths :
                        LET host == work[s.job].auths[i].host IN
                        host = s.registry \/ {host, s.registry} \subseteq Hub}
        IN  (own # {} /\ \A i \in own : work[s.job].auths[i].user # NoUser) =>
                \E i \in own : work[s.job].auths[i].user = s.user

(* An image that cannot be had is told as a failed pull; only one that was   *)
(* removed since gives a system failure: ensure_image.                       *)
MissingIsTold ==
    prunes = 0 => \A j \in Jobs : reason[j] # "runner_system_failure"

(* A job that was aborted does not wait for its registry: the select of      *)
(* ensure_image.                                                             *)
AbortEndsPulls ==
    \A j \in Jobs : cancel[j] = "aborted" /\ phase[j] = "pulling" ~> phase[j] # "pulling"

=============================================================================
