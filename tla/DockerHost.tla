----------------------------- MODULE DockerHost -----------------------------
(***************************************************************************)
(* What runners do to the Docker daemon they share: DockerExecutor of      *)
(* src/runner_daemon/executor/docker.rs, labelled with the system ID of    *)
(* src/runner_daemon/system_id.rs.                                         *)
(*                                                                         *)
(* Two runners of different GitLabs may run a job of the same number, so   *)
(* their containers and networks want the same names.  The model has one   *)
(* job number: a name is the kind of container it is for.  A Docker call   *)
(* is one step and may fail without an effect, MaxFaults times; the daemon    *)
(* may be killed between any two, and its containers stay.  Jobs of one    *)
(* runner that run together have different numbers and do not meet here.   *)
(***************************************************************************)
EXTENDS Naturals, FiniteSets, TLC

CONSTANTS
    Runners,
    Uses,               \* what jobs have: sources to check out, services,
                        \* services to wait for, untracked files to list
    MaxStarts,          \* starts of each daemon (a bound)
    MaxFaults           \* Docker calls that fail for no reason (a bound)

Features == {"sources", "svc", "wait", "untracked"}

DockerAssumption ==
    Uses \subseteq Features /\ MaxStarts \in Nat /\ MaxFaults \in Nat

(* turboci-job-N-sources, -svc-0, -svc-wait, -cleanup, -untracked; and       *)
(* turboci-job-N itself.                                                    *)
Kinds   == {"sources", "svc", "wait", "job", "cleanup", "untracked"}
Helpers == {"wait", "cleanup", "untracked"}     \* run once, then removed

Reasons == {"no", "unremoved", "unrecorded", "crash"}

VARIABLES
    container,          \* Docker: the container of each name
    network,            \* Docker: the network turboci-job-N
    faults,             \* calls that failed for no reason
    machineId,          \* the host has a machine ID
    stateFile,          \* per runner, the ID in .runner_system_id
    id,                 \* its owner label
    starts,
    pc,
    at,                 \* the kind of container it is creating
    wants,              \* what of Uses the job has
    rec,                \* JobContainers: job, helper and services
    net,                \* JobContainers.network
    volume,             \* has the volume of project and slot mounted
    todo,               \* still to be removed by the sweep or the release
    seen,               \* what inspect_container showed it (history)
    lost,               \* why a container of its is a leftover (history)
    sweepOk             \* no call of its sweep failed (history)

dockerVars == <<container, network>>
idVars     == <<machineId, stateFile, id, starts>>
jobVars    == <<wants, rec, net, volume>>
vars == <<dockerVars, faults, idVars, pc, at, jobVars, todo, seen, lost, sweepOk>>

NoId       == <<"none", 0>>
Nothing    == [by |-> "none", owner |-> NoId, stable |-> FALSE, up |-> "no"]
Unseen     == [Nothing EXCEPT !.by = "error"]

Init ==
    /\ container = [k \in Kinds |-> Nothing]
    /\ network = Nothing /\ faults = 0
    /\ machineId \in BOOLEAN
    /\ stateFile = [r \in Runners |-> NoId]
    /\ id = [r \in Runners |-> NoId]
    /\ starts = [r \in Runners |-> 0]
    /\ pc = [r \in Runners |-> "off"]
    /\ at = [r \in Runners |-> "job"]
    /\ wants = [r \in Runners |-> {}]
    /\ rec = [r \in Runners |-> {}]
    /\ net = [r \in Runners |-> FALSE]
    /\ volume = [r \in Runners |-> FALSE]
    /\ todo = [r \in Runners |-> {}]
    /\ seen = [r \in Runners |-> Nothing]
    /\ lost = [r \in Runners |-> [k \in Kinds \cup {"network"} |-> "no"]]
    /\ sweepOk = [r \in Runners |-> FALSE]

-----------------------------------------------------------------------------
(* Docker *)

(* Containers join the job's network when they start.                       *)
Networked(r, k) == k \in {"svc", "wait"} \/ (k = "job" /\ net[r])
OnNetwork == {k \in Kinds : container[k].up = "network"}

New(r) == [by |-> r, owner |-> id[r],
           stable |-> machineId \/ stateFile[r] = id[r], up |-> "no"]
Mine(r, k) == container[k].owner = id[r]
Foreign(r, k) == container[k] # Nothing /\ ~Mine(r, k)

(* The call fails: because it must, or for no reason.                        *)
Fault == faults < MaxFaults /\ faults' = faults + 1
Fails(must) == (must /\ UNCHANGED faults) \/ (~must /\ Fault)

Went(r, next) == pc' = [pc EXCEPT ![r] = next]
Goes(r, next, kind) == Went(r, next) /\ at' = [at EXCEPT ![r] = kind]

(* The container of that name is gone: it leaves nothing to explain.         *)
Gone(k) ==
    /\ container' = [container EXCEPT ![k] = Nothing]
    /\ lost' = [r \in Runners |-> IF r = container[k].by
                  THEN [lost[r] EXCEPT ![k] = "no"] ELSE lost[r]]

(* force_remove by the container's ID, which is r's.                         *)
RemovedById(r, k) == Mine(r, k) /\ Gone(k) /\ UNCHANGED faults
NotRemoved(r, k) ==
    /\ Fails(~Mine(r, k))
    /\ lost' = IF Mine(r, k) THEN [lost EXCEPT ![r][k] = "unremoved"] ELSE lost
    /\ UNCHANGED container

(* Docker keeps a network that running containers are on.                    *)
NetworkGone ==
    /\ network # Nothing /\ OnNetwork = {}
    /\ network' = Nothing /\ UNCHANGED faults
    /\ lost' = [r \in Runners |-> IF r = network.by
                  THEN [lost[r] EXCEPT !["network"] = "no"] ELSE lost[r]]
NetworkStays(r, leftover) ==
    /\ Fails(network = Nothing \/ OnNetwork # {})
    /\ lost' = IF leftover /\ network.by = r
                 THEN [lost EXCEPT ![r]["network"] = "unremoved"] ELSE lost
    /\ UNCHANGED network

-----------------------------------------------------------------------------
(* The system ID, and the sweep when the daemon starts *)

(* Mutant: every ID is a random one. *)
Generate_Random(r) == <<r, starts[r] + 1>>

(* generate: derived from the machine ID and the runner's config path, the   *)
(* same at each start; else a random one.                                   *)
Generate(r) == IF machineId THEN <<r, 0>> ELSE <<r, starts[r] + 1>>

(* load_or_create: without a readable file the ID is made and, if the file   *)
(* can be written, kept.                                                    *)
Start(r) ==
    /\ pc[r] = "off" /\ starts[r] < MaxStarts
    /\ starts' = [starts EXCEPT ![r] = @ + 1]
    /\ IF stateFile[r] # NoId
         THEN id' = [id EXCEPT ![r] = stateFile[r]] /\ UNCHANGED stateFile
         ELSE /\ id' = [id EXCEPT ![r] = Generate(r)]
              /\ stateFile' \in {stateFile,
                                 [stateFile EXCEPT ![r] = Generate(r)]}
    /\ Went(r, "sweep")
    /\ sweepOk' = [sweepOk EXCEPT ![r] = TRUE]
    /\ UNCHANGED <<faults, dockerVars, machineId, at, jobVars, todo, seen, lost>>

(* sweep_orphans lists the containers with its label, running or not.        *)
SweepList(r) ==
    /\ pc[r] = "sweep"
    /\ \/ /\ todo' = [todo EXCEPT ![r] = {k \in Kinds : Mine(r, k)}]
          /\ UNCHANGED <<faults, sweepOk>>
       \/ Fault /\ sweepOk' = [sweepOk EXCEPT ![r] = FALSE] /\ UNCHANGED todo
    /\ Went(r, "sweeping")
    /\ UNCHANGED <<dockerVars, idVars, at, jobVars, seen, lost>>

SweepRemove(r) ==
    /\ pc[r] = "sweeping"
    /\ \E k \in todo[r] :
         /\ \/ RemovedById(r, k) /\ UNCHANGED sweepOk
            \/ /\ NotRemoved(r, k)
               /\ sweepOk' = [sweepOk EXCEPT ![r] = @ /\ ~Mine(r, k)]
         /\ todo' = [todo EXCEPT ![r] = @ \ {k}]
    /\ UNCHANGED <<network, idVars, pc, at, jobVars, seen>>

(* Then it lists its networks and removes them by name.                      *)
SweepNetworks(r) ==
    /\ pc[r] = "sweeping" /\ todo[r] = {}
    /\ \/ /\ Went(r, IF network.owner = id[r] THEN "sweep network" ELSE "idle")
          /\ UNCHANGED <<faults, sweepOk>>
       \/ Fault /\ Went(r, "idle") /\ sweepOk' = [sweepOk EXCEPT ![r] = FALSE]
    /\ UNCHANGED <<dockerVars, idVars, at, jobVars, todo, seen, lost>>

SweepNetwork(r) ==
    /\ pc[r] = "sweep network"
    /\ \/ NetworkGone /\ UNCHANGED sweepOk
       \/ NetworkStays(r, TRUE) /\ sweepOk' = [sweepOk EXCEPT ![r] = FALSE]
    /\ Went(r, "idle")
    /\ UNCHANGED <<container, idVars, at, jobVars, todo, seen>>

-----------------------------------------------------------------------------
(* The job *)

(* execute, up to the job's image: that pull may fail with nothing created.  *)
TakeJob(r) ==
    /\ pc[r] = "idle"
    /\ wants' \in {[wants EXCEPT ![r] = w] : w \in SUBSET Uses}
    /\ \/ /\ IF "sources" \in wants'[r] THEN Goes(r, "pull", "sources")
                                         ELSE Goes(r, "volumes", "job")
          /\ UNCHANGED faults
       \/ Fault /\ Goes(r, "release", "job")
    /\ UNCHANGED <<dockerVars, idVars, rec, net, volume, todo, seen, lost, sweepOk>>

(* What follows when no container of that kind could be had: the job fails   *)
(* and is released; a helper is done without.                               *)
Without(r, k) ==
    CASE k = "wait" -> Goes(r, "inspect", "job")
      [] k = "cleanup" -> Goes(r, "released", "job")
      [] k = "untracked" -> Goes(r, "ended", "job")
      [] OTHER -> Goes(r, "release", "job")

Released(r, containers) == todo' = [todo EXCEPT ![r] = containers]
Fail(r) ==
    /\ Without(r, at[r])
    /\ Released(r, IF at[r] \in Helpers THEN {} ELSE rec[r])

(* ensure_image, pull_if_missing. *)
Pull(r) ==
    /\ pc[r] = "pull"
    /\ \/ Went(r, "inspect") /\ UNCHANGED <<faults, at, todo>>
       \/ Fault /\ Fail(r)
    /\ UNCHANGED <<dockerVars, idVars, jobVars, seen, lost, sweepOk>>

(* Mutant: whoever's container it is. *)
Inspect_AnyOwner(r) ==
    /\ pc[r] = "inspect"
    /\ seen' = [seen EXCEPT ![r] = container[at[r]]]
    /\ Went(r, "remove")
    /\ UNCHANGED <<faults, dockerVars, idVars, at, jobVars, todo, lost, sweepOk>>

(* create_named looks whose container has the name.  An inspection that      *)
(* fails is taken for no container.                                         *)
Inspect(r) ==
    /\ pc[r] = "inspect"
    /\ \/ /\ seen' = [seen EXCEPT ![r] = container[at[r]]]
          /\ IF Foreign(r, at[r]) THEN Fail(r)
                                  ELSE Went(r, "remove") /\ UNCHANGED <<at, todo>>
          /\ UNCHANGED faults
       \/ /\ Fault
          /\ seen' = [seen EXCEPT ![r] = Unseen]
          /\ Went(r, "remove") /\ UNCHANGED <<at, todo>>
    /\ UNCHANGED <<dockerVars, idVars, jobVars, lost, sweepOk>>

(* It removes the container of that name, whatever comes of it.              *)
Remove(r) ==
    /\ pc[r] = "remove"
    /\ \/ container[at[r]] # Nothing /\ Gone(at[r]) /\ UNCHANGED faults
       \/ Fails(container[at[r]] = Nothing) /\ UNCHANGED <<container, lost>>
    /\ seen' = [seen EXCEPT ![r] = Nothing]
    /\ Went(r, "create")
    /\ UNCHANGED <<network, idVars, at, jobVars, todo, sweepOk>>

(* Mutant: a service is recorded when it has started. *)
Create_RecordLater(r) ==
    /\ pc[r] = "create"
    /\ \/ /\ container[at[r]] = Nothing
          /\ container' = [container EXCEPT ![at[r]] = New(r)]
          /\ rec' = [rec EXCEPT ![r] = @ \cup ({at[r]} \cap {"job"})]
          /\ Went(r, "start") /\ UNCHANGED <<faults, at, todo>>
       \/ /\ Fails(container[at[r]] # Nothing)
          /\ Fail(r) /\ UNCHANGED <<container, rec>>
    /\ UNCHANGED <<network, idVars, wants, net, volume, seen, lost, sweepOk>>

(* The job's container and a service are recorded before they start, the     *)
(* container for the sources only after.                                    *)
Create(r) ==
    /\ pc[r] = "create"
    /\ \/ /\ container[at[r]] = Nothing
          /\ container' = [container EXCEPT ![at[r]] = New(r)]
          /\ rec' = [rec EXCEPT ![r] = @ \cup ({at[r]} \cap {"job", "svc"})]
          /\ Went(r, "start") /\ UNCHANGED <<faults, at, todo>>
       \/ /\ Fails(container[at[r]] # Nothing)
          /\ Fail(r) /\ UNCHANGED <<container, rec>>
    /\ UNCHANGED <<network, idVars, wants, net, volume, seen, lost, sweepOk>>

(* The step after a container has started.  wait_for_services checks only    *)
(* services that expose ports.                                              *)
Started(r, k) ==
    CASE k = "sources" -> Goes(r, "volumes", "job")
      [] k = "svc" -> IF "wait" \in wants[r] THEN Goes(r, "pull", "wait")
                                             ELSE Goes(r, "inspect", "job")
      [] k = "job" -> Went(r, "run") /\ UNCHANGED at
      [] OTHER -> Went(r, "helper") /\ UNCHANGED at

(* start_container: it may be gone, or its network.                          *)
StartContainer(r) ==
    /\ pc[r] = "start"
    /\ Mine(r, at[r])
    /\ Networked(r, at[r]) => network # Nothing
    /\ container' = [container EXCEPT ![at[r]].up =
                       IF Networked(r, at[r]) THEN "network" ELSE "host"]
    /\ rec' = [rec EXCEPT ![r] = @ \cup ({at[r]} \cap {"sources"})]
    /\ Started(r, at[r])
    /\ UNCHANGED <<faults, network, idVars, wants, net, volume, todo, seen, lost, sweepOk>>

StartFails(r) ==
    /\ pc[r] = "start"
    /\ Fails(\/ ~Mine(r, at[r])
             \/ Networked(r, at[r]) /\ network = Nothing)
    /\ IF at[r] \in Helpers
         THEN Went(r, "drop") /\ UNCHANGED <<at, todo>>
         ELSE Fail(r)
    /\ lost' = IF at[r] = "sources" /\ Mine(r, "sources")
                 THEN [lost EXCEPT ![r]["sources"] = "unrecorded"] ELSE lost
    /\ UNCHANGED <<dockerVars, idVars, jobVars, seen, sweepOk>>

(* job_volumes: the volume of the project and slot, made when missing.       *)
Volumes(r) ==
    /\ pc[r] = "volumes"
    /\ \/ /\ volume' = [volume EXCEPT ![r] = TRUE]
          /\ IF "svc" \in wants[r] THEN Went(r, "network") /\ UNCHANGED at
                                   ELSE Goes(r, "inspect", "job")
          /\ UNCHANGED <<faults, todo>>
       \/ Fault /\ Went(r, "release") /\ Released(r, rec[r]) /\ UNCHANGED <<at, volume>>
    /\ UNCHANGED <<dockerVars, idVars, wants, rec, net, seen, lost, sweepOk>>

(* create_network removes the network of that name, and makes its own.       *)
ReplaceNetwork(r) ==
    /\ pc[r] = "network"
    /\ NetworkGone \/ NetworkStays(r, FALSE)
    /\ Went(r, "create network")
    /\ UNCHANGED <<container, idVars, at, jobVars, todo, seen, sweepOk>>

CreateNetwork(r) ==
    /\ pc[r] = "create network"
    /\ \/ /\ network = Nothing
          /\ network' = New(r)
          /\ net' = [net EXCEPT ![r] = TRUE]
          /\ Goes(r, "pull", "svc") /\ UNCHANGED <<faults, todo>>
       \/ /\ Fails(network # Nothing)
          /\ Went(r, "release") /\ Released(r, rec[r])
          /\ UNCHANGED <<network, net, at>>
    /\ UNCHANGED <<container, idVars, wants, rec, volume, seen, lost, sweepOk>>

(* The job's steps end, or panic and are caught.                             *)
StepsEnd(r) ==
    /\ pc[r] = "run"
    /\ Went(r, "release") /\ Released(r, rec[r])
    /\ UNCHANGED <<faults, dockerVars, idVars, at, jobVars, seen, lost, sweepOk>>

(* A run_helper or reset_ownership container ends or times out, and is       *)
(* removed by its ID.                                                       *)
HelperEnds(r) ==
    /\ pc[r] = "helper"
    /\ container' \in {container,
                       IF Mine(r, at[r]) THEN [container EXCEPT ![at[r]].up = "no"]
                                         ELSE container}
    /\ Went(r, "drop")
    /\ UNCHANGED <<faults, network, idVars, at, jobVars, todo, seen, lost, sweepOk>>

DropHelper(r) ==
    /\ pc[r] = "drop"
    /\ RemovedById(r, at[r]) \/ NotRemoved(r, at[r])
    /\ Without(r, at[r])
    /\ UNCHANGED <<network, idVars, jobVars, todo, seen, sweepOk>>

-----------------------------------------------------------------------------
(* The release *)

NextToRelease(r) ==
    CHOOSE k \in todo[r] : \/ k = "job"
                           \/ k = "sources" /\ "job" \notin todo[r]
                           \/ todo[r] = {"svc"}

ReleaseContainer(r) ==
    /\ pc[r] = "release" /\ todo[r] # {}
    /\ LET k == NextToRelease(r) IN
         /\ RemovedById(r, k) \/ NotRemoved(r, k)
         /\ todo' = [todo EXCEPT ![r] = @ \ {k}]
    /\ UNCHANGED <<network, idVars, pc, at, jobVars, seen, sweepOk>>

(* Then the network, by its name; and the workspace is handed back only if   *)
(* a container had it mounted.                                              *)
ReleaseNetwork(r) ==
    /\ pc[r] = "release" /\ todo[r] = {}
    /\ IF net[r] THEN NetworkGone \/ NetworkStays(r, TRUE)
                 ELSE UNCHANGED <<network, lost, faults>>
    /\ net' = [net EXCEPT ![r] = FALSE]
    /\ volume' = [volume EXCEPT ![r] = FALSE]
    /\ IF rec[r] \cap {"job", "sources"} # {}
         THEN Goes(r, "pull", "cleanup")
         ELSE Went(r, "released") /\ UNCHANGED at
    /\ UNCHANGED <<container, idVars, wants, rec, todo, seen, sweepOk>>

(* The uploads may list untracked files once more in a helper.               *)
AfterJob(r) ==
    /\ pc[r] = "released"
    /\ IF "untracked" \in wants[r] THEN Goes(r, "pull", "untracked")
                                   ELSE Goes(r, "ended", "job")
    /\ rec' = [rec EXCEPT ![r] = {}]
    /\ UNCHANGED <<faults, dockerVars, idVars, wants, net, volume, todo, seen, lost, sweepOk>>

(* The daemon is killed, or ends.                                            *)
Kill(r) ==
    /\ pc[r] # "off"
    /\ Went(r, "off")
    /\ at' = [at EXCEPT ![r] = "job"]
    /\ wants' = [wants EXCEPT ![r] = {}]
    /\ rec' = [rec EXCEPT ![r] = {}]
    /\ net' = [net EXCEPT ![r] = FALSE]
    /\ volume' = [volume EXCEPT ![r] = FALSE]
    /\ todo' = [todo EXCEPT ![r] = {}]
    /\ seen' = [seen EXCEPT ![r] = Nothing]
    /\ sweepOk' = [sweepOk EXCEPT ![r] = FALSE]
    /\ lost' = [lost EXCEPT ![r] =
         [k \in Kinds |-> IF container[k].by = r THEN "crash" ELSE "no"]
         @@ ("network" :> IF network.by = r THEN "crash" ELSE "no")]
    /\ UNCHANGED <<faults, dockerVars, idVars>>

Step(r) ==
    \/ Start(r) \/ SweepList(r) \/ SweepRemove(r) \/ SweepNetworks(r) \/ SweepNetwork(r)
    \/ TakeJob(r) \/ Pull(r) \/ Inspect(r) \/ Remove(r) \/ Create(r)
    \/ StartContainer(r) \/ StartFails(r) \/ Volumes(r)
    \/ ReplaceNetwork(r) \/ CreateNetwork(r)
    \/ StepsEnd(r) \/ HelperEnds(r) \/ DropHelper(r)
    \/ ReleaseContainer(r) \/ ReleaseNetwork(r) \/ AfterJob(r)
    \/ Kill(r)

Next == \E r \in Runners : Step(r)

Spec == Init /\ [][Next]_vars

-----------------------------------------------------------------------------
(* Properties *)

Ids == {NoId} \cup (Runners \X (0 .. MaxStarts))
Things == [by : Runners \cup {"none", "error"}, owner : Ids,
           stable : BOOLEAN, up : {"no", "host", "network"}]

(* Types; what is recorded has been wanted, and a network is recorded only   *)
(* for a job with services.                                                 *)
TypeOK ==
    /\ container \in [Kinds -> Things] /\ network \in Things
    /\ faults \in 0 .. MaxFaults
    /\ machineId \in BOOLEAN
    /\ stateFile \in [Runners -> Ids] /\ id \in [Runners -> Ids]
    /\ starts \in [Runners -> 0 .. MaxStarts]
    /\ pc \in [Runners -> {"off", "sweep", "sweeping", "sweep network", "idle",
                 "pull", "inspect", "remove", "create", "start", "volumes",
                 "network", "create network", "run", "helper", "drop",
                 "release", "released", "ended"}]
    /\ at \in [Runners -> Kinds]
    /\ \A r \in Runners : /\ rec[r] \subseteq wants[r] \cup {"job"}
                          /\ net[r] => "svc" \in wants[r]
    /\ wants \in [Runners -> SUBSET Uses]
    /\ volume \in [Runners -> BOOLEAN]
    /\ todo \in [Runners -> SUBSET Kinds]
    /\ seen \in [Runners -> Things]
    /\ lost \in [Runners -> [Kinds \cup {"network"} -> Reasons]]
    /\ sweepOk \in [Runners -> BOOLEAN]

(* What a runner's job leaves on the Docker host when it is over (and no job *)
(* of it runs) has an explanation: a removal failed, a kill, or the          *)
(* container for the sources that did not start.  The release covers every   *)
(* other way a job can end.                                                 *)
LeftoversExplained ==
    \A r \in Runners : pc[r] \in {"idle", "ended", "off"} =>
        /\ \A k \in Kinds : container[k].by = r => lost[r][k] # "no"
        /\ network.by = r => lost[r]["network"] # "no"

(* The sweep of a start removes what earlier runs of this runner left, as    *)
(* long as its ID was to survive the restart (from the machine ID, or kept   *)
(* in the state file).                                                      *)
SweepClears ==
    \A r \in Runners : pc[r] = "idle" /\ sweepOk[r] =>
        \A thing \in {container[k] : k \in Kinds} \cup {network} :
            thing.by = r => ~thing.stable /\ thing.owner # id[r]

(* A runner removes another's container only when its inspection failed or   *)
(* the container was made after it: never by its sweep, its release or after *)
(* it saw whose container it was.                                           *)
SparesOthers ==
    \A r \in Runners : Step(r) => \A k \in Kinds :
        container[k].by # r /\ container[k] # Nothing /\ container'[k] = Nothing =>
            pc[r] = "remove" /\ at[r] = k /\ seen[r].by # container[k].by
OthersAreSpared == [][SparesOthers]_vars

(* "A container with this name from another runner on the same Docker host   *)
(* ... must not be killed" (docker.rs:881), as it stands: the removal goes   *)
(* by the name, after an inspection that may have failed or be too old       *)
(* (divergence 5).                                                           *)
NeverKillsOthers ==
    \A r \in Runners : Step(r) => \A k \in Kinds :
        container[k].by # r /\ container[k] # Nothing => container'[k] # Nothing

=============================================================================
