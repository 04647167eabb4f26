------------------------------ MODULE Services ------------------------------
(***************************************************************************)
(* The services of a job: their names on the job's network and in          *)
(* NO_PROXY, and the wait for them before the scripts start:               *)
(* start_and_run, create_service, service_ports and wait_for_services of   *)
(* src/runner_daemon/executor/docker.rs, service_aliases of image.rs, and  *)
(* apply_runner_config of mod.rs with effective_no_proxy of net.rs.        *)
(*                                                                         *)
(* A name is a sequence of components; one component of it may be a        *)
(* reference to a variable.  Services listen when they like and may crash. *)
(***************************************************************************)
EXTENDS Naturals, FiniteSets, Expansion

CONSTANTS
    Jobs,               \* variables and services of the jobs there are
    ConfigServices,     \* the runner's own services
    Environment,        \* the variables of the runner's `environment`
    NoProxy,            \* the names of its `no_proxy`
    MaxPorts,           \* 20: ports of a service that are tried
    MaxTries            \* 150: tries of a port

Loopback == {<<Text("localhost")>>, <<Text("127.0.0.1")>>, <<Text("::1")>>}

ServiceAssumption ==
    /\ \A j \in Jobs : \A i \in DOMAIN j.services : j.services[i].ports \subseteq Nat
    /\ MaxPorts \in Nat /\ MaxTries \in Nat \ {0}

VARIABLES
    job,
    pc,
    started,            \* services started so far
    names,              \* Docker: the names on the network and who has them
    open,               \* the services' ports that accept connections
    heard,              \* services of which a port has accepted (history)
    checks,             \* services the helper waits for, with the ports tried
    tries,              \* per service of checks
    answered            \* of checks

netVars   == <<names, open, heard>>
checkVars == <<checks, tries, answered>>
vars == <<job, pc, started, netVars, checkVars>>

-----------------------------------------------------------------------------
(* Names *)

(* job_variables: the last definition wins. *)
Values(variables) ==
    LET given == FoldLeft(LAMBDA e, v : Set(e, v.key, v.value), None, variables) IN
    FoldLeft(LAMBDA e, v : Set(e, v.key, Expand(v.value, given)), None, variables)

(* group/app gives group__app and group-app. *)
Aliases(path, alias) ==
    alias \cup (IF Len(path) <= 1 THEN {path}
                ELSE {<<Text("__")>> \o path, <<Text("-")>> \o path})

(* The runner's services come first. *)
AllServices(j) == ConfigServices \o j.services

Entries(extra) == NoProxy \cup Loopback \cup extra

(* Mutant: the names are not expanded. *)
EffectiveNoProxy_AsGiven(j) ==
    Entries(UNION {Aliases(s.path, s.alias) : s \in Range(AllServices(j))})

(* What apply_runner_config gives the job, before it adds `environment`. *)
EffectiveNoProxy(j) ==
    Entries(UNION {Aliases(Expand(s.path, Values(j.vars)), s.alias) : s \in Range(AllServices(j))})

(* A job's own NO_PROXY, or one of `environment`, replaces the list. *)
IsReplaced(j) == \E v \in Range(j.vars \o Environment) : v.key = "NO_PROXY"

(* The names that create_service gives a service, from the job's environment. *)
NamesOf(s) == Aliases(Expand(s.path, Values(job.vars \o Environment)), s.alias)

(* Of the exposed ports the lowest; a health check names its own. *)
ServicePorts(s) ==
    IF s.health # 0 THEN {s.health}
    ELSE {p \in s.ports : Cardinality({q \in s.ports : q < p}) < MaxPorts}

-----------------------------------------------------------------------------
(* The services *)

Init ==
    /\ job \in Jobs /\ pc = "services" /\ started = 0
    /\ names = {} /\ open = {} /\ heard = {}
    /\ checks = {} /\ tries = <<>> /\ answered = {}

StartService ==
    /\ pc = "services" /\ started < Len(AllServices(job)) /\ started' = started + 1
    /\ names' = names \cup {<<name, started'>> : name \in NamesOf(AllServices(job)[started'])}
    /\ UNCHANGED <<job, pc, open, heard, checkVars>>

(* An image, a container or its start fails; the job ends. *)
StartFails ==
    /\ pc = "services" /\ pc' = "ended"
    /\ UNCHANGED <<job, started, netVars, checkVars>>

(* A container that can be inspected and has ports is waited for. *)
Checked(seen) == {i \in seen : ServicePorts(AllServices(job)[i]) # {}}

(* The loops of the script; without one, or when the helper does not run, it *)
(* is not waited for.                                                        *)
Wait ==
    /\ pc = "services" /\ started = Len(AllServices(job))
    /\ \E seen \in SUBSET (1..started) :
        /\ checks' = Checked(seen) /\ tries' = [i \in Checked(seen) |-> 0]
        /\ pc' = IF Checked(seen) = {} THEN "script" ELSE "wait"
    /\ UNCHANGED <<job, started, netVars, answered>>

HelperFails ==
    /\ pc = "wait" /\ pc' = "script" /\ checks' = {} /\ tries' = <<>> /\ answered' = {}
    /\ UNCHANGED <<job, started, netVars>>

Waiting(i) == pc = "wait" /\ i \in checks \ answered /\ tries[i] < MaxTries

(* Any of its ports will do. *)
Accepts(i) == \E p \in ServicePorts(AllServices(job)[i]) : <<i, p>> \in open

Answered(i) ==
    /\ Waiting(i) /\ Accepts(i) /\ answered' = answered \cup {i}
    /\ UNCHANGED <<job, pc, started, netVars, checks, tries>>

(* Mutant: the last try begins again. *)
NotYet_Again(i) ==
    /\ Waiting(i) /\ ~Accepts(i) /\ tries' = [tries EXCEPT ![i] = (@ + 1) % MaxTries]
    /\ UNCHANGED <<job, pc, started, netVars, checks, answered>>

NotYet(i) ==
    /\ Waiting(i) /\ ~Accepts(i) /\ tries' = [tries EXCEPT ![i] = @ + 1]
    /\ UNCHANGED <<job, pc, started, netVars, checks, answered>>

(* Mutant: the script does not wait for its loops. *)
ScriptStarts_First ==
    /\ pc = "wait" /\ \E i \in checks : ~Waiting(i)
    /\ pc' = "script" /\ UNCHANGED <<job, started, netVars, checkVars>>

ScriptStarts ==
    /\ pc = "wait" /\ \A i \in checks : ~Waiting(i)
    /\ pc' = "script" /\ UNCHANGED <<job, started, netVars, checkVars>>

End == pc = "script" /\ pc' = "ended" /\ UNCHANGED <<job, started, netVars, checkVars>>

(* What the services do. *)
Listen(i) ==
    /\ pc # "ended" /\ i <= started
    /\ \E p \in AllServices(job)[i].listens :
        /\ open' = open \cup {<<i, p>>}
        /\ heard' = IF p \in ServicePorts(AllServices(job)[i]) THEN heard \cup {i} ELSE heard
    /\ UNCHANGED <<job, pc, started, names, checkVars>>

Crash(i) ==
    /\ pc # "ended" /\ i <= started /\ open' = {o \in open : o[1] # i}
    /\ UNCHANGED <<job, pc, started, names, heard, checkVars>>

Step ==
    \/ StartService \/ Wait \/ ScriptStarts \/ End
    \/ \E i \in 1..started : Answered(i) \/ NotYet(i)

Next ==
    \/ Step \/ StartFails \/ HelperFails
    \/ \E i \in 1..started : Listen(i) \/ Crash(i)
    \/ pc = "ended" /\ UNCHANGED vars

(* The helper goes on with its loops, whatever the services do. *)
Fairness == WF_vars(Step)
Spec == Init /\ [][Next]_vars /\ Fairness

-----------------------------------------------------------------------------
(* Properties *)

TypeOK ==
    /\ job \in Jobs /\ pc \in {"services", "wait", "script", "ended"}
    /\ started \in 0..Len(AllServices(job)) /\ heard \subseteq 1..started
    /\ checks \subseteq 1..started /\ answered \subseteq checks
    /\ DOMAIN tries = checks /\ \A i \in checks : tries[i] \in 0..MaxTries

(* A script does not start against a service that is still to boot: each one *)
(* that was waited for has accepted a connection, or was tried MaxTries      *)
(* times: wait_for_services.                                                 *)
ScriptWaits ==
    pc = "script" => \A i \in checks : i \in heard \/ tries[i] = MaxTries

(* The runner's `environment` has a say in the service's name. *)
IsRenamed(s) ==
    Expand(s.path, Values(job.vars)) # Expand(s.path, Values(job.vars \o Environment))

(* The names that services have on the job's network are in its NO_PROXY,    *)
(* where the job has the runner's: service_aliases takes both from the same  *)
(* expanded name.  Only what comes of a name that `environment` changes may  *)
(* be missing, never an alias that was given (see NeverBehindProxy).         *)
AliasesAreDirect ==
    ~IsReplaced(job) => \A n \in names :
        LET s == AllServices(job)[n[2]] IN
        n[1] \in EffectiveNoProxy(job) \/ (IsRenamed(s) /\ n[1] \notin s.alias)

(* A claim the code does not keep: "Service aliases only exist on the job's  *)
(* network, never behind the proxy" (mod.rs:43).  The names of NO_PROXY are  *)
(* expanded (mod.rs:44) before `environment` is added (mod.rs:79), those of  *)
(* the network with it.                                                      *)
NeverBehindProxy ==
    ~IsReplaced(job) => \A n \in names : n[1] \in EffectiveNoProxy(job)

(* Services that never listen do not keep the scripts from starting.         *)
WaitEnds == pc = "wait" ~> pc = "script"

=============================================================================
