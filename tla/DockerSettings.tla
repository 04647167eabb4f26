---------------------------- MODULE DockerSettings ----------------------------
(***************************************************************************)
(* The sizes of `[executor.docker]`: DockerConfig::validate and parse_size *)
(* of src/runner_daemon/config.rs when the runner starts, host_config of   *)
(* src/runner_daemon/executor/docker.rs for each container, and dockerd,   *)
(* which may refuse what it is given.                                      *)
(***************************************************************************)
EXTENDS Integers

CONSTANTS
    MaxSize,            \* i64::MAX
    Kilo,               \* 1 << 10
    MinMemory,          \* the least memory dockerd gives a container
    Texts               \* what a setting may say: a number and a unit

SettingsAssumption ==
    MaxSize \in Nat /\ Kilo \in Nat \ {0} /\ MinMemory \in Nat

Fields == {"memory", "memory_swap", "memory_reservation", "shm_size"}

(* None, Some("-1"), and what is no size; every other value is a size. *)
Absent    == -3
Unlimited == -1
Invalid   == -2

Units == [b |-> 1, k |-> Kilo, m |-> Kilo * Kilo]

VARIABLES
    settings,           \* per field, its text or NotSet
    pc,
    host                \* the container's HostConfig, 0 for what is not set

vars == <<settings, pc, host>>

NotSet   == [number |-> 0, unit |-> "unset"]
NegOne   == [number |-> 0, unit |-> "-1"]

Init ==
    /\ settings \in [Fields -> Texts \union {NotSet}]
    /\ pc = "starting" /\ host = [f \in Fields |-> 0]

(* Mutant: a multiplication that wraps. *)
Times_Wrapping(a, b) == (a * b) % (MaxSize + 1)

(* checked_mul. *)
Times(a, b) == IF a * b > MaxSize THEN Invalid ELSE a * b

parse_size(text) ==
    CASE text = NotSet -> Absent
      [] text = NegOne -> Unlimited
      [] /\ text \notin {NotSet, NegOne}
         /\ text.unit \notin DOMAIN Units \/ text.number > MaxSize -> Invalid
      [] OTHER -> Times(text.number, Units[text.unit])

Size(f) == parse_size(settings[f])

(* Mutant: only checked when there is a limit. *)
SwapIsValid_Optional(swap, memory) ==
    memory # Absent /\ swap # Absent => swap = Unlimited \/ swap >= memory

SwapIsValid(swap, memory) ==
    IF memory # Absent /\ swap # Absent THEN swap = Unlimited \/ swap >= memory
    ELSE swap \in {Absent, Unlimited}

Valid ==
    /\ \A f \in Fields : Size(f) # Invalid
    /\ \A f \in Fields \ {"memory_swap"} : Size(f) # Unlimited
    /\ SwapIsValid(Size("memory_swap"), Size("memory"))

(* RunnerConfig::load and DockerExecutor::new both validate. *)
Load ==
    /\ pc = "starting" /\ pc' = IF Valid THEN "ready" ELSE "invalid"
    /\ UNCHANGED <<settings, host>>

HostConfig == [f \in Fields |-> IF Size(f) = Absent THEN 0 ELSE Size(f)]

(* What dockerd refuses to create (verifyPlatformContainerResources). *)
Starved(n) == n > 0 /\ n < MinMemory

Refused(h) ==
    \/ Starved(h.memory) \/ Starved(h.memory_reservation) \/ h.shm_size < 0
    \/ h.memory < 0 \/ h.memory_reservation < 0
    \/ h.memory > 0 /\ h.memory_swap > 0 /\ h.memory_swap < h.memory
    \/ h.memory = 0 /\ h.memory_swap > 0
    \/ h.memory > 0 /\ h.memory_reservation > h.memory

Create ==
    /\ pc = "ready" /\ host' = HostConfig
    /\ pc' = IF Refused(HostConfig) THEN "refused" ELSE "created"
    /\ UNCHANGED settings

Next == Load \/ Create
Spec == Init /\ [][Next]_vars

-----------------------------------------------------------------------------
TypeOK ==
    /\ settings \in [Fields -> Texts \union {NotSet}]
    /\ pc \in {"starting", "invalid", "ready", "created", "refused"}
    /\ host \in [Fields -> -1..MaxSize]

(* A container gets the number of bytes the setting says, never one that     *)
(* came out of an overflow, and a setting that cannot be given is refused    *)
(* when the runner starts.                                                   *)
Bytes(text) == text.number * Units[text.unit]

SizesAreExact ==
    pc \in {"created", "refused"} => \A f \in Fields :
        settings[f].unit \in DOMAIN Units => host[f] = Bytes(settings[f])

(* Of a runner that started, dockerd refuses a container for three reasons   *)
(* only, none of which `validate` looks at: a limit too small, a reservation *)
(* above the limit, and a swap beside a limit that is set to 0.  No negative *)
(* size, no swap below a limit and none beside an absent one gets that far.  *)
RefusedForThese ==
    pc = "refused" =>
        \/ \E f \in {"memory", "memory_reservation"} : Starved(host[f])
        \/ host.memory > 0 /\ host.memory_reservation > host.memory
        \/ settings.memory # NotSet /\ host.memory = 0 /\ host.memory_swap > 0

(* "executor.docker.memory_swap needs memory to be set too" (config.rs:225), *)
(* one of "every setting that can be wrong" (config.rs:204): memory = "0",   *)
(* which sets no limit, passes for a limit (divergence 24).                  *)
SwapHasLimit == pc \in {"created", "refused"} /\ host.memory_swap > 0 => host.memory > 0

=============================================================================
