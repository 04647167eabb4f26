-------------------------------- MODULE MCHost --------------------------------
(* What outlives a job and is shared: the Docker daemon, the cache, S3, the  *)
(* runner's token, its settings and its program.  The components share no    *)
(* state, so a behaviour is one of a single component, `part`, while the     *)
(* others stay Idle.                                                         *)
EXTENDS Integers, Sequences, FiniteSets, TLC

CONSTANTS
    Parts,              \* the components to look at
    both, far, none,    \* names of registries
    NoHost

VARIABLES
    part,               \* the component this behaviour is of
    \* DockerHost
    container, network, dockerFaults, machineId, stateFile, id, starts,
    dockerPc, at, wants, rec, net, volume, todo, seen, lost, sweepOk,
    \* JobCache
    archive, sidecar, old, object, saves, cachePc, version, etag, made, tries,
    told, evicted, overtaken, mixed,
    \* S3Breaker
    s3, tripped, left, breakerPc, attempt, trial, timer, age, drops,
    \* TokenRotation
    now, up, config, token, masked, tokenPc, expiry, wake, answer, tokenFile,
    valid, expires, tokenFaults, failed,
    \* Upgrade
    latest, exe, temp, content, runnable, runs, upgradePc, tag, binary, sums,
    upgradeFile, replaced, faulty, crossed, doubtful,
    \* DockerSettings
    settings, sizePc, host,
    \* RegistryWarnings
    registry, expected, listed, cidrs, hasCa, proxy, dockerdProxy, registryPc,
    warnings

Idle == "idle"

-----------------------------------------------------------------------------
(* Sizes around 0, dockerd's minimum, the limit of the integer, and no size. *)
MinusOne == [number |-> 0, unit |-> "-1"]
Size(n, u) == [number |-> n, unit |-> u]
SizesMC ==
    {MinusOne, Size(0, "b"), Size(1, "b"), Size(6, "b"), Size(9, "b"), Size(2, "k"),
     Size(3, "m"), Size(4, "m"), Size(70, "b"), Size(1, "t")}

(* No CIDR, each one, and each beside one that covers an IPv6 address. *)
WidthMC == [v4 |-> 2, v6 |-> 3]
Ip(v, n) == [v |-> v, n |-> n]
DnsMC == (both :> {Ip("v4", 1), Ip("v6", 5)}) @@ (far :> {Ip("v4", 3)}) @@ (none :> {})
Cidrs == UNION {[ip : {Ip(v, n) : n \in 0..(2 ^ WidthMC[v] - 1)}, bits : 0..WidthMC[v]] :
                    v \in {"v4", "v6"}}
CidrSetsMC ==
    {{}} \union {{c} : c \in Cidrs} \union
    {{c, [ip |-> Ip("v6", 5), bits |-> 3]} : c \in {d \in Cidrs : d.ip.v = "v4"}}

-----------------------------------------------------------------------------
(* The components. *)

(* One runner that is killed and restarted; two runners on one daemon. *)
Alone == INSTANCE DockerHost WITH
    Runners <- {"solo"}, Uses <- {"sources", "svc", "wait", "untracked"},
    MaxStarts <- 2, MaxFaults <- 1, faults <- dockerFaults, pc <- dockerPc
Pair == INSTANCE DockerHost WITH
    Runners <- {"a", "b"}, Uses <- {"svc"}, MaxStarts <- 1, MaxFaults <- 0,
    faults <- dockerFaults, pc <- dockerPc

(* A job at a time on each of two hosts that share the bucket, with jobs of  *)
(* other keys that evict on one of them; and two jobs at once on a host.     *)
Cache == INSTANCE JobCache WITH
    Hosts <- {"h1", "h2"}, Jobs <- {"j1", "j2", "other"}, Others <- {"other"},
    HostOf <- [j1 |-> "h1", j2 |-> "h2", other |-> "h1"], MaxSaves <- 2,
    Attempts <- 2, pc <- cachePc
Shared == INSTANCE JobCache WITH
    Hosts <- {"h1"}, Jobs <- {"j1", "j2"}, Others <- {},
    HostOf <- [j1 |-> "h1", j2 |-> "h1"], MaxSaves <- 3, Attempts <- 1,
    pc <- cachePc

(* The cooldown is as long as a stall, as in the code.                       *)
Calls == INSTANCE S3Breaker WITH
    Calls <- {"c1", "c2", "c3"}, ATTEMPTS <- 2, Cooldown <- 1, Stall <- 1,
    MaxDrops <- 1, pc <- breakerPc

Rotation == INSTANCE TokenRotation WITH
    Configs <- {"a", "b"}, Lifetime <- 4, MaxTime <- 9, pc <- tokenPc,
    file <- tokenFile, faults <- tokenFaults

(* Two at once, each of which may be repeated.                               *)
Upgrades == INSTANCE Upgrade WITH
    Upgraders <- {"one", "another"}, MaxVersion <- 2, MaxRuns <- 2, pc <- upgradePc,
    file <- upgradeFile

Sizes == INSTANCE DockerSettings WITH
    MaxSize <- 63, Kilo <- 4, MinMemory <- 6, Texts <- SizesMC, pc <- sizePc

Registries == INSTANCE RegistryWarnings WITH
    Width <- WidthMC, Dns <- DnsMC, Forms <- {"host", "host:port",
    "[host]:port", "[host]"}, CidrSets <- CidrSetsMC, NoHost <- NoHost,
    pc <- registryPc

DockerIdle ==
    /\ container = Idle /\ network = Idle /\ dockerFaults = Idle
    /\ machineId = Idle /\ stateFile = Idle /\ id = Idle /\ starts = Idle
    /\ dockerPc = Idle /\ at = Idle /\ wants = Idle /\ rec = Idle
    /\ net = Idle /\ volume = Idle /\ todo = Idle /\ seen = Idle
    /\ lost = Idle /\ sweepOk = Idle

CacheIdle ==
    /\ archive = Idle /\ sidecar = Idle /\ old = Idle /\ object = Idle
    /\ saves = Idle /\ cachePc = Idle /\ version = Idle /\ etag = Idle
    /\ made = Idle /\ tries = Idle /\ told = Idle /\ evicted = Idle
    /\ overtaken = Idle /\ mixed = Idle

BreakerIdle ==
    /\ s3 = Idle /\ tripped = Idle /\ left = Idle /\ breakerPc = Idle
    /\ attempt = Idle /\ trial = Idle /\ timer = Idle /\ age = Idle
    /\ drops = Idle

TokenIdle ==
    /\ now = Idle /\ up = Idle /\ config = Idle /\ token = Idle
    /\ masked = Idle /\ tokenPc = Idle /\ expiry = Idle /\ wake = Idle
    /\ answer = Idle /\ tokenFile = Idle /\ valid = Idle /\ expires = Idle
    /\ tokenFaults = Idle /\ failed = Idle

UpgradeIdle ==
    /\ latest = Idle /\ exe = Idle /\ temp = Idle /\ content = Idle
    /\ runnable = Idle /\ runs = Idle /\ upgradePc = Idle /\ tag = Idle
    /\ binary = Idle /\ sums = Idle /\ upgradeFile = Idle /\ faulty = Idle
    /\ replaced = Idle /\ crossed = Idle /\ doubtful = Idle

SizeIdle ==
    /\ settings = Idle /\ sizePc = Idle /\ host = Idle

RegistryIdle ==
    /\ registry = Idle /\ expected = Idle /\ listed = Idle /\ cidrs = Idle
    /\ hasCa = Idle /\ proxy = Idle /\ dockerdProxy = Idle
    /\ registryPc = Idle /\ warnings = Idle

dockerVars ==
    <<container, network, dockerFaults, machineId, stateFile, id, starts,
      dockerPc, at, wants, rec, net, volume, todo, seen, lost, sweepOk>>
cacheVars ==
    <<archive, sidecar, old, object, saves, cachePc, version, etag, made, tries,
      told, evicted, overtaken, mixed>>
breakerVars ==
    <<s3, tripped, left, breakerPc, attempt, trial, timer, age, drops>>
tokenVars ==
    <<now, up, config, token, masked, tokenPc, expiry, wake, answer, tokenFile,
      valid, expires, tokenFaults, failed>>
upgradeVars ==
    <<latest, exe, temp, content, runnable, runs, upgradePc, tag, binary, sums,
      upgradeFile, replaced, faulty, crossed, doubtful>>
sizeVars ==
    <<settings, sizePc, host>>
registryVars ==
    <<registry, expected, listed, cidrs, hasCa, proxy, dockerdProxy, registryPc,
      warnings>>
all == <<part, dockerVars, cacheVars, breakerVars, tokenVars, upgradeVars, sizeVars, registryVars>>

Init ==
    /\ part \in Parts
    /\ IF part = "one runner" THEN Alone!Init
       ELSE IF part = "two runners" THEN Pair!Init ELSE DockerIdle
    /\ IF part = "cache" THEN Cache!Init
       ELSE IF part = "shared cache" THEN Shared!Init ELSE CacheIdle
    /\ IF part = "s3" THEN Calls!Init ELSE BreakerIdle
    /\ IF part = "token" THEN Rotation!Init ELSE TokenIdle
    /\ IF part = "upgrade" THEN Upgrades!Init ELSE UpgradeIdle
    /\ IF part = "sizes" THEN Sizes!Init ELSE SizeIdle
    /\ IF part = "registries" THEN Registries!Init ELSE RegistryIdle

DockerStep ==
    /\ \/ part = "one runner" /\ Alone!Next
       \/ part = "two runners" /\ Pair!Next
    /\ UNCHANGED <<part, cacheVars, breakerVars, tokenVars, upgradeVars,
                   sizeVars, registryVars>>

CacheStep ==
    /\ \/ part = "cache" /\ Cache!Next
       \/ part = "shared cache" /\ Shared!Next
    /\ UNCHANGED <<part, dockerVars, breakerVars, tokenVars, upgradeVars,
                   sizeVars, registryVars>>

BreakerStep ==
    /\ part = "s3" /\ Calls!Next
    /\ UNCHANGED <<part, dockerVars, cacheVars, tokenVars, upgradeVars,
                   sizeVars, registryVars>>

TokenStep ==
    /\ part = "token" /\ Rotation!Next
    /\ UNCHANGED <<part, dockerVars, cacheVars, breakerVars, upgradeVars,
                   sizeVars, registryVars>>

UpgradeStep ==
    /\ part = "upgrade" /\ Upgrades!Next
    /\ UNCHANGED <<part, dockerVars, cacheVars, breakerVars, tokenVars,
                   sizeVars, registryVars>>

SizeStep ==
    /\ part = "sizes" /\ Sizes!Next
    /\ UNCHANGED <<part, dockerVars, cacheVars, breakerVars, tokenVars,
                   upgradeVars, registryVars>>

RegistryStep ==
    /\ part = "registries" /\ Registries!Next
    /\ UNCHANGED <<part, dockerVars, cacheVars, breakerVars, tokenVars,
                   upgradeVars, sizeVars>>

Next ==
    \/ DockerStep \/ CacheStep \/ BreakerStep \/ TokenStep
    \/ UpgradeStep \/ SizeStep \/ RegistryStep

Spec == Init /\ [][Next]_all

-----------------------------------------------------------------------------
(* Properties: each is stated, with its reasons, in the module of its component. *)

ASSUME Assumptions ==
    /\ Alone!DockerAssumption /\ Pair!DockerAssumption
    /\ Cache!CacheAssumption /\ Shared!CacheAssumption /\ Calls!BreakerAssumption
    /\ Rotation!TokenAssumption /\ Sizes!SettingsAssumption /\ Upgrades!UpgradeAssumption

(* What a job leaves on the Docker host has an explanation, a start removes  *)
(* what earlier runs of the runner left, and a runner removes another's      *)
(* container only when it could not see whose it is: release, sweep_orphans, *)
(* create_named.                                                             *)
DockerIsLeftClean ==
    /\ [](part = "one runner" => Alone!TypeOK /\ Alone!LeftoversExplained /\ Alone!SweepClears)
    /\ [](part = "two runners" => Pair!TypeOK /\ Pair!LeftoversExplained)
    /\ [][part = "two runners" => Pair!SparesOthers]_all

(* Until a job of the same key overtakes another one on its host: where S3   *)
(* would answer 304 the host's archive is that object or a newer one; a      *)
(* restore whose archive is not evicted under it extracts nothing older than *)
(* what S3 held; a cache that was told to be uploaded is in S3.  While S3 is *)
(* away at most one call of a cooldown waits for it, as long as that lasts:  *)
(* fetch, save, put_file, check_breaker.  What fails without these "until",  *)
(* "whose" and "as long as" is stated at the end.                            *)
CacheIsCurrent ==
    /\ [](part = "cache" => Cache!TypeOK /\ Cache!NotModifiedIsCurrent)
    /\ [][part = "cache" => Cache!RestoresCurrent /\ Cache!UploadsSaved]_all
    /\ [](part = "shared cache" => Shared!TypeOK /\ Shared!NotModifiedIsCurrent)
    /\ [][part = "shared cache" => Shared!RestoresCurrent /\ Shared!UploadsSaved]_all
    /\ [](part = "s3" => Calls!TypeOK /\ Calls!OneTrialPerCooldown)

(* Whenever it is killed, the next start of the runner has a token GitLab    *)
(* takes, but for named faults, and a program that is a whole release.  The  *)
(* token in use is masked, its stored end is the true one, only stored       *)
(* tokens are reset, in time; what an earlier upgrade left does not stop the *)
(* next, and one that says so has installed what it found, as long as no     *)
(* other one crosses it or overtakes it: rotate_token, TokenStore, upgrade.  *)
RunnerSurvivesKills ==
    /\ [](part = "token" => /\ Rotation!TypeOK /\ Rotation!StoredIsValid
                            /\ Rotation!TokenIsMasked /\ Rotation!StoredEndIsTrue)
    /\ [][part = "token" => Rotation!ResetsStored /\ Rotation!EndsByFailure]_all
    /\ [](part = "upgrade" => /\ Upgrades!TypeOK /\ Upgrades!ExeIsWhole
                              /\ Upgrades!LeftoversDoNotMatter)
    /\ [][part = "upgrade" => Upgrades!InstallsFound]_all

(* A container gets the bytes its setting says, and dockerd refuses one only *)
(* for a limit too small, a reservation above the limit, or a swap beside a  *)
(* limit of 0; a pull that fails or bypasses the proxy was warned of, and a  *)
(* warning of a registry with one family of addresses is true: validate,     *)
(* parse_size, daemon_warnings.                                              *)
SettingsAreUnderstood ==
    /\ [](part = "sizes" => /\ Sizes!TypeOK /\ Sizes!SizesAreExact
                            /\ Sizes!RefusedForThese)
    /\ [](part = "registries" => /\ Registries!TypeOK /\ Registries!TroubleIsWarnedOf
                                 /\ Registries!WarningsAreTrueOfOneFamily)

-----------------------------------------------------------------------------
(* What documents and comments say without these conditions.  None of it     *)
(* holds: with its component alone in Parts, TLC finds how.                  *)

(* "<archive>.etag holds the ETag of its S3 object" (job_cache.rs:4), with   *)
(* two jobs of a key on a host.                                              *)
SidecarIsOfArchive == part = "shared cache" => Shared!EtagIsOfArchive

(* "Saved archives are written locally and uploaded"                         *)
(* (docs/configuration.md:156), with two jobs of a key on a host.            *)
SavedIsInS3 == [][part = "shared cache" => Shared!UploadsOf({"j1", "j2"})]_all

(* "An unchanged one is taken from the local disk"                           *)
(* (docs/configuration.md:155), while other jobs evict.                      *)
UnchangedIsFound == [][part = "cache" => Cache!FindsHeld]_all

(* "One call tries S3 again while the others keep skipping it"               *)
(* (docs/configuration.md:168).                                              *)
OneCallTries == part = "s3" => Calls!OneTrial

(* "Must not be killed" (docker.rs:882), with two runners on a daemon.       *)
OthersAreNotKilled == [][part = "two runners" => Pair!NeverKillsOthers]_all

(* "Replace this binary ... after checking it ... and making sure it runs"   *)
(* (main.rs:214), with two upgrades at once.                                 *)
ProgramAlwaysRuns == part = "upgrade" => Upgrades!ExeAlwaysRuns

(* "memory_swap needs memory to be set too" (config.rs:225).                 *)
SwapNeedsMemory == part = "sizes" => Sizes!SwapHasLimit

(* "Like dockerd" (docker.rs:100), of a host with both families.             *)
LikeDockerd == part = "registries" => Registries!WarningsAreTrue

=============================================================================
