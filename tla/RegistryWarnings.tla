--------------------------- MODULE RegistryWarnings ---------------------------
(***************************************************************************)
(* What the runner says of the host dockerd's settings: daemon_warnings    *)
(* and registry_host of src/runner_daemon/executor/docker.rs, ip_in_cidr   *)
(* of src/runner_daemon/image.rs.  dockerd, not the runner, pulls the      *)
(* images, so a registry the runner's configuration calls insecure, or has *)
(* a CA for, has to be known to dockerd too.                               *)
(*                                                                         *)
(* An address is a family and a number of Width[family] bits; a CIDR is an *)
(* address and the number of its leading bits that count.                  *)
(***************************************************************************)
EXTENDS Integers, Bitwise

CONSTANTS
    Width,              \* per family, the bits of an address
    Dns,                \* per name, its addresses
    Forms,              \* how a registry may be written
    CidrSets,           \* dockerd's InsecureRegistryCIDRs
    NoHost              \* a text that is no address and does not resolve

Addresses == UNION {[v : {f}, n : 0..(2 ^ Width[f] - 1)] : f \in DOMAIN Width}
Hosts     == Addresses \union DOMAIN Dns
IsV6(host) == host \in Addresses /\ host.v = "v6"

(* An IPv6 address with a port and no brackets is another address. *)
Registries == {r \in [host : Hosts, form : Forms] : ~(IsV6(r.host) /\ r.form = "host:port")}

VARIABLES
    registry,           \* the registry of a job's image
    expected,           \* what the runner's configuration says of it
    listed,             \* dockerd's IndexConfigs has it as not secure
    cidrs,
    hasCa,              \* /etc/docker/certs.d has a CA for it
    proxy, dockerdProxy,
    pc,
    warnings

configured == <<registry, expected, listed, cidrs, hasCa, proxy, dockerdProxy>>
vars       == <<configured, pc, warnings>>

Init ==
    /\ registry \in Registries /\ expected \in {"insecure", "ca"}
    /\ listed \in BOOLEAN /\ cidrs \in CidrSets /\ hasCa \in BOOLEAN
    /\ proxy \in BOOLEAN /\ dockerdProxy \in BOOLEAN
    /\ pc = "starting" /\ warnings = {}

-----------------------------------------------------------------------------
(* `[host]:port`, `host:port` with one colon, and anything else as it is, an *)
(* IPv6 address without brackets among it.                                   *)
registry_host(r) == IF r.form = "[host]" THEN NoHost ELSE r.host

(* Mutant: the shift wraps, so no bits are all bits. *)
Mask_Wrapping(width, bits) == ((2 ^ width - 1) * 2 ^ ((width - bits) % width)) % 2 ^ width

(* MAX.checked_shl(width - bits).unwrap_or(0). *)
Mask(width, bits) ==
    IF width - bits < width THEN ((2 ^ width - 1) * 2 ^ (width - bits)) % 2 ^ width ELSE 0

(* Mutant: addresses of the two families are compared. *)
ip_in_cidr_Mixed(ip, cidr) ==
    LET mask == Mask(Width[cidr.ip.v], cidr.bits) IN (ip.n & mask) = (cidr.ip.n & mask)

ip_in_cidr(ip, cidr) ==
    /\ ip.v = cidr.ip.v
    /\ LET mask == Mask(Width[ip.v], cidr.bits) IN (ip.n & mask) = (cidr.ip.n & mask)

(* net::lookup asks for the IPv4 addresses, and for the others without any. *)
lookup(name) ==
    LET Of(family) == {ip \in Dns[name] : ip.v = family}
    IN IF Of("v4") # {} THEN Of("v4") ELSE Of("v6")

(* Without a CIDR no name is looked up. *)
Resolved(host) ==
    CASE host \in Addresses -> {host}
      [] host \notin Addresses /\ cidrs = {} -> {}
      [] host \in DOMAIN Dns /\ cidrs # {} -> lookup(host)
      [] OTHER -> {}

KnownInsecure ==
    listed \/ \E ip \in Resolved(registry_host(registry)), c \in cidrs : ip_in_cidr(ip, c)

Warnings ==
    {w \in {"proxy", "insecure", "ca"} :
        CASE w = "proxy"    -> proxy /\ ~dockerdProxy
          [] w = "insecure" -> expected = "insecure" /\ ~KnownInsecure
          [] w = "ca"       -> expected = "ca" /\ ~hasCa}

(* When the runner starts, in the background. *)
Check ==
    /\ pc = "starting" /\ pc' = "checked" /\ warnings' = Warnings
    /\ UNCHANGED configured

-----------------------------------------------------------------------------
(* dockerd: isSecureIndex splits the registry with net.SplitHostPort and     *)
(* asks of each address whether its first bits are those of a CIDR.          *)

SplitHostPort(r) == IF r.form = "[host]" THEN {} ELSE {r.host}

LookupIP(host) == IF host \in Addresses THEN {host} ELSE Dns[host]

Contains(cidr, ip) ==
    /\ ip.v = cidr.ip.v
    /\ LET rest == 2 ^ (Width[ip.v] - cidr.bits) IN ip.n \div rest = cidr.ip.n \div rest

TreatedInsecure ==
    listed \/ \E h \in SplitHostPort(registry) : \E ip \in LookupIP(h), c \in cidrs : Contains(c, ip)

PullWorks == IF expected = "insecure" THEN TreatedInsecure ELSE TreatedInsecure \/ hasCa

Pull ==
    /\ pc = "checked"
    /\ pc' = CASE ~PullWorks -> "failed"
               [] PullWorks /\ proxy /\ ~dockerdProxy -> "bypassed"
               [] OTHER -> "pulled"
    /\ UNCHANGED <<configured, warnings>>

Next == Check \/ Pull
Spec == Init /\ [][Next]_vars

-----------------------------------------------------------------------------
TypeOK ==
    /\ registry \in Registries /\ expected \in {"insecure", "ca"}
    /\ cidrs \in CidrSets /\ {listed, hasCa, proxy, dockerdProxy} \subseteq BOOLEAN
    /\ pc \in {"starting", "checked", "pulled", "bypassed", "failed"}
    /\ warnings \subseteq {"proxy", "insecure", "ca"} /\ (pc = "starting" => warnings = {})

(* "Settings of the host dockerd that the runner's config needs": a pull     *)
(* fails, or goes past the proxy, only after a warning that says so.         *)
TroubleIsWarnedOf ==
    /\ pc = "failed" => expected \in warnings
    /\ pc = "bypassed" => "proxy" \in warnings

(* "Like dockerd: insecure when one of the host's addresses is in a CIDR"    *)
(* (docker.rs:100), as it stands: of a registry dockerd does treat as        *)
(* insecure there is no warning.  A host of two families may be looked up as *)
(* one of them only (divergence 25).                                         *)
WarningsAreTrue ==
    "insecure" \in warnings => pc \notin {"pulled", "bypassed"}

(* So it is for an address and for a name with addresses of one family,      *)
(* however it is written: the CIDRs are compared as dockerd does.            *)
WarningsAreTrueOfOneFamily ==
    (\A a, b \in LookupIP(registry.host) : a.v = b.v) => WarningsAreTrue

=============================================================================
