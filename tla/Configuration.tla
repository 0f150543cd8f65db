----------------------------- MODULE Configuration -----------------------------
(***************************************************************************)
(* config.toml: what Config::validate demands of it, and what hostctl and  *)
(* routerctl derive from it.  A list of names is a set (validate refuses   *)
(* duplicates in it), and the values that validate looks at one by one     *)
(* (host name, paths, interface names, vcpus) are well-formed here.        *)
(***************************************************************************)
EXTENDS Naturals

CONSTANTS
    Controller,  \* controller names
    Vm,          \* names of Android VMs
    Source,      \* addresses a controller may be given
    Tailnet,     \* those of 100.64.0.0/10
    Address,     \* IPv4 addresses on the guest side, as four octets
    Key,         \* fingerprints of ADB public keys
    BadKey,      \* a key file that is missing or refused, and the Err that a bundle with it is
    Wan          \* a host of the internet

ASSUME ConfigurationAssumption == /\ Tailnet \subseteq Source
                                  /\ Address \subseteq [1 .. 4 -> 0 .. 255]
                                  /\ BadKey \notin Key
                                  /\ \A S \in SUBSET Key : S # BadKey
                                  /\ Source \cap Address = {}
                                  /\ Wan \notin Source \cup Address

\* controllers and vms: the tables that are there; active: controllers with active = true;
\* key: what the controller's key file holds; only: the `controllers` list of a VM, empty
\* when it is omitted; subnet: the addresses that guest_subnet contains.
Config == [controllers : SUBSET Controller, active : SUBSET Controller,
           sources : [Controller -> SUBSET Source], key : [Controller -> Key \cup {BadKey}],
           vms : SUBSET Vm, address : [Vm -> Address], only : [Vm -> SUBSET Controller],
           subnet : SUBSET Address, lan : Address]

Active(c) == c.controllers \cap c.active

\* Faulty variants (here and below, each above the definition it gets wrong, none used
\* by it): two active controllers may share a source.
SourcesShared(c) == \A k \in c.controllers : c.sources[k] \subseteq Tailnet

SourcesTellApart(c) ==
    /\ \A k \in c.controllers : c.sources[k] \subseteq Tailnet
    /\ \A k \in Active(c) : c.sources[k] # {}
    /\ \A j, k \in Active(c) : j # k => c.sources[j] \cap c.sources[k] = {}

Valid(c) ==
    /\ c.lan \in c.subnet
    /\ c.controllers # {} /\ c.vms # {}
    /\ SourcesTellApart(c)
    /\ \A v \in c.vms : c.address[v] \in c.subnet /\ c.only[v] \subseteq c.controllers
    /\ \A u, v \in c.vms : u # v => c.address[u] # c.address[v]

\* Faulty: inactive controllers are dropped from a VM's list before it is found empty.
ControllersIfAnyLeft(c, v) ==
    {k \in Active(c) : c.only[v] \cap Active(c) = {} \/ k \in c.only[v]}

ControllersForVm(c, v) == {k \in Active(c) : c.only[v] = {} \/ k \in c.only[v]}

SourcesForVm(c, v) == UNION {c.sources[k] : k \in ControllersForVm(c, v)}

\* The elements of the allowed_adb_flows set.
AllowedFlows(c) == UNION {SourcesForVm(c, v) \X {c.address[v]} : v \in c.vms}

\* One bad file fails the whole bundle, and nothing is printed.
Bundle(keys) == IF BadKey \in keys THEN BadKey ELSE keys

\* Faulty: the bundle has the keys of all active controllers.
KeysOfActive(c, v) == Bundle({c.key[k] : k \in Active(c)})

\* The fingerprints of a VM's authorized_keys, or the error.
AuthorizedKeys(c, v) == Bundle({c.key[k] : k \in ControllersForVm(c, v)})

AdvertisedRoutes(c) == {c.address[v] : v \in c.vms}

\* Faulty: the host part of a /16 is taken for the whole address.
MacOfTwo(a) == <<0, a[3], a[4]>>

\* What follows 52:54:00 in a VM's MAC address.
Mac(a) == <<a[2], a[3], a[4]>>
RouterMac == <<0, 0, 2>>

\* dnsmasq's dhcp-host lines.
Leases(c) == {<<Mac(c.address[v]), c.address[v]>> : v \in c.vms}

-----------------------------------------------------------------------------
(* The forward chain that ruleset generates, on one packet.                *)

Host == Source \cup Address \cup {Wan}
\* port: adbd's, another protocol's or port, or none in an ICMP error about a connection.
Packet == [from : Host, to : Host, port : {"adb", "other", "error"}]
Side(h) == IF h \in Source THEN "tailnet" ELSE IF h \in Address THEN "guest" ELSE "uplink"
Across(p, a, b) == Side(p.from) = a /\ Side(p.to) = b

\* A flow of the set reaches adbd.
FromTailnet(c, p) == /\ Across(p, "tailnet", "guest")
                     /\ <<p.from, p.to>> \in AllowedFlows(c)
                     /\ p.port = "adb"

\* A guest reaches the internet through NAT.
FromGuest(c, p) == Across(p, "guest", "uplink") /\ p.from \in c.subnet

\* Faulty: established and related packets are accepted in every direction.
AnswersAll(c, p) == TRUE
\* Established and related packets are accepted between these sides.
Answers(c, p) == \/ Across(p, "guest", "tailnet") /\ p.from \in c.subnet
                 \/ Across(p, "uplink", "guest") /\ p.to \in c.subnet

\* Faulty: the state of the connection is not looked at.
AcceptsStateless(c, p, tracked) == FromTailnet(c, p) \/ FromGuest(c, p) \/ Answers(c, p)

\* What no rule accepts is dropped.  tracked: is ct state established or related?
Accepts(c, p, tracked) == FromTailnet(c, p) \/ FromGuest(c, p) \/ (tracked /\ Answers(c, p))
=============================================================================
