-------------------------------- MODULE Router --------------------------------
(***************************************************************************)
(* The router appliance and what brings a configuration to it: cloud-init  *)
(* at first boot (router-provision.sh), router-sync.sh and router-enroll.sh *)
(* from the host, each a list of commands over one SSH session.  routerctl *)
(* loads /etc/.../config.toml anew in every command, and fails when it is  *)
(* not valid; router-sync.sh installs it before anybody has looked.        *)
(***************************************************************************)
EXTENDS Configuration

CONSTANTS
    Script,     \* script runs that can be at work; Boot is cloud-init's
    Boot,
    None,       \* no file, no table, no routes
    Configs,    \* the configurations the operator writes, valid or not
    Modes       \* what may happen, see below

(***************************************************************************)
(* "alone": one script at a time, and the router may restart; "steady":    *)
(* scripts overlap as soon as there is a table, and the router does not    *)
(* restart; "any": scripts overlap, cloud-init included, and `nft list`    *)
(* may fail for another reason than the absence of the table.              *)
(***************************************************************************)
ASSUME RouterAssumption == /\ Boot \notin Script
                           /\ Configs \subseteq Config
                           /\ None \notin Configs
                           /\ \A S \in SUBSET (Source \X Address) : S # None
                           /\ \A S \in SUBSET Address : S # None
                           /\ Modes \subseteq {"alone", "steady", "any"}

VARIABLES
    mode,       \* the environment of this behaviour
    upload,     \* /tmp/tailnet-manager-config.toml, or None
    cfg,        \* the installed config.toml
    leases,     \* dnsmasq's file
    served,     \* the leases in the file dnsmasq has read, or None when it is down
    table,      \* the flows of nftables' table, or None without a table
    routes,     \* the routes tailscaled advertises, or None before any
    connected,  \* is the router in the tailnet?
    dropped,    \* the enrollments since whose enroll the tailnet has dropped the router
    ready,      \* has cloud-init finished?
    up,         \* is the router VM running?
    pc,         \* where each script is
    sent,       \* sent[p]: the configuration p uploaded
    loaded,     \* loaded[p]: the configuration p's routerctl has loaded
    exists,     \* exists[p]: firewall-apply has found the table
    failed      \* failed[p]: has a command of p failed?

files == <<upload, cfg>>
dhcp == <<leases, served>>
node == <<routes, connected, dropped>>
router == <<files, dhcp, table, node, ready, up>>
memory == <<sent, loaded, exists>>
vars == <<mode, router, pc, memory, failed>>

Run == Script \cup {Boot}
Maybe(S) == {None} \cup S
Lease == {<<Mac(a), a>> : a \in Address}
Steps == {"upload", "install", "leases", "restart", "list table", "apply", "reconfigure",
          "cleanup", "cloud-init status", "enroll", "up", "preflight"}
Results == {"synchronized", "enrolled", "error"}

TypeOK == /\ mode \in Modes
          /\ upload \in Maybe(Configs) /\ cfg \in Configs
          /\ leases \subseteq Lease /\ served \in Maybe(SUBSET Lease)
          /\ table \in Maybe(SUBSET (Source \X Address))
          /\ routes \in Maybe(SUBSET Address)
          /\ connected \in BOOLEAN /\ dropped \subseteq Run
          /\ ready \in BOOLEAN /\ up \in BOOLEAN
          /\ pc \in [Run -> {"idle"} \cup Steps \cup Results]
          /\ sent \in [Run -> Maybe(Configs)] /\ loaded \in [Run -> Maybe(Configs)]
          /\ exists \in [Run -> BOOLEAN] /\ failed \in [Run -> BOOLEAN]
          /\ \A p \in Run : pc[p] \in {"apply", "up"} => loaded[p] # None

\* cloud-init has written the files, which routerctl on the host has loaded, and applied
\* netplan; dnsmasq comes next.
Init == /\ mode \in Modes
        /\ upload = None
        /\ cfg \in Configs /\ Valid(cfg)
        /\ leases = Leases(cfg)
        /\ served = None /\ table = None /\ routes = None
        /\ connected = FALSE /\ dropped = {}
        /\ ready = FALSE /\ up = TRUE
        /\ pc = [p \in Run |-> IF p = Boot THEN "restart" ELSE "idle"]
        /\ sent = [p \in Run |-> None]
        /\ loaded = [p \in Run |-> None]
        /\ exists = [p \in Run |-> FALSE]
        /\ failed = [p \in Run |-> FALSE]

-----------------------------------------------------------------------------
(* How a script goes on.  router-sync.sh joins its remote commands with `;` *)
(* (and cloud-init runs every runcmd), so a failed one is passed over;     *)
(* router-enroll.sh joins them with `&&`.                                  *)

Enrolling(p) == sent[p] = None /\ p # Boot
Goto(p, l) == pc' = [pc EXCEPT ![p] = l]
Went(p, l) == Goto(p, l) /\ UNCHANGED failed

\* Faulty (here and below, variants above the definition they get wrong, not used by
\* it): router-enroll.sh passes over a failed command too, if tailscale was reached.
FailedPassesOver(p, l) == /\ Goto(p, IF Enrolling(p) /\ l = "up" THEN "error" ELSE l)
                          /\ failed' = [failed EXCEPT ![p] = TRUE]

Failed(p, l) == /\ Goto(p, IF Enrolling(p) THEN "error" ELSE l)
                /\ failed' = [failed EXCEPT ![p] = TRUE]

MayBegin == \/ \A q \in Run : pc[q] = "idle"
            \/ mode = "steady" /\ table # None /\ ready
            \/ mode = "any"

\* Without a router a script ends at its first ssh or scp.
Begin(p, l) == /\ p # Boot /\ pc[p] = "idle"
               /\ up /\ MayBegin
               /\ Went(p, l)
               /\ UNCHANGED <<mode, router, memory>>

-----------------------------------------------------------------------------
(* router-sync.sh.                                                         *)

\* The lease lookup or one of the two scp may fail, the second one after the
\* configuration is there: set -e ends the script.
Upload(p) == /\ pc[p] = "upload"
             /\ \/ /\ \E c \in Configs : upload' = c /\ sent' = [sent EXCEPT ![p] = c]
                   /\ Went(p, "install")
                \/ /\ upload' \in {upload} \cup Configs
                   /\ Goto(p, "error") /\ failed' = [failed EXCEPT ![p] = TRUE]
                   /\ UNCHANGED sent
             /\ UNCHANGED <<mode, cfg, dhcp, table, node, ready, up, loaded, exists>>

\* Faulty: the uploaded configuration is not installed.
InstallSkips(p) == /\ pc[p] = "install"
                   /\ UNCHANGED cfg /\ Went(p, "leases")
                   /\ UNCHANGED <<mode, upload, dhcp, table, node, ready, up, memory>>

Install(p) == /\ pc[p] = "install"
              /\ \/ upload # None /\ cfg' = upload /\ Went(p, "leases")
                 \/ UNCHANGED cfg /\ Failed(p, "leases")
              /\ UNCHANGED <<mode, upload, dhcp, table, node, ready, up, memory>>

\* The shell has emptied the file before dnsmasq-print runs.
WriteLeases(p) == /\ pc[p] = "leases"
                  /\ \/ Valid(cfg) /\ leases' = Leases(cfg) /\ Went(p, "restart")
                     \/ leases' = {} /\ Failed(p, "restart")
                  /\ UNCHANGED <<mode, files, served, table, node, ready, up, memory>>

RestartDnsmasq(p) == /\ pc[p] = "restart"
                     /\ \/ served' = leases /\ Went(p, "list table")
                        \/ served' = None /\ Failed(p, "list table")
                     /\ UNCHANGED <<mode, files, leases, table, node, ready, up, memory>>

\* The exit code is that of rm, and so always 0.
Cleanup(p) == /\ pc[p] = "cleanup"
              /\ upload' = None
              /\ Went(p, "synchronized")
              /\ UNCHANGED <<mode, cfg, dhcp, table, node, ready, up, memory>>

-----------------------------------------------------------------------------
(* routerctl firewall-apply: firewall::apply looks for the table, then      *)
(* hands nftables one transaction.  A failed look counts as no table.       *)

AfterApply(p) == CASE p = Boot -> "synchronized"
                   [] Enrolling(p) -> "preflight"
                   [] OTHER -> "reconfigure"

\* Faulty: the configuration is not validated, or not loaded.
ListTableUnchecked(p) == /\ pc[p] = "list table"
                         /\ loaded' = [loaded EXCEPT ![p] = cfg]
                         /\ exists' = [exists EXCEPT ![p] = table # None]
                         /\ Went(p, "apply")
                         /\ UNCHANGED <<mode, router, sent>>

ListTableOnly(p) == /\ pc[p] = "list table"
                    /\ exists' = [exists EXCEPT ![p] = table # None]
                    /\ Went(p, "apply")
                    /\ UNCHANGED <<mode, router, sent, loaded>>

ListTable(p) == /\ pc[p] = "list table"
                /\ \/ /\ Valid(cfg) /\ loaded' = [loaded EXCEPT ![p] = cfg]
                      /\ \/ exists' = [exists EXCEPT ![p] = table # None]
                         \/ mode = "any" /\ exists' = [exists EXCEPT ![p] = FALSE]
                      /\ Went(p, "apply")
                   \/ Failed(p, AfterApply(p)) /\ UNCHANGED <<loaded, exists>>
                /\ UNCHANGED <<mode, router, sent>>

\* Faulty: the old table is deleted ahead of the transaction.
ApplyInTwo(p) == /\ pc[p] = "apply"
                 /\ IF exists[p] /\ table # None
                    THEN table' = None /\ UNCHANGED pc
                    ELSE table' = AllowedFlows(loaded[p]) /\ Goto(p, AfterApply(p))
                 /\ UNCHANGED <<mode, files, dhcp, node, ready, up, memory, failed>>

\* With `delete table` the transaction needs a table and starts anew; without, its
\* `add`s find what is there and add to it.
Apply(p) == /\ pc[p] = "apply"
            /\ \/ /\ exists[p] => table # None
                  /\ table' = (IF exists[p] \/ table = None THEN {} ELSE table)
                                 \cup AllowedFlows(loaded[p])
                  /\ Went(p, AfterApply(p))
               \/ Failed(p, AfterApply(p)) /\ UNCHANGED table
            /\ UNCHANGED <<mode, files, dhcp, node, ready, up, memory>>

-----------------------------------------------------------------------------
(* routerctl reconfigure and enroll.                                       *)

\* tailscale set, with what enroll has loaded before or this command loads.
Reconfigure(p) == /\ pc[p] = "reconfigure"
                  /\ \/ /\ Enrolling(p) /\ routes' = AdvertisedRoutes(loaded[p])
                        /\ Went(p, "list table")
                     \/ /\ ~Enrolling(p) /\ Valid(cfg) /\ routes' = AdvertisedRoutes(cfg)
                        /\ Went(p, "cleanup")
                     \/ Failed(p, "cleanup") /\ UNCHANGED routes
                  /\ UNCHANGED <<mode, files, dhcp, table, connected, dropped, ready, up, memory>>

\* The script waits for cloud-init, and hands over the auth key.
AwaitCloudInit(p) == /\ pc[p] = "cloud-init status"
                     /\ ready
                     /\ Went(p, "enroll") \/ Failed(p, "enroll")
                     /\ UNCHANGED <<mode, router, memory>>

\* tailscale::enroll: a node with an address is only reconfigured; another one, or one
\* whose `tailscale ip` fails, needs the auth key file, which is checked before tailscale up.
Enroll(p) == /\ pc[p] = "enroll"
             /\ \/ /\ Valid(cfg) /\ loaded' = [loaded EXCEPT ![p] = cfg]
                   /\ (connected /\ Went(p, "reconfigure")) \/ Went(p, "up")
                \/ Failed(p, "up") /\ UNCHANGED loaded
             /\ UNCHANGED <<mode, router, sent, exists>>

\* tailscale up that gives up after its 30 s may have been heard.
Heard(p) == /\ connected' = TRUE /\ dropped' = dropped \ {p}
            /\ routes' = AdvertisedRoutes(loaded[p])

Up(p) == /\ pc[p] = "up"
         /\ \/ Went(p, "list table") /\ Heard(p)
            \/ Failed(p, "list table") /\ (Heard(p) \/ UNCHANGED node)
         /\ UNCHANGED <<mode, files, dhcp, table, ready, up, memory>>

\* Its other checks (forwarding, the guest address, the two links) may fail too: that
\* tailscale0 exists says nothing of the tailnet.
Preflight(p) == /\ pc[p] = "preflight"
                /\ \/ /\ Valid(cfg) /\ table # None /\ served # None
                      /\ Went(p, "enrolled")
                   \/ Failed(p, "enrolled")
                /\ UNCHANGED <<mode, router, memory>>

-----------------------------------------------------------------------------

\* The script ends; cloud-init has then made the router ready.
Finish(p) == /\ pc[p] \in Results
             /\ Goto(p, "idle")
             /\ ready' = (ready \/ p = Boot)
             /\ sent' = [sent EXCEPT ![p] = None]
             /\ loaded' = [loaded EXCEPT ![p] = None]
             /\ exists' = [exists EXCEPT ![p] = FALSE]
             /\ failed' = [failed EXCEPT ![p] = FALSE]
             /\ dropped' = dropped \ {p}
             /\ UNCHANGED <<mode, files, dhcp, table, routes, connected, up>>

\* The router VM goes down: SSH sessions, /tmp and the nftables table are gone.
GoDown == /\ mode # "steady" /\ ready /\ up
          /\ up' = FALSE
          /\ upload' = None /\ table' = None /\ served' = None
          /\ pc' = [p \in Run |-> "idle"]
          /\ sent' = [p \in Run |-> None]
          /\ loaded' = [p \in Run |-> None]
          /\ exists' = [p \in Run |-> FALSE]
          /\ failed' = [p \in Run |-> FALSE]
          /\ dropped' = {}
          /\ UNCHANGED <<mode, cfg, leases, routes, connected, ready>>

\* It boots: dnsmasq reads its file, tailscaled comes back with its own state, and nothing
\* installs the table.
ComeUp == /\ ~up
          /\ up' = TRUE
          /\ served' = leases
          /\ UNCHANGED <<mode, files, leases, table, node, ready, pc, memory, failed>>

\* The node is expelled from the tailnet, or its key expires, at any moment.
Expel == /\ connected
         /\ connected' = FALSE
         /\ dropped' = {p \in Run : Enrolling(p) /\ loaded[p] # None}
         /\ UNCHANGED <<mode, files, dhcp, table, routes, ready, up, pc, memory, failed>>

Step(p) ==
    \/ Upload(p) \/ Install(p) \/ WriteLeases(p) \/ RestartDnsmasq(p) \/ ListTable(p)
    \/ Apply(p) \/ Reconfigure(p) \/ Cleanup(p)
    \/ AwaitCloudInit(p) \/ Enroll(p) \/ Up(p) \/ Preflight(p)
    \/ Finish(p)

Next == \/ \E p \in Run : \/ Begin(p, "upload")
                          \/ Begin(p, "cloud-init status")
                          \/ Step(p)
        \/ GoDown \/ ComeUp \/ Expel

Spec == Init /\ [][Next]_vars

-----------------------------------------------------------------------------
(* Properties.                                                             *)

\* The installed flows are those of one valid configuration, never a mixture of two, and
\* never those of an uploaded file that routerctl refuses.
TableIsOnePolicy ==
    table # None => \E c \in Configs : Valid(c) /\ table = AllowedFlows(c)

\* A synchronization none of whose commands has failed leaves the configuration it was
\* given, a valid one then, in force in every place: file, leases, flows and routes.
SyncedTogether ==
    mode = "alone" =>
        \A p \in Script : pc[p] = "synchronized" /\ ~failed[p] =>
            /\ cfg = sent[p] /\ Valid(cfg)
            /\ leases = Leases(cfg) /\ served = Leases(cfg)
            /\ table = AllowedFlows(cfg)
            /\ routes = AdvertisedRoutes(cfg)

\* An enrollment that reports success leaves a router that filters, whose routes are those
\* of one valid configuration, and that is in the tailnet unless the tailnet has dropped it
\* since enroll: routerctl's preflight itself would not notice a router that is not.
EnrolledFilters ==
    \A p \in Script : pc[p] = "enrolled" =>
        /\ connected \/ p \in dropped
        /\ table # None
        /\ \E c \in Configs : Valid(c) /\ routes = AdvertisedRoutes(c)

\* The filter keeps Filter's promise: a change of policy is one step that never leaves the
\* router without its table, however firewall-apply's look and transaction interleave with
\* the other scripts, and only the router's going down takes the table away.
F == INSTANCE Filter WITH Policies <- {AllowedFlows(c) : c \in {d \in Configs : Valid(d)}}
ImplementsFilter == F!Spec
=============================================================================
