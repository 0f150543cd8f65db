-------------------------------- MODULE Access --------------------------------
(***************************************************************************)
(* Who reaches a guest: the operator edits config.toml, the router is      *)
(* synchronized with it or restarts, and controllers, guests and the       *)
(* internet open connections through the router's forward chain.  How a    *)
(* synchronization goes about it is Router's business; here it is one      *)
(* step of Filter, which Router implements.                                *)
(***************************************************************************)
EXTENDS Configuration, FiniteSets

CONSTANTS
    First,      \* configurations the operator begins with
    None,       \* no policy in the router
    MaxEdits,   \* bound: edits in a behaviour
    MaxOpen     \* bound: connections at a time

ASSUME AccessAssumption == /\ First \subseteq Config
                           /\ None \notin Config
                           /\ MaxEdits \in Nat

VARIABLES
    file,   \* config.toml on the host, valid or not
    edits,  \* how often it was edited
    up,     \* is the router running?
    cfg,    \* the configuration whose policy the router has, or None
    ct      \* conntrack: open connections, each with the policy it was opened under

vars == <<file, edits, up, cfg, ct>>

Policies == {c \in Config : Valid(c)}
Connection == [packet : Packet, policy : Policies \cup {None}]

TypeOK == /\ file \in Config
          /\ edits \in 0 .. MaxEdits
          /\ up \in BOOLEAN
          /\ cfg \in Policies \cup {None}
          /\ ct \subseteq Connection

Init == /\ file \in First
        /\ edits = 0
        /\ up = TRUE
        /\ cfg = None
        /\ ct = {}

-----------------------------------------------------------------------------

\* One table, list or value is rewritten.
Edited(c) ==
    {[c EXCEPT !.controllers = S] : S \in SUBSET Controller}
      \cup {[c EXCEPT !.active = S] : S \in SUBSET Controller}
      \cup {[c EXCEPT !.sources[k] = S] : k \in Controller, S \in SUBSET Source}
      \cup {[c EXCEPT !.key[k] = f] : k \in Controller, f \in Key \cup {BadKey}}
      \cup {[c EXCEPT !.vms = S] : S \in SUBSET Vm}
      \cup {[c EXCEPT !.address[v] = a] : v \in Vm, a \in Address}
      \cup {[c EXCEPT !.only[v] = S] : v \in Vm, S \in SUBSET Controller}

Edit == /\ edits < MaxEdits
        /\ edits' = edits + 1
        /\ file' \in Edited(file)
        /\ UNCHANGED <<up, cfg, ct>>

\* Faulty: the configuration is read without being validated.
ApplyUnchecked == /\ up
                  /\ cfg' = file
                  /\ UNCHANGED <<file, edits, up, ct>>

\* routerctl loads and installs the uploaded file; conntrack keeps what it has.
Apply == /\ up /\ Valid(file)
         /\ cfg' = file
         /\ UNCHANGED <<file, edits, up, ct>>

GoDown == /\ up /\ up' = FALSE
          /\ cfg' = None
          /\ ct' = {}
          /\ UNCHANGED <<file, edits>>

\* No table is installed at boot, and forwarding is on.
ComeUp == /\ ~up /\ up' = TRUE
          /\ UNCHANGED <<file, edits, cfg, ct>>

-----------------------------------------------------------------------------
(* Packets.                                                                *)

Reply(p) == [from |-> p.to, to |-> p.from, port |-> p.port]

\* ct state established: a packet of x in either direction; related: an ICMP error about
\* one, sent by any host to an end of x.
Belongs(p, x) == IF p.port = "error" THEN p.to \in {x.packet.from, x.packet.to}
                 ELSE x.packet \in {p, Reply(p)}
Established(p) == \E x \in ct : Belongs(p, x)
Forwards(p) == up /\ (cfg # None => Accepts(cfg, p, Established(p)))

\* An error opens nothing.
Open(p) == /\ Forwards(p) /\ ~Established(p) /\ p.port # "error"
           /\ Cardinality(ct) < MaxOpen
           /\ ct' = ct \cup {[packet |-> p, policy |-> cfg]}
           /\ UNCHANGED <<file, edits, up, cfg>>

Close(x) == /\ ct' = ct \ {x}
            /\ UNCHANGED <<file, edits, up, cfg>>

Next == \/ Edit \/ Apply \/ GoDown \/ ComeUp
        \/ \E p \in Packet : Open(p)
        \/ \E x \in ct : Close(x)

Spec == Init /\ [][Next]_vars

-----------------------------------------------------------------------------
(* Properties.                                                             *)

\* Under a policy each packet that reaches a guest from the tailnet, on a connection
\* opened long ago too, is one for adbd and can be attributed: its source is that of one
\* active controller, whom the one VM at that address admits.  So a source, a controller
\* or a list entry that is taken away is cut off by the next synchronization.
ReachIsAttributable ==
    cfg # None =>
        \A p \in Packet : Forwards(p) /\ Across(p, "tailnet", "guest") =>
            /\ p.port = "adb"
            /\ \E k \in Active(cfg), v \in cfg.vms :
                   /\ {j \in Active(cfg) : p.from \in cfg.sources[j]} = {k}
                   /\ {u \in cfg.vms : cfg.address[u] = p.to} = {v}
                   /\ cfg.only[v] = {} \/ k \in cfg.only[v]

\* Opened by a guest to the internet, by a controller admitted then, or under no policy.
Admitted(x) == \/ x.policy = None
               \/ Across(x.packet, "guest", "uplink")
               \/ <<x.packet.from, x.packet.to>> \in AllowedFlows(x.policy)

\* Under a policy, whatever else the router forwards is a guest's own connection to the
\* internet, or comes from or goes to a guest on a connection that was admitted when it was
\* opened, as an answer or as an error about it.  (One opened while there was no policy
\* goes on, in the directions of answers.)  Nothing passes between tailnet and internet.
OthersOnlyAnswer ==
    cfg # None =>
        \A p \in Packet : Forwards(p) =>
            \/ Across(p, "tailnet", "guest") \/ Across(p, "guest", "uplink")
            \/ /\ Across(p, "guest", "tailnet") \/ Across(p, "uplink", "guest")
               /\ \E x \in ct :
                      /\ Belongs(p, x) /\ Admitted(x)
                      /\ x.packet # p \/ x.policy = None

\* A VM's bundle has the keys of exactly the controllers whose sources reach it, or there is
\* none because one of these has a bad key file; that of another controller never matters.
\* (docs/architecture.md says that address and key policy cannot drift.  The flows do not
\* wait for a bundle: with a bad file they are there and the bundle is not.)
KeysMatchFlows ==
    Valid(file) => \A v \in file.vms :
        LET reaching == {k \in Active(file) :
                \E s \in file.sources[k] : <<s, file.address[v]>> \in AllowedFlows(file)}
            keys == {file.key[k] : k \in reaching}
        IN  \/ BadKey \notin keys /\ AuthorizedKeys(file, v) = keys
            \/ BadKey \in keys /\ AuthorizedKeys(file, v) = BadKey

\* An edit that only takes away: controllers, their activity or sources, VMs, entries of
\* a VM's list; but not the last entry of a list, which admits everybody.
Narrows(c, d) ==
    /\ Active(d) \subseteq Active(c)
    /\ \A k \in Active(d) : d.sources[k] \subseteq c.sources[k] /\ d.key[k] = c.key[k]
    /\ d.vms \subseteq c.vms
    /\ \A v \in d.vms : /\ d.address[v] = c.address[v]
                        /\ \/ c.only[v] = {}
                           \/ d.only[v] # {} /\ d.only[v] \subseteq c.only[v]

\* Such an edit opens no flow and hands out no key but those of controllers the VM had:
\* deactivating the only controller of a VM's list does not make the list one that admits
\* everybody.  (A bundle may come about where a controller with a bad file is gone.)
NarrowingNeverWidens ==
    [][Narrows(file, file') =>
        /\ AllowedFlows(file') \subseteq AllowedFlows(file)
        /\ \A v \in file'.vms :
               \/ AuthorizedKeys(file', v) = BadKey
               \/ AuthorizedKeys(file', v) \subseteq {file.key[k] : k \in ControllersForVm(file, v)}
       ]_vars

\* While the guest subnet lies in one /8, no two VMs have the same MAC address, so each
\* gets the address dnsmasq keeps for it; and only a VM at x.0.0.2 takes the router's.
LeasesTellApart ==
    Valid(file) /\ (\A a \in file.subnet : a[1] = file.lan[1]) =>
        /\ \A x, y \in Leases(file) : x[1] = y[1] => x = y
        /\ \A x \in Leases(file) : x[1] = RouterMac => x[2] = <<file.lan[1], 0, 0, 2>>

\* The policy comes and goes as Filter says.
Table == INSTANCE Filter WITH
    Policies <- {AllowedFlows(c) : c \in Policies},
    table <- IF cfg = None THEN None ELSE AllowedFlows(cfg)
=============================================================================
