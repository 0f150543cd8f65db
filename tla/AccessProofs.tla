----------------------------- MODULE AccessProofs -----------------------------
(***************************************************************************)
(* Theorems of Access, for any controllers, VMs, addresses and edits.      *)
(***************************************************************************)
EXTENDS Access, TLAPS

LEMMA EditedType == ASSUME NEW c \in Config
                    PROVE Edited(c) \subseteq Config
<1> DEFINE Controllers == {[c EXCEPT !.controllers = S] : S \in SUBSET Controller}
           Actives == {[c EXCEPT !.active = S] : S \in SUBSET Controller}
           Sources == {[c EXCEPT !.sources[k] = S] : k \in Controller, S \in SUBSET Source}
           Keys == {[c EXCEPT !.key[k] = f] : k \in Controller, f \in Key \cup {BadKey}}
           Vms == {[c EXCEPT !.vms = S] : S \in SUBSET Vm}
           Addresses == {[c EXCEPT !.address[v] = a] : v \in Vm, a \in Address}
           Onlys == {[c EXCEPT !.only[v] = S] : v \in Vm, S \in SUBSET Controller}
<1>1. Controllers \subseteq Config /\ Actives \subseteq Config
  BY DEF Config
<1>2. Sources \subseteq Config
  BY DEF Config
<1>3. Keys \subseteq Config
  BY DEF Config
<1>4. Vms \subseteq Config
  BY DEF Config
<1>5. Addresses \subseteq Config
  BY DEF Config
<1>6. Onlys \subseteq Config
  BY DEF Config
<1>7. Edited(c) = Controllers \cup Actives \cup Sources \cup Keys \cup Vms
                    \cup Addresses \cup Onlys
  BY DEF Edited
<1> HIDE DEF Controllers, Actives, Sources, Keys, Vms, Addresses, Onlys
<1> QED
  BY <1>1, <1>2, <1>3, <1>4, <1>5, <1>6, <1>7

\* Every variable of Access keeps its type, and the router's policy stays a valid one.
THEOREM TypeCorrect == Spec => []TypeOK
<1>1. Init => TypeOK
  BY AccessAssumption DEF Init, TypeOK, Policies
<1>2. TypeOK /\ [Next]_vars => TypeOK'
  <2> SUFFICES ASSUME TypeOK, [Next]_vars PROVE TypeOK'
    OBVIOUS
  <2>1. CASE Edit
    <3>1. file' \in Config
      BY <2>1, EditedType DEF Edit, TypeOK
    <3>2. edits' \in 0 .. MaxEdits
      BY <2>1, AccessAssumption DEF Edit, TypeOK
    <3> QED
      BY <2>1, <3>1, <3>2 DEF Edit, TypeOK
  <2>2. CASE Apply
    BY <2>2 DEF Apply, TypeOK, Policies
  <2>3. CASE GoDown \/ ComeUp
    BY <2>3 DEF GoDown, ComeUp, TypeOK, Policies
  <2>4. ASSUME NEW p \in Packet, Open(p) PROVE TypeOK'
    BY <2>4 DEF Open, TypeOK, Connection
  <2>5. ASSUME NEW x \in ct, Close(x) PROVE TypeOK'
    BY <2>5 DEF Close, TypeOK
  <2>6. CASE UNCHANGED vars
    BY <2>6 DEF vars, TypeOK
  <2> QED
    BY <2>1, <2>2, <2>3, <2>4, <2>5, <2>6 DEF Next
<1> QED
  BY <1>1, <1>2, PTL DEF Spec

-----------------------------------------------------------------------------
(* What a valid configuration gives.                                       *)

LEMMA FlowHasOrigin ==
  ASSUME NEW c, NEW s, NEW a, <<s, a>> \in AllowedFlows(c)
  PROVE \E k \in Active(c), v \in c.vms : /\ k \in ControllersForVm(c, v)
                                          /\ s \in c.sources[k] /\ c.address[v] = a
<1>1. PICK v \in c.vms : <<s, a>> \in SourcesForVm(c, v) \X {c.address[v]}
  BY DEF AllowedFlows
<1>2. s \in SourcesForVm(c, v) /\ a = c.address[v]
  BY <1>1
<1>3. PICK k \in ControllersForVm(c, v) : s \in c.sources[k]
  BY <1>2 DEF SourcesForVm
<1> QED
  BY <1>2, <1>3 DEF ControllersForVm

LEMMA FlowOfController ==
  ASSUME NEW c, NEW v \in c.vms, NEW k \in ControllersForVm(c, v), NEW s \in c.sources[k]
  PROVE <<s, c.address[v]>> \in AllowedFlows(c)
<1>1. s \in SourcesForVm(c, v)
  BY DEF SourcesForVm
<1> QED
  BY <1>1 DEF AllowedFlows

LEMMA SidesDiffer == ASSUME NEW p, NEW a, NEW b, NEW e, NEW f,
                            Across(p, a, b), Across(p, e, f)
                     PROVE a = e /\ b = f
  BY DEF Across

\* Under a policy each packet to a guest from the tailnet comes from one controller that
\* the one VM at its address admits, and is for adbd (firewall.rs, config.rs validate).
THEOREM ReachHasOneOrigin == Spec => []ReachIsAttributable
<1>1. TypeOK => ReachIsAttributable
  <2> SUFFICES ASSUME TypeOK, cfg # None, NEW p \in Packet, Forwards(p),
                      Across(p, "tailnet", "guest")
               PROVE /\ p.port = "adb"
                     /\ \E k \in Active(cfg), v \in cfg.vms :
                          /\ {j \in Active(cfg) : p.from \in cfg.sources[j]} = {k}
                          /\ {u \in cfg.vms : cfg.address[u] = p.to} = {v}
                          /\ cfg.only[v] = {} \/ k \in cfg.only[v]
    BY DEF ReachIsAttributable
  <2>1. Valid(cfg)
    BY DEF TypeOK, Policies
  <2>2. FromTailnet(cfg, p)
    BY SidesDiffer DEF Forwards, Accepts, FromGuest, Answers
  <2>3. PICK k \in Active(cfg), v \in cfg.vms :
          k \in ControllersForVm(cfg, v) /\ p.from \in cfg.sources[k] /\ cfg.address[v] = p.to
    BY <2>2, FlowHasOrigin DEF FromTailnet
  <2>4. {j \in Active(cfg) : p.from \in cfg.sources[j]} = {k}
    BY <2>1, <2>3 DEF Valid, SourcesTellApart
  <2>5. {u \in cfg.vms : cfg.address[u] = p.to} = {v}
    BY <2>1, <2>3 DEF Valid
  <2> QED
    BY <2>2, <2>3, <2>4, <2>5 DEF FromTailnet, ControllersForVm
<1> QED
  BY <1>1, TypeCorrect, PTL

\* Conntrack has only what was let through when it began.
OpenedByRule == \A x \in ct : x.policy # None =>
                FromTailnet(x.policy, x.packet) \/ FromGuest(x.policy, x.packet)

LEMMA ConnectionsByRule == Spec => []OpenedByRule
<1>1. Init => OpenedByRule
  BY DEF Init, OpenedByRule
<1>2. OpenedByRule /\ [Next]_vars => OpenedByRule'
  <2> SUFFICES ASSUME OpenedByRule, [Next]_vars PROVE OpenedByRule'
    OBVIOUS
  <2>1. CASE Edit \/ Apply
    BY <2>1 DEF Edit, Apply, OpenedByRule
  <2>2. CASE GoDown \/ ComeUp
    BY <2>2 DEF GoDown, ComeUp, OpenedByRule
  <2>3. ASSUME NEW p \in Packet, Open(p) PROVE OpenedByRule'
    <3>1. cfg # None => FromTailnet(cfg, p) \/ FromGuest(cfg, p)
      BY <2>3 DEF Open, Forwards, Accepts
    <3> QED
      BY <2>3, <3>1 DEF Open, OpenedByRule
  <2>4. ASSUME NEW x \in ct, Close(x) PROVE OpenedByRule'
    BY <2>4 DEF Close, OpenedByRule
  <2>5. CASE UNCHANGED vars
    BY <2>5 DEF vars, OpenedByRule
  <2> QED
    BY <2>1, <2>2, <2>3, <2>4, <2>5 DEF Next
<1> QED
  BY <1>1, <1>2, PTL DEF Spec

\* Under a policy, all else that is forwarded is a guest's connection to the internet, or an
\* answer or an error on a connection that was admitted, to or from a guest: established and
\* related packets alike (firewall.rs conntrack_established).
THEOREM OthersAnswer == Spec => []OthersOnlyAnswer
<1>1. OpenedByRule => OthersOnlyAnswer
  <2> SUFFICES ASSUME OpenedByRule, cfg # None, NEW p \in Packet, Forwards(p)
               PROVE \/ Across(p, "tailnet", "guest") \/ Across(p, "guest", "uplink")
                     \/ /\ Across(p, "guest", "tailnet") \/ Across(p, "uplink", "guest")
                        /\ \E x \in ct : /\ Belongs(p, x) /\ Admitted(x)
                                         /\ x.packet # p \/ x.policy = None
    BY DEF OthersOnlyAnswer
  <2>1. CASE FromTailnet(cfg, p) \/ FromGuest(cfg, p)
    BY <2>1 DEF FromTailnet, FromGuest
  <2>2. CASE Established(p) /\ Answers(cfg, p)
    <3>1. PICK x \in ct : Belongs(p, x)
      BY <2>2 DEF Established
    <3>2. CASE x.policy = None
      BY <2>2, <3>1, <3>2 DEF Answers, Admitted
    <3>3. CASE x.policy # None
      <4>1. FromTailnet(x.policy, x.packet) \/ FromGuest(x.policy, x.packet)
        BY <3>3 DEF OpenedByRule
      <4>2. x.packet # p
        BY <2>2, <4>1 DEF FromTailnet, FromGuest, Answers, Across
      <4>3. Admitted(x)
        BY <4>1 DEF FromTailnet, FromGuest, Admitted
      <4> QED
        BY <2>2, <3>1, <4>2, <4>3 DEF Answers
    <3> QED
      BY <3>2, <3>3
  <2> QED
    BY <2>1, <2>2 DEF Forwards, Accepts
<1> QED
  BY <1>1, ConnectionsByRule, PTL

\* A VM's bundle has the keys of exactly the controllers whose sources reach it, and fails
\* exactly when one of these has a bad key file (guest_bootstrap.rs and firewall.rs agree).
THEOREM KeysAndFlowsAgree == Spec => []KeysMatchFlows
<1>1. KeysMatchFlows
  <2> SUFFICES ASSUME Valid(file), NEW v \in file.vms
               PROVE LET reaching == {k \in Active(file) : \E s \in file.sources[k] :
                                         <<s, file.address[v]>> \in AllowedFlows(file)}
                     IN  AuthorizedKeys(file, v) = Bundle({file.key[k] : k \in reaching})
    BY DEF KeysMatchFlows, Bundle
  <2>1. ASSUME NEW k \in ControllersForVm(file, v)
        PROVE /\ k \in Active(file)
              /\ \E s \in file.sources[k] : <<s, file.address[v]>> \in AllowedFlows(file)
    <3>1. k \in Active(file)
      BY DEF ControllersForVm
    <3>2. PICK s : s \in file.sources[k]
      BY <3>1 DEF Valid, SourcesTellApart
    <3> QED
      BY <3>1, <3>2, FlowOfController
  <2>2. ASSUME NEW k \in Active(file), NEW s \in file.sources[k],
               <<s, file.address[v]>> \in AllowedFlows(file)
        PROVE k \in ControllersForVm(file, v)
    <3>1. PICK j \in Active(file), u \in file.vms :
            /\ j \in ControllersForVm(file, u)
            /\ s \in file.sources[j] /\ file.address[u] = file.address[v]
      BY <2>2, FlowHasOrigin
    <3>2. j = k /\ u = v
      BY <3>1 DEF Valid, SourcesTellApart
    <3> QED
      BY <3>1, <3>2
  <2>3. ControllersForVm(file, v) =
          {k \in Active(file) :
              \E s \in file.sources[k] : <<s, file.address[v]>> \in AllowedFlows(file)}
    BY <2>1, <2>2
  <2> QED
    BY <2>3 DEF AuthorizedKeys
<1> QED
  BY <1>1, PTL

LEMMA NarrowerControllers ==
  ASSUME NEW c, NEW d, Narrows(c, d), NEW v \in d.vms
  PROVE ControllersForVm(d, v) \subseteq ControllersForVm(c, v)
  BY DEF Narrows, ControllersForVm

\* An edit that only takes away, and leaves a list that had entries one, opens no flow and
\* hands out no key but those of controllers the VM had (config.rs controllers_for_vm).
THEOREM NarrowerIsNarrower == Spec => NarrowingNeverWidens
<1>1. ASSUME Narrows(file, file')
      PROVE /\ AllowedFlows(file') \subseteq AllowedFlows(file)
            /\ \A v \in file'.vms :
                   \/ AuthorizedKeys(file', v) = BadKey
                   \/ AuthorizedKeys(file', v) \subseteq
                          {file.key[k] : k \in ControllersForVm(file, v)}
  <2>1. ASSUME NEW f \in AllowedFlows(file') PROVE f \in AllowedFlows(file)
    <3>1. PICK v \in file'.vms : f \in SourcesForVm(file', v) \X {file'.address[v]}
      BY DEF AllowedFlows
    <3>2. PICK k \in ControllersForVm(file', v) : f[1] \in file'.sources[k]
      BY <3>1 DEF SourcesForVm
    <3>3. k \in ControllersForVm(file, v)
      BY <1>1, <3>2, NarrowerControllers
    <3>4. v \in file.vms /\ f[1] \in file.sources[k] /\ file.address[v] = file'.address[v]
      BY <1>1, <3>2 DEF Narrows, ControllersForVm
    <3>5. <<f[1], file.address[v]>> \in AllowedFlows(file)
      BY <3>3, <3>4, FlowOfController
    <3> QED
      BY <3>1, <3>4, <3>5
  <2>2. ASSUME NEW v \in file'.vms
        PROVE \/ AuthorizedKeys(file', v) = BadKey
              \/ AuthorizedKeys(file', v) \subseteq {file.key[k] : k \in ControllersForVm(file, v)}
    <3>1. ControllersForVm(file', v) \subseteq ControllersForVm(file, v)
      BY <1>1, NarrowerControllers
    <3>2. \A k \in ControllersForVm(file', v) : file'.key[k] = file.key[k]
      BY <1>1 DEF Narrows, ControllersForVm
    <3> QED
      BY <3>1, <3>2 DEF AuthorizedKeys, Bundle
  <2> QED
    BY <2>1, <2>2
<1> QED
  BY <1>1, PTL DEF NarrowingNeverWidens

-----------------------------------------------------------------------------
(* MAC addresses.                                                          *)

LEMMA SameMac ==
  ASSUME NEW a \in Address, NEW b \in Address, a[1] = b[1], Mac(a) = Mac(b)
  PROVE a = b
<1>1. a \in [1 .. 4 -> 0 .. 255] /\ b \in [1 .. 4 -> 0 .. 255]
  BY ConfigurationAssumption
<1>2. a[2] = b[2] /\ a[3] = b[3] /\ a[4] = b[4]
  BY DEF Mac
<1>3. \A i \in 1 .. 4 : a[i] = b[i]
  <2>1. ASSUME NEW i \in 1 .. 4 PROVE i = 1 \/ i = 2 \/ i = 3 \/ i = 4
    OBVIOUS
  <2> QED
    BY <1>2, <2>1
<1> QED
  BY <1>1, <1>3

\* In a subnet of one /8 no two VMs share a MAC address, and only x.0.0.2 takes the
\* router's (android_vm.rs mac_address, router_vm.rs).
THEOREM MacsTellApart == Spec => []LeasesTellApart
<1>1. TypeOK => LeasesTellApart
  <2> SUFFICES ASSUME TypeOK, Valid(file), \A a \in file.subnet : a[1] = file.lan[1]
               PROVE /\ \A x, y \in Leases(file) : x[1] = y[1] => x = y
                     /\ \A x \in Leases(file) :
                            x[1] = RouterMac => x[2] = <<file.lan[1], 0, 0, 2>>
    BY DEF LeasesTellApart
  <2>1. ASSUME NEW x \in Leases(file)
        PROVE x[2] \in Address /\ x[2][1] = file.lan[1] /\ x = <<Mac(x[2]), x[2]>>
    BY <2>1 DEF Leases, Valid, TypeOK, Config
  <2>2. ASSUME NEW x \in Leases(file), NEW y \in Leases(file), x[1] = y[1] PROVE x = y
    <3>1. Mac(x[2]) = Mac(y[2])
      BY <2>1, <2>2
    <3>2. x[2] = y[2]
      BY <2>1, <3>1, SameMac
    <3> QED
      BY <2>1, <3>2
  <2>3. ASSUME NEW x \in Leases(file), x[1] = RouterMac
        PROVE x[2] = <<file.lan[1], 0, 0, 2>>
    <3> DEFINE a == x[2]
               b == <<file.lan[1], 0, 0, 2>>
    <3>1. a \in [1 .. 4 -> 0 .. 255] /\ a[1] = file.lan[1] /\ Mac(a) = RouterMac
      BY <2>1, <2>3, ConfigurationAssumption
    <3>2. a[2] = 0 /\ a[3] = 0 /\ a[4] = 2
      BY <3>1 DEF Mac, RouterMac
    <3>3. b \in [1 .. 4 -> {file.lan[1], 0, 2}]
      OBVIOUS
    <3>4. \A i \in 1 .. 4 : a[i] = b[i]
      <4>1. ASSUME NEW i \in 1 .. 4 PROVE i = 1 \/ i = 2 \/ i = 3 \/ i = 4
        OBVIOUS
      <4> QED
        BY <3>1, <3>2, <4>1
    <3> QED
      BY <3>1, <3>3, <3>4
  <2> QED
    BY <2>2, <2>3
<1> QED
  BY <1>1, TypeCorrect, PTL

\* The policy is absent or one valid configuration's, and changes as a whole: Access is an
\* implementation of Filter, as Router is.
THEOREM AccessImplementsFilter == Spec => Table!Spec
<1>1. Init => Table!Init
  BY DEF Init, Table!Init
<1>2. TypeOK /\ [Next]_vars => [Table!Next]_(Table!vars)
  <2> SUFFICES ASSUME TypeOK, [Next]_vars PROVE [Table!Next]_(Table!vars)
    OBVIOUS
  <2>1. CASE Apply
    BY <2>1, AccessAssumption DEF Apply, TypeOK, Policies, Table!Install, Table!Next
  <2>2. CASE GoDown
    BY <2>2 DEF GoDown, Table!GoDown, Table!Next
  <2>3. CASE ComeUp
    BY <2>3 DEF ComeUp, Table!ComeUp, Table!Next
  <2>4. CASE UNCHANGED <<up, cfg>>
    BY <2>4 DEF Table!vars
  <2> QED
    BY <2>1, <2>2, <2>3, <2>4 DEF Next, Edit, Open, Close, vars
<1> QED
  BY <1>1, <1>2, TypeCorrect, PTL DEF Spec, Table!Spec
=============================================================================
