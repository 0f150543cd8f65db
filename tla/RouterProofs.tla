----------------------------- MODULE RouterProofs -----------------------------
(***************************************************************************)
(* Theorems of Router, for any configurations and any number of scripts.   *)
(* Those about the table hold in the modes "alone" and "steady".           *)
(***************************************************************************)
EXTENDS Router, TLAPS

(***************************************************************************)
(* A step is one script's, or the router restarts or leaves the tailnet.   *)
(* Each proof below has one step per action.                               *)
(***************************************************************************)
LEMMA NextCases ==
  ASSUME [Next]_vars
  PROVE \/ \E p \in Run : \/ Begin(p, "upload") \/ Begin(p, "cloud-init status")
                          \/ Upload(p) \/ Install(p) \/ WriteLeases(p) \/ RestartDnsmasq(p)
                          \/ ListTable(p) \/ Apply(p) \/ Reconfigure(p) \/ Cleanup(p)
                          \/ AwaitCloudInit(p) \/ Enroll(p) \/ Up(p) \/ Preflight(p)
                          \/ Finish(p)
        \/ GoDown \/ ComeUp \/ Expel
        \/ UNCHANGED vars
  BY DEF Next, Step

-----------------------------------------------------------------------------
(* What is derived from a configuration has its type.                      *)

LEMMA DerivedTypes ==
  ASSUME NEW c \in Config
  PROVE /\ Leases(c) \subseteq Lease
        /\ AllowedFlows(c) \subseteq Source \X Address
        /\ AdvertisedRoutes(c) \subseteq Address
<1>1. \A v \in c.vms : c.address[v] \in Address
  BY DEF Config
<1>2. \A v \in c.vms : SourcesForVm(c, v) \subseteq Source
  BY DEF Config, SourcesForVm, ControllersForVm, Active
<1>3. Leases(c) \subseteq Lease
  BY <1>1 DEF Leases, Lease
<1>4. AdvertisedRoutes(c) \subseteq Address
  BY <1>1 DEF AdvertisedRoutes
<1>5. ASSUME NEW f \in AllowedFlows(c) PROVE f \in Source \X Address
  <2>1. PICK v \in c.vms : f \in SourcesForVm(c, v) \X {c.address[v]}
    BY DEF AllowedFlows
  <2> QED
    BY <1>1, <1>2, <2>1
<1> QED
  BY <1>3, <1>4, <1>5

\* What a routerctl has loaded is valid, and an enrollment has loaded before it goes on.
Loading == \A p \in Run : /\ loaded[p] # None => Valid(loaded[p])
                          /\ pc[p] = "reconfigure" /\ Enrolling(p) => loaded[p] # None

\* Only a synchronization has sent something, and only an enrollment enrolls.
Roles == \A p \in Run :
    /\ pc[p] \in {"idle", "upload", "cloud-init status", "enroll", "up", "preflight"} =>
           sent[p] = None
    /\ pc[p] \in {"upload", "cloud-init status", "enroll", "up", "preflight"} => p # Boot

\* Scripts work while the router runs.
Afoot == \A p \in Run : pc[p] # "idle" => up

Typing == TypeOK /\ Loading /\ Roles /\ Afoot

LEMMA TypingInvariant == Spec => []Typing
<1> USE DEF Maybe
<1>1. Init => Typing
  <2> SUFFICES ASSUME Init PROVE Typing
    OBVIOUS
  <2>1. cfg \in Config
    BY RouterAssumption DEF Init
  <2> QED
    BY <2>1, DerivedTypes DEF Init, Typing, TypeOK, Loading, Roles, Afoot, Run, Steps, Results
<1>2. Typing /\ [Next]_vars => Typing'
  <2> SUFFICES ASSUME Typing, [Next]_vars PROVE Typing'
    OBVIOUS
  <2> USE DEF Typing, TypeOK, Loading, Roles, Afoot
  <2>0. /\ \A c \in Configs : c \in Config /\ c # None
        /\ {} \in SUBSET Lease
    BY RouterAssumption
  <2>1. ASSUME NEW p \in Run, Begin(p, "upload") \/ Begin(p, "cloud-init status")
        PROVE Typing'
    BY <2>1 DEF Begin, Went, Goto, router, files, dhcp, node, memory, Steps, Enrolling
  <2>2. ASSUME NEW p \in Run, Upload(p) PROVE Typing'
    BY <2>0, <2>2 DEF Upload, Went, Goto, dhcp, node, Steps, Results, Enrolling
  <2>3. ASSUME NEW p \in Run, Install(p) PROVE Typing'
    BY <2>3 DEF Install, Went, Goto, Failed, dhcp, node, memory, Steps, Results, Enrolling
  <2>4. ASSUME NEW p \in Run, WriteLeases(p) PROVE Typing'
    <3>1. Leases(cfg) \subseteq Lease
      BY <2>0, DerivedTypes
    <3> QED
      BY <2>4, <3>1 DEF WriteLeases, Went, Goto, Failed, files, node, memory, Steps, Results,
                        Enrolling
  <2>5. ASSUME NEW p \in Run, RestartDnsmasq(p) PROVE Typing'
    BY <2>5 DEF RestartDnsmasq, Went, Goto, Failed, files, node, memory, Steps, Results,
                Enrolling
  <2>6. ASSUME NEW p \in Run, ListTable(p) PROVE Typing'
    <3>1. /\ AfterApply(p) \in {"synchronized", "preflight", "reconfigure"}
          /\ AfterApply(p) = "reconfigure" => ~Enrolling(p)
          /\ AfterApply(p) = "preflight" => Enrolling(p)
      BY DEF AfterApply, Enrolling
    <3>2. CASE Failed(p, AfterApply(p)) /\ UNCHANGED <<loaded, exists>>
      BY <2>6, <3>1, <3>2 DEF ListTable, Goto, Failed, router, files, dhcp, node, Steps, Results,
                              Enrolling
    <3>3. CASE /\ Valid(cfg) /\ loaded' = [loaded EXCEPT ![p] = cfg]
               /\ exists' \in [Run -> BOOLEAN]
               /\ Went(p, "apply")
      <4>1. /\ loaded' \in [Run -> Maybe(Configs)]
            /\ \A q \in Run : loaded'[q] # None => Valid(loaded'[q])
            /\ \A q \in Run : q # p => loaded'[q] = loaded[q]
            /\ loaded'[p] # None
        BY <2>0, <3>3
      <4>2. /\ pc' \in [Run -> {"idle"} \cup Steps \cup Results]
            /\ \A q \in Run : q # p => pc'[q] = pc[q]
            /\ pc'[p] = "apply" /\ pc[p] = "list table"
        BY <2>6, <3>3 DEF ListTable, Went, Goto, Steps
      <4> QED
        BY <2>6, <3>3, <4>1, <4>2 DEF ListTable, Went, router, files, dhcp, node, Enrolling
    <3> QED
      BY <2>6, <3>2, <3>3 DEF ListTable
  <2>7. ASSUME NEW p \in Run, Apply(p) PROVE Typing'
    <3>1. AllowedFlows(loaded[p]) \subseteq Source \X Address
      BY <2>0, <2>7, DerivedTypes DEF Apply
    <3>2. /\ AfterApply(p) \in {"synchronized", "preflight", "reconfigure"}
          /\ AfterApply(p) = "reconfigure" => ~Enrolling(p)
          /\ AfterApply(p) = "preflight" => Enrolling(p)
      BY DEF AfterApply, Enrolling
    <3> QED
      BY <2>7, <3>1, <3>2 DEF Apply, Went, Goto, Failed, files, dhcp, node, memory, Steps,
                              Results, Enrolling
  <2>8. ASSUME NEW p \in Run, Reconfigure(p) PROVE Typing'
    <3>1. /\ AdvertisedRoutes(cfg) \subseteq Address
          /\ Enrolling(p) => AdvertisedRoutes(loaded[p]) \subseteq Address
      BY <2>0, <2>8, DerivedTypes DEF Reconfigure
    <3> QED
      BY <2>8, <3>1 DEF Reconfigure, Went, Goto, Failed, files, dhcp, memory, Steps, Results,
                        Enrolling
  <2>9. ASSUME NEW p \in Run, Cleanup(p) PROVE Typing'
    BY <2>9 DEF Cleanup, Went, Goto, dhcp, node, memory, Results, Enrolling
  <2>10. ASSUME NEW p \in Run, AwaitCloudInit(p) PROVE Typing'
    BY <2>10 DEF AwaitCloudInit, Went, Goto, Failed, router, files, dhcp, node, memory, Steps,
                 Results, Enrolling
  <2>11. ASSUME NEW p \in Run, Enroll(p) PROVE Typing'
    <3>1. CASE Failed(p, "up") /\ UNCHANGED loaded
      BY <2>11, <3>1 DEF Enroll, Goto, Failed, router, files, dhcp, node, Steps, Results,
                         Enrolling
    <3>2. CASE /\ Valid(cfg) /\ loaded' = [loaded EXCEPT ![p] = cfg]
               /\ Went(p, "reconfigure") \/ Went(p, "up")
      <4>1. loaded' \in [Run -> Maybe(Configs)]
            /\ \A q \in Run : loaded'[q] # None => Valid(loaded'[q])
        BY <3>2
      <4>2. pc' \in [Run -> {"idle"} \cup Steps \cup Results]
            /\ \A q \in Run : q # p => pc'[q] = pc[q] /\ loaded'[q] = loaded[q]
        BY <3>2 DEF Went, Goto, Steps
      <4>3. loaded'[p] # None
        BY <2>0, <3>2
      <4> QED
        BY <2>11, <3>2, <4>1, <4>2, <4>3 DEF Enroll, Went, router, files, dhcp, node, Enrolling
    <3> QED
      BY <2>11, <3>1, <3>2 DEF Enroll
  <2>12. ASSUME NEW p \in Run, Up(p) PROVE Typing'
    <3>1. AdvertisedRoutes(loaded[p]) \subseteq Address
      BY <2>0, <2>12, DerivedTypes DEF Up
    <3> QED
      BY <2>12, <3>1 DEF Up, Heard, Went, Goto, Failed, files, dhcp, node, memory, Steps,
                         Results, Enrolling
  <2>13. ASSUME NEW p \in Run, Preflight(p) PROVE Typing'
    BY <2>13 DEF Preflight, Went, Goto, Failed, router, files, dhcp, node, memory, Results,
                 Enrolling
  <2>14. ASSUME NEW p \in Run, Finish(p) PROVE Typing'
    BY <2>14 DEF Finish, Goto, files, dhcp, node, Enrolling
  <2>15. CASE GoDown
    BY <2>15 DEF GoDown, node, Enrolling
  <2>16. CASE ComeUp
    BY <2>16 DEF ComeUp, files, node, memory, Enrolling
  <2>17. CASE Expel
    BY <2>17 DEF Expel, files, dhcp, memory, Enrolling
  <2>18. CASE UNCHANGED vars
    BY <2>18 DEF vars, router, files, dhcp, node, memory, Enrolling
  <2> QED
    BY <2>1, <2>2, <2>3, <2>4, <2>5, <2>6, <2>7, <2>8, <2>9, <2>10, <2>11, <2>12, <2>13,
       <2>14, <2>15, <2>16, <2>17, <2>18, NextCases
<1> QED
  BY <1>1, <1>2, PTL DEF Spec

\* Every variable of Router keeps its type, in every mode.
THEOREM TypeCorrect == Spec => []TypeOK
  BY TypingInvariant, PTL DEF Typing

-----------------------------------------------------------------------------
(***************************************************************************)
(* The table.  While there is none, and always in the mode "alone", at     *)
(* most one script is at work; so what firewall-apply has found out about  *)
(* the table still holds when its transaction is there.                    *)
(***************************************************************************)
Lonely == mode = "alone" \/ table = None =>
              \A p, q \in Run : pc[p] # "idle" /\ pc[q] # "idle" => p = q
Look == \A p \in Run : pc[p] = "apply" => (exists[p] <=> table # None)
Tabled == Lonely /\ Look /\ TableIsOnePolicy

\* All this is so in the environments "alone" and "steady"; a behaviour stays in its own.
Tamed == mode # "any" => Tabled

LEMMA ModeFixed == ASSUME [Next]_vars PROVE UNCHANGED mode
<1>1. ASSUME NEW p \in Run, Begin(p, "upload") \/ Begin(p, "cloud-init status") \/ Step(p)
      PROVE UNCHANGED mode
  BY <1>1 DEF Begin, Step, Upload, Install, WriteLeases, RestartDnsmasq, ListTable, Apply,
              Reconfigure, Cleanup, AwaitCloudInit, Enroll, Up, Preflight, Finish
<1> QED
  BY <1>1 DEF Next, GoDown, ComeUp, Expel, vars

LEMMA TamedTabled == ASSUME Modes \subseteq {"alone", "steady"}
                     PROVE Typing /\ Tamed => Tabled
BY DEF Tamed, Typing, TypeOK

\* A step that is not firewall-apply's leaves the table alone.
LEMMA OthersLeaveTable ==
  ASSUME NEW p \in Run, NEW l, Typing,
         pc[p] # "idle",
         pc' = [pc EXCEPT ![p] = l],
         l # "apply" \/ pc[p] = "list table",
         l = "apply" => (exists'[p] <=> table # None),
         \A q \in Run : q # p => exists'[q] = exists[q],
         UNCHANGED <<mode, table>>,
         Tabled
  PROVE Tabled'
BY DEF Tabled, Lonely, Look, TableIsOnePolicy, Typing, TypeOK

LEMMA TableInvariant == Spec => []Tamed
<1>1. Init => Tamed
  BY DEF Init, Tamed, Tabled, Lonely, Look, TableIsOnePolicy
<1>2. Typing /\ Typing' /\ Tamed /\ [Next]_vars => Tamed'
  <2> SUFFICES ASSUME Typing, Typing', Tabled, mode # "any", [Next]_vars PROVE Tabled'
    BY ModeFixed DEF Tamed
  <2>0. mode \in {"alone", "steady"}
    BY RouterAssumption DEF Typing, TypeOK
  <2>1. ASSUME NEW p \in Run, Begin(p, "upload") \/ Begin(p, "cloud-init status")
        PROVE Tabled'
    BY <2>0, <2>1 DEF Begin, MayBegin, Went, Goto, router, memory, Tabled, Lonely, Look,
                      TableIsOnePolicy, Typing, TypeOK
  <2>2. ASSUME NEW p \in Run, Upload(p) PROVE Tabled'
    BY <2>2, OthersLeaveTable DEF Upload, Went, Goto
  <2>3. ASSUME NEW p \in Run, Install(p) PROVE Tabled'
    BY <2>3, OthersLeaveTable DEF Install, Went, Goto, Failed, memory
  <2>4. ASSUME NEW p \in Run, WriteLeases(p) PROVE Tabled'
    BY <2>4, OthersLeaveTable DEF WriteLeases, Went, Goto, Failed, memory
  <2>5. ASSUME NEW p \in Run, RestartDnsmasq(p) PROVE Tabled'
    BY <2>5, OthersLeaveTable DEF RestartDnsmasq, Went, Goto, Failed, memory
  <2>6. ASSUME NEW p \in Run, ListTable(p) PROVE Tabled'
    <3>1. UNCHANGED <<mode, table>> /\ pc[p] = "list table"
      BY <2>6 DEF ListTable, router
    <3>2. CASE Went(p, "apply") /\ exists' = [exists EXCEPT ![p] = table # None]
      BY <3>1, <3>2, OthersLeaveTable DEF Went, Goto, Typing, TypeOK
    <3>3. CASE Failed(p, AfterApply(p)) /\ UNCHANGED <<loaded, exists>>
      <4>1. AfterApply(p) # "apply"
        BY DEF AfterApply
      <4> QED
        BY <3>1, <3>3, <4>1, OthersLeaveTable DEF Failed, Goto
    <3> QED
      BY <2>0, <2>6, <3>2, <3>3 DEF ListTable
  <2>7. ASSUME NEW p \in Run, Apply(p) PROVE Tabled'
    <3>1. CASE Failed(p, AfterApply(p)) /\ UNCHANGED table
      <4> DEFINE l == IF Enrolling(p) THEN "error" ELSE AfterApply(p)
      <4>1. l # "apply" /\ pc' = [pc EXCEPT ![p] = l]
        BY <3>1 DEF AfterApply, Failed, Goto
      <4> HIDE DEF l
      <4> QED
        BY <2>7, <3>1, <4>1, OthersLeaveTable DEF Apply, memory
    <3>2. CASE /\ table' = (IF exists[p] \/ table = None THEN {} ELSE table)
                              \cup AllowedFlows(loaded[p])
               /\ Went(p, AfterApply(p))
      <4>1. exists[p] <=> table # None
        BY <2>7 DEF Apply, Tabled, Look
      <4>2. table' = AllowedFlows(loaded[p])
        BY <3>2, <4>1
      <4>3. loaded[p] \in Configs /\ Valid(loaded[p])
        BY <2>7 DEF Apply, Typing, TypeOK, Loading, Maybe
      <4>4. TableIsOnePolicy' /\ table' # None
        BY <4>2, <4>3, DerivedTypes, RouterAssumption DEF TableIsOnePolicy
      <4>5. Lonely'
        BY <2>7, <3>2, <4>4 DEF Apply, Went, Goto, Tabled, Lonely, Typing, TypeOK
      <4>6. ASSUME NEW q \in Run, pc'[q] = "apply" PROVE exists'[q]
        <5>1. AfterApply(p) # "apply"
          BY DEF AfterApply
        <5>2. q # p /\ pc[q] = "apply"
          BY <3>2, <4>6, <5>1 DEF Went, Goto, Typing, TypeOK
        <5>3. table # None
          BY <2>7, <5>2 DEF Apply, Tabled, Lonely
        <5> QED
          BY <2>7, <5>2, <5>3 DEF Apply, memory, Tabled, Look
      <4> QED
        BY <4>4, <4>5, <4>6 DEF Tabled, Look
    <3> QED
      BY <2>7, <3>1, <3>2 DEF Apply
  <2>8. ASSUME NEW p \in Run, Reconfigure(p) PROVE Tabled'
    BY <2>8, OthersLeaveTable DEF Reconfigure, Went, Goto, Failed, memory
  <2>9. ASSUME NEW p \in Run, Cleanup(p) PROVE Tabled'
    BY <2>9, OthersLeaveTable DEF Cleanup, Went, Goto, memory
  <2>10. ASSUME NEW p \in Run, AwaitCloudInit(p) PROVE Tabled'
    BY <2>10, OthersLeaveTable DEF AwaitCloudInit, Went, Goto, Failed, router, memory
  <2>11. ASSUME NEW p \in Run, Enroll(p) PROVE Tabled'
    BY <2>11, OthersLeaveTable DEF Enroll, Went, Goto, Failed, router
  <2>12. ASSUME NEW p \in Run, Up(p) PROVE Tabled'
    BY <2>12, OthersLeaveTable DEF Up, Went, Goto, Failed, memory
  <2>13. ASSUME NEW p \in Run, Preflight(p) PROVE Tabled'
    BY <2>13, OthersLeaveTable DEF Preflight, Went, Goto, Failed, router, memory
  <2>14. ASSUME NEW p \in Run, Finish(p) PROVE Tabled'
    BY <2>14, OthersLeaveTable DEF Finish, Results, Goto, Typing, TypeOK
  <2>15. CASE GoDown
    BY <2>15 DEF GoDown, Tabled, Lonely, Look, TableIsOnePolicy
  <2>16. CASE ComeUp
    BY <2>16 DEF ComeUp, memory, Tabled, Lonely, Look, TableIsOnePolicy
  <2>17. CASE Expel
    BY <2>17 DEF Expel, memory, Tabled, Lonely, Look, TableIsOnePolicy
  <2>18. CASE UNCHANGED vars
    BY <2>18 DEF vars, router, memory, Tabled, Lonely, Look, TableIsOnePolicy
  <2> QED
    BY <2>1, <2>2, <2>3, <2>4, <2>5, <2>6, <2>7, <2>8, <2>9, <2>10, <2>11, <2>12, <2>13,
       <2>14, <2>15, <2>16, <2>17, <2>18, NextCases
<1> QED
  BY <1>1, <1>2, TypingInvariant, PTL DEF Spec

\* The table is one valid configuration's, never a mixture of two (firewall.rs apply).
THEOREM OnePolicy == ASSUME Modes \subseteq {"alone", "steady"}
                     PROVE Spec => []TableIsOnePolicy
<1>1. Tabled => TableIsOnePolicy
  BY DEF Tabled
<1> QED
  BY <1>1, TamedTabled, TypingInvariant, TableInvariant, PTL

\* Router implements Filter: the table changes as a whole, to a valid configuration's
\* flows, and goes away only when the router goes down (firewall.rs apply).
THEOREM RouterImplementsFilter == ASSUME Modes \subseteq {"alone", "steady"}
                                  PROVE Spec => ImplementsFilter
<1>1. Init => F!Init
  BY DEF Init, F!Init
<1>2. Typing /\ Tabled /\ Tabled' /\ [Next]_vars => [F!Next]_(F!vars)
  <2> SUFFICES ASSUME Typing, Tabled, Tabled', [Next]_vars PROVE [F!Next]_(F!vars)
    OBVIOUS
  <2>1. CASE UNCHANGED <<up, table>>
    BY <2>1 DEF F!vars
  <2>2. ASSUME NEW p \in Run, Apply(p) PROVE [F!Next]_(F!vars)
    <3>1. CASE UNCHANGED table
      BY <2>1, <2>2, <3>1 DEF Apply
    <3>2. CASE table' # table
      <4>1. table' # None
        BY <2>2, <3>2, RouterAssumption, DerivedTypes DEF Apply, Tabled, Look, Typing, TypeOK, Maybe
      <4>2. table' \in {AllowedFlows(c) : c \in {d \in Configs : Valid(d)}}
        BY <4>1 DEF Tabled, TableIsOnePolicy
      <4>3. up
        BY <2>2 DEF Apply, Typing, Afoot
      <4> QED
        BY <2>2, <4>2, <4>3 DEF Apply, F!Install, F!Next
    <3> QED
      BY <3>1, <3>2
  <2>3. CASE GoDown
    BY <2>3 DEF GoDown, F!GoDown, F!Next
  <2>4. CASE ComeUp
    BY <2>4 DEF ComeUp, F!ComeUp, F!Next
  <2> QED
    BY <2>1, <2>2, <2>3, <2>4, NextCases
       DEF Begin, Upload, Install, WriteLeases, RestartDnsmasq, ListTable, Reconfigure, Cleanup,
           AwaitCloudInit, Enroll, Up, Preflight, Finish, Expel, vars, router
<1> QED
  BY <1>1, <1>2, TypingInvariant, TableInvariant, TamedTabled, PTL
     DEF Spec, ImplementsFilter, F!Spec

-----------------------------------------------------------------------------
(***************************************************************************)
(* What is left in every environment, "any" included: firewall-apply may   *)
(* then add a policy to another one, but it installs nothing else, and it  *)
(* never takes the table away.                                             *)
(***************************************************************************)
LEMMA ApplyInstalls ==
  ASSUME Typing, NEW p \in Run, Apply(p)
  PROVE /\ UNCHANGED <<mode, up>>
        /\ table # None => table' # None
        /\ table' # None => \A f \in table' :
               \/ table # None /\ f \in table
               \/ \E c \in Configs : Valid(c) /\ f \in AllowedFlows(c)
<1>1. CASE UNCHANGED table
  BY <1>1 DEF Apply
<1>2. CASE table' = (IF exists[p] \/ table = None THEN {} ELSE table) \cup AllowedFlows(loaded[p])
  <2>1. loaded[p] \in Configs /\ Valid(loaded[p])
    BY DEF Apply, Typing, TypeOK, Loading, Maybe
  <2>2. AllowedFlows(loaded[p]) \subseteq Source \X Address
    BY <2>1, DerivedTypes, RouterAssumption
  <2>3. table \in {None} \cup SUBSET (Source \X Address)
    BY DEF Typing, TypeOK, Maybe
  <2>4. table' \subseteq Source \X Address
    BY <1>2, <2>2, <2>3
  <2>5. table' # None
    BY <2>4, RouterAssumption
  <2> QED
    BY <1>2, <2>1, <2>5 DEF Apply
<1> QED
  BY <1>1, <1>2 DEF Apply

\* Nothing else but the router's going down touches the table.
LEMMA TableIsApplied ==
  ASSUME [Next]_vars
  PROVE UNCHANGED table \/ (\E p \in Run : Apply(p)) \/ GoDown
<1>1. ASSUME NEW p \in Run,
             \/ Begin(p, "upload") \/ Begin(p, "cloud-init status") \/ Upload(p)
             \/ Install(p) \/ WriteLeases(p) \/ RestartDnsmasq(p) \/ ListTable(p)
             \/ Reconfigure(p) \/ Cleanup(p) \/ AwaitCloudInit(p) \/ Enroll(p) \/ Up(p)
             \/ Preflight(p) \/ Finish(p)
      PROVE UNCHANGED table
  BY <1>1 DEF Begin, Upload, Install, WriteLeases, RestartDnsmasq, ListTable, Reconfigure,
              Cleanup, AwaitCloudInit, Enroll, Up, Preflight, Finish, router
<1>2. CASE ComeUp \/ Expel \/ UNCHANGED vars
  BY <1>2 DEF ComeUp, Expel, vars, router
<1> QED
  BY <1>1, <1>2, NextCases

\* However the scripts race, each flow that is let through is one that a valid
\* configuration of the operator's asks for: races unite policies, and do nothing worse.
THEOREM RacesOnlyUnite ==
  Spec => [](table # None => \A f \in table : \E c \in Configs : Valid(c) /\ f \in AllowedFlows(c))
<1> DEFINE Asked == table # None =>
                        \A f \in table : \E c \in Configs : Valid(c) /\ f \in AllowedFlows(c)
<1>1. Init => Asked
  BY DEF Init
<1>2. Typing /\ Asked /\ [Next]_vars => Asked'
  <2> SUFFICES ASSUME Typing, Asked, [Next]_vars PROVE Asked'
    OBVIOUS
  <2>1. CASE UNCHANGED table
    BY <2>1
  <2>2. ASSUME NEW p \in Run, Apply(p) PROVE Asked'
    BY <2>2, ApplyInstalls
  <2>3. CASE GoDown
    BY <2>3 DEF GoDown
  <2> QED
    BY <2>1, <2>2, <2>3, TableIsApplied
<1> QED
  BY <1>1, <1>2, TypingInvariant, PTL DEF Spec

\* A router that has filtered filters until it goes down, whatever the scripts do: no
\* step of theirs leaves it without the table, not even between two transactions.
THEOREM FilterStays == Spec => [][table # None /\ up' => table' # None]_vars
<1>1. ASSUME Typing, [Next]_vars, table # None, up' PROVE table' # None
  <2>1. ASSUME NEW p \in Run, Apply(p) PROVE table' # None
    BY <1>1, <2>1, ApplyInstalls
  <2> QED
    BY <1>1, <2>1, TableIsApplied DEF GoDown
<1>2. Typing /\ [Next]_vars => [table # None /\ up' => table' # None]_vars
  BY <1>1
<1> QED
  BY <1>2, TypingInvariant, PTL DEF Spec

-----------------------------------------------------------------------------
(* Enrollment.                                                             *)

\* An enrollment that is past tailscale::enroll has seen or made the router a node, which
\* it is until the tailnet drops it, and has loaded a configuration; the steps before
\* firewall-apply of a synchronization are no enrollment's.
Admitted(p) ==
    /\ pc[p] \in {"install", "leases", "restart", "cleanup", "synchronized"} => ~Enrolling(p)
    /\ pc[p] \in {"preflight", "enrolled"} => Enrolling(p)
    /\ pc[p] \in {"reconfigure", "list table", "apply", "preflight", "enrolled"} /\ Enrolling(p) =>
           /\ loaded[p] # None /\ routes # None
           /\ connected \/ p \in dropped

\* What a router that has been in the tailnet advertises are one valid configuration's
\* routes; who has enrolled leaves it filtering.
Enrolled == /\ connected => routes # None
            /\ routes # None => \E c \in Configs : Valid(c) /\ routes = AdvertisedRoutes(c)
            /\ \A p \in Run : Admitted(p)
            /\ \A p \in Run : pc[p] = "enrolled" => table # None

\* What a step of one script has to keep for the others, and to show for itself.
Keeps(p) == /\ \E l : pc' = [pc EXCEPT ![p] = l]
            /\ \A q \in Run \ {p} : loaded'[q] = loaded[q] /\ sent'[q] = sent[q]
            /\ connected => connected'
            /\ dropped \ {p} \subseteq dropped'
            /\ table # None => table' # None

LEMMA OthersStayAdmitted ==
  ASSUME Typing, Enrolled, NEW p \in Run, Keeps(p), Admitted(p)',
         pc'[p] = "enrolled" => table # None,
         \/ UNCHANGED <<routes, connected>>
         \/ /\ \E c \in Configs : Valid(c) /\ routes' = AdvertisedRoutes(c)
            /\ routes' # None
  PROVE Enrolled'
<1>1. ASSUME NEW q \in Run, q # p PROVE Admitted(q)'
  <2>1. pc'[q] = pc[q] /\ loaded'[q] = loaded[q] /\ sent'[q] = sent[q]
    BY <1>1 DEF Keeps, Typing, TypeOK
  <2> QED
    BY <1>1, <2>1 DEF Enrolled, Admitted, Enrolling, Keeps
<1>2. ASSUME NEW q \in Run, pc'[q] = "enrolled" PROVE table' # None
  BY <1>2 DEF Enrolled, Keeps, Typing, TypeOK
<1> QED
  BY <1>1, <1>2 DEF Enrolled

LEMMA EnrolledInvariant == Spec => []Enrolled
<1>1. Init => Enrolled
  BY DEF Init, Enrolled, Admitted, Enrolling
<1>2. Typing /\ Enrolled /\ [Next]_vars => Enrolled'
  <2> SUFFICES ASSUME Typing, Enrolled, [Next]_vars PROVE Enrolled'
    OBVIOUS
  <2>p. ASSUME NEW p \in Run
        PROVE /\ \A l : pc' = [pc EXCEPT ![p] = l] => pc'[p] = l
              /\ Admitted(p) /\ (~Enrolling(p) /\ p # Boot => sent[p] # None)
    BY <2>p DEF Enrolled, Enrolling, Typing, TypeOK
  <2> USE DEF Went, Goto, Failed, Keeps, Admitted
  <2>1. ASSUME NEW p \in Run, Begin(p, "upload") \/ Begin(p, "cloud-init status")
        PROVE Enrolled'
    <3>1. pc'[p] \in {"upload", "cloud-init status"}
      BY <2>p, <2>1 DEF Begin
    <3>2. /\ \E l : pc' = [pc EXCEPT ![p] = l]
          /\ UNCHANGED <<node, table, memory>>
      BY <2>1 DEF Begin, router
    <3> QED
      BY <3>1, <3>2, OthersStayAdmitted DEF node, memory
  <2>2. ASSUME NEW p \in Run, Upload(p) PROVE Enrolled'
    <3>1. pc'[p] \in {"install", "error"} /\ (pc'[p] = "install" => sent'[p] # None)
      BY <2>p, <2>2, RouterAssumption DEF Upload, Typing, TypeOK
    <3> QED
      BY <2>2, <3>1, OthersStayAdmitted DEF Upload, Enrolling, node, Typing, TypeOK
  <2>3. ASSUME NEW p \in Run, Install(p) \/ WriteLeases(p) \/ RestartDnsmasq(p) \/ Cleanup(p)
        PROVE Enrolled'
    <3>1. ~Enrolling(p) /\ ~Enrolling(p)'
      BY <2>p, <2>3 DEF Install, WriteLeases, RestartDnsmasq, Cleanup, memory, Enrolling,
                        Typing, Roles, TypeOK
    <3>2. pc'[p] \in {"leases", "restart", "list table", "synchronized"}
      BY <2>p, <2>3, <3>1 DEF Install, WriteLeases, RestartDnsmasq, Cleanup
    <3>3. /\ \E l : pc' = [pc EXCEPT ![p] = l]
          /\ UNCHANGED <<node, table, memory>>
      BY <2>3 DEF Install, WriteLeases, RestartDnsmasq, Cleanup
    <3> QED
      BY <3>1, <3>2, <3>3, OthersStayAdmitted DEF node, memory
  <2>4. ASSUME NEW p \in Run, ListTable(p) PROVE Enrolled'
    <3>1. /\ Enrolling(p) => pc'[p] \in {"apply", "error"}
          /\ ~Enrolling(p) => pc'[p] \in {"apply", "reconfigure", "synchronized"}
          /\ loaded[p] # None => loaded'[p] # None
          /\ Enrolling(p)' <=> Enrolling(p)
      BY <2>p, <2>4, RouterAssumption DEF ListTable, AfterApply, Enrolling, Typing, TypeOK
    <3> QED
      BY <2>p, <2>4, <3>1, OthersStayAdmitted DEF ListTable, router, node, Typing, TypeOK
  <2>5. ASSUME NEW p \in Run, Apply(p) PROVE Enrolled'
    <3>1. table # None => table' # None
      BY <2>5, ApplyInstalls
    <3>2. /\ Enrolling(p) => pc'[p] \in {"preflight", "error"}
          /\ ~Enrolling(p) => pc'[p] \in {"reconfigure", "synchronized"}
          /\ Enrolling(p)' <=> Enrolling(p)
      BY <2>p, <2>5 DEF Apply, AfterApply, Enrolling, memory
    <3> QED
      BY <2>p, <2>5, <3>1, <3>2, OthersStayAdmitted DEF Apply, node, memory
  <2>6. ASSUME NEW p \in Run, Reconfigure(p) PROVE Enrolled'
    <3>1. Enrolling(p) => loaded[p] \in Configs /\ Valid(loaded[p])
      BY <2>6 DEF Reconfigure, Typing, TypeOK, Loading, Maybe
    <3>2. \A c \in Configs : AdvertisedRoutes(c) # None
      BY RouterAssumption, DerivedTypes
    <3>3. \/ UNCHANGED routes
          \/ /\ \E c \in Configs : Valid(c) /\ routes' = AdvertisedRoutes(c)
             /\ routes' # None
      BY <2>6, <3>1, <3>2 DEF Reconfigure, Typing, TypeOK
    <3>4. /\ Enrolling(p) => pc'[p] \in {"list table", "error"}
          /\ ~Enrolling(p) => pc'[p] = "cleanup"
          /\ Enrolling(p)' <=> Enrolling(p)
          /\ UNCHANGED <<connected, dropped, table, sent, loaded>>
      BY <2>p, <2>6 DEF Reconfigure, Enrolling, memory
    <3>5. routes # None => routes' # None
      BY <3>3
    <3>6. Admitted(p)'
      <4>1. pc[p] = "reconfigure" /\ Admitted(p)
        BY <2>p, <2>6 DEF Reconfigure
      <4>2. Enrolling(p) => /\ loaded[p] # None /\ routes # None
                            /\ connected \/ p \in dropped
        BY <4>1
      <4> QED
        BY <3>4, <3>5, <4>2
    <3>7. \E l : pc' = [pc EXCEPT ![p] = l]
      BY <2>6 DEF Reconfigure
    <3> HIDE DEF Admitted
    <3> QED
      BY <3>3, <3>4, <3>6, <3>7, OthersStayAdmitted
  <2>7. ASSUME NEW p \in Run, AwaitCloudInit(p) PROVE Enrolled'
    <3>1. pc'[p] \in {"enroll", "error"}
      BY <2>p, <2>7 DEF AwaitCloudInit, Enrolling, Typing, Roles
    <3> QED
      BY <2>7, <3>1, OthersStayAdmitted DEF AwaitCloudInit, router, node, memory
  <2>8. ASSUME NEW p \in Run, Enroll(p) PROVE Enrolled'
    <3>1. /\ pc'[p] \in {"reconfigure", "up", "error"}
          /\ pc'[p] = "reconfigure" => connected /\ loaded'[p] # None
      BY <2>p, <2>8, RouterAssumption DEF Enroll, Enrolling, Typing, TypeOK, Roles
    <3>2. connected => routes # None
      BY DEF Enrolled
    <3> QED
      BY <2>8, <3>1, <3>2, OthersStayAdmitted DEF Enroll, router, node, Typing, TypeOK
  <2>9. ASSUME NEW p \in Run, Up(p) PROVE Enrolled'
    <3>1. loaded[p] \in Configs /\ Valid(loaded[p]) /\ loaded[p] # None
      BY <2>9 DEF Up, Typing, TypeOK, Loading, Maybe
    <3>2. AdvertisedRoutes(loaded[p]) # None
      BY <3>1, RouterAssumption, DerivedTypes
    <3>3. /\ pc'[p] \in {"list table", "error"}
          /\ pc'[p] = "list table" => Heard(p)
          /\ UNCHANGED <<table, memory>>
      BY <2>p, <2>9 DEF Up, Enrolling, Typing, Roles
    <3>4. CASE Heard(p)
      BY <2>9, <3>1, <3>2, <3>3, <3>4, OthersStayAdmitted DEF Up, Heard, memory
    <3>5. CASE ~Heard(p)
      <4>1. pc'[p] = "error" /\ UNCHANGED <<node, table, memory>>
        BY <2>9, <3>3, <3>5 DEF Up
      <4>2. \E l : pc' = [pc EXCEPT ![p] = l]
        BY <2>9 DEF Up
      <4> QED
        BY <4>1, <4>2, OthersStayAdmitted DEF node, memory
    <3> QED
      BY <3>4, <3>5
  <2>10. ASSUME NEW p \in Run, Preflight(p) PROVE Enrolled'
    <3>1. /\ Enrolling(p) /\ Enrolling(p)'
          /\ pc'[p] \in {"enrolled", "error"}
          /\ pc'[p] = "enrolled" => table # None
      BY <2>p, <2>10 DEF Preflight, Enrolling, memory
    <3> QED
      BY <2>p, <2>10, <3>1, OthersStayAdmitted DEF Preflight, router, node, memory
  <2>11. ASSUME NEW p \in Run, Finish(p) PROVE Enrolled'
    BY <2>p, <2>11, OthersStayAdmitted DEF Finish, Typing, TypeOK
  <2>12. CASE GoDown
    BY <2>12 DEF GoDown, Enrolled, Enrolling
  <2>13. CASE Expel
    BY <2>13 DEF Expel, memory, Enrolled, Enrolling
  <2>14. CASE ComeUp \/ UNCHANGED vars
    <3>1. UNCHANGED <<table, routes, connected, dropped, pc, sent, loaded>>
      BY <2>14 DEF ComeUp, vars, router, node, memory
    <3> QED
      BY <3>1 DEF Enrolled, Enrolling
  <2> QED
    BY <2>1, <2>2, <2>3, <2>4, <2>5, <2>6, <2>7, <2>8, <2>9, <2>10, <2>11, <2>12, <2>13,
       <2>14, NextCases
<1> QED
  BY <1>1, <1>2, TypingInvariant, PTL DEF Spec

\* An enrollment that reports success leaves a router that filters, with the routes of a
\* valid configuration, in the tailnet unless that has dropped it since enroll
\* (router-enroll.sh, tailscale.rs enroll): enroll makes it so, not preflight.
THEOREM EnrollmentFilters == Spec => []EnrolledFilters
<1>1. Enrolled => EnrolledFilters
  BY DEF Enrolled, Admitted, EnrolledFilters, Run
<1> QED
  BY <1>1, EnrolledInvariant, PTL

-----------------------------------------------------------------------------
(***************************************************************************)
(* Synchronization, one script at a time: what a script without a failed   *)
(* command has brought about by each of its steps.                         *)
(***************************************************************************)
Past(p, S) == pc[p] \in S /\ ~failed[p]

Shown(p) ==
    /\ pc[p] \in {"install", "leases", "cleanup", "synchronized"} => sent[p] # None
    /\ sent[p] # None =>
        /\ Past(p, {"install"}) => upload = sent[p]
        /\ Past(p, {"leases", "restart", "list table", "apply", "reconfigure", "cleanup",
                    "synchronized"}) => cfg = sent[p]
        /\ Past(p, {"restart", "list table", "apply", "reconfigure", "cleanup",
                    "synchronized"}) => leases = Leases(cfg) /\ Valid(cfg)
        /\ Past(p, {"list table", "apply", "reconfigure", "cleanup", "synchronized"}) =>
               served = Leases(cfg)
        /\ Past(p, {"apply"}) => loaded[p] = cfg
        /\ Past(p, {"reconfigure", "cleanup", "synchronized"}) => table = AllowedFlows(cfg)
        /\ Past(p, {"cleanup", "synchronized"}) => routes = AdvertisedRoutes(cfg)

Progress == mode = "alone" => \A p \in Script : Shown(p)

\* Who works is alone, and nothing is claimed of the idle.
LEMMA OneMoves ==
  ASSUME Typing, Tabled, NEW p \in Run, pc[p] # "idle", UNCHANGED mode,
         NEW l, pc' = [pc EXCEPT ![p] = l], p \in Script /\ mode = "alone" => Shown(p)'
  PROVE Progress'
<1>1. ASSUME mode = "alone", NEW q \in Script, q # p PROVE pc'[q] = "idle"
  BY <1>1 DEF Tabled, Lonely, Run, Typing, TypeOK
<1>2. ASSUME mode = "alone", NEW q \in Script, q # p PROVE Shown(q)'
  BY <1>1, <1>2 DEF Shown, Past
<1> QED
  BY <1>2 DEF Progress

\* Nor of one that has failed, but that it went on as a synchronization does.
LEMMA FailureShows ==
  ASSUME Typing, NEW p \in Script, NEW l, Failed(p, l), UNCHANGED sent
  PROVE Shown(p)'
<1>1. /\ failed'[p] /\ sent'[p] = sent[p]
      /\ sent[p] = None => pc'[p] = "error"
  BY RouterAssumption DEF Failed, Goto, Enrolling, Run, Typing, TypeOK
<1> QED
  BY <1>1 DEF Shown, Past

LEMMA ProgressInvariant == Spec => []Progress
<1>1. Init => Progress
  BY DEF Init, Progress, Shown, Past, Run
<1>2. Typing /\ Tamed /\ Progress /\ [Next]_vars => Progress'
  <2> SUFFICES ASSUME Typing, Tabled, Progress, mode = "alone", [Next]_vars PROVE Progress'
    BY ModeFixed DEF Tamed, Progress
  <2> USE DEF Past, Went, Goto
  <2>0. ASSUME NEW p \in Script, mode = "alone"
        PROVE /\ Shown(p) /\ p # Boot /\ p \in Run
              /\ \A l : pc' = [pc EXCEPT ![p] = l] => pc'[p] = l
              /\ \A l : Failed(p, l) /\ UNCHANGED sent => Shown(p)'
    BY <2>0, FailureShows, RouterAssumption DEF Progress, Run, Typing, TypeOK
  <2>1. ASSUME NEW p \in Run, Begin(p, "upload") \/ Begin(p, "cloud-init status")
        PROVE Progress'
    <3>1. mode = "alone" => \A q \in Run : pc[q] = "idle"
      BY <2>1 DEF Begin, MayBegin, Tabled, Lonely
    <3>2. /\ UNCHANGED <<mode, sent>>
          /\ mode = "alone" =>
                 \A q \in Run : pc'[q] \in {"idle", "upload", "cloud-init status"}
      BY <2>1, <3>1 DEF Begin, memory, Typing, TypeOK
    <3> QED
      BY <3>2 DEF Progress, Shown, Run
  <2>2. ASSUME NEW p \in Run, Upload(p) PROVE Progress'
    <3>1. pc[p] = "upload" /\ UNCHANGED mode /\ \E l : pc' = [pc EXCEPT ![p] = l]
      BY <2>2 DEF Upload
    <3>2. ASSUME p \in Script, mode = "alone", pc'[p] = "install"
          PROVE sent'[p] = upload' /\ sent'[p] # None
      BY <2>0, <2>2, <3>2, RouterAssumption DEF Upload, Typing, TypeOK
    <3>3. ASSUME p \in Script, mode = "alone" PROVE pc'[p] \in {"install", "error"}
      BY <2>0, <2>2, <3>3 DEF Upload
    <3> QED
      BY <3>1, <3>2, <3>3, OneMoves DEF Shown
  <2>3. ASSUME NEW p \in Run, Install(p) PROVE Progress'
    <3>1. pc[p] = "install" /\ UNCHANGED <<mode, sent>> /\ \E l : pc' = [pc EXCEPT ![p] = l]
      BY <2>3 DEF Install, Failed, memory
    <3>2. ASSUME p \in Script, mode = "alone" PROVE Shown(p)'
      <4>1. CASE cfg' = upload /\ Went(p, "leases")
        BY <2>0, <3>1, <3>2, <4>1 DEF Shown
      <4> QED
        BY <2>0, <2>3, <3>1, <3>2, <4>1 DEF Install
    <3> QED
      BY <3>1, <3>2, OneMoves
  <2>4. ASSUME NEW p \in Run, WriteLeases(p) PROVE Progress'
    <3>1. /\ pc[p] = "leases" /\ UNCHANGED <<mode, files, memory>>
          /\ \E l : pc' = [pc EXCEPT ![p] = l]
      BY <2>4 DEF WriteLeases, Failed
    <3>2. ASSUME p \in Script, mode = "alone" PROVE Shown(p)'
      <4>1. CASE Valid(cfg) /\ leases' = Leases(cfg) /\ Went(p, "restart")
        BY <2>0, <3>1, <3>2, <4>1 DEF Shown, files, memory
      <4> QED
        BY <2>0, <2>4, <3>1, <3>2, <4>1 DEF WriteLeases, memory
    <3> QED
      BY <3>1, <3>2, OneMoves
  <2>5. ASSUME NEW p \in Run, RestartDnsmasq(p) PROVE Progress'
    <3>1. /\ pc[p] = "restart" /\ UNCHANGED <<mode, files, leases, memory>>
          /\ \E l : pc' = [pc EXCEPT ![p] = l]
      BY <2>5 DEF RestartDnsmasq, Failed
    <3>2. ASSUME p \in Script, mode = "alone" PROVE Shown(p)'
      <4>1. CASE served' = leases /\ Went(p, "list table")
        BY <2>0, <3>1, <3>2, <4>1 DEF Shown, files, memory
      <4> QED
        BY <2>0, <2>5, <3>1, <3>2, <4>1 DEF RestartDnsmasq, memory
    <3> QED
      BY <3>1, <3>2, OneMoves
  <2>6. ASSUME NEW p \in Run, ListTable(p) PROVE Progress'
    <3>1. /\ pc[p] = "list table" /\ UNCHANGED <<mode, files, dhcp, sent>>
          /\ \E l : pc' = [pc EXCEPT ![p] = l]
      BY <2>6 DEF ListTable, Failed, router
    <3>2. ASSUME p \in Script, mode = "alone" PROVE Shown(p)'
      <4>1. CASE loaded' = [loaded EXCEPT ![p] = cfg] /\ Went(p, "apply")
        <5>1. loaded'[p] = cfg
          BY <2>0, <3>2, <4>1 DEF Typing, TypeOK
        <5> QED
          BY <2>0, <3>1, <3>2, <4>1, <5>1 DEF Shown, files, dhcp
      <4> QED
        BY <2>0, <2>6, <3>1, <3>2, <4>1 DEF ListTable
    <3> QED
      BY <3>1, <3>2, OneMoves
  <2>7. ASSUME NEW p \in Run, Apply(p) PROVE Progress'
    <3>1. /\ pc[p] = "apply" /\ UNCHANGED <<mode, files, dhcp, memory>>
          /\ \E l : pc' = [pc EXCEPT ![p] = l]
      BY <2>7 DEF Apply, Failed
    <3>2. ASSUME p \in Script, mode = "alone" PROVE Shown(p)'
      <4>1. exists[p] <=> table # None
        BY <2>7 DEF Apply, Tabled, Look
      <4>2. CASE table' = AllowedFlows(loaded[p]) /\ Went(p, AfterApply(p))
        <5>1. pc'[p] = IF sent[p] = None THEN "preflight" ELSE "reconfigure"
          BY <2>0, <3>2, <4>2 DEF AfterApply, Enrolling
        <5>2. Shown(p) /\ UNCHANGED <<failed, cfg, leases, served, sent>>
          BY <2>0, <3>1, <3>2, <4>2 DEF files, dhcp, memory
        <5>3. sent[p] # None /\ ~failed[p] => table' = AllowedFlows(cfg)
          BY <3>1, <4>2, <5>2 DEF Shown
        <5> QED
          BY <3>1, <5>1, <5>2, <5>3 DEF Shown
      <4> QED
        BY <2>0, <2>7, <3>1, <3>2, <4>1, <4>2 DEF Apply, memory
    <3> QED
      BY <3>1, <3>2, OneMoves
  <2>8. ASSUME NEW p \in Run, Reconfigure(p) PROVE Progress'
    <3>1. /\ pc[p] = "reconfigure" /\ UNCHANGED <<mode, files, dhcp, table, memory>>
          /\ \E l : pc' = [pc EXCEPT ![p] = l]
      BY <2>8 DEF Reconfigure, Failed
    <3>2. ASSUME p \in Script, mode = "alone" PROVE Shown(p)'
      <4>1. CASE Enrolling(p) /\ Went(p, "list table")
        BY <2>0, <3>1, <3>2, <4>1 DEF Shown, Enrolling, memory
      <4>2. CASE ~Enrolling(p) /\ routes' = AdvertisedRoutes(cfg) /\ Went(p, "cleanup")
        BY <2>0, <3>1, <3>2, <4>2 DEF Shown, Enrolling, files, dhcp, memory
      <4> QED
        BY <2>0, <2>8, <3>1, <3>2, <4>1, <4>2 DEF Reconfigure, memory
    <3> QED
      BY <3>1, <3>2, OneMoves
  <2>9. ASSUME NEW p \in Run, Cleanup(p) PROVE Progress'
    <3>1. /\ pc[p] = "cleanup" /\ UNCHANGED <<mode, cfg, dhcp, table, node, memory, failed>>
          /\ pc' = [pc EXCEPT ![p] = "synchronized"]
      BY <2>9 DEF Cleanup
    <3>2. ASSUME p \in Script, mode = "alone" PROVE Shown(p)'
      BY <2>0, <3>1, <3>2 DEF Shown, dhcp, node, memory
    <3> QED
      BY <3>1, <3>2, OneMoves
  <2>10. ASSUME NEW p \in Run,
                AwaitCloudInit(p) \/ Enroll(p) \/ Up(p) \/ Preflight(p)
         PROVE Progress'
    <3>1. /\ pc[p] # "idle" /\ UNCHANGED <<mode, sent>> /\ sent[p] = None
          /\ \E l \in {"enroll", "reconfigure", "up", "list table", "enrolled", "error"} :
                 pc' = [pc EXCEPT ![p] = l]
      BY <2>10 DEF AwaitCloudInit, Enroll, Up, Preflight, Failed, Enrolling, memory, Typing,
                   Roles
    <3>2. ASSUME p \in Script, mode = "alone" PROVE Shown(p)'
      BY <2>0, <3>1, <3>2 DEF Shown
    <3> QED
      BY <3>1, <3>2, OneMoves
  <2>11. ASSUME NEW p \in Run, Finish(p) PROVE Progress'
    <3>1. pc[p] # "idle" /\ UNCHANGED mode /\ pc' = [pc EXCEPT ![p] = "idle"]
          /\ sent' = [sent EXCEPT ![p] = None]
      BY <2>11 DEF Finish, Results
    <3>2. ASSUME p \in Script, mode = "alone" PROVE Shown(p)'
      BY <2>0, <3>1, <3>2 DEF Shown, Typing, TypeOK
    <3> QED
      BY <3>1, <3>2, OneMoves
  <2>12. CASE GoDown
    BY <2>12 DEF GoDown, Progress, Shown, Run
  <2>13. CASE ComeUp
    <3>1. \A q \in Run : pc[q] = "idle"
      BY <2>13 DEF ComeUp, Typing, Afoot
    <3> QED
      BY <2>13, <3>1 DEF ComeUp, Progress, Shown, Run
  <2>14. CASE Expel
    BY <2>14 DEF Expel, files, dhcp, memory, Progress, Shown
  <2>15. CASE UNCHANGED vars
    BY <2>15 DEF vars, router, files, dhcp, node, memory, Progress, Shown
  <2> QED
    BY <2>1, <2>2, <2>3, <2>4, <2>5, <2>6, <2>7, <2>8, <2>9, <2>10, <2>11, <2>12, <2>13,
       <2>14, <2>15, NextCases
<1> QED
  BY <1>1, <1>2, TypingInvariant, TableInvariant, PTL DEF Spec

\* A synchronization without a failed command has its configuration in force everywhere
\* (router-sync.sh).
THEOREM SyncIsWhole == Spec => []SyncedTogether
<1>1. Progress => SyncedTogether
  BY DEF Progress, Shown, Past, SyncedTogether
<1> QED
  BY <1>1, ProgressInvariant, PTL

=============================================================================
