---------------------------- MODULE ReconcileProofs ----------------------------
(***************************************************************************)
(* Theorems of Reconcile, for any number of processes, VMs and faults.     *)
(***************************************************************************)
EXTENDS Reconcile, TLAPS

LEMMA NextCases ==
  ASSUME [Next]_vars
  PROVE \/ \E p \in Proc :
             \/ Begin(p) \/ NetDefine(p) \/ NetAutostart(p) \/ NetInfo(p) \/ NetStart(p)
             \/ RequireArtifacts(p) \/ DefineRouter(p) \/ AutostartRouter(p)
             \/ RouterState(p) \/ StartRouter(p)
             \/ Ensure(p) \/ AutostartVm(p) \/ VmState(p) \/ StartVm(p) \/ DisableAutostart(p)
             \/ UnlockAndReport(p) \/ Finish(p) \/ Kill(p)
        \/ HostCrash \/ RouterProvisioned \/ \E d \in Domain : PowersOff(d)
        \/ UNCHANGED vars
  BY DEF Next, Step

-----------------------------------------------------------------------------
(* Types.  A step of a process is a change of the host and one of four     *)
(* ways to go on.                                                          *)

HostType == /\ net \subseteq {"defined", "active", "autostart"}
            /\ artifacts \in BOOLEAN
            /\ overlay \subseteq Vm
            /\ defined \subseteq Domain /\ auto \subseteq Domain
            /\ up \subseteq Domain /\ left \subseteq Domain
            /\ updates \in BOOLEAN

ProcessType == /\ lock \in Proc \cup {None}
               /\ pc \in [Proc -> {"idle", "unlock", "return"} \cup RunSteps \cup VmSteps]
               /\ want \in [Proc -> SUBSET Vm]
               /\ vm \in [Proc -> 0 .. N + 1]
               /\ line \in [Proc -> Lines]
               /\ res \in [Proc -> {None, "done", "aborted", "busy"}]
               /\ \A p \in Proc : pc[p] \in VmSteps => vm[p] \in Vm

ReportType == report \in [want : SUBSET Vm, line : Lines] \cup {None}

LEMMA TypeParts == TypeOK <=> HostType /\ ProcessType /\ faults \in 0 .. MaxFaults /\ ReportType
  BY DEF TypeOK, HostType, ProcessType, ReportType

\* How the step of p goes on: to another step of the same kind, to the end, to the first VM
\* or to the next one.
GoesOn(p) == \/ \E l \in RunSteps : pc[p] \in RunSteps /\ Goto(p, l)
             \/ \E l \in VmSteps : pc[p] \in VmSteps /\ Goto(p, l)
             \/ pc[p] \in RunSteps /\ Return(p, "aborted")
             \/ pc[p] \in RunSteps /\ RouterIsUp(p)
             \/ pc[p] \in VmSteps /\ \E l \in {"ready", "ERROR"} : VmEnds(p, l)

LEMMA ForgetTypes ==
  ASSUME ProcessType, NEW p \in Proc, Forget(p)
  PROVE /\ want' \in [Proc -> SUBSET Vm] /\ vm' \in [Proc -> 0 .. N + 1]
        /\ line' \in [Proc -> Lines]
        /\ \A q \in Proc : q # p => vm'[q] = vm[q]
<1>1. 0 \in 0 .. N + 1 /\ NoLines \in Lines
  BY ReconcileAssumption DEF NoLines, Lines
<1> QED
  BY <1>1 DEF ProcessType, Forget

LEMMA GoesOnTypes == ASSUME ProcessType, NEW p \in Proc, GoesOn(p) PROVE ProcessType'
<1> USE ReconcileAssumption DEF ProcessType, Vm
<1>1. CASE \E l \in RunSteps : pc[p] \in RunSteps /\ Goto(p, l)
  BY <1>1 DEF Goto, RunSteps, VmSteps
<1>2. CASE \E l \in VmSteps : pc[p] \in VmSteps /\ Goto(p, l)
  BY <1>2 DEF Goto
<1>3. CASE pc[p] \in RunSteps /\ Return(p, "aborted")
  BY <1>3, ForgetTypes DEF Return, VmSteps
<1>4. ASSUME NEW v \in 1 .. N + 1, AtVm(p, v), UNCHANGED <<lock, want>>,
             res' = res, line' \in [Proc -> Lines]
      PROVE ProcessType'
  <2>1. v \in 0 .. N + 1 /\ (v \in Vm \/ v \notin Vm)
    OBVIOUS
  <2>2. pc' \in [Proc -> {"idle", "unlock", "return"} \cup RunSteps \cup VmSteps]
    BY <1>4 DEF AtVm, VmSteps
  <2>3. vm' \in [Proc -> 0 .. N + 1]
    BY <1>4, <2>1 DEF AtVm
  <2>4. \A q \in Proc : pc'[q] \in VmSteps => vm'[q] \in Vm
    BY <1>4 DEF AtVm, VmSteps
  <2> QED
    BY <1>4, <2>2, <2>3, <2>4
<1>5. CASE pc[p] \in RunSteps /\ RouterIsUp(p)
  <2>1. 1 \in 1 .. N + 1
    OBVIOUS
  <2> QED
    BY <1>4, <1>5, <2>1 DEF RouterIsUp
<1>6. CASE pc[p] \in VmSteps /\ \E l \in {"ready", "ERROR"} : VmEnds(p, l)
  <2>1. vm[p] + 1 \in 1 .. N + 1
    BY <1>6
  <2>2. line' \in [Proc -> Lines]
    BY <1>6 DEF VmEnds, Lines
  <2> QED
    BY <1>4, <1>6, <2>1, <2>2 DEF VmEnds
<1> QED
  BY <1>1, <1>2, <1>3, <1>5, <1>6 DEF GoesOn

\* Each step of a reconciliation goes on in one of these ways.
LEMMA StepsGoOn ==
  ASSUME NEW p \in Proc,
         \/ NetDefine(p) \/ NetAutostart(p) \/ NetInfo(p) \/ NetStart(p)
         \/ RequireArtifacts(p) \/ DefineRouter(p) \/ AutostartRouter(p)
         \/ RouterState(p) \/ StartRouter(p)
         \/ Ensure(p) \/ AutostartVm(p) \/ VmState(p) \/ StartVm(p) \/ DisableAutostart(p)
  PROVE GoesOn(p)
<1> USE DEF GoesOn, RunSteps, VmSteps, Abort, VmFails
<1>1. CASE NetDefine(p) \/ NetAutostart(p)
  BY <1>1 DEF NetDefine, NetAutostart
<1>2. CASE NetInfo(p) \/ NetStart(p)
  BY <1>2 DEF NetInfo, NetStart
<1>3. CASE RequireArtifacts(p) \/ DefineRouter(p) \/ AutostartRouter(p)
  BY <1>3 DEF RequireArtifacts, DefineRouter, AutostartRouter
<1>4. CASE RouterState(p) \/ StartRouter(p)
  BY <1>4 DEF RouterState, StartRouter
<1>5. CASE Ensure(p)
  BY <1>5 DEF Ensure
<1>6. CASE AutostartVm(p)
  BY <1>6 DEF AutostartVm
<1>7. CASE VmState(p)
  BY <1>7 DEF VmState
<1>8. CASE StartVm(p)
  BY <1>8 DEF StartVm
<1>9. CASE DisableAutostart(p)
  BY <1>9 DEF DisableAutostart
<1> QED
  BY <1>1, <1>2, <1>3, <1>4, <1>5, <1>6, <1>7, <1>8, <1>9

\* What a step of a reconciliation does to the host.
Locally(p) ==
    \/ NetDefine(p) \/ NetAutostart(p) \/ NetInfo(p) \/ NetStart(p)
    \/ RequireArtifacts(p) \/ DefineRouter(p) \/ AutostartRouter(p)
    \/ RouterState(p) \/ StartRouter(p)
    \/ Ensure(p) \/ AutostartVm(p) \/ VmState(p) \/ StartVm(p) \/ DisableAutostart(p)

LEMMA StepTypes == ASSUME TypeOK, NEW p \in Proc, Locally(p) PROVE TypeOK'
<1> USE DEF HostType, Vm, Domain
<1>1. ProcessType'
  BY StepsGoOn, GoesOnTypes, TypeParts DEF Locally
<1>2. faults' \in 0 .. MaxFaults
  <2>1. Fault \/ NoFault
    BY DEF Locally, NetDefine, NetAutostart, NetInfo, NetStart, RequireArtifacts, DefineRouter,
           AutostartRouter, RouterState, StartRouter, Ensure, AutostartVm, VmState, StartVm,
           DisableAutostart, Abort, VmFails
  <2> QED
    BY <2>1, ReconcileAssumption DEF TypeOK, Fault, NoFault
<1>3. HostType /\ N \in Nat /\ Router \in Domain
  BY TypeParts, ReconcileAssumption DEF Router
<1>10. ReportType'
  BY StepsGoOn, TypeParts DEF Locally, ReportType, GoesOn, Goto, Return, Forget, RouterIsUp, VmEnds
<1> SUFFICES HostType'
  BY <1>1, <1>2, <1>10 DEF TypeOK, ProcessType, ReportType
<1>4. CASE UNCHANGED host
  BY <1>3, <1>4 DEF host
<1>5. CASE NetDefine(p) \/ NetAutostart(p) \/ NetInfo(p) \/ NetStart(p)
  BY <1>3, <1>4, <1>5 DEF NetDefine, NetAutostart, NetInfo, NetStart, Abort
<1>6. CASE RequireArtifacts(p) \/ DefineRouter(p) \/ AutostartRouter(p) \/ RouterState(p)
  BY <1>3, <1>4, <1>6 DEF RequireArtifacts, DefineRouter, AutostartRouter, RouterState, Abort
<1>7. CASE StartRouter(p)
  BY <1>3, <1>4, <1>7 DEF StartRouter, Abort, Boot
<1>8. CASE Ensure(p) \/ AutostartVm(p) \/ VmState(p) \/ StartVm(p) \/ DisableAutostart(p)
  <2>1. vm[p] \in Vm /\ vm[p] \in Domain
    BY <1>3, <1>8 DEF TypeOK, Ensure, AutostartVm, VmState, StartVm, DisableAutostart, VmSteps
  <2> QED
    BY <1>3, <1>4, <1>8, <2>1 DEF Ensure, AutostartVm, VmState, StartVm, DisableAutostart,
                                  VmFails, Boot
<1> QED
  BY <1>5, <1>6, <1>7, <1>8 DEF Locally

\* Every variable of Reconcile keeps its type.
THEOREM TypeCorrect == Spec => []TypeOK
<1>1. Init => TypeOK
  BY ReconcileAssumption DEF Init, TypeOK, NoLines, Lines, RunSteps, VmSteps, Vm
<1>2. TypeOK /\ [Next]_vars => TypeOK'
  <2> SUFFICES ASSUME TypeOK, [Next]_vars PROVE TypeOK'
    OBVIOUS
  <2> USE ReconcileAssumption DEF TypeOK, Fault, NoFault
  <2>1. ASSUME NEW p \in Proc, Begin(p) PROVE TypeOK'
    <3>1. /\ pc' \in [Proc -> {"idle", "unlock", "return"} \cup RunSteps \cup VmSteps]
          /\ \A q \in Proc : pc'[q] \in VmSteps => pc[q] \in VmSteps
      BY <2>1 DEF Begin, RunSteps, VmSteps
    <3>2. /\ lock' \in Proc \cup {None}
          /\ res' \in [Proc -> {None, "done", "aborted", "busy"}]
          /\ want' \in [Proc -> SUBSET Vm]
          /\ report' \in {report, None}
      BY <2>1 DEF Begin
    <3> QED
      BY <2>1, <3>1, <3>2 DEF Begin, host
  <2>2. ASSUME NEW p \in Proc, Locally(p) PROVE TypeOK'
    BY <2>2, StepTypes
  <2>3. ASSUME NEW p \in Proc, UnlockAndReport(p) \/ Finish(p) \/ Kill(p) PROVE TypeOK'
    <3>1. /\ pc' \in [Proc -> {"idle", "unlock", "return"} \cup RunSteps \cup VmSteps]
          /\ \A q \in Proc : pc'[q] \in VmSteps => q # p /\ pc[q] \in VmSteps
      BY <2>3 DEF UnlockAndReport, Finish, Kill, Vanish, RunSteps, VmSteps
    <3>2. /\ lock' \in Proc \cup {None}
          /\ res' \in [Proc -> {None, "done", "aborted", "busy"}]
          /\ report' \in [want : SUBSET Vm, line : Lines] \cup {None}
      BY <2>3 DEF UnlockAndReport, Finish, Kill, Vanish
    <3>3. Forget(p) /\ ProcessType
      BY <2>3, TypeParts DEF UnlockAndReport, Finish, Kill, Vanish
    <3>4. faults' \in 0 .. MaxFaults /\ UNCHANGED host
      BY <2>3 DEF UnlockAndReport, Finish, Kill
    <3> QED
      BY <3>1, <3>2, <3>3, <3>4, ForgetTypes DEF host
  <2>4. CASE HostCrash
    BY <2>4 DEF HostCrash, NoLines, Lines, RunSteps, VmSteps
  <2>5. CASE RouterProvisioned
    BY <2>5 DEF RouterProvisioned, process
  <2>6. ASSUME NEW d \in Domain, PowersOff(d) PROVE TypeOK'
    BY <2>6 DEF PowersOff, process
  <2>7. CASE UNCHANGED vars
    BY <2>7 DEF vars, host, process
  <2> QED
    BY <2>1, <2>2, <2>3, <2>4, <2>5, <2>6, <2>7, NextCases DEF Locally
<1> QED
  BY <1>1, <1>2, PTL DEF Spec

-----------------------------------------------------------------------------
(* The lock: who works has it, and then there is no report.                *)

Working(p) == pc[p] \in RunSteps \cup VmSteps \cup {"unlock"}
Locked == \A p \in Proc : Working(p) => lock = p /\ report = None

LEMMA LockInvariant == Spec => []Locked
<1>1. Init => Locked
  BY DEF Init, Locked, Working, RunSteps, VmSteps
<1>2. TypeOK /\ TypeOK' /\ Locked /\ [Next]_vars => Locked'
  <2> SUFFICES ASSUME TypeOK, TypeOK', Locked, [Next]_vars PROVE Locked'
    OBVIOUS
  <2> USE DEF Locked, Working
  <2>1. ASSUME NEW p \in Proc, Begin(p) PROVE Locked'
    BY <2>1, ReconcileAssumption DEF Begin, LockBusy, RunSteps, VmSteps, TypeOK
  <2>2. ASSUME NEW p \in Proc, Locally(p) PROVE Locked'
    <3>1. GoesOn(p)
      BY <2>2, StepsGoOn DEF Locally
    <3>2. /\ lock = p /\ report = None /\ report' = report
          /\ lock' = lock \/ pc'[p] = "return"
      BY <3>1 DEF GoesOn, Goto, Return, Forget, RouterIsUp, VmEnds, TypeOK
    <3>3. \A q \in Proc : q # p => pc'[q] = pc[q]
      BY <3>1 DEF GoesOn, Goto, Return, Forget, RouterIsUp, VmEnds, AtVm, TypeOK
    <3> QED
      BY <3>2, <3>3, ReconcileAssumption DEF RunSteps, VmSteps
  <2>3. ASSUME NEW p \in Proc, UnlockAndReport(p) \/ Finish(p) \/ Kill(p) PROVE Locked'
    BY <2>3 DEF UnlockAndReport, Finish, Kill, Vanish, RunSteps, VmSteps, TypeOK
  <2>4. CASE HostCrash
    BY <2>4 DEF HostCrash, RunSteps, VmSteps
  <2>5. CASE RouterProvisioned \/ (\E d \in Domain : PowersOff(d)) \/ UNCHANGED vars
    BY <2>5 DEF RouterProvisioned, PowersOff, vars, process
  <2> QED
    BY <2>1, <2>2, <2>3, <2>4, <2>5, NextCases DEF Locally
<1> QED
  BY <1>1, <1>2, TypeCorrect, PTL DEF Spec

-----------------------------------------------------------------------------
(***************************************************************************)
(* What the holder of the lock has brought about by each step.  It stays   *)
(* so: the others do nothing, a host crash ends everything, and a domain   *)
(* that powers off is counted in left.                                     *)
(***************************************************************************)
After(p, S) == pc[p] \in S \cup VmSteps \cup {"unlock"}

NetworkSet(p) ==
    /\ After(p, RunSteps \ {"net-define"}) => "defined" \in net
    /\ After(p, RunSteps \ {"net-define", "net-autostart"}) => "autostart" \in net
    /\ After(p, RunSteps \ {"net-define", "net-autostart", "net-info", "net-start"}) =>
           "active" \in net

RouterSet(p) ==
    /\ After(p, {"autostart-router", "router-state", "start-router"}) => Router \in defined
    /\ After(p, {"router-state", "start-router"}) => Router \in auto
    /\ After(p, {}) => Router \in up \cup left

Ready(p, v) == /\ v \in overlay /\ v \in defined
               /\ v \in auto <=> v \in want[p]
               /\ v \in want[p] => v \in up \cup left

\* The VMs before vm[p] have their lines, and those of the ready ones are true.
LinesSet(p) ==
    /\ pc[p] \notin VmSteps \cup {"unlock"} => line[p] = NoLines
    /\ After(p, {}) => \A v \in Vm : /\ (v < vm[p] <=> line[p][v] # None)
                                     /\ line[p][v] = "ready" => Ready(p, v)
    /\ pc[p] = "unlock" => vm[p] = N + 1

VmSet(p) ==
    /\ pc[p] \in VmSteps \ {"ensure"} => /\ vm[p] \in overlay /\ vm[p] \in defined
                                         /\ pc[p] # "disable-autostart-vm" <=> vm[p] \in want[p]
    /\ pc[p] \in {"vm-state", "start-vm"} => vm[p] \in auto

Done(p) == NetworkSet(p) /\ RouterSet(p) /\ LinesSet(p) /\ VmSet(p)
AllDone == \A p \in Proc : Done(p)

\* Nothing is claimed of who does not work.
LEMMA IdleDone ==
  ASSUME NEW q \in Proc, ~Working(q)', line'[q] = NoLines
  PROVE Done(q)'
<1>1. pc'[q] \notin RunSteps \cup VmSteps \cup {"unlock"}
  BY DEF Working
<1> QED
  BY <1>1 DEF Done, NetworkSet, RouterSet, LinesSet, VmSet, After, RunSteps, VmSteps

\* So of a step of the reconciliation only what it shows of its own process matters.
LEMMA OneWorks ==
  ASSUME TypeOK, Locked, AllDone, NEW p \in Proc, Locally(p), Done(p)'
  PROVE AllDone'
<1>1. GoesOn(p)
  BY StepsGoOn DEF Locally
<1>2. lock = p
  BY <1>1 DEF Locked, Working, GoesOn
<1>3. ASSUME NEW q \in Proc, q # p
      PROVE pc'[q] = pc[q] /\ line'[q] = line[q]
  BY <1>1, <1>3 DEF GoesOn, Goto, Return, Forget, RouterIsUp, VmEnds, AtVm, TypeOK
<1>4. ASSUME NEW q \in Proc, q # p PROVE Done(q)'
  <2>1. ~Working(q)'
    BY <1>2, <1>3, <1>4 DEF Locked, Working
  <2>2. line'[q] = NoLines
    BY <1>3, <1>4, <2>1 DEF AllDone, Done, LinesSet, Working
  <2> QED
    BY <2>1, <2>2, IdleDone
<1> QED
  BY <1>4 DEF AllDone

\* The steps before the router is up.
LEMMA RunStepShows ==
  ASSUME TypeOK, NEW p \in Proc, Done(p),
         \/ NetDefine(p) \/ NetAutostart(p) \/ NetInfo(p) \/ NetStart(p)
         \/ RequireArtifacts(p) \/ DefineRouter(p) \/ AutostartRouter(p)
         \/ RouterState(p) \/ StartRouter(p)
  PROVE Done(p)'
<1>1. line[p] = NoLines /\ pc[p] \in RunSteps
  BY DEF NetDefine, NetAutostart, NetInfo, NetStart, RequireArtifacts, DefineRouter,
         AutostartRouter, RouterState, StartRouter, Done, LinesSet, RunSteps, VmSteps
<1>2. ASSUME Return(p, "aborted") PROVE Done(p)'
  <2>1. pc'[p] = "return" /\ line'[p] = NoLines
    BY <1>2 DEF Return, Forget, TypeOK
  <2> QED
    BY <2>1, IdleDone DEF Working, RunSteps, VmSteps
<1>3. ASSUME RouterIsUp(p), "defined" \in net', "autostart" \in net', "active" \in net',
             Router \in defined', Router \in auto', Router \in up' \cup left'
      PROVE Done(p)'
  <2>1. /\ line'[p] = NoLines /\ vm'[p] = 1
        /\ pc'[p] = IF 1 \in Vm THEN "ensure" ELSE "unlock"
    BY <1>1, <1>3 DEF RouterIsUp, AtVm, TypeOK
  <2>2. \A v \in Vm : ~(v < 1) /\ NoLines[v] = None
    BY DEF Vm, NoLines
  <2>3. 1 \notin Vm => N + 1 = 1
    BY ReconcileAssumption DEF Vm
  <2>4. LinesSet(p)'
    BY <2>1, <2>2, <2>3, ReconcileAssumption DEF LinesSet, RunSteps
  <2>5. VmSet(p)'
    BY <2>1 DEF VmSet, VmSteps
  <2>6. NetworkSet(p)' /\ RouterSet(p)'
    BY <1>3 DEF NetworkSet, RouterSet
  <2> QED
    BY <2>4, <2>5, <2>6 DEF Done
<1>4. ASSUME NEW l \in RunSteps, Goto(p, l), NetworkSet(p)', RouterSet(p)' PROVE Done(p)'
  <2>1. pc'[p] = l /\ line' = line
    BY <1>4 DEF Goto, TypeOK
  <2> QED
    BY <1>1, <1>4, <2>1 DEF Done, LinesSet, VmSet, After, RunSteps, VmSteps
<1>5. ASSUME NEW l \in RunSteps, Goto(p, l) PROVE pc'[p] = l /\ l # "return"
  BY <1>5 DEF Goto, TypeOK, RunSteps
<1> USE DEF Abort, Done, NetworkSet, RouterSet, After, RunSteps, VmSteps
<1>6. CASE NetDefine(p)
  BY <1>2, <1>4, <1>5, <1>6 DEF NetDefine
<1>7. CASE NetAutostart(p)
  BY <1>2, <1>4, <1>5, <1>7 DEF NetAutostart
<1>8. CASE NetInfo(p)
  BY <1>2, <1>4, <1>5, <1>8 DEF NetInfo, host
<1>9. CASE NetStart(p)
  BY <1>2, <1>4, <1>5, <1>9 DEF NetStart
<1>10. CASE RequireArtifacts(p)
  BY <1>2, <1>4, <1>5, <1>10 DEF RequireArtifacts, host
<1>11. CASE DefineRouter(p)
  BY <1>2, <1>4, <1>5, <1>11 DEF DefineRouter
<1>12. CASE AutostartRouter(p)
  BY <1>2, <1>4, <1>5, <1>12 DEF AutostartRouter
<1>13. CASE RouterState(p)
  BY <1>2, <1>3, <1>4, <1>5, <1>13 DEF RouterState, host
<1>14. CASE StartRouter(p)
  BY <1>2, <1>3, <1>14 DEF StartRouter, Boot
<1> QED
  BY <1>6, <1>7, <1>8, <1>9, <1>10, <1>11, <1>12, <1>13, <1>14

\* The steps of reconcile_vm.
LEMMA VmStepShows ==
  ASSUME TypeOK, NEW p \in Proc, Done(p),
         Ensure(p) \/ AutostartVm(p) \/ VmState(p) \/ StartVm(p) \/ DisableAutostart(p)
  PROVE Done(p)'
<1>1. pc[p] \in VmSteps /\ vm[p] \in Vm /\ vm[p] # Router
  BY DEF Ensure, AutostartVm, VmState, StartVm, DisableAutostart, VmSteps, TypeOK, Vm, Router
<1>2. /\ net' = net /\ want' = want
      /\ overlay \subseteq overlay' /\ defined \subseteq defined'
      /\ up \cup left \subseteq up' \cup left'
      /\ \A d \in Domain : d # vm[p] => (d \in auto' <=> d \in auto)
  BY DEF Ensure, AutostartVm, VmState, StartVm, DisableAutostart, VmFails, Boot, host, VmEnds,
         Goto
<1>3. Router \in Domain /\ \A v \in Vm : v \in Domain
  BY ReconcileAssumption DEF Router, Domain, Vm
<1>4. NetworkSet(p)'
  BY <1>1, <1>2 DEF Done, NetworkSet, After
<1>5. RouterSet(p)'
  BY <1>1, <1>2, <1>3 DEF Done, RouterSet, After
<1>6. ASSUME NEW v \in Vm, v # vm[p], Ready(p, v) PROVE Ready(p, v)'
  BY <1>2, <1>3, <1>6 DEF Ready
<1>7. ASSUME NEW l \in {"ready", "ERROR"}, VmEnds(p, l),
             l = "ready" => \A v \in Vm : v = vm[p] => Ready(p, v)'
      PROVE Done(p)'
  <2>1. /\ vm'[p] = vm[p] + 1
        /\ \A v \in Vm : line'[p][v] = IF v = vm[p] THEN l ELSE line[p][v]
        /\ pc'[p] = IF vm[p] + 1 \in Vm THEN "ensure" ELSE "unlock"
    BY <1>1, <1>7 DEF VmEnds, AtVm, TypeOK, Lines
  <2>2. \A v \in Vm : v < vm[p] <=> line[p][v] # None
    BY <1>1 DEF Done, LinesSet, After
  <2>3. \A v \in Vm : v < vm'[p] <=> line'[p][v] # None
    BY <1>1, <2>1, <2>2, ReconcileAssumption DEF Vm
  <2>4. ASSUME NEW v \in Vm, line'[p][v] = "ready" PROVE Ready(p, v)'
    <3>1. CASE v = vm[p]
      BY <1>7, <2>1, <2>4, <3>1
    <3>2. CASE v # vm[p]
      BY <1>1, <1>6, <2>1, <2>4, <3>2 DEF Done, LinesSet, After, Ready
    <3> QED
      BY <3>1, <3>2
  <2>5. vm[p] + 1 \notin Vm => vm'[p] = N + 1
    BY <1>1, <2>1, ReconcileAssumption DEF Vm
  <2>6. LinesSet(p)'
    BY <2>1, <2>3, <2>4, <2>5 DEF LinesSet, RunSteps, VmSteps
  <2>7. VmSet(p)'
    BY <2>1 DEF VmSet, VmSteps
  <2> QED
    BY <1>4, <1>5, <2>6, <2>7 DEF Done
<1>8. ASSUME NEW l \in VmSteps \ {"ensure"}, Goto(p, l), VmSet(p)'
      PROVE Done(p)'
  <2>1. pc'[p] = l /\ line' = line /\ vm' = vm
    BY <1>8 DEF Goto, TypeOK
  <2>2. line[p][vm[p]] = None
    <3>1. ~(vm[p] < vm[p])
      BY <1>1 DEF Vm
    <3> QED
      BY <1>1, <3>1 DEF Done, LinesSet, After, Ready
  <2>3. LinesSet(p)'
    BY <1>1, <1>6, <1>8, <2>1, <2>2, ReconcileAssumption
       DEF Done, LinesSet, After, RunSteps, VmSteps
  <2> QED
    BY <1>4, <1>5, <1>8, <2>3 DEF Done
<1>9. ASSUME VmFails(p) PROVE Done(p)'
  BY <1>7, <1>9 DEF VmFails
<1>10. CASE Ensure(p)
  <2>1. CASE VmFails(p) \/ VmEnds(p, "ERROR")
    BY <1>7, <1>9, <2>1
  <2>2. CASE /\ overlay' = overlay \cup {vm[p]} /\ defined' = defined \cup {vm[p]}
             /\ Goto(p, IF vm[p] \in want[p] THEN "autostart-vm" ELSE "disable-autostart-vm")
    <3>1. VmSet(p)'
      BY <2>2 DEF VmSet, Goto, TypeOK
    <3> QED
      BY <1>8, <2>2, <3>1 DEF VmSteps
  <2> QED
    BY <1>10, <2>1, <2>2 DEF Ensure
<1>11. CASE AutostartVm(p)
  <2>1. CASE auto' = auto \cup {vm[p]} /\ Goto(p, "vm-state")
    <3>1. VmSet(p)'
      BY <1>2, <1>11, <2>1 DEF Done, VmSet, Goto, TypeOK, AutostartVm, VmSteps
    <3> QED
      BY <1>8, <2>1, <3>1 DEF VmSteps
  <2> QED
    BY <1>9, <1>11, <2>1 DEF AutostartVm
<1>12. CASE VmState(p)
  <2>1. CASE vm[p] \in up /\ VmEnds(p, "ready") /\ UNCHANGED host
    <3>1. \A v \in Vm : v = vm[p] => Ready(p, v)'
      BY <1>2, <1>12, <2>1 DEF Done, VmSet, VmSteps, Ready, VmState, host
    <3> QED
      BY <1>7, <2>1, <3>1
  <2>2. CASE Goto(p, "start-vm") /\ UNCHANGED host
    <3>1. VmSet(p)'
      BY <1>2, <1>12, <2>2 DEF Done, VmSet, Goto, TypeOK, VmState, VmSteps, host
    <3> QED
      BY <1>8, <2>2, <3>1 DEF VmSteps
  <2> QED
    BY <1>9, <1>12, <2>1, <2>2 DEF VmState
<1>13. CASE StartVm(p)
  <2>1. CASE Boot(vm[p]) /\ VmEnds(p, "ready")
    <3>1. \A v \in Vm : v = vm[p] => Ready(p, v)'
      BY <1>2, <1>13, <2>1 DEF Done, VmSet, VmSteps, Ready, StartVm, Boot
    <3> QED
      BY <1>7, <2>1, <3>1
  <2> QED
    BY <1>7, <1>9, <1>13, <2>1 DEF StartVm
<1>14. CASE DisableAutostart(p)
  <2>1. CASE /\ auto' = auto \ {vm[p]} /\ VmEnds(p, "ready")
             /\ UNCHANGED <<net, artifacts, overlay, defined, up, left>>
    <3>1. \A v \in Vm : v = vm[p] => Ready(p, v)'
      BY <1>2, <1>14, <2>1 DEF Done, VmSet, VmSteps, Ready, DisableAutostart
    <3> QED
      BY <1>7, <2>1, <3>1
  <2> QED
    BY <1>9, <1>14, <2>1 DEF DisableAutostart
<1> QED
  BY <1>10, <1>11, <1>12, <1>13, <1>14

LEMMA WorkIsDone == Spec => []AllDone
<1>1. Init => AllDone
  BY DEF Init, AllDone, Done, NetworkSet, RouterSet, LinesSet, VmSet, After, RunSteps,
         VmSteps
<1>2. TypeOK /\ TypeOK' /\ Locked /\ AllDone /\ [Next]_vars => AllDone'
  <2> SUFFICES ASSUME TypeOK, TypeOK', Locked, AllDone, [Next]_vars PROVE AllDone'
    OBVIOUS
  <2>1. ASSUME NEW q \in Proc, UNCHANGED host, pc'[q] = pc[q],
               line'[q] = line[q], vm'[q] = vm[q], want'[q] = want[q]
        PROVE Done(q)'
    BY <2>1 DEF AllDone, Done, NetworkSet, RouterSet, LinesSet, VmSet, Ready, After,
                host
  <2>2. ASSUME NEW p \in Proc, Begin(p) PROVE AllDone'
    <3>1. UNCHANGED <<host, vm, line>> /\ line[p] = NoLines
      BY <2>2 DEF Begin, AllDone, Done, LinesSet, VmSteps
    <3>2. CASE pc'[p] = "net-define"
      <4>1. Done(p)'
        BY <3>1, <3>2 DEF Done, NetworkSet, RouterSet, LinesSet, VmSet, After,
                          RunSteps, VmSteps
      <4> QED
        BY <2>1, <2>2, <3>1, <4>1 DEF AllDone, Begin, TypeOK
    <3>3. CASE pc'[p] = "return"
      <4>1. Done(p)'
        BY <3>1, <3>3, IdleDone DEF Working, RunSteps, VmSteps
      <4> QED
        BY <2>1, <2>2, <3>1, <4>1 DEF AllDone, Begin, TypeOK
    <3> QED
      BY <2>2, <3>2, <3>3 DEF Begin, TypeOK
  <2>3. ASSUME NEW p \in Proc, Locally(p) PROVE AllDone'
    BY <2>3, OneWorks, RunStepShows, VmStepShows DEF Locally, AllDone
  <2>4. ASSUME NEW p \in Proc, UnlockAndReport(p) \/ Finish(p) \/ Kill(p) PROVE AllDone'
    <3>1. pc'[p] \in {"idle", "return"} /\ line'[p] = NoLines /\ UNCHANGED host
      BY <2>4 DEF UnlockAndReport, Finish, Kill, Vanish, Forget, TypeOK
    <3>2. Done(p)'
      BY <3>1, IdleDone DEF Working, RunSteps, VmSteps
    <3> QED
      BY <2>1, <2>4, <3>1, <3>2 DEF AllDone, UnlockAndReport, Finish, Kill, Vanish, Forget,
                                            TypeOK
  <2>5. CASE HostCrash
    BY <2>5, IdleDone DEF HostCrash, AllDone, Working, RunSteps, VmSteps
  <2>6. ASSUME NEW q \in Proc, UNCHANGED <<net, overlay, defined, auto, process>>,
               up \cup left \subseteq up' \cup left'
        PROVE Done(q)'
    <3>1. \A v \in Vm : Ready(q, v) => Ready(q, v)'
      BY <2>6 DEF Ready, process
    <3>2. NetworkSet(q)' /\ VmSet(q)'
      BY <2>6 DEF AllDone, Done, NetworkSet, VmSet, After, process
    <3>3. RouterSet(q)'
      BY <2>6 DEF AllDone, Done, RouterSet, After, process
    <3>4. LinesSet(q)'
      BY <2>6, <3>1 DEF AllDone, Done, LinesSet, After, process
    <3> QED
      BY <3>2, <3>3, <3>4 DEF Done
  <2>7. CASE RouterProvisioned \/ \E d \in Domain : PowersOff(d)
    BY <2>6, <2>7 DEF RouterProvisioned, PowersOff, AllDone
  <2>8. CASE UNCHANGED vars
    BY <2>1, <2>8 DEF vars, process, AllDone
  <2> QED
    BY <2>2, <2>3, <2>4, <2>5, <2>7, <2>8, NextCases DEF Locally
<1> QED
  BY <1>1, <1>2, TypeCorrect, LockInvariant, PTL DEF Spec

-----------------------------------------------------------------------------
(* What a call has brought about when it reports, and how long it is so:   *)
(* until another call has the lock nobody undoes it, and a reboot makes it *)
(* so again.                                                               *)

LEMMA DoneReports ==
  ASSUME TypeOK, AllDone, NEW p \in Proc, UnlockAndReport(p)
  PROVE ReportTrue' /\ EveryVmTried'
<1>1. Done(p) /\ \A S : After(p, S)
  BY DEF AllDone, After, UnlockAndReport
<1>2. \A v \in Vm : v < N + 1
  BY ReconcileAssumption DEF Vm
<1>3. /\ net = {"defined", "active", "autostart"}
      /\ Router \in defined \cap auto /\ Router \in up \cup left
      /\ \A v \in Vm : /\ line[p][v] # None
                       /\ line[p][v] = "ready" => Ready(p, v)
  BY <1>1, <1>2 DEF Done, NetworkSet, RouterSet, LinesSet, UnlockAndReport, TypeOK
<1>4. UNCHANGED host /\ report'.want = want[p] /\ report'.line = line[p]
  BY DEF UnlockAndReport
<1> QED
  BY <1>3, <1>4 DEF ReportTrue, EveryVmTried, Ready, host

LEMMA ReportsHold == Spec => [](ReportTrue /\ EveryVmTried)
<1>1. Init => ReportTrue /\ EveryVmTried
  BY DEF Init, ReportTrue, EveryVmTried
<1>2. TypeOK /\ Locked /\ AllDone /\ ReportTrue /\ EveryVmTried /\ [Next]_vars
        => (ReportTrue /\ EveryVmTried)'
  <2> SUFFICES ASSUME TypeOK, Locked, AllDone, ReportTrue, EveryVmTried, [Next]_vars
               PROVE (ReportTrue /\ EveryVmTried)'
    OBVIOUS
  <2> USE DEF ReportTrue, EveryVmTried
  <2>1. ASSUME NEW p \in Proc, Begin(p) \/ Finish(p) \/ Kill(p)
        PROVE (ReportTrue /\ EveryVmTried)'
    BY <2>1 DEF Begin, Finish, Kill, Vanish, host
  <2>2. ASSUME NEW p \in Proc, Locally(p) PROVE report' = None
    <3>1. GoesOn(p)
      BY <2>2, StepsGoOn DEF Locally
    <3>2. report = None /\ report' = report
      BY <3>1 DEF Locked, Working, GoesOn, Goto, Return, Forget, RouterIsUp, VmEnds
    <3> QED
      BY <3>2
  <2>3. ASSUME NEW p \in Proc, UnlockAndReport(p) PROVE (ReportTrue /\ EveryVmTried)'
    BY <2>3, DoneReports
  <2>4. CASE HostCrash
    BY <2>4 DEF HostCrash
  <2>5. CASE RouterProvisioned \/ \E d \in Domain : PowersOff(d)
    BY <2>5 DEF RouterProvisioned, PowersOff
  <2>6. CASE UNCHANGED vars
    BY <2>6 DEF vars, host
  <2> QED
    BY <2>1, <2>2, <2>3, <2>4, <2>5, <2>6, NextCases DEF Locally
<1> QED
  BY <1>1, <1>2, TypeCorrect, LockInvariant, WorkIsDone, PTL DEF Spec

\* The last report of a reconciliation is true of the host until another one has begun, with
\* the lock long released and the reporting process gone, through crashes of the host.
THEOREM ReportIsTrue == Spec => []ReportTrue
  BY ReportsHold, PTL

\* Each VM has its line in the report, whatever failed before it.
THEOREM AllAreTried == Spec => []EveryVmTried
  BY ReportsHold, PTL

\* A reboot at any time between a report and the next reconciliation brings up the router
\* and, of the VMs reported ready, those that the configuration has at boot.
THEOREM RebootAgrees == Spec => RebootKeepsReport
<1>1. ReportTrue /\ [Next]_vars =>
        [HostCrash /\ report # None =>
            /\ Router \in up'
            /\ \A v \in Vm : report.line[v] = "ready" => (v \in up' <=> v \in report.want)]_vars
  BY DEF HostCrash, ReportTrue
<1> QED
  BY <1>1, ReportIsTrue, PTL DEF Spec, RebootKeepsReport

\* No VM is started before the router and its network.
THEOREM RouterComesFirst == Spec => RouterFirst
<1>1. TypeOK /\ AllDone /\ [Next]_vars =>
        [\A v \in Vm : v \in up' \ up =>
            HostCrash \/ (Router \in up \cup left /\ "active" \in net)]_vars
  <2> SUFFICES ASSUME TypeOK, AllDone, [Next]_vars, NEW v \in Vm, v \in up' \ up, ~HostCrash
               PROVE Router \in up \cup left /\ "active" \in net
    OBVIOUS
  <2>1. PICK p \in Proc : StartVm(p) \/ StartRouter(p)
    BY NextCases DEF Begin, NetDefine, NetAutostart, NetInfo, NetStart, RequireArtifacts,
       DefineRouter, AutostartRouter, RouterState, Ensure, AutostartVm, VmState,
       DisableAutostart, UnlockAndReport, Finish, Kill, RouterProvisioned, PowersOff, Abort,
       VmFails, host, vars
  <2>2. ~StartRouter(p)
    BY DEF StartRouter, Abort, Boot, host, Vm, Router
  <2>3. pc[p] = "start-vm"
    BY <2>1, <2>2 DEF StartVm
  <2> QED
    BY <2>3 DEF AllDone, Done, NetworkSet, RouterSet, After, VmSteps
<1> QED
  BY <1>1, WorkIsDone, TypeCorrect, PTL DEF Spec, RouterFirst

-----------------------------------------------------------------------------
(* The safety half of Recovers: what makes a reconciliation fail.  What p  *)
(* has seen off stays off until p starts it, because nobody else starts    *)
(* anything.                                                               *)

Needed == \A p \in Proc : /\ pc[p] = "net-start" => "active" \notin net
                          /\ pc[p] = "start-router" => Router \notin up
                          /\ pc[p] = "start-vm" => vm[p] \notin up

LEMMA StartsAreNeeded == Spec => []Needed
<1>1. Init => Needed
  BY DEF Init, Needed
<1>2. TypeOK /\ Locked /\ Needed /\ [Next]_vars => Needed'
  <2> SUFFICES ASSUME TypeOK, Locked, Needed, [Next]_vars PROVE Needed'
    OBVIOUS
  <2>1. ASSUME NEW p \in Proc, Begin(p) PROVE Needed'
    BY <2>1 DEF Begin, Needed, TypeOK, host
  <2>2. ASSUME NEW p \in Proc, Locally(p) PROVE Needed'
    <3>1. GoesOn(p) /\ lock = p
      BY <2>2, StepsGoOn DEF Locally, Locked, Working, GoesOn
    <3>2. ASSUME NEW q \in Proc, q # p PROVE pc'[q] \notin {"net-start", "start-router", "start-vm"}
      BY <3>1, <3>2 DEF GoesOn, Goto, Return, Forget, RouterIsUp, VmEnds, AtVm, TypeOK, Locked,
         Working,
                        RunSteps, VmSteps
    <3>3. pc'[p] = "net-start" => "active" \notin net'
      BY <2>2 DEF Locally, NetDefine, NetAutostart, NetInfo, NetStart, RequireArtifacts,
         DefineRouter, AutostartRouter, RouterState, StartRouter, Ensure, AutostartVm, VmState,
         StartVm, DisableAutostart, Abort, VmFails, VmEnds, Goto, Return, Forget, RouterIsUp, AtVm,
         TypeOK, host
    <3>4. pc'[p] = "start-router" => Router \notin up'
      BY <2>2 DEF Locally, NetDefine, NetAutostart, NetInfo, NetStart, RequireArtifacts,
         DefineRouter, AutostartRouter, RouterState, StartRouter, Ensure, AutostartVm, VmState,
         StartVm, DisableAutostart, Abort, VmFails, VmEnds, Goto, Return, Forget, RouterIsUp, AtVm,
         TypeOK, host
    <3>5. pc'[p] = "start-vm" => vm'[p] \notin up'
      BY <2>2 DEF Locally, NetDefine, NetAutostart, NetInfo, NetStart, RequireArtifacts,
         DefineRouter, AutostartRouter, RouterState, StartRouter, Ensure, AutostartVm, VmState,
         StartVm, DisableAutostart, Abort, VmFails, VmEnds, Goto, Return, Forget, RouterIsUp, AtVm,
         TypeOK, host
    <3> QED
      BY <3>2, <3>3, <3>4, <3>5 DEF Needed
  <2>3. ASSUME NEW p \in Proc, UnlockAndReport(p) \/ Finish(p) \/ Kill(p) PROVE Needed'
    BY <2>3 DEF UnlockAndReport, Finish, Kill, Vanish, Forget, Needed, TypeOK, host
  <2>4. CASE HostCrash
    BY <2>4 DEF HostCrash, Needed
  <2>5. CASE RouterProvisioned \/ (\E d \in Domain : PowersOff(d)) \/ UNCHANGED vars
    BY <2>5 DEF RouterProvisioned, PowersOff, Needed, vars, host, process
  <2> QED
    BY <2>1, <2>2, <2>3, <2>4, <2>5, NextCases DEF Locally
<1> QED
  BY <1>1, <1>2, TypeCorrect, LockInvariant, PTL DEF Spec

\* What a step of p that aborts its call, or gives its VM up, is owed to.
AbortHasCause == faults' > faults \/ ~artifacts \/ Refused("defined" \in net \/ Router \in defined)
VmHasCause(v) == faults' > faults \/ Refused(v \in defined)

LEMMA FailuresCaused ==
  ASSUME TypeOK, AllDone, Needed, NEW p \in Proc, Locally(p)
  PROVE \/ faults' > faults
        \/ AbortHasCause /\ \A q \in Proc, v \in Vm : line'[q][v] = "ERROR" => line[q][v] = "ERROR"
        \/ /\ res' = res
           /\ \A q \in Proc, v \in Vm :
                 line'[q][v] = "ERROR" /\ line[q][v] # "ERROR" => VmHasCause(v)
<1>1. Fault => faults' > faults
  BY ReconcileAssumption DEF Fault, TypeOK
<1>2. ASSUME NEW l, Goto(p, l) PROVE line' = line /\ res' = res
  BY <1>2 DEF Goto
<1>3. ASSUME RouterIsUp(p) \/ VmEnds(p, "ready")
      PROVE /\ res' = res
            /\ \A q \in Proc, v \in Vm : line'[q][v] = "ERROR" => line[q][v] = "ERROR"
  BY <1>3 DEF RouterIsUp, VmEnds, AtVm, TypeOK, Lines
<1>15. ASSUME Return(p, "aborted"), NEW q \in Proc, NEW v \in Vm, line'[q][v] = "ERROR"
       PROVE line[q][v] = "ERROR"
  BY <1>15, ReconcileAssumption DEF Return, Forget, NoLines, TypeOK
<1>4. CASE NetAutostart(p) \/ NetInfo(p) \/ AutostartRouter(p)
  BY <1>1, <1>2, <1>4 DEF NetAutostart, NetInfo, AutostartRouter, Abort
<1>16. CASE NetDefine(p) \/ DefineRouter(p)
  BY <1>1, <1>2, <1>15, <1>16 DEF NetDefine, DefineRouter, Abort, AbortHasCause, Refused
<1>5. CASE NetStart(p)
  BY <1>1, <1>2, <1>5 DEF NetStart, Abort, Needed
<1>6. CASE RequireArtifacts(p)
  BY <1>2, <1>6, <1>15 DEF RequireArtifacts, AbortHasCause
<1>7. CASE RouterState(p)
  BY <1>1, <1>2, <1>3, <1>7 DEF RouterState, Abort
<1>8. CASE StartRouter(p)
  <2>1. "active" \in net /\ Router \notin up
    BY <1>8 DEF StartRouter, AllDone, Done, NetworkSet, After, RunSteps, Needed
  <2> QED
    BY <1>1, <1>3, <1>8, <2>1 DEF StartRouter, Abort
<1>9. CASE Ensure(p)
  <2>1. CASE VmEnds(p, "ERROR") /\ Refused(vm[p] \in defined)
    <3>1. res' = res /\ \A q \in Proc, v \in Vm : q # p \/ v # vm[p] => line'[q][v] = line[q][v]
      BY <2>1 DEF VmEnds, AtVm, TypeOK, Lines
    <3> QED
      BY <2>1, <3>1 DEF VmHasCause
  <2> QED
    BY <1>1, <1>2, <1>9, <2>1 DEF Ensure, VmFails
<1>17. CASE AutostartVm(p)
  BY <1>1, <1>2, <1>17 DEF AutostartVm, VmFails
<1>10. CASE VmState(p) \/ DisableAutostart(p)
  BY <1>1, <1>2, <1>3, <1>10 DEF VmState, DisableAutostart, VmFails
<1>11. CASE StartVm(p)
  <2>1. "active" \in net /\ vm[p] \notin up
    BY <1>11 DEF StartVm, AllDone, Done, NetworkSet, After, VmSteps, Needed
  <2> QED
    BY <1>1, <1>3, <1>11, <2>1 DEF StartVm, VmFails
<1> QED
  BY <1>4, <1>5, <1>6, <1>7, <1>8, <1>9, <1>10, <1>11, <1>16, <1>17 DEF Locally

\* A reconciliation is cut short, or a VM given up, only by a command that fails of itself,
\* for want of the router's files, or by a libvirt that refuses a name it knows: by nothing
\* else that calls, faults, reboots and guests have left behind.
THEOREM FailuresAreOwed == Spec => FailuresHaveCauses
<1> DEFINE Owed ==
        \A p \in Proc :
          /\ res'[p] = "aborted" /\ res[p] # "aborted" =>
                 \/ faults' > faults \/ ~artifacts
                 \/ Refused("defined" \in net \/ Router \in defined)
          /\ \A v \in Vm : line'[p][v] = "ERROR" /\ line[p][v] # "ERROR" =>
                 faults' > faults \/ Refused(v \in defined)
<1>1. ASSUME TypeOK, AllDone, Needed, [Next]_vars PROVE Owed
  <2>1. ASSUME NEW p \in Proc, Begin(p) PROVE Owed
    BY <2>1, <1>1 DEF Begin, TypeOK
  <2>2. ASSUME NEW p \in Proc, Locally(p) PROVE Owed
    BY <1>1, <2>2, FailuresCaused DEF AbortHasCause, VmHasCause
  <2>3. ASSUME NEW p \in Proc, UnlockAndReport(p) \/ Finish(p) \/ Kill(p) PROVE Owed
    BY <2>3, <1>1, ReconcileAssumption DEF UnlockAndReport, Finish, Kill, Vanish, Forget,
                                           NoLines, TypeOK
  <2>4. CASE HostCrash
    BY <2>4, ReconcileAssumption DEF HostCrash, NoLines
  <2>5. CASE RouterProvisioned \/ (\E d \in Domain : PowersOff(d)) \/ UNCHANGED vars
    BY <2>5 DEF RouterProvisioned, PowersOff, vars, process
  <2> QED
    BY <1>1, <2>1, <2>2, <2>3, <2>4, <2>5, NextCases DEF Locally
<1>2. TypeOK /\ AllDone /\ Needed /\ [Next]_vars => [Owed]_vars
  BY <1>1
<1> QED
  BY <1>2, TypeCorrect, WorkIsDone, StartsAreNeeded, PTL DEF Spec, FailuresHaveCauses

-----------------------------------------------------------------------------
(* Disks.                                                                  *)

\* For each VM Reconcile's ensure is a step of Disks, and so is nothing else it does.
THEOREM ReconcileImplementsDisks == Spec => ImplementsDisks
<1>1. Init => D!Init
  BY DEF Init, D!Init
<1>2. TypeOK /\ [Next]_vars => [D!Next]_(D!vars)
  <2> SUFFICES ASSUME TypeOK, [Next]_vars PROVE [D!Next]_(D!vars)
    OBVIOUS
  <2>1. ASSUME NEW p \in Proc, Ensure(p) PROVE [D!Next]_(D!vars)
    <3>1. vm[p] \in Vm /\ vm[p] # Router
      BY <2>1 DEF Ensure, VmSteps, TypeOK, Vm, Router
    <3>2. \/ UNCHANGED <<overlay, defined>>
          \/ overlay' = overlay \cup {vm[p]} /\ defined' \in {defined, defined \cup {vm[p]}}
      BY <2>1 DEF Ensure, VmFails, host
    <3>3. \/ UNCHANGED D!vars
          \/ D!Provide(vm[p])
      BY <3>1, <3>2 DEF D!vars, D!Provide
    <3> QED
      BY <3>1, <3>3 DEF D!Next
  <2>2. ASSUME NEW p \in Proc, DefineRouter(p) PROVE UNCHANGED D!vars
    BY <2>2 DEF DefineRouter, Abort, host, D!vars
  <2>3. ASSUME NEW p \in Proc, Locally(p), ~Ensure(p), ~DefineRouter(p)
        PROVE UNCHANGED <<overlay, defined>>
    BY <2>3 DEF Locally, NetDefine, NetAutostart, NetInfo, NetStart, RequireArtifacts,
       AutostartRouter, RouterState, StartRouter, AutostartVm, VmState, StartVm,
       DisableAutostart, Abort, VmFails, Boot, host
  <2>4. ASSUME NEW p \in Proc, Begin(p) \/ UnlockAndReport(p) \/ Finish(p) \/ Kill(p)
        PROVE UNCHANGED <<overlay, defined>>
    BY <2>4 DEF Begin, UnlockAndReport, Finish, Kill, host
  <2>5. CASE HostCrash \/ RouterProvisioned \/ (\E d \in Domain : PowersOff(d)) \/ UNCHANGED vars
    BY <2>5 DEF HostCrash, RouterProvisioned, PowersOff, vars, host, D!vars
  <2>6. UNCHANGED <<overlay, defined>> => UNCHANGED D!vars
    BY DEF D!vars
  <2> QED
    BY <2>1, <2>2, <2>3, <2>4, <2>5, <2>6, NextCases DEF Locally
<1> QED
  BY <1>1, <1>2, TypeCorrect, PTL DEF Spec, ImplementsDisks, D!Spec

-----------------------------------------------------------------------------
(***************************************************************************)
(* A reconciliation is finite: the steps its call is from the end.  Each   *)
(* VM takes at most four, the router and the network nine, the end two.    *)
(***************************************************************************)
Ahead(v) == 4 * (N - v)

Rank(l, v) == CASE l = "idle" -> 0
                [] l = "return" -> 1
                [] l = "unlock" -> 2
                [] l \in {"start-vm", "disable-autostart-vm"} -> Ahead(v) + 3
                [] l = "vm-state" -> Ahead(v) + 4
                [] l = "autostart-vm" -> Ahead(v) + 5
                [] l = "ensure" -> Ahead(v) + 6
                [] l = "start-router" -> Ahead(0) + 3
                [] l = "router-state" -> Ahead(0) + 4
                [] l = "autostart-router" -> Ahead(0) + 5
                [] l = "define-router" -> Ahead(0) + 6
                [] l = "artifacts" -> Ahead(0) + 7
                [] l = "net-start" -> Ahead(0) + 8
                [] l = "net-info" -> Ahead(0) + 9
                [] l = "net-autostart" -> Ahead(0) + 10
                [] l = "net-define" -> Ahead(0) + 11

LEMMA RankFacts ==
  ASSUME NEW v
  PROVE /\ Rank("idle", v) = 0 /\ Rank("return", v) = 1 /\ Rank("unlock", v) = 2
        /\ Rank("start-vm", v) = Ahead(v) + 3 /\ Rank("disable-autostart-vm", v) = Ahead(v) + 3
        /\ Rank("vm-state", v) = Ahead(v) + 4 /\ Rank("autostart-vm", v) = Ahead(v) + 5
        /\ Rank("ensure", v) = Ahead(v) + 6
        /\ Rank("start-router", v) = Ahead(0) + 3 /\ Rank("router-state", v) = Ahead(0) + 4
        /\ Rank("autostart-router", v) = Ahead(0) + 5 /\ Rank("define-router", v) = Ahead(0) + 6
        /\ Rank("artifacts", v) = Ahead(0) + 7 /\ Rank("net-start", v) = Ahead(0) + 8
        /\ Rank("net-info", v) = Ahead(0) + 9 /\ Rank("net-autostart", v) = Ahead(0) + 10
        /\ Rank("net-define", v) = Ahead(0) + 11
BY DEF Rank

\* The rank of p's place, now and after a step.
ToGo(p) == Rank(pc[p], vm[p])

LEMMA RankPositive ==
  ASSUME TypeOK, NEW p \in Proc
  PROVE ToGo(p) \in Nat /\ (pc[p] # "idle" => ToGo(p) > 0)
<1>1. N \in Nat /\ vm[p] \in 0 .. N + 1 /\ (pc[p] \in VmSteps => vm[p] \in 1 .. N)
  BY ReconcileAssumption DEF TypeOK, Vm
<1>2. pc[p] \in {"idle", "unlock", "return"} \cup RunSteps \cup VmSteps
  BY DEF TypeOK
<1>3. CASE pc[p] \in VmSteps
  BY <1>1, <1>3, RankFacts DEF ToGo, Ahead, VmSteps
<1>4. CASE pc[p] \in RunSteps
  BY <1>1, <1>4, RankFacts DEF ToGo, Ahead, RunSteps
<1>5. CASE pc[p] \in {"idle", "unlock", "return"}
  BY <1>5, RankFacts DEF ToGo
<1> QED
  BY <1>2, <1>3, <1>4, <1>5

\* What going on costs.
LEMMA GotoRank ==
  ASSUME TypeOK, NEW p \in Proc, NEW l, Goto(p, l)
  PROVE pc'[p] = l /\ vm'[p] = vm[p]
BY DEF TypeOK, Goto

LEMMA ReturnRank ==
  ASSUME TypeOK, NEW p \in Proc, NEW r, Return(p, r)
  PROVE ToGo(p)' = 1
BY RankFacts DEF TypeOK, Return, ToGo

LEMMA AtVmRank ==
  ASSUME TypeOK, NEW p \in Proc, NEW v \in 0 .. N, AtVm(p, v + 1)
  PROVE ToGo(p)' \in Nat /\ ToGo(p)' <= Ahead(v) + 2
<1>1. N \in Nat
  BY ReconcileAssumption
<1>2. CASE v + 1 \in Vm
  <2>1. pc'[p] = "ensure" /\ vm'[p] = v + 1
    BY <1>2 DEF AtVm, TypeOK
  <2> QED
    BY <1>1, <2>1, RankFacts DEF ToGo, Ahead
<1>3. CASE v + 1 \notin Vm
  <2>1. pc'[p] = "unlock"
    BY <1>3 DEF AtVm, TypeOK
  <2> QED
    BY <1>1, <2>1, RankFacts DEF ToGo, Ahead
<1> QED
  BY <1>2, <1>3

\* Each step of a call is one nearer to its end.
LEMMA StepNears ==
  ASSUME TypeOK, NEW p \in Proc, Step(p)
  PROVE ToGo(p)' < ToGo(p)
<1>0. N \in Nat /\ 0 \in 0 .. N /\ Ahead(0) \in Nat
  BY ReconcileAssumption DEF Ahead
<1>1. RouterIsUp(p) => ToGo(p)' \in Nat /\ ToGo(p)' <= Ahead(0) + 2
  BY <1>0, AtVmRank DEF RouterIsUp
<1>2. \A r : Return(p, r) => ToGo(p)' = 1
  BY ReturnRank
<1>3. ASSUME NEW l, Goto(p, l) PROVE pc'[p] = l /\ vm'[p] = vm[p]
  BY <1>3, GotoRank
<1>4. CASE NetDefine(p) \/ NetAutostart(p) \/ NetInfo(p)
  BY <1>0, <1>2, <1>3, <1>4, RankFacts DEF NetDefine, NetAutostart, NetInfo, Abort, ToGo
<1>5. CASE NetStart(p) \/ RequireArtifacts(p) \/ DefineRouter(p) \/ AutostartRouter(p)
  BY <1>0, <1>2, <1>3, <1>5, RankFacts DEF NetStart, RequireArtifacts, DefineRouter,
                                           AutostartRouter, Abort, ToGo
<1>6. CASE RouterState(p) \/ StartRouter(p)
  <2>1. CASE RouterIsUp(p)
    BY <1>0, <1>1, <1>6, <2>1, RankFacts DEF RouterState, StartRouter, ToGo
  <2>2. CASE \E r : Return(p, r)
    BY <1>0, <1>2, <1>6, <2>2, RankFacts DEF RouterState, StartRouter, ToGo
  <2>3. CASE pc[p] = "router-state" /\ Goto(p, "start-router")
    BY <1>0, <1>3, <2>3, RankFacts DEF ToGo
  <2> QED
    BY <1>6, <2>1, <2>2, <2>3 DEF RouterState, StartRouter, Abort
<1>7. CASE Ensure(p) \/ AutostartVm(p) \/ VmState(p) \/ StartVm(p) \/ DisableAutostart(p)
  <2>0. pc[p] \in VmSteps /\ vm[p] \in Vm
    BY <1>7 DEF Ensure, AutostartVm, VmState, StartVm, DisableAutostart, VmSteps, TypeOK
  <2>1. vm[p] \in 0 .. N /\ Ahead(vm[p]) \in Nat /\ ToGo(p) \in Nat
    BY <1>0, <2>0, RankPositive DEF Ahead, Vm
  <2>2. CASE \E l : VmEnds(p, l)
    <3>1. ToGo(p)' \in Nat /\ ToGo(p)' <= Ahead(vm[p]) + 2
      BY <2>1, <2>2, AtVmRank DEF VmEnds
    <3>2. ToGo(p) >= Ahead(vm[p]) + 3
      BY <2>0, <2>1, RankFacts DEF VmSteps, ToGo
    <3> QED
      BY <2>1, <3>1, <3>2
  <2>3. CASE pc[p] = "ensure" /\ (Goto(p, "autostart-vm") \/ Goto(p, "disable-autostart-vm"))
    BY <1>3, <2>1, <2>3, RankFacts DEF ToGo
  <2>4. CASE pc[p] = "autostart-vm" /\ Goto(p, "vm-state")
    BY <1>3, <2>1, <2>4, RankFacts DEF ToGo
  <2>5. CASE pc[p] = "vm-state" /\ Goto(p, "start-vm")
    BY <1>3, <2>1, <2>5, RankFacts DEF ToGo
  <2> QED
    BY <1>7, <2>2, <2>3, <2>4, <2>5 DEF Ensure, AutostartVm, VmState, StartVm, DisableAutostart,
                                        VmFails
<1>8. CASE Finish(p)
  <2>1. pc[p] = "return" /\ pc'[p] = "idle"
    BY <1>8 DEF Finish, Vanish, TypeOK
  <2> QED
    BY <2>1, RankFacts DEF ToGo
<1>9. CASE UnlockAndReport(p)
  <2>1. pc[p] = "unlock" /\ pc'[p] = "return"
    BY <1>9 DEF UnlockAndReport, TypeOK
  <2> QED
    BY <2>1, RankFacts DEF ToGo
<1> QED
  BY <1>4, <1>5, <1>6, <1>7, <1>8, <1>9 DEF Step

\* A reconciliation takes at most 4 * N + 11 steps: each of its own brings it nearer to its
\* end, and nobody puts the end off, not another call, not a guest, not a fault.
THEOREM CallsAreFinite ==
  Spec => [][\A p \in Proc :
                 /\ Step(p) => ToGo(p)' < ToGo(p)
                 /\ pc[p] # "idle" => UNCHANGED <<pc[p], vm[p]>> \/ ToGo(p)' < ToGo(p)]_vars
<1> DEFINE Nears(p) == /\ Step(p) => ToGo(p)' < ToGo(p)
                       /\ pc[p] # "idle" => UNCHANGED <<pc[p], vm[p]>> \/ ToGo(p)' < ToGo(p)
<1>1. ASSUME TypeOK, [Next]_vars, NEW p \in Proc PROVE Nears(p)
  <2> SUFFICES ASSUME ~Step(p), pc[p] # "idle"
               PROVE UNCHANGED <<pc[p], vm[p]>> \/ ToGo(p)' < ToGo(p)
    BY <1>1, StepNears
  <2>0. ToGo(p) > 0
    BY <1>1, RankPositive
  <2>1. ASSUME NEW q \in Proc, Locally(q) PROVE UNCHANGED <<pc[p], vm[p]>>
    <3>1. q # p
      BY <2>1 DEF Locally, Step
    <3> QED
      BY <1>1, <2>1, <3>1, StepsGoOn DEF Locally, GoesOn, Goto, Return, Forget, RouterIsUp,
         VmEnds, AtVm,
                                         TypeOK
  <2>2. ASSUME NEW q \in Proc, Begin(q) PROVE UNCHANGED <<pc[p], vm[p]>>
    BY <1>1, <2>2 DEF Begin, TypeOK
  <2>3. ASSUME NEW q \in Proc, Finish(q) \/ Kill(q) \/ (UnlockAndReport(q) /\ q # p)
        PROVE UNCHANGED <<pc[p], vm[p]>> \/ ToGo(p)' = 0
    BY <1>1, <2>3, RankFacts DEF UnlockAndReport, Finish, Kill, Vanish, Forget, TypeOK, ToGo
  <2>4. CASE HostCrash
    BY <2>0, <2>4, RankFacts DEF HostCrash, ToGo
  <2>5. CASE RouterProvisioned \/ (\E d \in Domain : PowersOff(d)) \/ UNCHANGED vars
    BY <2>5 DEF RouterProvisioned, PowersOff, vars, process
  <2> QED
    BY <1>1, <2>0, <2>1, <2>2, <2>3, <2>4, <2>5, NextCases DEF Locally, Step
<1>2. TypeOK /\ [Next]_vars => [\A p \in Proc : Nears(p)]_vars
  BY <1>1
<1> QED
  BY <1>2, TypeCorrect, PTL DEF Spec

=============================================================================
