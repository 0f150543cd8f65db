------------------------------ MODULE Reconcile ------------------------------
(***************************************************************************)
(* reconcile::run: bring the guest network, the router domain and then     *)
(* every configured VM to the state the configuration asks for, one virsh  *)
(* command at a time, under the global reconcile.lock.  Several hostctl    *)
(* processes may call it, each with the configuration it has loaded.       *)
(* Lifecycle and Provision have the VM-level detail of its last part; here *)
(* provision::ensure is one step.                                          *)
(***************************************************************************)
EXTENDS Naturals

CONSTANTS
    Proc,       \* hostctl processes
    N,          \* configured VMs, numbered in the order of the BTreeMap
    None,       \* no lock holder, no result, no line
    MaxFaults   \* bound: failed commands, kills and host crashes of a behaviour

ASSUME ReconcileAssumption == /\ None \notin Proc \cup {"done", "aborted", "busy", "ready", "ERROR"}
                              /\ N \in Nat
                              /\ MaxFaults \in Nat

Router == 0
Vm == 1 .. N
Domain == 0 .. N

VARIABLES
    net,        \* which of "defined", "active", "autostart" the guest network is
    artifacts,  \* do the router's disk and seed exist?
    overlay,    \* VMs with an overlay disk
    defined,    \* domains libvirt knows
    auto,       \* domains with libvirt's autostart flag
    up,         \* running domains
    left,       \* domains that powered off by themselves since their last start
    updates,    \* does libvirt take XML without <uuid> for a name it knows as an update?
    lock,       \* the process that holds reconcile.lock, or None
    pc,         \* where each process is
    want,       \* want[p]: the VMs with autostart in the configuration p loaded
    vm,         \* vm[p]: the VM p is at
    line,       \* line[p]: what p's report says of each VM, or None
    res,        \* res[p]: what run is about to return
    faults,     \* faults so far
    report      \* history: the last report, until a reconciliation has begun after it

host == <<net, artifacts, overlay, defined, auto, up, left, updates>>
process == <<pc, want, vm, line, res>>
vars == <<host, lock, process, faults, report>>

RunSteps == {"net-define", "net-autostart", "net-info", "net-start", "artifacts",
             "define-router", "autostart-router", "router-state", "start-router"}
VmSteps == {"ensure", "autostart-vm", "vm-state", "start-vm", "disable-autostart-vm"}
Lines == [Vm -> {None, "ready", "ERROR"}]
NoLines == [v \in Vm |-> None]

TypeOK == /\ net \subseteq {"defined", "active", "autostart"}
          /\ artifacts \in BOOLEAN
          /\ overlay \subseteq Vm
          /\ defined \subseteq Domain /\ auto \subseteq Domain
          /\ up \subseteq Domain /\ left \subseteq Domain
          /\ updates \in BOOLEAN
          /\ lock \in Proc \cup {None}
          /\ pc \in [Proc -> {"idle", "unlock", "return"} \cup RunSteps \cup VmSteps]
          /\ want \in [Proc -> SUBSET Vm]
          /\ vm \in [Proc -> 0 .. N + 1]
          /\ line \in [Proc -> Lines]
          /\ res \in [Proc -> {None, "done", "aborted", "busy"}]
          /\ faults \in 0 .. MaxFaults
          /\ report \in [want : SUBSET Vm, line : Lines] \cup {None}
          /\ \A p \in Proc : pc[p] \in VmSteps => vm[p] \in Vm

Init == /\ net = {}
        /\ artifacts \in BOOLEAN
        /\ overlay = {} /\ defined = {} /\ auto = {} /\ up = {} /\ left = {}
        /\ updates \in BOOLEAN
        /\ lock = None
        /\ pc = [p \in Proc |-> "idle"]
        /\ want = [p \in Proc |-> {}]
        /\ vm = [p \in Proc |-> 0]
        /\ line = [p \in Proc |-> NoLines]
        /\ res = [p \in Proc |-> None]
        /\ faults = 0
        /\ report = None

-----------------------------------------------------------------------------
(* How a process goes on.                                                  *)

Fault == faults < MaxFaults /\ faults' = faults + 1
NoFault == UNCHANGED faults

Goto(p, l) == pc' = [pc EXCEPT ![p] = l] /\ UNCHANGED <<lock, want, vm, line, res, report>>

\* run's own variables go as it returns; the report has what it needs of them.
Forget(p) == /\ want' = [want EXCEPT ![p] = {}]
             /\ vm' = [vm EXCEPT ![p] = 0]
             /\ line' = [line EXCEPT ![p] = NoLines]

\* The lock file is closed as run returns, with or without an unlock before.
Return(p, r) == /\ pc' = [pc EXCEPT ![p] = "return"]
                /\ res' = [res EXCEPT ![p] = r]
                /\ lock' = IF lock = p THEN None ELSE lock
                /\ Forget(p) /\ UNCHANGED report

\* A command of run itself fails: its `?` ends the whole reconciliation.
Abort(p) == Fault /\ Return(p, "aborted") /\ UNCHANGED host

\* Faulty (here and below, variants above the definition they get wrong, not used by
\* it): the loop does not see its end.
AtVmUnbounded(p, v) == /\ vm' = [vm EXCEPT ![p] = v]
                       /\ pc' = [pc EXCEPT ![p] = "ensure"]

\* The loop over config.vms goes to its next VM, or ends.
AtVm(p, v) == /\ vm' = [vm EXCEPT ![p] = v]
              /\ pc' = [pc EXCEPT ![p] = IF v \in Vm THEN "ensure" ELSE "unlock"]

\* Faulty: a VM that fails ends the loop.
VmEndsStops(p, l) == /\ line' = [line EXCEPT ![p][vm[p]] = l]
                     /\ IF l = "ERROR" THEN AtVm(p, N + 1) ELSE AtVm(p, vm[p] + 1)
                     /\ UNCHANGED <<lock, want, res, report>>

\* reconcile_vm returns: the report has a line for the VM, and the loop goes on.
VmEnds(p, l) == /\ line' = [line EXCEPT ![p][vm[p]] = l]
                /\ AtVm(p, vm[p] + 1)
                /\ UNCHANGED <<lock, want, res, report>>

VmFails(p) == Fault /\ VmEnds(p, "ERROR") /\ UNCHANGED host

-----------------------------------------------------------------------------
(* The call, and the network.                                              *)

\* Faulty: reconcile.lock is not tried.
LockIgnored(p) == FALSE

\* try_lock_exclusive: the call fails at once when another holds the lock.
LockBusy(p) == lock # None

Begin(p) == /\ pc[p] = "idle"
            /\ \/ /\ ~LockBusy(p)
                  /\ lock' = p /\ report' = None
                  /\ pc' = [pc EXCEPT ![p] = "net-define"]
                  /\ \E w \in SUBSET Vm : want' = [want EXCEPT ![p] = w]
                  /\ UNCHANGED res
               \/ /\ LockBusy(p)
                  /\ pc' = [pc EXCEPT ![p] = "return"]
                  /\ res' = [res EXCEPT ![p] = "busy"]
                  /\ UNCHANGED <<lock, want, report>>
            /\ NoFault
            /\ UNCHANGED <<host, vm, line>>

\* A name that libvirt knows may be refused to XML that carries no <uuid>.
Refused(known) == known /\ ~updates

NetDefine(p) == /\ pc[p] = "net-define"
                /\ \/ Abort(p)
                   \/ /\ Refused("defined" \in net)
                      /\ Return(p, "aborted") /\ NoFault /\ UNCHANGED host
                   \/ /\ ~Refused("defined" \in net)
                      /\ net' = net \cup {"defined"}
                      /\ Goto(p, "net-autostart") /\ NoFault
                      /\ UNCHANGED <<artifacts, overlay, defined, auto, up, left, updates>>

NetAutostart(p) == /\ pc[p] = "net-autostart"
                   /\ \/ Abort(p)
                      \/ /\ net' = net \cup {"autostart"}
                         /\ Goto(p, "net-info") /\ NoFault
                         /\ UNCHANGED <<artifacts, overlay, defined, auto, up, left, updates>>

\* Faulty: the network is started without a look at it.
NetInfoUnread(p) == /\ pc[p] = "net-info"
                    /\ Abort(p) \/ (Goto(p, "net-start") /\ NoFault /\ UNCHANGED host)

NetInfo(p) == /\ pc[p] = "net-info"
              /\ \/ Abort(p)
                 \/ /\ Goto(p, IF "active" \in net THEN "artifacts" ELSE "net-start")
                    /\ NoFault /\ UNCHANGED host

NetStart(p) == /\ pc[p] = "net-start"
               /\ \/ Abort(p)
                  \/ /\ "active" \notin net
                     /\ net' = net \cup {"active"}
                     /\ Goto(p, "artifacts") /\ NoFault
                     /\ UNCHANGED <<artifacts, overlay, defined, auto, up, left, updates>>
                  \/ /\ "active" \in net
                     /\ Return(p, "aborted") /\ NoFault /\ UNCHANGED host

-----------------------------------------------------------------------------
(* The router domain.                                                      *)

RequireArtifacts(p) == /\ pc[p] = "artifacts"
                       /\ IF artifacts THEN Goto(p, "define-router") ELSE Return(p, "aborted")
                       /\ NoFault /\ UNCHANGED host

DefineRouter(p) == /\ pc[p] = "define-router"
                   /\ \/ Abort(p)
                      \/ /\ Refused(Router \in defined)
                         /\ Return(p, "aborted") /\ NoFault /\ UNCHANGED host
                      \/ /\ ~Refused(Router \in defined)
                         /\ defined' = defined \cup {Router}
                         /\ Goto(p, "autostart-router") /\ NoFault
                         /\ UNCHANGED <<net, artifacts, overlay, auto, up, left, updates>>

AutostartRouter(p) == /\ pc[p] = "autostart-router"
                      /\ \/ Abort(p)
                         \/ /\ auto' = auto \cup {Router}
                            /\ Goto(p, "router-state") /\ NoFault
                            /\ UNCHANGED <<net, artifacts, overlay, defined, up, left, updates>>

\* The VMs come after the router; config.vms is never empty, but nothing here needs it.
RouterIsUp(p) == AtVm(p, 1) /\ UNCHANGED <<lock, want, line, res, report>>

RouterState(p) == /\ pc[p] = "router-state"
                  /\ \/ Abort(p)
                     \/ /\ IF Router \in up THEN RouterIsUp(p) ELSE Goto(p, "start-router")
                        /\ NoFault /\ UNCHANGED host

\* virsh start: a domain that runs, or whose network is not active, is not started.
Boot(d) == /\ d \notin up /\ "active" \in net
           /\ up' = up \cup {d}
           /\ left' = left \ {d}
           /\ UNCHANGED <<net, artifacts, overlay, defined, auto, updates>>

\* Faulty: a router that does not start is put up with.
StartRouterTolerant(p) == /\ pc[p] = "start-router"
                          /\ \/ Fault /\ RouterIsUp(p) /\ UNCHANGED host
                             \/ Boot(Router) /\ RouterIsUp(p) /\ NoFault

StartRouter(p) == /\ pc[p] = "start-router"
                  /\ \/ Abort(p)
                     \/ Boot(Router) /\ RouterIsUp(p) /\ NoFault
                     \/ /\ Router \in up \/ "active" \notin net
                        /\ Return(p, "aborted") /\ NoFault /\ UNCHANGED host

-----------------------------------------------------------------------------
(* reconcile_vm.                                                           *)

\* Faulty: every VM is created, one that has its overlay too.
EnsureCreates(p) == /\ pc[p] = "ensure"
                    /\ \/ VmFails(p)
                       \/ /\ vm[p] \in overlay
                          /\ VmEnds(p, "ERROR") /\ NoFault /\ UNCHANGED host
                       \/ /\ vm[p] \notin overlay
                          /\ overlay' = overlay \cup {vm[p]}
                          /\ defined' = defined \cup {vm[p]}
                          /\ Goto(p, IF vm[p] \in want[p] THEN "autostart-vm"
                                     ELSE "disable-autostart-vm")
                          /\ NoFault /\ UNCHANGED <<net, artifacts, auto, up, left, updates>>

\* Faulty: the domain is defined before its overlay is there.
EnsureDefinesFirst(p) == /\ pc[p] = "ensure"
                         /\ \/ VmFails(p)
                            \/ /\ defined' = defined \cup {vm[p]}
                               /\ Fault /\ VmEnds(p, "ERROR")
                               /\ UNCHANGED <<net, artifacts, overlay, auto, up, left, updates>>
                            \/ /\ overlay' = overlay \cup {vm[p]}
                               /\ defined' = defined \cup {vm[p]}
                               /\ Goto(p, IF vm[p] \in want[p] THEN "autostart-vm"
                                          ELSE "disable-autostart-vm")
                               /\ NoFault /\ UNCHANGED <<net, artifacts, auto, up, left, updates>>

\* provision::ensure: creates what is missing, defines the domain (again).  A failed
\* one may leave a new overlay without its domain.
Ensure(p) == /\ pc[p] = "ensure"
             /\ \/ VmFails(p)
                \/ /\ Refused(vm[p] \in defined)
                   /\ VmEnds(p, "ERROR") /\ NoFault /\ UNCHANGED host
                \/ /\ vm[p] \notin overlay
                   /\ overlay' = overlay \cup {vm[p]}
                   /\ Fault /\ VmEnds(p, "ERROR")
                   /\ UNCHANGED <<net, artifacts, defined, auto, up, left, updates>>
                \/ /\ ~Refused(vm[p] \in defined)
                   /\ overlay' = overlay \cup {vm[p]}
                   /\ defined' = defined \cup {vm[p]}
                   /\ Goto(p, IF vm[p] \in want[p] THEN "autostart-vm"
                              ELSE "disable-autostart-vm")
                   /\ NoFault /\ UNCHANGED <<net, artifacts, auto, up, left, updates>>

AutostartVm(p) == /\ pc[p] = "autostart-vm"
                  /\ \/ VmFails(p)
                     \/ /\ auto' = auto \cup {vm[p]}
                        /\ Goto(p, "vm-state") /\ NoFault
                        /\ UNCHANGED <<net, artifacts, overlay, defined, up, left, updates>>

VmState(p) == /\ pc[p] = "vm-state"
              /\ \/ VmFails(p)
                 \/ /\ IF vm[p] \in up THEN VmEnds(p, "ready") ELSE Goto(p, "start-vm")
                    /\ NoFault /\ UNCHANGED host

StartVm(p) == /\ pc[p] = "start-vm"
              /\ \/ VmFails(p)
                 \/ Boot(vm[p]) /\ VmEnds(p, "ready") /\ NoFault
                 \/ /\ vm[p] \in up \/ "active" \notin net
                    /\ VmEnds(p, "ERROR") /\ NoFault /\ UNCHANGED host

\* Faulty: a VM that is not to start at boot keeps the flag it has.
DisableAutostartNot(p) == /\ pc[p] = "disable-autostart-vm"
                          /\ VmEnds(p, "ready") /\ NoFault /\ UNCHANGED host

DisableAutostart(p) == /\ pc[p] = "disable-autostart-vm"
                       /\ \/ VmFails(p)
                          \/ /\ auto' = auto \ {vm[p]}
                             /\ VmEnds(p, "ready") /\ NoFault
                             /\ UNCHANGED <<net, artifacts, overlay, defined, up, left, updates>>

-----------------------------------------------------------------------------
(* The call returns; faults; the environment.                              *)

\* The report is complete.  From here on another reconciliation may begin, before p has
\* printed its report or set its exit code.
UnlockAndReport(p) == /\ pc[p] = "unlock"
                      /\ report' = [want |-> want[p], line |-> line[p]]
                      /\ pc' = [pc EXCEPT ![p] = "return"]
                      /\ res' = [res EXCEPT ![p] = "done"]
                      /\ lock' = None
                      /\ Forget(p) /\ NoFault /\ UNCHANGED host

\* The process is gone, its open lock file too.
Vanish(p) == /\ pc' = [pc EXCEPT ![p] = "idle"]
             /\ res' = [res EXCEPT ![p] = None]
             /\ lock' = IF lock = p THEN None ELSE lock
             /\ Forget(p) /\ UNCHANGED report

\* hostctl prints, and sets the exit code.
Finish(p) == pc[p] = "return" /\ Vanish(p) /\ NoFault /\ UNCHANGED host

Kill(p) == pc[p] # "idle" /\ Vanish(p) /\ Fault /\ UNCHANGED host

\* libvirt starts what has its autostart flag, networks before domains.
HostCrash == /\ Fault
             /\ net' = IF "autostart" \in net THEN net \cup {"active"} ELSE net \ {"active"}
             /\ up' = IF "autostart" \in net THEN auto \cap defined ELSE {}
             /\ left' = left \ auto
             /\ UNCHANGED <<artifacts, overlay, defined, auto, updates, report>>
             /\ lock' = None
             /\ pc' = [p \in Proc |-> "idle"]
             /\ want' = [p \in Proc |-> {}]
             /\ vm' = [p \in Proc |-> 0]
             /\ line' = [p \in Proc |-> NoLines]
             /\ res' = [p \in Proc |-> None]

\* router-provision.sh makes the router's disk and seed.
RouterProvisioned == /\ ~artifacts
                     /\ artifacts' = TRUE
                     /\ NoFault
                     /\ UNCHANGED <<net, overlay, defined, auto, up, left, updates, lock, process,
                                    report>>

\* A guest powers itself off.
PowersOff(d) == /\ d \in up
                /\ up' = up \ {d}
                /\ left' = left \cup {d}
                /\ NoFault
                /\ UNCHANGED <<net, artifacts, overlay, defined, auto, updates, lock, process,
                               report>>

Step(p) ==
    \/ NetDefine(p) \/ NetAutostart(p) \/ NetInfo(p) \/ NetStart(p)
    \/ RequireArtifacts(p) \/ DefineRouter(p) \/ AutostartRouter(p)
    \/ RouterState(p) \/ StartRouter(p)
    \/ Ensure(p) \/ AutostartVm(p) \/ VmState(p) \/ StartVm(p) \/ DisableAutostart(p)
    \/ UnlockAndReport(p) \/ Finish(p)

Next == \/ \E p \in Proc : Begin(p) \/ Step(p) \/ Kill(p)
        \/ HostCrash \/ RouterProvisioned
        \/ \E d \in Domain : PowersOff(d)

Spec == Init /\ [][Next]_vars

\* A call that has begun goes on; virsh answers.
FairSpec == Spec /\ \A p \in Proc : WF_vars(Step(p))

-----------------------------------------------------------------------------
(* Properties.                                                             *)

\* What a reconciliation reports is so when it lets go of the lock, and stays so until
\* another one has the lock, also when the host crashes and long after the process has
\* ended: the network is set up, the router and every VM reported ready are as the
\* reporting process's configuration asks.  Only a domain may have powered off since.
ReportTrue ==
    report # None =>
        /\ net = {"defined", "active", "autostart"}
        /\ Router \in defined \cap auto /\ Router \in up \cup left
        /\ \A v \in Vm : report.line[v] = "ready" =>
              /\ v \in overlay /\ v \in defined
              /\ v \in auto <=> v \in report.want
              /\ v \in report.want => v \in up \cup left

\* A VM that fails keeps no later one from being tried: each has its line.
EveryVmTried == report # None => \A v \in Vm : report.line[v] # None

\* reconcile starts the router, and a VM only after it has seen or made the router run.
RouterFirst ==
    [][\A v \in Vm : v \in up' \ up =>
          HostCrash \/ (Router \in up \cup left /\ "active" \in net)]_vars

\* A host that restarts at any time after a report, while no other reconciliation has
\* begun, comes up with the router and exactly the VMs that were to start at boot, of
\* those reported ready.
RebootKeepsReport ==
    [][HostCrash /\ report # None =>
          /\ Router \in up'
          /\ \A v \in Vm : report.line[v] = "ready" => (v \in up' <=> v \in report.want)]_vars

\* Why a reconciliation is cut short, or a VM given up: a command fails of itself, the
\* router's files are missing, or libvirt refuses a name that it knows.  Nothing else that
\* earlier calls, faults, reboots and guests leave behind makes a command fail, as long as
\* nobody but reconcile starts domains (Lifecycle's calls may, between a look and a start).
FailuresHaveCauses ==
    [][\A p \in Proc :
          /\ res'[p] = "aborted" /\ res[p] # "aborted" =>
                 \/ faults' > faults \/ ~artifacts
                 \/ Refused("defined" \in net \/ Router \in defined)
          /\ \A v \in Vm : line'[p][v] = "ERROR" /\ line[p][v] # "ERROR" =>
                 faults' > faults \/ Refused(v \in defined)]_vars

D == INSTANCE Disks WITH disks <- overlay, domains <- defined \ {Router}

\* The whole reconciliation, provision::ensure as one step included, keeps what Disks
\* promises; Provision has that step's system calls and keeps it too.
ImplementsDisks == D!Spec

\* With a libvirt that updates what it knows: whatever failed commands, kills and crashes
\* have left behind, the next reconciliation that nothing disturbs succeeds for every VM,
\* once the router's files are there.  Otherwise only where nothing is defined yet.
Recovers ==
    \A p \in Proc :
        /\ pc[p] = "net-define" /\ artifacts /\ faults = MaxFaults
        /\ ~Refused("defined" \in net \/ defined # {})
        ~> /\ pc[p] = "return" /\ report # None
           /\ \A v \in Vm : report.line[v] = "ready"
=============================================================================
