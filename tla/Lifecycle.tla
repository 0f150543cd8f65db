------------------------------ MODULE Lifecycle ------------------------------
(***************************************************************************)
(* The calls hostctl makes on ONE Android VM, one virsh command at a time: *)
(* bulk::run_one (VmLock, then status, start, stop or hibernate) and, with *)
(* no VmLock, the snapshot commands and the per-VM part of reconcile.      *)
(* A worker is a thread of some hostctl process that handles this VM.      *)
(* libvirt, the guest and the host are the environment.                    *)
(***************************************************************************)
EXTENDS Naturals

CONSTANTS
    Worker,      \* hostctl threads
    Content,     \* what the overlay disk can hold
    SnapName,    \* valid snapshot names
    None,        \* no lock holder, no image, no snapshot, no result
    MaxPolls,    \* bound: polls that fit in stop's timeout
    Autostart,   \* the VM's configured autostart
    Calls,       \* the calls in play
    Faults,      \* the faults in play
    Apart        \* the calls that are kept apart from every other call on the VM

LockedCalls == {"status", "start", "start_wait", "stop", "stop_force", "hibernate"}
SnapCalls == {"snap_create", "snap_revert", "snap_delete"}
AllCalls == LockedCalls \cup SnapCalls \cup {"reconcile"}
AllFaults == {"virsh", "kill", "orphan", "host_crash", "suspend"}

VmState == {"Running", "Stopped", "Hibernated"}

\* "paused" while libvirt saves the RAM.  "suspended" stands for the states a domain may
\* stay in: paused by hand or for want of disk space, pmsuspended, crashed.
DomState == {"running", "paused", "suspended", "in shutdown", "shut off"}
OnOrOff == {"running", "suspended", "shut off"}

Errors == {"Busy", "Virsh", "Unsupported", "HibernateStopped", "StopTimeout",
           "ReadinessTimeout", "NotStopped"}
Outcome == VmState \cup Errors \cup {"Done"}

ASSUME LifecycleAssumption ==
    /\ None \notin Worker \cup Content \cup Outcome
    /\ Content # {}
    /\ MaxPolls \in Nat
    /\ Autostart \in BOOLEAN
    /\ Apart \subseteq AllCalls
    /\ Calls \subseteq AllCalls
    /\ Faults \subseteq AllFaults

VARIABLES
    dom,     \* what virsh domstate reports
    saved,   \* disk content when RAM was saved, or None without a managed save
    disk,    \* content of the overlay disk
    snaps,   \* content of each internal snapshot, or None
    taken,   \* the domain's state in each: its RAM is there too, unless "shut off"
    auto,    \* libvirt's autostart flag of the domain
    lock,    \* the worker that holds <vm>.lock, or None
    pc,      \* where each worker is
    call,    \* the call it makes
    res,     \* the result it is about to return
    polls,   \* rounds of stop's wait loop so far
    alive    \* FALSE: hostctl was killed, the command it sent still runs

libvirt == <<dom, saved, disk, snaps, taken, auto>>
worker == <<pc, call, res, polls, alive>>
vars == <<libvirt, lock, worker>>

Commands == {"start", "managedsave", "managedsave-remove", "shutdown", "destroy",
             "autostart"} \cup SnapCalls
PC == {"idle", "domstate", "dominfo", "loop", "saving", "adb", "rc_domstate", "return"}
        \cup Commands

TypeOK == /\ dom \in DomState
          /\ saved \in Content \cup {None}
          /\ disk \in Content
          /\ snaps \in [SnapName -> Content \cup {None}]
          /\ taken \in [SnapName -> OnOrOff]
          /\ auto \in BOOLEAN
          /\ lock \in Worker \cup {None}
          /\ pc \in [Worker -> PC]
          /\ call \in [Worker -> AllCalls \cup {None}]
          /\ res \in [Worker -> Outcome \cup {None}]
          /\ polls \in [Worker -> 0 .. MaxPolls]
          /\ alive \in [Worker -> BOOLEAN]

Init == /\ dom = "shut off"
        /\ saved = None
        /\ disk \in Content
        /\ snaps = [n \in SnapName |-> None]
        /\ taken = [n \in SnapName |-> "shut off"]
        /\ auto = FALSE
        /\ lock = None
        /\ pc = [w \in Worker |-> "idle"]
        /\ call = [w \in Worker |-> None]
        /\ res = [w \in Worker |-> None]
        /\ polls = [w \in Worker |-> 0]
        /\ alive = [w \in Worker |-> TRUE]

-----------------------------------------------------------------------------
(* How a worker goes on.                                                   *)

Return(r) == [pc |-> "return", res |-> r]
Goto(p) == [pc |-> p, res |-> None]

\* The worker is gone, with everything it held in memory.
Vanish(w) == /\ pc' = [pc EXCEPT ![w] = "idle"]
             /\ call' = [call EXCEPT ![w] = None]
             /\ res' = [res EXCEPT ![w] = None]
             /\ polls' = [polls EXCEPT ![w] = 0]
             /\ alive' = [alive EXCEPT ![w] = TRUE]

\* A command of a live worker has returned; one of a killed worker has no reader.
Continue(w, step) ==
    \/ /\ alive[w]
       /\ pc' = [pc EXCEPT ![w] = step.pc]
       /\ res' = [res EXCEPT ![w] = step.res]
       /\ UNCHANGED <<call, polls, alive>>
    \/ /\ ~alive[w]
       /\ Vanish(w)

\* lifecycle::run returns Err: libvirt refuses the command, or it fails.
Fail(w, allowed) == /\ allowed => "virsh" \in Faults
                    /\ Continue(w, Return("Virsh"))
                    /\ UNCHANGED <<libvirt, lock>>

\* Faulty variants (here and below, each above the definition it gets wrong, none used
\* by it): require_stopped lets a hibernated or a running VM through.
IfNotRunning(step) == [Running |-> Return("NotStopped"), Hibernated |-> step, Stopped |-> step]
IfNotHibernated(step) == [Running |-> step, Hibernated |-> Return("NotStopped"), Stopped |-> step]

\* What each call does with the state that lifecycle::state reports.
IfStopped(step) == [Running |-> Return("NotStopped"), Hibernated |-> Return("NotStopped"),
                    Stopped |-> step]
StopOn == [Stopped |-> Return("Stopped"), Hibernated |-> Goto("managedsave-remove"),
           Running |-> Goto("shutdown")]
On == [status      |-> [s \in VmState |-> Return(s)],
       start       |-> [Running |-> Return("Running"), Stopped |-> Goto("start"),
                        Hibernated |-> Goto("start")],
       start_wait  |-> [Running |-> Goto("adb"), Stopped |-> Goto("start"),
                        Hibernated |-> Goto("start")],
       stop        |-> StopOn,
       stop_force  |-> StopOn,
       hibernate   |-> [Hibernated |-> Return("Hibernated"),
                        Stopped |-> Return("HibernateStopped"),
                        Running |-> Goto("managedsave")],
       snap_create |-> IfStopped(Goto("snap_create")),
       snap_revert |-> IfStopped(Goto("snap_revert")),
       snap_delete |-> IfStopped(Goto("snap_delete"))]

\* In stop's wait loop only Stopped ends the wait.
Handle(w, s) == IF polls[w] = 0 THEN On[call[w]][s]
                ELSE IF s = "Stopped" THEN Return(s) ELSE Goto("loop")

-----------------------------------------------------------------------------
(* A call begins and returns.                                              *)

\* A discipline of the operator, beside the locks: a call in Apart is made only while no
\* other command of hostctl is at work on the VM, and none is made meanwhile.
MayBegin(c) == \A u \in Worker : pc[u] = "idle" \/ {c, call[u]} \cap Apart = {}

\* reconcile.lock: at most one reconcile, whatever the VM.
Reconciling == \E u \in Worker : call[u] = "reconcile" /\ alive[u] /\ res[u] # "Busy"

\* Faulty: VmLock and reconcile.lock are never found taken.
FreeAlways(c) == TRUE

Free(c) == CASE c \in LockedCalls -> lock = None
             [] c = "reconcile" -> ~Reconciling
             [] OTHER -> TRUE

Begin(w, c) ==
    /\ pc[w] = "idle"
    /\ MayBegin(c)
    /\ call' = [call EXCEPT ![w] = c]
    /\ \/ /\ Free(c)
          /\ pc' = [pc EXCEPT ![w] = IF c = "reconcile" THEN "autostart" ELSE "domstate"]
          /\ lock' = IF c \in LockedCalls THEN w ELSE lock
          /\ UNCHANGED res
       \/ /\ ~Free(c)
          /\ pc' = [pc EXCEPT ![w] = "return"]
          /\ res' = [res EXCEPT ![w] = "Busy"]
          /\ UNCHANGED lock
    /\ UNCHANGED <<libvirt, polls, alive>>

Unlock(w) == lock' = IF lock = w THEN None ELSE lock

\* The result is handed to the caller and VmLock is dropped.
Finish(w) == /\ pc[w] = "return"
             /\ Vanish(w)
             /\ Unlock(w)
             /\ UNCHANGED libvirt

-----------------------------------------------------------------------------
(* lifecycle::state: two virsh commands, so another actor may come between. *)

ReadDomState(w) ==
    /\ pc[w] = "domstate"
    /\ \/ Fail(w, TRUE)
       \/ /\ Continue(w, CASE dom = "running" -> Handle(w, "Running")
                           [] dom = "shut off" -> Goto("dominfo")
                           [] OTHER -> Return("Unsupported"))
          /\ UNCHANGED <<libvirt, lock>>

\* Faulty: "shut off" alone is taken for Stopped.
ReadDomInfoUnread(w) ==
    /\ pc[w] = "dominfo"
    /\ Continue(w, Handle(w, "Stopped"))
    /\ UNCHANGED <<libvirt, lock>>

ReadDomInfo(w) ==
    /\ pc[w] = "dominfo"
    /\ \/ Fail(w, TRUE)
       \/ /\ Continue(w, Handle(w, IF saved # None THEN "Hibernated" ELSE "Stopped"))
          /\ UNCHANGED <<libvirt, lock>>

-----------------------------------------------------------------------------
(* The virsh commands of lifecycle.rs.                                     *)

\* A managed-save image is restored and consumed; without one the guest boots.
Start(w) ==
    /\ pc[w] = "start"
    /\ \/ Fail(w, dom = "shut off")
       \/ /\ dom = "shut off"
          /\ dom' = "running"
          /\ saved' = None
          /\ Continue(w, CASE call[w] = "start_wait" -> Goto("adb")
                           [] call[w] = "reconcile" -> Return("Done")
                           [] OTHER -> Return("Running"))
          /\ UNCHANGED <<disk, snaps, taken, auto, lock>>

\* wait_for_adb holds the lock; a connection needs a running guest.
WaitForAdb(w) ==
    /\ pc[w] = "adb"
    /\ \/ dom = "running" /\ Continue(w, Return("Running"))
       \/ Continue(w, Return("ReadinessTimeout"))
    /\ UNCHANGED <<libvirt, lock>>

\* libvirt pauses the guest while it writes RAM.
ManagedSave(w) ==
    /\ pc[w] = "managedsave"
    /\ \/ Fail(w, dom = "running")
       \/ /\ dom \in {"running", "suspended"}
          /\ dom' = "paused"
          /\ pc' = [pc EXCEPT ![w] = "saving"]
          /\ UNCHANGED <<saved, disk, snaps, taken, auto, lock, call, res, polls, alive>>

SaveEnds(w) ==
    /\ pc[w] = "saving"
    /\ \/ /\ dom = "paused"
          /\ dom' = "shut off"
          /\ saved' = disk
          /\ Continue(w, Return("Hibernated"))
       \/ /\ dom = "paused" => "virsh" \in Faults
          /\ IF dom = "paused" THEN dom' \in {"running", "suspended"} ELSE dom' = dom
          /\ Continue(w, Return("Virsh"))
          /\ UNCHANGED saved
    /\ UNCHANGED <<disk, snaps, taken, auto, lock>>

\* virsh also succeeds when there is no image to remove.
RemoveSaved(w) ==
    /\ pc[w] = "managedsave-remove"
    /\ \/ Fail(w, TRUE)
       \/ /\ saved' = None
          /\ Continue(w, Return("Stopped"))
          /\ UNCHANGED <<dom, disk, snaps, taken, auto, lock>>

\* The ACPI request itself changes nothing: the guest may ignore it.
Shutdown(w) ==
    /\ pc[w] = "shutdown"
    /\ \/ Fail(w, dom \notin {"shut off", "suspended"})
       \/ /\ dom # "shut off"
          /\ Continue(w, Goto("loop"))
          /\ UNCHANGED <<libvirt, lock>>

\* Faulty: the deadline is never looked at; it is set anew on every round.
PollForever(w) ==
    /\ pc[w] = "loop"
    /\ polls' = [polls EXCEPT ![w] = @ + 1]
    /\ pc' = [pc EXCEPT ![w] = "domstate"]
    /\ UNCHANGED <<libvirt, lock, call, res, alive>>

PollRestarted(w) ==
    /\ pc[w] = "loop"
    /\ polls' = [polls EXCEPT ![w] = 1]
    /\ pc' = [pc EXCEPT ![w] = "domstate"]
    /\ UNCHANGED <<libvirt, lock, call, res, alive>>

PollAgain(w) ==
    /\ pc[w] = "loop"
    /\ polls[w] < MaxPolls
    /\ polls' = [polls EXCEPT ![w] = @ + 1]
    /\ pc' = [pc EXCEPT ![w] = "domstate"]
    /\ UNCHANGED <<libvirt, lock, call, res, alive>>

\* Faulty: force_after_timeout is taken for granted, or overlooked.
DeadlineForces(w) ==
    /\ pc[w] = "loop"
    /\ Continue(w, Goto("destroy"))
    /\ UNCHANGED <<libvirt, lock>>

DeadlineGivesUp(w) ==
    /\ pc[w] = "loop"
    /\ Continue(w, Return("StopTimeout"))
    /\ UNCHANGED <<libvirt, lock>>

Deadline(w) ==
    /\ pc[w] = "loop"
    /\ Continue(w, IF call[w] = "stop_force" THEN Goto("destroy") ELSE Return("StopTimeout"))
    /\ UNCHANGED <<libvirt, lock>>

Destroy(w) ==
    /\ pc[w] = "destroy"
    /\ \/ Fail(w, dom # "shut off")
       \/ /\ dom # "shut off"
          /\ dom' = "shut off"
          /\ Continue(w, Return("Stopped"))
          /\ UNCHANGED <<saved, disk, snaps, taken, auto, lock>>

-----------------------------------------------------------------------------
(* The virsh commands of snapshot.rs, which may always fail: the name is    *)
(* taken, or is that of no snapshot.                                        *)

SnapshotReady == dom \in OnOrOff

CreateSnapshot(w) ==
    /\ pc[w] = "snap_create"
    /\ \/ Fail(w, FALSE)
       \/ /\ SnapshotReady
          /\ \E n \in SnapName : /\ snaps[n] = None
                                 /\ snaps' = [snaps EXCEPT ![n] = disk]
                                 /\ taken' = [taken EXCEPT ![n] = dom]
          /\ Continue(w, Return("Done"))
          /\ UNCHANGED <<dom, saved, disk, auto, lock>>

\* The domain comes back as it was when the snapshot was taken.
RevertSnapshot(w) ==
    /\ pc[w] = "snap_revert"
    /\ \/ Fail(w, FALSE)
       \/ /\ SnapshotReady
          /\ \E n \in SnapName : snaps[n] # None /\ disk' = snaps[n] /\ dom' = taken[n]
          /\ Continue(w, Return("Done"))
          /\ UNCHANGED <<saved, snaps, taken, auto, lock>>

DeleteSnapshot(w) ==
    /\ pc[w] = "snap_delete"
    /\ \/ Fail(w, FALSE)
       \/ /\ \E n \in SnapName : /\ snaps[n] # None
                                 /\ snaps' = [snaps EXCEPT ![n] = None]
                                 /\ taken' = [taken EXCEPT ![n] = "shut off"]
          /\ Continue(w, Return("Done"))
          /\ UNCHANGED <<dom, saved, disk, auto, lock>>

-----------------------------------------------------------------------------
(* The virsh commands of reconcile_vm, once the domain is defined.          *)

SetAutostart(w) ==
    /\ pc[w] = "autostart"
    /\ \/ Fail(w, TRUE)
       \/ /\ auto' = Autostart
          /\ Continue(w, IF Autostart THEN Goto("rc_domstate") ELSE Return("Done"))
          /\ UNCHANGED <<dom, saved, disk, snaps, taken, lock>>

\* Not lifecycle::state: anything but "running" is started.
ReconcileDomState(w) ==
    /\ pc[w] = "rc_domstate"
    /\ \/ Fail(w, TRUE)
       \/ /\ Continue(w, IF dom = "running" THEN Return("Done") ELSE Goto("start"))
          /\ UNCHANGED <<libvirt, lock>>

-----------------------------------------------------------------------------
(* The environment.                                                        *)

GuestWrites == /\ dom = "running"
               /\ disk' \in Content
               /\ UNCHANGED <<dom, saved, snaps, taken, auto, lock, worker>>

\* The guest powers itself off, asked by ACPI or not; QEMU exits later.
GuestShutsDown == /\ dom = "running"
                  /\ dom' = "in shutdown"
                  /\ UNCHANGED <<saved, disk, snaps, taken, auto, lock, worker>>

QemuExits == /\ dom = "in shutdown"
             /\ dom' = "shut off"
             /\ UNCHANGED <<saved, disk, snaps, taken, auto, lock, worker>>

\* The guest, its operator or a full disk takes the domain out of "running", for as long
\* as nobody wakes it.
GuestSuspends == /\ "suspend" \in Faults
                 /\ dom = "running"
                 /\ dom' = "suspended"
                 /\ UNCHANGED <<saved, disk, snaps, taken, auto, lock, worker>>

GuestWakes == /\ dom = "suspended"
              /\ dom' = "running"
              /\ UNCHANGED <<saved, disk, snaps, taken, auto, lock, worker>>

\* hostctl is killed: its flock is gone, a save that libvirt runs goes on, and a
\* virsh child that was not killed with it ("orphan") still sends its command.
Kill(w) == /\ "kill" \in Faults
           /\ pc[w] # "idle"
           /\ alive[w]
           /\ \/ /\ pc[w] # "saving"
                 /\ Vanish(w)
              \/ /\ pc[w] = "saving" \/ (pc[w] \in Commands /\ "orphan" \in Faults)
                 /\ alive' = [alive EXCEPT ![w] = FALSE]
                 /\ UNCHANGED <<pc, call, res, polls>>
           /\ Unlock(w)
           /\ UNCHANGED libvirt

\* The host goes down and comes up: libvirt starts an autostart domain, from its
\* managed-save image if there is one.
HostCrash == /\ "host_crash" \in Faults
             /\ dom' = IF auto THEN "running" ELSE "shut off"
             /\ saved' = IF auto THEN None ELSE saved
             /\ lock' = None
             /\ pc' = [w \in Worker |-> "idle"]
             /\ call' = [w \in Worker |-> None]
             /\ res' = [w \in Worker |-> None]
             /\ polls' = [w \in Worker |-> 0]
             /\ alive' = [w \in Worker |-> TRUE]
             /\ UNCHANGED <<disk, snaps, taken, auto>>

Environment == \/ GuestWrites \/ GuestShutsDown \/ QemuExits
               \/ GuestSuspends \/ GuestWakes \/ HostCrash

WorkerStep(w) ==
    \/ Finish(w) \/ ReadDomState(w) \/ ReadDomInfo(w)
    \/ Start(w) \/ WaitForAdb(w)
    \/ ManagedSave(w) \/ SaveEnds(w) \/ RemoveSaved(w)
    \/ Shutdown(w) \/ PollAgain(w) \/ Deadline(w) \/ Destroy(w)
    \/ CreateSnapshot(w) \/ RevertSnapshot(w) \/ DeleteSnapshot(w)
    \/ SetAutostart(w) \/ ReconcileDomState(w)

Next == \/ \E w \in Worker : \/ \E c \in Calls : Begin(w, c)
                             \/ WorkerStep(w)
                             \/ Kill(w)
        \/ Environment

Spec == Init /\ [][Next]_vars

\* Threads are scheduled, virsh and libvirt answer, and QEMU exits once the guest
\* is down.  Nothing is assumed of the guest, of callers or of faults.
FairSpec == Spec /\ (\A w \in Worker : WF_vars(WorkerStep(w))) /\ WF_vars(QemuExits)

-----------------------------------------------------------------------------
(* Properties.                                                             *)

\* A managed-save image exists only while the VM is off, and the disk is still the
\* one the saved RAM was using: the next start never pairs RAM with another disk.
\* This is why snapshot::require_stopped rejects Hibernated.
SavedMatchesDisk == saved # None => dom = "shut off" /\ saved = disk

\* When status, start, stop or hibernate reports Stopped or Hibernated, the VM is in
\* that state and stays in it until VmLock is dropped.
OutcomeTrue ==
    \A w \in Worker :
        pc[w] = "return" /\ res[w] \in {"Stopped", "Hibernated"} =>
            /\ dom = "shut off"
            /\ res[w] = "Hibernated" <=> saved # None

\* The snapshot list changes, and the disk changes other than by the guest's hand,
\* only while the VM is off and holds no saved RAM.
SnapshotsOnlyWhenStopped ==
    [][snaps' # snaps \/ (disk' # disk /\ ~GuestWrites) =>
        dom = "shut off" /\ saved = None]_vars

\* A guest, running or suspended, loses power without a shutdown of its own only to a host
\* crash or to a stop that was given force_after_timeout.
NoPowerCutUnlessForced ==
    [][dom' = "shut off" /\ dom \in {"running", "suspended"} =>
        HostCrash \/ \E w \in Worker : call[w] = "stop_force" /\ pc[w] = "destroy"]_vars

\* Every call returns, whatever virsh, the guest and the other callers do: the lock
\* is tried, never waited for, and stop's and wait_for_adb's loops end.
CallsReturn == \A w \in Worker : pc[w] # "idle" ~> pc[w] = "idle"

\* How many steps a call at point p of the code has before it at most, after k polls: stop
\* may come back from its loop to domstate as long as polls are left.
Rank(p, k) ==
    LET loop == 4 * (MaxPolls - k) + 4
    IN  CASE p = "idle" -> 0
          [] p = "return" -> 1
          [] p \in {"saving", "adb", "destroy", "managedsave-remove"} \cup SnapCalls -> 2
          [] p \in {"start", "managedsave"} -> 3
          [] p = "rc_domstate" -> 4
          [] p = "autostart" -> 5
          [] p = "loop" -> loop
          [] p = "shutdown" -> loop + 1
          [] p = "dominfo" -> loop + 2
          [] p = "domstate" -> loop + 3

\* Every step of a call brings its end nearer, and nobody puts the end off: not another
\* call, not the guest, not a fault.  There are at most 4 * MaxPolls + 7 steps to a call.
EachStepNearsTheEnd ==
    [][\A w \in Worker : pc[w] # "idle" =>
          \/ pc'[w] = pc[w] /\ polls'[w] = polls[w]
          \/ Rank(pc'[w], polls'[w]) < Rank(pc[w], polls[w])]_vars

\* A forced stop at work under VmLock turns the VM off, even when it reports an error because
\* it met the domain in the middle of a shutdown, unless the domain is suspended: then
\* lifecycle::state answers with an error and the `?` ends the call before it has any force.
ForcedStopTurnsOff ==
    \A w \in Worker : call[w] = "stop_force" /\ lock = w /\ res[w] = None
                         ~> dom \in {"shut off", "suspended"}

\* lifecycle::stop, once its ACPI request was sent, answers only with Stopped, with
\* StopTimeout or with virsh's own failure.
StopWaitsItOut ==
    \A w \in Worker : pc[w] = "return" /\ polls[w] > 0 =>
                          res[w] \in {"Stopped", "StopTimeout", "Virsh"}

\* The power state an operator sees: the guest is Running until it is off.
Power == IF dom # "shut off" THEN "Running"
         ELSE IF saved = None THEN "Stopped" ELSE "Hibernated"

Vm == INSTANCE AndroidVm WITH power <- Power

\* Under the locks, the interleavings and the faults in play, what happens to the VM
\* is a behaviour of AndroidVm.
ImplementsAndroidVm == Vm!Spec
=============================================================================
