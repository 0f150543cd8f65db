--------------------------- MODULE LifecycleProofs ---------------------------
(***************************************************************************)
(* Theorems about Lifecycle for every set of workers, disk contents and    *)
(* snapshot names, every timeout, and every choice of calls and faults.    *)
(***************************************************************************)
EXTENDS Lifecycle, TLAPS

\* The steps of the guest, and of QEMU at its end.
GuestStep == GuestWrites \/ GuestShutsDown \/ QemuExits \/ GuestSuspends \/ GuestWakes

-----------------------------------------------------------------------------
(* Typing.  TypeOK is not inductive: what a worker does with a state it     *)
(* read depends on which call it is making, so each point of the code has   *)
(* to know its possible calls.                                             *)

StateCalls == LockedCalls \cup SnapCalls
StopCalls == {"stop", "stop_force"}

\* The calls c that can be at point p of the code.
Fits(p, c) ==
    /\ p \in {"domstate", "dominfo"} => c \in StateCalls
    /\ p \in {"managedsave", "saving"} => c = "hibernate"
    /\ p \in {"managedsave-remove", "shutdown", "loop"} => c \in StopCalls
    /\ p = "destroy" => c = "stop_force"
    /\ p = "adb" => c = "start_wait"
    /\ p = "start" => c \in {"start", "start_wait", "reconcile"}
    /\ p \in SnapCalls => c = p
    /\ p \in {"autostart", "rc_domstate"} => c = "reconcile"
    /\ p # "idle" => c \in AllCalls

CallFits == \A w \in Worker : /\ Fits(pc[w], call[w])
                              /\ polls[w] # 0 => call[w] \in StopCalls
                              /\ pc[w] = "idle" => polls[w] = 0

WorkerTypes == /\ pc \in [Worker -> PC]
               /\ call \in [Worker -> AllCalls \cup {None}]
               /\ res \in [Worker -> Outcome \cup {None}]
               /\ polls \in [Worker -> 0 .. MaxPolls]
               /\ alive \in [Worker -> BOOLEAN]
               /\ CallFits

Typing == TypeOK /\ CallFits

\* The bound on polls is a number, and a new call has not polled yet.
LEMMA PollBound == MaxPolls \in Nat /\ 0 \in 0 .. MaxPolls
<1>1. MaxPolls \in Nat
  BY LifecycleAssumption
<1> QED BY <1>1

\* The configured autostart is a Boolean.
LEMMA AutostartBoolean == Autostart \in BOOLEAN
BY LifecycleAssumption

\* What the callers of lifecycle::state do next, in terms of the state they were told.
LEMMA HandleFacts ==
    ASSUME NEW w \in Worker, NEW s \in VmState, call[w] \in StateCalls,
           polls[w] # 0 => call[w] \in StopCalls
    PROVE  /\ Handle(w, s).pc \in PC \ {"idle", "domstate", "dominfo", "saving", "destroy"}
           /\ Handle(w, s).res \in Outcome \cup {None}
           /\ Fits(Handle(w, s).pc, call[w])
           /\ Handle(w, s).pc \in SnapCalls => s = "Stopped"
           /\ Handle(w, s).res \in {"Stopped", "Hibernated"} => s = Handle(w, s).res
           /\ Handle(w, s).pc = "managedsave-remove" => s = "Hibernated"
           /\ Handle(w, s).res # "Busy"
<1> USE LifecycleAssumption
    DEF StateCalls, LockedCalls, SnapCalls, StopCalls, AllCalls, VmState, Outcome, Errors,
        PC, Commands, Return, Goto, IfStopped, StopOn, Fits
<1>1. CASE polls[w] # 0
  BY <1>1 DEF Handle
<1>2. CASE polls[w] = 0
  <2>1. CASE call[w] = "status"
    BY <1>2, <2>1 DEF Handle, On
  <2>2. CASE call[w] = "start"
    BY <1>2, <2>2 DEF Handle, On
  <2>3. CASE call[w] = "start_wait"
    BY <1>2, <2>3 DEF Handle, On
  <2>4. CASE call[w] \in StopCalls
    BY <1>2, <2>4 DEF Handle, On
  <2>5. CASE call[w] = "hibernate"
    BY <1>2, <2>5 DEF Handle, On
  <2>6. CASE call[w] \in SnapCalls
    BY <1>2, <2>6 DEF Handle, On
  <2> QED BY <2>1, <2>2, <2>3, <2>4, <2>5, <2>6
<1> QED BY <1>1, <1>2

\* A worker that vanishes leaves the others as they were.
LEMMA VanishTypes ==
    ASSUME Typing, NEW w \in Worker, Vanish(w)
    PROVE  WorkerTypes'
BY PollBound
DEF Vanish, Typing, TypeOK, WorkerTypes, CallFits, Fits, PC, Commands, SnapCalls

\* A worker that goes on with a well-typed step keeps every worker well typed.
LEMMA ContinueTypes ==
    ASSUME Typing, NEW w \in Worker, NEW step, Continue(w, step),
           step.pc \in PC \ {"idle"}, step.res \in Outcome \cup {None}, Fits(step.pc, call[w])
    PROVE  WorkerTypes'
<1>1. CASE alive[w]
  BY <1>1 DEF Continue, Typing, TypeOK, WorkerTypes, CallFits
<1>2. CASE ~alive[w]
  BY <1>2, VanishTypes DEF Continue
<1> QED BY <1>1, <1>2

\* A failed command changes nothing but the worker that sent it.
LEMMA FailTypes ==
    ASSUME Typing, NEW w \in Worker, NEW allowed, Fail(w, allowed), pc[w] # "idle"
    PROVE  Typing'
<1>1. Fits("return", call[w])
  BY DEF Typing, CallFits, Fits, SnapCalls
<1>2. WorkerTypes'
  BY <1>1, ContinueTypes DEF Fail, Return, PC, Outcome, Errors
<1> QED BY <1>2 DEF Fail, libvirt, Typing, TypeOK, WorkerTypes

\* An idle worker makes no call.
LEMMA IdleFits == \A c : Fits("idle", c)
BY DEF Fits, SnapCalls

\* Every variable has its type at first.
LEMMA InitTyping == Init => Typing
<1> SUFFICES ASSUME Init PROVE Typing
  OBVIOUS
<1>1. TypeOK
  BY PollBound DEF Init, TypeOK, DomState, OnOrOff, PC, Commands
<1>2. CallFits
  BY IdleFits DEF Init, CallFits
<1> QED BY <1>1, <1>2 DEF Typing

\* Every step keeps the types, action by action.
LEMMA NextTyping == Typing /\ [Next]_vars => Typing'
<1> SUFFICES ASSUME Typing, [Next]_vars PROVE Typing'
  OBVIOUS
<1>1. ASSUME NEW w \in Worker, NEW c \in Calls, Begin(w, c) PROVE Typing'
  <2>1. c \in AllCalls
    BY LifecycleAssumption
  <2>2. /\ Fits("return", c) /\ Fits("autostart", "reconcile")
        /\ c # "reconcile" => Fits("domstate", c)
    BY <2>1 DEF Fits, AllCalls, StateCalls, SnapCalls
  <2>3. TypeOK'
    BY <1>1, <2>1 DEF Begin, libvirt, Typing, TypeOK, PC, Commands, Outcome, Errors
  <2>4. ASSUME NEW u \in Worker
        PROVE  /\ Fits(pc[u], call[u])'
               /\ (polls[u] # 0 => call[u] \in StopCalls)'
               /\ (pc[u] = "idle" => polls[u] = 0)'
    <3>1. CASE u = w
      BY <1>1, <2>2, <3>1 DEF Begin, Typing, TypeOK, CallFits
    <3>2. CASE u # w
      BY <1>1, <3>2 DEF Begin, Typing, TypeOK, CallFits
    <3> QED BY <3>1, <3>2
  <2> QED BY <2>3, <2>4 DEF Typing, CallFits
<1>2. ASSUME NEW w \in Worker, WorkerStep(w) PROVE Typing'
  <2> USE DEF Return, Goto, PC, Commands, Outcome, Errors, VmState, SnapCalls, AllCalls,
              LockedCalls, StateCalls, StopCalls
  <2>0. Fits("return", call[w]) <=> call[w] \in AllCalls
    BY DEF Fits
  <2>1. CASE Finish(w)
    BY <2>1, VanishTypes DEF Finish, Unlock, libvirt, Typing, TypeOK, WorkerTypes
  <2>2. CASE ReadDomState(w)
    <3>1. call[w] \in StateCalls /\ (polls[w] # 0 => call[w] \in StopCalls)
      BY <2>2 DEF ReadDomState, Typing, CallFits, Fits
    <3>2. CASE Fail(w, TRUE)
      BY <2>2, <3>2, FailTypes DEF ReadDomState
    <3>3. CASE ~Fail(w, TRUE)
      <4> DEFINE step == CASE dom = "running" -> Handle(w, "Running")
                           [] dom = "shut off" -> Goto("dominfo")
                           [] OTHER -> Return("Unsupported")
      <4>1. Continue(w, step) /\ UNCHANGED <<libvirt, lock>>
        BY <2>2, <3>3 DEF ReadDomState
      <4>2. step.pc \in PC \ {"idle"} /\ step.res \in Outcome \cup {None} /\ Fits(step.pc, call[w])
        BY <3>1, HandleFacts DEF Fits
      <4> HIDE DEF step
      <4>3. WorkerTypes'
        BY <4>1, <4>2, ContinueTypes
      <4> QED BY <4>1, <4>3 DEF libvirt, Typing, TypeOK, WorkerTypes
    <3> QED BY <3>2, <3>3
  <2>3. CASE ReadDomInfo(w)
    <3>1. call[w] \in StateCalls /\ (polls[w] # 0 => call[w] \in StopCalls)
      BY <2>3 DEF ReadDomInfo, Typing, CallFits, Fits
    <3>2. CASE Fail(w, TRUE)
      BY <2>3, <3>2, FailTypes DEF ReadDomInfo
    <3>3. CASE ~Fail(w, TRUE)
      <4> DEFINE s == IF saved # None THEN "Hibernated" ELSE "Stopped"
      <4>1. Continue(w, Handle(w, s)) /\ UNCHANGED <<libvirt, lock>>
        BY <2>3, <3>3 DEF ReadDomInfo
      <4>2. s \in VmState
        OBVIOUS
      <4> HIDE DEF s
      <4>3. WorkerTypes'
        BY <3>1, <4>1, <4>2, HandleFacts, ContinueTypes
      <4> QED BY <4>1, <4>3 DEF libvirt, Typing, TypeOK, WorkerTypes
    <3> QED BY <3>2, <3>3
  <2>4. CASE Start(w)
    <3>1. CASE Fail(w, dom = "shut off")
      BY <2>4, <3>1, FailTypes DEF Start
    <3>2. CASE ~Fail(w, dom = "shut off")
      <4> DEFINE step == CASE call[w] = "start_wait" -> Goto("adb")
                           [] call[w] = "reconcile" -> Return("Done")
                           [] OTHER -> Return("Running")
      <4>1. /\ dom' = "running" /\ saved' = None /\ UNCHANGED <<disk, snaps, taken, auto, lock>>
            /\ Continue(w, step)
        BY <2>4, <3>2 DEF Start
      <4>2. step.pc \in PC \ {"idle"} /\ step.res \in Outcome \cup {None} /\ Fits(step.pc, call[w])
        BY <2>4 DEF Start, Typing, CallFits, Fits
      <4> HIDE DEF step
      <4>3. WorkerTypes'
        BY <4>1, <4>2, ContinueTypes
      <4> QED BY <4>1, <4>3 DEF DomState, Typing, TypeOK, WorkerTypes
    <3> QED BY <3>1, <3>2
  <2>5. CASE WaitForAdb(w)
    BY <2>5, <2>0, ContinueTypes DEF WaitForAdb, libvirt, Typing, TypeOK, WorkerTypes, CallFits,
       Fits
  <2>6. CASE ManagedSave(w)
    <3>1. CASE Fail(w, dom = "running")
      BY <2>6, <3>1, FailTypes DEF ManagedSave
    <3>2. CASE ~Fail(w, dom = "running")
      <4>1. TypeOK'
        BY <2>6, <3>2 DEF ManagedSave, DomState, Typing, TypeOK
      <4>2. Fits("saving", call[w])
        BY <2>6 DEF ManagedSave, Typing, CallFits, Fits
      <4>3. CallFits'
        BY <2>6, <3>2, <4>2 DEF ManagedSave, Typing, TypeOK, CallFits
      <4> QED BY <4>1, <4>3 DEF Typing
    <3> QED BY <3>1, <3>2
  <2>7. CASE SaveEnds(w)
    <3>1. WorkerTypes'
      BY <2>7, <2>0, ContinueTypes DEF SaveEnds, Typing, CallFits, Fits
    <3> QED BY <2>7, <3>1 DEF SaveEnds, DomState, Typing, TypeOK, WorkerTypes
  <2>8. CASE RemoveSaved(w)
    <3>1. CASE Fail(w, TRUE)
      BY <2>8, <3>1, FailTypes DEF RemoveSaved
    <3>2. CASE ~Fail(w, TRUE)
      <4>1. WorkerTypes'
        BY <2>8, <3>2, <2>0, ContinueTypes DEF RemoveSaved, Typing, CallFits, Fits
      <4> QED BY <2>8, <3>2, <4>1 DEF RemoveSaved, Typing, TypeOK, WorkerTypes
    <3> QED BY <3>1, <3>2
  <2>9. CASE Shutdown(w)
    <3>1. CASE Fail(w, dom \notin {"shut off", "suspended"})
      BY <2>9, <3>1, FailTypes DEF Shutdown
    <3>2. CASE ~Fail(w, dom \notin {"shut off", "suspended"})
      <4>1. Fits("loop", call[w])
        BY <2>9 DEF Shutdown, Typing, CallFits, Fits
      <4>2. WorkerTypes'
        BY <2>9, <3>2, <4>1, ContinueTypes DEF Shutdown
      <4> QED BY <2>9, <3>2, <4>2 DEF Shutdown, libvirt, Typing, TypeOK, WorkerTypes
    <3> QED BY <3>1, <3>2
  <2>10. CASE PollAgain(w)
    <3>1. polls[w] + 1 \in 0 .. MaxPolls
      BY <2>10, PollBound DEF PollAgain, Typing, TypeOK
    <3> QED BY <2>10, <3>1 DEF PollAgain, libvirt, Typing, TypeOK, CallFits, Fits
  <2>11. CASE Deadline(w)
    <3>1. (call[w] = "stop_force" => Fits("destroy", call[w])) /\ Fits("return", call[w])
      BY <2>11 DEF Deadline, Typing, CallFits, Fits
    <3>2. WorkerTypes'
      BY <2>11, <3>1, ContinueTypes DEF Deadline
    <3> QED BY <2>11, <3>2 DEF Deadline, libvirt, Typing, TypeOK, WorkerTypes
  <2>12. CASE Destroy(w)
    <3>1. CASE Fail(w, dom # "shut off")
      BY <2>12, <3>1, FailTypes DEF Destroy
    <3>2. CASE ~Fail(w, dom # "shut off")
      <4>1. WorkerTypes'
        BY <2>12, <3>2, <2>0, ContinueTypes DEF Destroy, Typing, CallFits, Fits
      <4> QED BY <2>12, <3>2, <4>1 DEF Destroy, DomState, Typing, TypeOK, WorkerTypes
    <3> QED BY <3>1, <3>2
  <2>13. CASE CreateSnapshot(w) \/ RevertSnapshot(w) \/ DeleteSnapshot(w)
    <3>1. CASE Fail(w, FALSE)
      BY <2>13, <3>1, FailTypes DEF CreateSnapshot, RevertSnapshot, DeleteSnapshot
    <3>2. CASE ~Fail(w, FALSE)
      <4>1. WorkerTypes'
        BY <2>13, <3>2, <2>0, ContinueTypes
        DEF CreateSnapshot, RevertSnapshot, DeleteSnapshot, Typing, CallFits, Fits
      <4>2. /\ snaps' \in [SnapName -> Content \cup {None}] /\ disk' \in Content
            /\ taken' \in [SnapName -> OnOrOff] /\ dom' \in DomState
        <5>1. CASE CreateSnapshot(w)
          BY <5>1, <3>2 DEF CreateSnapshot, SnapshotReady, OnOrOff, DomState, Typing, TypeOK
        <5>2. CASE RevertSnapshot(w)
          BY <5>2, <3>2 DEF RevertSnapshot, SnapshotReady, OnOrOff, DomState, Typing, TypeOK
        <5>3. CASE DeleteSnapshot(w)
          BY <5>3, <3>2 DEF DeleteSnapshot, SnapshotReady, OnOrOff, DomState, Typing, TypeOK
        <5> QED BY <2>13, <5>1, <5>2, <5>3
      <4> QED
        BY <2>13, <3>2, <4>1, <4>2
        DEF CreateSnapshot, RevertSnapshot, DeleteSnapshot, DomState, Typing, TypeOK, WorkerTypes
    <3> QED BY <3>1, <3>2
  <2>14. CASE SetAutostart(w) \/ ReconcileDomState(w)
    <3>1. CASE Fail(w, TRUE)
      BY <2>14, <3>1, FailTypes DEF SetAutostart, ReconcileDomState
    <3>2. CASE ~Fail(w, TRUE)
      <4>1. Fits("return", call[w]) /\ Fits("rc_domstate", call[w]) /\ Fits("start", call[w])
        BY <2>14 DEF SetAutostart, ReconcileDomState, Typing, CallFits, Fits
      <4>2. WorkerTypes'
        BY <2>14, <3>2, <4>1, ContinueTypes DEF SetAutostart, ReconcileDomState
      <4>3. auto' \in BOOLEAN
        BY <2>14, <3>2, AutostartBoolean
        DEF SetAutostart, ReconcileDomState, libvirt, Typing, TypeOK
      <4> QED BY <2>14, <3>2, <4>2, <4>3
              DEF SetAutostart, ReconcileDomState, libvirt, Typing, TypeOK, WorkerTypes
    <3> QED BY <3>1, <3>2
  <2> QED BY <1>2, <2>1, <2>2, <2>3, <2>4, <2>5, <2>6, <2>7, <2>8, <2>9, <2>10, <2>11, <2>12,
             <2>13, <2>14 DEF WorkerStep
<1>3. ASSUME NEW w \in Worker, Kill(w) PROVE Typing'
  <2>1. WorkerTypes'
    BY <1>3, VanishTypes DEF Kill, Typing, TypeOK, WorkerTypes, CallFits
  <2> QED BY <1>3, <2>1 DEF Kill, Unlock, libvirt, Typing, TypeOK, WorkerTypes
<1>4. CASE GuestStep
  BY <1>4 DEF GuestStep, GuestWrites, GuestShutsDown, QemuExits, GuestSuspends, GuestWakes,
     worker, DomState, Typing, TypeOK, CallFits
<1>5. CASE HostCrash
  <2>1. TypeOK'
    BY <1>5, PollBound DEF HostCrash, DomState, Typing, TypeOK, PC, Commands
  <2>2. CallFits'
    BY <1>5, IdleFits DEF HostCrash, CallFits
  <2> QED BY <2>1, <2>2 DEF Typing
<1>6. CASE UNCHANGED vars
  BY <1>6 DEF vars, libvirt, worker, Typing, TypeOK, CallFits
<1> QED BY <1>1, <1>2, <1>3, <1>4, <1>5, <1>6 DEF Next, Environment, GuestStep

\* Every variable keeps its type, with the calls a worker can be making at each point.
THEOREM TypingInvariant == Spec => []Typing
<1>1. Init => Typing
  BY InitTyping
<1>2. Typing /\ [Next]_vars => Typing'
  BY NextTyping
<1> QED BY <1>1, <1>2, PTL DEF Spec

\* Type correctness of Lifecycle, for every choice of calls, faults and discipline.
THEOREM TypeCorrect == Spec => []TypeOK
<1>1. Typing => TypeOK
  BY DEF Typing
<1> QED BY <1>1, TypingInvariant, PTL

-----------------------------------------------------------------------------
(* What a step of one worker leaves alone.                                 *)

\* Worker u is where it was.
Same(u) == /\ pc'[u] = pc[u]
           /\ call'[u] = call[u]
           /\ res'[u] = res[u]
           /\ polls'[u] = polls[u]
           /\ alive'[u] = alive[u]

\* Going on changes one worker: a live one takes the step, a killed one vanishes.
LEMMA ContinueFacts ==
    ASSUME TypeOK, NEW w \in Worker, NEW step, Continue(w, step)
    PROVE  /\ \A u \in Worker \ {w} : Same(u)
           /\ \/ /\ alive[w] /\ alive'[w]
                 /\ pc'[w] = step.pc /\ res'[w] = step.res
                 /\ call'[w] = call[w] /\ polls'[w] = polls[w]
              \/ ~alive[w] /\ alive'[w] /\ pc'[w] = "idle"
BY DEF Continue, Vanish, Same, TypeOK

\* A refused command leaves libvirt and the lock alone, and its worker returns an error.
LEMMA FailFacts ==
    ASSUME TypeOK, NEW w \in Worker, NEW allowed, Fail(w, allowed)
    PROVE  /\ UNCHANGED <<libvirt, lock>>
           /\ pc'[w] \in {"return", "idle"}
           /\ pc'[w] = "return" => res'[w] = "Virsh"
BY ContinueFacts DEF Fail, Return

\* A step of w keeps its call to the end, and concerns no other worker.
LEMMA WorkerFrame ==
    ASSUME Typing, NEW w \in Worker, WorkerStep(w)
    PROVE  /\ pc[w] # "idle"
           /\ \A u \in Worker \ {w} : Same(u)
           /\ \/ pc'[w] = "idle" /\ alive'[w]
              \/ pc'[w] # "idle" /\ call'[w] = call[w] /\ alive'[w] = alive[w] /\ pc[w] # "return"
           /\ UNCHANGED lock \/ (pc'[w] = "idle" /\ Unlock(w))
<1> USE DEF Typing, TypeOK, Same, Fail, Continue, Vanish
<1>1. CASE Finish(w)
  BY <1>1 DEF Finish
<1>2. CASE ReadDomState(w) \/ ReadDomInfo(w)
  BY <1>2 DEF ReadDomState, ReadDomInfo
<1>3. CASE Start(w) \/ WaitForAdb(w)
  BY <1>3 DEF Start, WaitForAdb
<1>4. CASE ManagedSave(w)
  BY <1>4 DEF ManagedSave
<1>5. CASE SaveEnds(w) \/ RemoveSaved(w)
  BY <1>5 DEF SaveEnds, RemoveSaved
<1>6. CASE Shutdown(w) \/ Deadline(w) \/ Destroy(w)
  BY <1>6 DEF Shutdown, Deadline, Destroy
<1>7. CASE PollAgain(w)
  BY <1>7 DEF PollAgain
<1>8. CASE CreateSnapshot(w) \/ RevertSnapshot(w) \/ DeleteSnapshot(w)
  BY <1>8 DEF CreateSnapshot, RevertSnapshot, DeleteSnapshot
<1>9. CASE SetAutostart(w) \/ ReconcileDomState(w)
  BY <1>9 DEF SetAutostart, ReconcileDomState
<1> QED BY <1>1, <1>2, <1>3, <1>4, <1>5, <1>6, <1>7, <1>8, <1>9 DEF WorkerStep

\* A call begins with the lock and its first command, or is refused as Busy.
LEMMA BeginFacts ==
    ASSUME Typing, NEW w \in Worker, NEW c \in Calls, Begin(w, c)
    PROVE  /\ c \in AllCalls
           /\ pc[w] = "idle" /\ MayBegin(c) /\ UNCHANGED libvirt
           /\ \A u \in Worker \ {w} : Same(u)
           /\ call'[w] = c /\ alive'[w] = alive[w]
           /\ \/ /\ Free(c)
                 /\ pc'[w] = IF c = "reconcile" THEN "autostart" ELSE "domstate"
                 /\ lock' = IF c \in LockedCalls THEN w ELSE lock
                 /\ res'[w] = res[w]
              \/ pc'[w] = "return" /\ res'[w] = "Busy" /\ UNCHANGED lock
<1>1. c \in AllCalls
  BY LifecycleAssumption
<1>2. \A u \in Worker \ {w} : Same(u)
  BY DEF Begin, Same, Typing, TypeOK
<1> QED BY <1>1, <1>2 DEF Begin, Typing, TypeOK

\* A killed hostctl leaves its lock, and at most the command it had sent.
LEMMA KillFacts ==
    ASSUME Typing, NEW w \in Worker, Kill(w)
    PROVE  /\ UNCHANGED libvirt
           /\ pc[w] # "idle" /\ alive[w]
           /\ \A u \in Worker \ {w} : Same(u)
           /\ lock' = IF lock = w THEN None ELSE lock
           /\ \/ pc[w] # "saving" /\ pc'[w] = "idle" /\ alive'[w]
              \/ /\ pc'[w] = pc[w] /\ call'[w] = call[w] /\ ~alive'[w]
                 /\ pc[w] = "saving" \/ (pc[w] \in Commands /\ "orphan" \in Faults)
<1>1. \A u \in Worker \ {w} : Same(u)
  BY DEF Kill, Vanish, Same, Typing, TypeOK
<1> QED BY <1>1 DEF Kill, Vanish, Unlock, Typing, TypeOK

-----------------------------------------------------------------------------
(* Saved RAM and the disk.  SavedMatchesDisk is not inductive: a revert     *)
(* changes the disk long after it read that the VM was Stopped.  What it    *)
(* read still holds because nothing else is at work on the VM, which only   *)
(* the operator's discipline ensures, not a lock.                          *)

\* Worker w makes one of the calls in S.
Making(w, S) == pc[w] # "idle" /\ call[w] \in S

\* Nothing else is at work while one of the calls in S is made.
Alone(S) == \A u, v \in Worker : u # v /\ Making(u, S) => pc[v] = "idle"

InPlay == \A w \in Worker : pc[w] # "idle" => call[w] \in Calls

\* What a snapshot command has read is still so.
QuietAt(w) == Making(w, SnapCalls) => /\ pc[w] = "dominfo" => dom = "shut off"
                                      /\ pc[w] \in SnapCalls => dom = "shut off" /\ saved = None

\* No snapshot holds the RAM of a guest.
TakenOff == \A n \in SnapName : taken[n] = "shut off"

SafeInv == /\ Typing
           /\ InPlay
           /\ Alone(SnapCalls)
           /\ \A w \in Worker : QuietAt(w)
           /\ SavedMatchesDisk
           /\ TakenOff

\* The discipline that the data needs: snapshot commands are kept apart from all other
\* calls (or not made); reconcile may overlap what it likes.
SnapshotsApart == Calls \cap SnapCalls \subseteq Apart

\* The discipline that results need: reconcile is kept apart too.  It holds by itself
\* where only calls that take VmLock are made.
UnlockedApart == Calls \ LockedCalls \subseteq Apart

\* Only the calls in play are made.
LEMMA NextInPlay == Typing /\ InPlay /\ [Next]_vars => InPlay'
<1> SUFFICES ASSUME Typing, InPlay, [Next]_vars PROVE InPlay'
  OBVIOUS
<1>1. ASSUME NEW w \in Worker, NEW c \in Calls, Begin(w, c) PROVE InPlay'
  BY <1>1, BeginFacts DEF InPlay, Same
<1>2. ASSUME NEW w \in Worker, WorkerStep(w) PROVE InPlay'
  BY <1>2, WorkerFrame DEF InPlay, Same
<1>3. ASSUME NEW w \in Worker, Kill(w) PROVE InPlay'
  BY <1>3, KillFacts DEF InPlay, Same
<1>4. CASE GuestStep
  BY <1>4 DEF GuestStep, GuestWrites, GuestShutsDown, QemuExits, GuestSuspends, GuestWakes,
     worker, InPlay
<1>5. CASE HostCrash
  BY <1>5 DEF HostCrash, InPlay
<1>6. CASE UNCHANGED vars
  BY <1>6 DEF vars, worker, InPlay
<1> QED BY <1>1, <1>2, <1>3, <1>4, <1>5, <1>6 DEF Next, Environment, GuestStep

\* The discipline keeps the calls that are in it alone on the VM.
LEMMA NextAlone ==
    ASSUME NEW S, Calls \cap S \subseteq Apart, Typing, InPlay, Alone(S), [Next]_vars
    PROVE  Alone(S)'
<1> USE DEF Alone, Making
<1>1. ASSUME NEW w \in Worker, NEW c \in Calls, Begin(w, c) PROVE Alone(S)'
  <2>1. \A u \in Worker : pc[u] # "idle" => c \notin S /\ call[u] \notin S
    BY <1>1, BeginFacts DEF MayBegin, InPlay
  <2> QED BY <1>1, <2>1, BeginFacts DEF Same
<1>2. ASSUME NEW w \in Worker, WorkerStep(w) PROVE Alone(S)'
  BY <1>2, WorkerFrame DEF Same
<1>3. ASSUME NEW w \in Worker, Kill(w) PROVE Alone(S)'
  BY <1>3, KillFacts DEF Same
<1>4. CASE GuestStep
  BY <1>4 DEF GuestStep, GuestWrites, GuestShutsDown, QemuExits, GuestSuspends, GuestWakes, worker
<1>5. CASE HostCrash
  BY <1>5 DEF HostCrash
<1>6. CASE UNCHANGED vars
  BY <1>6 DEF vars, worker
<1> QED BY <1>1, <1>2, <1>3, <1>4, <1>5, <1>6 DEF Next, Environment, GuestStep

\* A worker's own step keeps the image on its disk, and acts on what it read.
LEMMA OwnStepSafe ==
    ASSUME SafeInv, NEW w \in Worker, WorkerStep(w)
    PROVE  SavedMatchesDisk' /\ QuietAt(w)'
<1> USE DEF Typing, QuietAt, Making
<1>0. ASSUME NEW allowed, Fail(w, allowed) PROVE SavedMatchesDisk' /\ QuietAt(w)'
  BY <1>0, FailFacts DEF SafeInv, SavedMatchesDisk, libvirt, SnapCalls
<1>1. CASE Finish(w)
  BY <1>1 DEF Finish, Vanish, libvirt, SafeInv, SavedMatchesDisk, TypeOK
<1>2. CASE ReadDomState(w) /\ ~Fail(w, TRUE)
  <2>1. call[w] \in StateCalls /\ (polls[w] # 0 => call[w] \in StopCalls)
    BY <1>2 DEF ReadDomState, SafeInv, CallFits, Fits
  <2>2. /\ Handle(w, "Running").pc \notin SnapCalls
        /\ Handle(w, "Running").pc # "dominfo"
    BY <2>1, HandleFacts DEF VmState
  <2>3. UNCHANGED libvirt /\ (pc'[w] = "dominfo" => dom = "shut off") /\ pc'[w] \notin SnapCalls
    BY <1>2, <2>2
    DEF ReadDomState, Continue, Vanish, Return, Goto, SafeInv, TypeOK, SnapCalls
  <2> QED BY <2>3 DEF libvirt, SafeInv, SavedMatchesDisk
<1>3. CASE ReadDomInfo(w) /\ ~Fail(w, TRUE)
  <2>1. call[w] \in StateCalls /\ (polls[w] # 0 => call[w] \in StopCalls)
    BY <1>3 DEF ReadDomInfo, SafeInv, CallFits, Fits
  <2> DEFINE s == IF saved # None THEN "Hibernated" ELSE "Stopped"
  <2>2. /\ Handle(w, s).pc \in SnapCalls => saved = None
        /\ Handle(w, s).pc # "dominfo"
    BY <2>1, HandleFacts DEF VmState
  <2>3. UNCHANGED libvirt /\ Continue(w, Handle(w, s)) /\ pc[w] = "dominfo"
    BY <1>3 DEF ReadDomInfo
  <2> HIDE DEF s
  <2>4. /\ pc'[w] \in SnapCalls => saved = None
        /\ pc'[w] # "dominfo"
        /\ pc'[w] # "idle" => call'[w] = call[w]
    BY <2>2, <2>3 DEF Continue, Vanish, SafeInv, TypeOK, SnapCalls
  <2> QED BY <2>3, <2>4 DEF libvirt, SafeInv, SavedMatchesDisk
<1>4. CASE Start(w) /\ ~Fail(w, dom = "shut off")
  BY <1>4 DEF Start, Continue, Vanish, Return, Goto, SafeInv, SavedMatchesDisk, TypeOK, SnapCalls
<1>5. CASE WaitForAdb(w)
  BY <1>5 DEF WaitForAdb, Continue, Vanish, Return, libvirt, SafeInv, SavedMatchesDisk, TypeOK,
              SnapCalls
<1>6. CASE ManagedSave(w) /\ ~Fail(w, dom = "running")
  BY <1>6 DEF ManagedSave, SafeInv, SavedMatchesDisk, TypeOK, SnapCalls
<1>7. CASE SaveEnds(w)
  BY <1>7 DEF SaveEnds, Continue, Vanish, Return, SafeInv, SavedMatchesDisk, TypeOK, SnapCalls
<1>8. CASE RemoveSaved(w) /\ ~Fail(w, TRUE)
  BY <1>8 DEF RemoveSaved, Continue, Vanish, Return, SafeInv, SavedMatchesDisk, TypeOK, SnapCalls
<1>9. CASE (Shutdown(w) /\ ~Fail(w, dom \notin {"shut off",
"suspended"})) \/ Deadline(w) \/ PollAgain(w)
  BY <1>9 DEF Shutdown, Deadline, PollAgain, Continue, Vanish, Return, Goto, libvirt,
              SafeInv, SavedMatchesDisk, TypeOK, SnapCalls
<1>10. CASE Destroy(w) /\ ~Fail(w, dom # "shut off")
  BY <1>10 DEF Destroy, Continue, Vanish, Return, SafeInv, SavedMatchesDisk, TypeOK, SnapCalls
<1>11. CASE (CreateSnapshot(w) \/ RevertSnapshot(w) \/ DeleteSnapshot(w)) /\ ~Fail(w, FALSE)
  <2>1. dom = "shut off" /\ saved = None
    BY <1>11 DEF CreateSnapshot, RevertSnapshot, DeleteSnapshot, SafeInv, CallFits, Fits,
                 SnapCalls, LockedCalls
  <2> QED BY <1>11, <2>1 DEF CreateSnapshot, RevertSnapshot, DeleteSnapshot, Continue, Vanish,
                             Return, SafeInv, SavedMatchesDisk, TypeOK, SnapCalls
<1>12. CASE (SetAutostart(w) \/ ReconcileDomState(w)) /\ ~Fail(w, TRUE)
  BY <1>12 DEF SetAutostart, ReconcileDomState, Continue, Vanish, Return, Goto, libvirt,
               SafeInv, SavedMatchesDisk, TypeOK, SnapCalls
<1> QED BY <1>0, <1>1, <1>2, <1>3, <1>4, <1>5, <1>6, <1>7, <1>8, <1>9, <1>10, <1>11, <1>12
        DEF WorkerStep, ReadDomState, ReadDomInfo, Start, ManagedSave, RemoveSaved, Shutdown,
            Destroy, CreateSnapshot, RevertSnapshot, DeleteSnapshot, SetAutostart,
            ReconcileDomState

\* As long as snapshots are taken of a domain that is off, none holds RAM.
LEMMA NextTakenOff ==
    ASSUME Typing, TakenOff, [Next]_vars,
           \A w \in Worker : pc[w] = "snap_create" => dom = "shut off"
    PROVE  TakenOff'
<1> USE DEF TakenOff
<1>1. ASSUME NEW w \in Worker, CreateSnapshot(w) \/ DeleteSnapshot(w) PROVE TakenOff'
  BY <1>1 DEF CreateSnapshot, DeleteSnapshot, Fail, libvirt, Typing, TypeOK
<1>2. ASSUME NEW w \in Worker, WorkerStep(w), ~CreateSnapshot(w), ~DeleteSnapshot(w)
      PROVE  taken' = taken
  BY <1>2 DEF WorkerStep, Finish, ReadDomState, ReadDomInfo, Start, WaitForAdb, ManagedSave,
              SaveEnds, RemoveSaved, Shutdown, PollAgain, Deadline, Destroy, RevertSnapshot,
              SetAutostart, ReconcileDomState, Fail, libvirt
<1>3. ASSUME NEW w \in Worker, NEW c \in Calls, Begin(w, c) PROVE taken' = taken
  BY <1>3 DEF Begin, libvirt
<1>4. ASSUME NEW w \in Worker, Kill(w) PROVE taken' = taken
  BY <1>4 DEF Kill, libvirt
<1>5. GuestStep \/ HostCrash \/ UNCHANGED vars => taken' = taken
  BY DEF GuestStep, GuestWrites, GuestShutsDown, QemuExits, GuestSuspends, GuestWakes, HostCrash,
         vars, libvirt
<1> QED BY <1>1, <1>2, <1>3, <1>4, <1>5 DEF Next, Environment, GuestStep

\* The invariant of saved RAM is inductive.
LEMMA NextSafe ==
    ASSUME SnapshotsApart, SafeInv, [Next]_vars
    PROVE  SafeInv'
<1>0. \A w \in Worker : pc[w] = "snap_create" => dom = "shut off"
  BY DEF SafeInv, QuietAt, Making, Typing, CallFits, Fits, SnapCalls
<1>1. Typing' /\ InPlay' /\ Alone(SnapCalls)' /\ TakenOff'
  BY <1>0, NextTyping, NextInPlay, NextAlone, NextTakenOff DEF SafeInv, SnapshotsApart
<1>2. ASSUME NEW w \in Worker, NEW c \in Calls, Begin(w, c)
      PROVE  SavedMatchesDisk' /\ \A u \in Worker : QuietAt(u)'
  BY <1>2, BeginFacts DEF SafeInv, SavedMatchesDisk, QuietAt, Making, Same, libvirt, SnapCalls
<1>3. ASSUME NEW w \in Worker, WorkerStep(w)
      PROVE  SavedMatchesDisk' /\ \A u \in Worker : QuietAt(u)'
  <2>1. SavedMatchesDisk' /\ QuietAt(w)'
    BY <1>3, OwnStepSafe
  <2>2. ASSUME NEW u \in Worker, u # w PROVE QuietAt(u)'
    BY <1>3, <2>2, WorkerFrame DEF SafeInv, Alone, QuietAt, Making, Same
  <2> QED BY <2>1, <2>2
<1>4. ASSUME NEW w \in Worker, Kill(w)
      PROVE  SavedMatchesDisk' /\ \A u \in Worker : QuietAt(u)'
  BY <1>4, KillFacts DEF SafeInv, SavedMatchesDisk, QuietAt, Making, Same, libvirt
<1>5. CASE GuestStep
  BY <1>1, <1>5 DEF GuestStep, GuestWrites, GuestShutsDown, QemuExits, GuestSuspends, GuestWakes,
     worker, SafeInv, SavedMatchesDisk, QuietAt, Making
<1>6. CASE HostCrash
  BY <1>1, <1>6 DEF HostCrash, SafeInv, SavedMatchesDisk, QuietAt, Making
<1>7. CASE UNCHANGED vars
  BY <1>1, <1>7 DEF vars, libvirt, worker, SafeInv, SavedMatchesDisk, QuietAt, Making
<1> QED BY <1>1, <1>2, <1>3, <1>4, <1>5, <1>6, <1>7 DEF Next, Environment, GuestStep, SafeInv

\* The inductive invariant behind SavedMatchesDisk.
THEOREM SafeInvariant ==
    ASSUME SnapshotsApart
    PROVE  Spec => []SafeInv
<1>1. Init => SafeInv
  BY InitTyping DEF Init, SafeInv, InPlay, Alone, QuietAt, Making, SavedMatchesDisk, TakenOff
<1>2. SafeInv /\ [Next]_vars => SafeInv'
  BY NextSafe
<1> QED BY <1>1, <1>2, PTL DEF Spec

\* As long as snapshot commands overlap no other call on the VM, a managed-save image is
\* only ever resumed on the disk it belongs to, however many locked calls and reconciles
\* race, whichever virsh commands fail, and whatever is killed, left behind or crashes.
THEOREM SavedImageSafe ==
    ASSUME SnapshotsApart
    PROVE  Spec => []SavedMatchesDisk
<1>1. SafeInv => SavedMatchesDisk
  BY DEF SafeInv
<1> QED BY <1>1, SafeInvariant, PTL

-----------------------------------------------------------------------------
(* Refinement: under the same discipline Lifecycle implements AndroidVm.   *)

\* A step that leaves disk and snapshots alone and does not conjure a RAM image.
PowerStep == /\ UNCHANGED <<disk, snaps>>
             /\ ~(dom = "shut off" /\ saved = None /\ dom' = "shut off" /\ saved' # None)

\* A snapshot command on a VM that is, and stays, Stopped.
SnapshotStep ==
    /\ dom = "shut off" /\ saved = None /\ dom' = dom /\ saved' = saved
    /\ \E n \in SnapName :
          \/ snaps' = [snaps EXCEPT ![n] = disk] /\ disk' = disk
          \/ snaps[n] # None /\ disk' = snaps[n] /\ snaps' = snaps
          \/ snaps' = [snaps EXCEPT ![n] = None] /\ disk' = disk

\* A step of a worker changes the power state, or takes, reverts or drops a snapshot.
LEMMA WorkerDataStep ==
    ASSUME SafeInv, NEW w \in Worker, WorkerStep(w)
    PROVE  PowerStep \/ SnapshotStep
<1>0. ASSUME NEW allowed, Fail(w, allowed) PROVE PowerStep
  BY <1>0 DEF Fail, libvirt, PowerStep
<1>1. CASE Finish(w) \/ WaitForAdb(w) \/ Deadline(w) \/ PollAgain(w)
  BY <1>1 DEF Finish, WaitForAdb, Deadline, PollAgain, libvirt, PowerStep
<1>2. CASE (ReadDomState(w) \/ ReadDomInfo(w)) /\ ~Fail(w, TRUE)
  BY <1>2 DEF ReadDomState, ReadDomInfo, libvirt, PowerStep
<1>3. CASE Start(w) /\ ~Fail(w, dom = "shut off")
  BY <1>3 DEF Start, PowerStep
<1>4. CASE ManagedSave(w) /\ ~Fail(w, dom = "running")
  BY <1>4 DEF ManagedSave, PowerStep
<1>5. CASE SaveEnds(w)
  BY <1>5 DEF SaveEnds, PowerStep
<1>6. CASE RemoveSaved(w) /\ ~Fail(w, TRUE)
  BY <1>6 DEF RemoveSaved, PowerStep
<1>7. CASE \/ Shutdown(w) /\ ~Fail(w, dom \notin {"shut off", "suspended"})
           \/ Destroy(w) /\ ~Fail(w, dom # "shut off")
  BY <1>7 DEF Shutdown, Destroy, libvirt, PowerStep
<1>8. CASE (CreateSnapshot(w) \/ RevertSnapshot(w) \/ DeleteSnapshot(w)) /\ ~Fail(w, FALSE)
  <2>1. dom = "shut off" /\ saved = None /\ TakenOff
    BY <1>8 DEF CreateSnapshot, RevertSnapshot, DeleteSnapshot, SafeInv, Typing, CallFits, Fits,
                QuietAt, Making, SnapCalls
  <2> QED BY <1>8, <2>1 DEF CreateSnapshot, RevertSnapshot, DeleteSnapshot, SnapshotStep, TakenOff
<1>9. CASE (SetAutostart(w) \/ ReconcileDomState(w)) /\ ~Fail(w, TRUE)
  BY <1>9 DEF SetAutostart, ReconcileDomState, libvirt, PowerStep
<1> QED BY <1>0, <1>1, <1>2, <1>3, <1>4, <1>5, <1>6, <1>7, <1>8, <1>9
        DEF WorkerStep, ReadDomState, ReadDomInfo, Start, ManagedSave, RemoveSaved, Shutdown,
            Destroy, CreateSnapshot, RevertSnapshot, DeleteSnapshot, SetAutostart,
            ReconcileDomState

\* Beside those, only the guest writes.
LEMMA DataStep ==
    ASSUME SafeInv, [Next]_vars
    PROVE  \/ PowerStep
           \/ SnapshotStep
           \/ GuestWrites
<1>1. ASSUME NEW w \in Worker, NEW c \in Calls, Begin(w, c) PROVE PowerStep
  BY <1>1, BeginFacts DEF SafeInv, libvirt, PowerStep
<1>2. ASSUME NEW w \in Worker, Kill(w) PROVE PowerStep
  BY <1>2, KillFacts DEF SafeInv, libvirt, PowerStep
<1>3. CASE GuestShutsDown \/ QemuExits \/ GuestSuspends \/ GuestWakes \/ HostCrash
           \/ UNCHANGED vars
  BY <1>3 DEF GuestShutsDown, QemuExits, GuestSuspends, GuestWakes, HostCrash, vars, libvirt,
              PowerStep
<1> QED BY <1>1, <1>2, <1>3, WorkerDataStep DEF Next, Environment, GuestStep

\* Every step is one of AndroidVm, or changes nothing AndroidVm shows.
LEMMA StepImplements ==
    ASSUME SafeInv, SafeInv', [Next]_vars
    PROVE  [Vm!Next]_(Vm!vars)
<1> USE DEF Vm!Next, Vm!vars, Vm!VmState, Power
<1>1. CASE PowerStep
  <2>1. <<Power, Power'>> # <<"Stopped", "Hibernated">>
    BY <1>1 DEF PowerStep
  <2>2. Power' \in Vm!VmState /\ UNCHANGED <<disk, snaps>>
    BY <1>1 DEF PowerStep
  <2> QED BY <2>1, <2>2 DEF Vm!ChangePower
<1>2. CASE SnapshotStep
  <2>1. Power = "Stopped" /\ Power' = Power
    BY <1>2 DEF SnapshotStep
  <2> QED BY <1>2, <2>1 DEF SnapshotStep, Vm!TakeSnapshot, Vm!RevertTo, Vm!DropSnapshot
<1>3. CASE GuestWrites
  BY <1>3 DEF GuestWrites, Vm!Write
<1> QED BY <1>1, <1>2, <1>3, DataStep

\* With snapshot commands apart every behaviour of hostctl's calls, of libvirt, of the guest
\* and of faults on the VM is one of AndroidVm: data changes only in the power states
\* that allow it.
THEOREM LifecycleImplements ==
    ASSUME SnapshotsApart
    PROVE  Spec => ImplementsAndroidVm
<1>1. Init => Vm!Init
  BY DEF Init, Vm!Init, Power
<1>2. SafeInv /\ SafeInv' /\ [Next]_vars => [Vm!Next]_(Vm!vars)
  BY StepImplements
<1> QED BY <1>1, <1>2, SafeInvariant, PTL DEF Spec, ImplementsAndroidVm, Vm!Spec

\* With snapshot commands apart nothing but a write of the running guest changes the disk or
\* the snapshots of a VM that is not Stopped.
THEOREM SnapshotsSafe ==
    ASSUME SnapshotsApart
    PROVE  Spec => SnapshotsOnlyWhenStopped
<1> DEFINE Quiet == snaps' # snaps \/ (disk' # disk /\ ~GuestWrites) =>
                        dom = "shut off" /\ saved = None
<1>1. SafeInv /\ [Next]_vars => [Quiet]_vars
  <2>1. GuestWrites => snaps' = snaps
    BY DEF GuestWrites
  <2> QED BY <2>1, DataStep DEF PowerStep, SnapshotStep
<1> QED BY <1>1, SafeInvariant, PTL DEF Spec, SnapshotsOnlyWhenStopped

-----------------------------------------------------------------------------
(* Results.  OutcomeTrue needs, beside its discipline, that killing hostctl *)
(* kills its virsh child too: only then does a released lock mean that no    *)
(* command is left.  The one thing a killed worker leaves behind is a save   *)
(* that libvirt itself carries on, and while it runs the domain is paused.   *)

\* Worker w is inside VmLock (and has not been told that it is taken).
Holds(w) == /\ pc[w] # "idle" /\ alive[w] /\ call[w] \in LockedCalls
            /\ ~(pc[w] = "return" /\ res[w] = "Busy")

LockHeld == \A w \in Worker : Holds(w) => lock = w

OnlySavesAreLeft == \A w \in Worker : ~alive[w] => pc[w] = "saving"

\* What worker w knows of the domain at each point of the code.
KnowsAt(w) ==
    /\ pc[w] = "saving" => dom = "paused"
    /\ pc[w] \in {"dominfo", "managedsave-remove"} => dom = "shut off"
    /\ pc[w] \in {"shutdown", "loop", "destroy"} => dom # "paused"
    /\ pc[w] = "domstate" /\ polls[w] # 0 => dom # "paused"
    /\ pc[w] = "return" /\ res[w] = "Stopped" => dom = "shut off" /\ saved = None
    /\ pc[w] = "return" /\ res[w] = "Hibernated" => dom = "shut off" /\ saved # None

OneSave == \A u, v \in Worker : pc[u] = "saving" /\ pc[v] = "saving" => u = v

\* The calls that take no VmLock.
UnlockedCalls == SnapCalls \cup {"reconcile"}

TruthInv == /\ SafeInv
            /\ Alone(UnlockedCalls)
            /\ LockHeld
            /\ OnlySavesAreLeft
            /\ OneSave
            /\ \A w \in Worker : KnowsAt(w)

NoneFresh == None \notin Worker /\ None \notin Content /\ None \notin Outcome

\* None is no worker, no disk content and no result.
LEMMA NoneIsFresh == NoneFresh
BY LifecycleAssumption DEF NoneFresh

\* VmLock is held as long as a live worker is inside a locked call.
LEMMA NextLockHeld ==
    ASSUME Typing, LockHeld, [Next]_vars
    PROVE  LockHeld'
<1>1. ASSUME NEW w \in Worker, NEW c \in Calls, Begin(w, c) PROVE LockHeld'
  <2>1. c \in LockedCalls /\ Free(c) => lock = None
    BY DEF Free, LockedCalls
  <2> QED BY <1>1, <2>1, BeginFacts, NoneIsFresh DEF LockHeld, Holds, Same, NoneFresh
<1>2. ASSUME NEW w \in Worker, WorkerStep(w) PROVE LockHeld'
  BY <1>2, WorkerFrame, NoneIsFresh DEF LockHeld, Holds, Same, Unlock, NoneFresh
<1>3. ASSUME NEW w \in Worker, Kill(w) PROVE LockHeld'
  BY <1>3, KillFacts, NoneIsFresh DEF LockHeld, Holds, Same, NoneFresh
<1>4. CASE GuestStep
  BY <1>4 DEF GuestStep, GuestWrites, GuestShutsDown, QemuExits, GuestSuspends, GuestWakes,
     worker, LockHeld, Holds
<1>5. CASE HostCrash
  BY <1>5 DEF HostCrash, LockHeld, Holds
<1>6. CASE UNCHANGED vars
  BY <1>6 DEF vars, worker, LockHeld, Holds
<1> QED BY <1>1, <1>2, <1>3, <1>4, <1>5, <1>6 DEF Next, Environment, GuestStep

\* Without orphans, a killed worker leaves nothing but a running save.
LEMMA NextOnlySaves ==
    ASSUME Typing, OnlySavesAreLeft, "orphan" \notin Faults, [Next]_vars
    PROVE  OnlySavesAreLeft'
<1>1. ASSUME NEW w \in Worker, NEW c \in Calls, Begin(w, c) PROVE OnlySavesAreLeft'
  BY <1>1, BeginFacts DEF OnlySavesAreLeft, Same
<1>2. ASSUME NEW w \in Worker, WorkerStep(w) PROVE OnlySavesAreLeft'
  <2>1. CASE alive[w]
    BY <1>2, <2>1, WorkerFrame DEF OnlySavesAreLeft, Same
  <2>2. CASE ~alive[w]
    <3>1. SaveEnds(w)
      BY <1>2, <2>2 DEF OnlySavesAreLeft, WorkerStep, Finish, ReadDomState, ReadDomInfo, Start,
         WaitForAdb, ManagedSave, RemoveSaved, Shutdown, PollAgain, Deadline, Destroy,
         CreateSnapshot, RevertSnapshot, DeleteSnapshot, SetAutostart, ReconcileDomState
    <3>2. alive'[w]
      BY <2>2, <3>1 DEF SaveEnds, Continue, Vanish, Typing, TypeOK
    <3> QED BY <1>2, <3>2, WorkerFrame DEF OnlySavesAreLeft, Same
  <2> QED BY <2>1, <2>2
<1>3. ASSUME NEW w \in Worker, Kill(w) PROVE OnlySavesAreLeft'
  BY <1>3, KillFacts DEF OnlySavesAreLeft, Same
<1>4. CASE GuestStep
  BY <1>4 DEF GuestStep, GuestWrites, GuestShutsDown, QemuExits, GuestSuspends, GuestWakes,
     worker, OnlySavesAreLeft
<1>5. CASE HostCrash
  BY <1>5 DEF HostCrash, OnlySavesAreLeft
<1>6. CASE UNCHANGED vars
  BY <1>6 DEF vars, worker, OnlySavesAreLeft
<1> QED BY <1>1, <1>2, <1>3, <1>4, <1>5, <1>6 DEF Next, Environment, GuestStep

\* What a worker's own step teaches it.
LEMMA OwnStepTrue ==
    ASSUME TruthInv, NEW w \in Worker, WorkerStep(w)
    PROVE  KnowsAt(w)'
<1> USE NoneIsFresh DEF Typing, TruthInv, SafeInv, KnowsAt, NoneFresh
<1>0. ASSUME NEW allowed, Fail(w, allowed) PROVE KnowsAt(w)'
  BY <1>0, FailFacts
<1>1. CASE Finish(w)
  BY <1>1 DEF Finish, Vanish, TypeOK
<1>2. CASE ReadDomState(w) /\ ~Fail(w, TRUE)
  <2>1. call[w] \in StateCalls /\ (polls[w] # 0 => call[w] \in StopCalls)
    BY <1>2 DEF ReadDomState, CallFits, Fits
  <2>2. /\ Handle(w, "Running").pc \notin {"saving", "domstate", "dominfo", "managedsave-remove"}
        /\ Handle(w, "Running").res \notin {"Stopped", "Hibernated"}
    BY <2>1, HandleFacts DEF VmState
  <2>3. UNCHANGED libvirt
    BY <1>2 DEF ReadDomState
  <2>4. CASE dom = "running"
    <3>1. pc'[w] = "idle" \/ (pc'[w] = Handle(w, "Running").pc /\ res'[w] = Handle(w,
    "Running").res)
      BY <1>2, <2>4 DEF ReadDomState, Continue, Vanish, TypeOK
    <3> QED BY <2>2, <2>3, <2>4, <3>1 DEF libvirt
  <2>5. CASE dom # "running"
    <3>1. \/ pc'[w] = "idle"
          \/ pc'[w] = "dominfo" /\ dom = "shut off"
          \/ pc'[w] = "return" /\ res'[w] = "Unsupported"
      BY <1>2, <2>5 DEF ReadDomState, Continue, Vanish, Goto, Return, TypeOK
    <3> QED BY <2>3, <3>1 DEF libvirt
  <2> QED BY <2>4, <2>5
<1>3. CASE ReadDomInfo(w) /\ ~Fail(w, TRUE)
  <2>1. call[w] \in StateCalls /\ (polls[w] # 0 => call[w] \in StopCalls)
    BY <1>3 DEF ReadDomInfo, CallFits, Fits
  <2> DEFINE s == IF saved # None THEN "Hibernated" ELSE "Stopped"
  <2>2. /\ Handle(w, s).pc \notin {"saving", "domstate", "dominfo"}
        /\ Handle(w, s).res \in {"Stopped", "Hibernated"} => Handle(w, s).res = s
    BY <2>1, HandleFacts DEF VmState
  <2>3. UNCHANGED libvirt /\ Continue(w, Handle(w, s)) /\ dom = "shut off"
    BY <1>3 DEF ReadDomInfo
  <2>4. s = "Stopped" => saved = None
    OBVIOUS
  <2>5. s = "Hibernated" => saved # None
    OBVIOUS
  <2> HIDE DEF s
  <2>6. pc'[w] = "idle" \/ (pc'[w] = Handle(w, s).pc /\ res'[w] = Handle(w, s).res)
    BY <2>3 DEF Continue, Vanish, TypeOK
  <2> QED BY <2>2, <2>3, <2>4, <2>5, <2>6 DEF libvirt
<1>4. CASE Start(w) /\ ~Fail(w, dom = "shut off")
  BY <1>4 DEF Start, Continue, Vanish, Return, Goto, TypeOK
<1>5. CASE WaitForAdb(w)
  BY <1>5 DEF WaitForAdb, Continue, Vanish, Return, TypeOK
<1>6. CASE ManagedSave(w) /\ ~Fail(w, dom = "running")
  BY <1>6 DEF ManagedSave, TypeOK
<1>7. CASE SaveEnds(w)
  BY <1>7 DEF SaveEnds, Continue, Vanish, Return, TypeOK
<1>8. CASE RemoveSaved(w) /\ ~Fail(w, TRUE)
  BY <1>8 DEF RemoveSaved, Continue, Vanish, Return, TypeOK
<1>9. CASE Shutdown(w) /\ ~Fail(w, dom \notin {"shut off", "suspended"})
  BY <1>9 DEF Shutdown, Continue, Vanish, Goto, libvirt, TypeOK
<1>10. CASE Deadline(w) \/ PollAgain(w)
  BY <1>10 DEF Deadline, PollAgain, Continue, Vanish, Return, Goto, libvirt, TypeOK
<1>11. CASE Destroy(w) /\ ~Fail(w, dom # "shut off")
  BY <1>11 DEF Destroy, Continue, Vanish, Return, SavedMatchesDisk, TypeOK
<1>12. CASE (CreateSnapshot(w) \/ RevertSnapshot(w) \/ DeleteSnapshot(w)) /\ ~Fail(w, FALSE)
  BY <1>12 DEF CreateSnapshot, RevertSnapshot, DeleteSnapshot, Continue, Vanish, Return, TypeOK
<1>13. CASE (SetAutostart(w) \/ ReconcileDomState(w)) /\ ~Fail(w, TRUE)
  BY <1>13 DEF SetAutostart, ReconcileDomState, Continue, Vanish, Return, Goto, TypeOK
<1> QED BY <1>0, <1>1, <1>2, <1>3, <1>4, <1>5, <1>6, <1>7, <1>8, <1>9, <1>10, <1>11, <1>12, <1>13
        DEF WorkerStep, ReadDomState, ReadDomInfo, Start, ManagedSave, RemoveSaved, Shutdown,
            Destroy, CreateSnapshot, RevertSnapshot, DeleteSnapshot, SetAutostart,
            ReconcileDomState

\* The commands that change dom or saved, and from what.
LEMMA DomainStep ==
    ASSUME TruthInv, NEW w \in Worker, WorkerStep(w)
    PROVE  \/ UNCHANGED <<dom, saved>>
           \/ pc[w] = "start" /\ dom = "shut off"
           \/ pc[w] = "managedsave" /\ dom \in {"running", "suspended"} /\ saved' = saved
           \/ pc[w] = "saving" /\ dom = "paused" /\ dom' # "paused"
           \/ pc[w] = "managedsave-remove" /\ dom' = dom
           \/ pc[w] = "destroy" /\ dom # "paused" /\ dom # "shut off" /\ dom' = "shut off"
           \/ pc[w] \in SnapCalls
<1> USE DEF SnapCalls
<1>0. ASSUME NEW allowed, Fail(w, allowed) PROVE UNCHANGED <<dom, saved>>
  BY <1>0 DEF Fail, libvirt
<1>1. CASE Finish(w) \/ WaitForAdb(w) \/ Deadline(w) \/ PollAgain(w)
  BY <1>1 DEF Finish, WaitForAdb, Deadline, PollAgain, libvirt
<1>2. CASE (ReadDomState(w) \/ ReadDomInfo(w)) /\ ~Fail(w, TRUE)
  BY <1>2 DEF ReadDomState, ReadDomInfo, libvirt
<1>3. CASE (Start(w) /\ ~Fail(w, dom = "shut off")) \/ (ManagedSave(w) /\ ~Fail(w, dom = "running"))
  BY <1>3 DEF Start, ManagedSave
<1>4. CASE SaveEnds(w)
  BY <1>4 DEF SaveEnds, TruthInv, KnowsAt
<1>5. CASE RemoveSaved(w) /\ ~Fail(w, TRUE)
  BY <1>5 DEF RemoveSaved
<1>6. CASE \/ Shutdown(w) /\ ~Fail(w, dom \notin {"shut off", "suspended"})
           \/ Destroy(w) /\ ~Fail(w, dom # "shut off")
  BY <1>6 DEF Shutdown, Destroy, libvirt, TruthInv, KnowsAt
<1>7. CASE (CreateSnapshot(w) \/ RevertSnapshot(w) \/ DeleteSnapshot(w)) /\ ~Fail(w, FALSE)
  BY <1>7 DEF CreateSnapshot, RevertSnapshot, DeleteSnapshot
<1>8. CASE (SetAutostart(w) \/ ReconcileDomState(w)) /\ ~Fail(w, TRUE)
  BY <1>8 DEF SetAutostart, ReconcileDomState, libvirt
<1> QED BY <1>0, <1>1, <1>2, <1>3, <1>4, <1>5, <1>6, <1>7, <1>8
        DEF WorkerStep, ReadDomState, ReadDomInfo, Start, ManagedSave, RemoveSaved, Shutdown,
            Destroy, CreateSnapshot, RevertSnapshot, DeleteSnapshot, SetAutostart,
            ReconcileDomState

\* What a worker knows survives a step of another: both hold the lock, which cannot
\* be, or one of them is unlocked and so alone, or the other is a save left behind.
LEMMA OtherStepTrue ==
    ASSUME TruthInv, NEW w \in Worker, NEW u \in Worker, u # w, WorkerStep(w)
    PROVE  KnowsAt(u)'
<1>1. pc[w] # "idle" /\ Same(u)
  BY WorkerFrame DEF TruthInv, SafeInv
<1>2. CASE Making(u, UnlockedCalls) \/ Making(w, UnlockedCalls) \/ pc[u] = "idle"
  BY <1>1, <1>2 DEF TruthInv, Alone, Making, KnowsAt, Same
<1>3. CASE ~Making(u, UnlockedCalls) /\ ~Making(w, UnlockedCalls) /\ pc[u] # "idle"
  <2>1. call[u] \in LockedCalls /\ call[w] \in LockedCalls
    BY <1>1, <1>3
       DEF TruthInv, SafeInv, Typing, CallFits, Fits, Making, UnlockedCalls, AllCalls
  <2>2. pc[w] \notin SnapCalls
    BY <2>1 DEF TruthInv, SafeInv, Typing, CallFits, Fits, SnapCalls, LockedCalls
  <2>3. KnowsAt(u)
    BY DEF TruthInv
  <2>4. CASE UNCHANGED <<dom, saved>>
    BY <1>1, <2>3, <2>4 DEF KnowsAt, Same
  <2>5. CASE pc[w] = "saving" /\ dom = "paused" /\ dom' # "paused"
    BY <1>1, <2>3, <2>5 DEF KnowsAt, Same, TruthInv, OneSave
  <2>6. CASE /\ pc[w] # "saving"
             /\ \/ pc[w] = "start" /\ dom = "shut off"
                \/ pc[w] = "managedsave" /\ dom \in {"running", "suspended"} /\ saved' = saved
                \/ pc[w] = "managedsave-remove" /\ dom' = dom
                \/ pc[w] = "destroy" /\ dom # "paused" /\ dom # "shut off" /\ dom' = "shut off"
    <3>1. lock = w
      BY <1>1, <2>1, <2>6 DEF TruthInv, OnlySavesAreLeft, LockHeld, Holds
    <3>2. pc[u] = "saving" \/ (pc[u] = "return" /\ res[u] = "Busy")
      BY <1>3, <2>1, <3>1 DEF TruthInv, OnlySavesAreLeft, LockHeld, Holds
    <3> QED BY <1>1, <2>3, <2>6, <3>2 DEF KnowsAt, Same
  <2> QED BY <2>2, <2>4, <2>5, <2>6, DomainStep
<1> QED BY <1>2, <1>3

\* A save begins on a domain that is on, and not in the middle of another.
LEMMA SaveBegins ==
    ASSUME SafeInv, NEW w \in Worker, WorkerStep(w), pc'[w] = "saving"
    PROVE  dom \in {"running", "suspended"}
<1> USE DEF SafeInv, Typing, TypeOK, Continue, Vanish, Return, Goto
<1>0. ASSUME NEW allowed PROVE ~Fail(w, allowed)
  BY FailFacts
<1>1. call[w] \in StateCalls => \A s \in VmState : Handle(w, s).pc # "saving"
  BY HandleFacts DEF CallFits
<1>2. pc[w] \in {"domstate", "dominfo"} => call[w] \in StateCalls
  BY DEF CallFits, Fits
<1>3. ~ReadDomState(w)
  BY <1>0, <1>1, <1>2 DEF ReadDomState, VmState
<1>4. ~ReadDomInfo(w)
  <2> DEFINE s == IF saved # None THEN "Hibernated" ELSE "Stopped"
  <2>1. s \in VmState
    BY DEF VmState
  <2>2. ReadDomInfo(w) => pc[w] = "dominfo" /\ Continue(w, Handle(w, s))
    BY <1>0 DEF ReadDomInfo
  <2> HIDE DEF s
  <2> QED BY <1>1, <1>2, <2>1, <2>2
<1>5. ~(Finish(w) \/ Start(w) \/ WaitForAdb(w) \/ SaveEnds(w) \/ RemoveSaved(w))
  BY <1>0 DEF Finish, Start, WaitForAdb, SaveEnds, RemoveSaved
<1>6. ~(Shutdown(w) \/ PollAgain(w) \/ Deadline(w) \/ Destroy(w))
  BY <1>0 DEF Shutdown, PollAgain, Deadline, Destroy
<1>7. ~(CreateSnapshot(w) \/ RevertSnapshot(w) \/ DeleteSnapshot(w))
  BY <1>0 DEF CreateSnapshot, RevertSnapshot, DeleteSnapshot
<1>8. ~(SetAutostart(w) \/ ReconcileDomState(w))
  BY <1>0 DEF SetAutostart, ReconcileDomState
<1>9. ManagedSave(w)
  BY <1>3, <1>4, <1>5, <1>6, <1>7, <1>8 DEF WorkerStep
<1> QED BY <1>0, <1>9 DEF ManagedSave

\* At most one save runs.
LEMMA NextOneSave ==
    ASSUME TruthInv, [Next]_vars
    PROVE  OneSave'
<1>1. ASSUME NEW w \in Worker, NEW c \in Calls, Begin(w, c) PROVE OneSave'
  BY <1>1, BeginFacts DEF TruthInv, SafeInv, OneSave, Same
<1>2. ASSUME NEW w \in Worker, WorkerStep(w) PROVE OneSave'
  <2>1. pc'[w] = "saving" => dom \in {"running", "suspended"}
    BY <1>2, SaveBegins DEF TruthInv
  <2> QED BY <1>2, <2>1, WorkerFrame DEF TruthInv, SafeInv, OneSave, Same, KnowsAt
<1>3. ASSUME NEW w \in Worker, Kill(w) PROVE OneSave'
  BY <1>3, KillFacts DEF TruthInv, SafeInv, OneSave, Same
<1>4. CASE GuestStep
  BY <1>4 DEF GuestStep, GuestWrites, GuestShutsDown, QemuExits, GuestSuspends, GuestWakes,
     worker, TruthInv, OneSave
<1>5. CASE HostCrash
  BY <1>5 DEF HostCrash, OneSave
<1>6. CASE UNCHANGED vars
  BY <1>6 DEF vars, worker, TruthInv, OneSave
<1> QED BY <1>1, <1>2, <1>3, <1>4, <1>5, <1>6 DEF Next, Environment, GuestStep

\* The discipline for results includes the one for data.
LEMMA DisciplineCovers ==
    ASSUME UnlockedApart
    PROVE  SnapshotsApart /\ Calls \cap UnlockedCalls \subseteq Apart
BY DEF UnlockedApart, SnapshotsApart, UnlockedCalls, SnapCalls, LockedCalls

\* What each worker knows stays true, whoever takes the step.
LEMMA NextTrue ==
    ASSUME UnlockedApart, "orphan" \notin Faults, TruthInv, [Next]_vars
    PROVE  TruthInv'
<1>1. SafeInv' /\ LockHeld' /\ OnlySavesAreLeft' /\ OneSave'
  BY DisciplineCovers, NextSafe, NextLockHeld, NextOnlySaves, NextOneSave DEF TruthInv, SafeInv
<1>8. Alone(UnlockedCalls)'
  BY DisciplineCovers, NextAlone DEF TruthInv, SafeInv
<1>2. ASSUME NEW w \in Worker, NEW c \in Calls, Begin(w, c), NEW u \in Worker
      PROVE  KnowsAt(u)'
  <2>1. CASE u # w
    BY <1>2, <2>1, BeginFacts DEF TruthInv, SafeInv, KnowsAt, Same, libvirt
  <2>2. CASE u = w
    <3>1. polls'[w] = 0
      BY <1>2 DEF Begin, TruthInv, SafeInv, Typing, CallFits
    <3> QED BY <1>2, <2>2, <3>1, BeginFacts DEF TruthInv, SafeInv, KnowsAt
  <2> QED BY <2>1, <2>2
<1>3. ASSUME NEW w \in Worker, WorkerStep(w), NEW u \in Worker PROVE KnowsAt(u)'
  BY <1>3, OwnStepTrue, OtherStepTrue
<1>4. ASSUME NEW w \in Worker, Kill(w), NEW u \in Worker PROVE KnowsAt(u)'
  <2>1. pc'[u] = "idle" \/ Same(u) \/ (u = w /\ pc'[u] = pc[u] /\ pc[u] = "saving")
    BY <1>4, KillFacts DEF TruthInv, SafeInv
  <2>2. UNCHANGED libvirt
    BY <1>4, KillFacts DEF TruthInv, SafeInv
  <2> QED BY <2>1, <2>2 DEF TruthInv, KnowsAt, Same, libvirt
<1>5. CASE GuestStep
  <2>1. \A u \in Worker : KnowsAt(u)'
    BY <1>5 DEF GuestStep, GuestWrites, GuestShutsDown, QemuExits, GuestSuspends, GuestWakes,
       worker, TruthInv, KnowsAt
  <2> QED BY <1>1, <1>8, <2>1 DEF TruthInv
<1>6. CASE HostCrash
  <2>1. \A u \in Worker : KnowsAt(u)'
    BY <1>6 DEF HostCrash, KnowsAt
  <2> QED BY <1>1, <1>8, <2>1 DEF TruthInv
<1>7. CASE UNCHANGED vars
  <2>1. \A u \in Worker : KnowsAt(u)'
    BY <1>7 DEF vars, libvirt, worker, TruthInv, KnowsAt
  <2> QED BY <1>1, <1>8, <2>1 DEF TruthInv
<1> QED BY <1>1, <1>2, <1>3, <1>4, <1>5, <1>6, <1>7, <1>8 DEF Next, Environment, GuestStep, TruthInv

\* The inductive invariant behind OutcomeTrue.
THEOREM TruthInvariant ==
    ASSUME UnlockedApart, "orphan" \notin Faults
    PROVE  Spec => []TruthInv
<1>1. Init => TruthInv
  <2> SUFFICES ASSUME Init PROVE TruthInv
    OBVIOUS
  <2>1. SafeInv
    BY InitTyping DEF Init, SafeInv, InPlay, Alone, QuietAt, Making, SavedMatchesDisk, TakenOff
  <2> QED BY <2>1 DEF Init, TruthInv, Alone, Making, LockHeld, Holds, OnlySavesAreLeft, OneSave,
      KnowsAt
<1>2. TruthInv /\ [Next]_vars => TruthInv'
  BY NextTrue
<1> QED BY <1>1, <1>2, PTL DEF Spec

\* When killing hostctl kills its virsh child, and unlocked calls keep to themselves,
\* a call that reports Stopped or Hibernated is right, and stays right until it lets
\* go of the lock.
THEOREM OutcomeIsTrue ==
    ASSUME UnlockedApart, "orphan" \notin Faults
    PROVE  Spec => []OutcomeTrue
<1>1. TruthInv => OutcomeTrue
  BY DEF TruthInv, KnowsAt, OutcomeTrue
<1> QED BY <1>1, TruthInvariant, PTL

\* With snapshot commands apart a guest that is on is switched off only by a host crash or a
\* stop that was told to force, and only once it has waited for its deadline.
THEOREM PowerCutsAreForced ==
    ASSUME SnapshotsApart
    PROVE  Spec => NoPowerCutUnlessForced
<1> DEFINE Forced == dom' = "shut off" /\ dom \in {"running", "suspended"} =>
              HostCrash \/ \E w \in Worker : call[w] = "stop_force" /\ pc[w] = "destroy"
<1>1. ASSUME SafeInv, NEW w \in Worker, WorkerStep(w), dom \in {"running", "suspended"},
             dom' = "shut off"
      PROVE  Destroy(w)
  <2>1. dom' # dom
    BY <1>1
  <2>2. ASSUME NEW allowed PROVE ~Fail(w, allowed)
    BY <2>1 DEF Fail, libvirt
  <2>3. ~(Finish(w) \/ WaitForAdb(w) \/ Deadline(w) \/ PollAgain(w) \/ ReadDomState(w)
            \/ ReadDomInfo(w) \/ Shutdown(w) \/ SetAutostart(w) \/ ReconcileDomState(w))
    BY <2>1, <2>2 DEF Finish, WaitForAdb, Deadline, PollAgain, ReadDomState, ReadDomInfo, Shutdown,
                      SetAutostart, ReconcileDomState, libvirt
  <2>4. ~(Start(w) \/ ManagedSave(w) \/ SaveEnds(w) \/ RemoveSaved(w))
    BY <1>1, <2>1, <2>2 DEF Start, ManagedSave, SaveEnds, RemoveSaved
  <2>5. pc[w] \notin SnapCalls
    BY <1>1 DEF SafeInv, Typing, CallFits, Fits, QuietAt, Making, SnapCalls
  <2>6. ~(CreateSnapshot(w) \/ RevertSnapshot(w) \/ DeleteSnapshot(w))
    BY <2>5 DEF CreateSnapshot, RevertSnapshot, DeleteSnapshot, SnapCalls
  <2> QED BY <1>1, <2>3, <2>4, <2>6 DEF WorkerStep
<1>2. ASSUME SafeInv, [Next]_vars PROVE Forced
  <2> SUFFICES ASSUME dom \in {"running", "suspended"}, dom' = "shut off"
               PROVE  HostCrash \/ \E w \in Worker : call[w] = "stop_force" /\ pc[w] = "destroy"
    OBVIOUS
  <2>1. ASSUME NEW w \in Worker, WorkerStep(w) PROVE call[w] = "stop_force" /\ pc[w] = "destroy"
    BY <1>1, <1>2, <2>1 DEF Destroy, SafeInv, Typing, CallFits, Fits
  <2>2. ASSUME NEW w \in Worker, NEW c \in Calls, Begin(w, c) PROVE FALSE
    BY <2>2 DEF Begin, libvirt
  <2>3. ASSUME NEW w \in Worker, Kill(w) PROVE FALSE
    BY <2>3 DEF Kill, libvirt
  <2>4. ~(GuestStep \/ UNCHANGED vars)
    BY DEF GuestStep, GuestWrites, GuestShutsDown, QemuExits, GuestSuspends, GuestWakes, vars,
           libvirt
  <2> QED BY <1>2, <2>1, <2>2, <2>3, <2>4 DEF Next, Environment, GuestStep
<1>3. SafeInv /\ [Next]_vars => [Forced]_vars
  BY <1>2
<1> QED BY <1>3, SafeInvariant, PTL DEF Spec, NoPowerCutUnlessForced

\* With snapshot commands apart a hibernated VM is frozen: its disk and its snapshots stay
\* as they are until it is resumed or its RAM image is dropped.
THEOREM HibernatedIsFrozen ==
    ASSUME SnapshotsApart
    PROVE  Spec => [][Power = "Hibernated" => UNCHANGED <<disk, snaps>>]_vars
<1>1. SafeInv /\ [Next]_vars => [Power = "Hibernated" => UNCHANGED <<disk, snaps>>]_vars
  BY DataStep DEF PowerStep, SnapshotStep, GuestWrites, Power
<1> QED BY <1>1, SafeInvariant, PTL DEF Spec

-----------------------------------------------------------------------------
(* Calls are finite, with no discipline and no assumption on faults.  That  *)
(* they return needs fairness in addition.                                 *)

\* A call starts with at most 4 * MaxPolls + 7 steps before it, and is never at its end
\* before it is idle.
LEMMA RankFacts ==
    ASSUME NEW k \in 0 .. MaxPolls
    PROVE  /\ \A p \in PC : Rank(p, k) \in 0 .. 4 * MaxPolls + 7
           /\ \A p \in PC \ {"idle"} : Rank(p, k) >= 1
           /\ Rank("idle", k) = 0 /\ Rank("return", k) = 1
           /\ \A p \in PC \ {"idle", "return"} : Rank("return", k) < Rank(p, k)
           /\ \A p \in PC \ {"domstate", "dominfo"} : /\ Rank(p, k) < Rank("dominfo", k)
                                                     /\ Rank(p, k) < Rank("domstate", k)
           /\ Rank("dominfo", k) < Rank("domstate", k)
           /\ Rank("adb", k) < Rank("start", k)
           /\ Rank("saving", k) < Rank("managedsave", k)
           /\ Rank("start", k) < Rank("rc_domstate", k)
           /\ Rank("rc_domstate", k) < Rank("autostart", k)
           /\ Rank("loop", k) < Rank("shutdown", k)
           /\ Rank("destroy", k) < Rank("loop", k)
           /\ k < MaxPolls => Rank("domstate", k + 1) < Rank("loop", k)
<1>1. MaxPolls \in Nat /\ k \in Nat /\ 0 <= k /\ k <= MaxPolls
  BY PollBound
<1> QED BY <1>1 DEF Rank, PC, Commands, SnapCalls

\* Going on to another point, or vanishing, nears the end if that point is nearer.
LEMMA ContinueNears ==
    ASSUME Typing, NEW w \in Worker, NEW step, Continue(w, step), pc[w] # "idle",
           Rank(step.pc, polls[w]) < Rank(pc[w], polls[w])
    PROVE  Rank(pc'[w], polls'[w]) < Rank(pc[w], polls[w])
<1>1. polls[w] \in 0 .. MaxPolls /\ pc[w] \in PC
  BY DEF Typing, TypeOK
<1>2. CASE alive[w]
  BY <1>2 DEF Continue, Typing, TypeOK, Vanish
<1>3. CASE ~alive[w]
  <2>1. pc'[w] = "idle" /\ polls'[w] = 0
    BY <1>3 DEF Continue, Vanish, Typing, TypeOK
  <2>2. Rank("idle", 0) = 0 /\ Rank(pc[w], polls[w]) >= 1
    BY <1>1, RankFacts, PollBound
  <2>3. Rank(pc[w], polls[w]) \in Nat
    BY <1>1, RankFacts, PollBound
  <2> QED BY <2>1, <2>2, <2>3
<1> QED BY <1>2, <1>3

\* Each step of a call nears its end.
LEMMA OwnStepNears ==
    ASSUME Typing, NEW w \in Worker, WorkerStep(w)
    PROVE  Rank(pc'[w], polls'[w]) < Rank(pc[w], polls[w])
<1>1. polls[w] \in 0 .. MaxPolls /\ pc[w] \in PC
  BY DEF Typing, TypeOK
<1>2. pc[w] # "idle"
  BY WorkerFrame
<1>3. ASSUME NEW r, Continue(w, Return(r)), pc[w] # "return"
      PROVE  Rank(pc'[w], polls'[w]) < Rank(pc[w], polls[w])
  <2>1. Return(r).pc = "return"
    BY DEF Return
  <2>2. Rank("return", polls[w]) < Rank(pc[w], polls[w])
    BY <1>1, <1>2, <1>3, RankFacts
  <2> QED BY <1>2, <1>3, <2>1, <2>2, ContinueNears
<1>4. ASSUME NEW p \in PC, Continue(w, Goto(p)), Rank(p, polls[w]) < Rank(pc[w], polls[w])
      PROVE  Rank(pc'[w], polls'[w]) < Rank(pc[w], polls[w])
  BY <1>2, <1>4, ContinueNears DEF Goto
<1>5. ASSUME NEW allowed, Fail(w, allowed), pc[w] # "return"
      PROVE  Rank(pc'[w], polls'[w]) < Rank(pc[w], polls[w])
  BY <1>3, <1>5 DEF Fail
<1>6. ASSUME NEW s \in VmState, Continue(w, Handle(w, s)), pc[w] \in {"domstate", "dominfo"}
      PROVE  Rank(pc'[w], polls'[w]) < Rank(pc[w], polls[w])
  <2>1. Handle(w, s).pc \in PC \ {"domstate", "dominfo"}
    BY <1>6, HandleFacts DEF Typing, CallFits, Fits
  <2>2. Rank(Handle(w, s).pc, polls[w]) < Rank(pc[w], polls[w])
    BY <1>1, <1>6, <2>1, RankFacts
  <2> QED BY <1>2, <1>6, <2>2, ContinueNears
<1>7. CASE Finish(w)
  <2>1. pc'[w] = "idle" /\ polls'[w] = 0 /\ pc[w] = "return"
    BY <1>7 DEF Finish, Vanish, Typing, TypeOK
  <2> QED BY <1>1, <2>1, RankFacts, PollBound
<1>8. CASE ReadDomState(w)
  <2>1. pc[w] = "domstate"
    BY <1>8 DEF ReadDomState
  <2>2. Rank("dominfo", polls[w]) < Rank("domstate", polls[w])
    BY <1>1, RankFacts
  <2> QED BY <1>3, <1>4, <1>5, <1>6, <1>8, <2>1, <2>2 DEF ReadDomState, VmState, PC
<1>9. CASE ReadDomInfo(w)
  <2> DEFINE s == IF saved # None THEN "Hibernated" ELSE "Stopped"
  <2>1. pc[w] = "dominfo" /\ s \in VmState
    BY <1>9 DEF ReadDomInfo, VmState
  <2>2. Fail(w, TRUE) \/ Continue(w, Handle(w, s))
    BY <1>9 DEF ReadDomInfo
  <2> HIDE DEF s
  <2> QED BY <1>5, <1>6, <2>1, <2>2
<1>10. CASE Start(w)
  <2>1. pc[w] = "start" /\ Rank("adb", polls[w]) < Rank("start", polls[w])
    BY <1>1, <1>10, RankFacts DEF Start
  <2> QED BY <1>3, <1>4, <1>5, <1>10, <2>1 DEF Start, PC
<1>11. CASE WaitForAdb(w)
  BY <1>3, <1>11 DEF WaitForAdb
<1>12. CASE ManagedSave(w)
  <2>1. pc[w] = "managedsave" /\ Rank("saving", polls[w]) < Rank("managedsave", polls[w])
    BY <1>1, <1>12, RankFacts DEF ManagedSave
  <2>2. Fail(w, dom = "running") \/ (pc' = [pc EXCEPT ![w] = "saving"] /\ polls' = polls)
    BY <1>12 DEF ManagedSave
  <2> QED BY <1>5, <2>1, <2>2 DEF Typing, TypeOK
<1>13. CASE SaveEnds(w) \/ RemoveSaved(w) \/ Destroy(w)
  BY <1>3, <1>5, <1>13 DEF SaveEnds, RemoveSaved, Destroy
<1>14. CASE Shutdown(w)
  <2>1. pc[w] = "shutdown" /\ Rank("loop", polls[w]) < Rank("shutdown", polls[w])
    BY <1>1, <1>14, RankFacts DEF Shutdown
  <2> QED BY <1>4, <1>5, <1>14, <2>1 DEF Shutdown, PC
<1>15. CASE PollAgain(w)
  <2>1. /\ pc[w] = "loop" /\ pc'[w] = "domstate" /\ polls'[w] = polls[w] + 1
        /\ polls[w] < MaxPolls
    BY <1>15 DEF PollAgain, Typing, TypeOK
  <2> QED BY <1>1, <2>1, RankFacts
<1>16. CASE Deadline(w)
  <2>1. pc[w] = "loop" /\ Rank("destroy", polls[w]) < Rank("loop", polls[w])
    BY <1>1, <1>16, RankFacts DEF Deadline
  <2> QED BY <1>3, <1>4, <1>16, <2>1 DEF Deadline, PC, Commands
<1>17. CASE CreateSnapshot(w) \/ RevertSnapshot(w) \/ DeleteSnapshot(w)
  BY <1>3, <1>5, <1>17 DEF CreateSnapshot, RevertSnapshot, DeleteSnapshot
<1>18. CASE SetAutostart(w)
  <2>1. /\ pc[w] = "autostart"
        /\ Rank("rc_domstate", polls[w]) < Rank("autostart", polls[w])
    BY <1>1, <1>18, RankFacts DEF SetAutostart
  <2> QED BY <1>3, <1>4, <1>5, <1>18, <2>1 DEF SetAutostart, PC
<1>19. CASE ReconcileDomState(w)
  <2>1. pc[w] = "rc_domstate" /\ Rank("start", polls[w]) < Rank("rc_domstate", polls[w])
    BY <1>1, <1>19, RankFacts DEF ReconcileDomState
  <2> QED BY <1>3, <1>4, <1>5, <1>19, <2>1 DEF ReconcileDomState, PC, Commands
<1> QED BY <1>7, <1>8, <1>9, <1>10, <1>11, <1>12, <1>13, <1>14, <1>15, <1>16, <1>17, <1>18, <1>19
        DEF WorkerStep

\* Whatever the other calls, the guest, libvirt and faults do, and however they overlap, a
\* call has fewer steps before it after each of its own, and never more after theirs:
\* stop's loop cannot be kept turning.
THEOREM CallsAreFinite == Spec => EachStepNearsTheEnd
<1> DEFINE Nears(w) == pc[w] # "idle" => \/ pc'[w] = pc[w] /\ polls'[w] = polls[w]
                                         \/ Rank(pc'[w], polls'[w]) < Rank(pc[w], polls[w])
<1>1. ASSUME Typing, NEW w \in Worker, pc'[w] = "idle", polls'[w] = 0 PROVE Nears(w)
  <2>1. polls[w] \in 0 .. MaxPolls /\ pc[w] \in PC
    BY <1>1 DEF Typing, TypeOK
  <2>2. /\ Rank("idle", 0) = 0
        /\ pc[w] # "idle" => Rank(pc[w], polls[w]) >= 1 /\ Rank(pc[w], polls[w]) \in Nat
    BY <2>1, RankFacts, PollBound
  <2> QED BY <1>1, <2>2
<1>2. ASSUME Typing, [Next]_vars PROVE \A w \in Worker : Nears(w)
  <2>1. ASSUME NEW w \in Worker, NEW c \in Calls, Begin(w, c) PROVE \A u \in Worker : Nears(u)
    BY <1>2, <2>1, BeginFacts DEF Same
  <2>2. ASSUME NEW w \in Worker, WorkerStep(w) PROVE \A u \in Worker : Nears(u)
    BY <1>2, <2>2, WorkerFrame, OwnStepNears DEF Same
  <2>3. ASSUME NEW w \in Worker, Kill(w) PROVE \A u \in Worker : Nears(u)
    <3>1. \/ pc'[w] = "idle" /\ polls'[w] = 0
          \/ pc'[w] = pc[w] /\ polls'[w] = polls[w]
      BY <1>2, <2>3 DEF Kill, Vanish, Typing, TypeOK
    <3> QED BY <1>1, <1>2, <2>3, <3>1, KillFacts DEF Same
  <2>4. CASE GuestStep \/ UNCHANGED vars
    BY <2>4 DEF GuestStep, GuestWrites, GuestShutsDown, QemuExits, GuestSuspends, GuestWakes,
       worker, vars
  <2>5. CASE HostCrash
    BY <1>1, <1>2, <2>5 DEF HostCrash
  <2> QED BY <1>2, <2>1, <2>2, <2>3, <2>4, <2>5 DEF Next, Environment, GuestStep
<1>3. Typing /\ [Next]_vars => [\A w \in Worker : Nears(w)]_vars
  BY <1>2
<1> QED BY <1>3, TypingInvariant, PTL DEF Spec, EachStepNearsTheEnd

-----------------------------------------------------------------------------
(***************************************************************************)
(* What is left without any discipline: reconcile and the snapshot         *)
(* commands overlap whatever they like, and orphans too.  The one command  *)
(* that can then do harm to data is a revert.                              *)
(***************************************************************************)
ForcedOff == \E w \in Worker : call[w] = "stop_force" /\ pc[w] = "destroy"
Reverts == \E w \in Worker : RevertSnapshot(w)
IsOn == {"running", "suspended"}

\* Everything that can become of domain, saved RAM and disk in one step.
LEMMA VmSteps ==
    ASSUME Typing, [Next]_vars
    PROVE  \/ UNCHANGED <<dom, saved, disk>>
           \/ dom' = "running" /\ saved' = None /\ disk' = disk
           \/ /\ dom \in IsOn /\ dom' \in IsOn \cup {"paused", "in shutdown"}
              /\ UNCHANGED <<saved, disk>>
           \/ dom = "paused" /\ dom' \in IsOn /\ UNCHANGED <<saved, disk>>
           \/ dom = "paused" /\ dom' = "shut off" /\ saved' = disk /\ disk' = disk
           \/ saved' = None /\ UNCHANGED <<dom, disk>>
           \/ /\ dom' = "shut off" /\ UNCHANGED <<saved, disk>>
              /\ dom = "in shutdown" \/ HostCrash \/ ForcedOff
           \/ (\E n \in SnapName : dom' = taken[n]) /\ UNCHANGED saved /\ Reverts
           \/ dom = "running" /\ UNCHANGED <<dom, saved>>
<1> USE DEF IsOn
<1> DEFINE Still == UNCHANGED <<dom, saved, disk>>
<1>1. ASSUME NEW w \in Worker, NEW c \in Calls, Begin(w, c) PROVE Still
  BY <1>1 DEF Begin, libvirt
<1>2. ASSUME NEW w \in Worker, Kill(w) PROVE Still
  BY <1>2 DEF Kill, libvirt
<1>3. ASSUME NEW w \in Worker, NEW allowed, Fail(w, allowed) PROVE Still
  BY <1>3 DEF Fail, libvirt
<1>4. ASSUME NEW w \in Worker,
             \/ Finish(w) \/ ReadDomState(w) \/ ReadDomInfo(w) \/ WaitForAdb(w) \/ Shutdown(w)
             \/ PollAgain(w) \/ Deadline(w) \/ CreateSnapshot(w) \/ DeleteSnapshot(w)
             \/ SetAutostart(w) \/ ReconcileDomState(w)
      PROVE  Still
  BY <1>3, <1>4 DEF Finish, ReadDomState, ReadDomInfo, WaitForAdb, Shutdown, PollAgain, Deadline,
              CreateSnapshot, DeleteSnapshot, SetAutostart, ReconcileDomState, libvirt
<1>5. ASSUME NEW w \in Worker, Start(w)
      PROVE  Still \/ (dom' = "running" /\ saved' = None /\ disk' = disk)
  BY <1>3, <1>5 DEF Start
<1>6. ASSUME NEW w \in Worker, ManagedSave(w)
      PROVE  Still \/ (dom \in IsOn /\ dom' = "paused" /\ UNCHANGED <<saved, disk>>)
  BY <1>3, <1>6 DEF ManagedSave
<1>7. ASSUME NEW w \in Worker, SaveEnds(w)
      PROVE  \/ Still
             \/ dom = "paused" /\ dom' \in IsOn /\ UNCHANGED <<saved, disk>>
             \/ dom = "paused" /\ dom' = "shut off" /\ saved' = disk /\ disk' = disk
  BY <1>7 DEF SaveEnds
<1>8. ASSUME NEW w \in Worker, RemoveSaved(w)
      PROVE  Still \/ (saved' = None /\ UNCHANGED <<dom, disk>>)
  BY <1>3, <1>8 DEF RemoveSaved
<1>9. ASSUME NEW w \in Worker, Destroy(w)
      PROVE  Still \/ (dom' = "shut off" /\ UNCHANGED <<saved, disk>> /\ ForcedOff)
  <2>1. call[w] = "stop_force" /\ pc[w] = "destroy"
    BY <1>9 DEF Destroy, Typing, CallFits, Fits
  <2> QED BY <1>3, <1>9, <2>1 DEF Destroy, ForcedOff
<1>10. ASSUME NEW w \in Worker, RevertSnapshot(w)
       PROVE  \/ Still
              \/ (\E n \in SnapName : dom' = taken[n]) /\ UNCHANGED saved /\ Reverts
  BY <1>3, <1>10 DEF RevertSnapshot, Reverts
<1>11. CASE GuestStep
  BY <1>11 DEF GuestStep, GuestWrites, GuestShutsDown, QemuExits, GuestSuspends, GuestWakes
<1>12. CASE HostCrash
  BY <1>12 DEF HostCrash
<1>13. CASE UNCHANGED vars
  BY <1>13 DEF vars, libvirt
<1> QED BY <1>1, <1>2, <1>4, <1>5, <1>6, <1>7, <1>8, <1>9, <1>10, <1>11, <1>12, <1>13
        DEF Next, Environment, GuestStep, WorkerStep

\* The discipline that keeps RAM out of snapshots: only `snapshot create` is kept apart.
CreatesApart == Calls \cap {"snap_create"} \subseteq Apart

\* What `snapshot create` has read of the domain is still so.
CreateSees == \A w \in Worker : Making(w, {"snap_create"}) /\ pc[w] \in {"dominfo", "snap_create"}
                                    => dom = "shut off"

CreateInv == Typing /\ InPlay /\ Alone({"snap_create"}) /\ CreateSees /\ TakenOff

\* Its own steps show it, and nobody else's disturb it.
LEMMA NextCreateSees ==
    ASSUME CreateInv, [Next]_vars
    PROVE  CreateSees'
<1> USE DEF CreateInv, CreateSees, Making
<1>1. ASSUME NEW w \in Worker, NEW c \in Calls, Begin(w, c) PROVE CreateSees'
  BY <1>1, BeginFacts DEF Same, libvirt
<1>2. ASSUME NEW w \in Worker, WorkerStep(w) PROVE CreateSees'
  <2>1. \A u \in Worker : u # w /\ Making(u, {"snap_create"})' => FALSE
    BY <1>2, WorkerFrame DEF Alone, Same
  <2>2. Making(w, {"snap_create"})' => pc[w] # "idle" /\ call[w] = "snap_create"
    BY <1>2, WorkerFrame
  <2>3. CASE call[w] = "snap_create" /\ pc[w] = "domstate"
    <3>1. ReadDomState(w)
      BY <1>2, <2>3 DEF WorkerStep, Finish, ReadDomInfo, Start, WaitForAdb, ManagedSave, SaveEnds,
         RemoveSaved, Shutdown, PollAgain, Deadline, Destroy, CreateSnapshot, RevertSnapshot,
         DeleteSnapshot, SetAutostart, ReconcileDomState
    <3>2. UNCHANGED libvirt
      BY <3>1 DEF ReadDomState, Fail
    <3>3. pc'[w] \in {"dominfo", "snap_create"} => dom = "shut off"
      <4>1. polls[w] = 0
        BY <2>3 DEF Typing, CallFits, StopCalls
      <4>2. Handle(w, "Running").pc \notin {"dominfo", "snap_create"}
        BY <2>3, <4>1, HandleFacts DEF VmState, StateCalls, SnapCalls
      <4> HIDE DEF Handle
      <4>3. pc'[w] \in {Handle(w, "Running").pc, "return", "idle"} \/ dom = "shut off"
        BY <2>3, <3>1 DEF ReadDomState, Fail, Continue, Vanish, Return, Goto, Typing, TypeOK
      <4> QED BY <4>2, <4>3
    <3> QED BY <2>1, <3>2, <3>3 DEF libvirt
  <2>4. CASE call[w] = "snap_create" /\ pc[w] = "dominfo"
    <3>1. ReadDomInfo(w)
      BY <1>2, <2>4 DEF WorkerStep, Finish, ReadDomState, Start, WaitForAdb, ManagedSave, SaveEnds,
         RemoveSaved, Shutdown, PollAgain, Deadline, Destroy, CreateSnapshot, RevertSnapshot,
         DeleteSnapshot, SetAutostart, ReconcileDomState
    <3>2. UNCHANGED libvirt /\ dom = "shut off"
      BY <2>4, <3>1 DEF ReadDomInfo, Fail
    <3> QED BY <2>1, <3>2 DEF libvirt
  <2>5. CASE call[w] = "snap_create" /\ pc[w] = "snap_create"
    <3>1. CreateSnapshot(w)
      BY <1>2, <2>5 DEF WorkerStep, Finish, ReadDomState, ReadDomInfo, Start, WaitForAdb,
         ManagedSave, SaveEnds, RemoveSaved, Shutdown, PollAgain, Deadline, Destroy,
         RevertSnapshot, DeleteSnapshot, SetAutostart, ReconcileDomState
    <3>2. dom' = dom
      BY <3>1 DEF CreateSnapshot, Fail, libvirt
    <3> QED BY <2>1, <2>5, <3>2
  <2>6. CASE call[w] = "snap_create" /\ pc[w] = "return"
    BY <1>2, <2>1, <2>6, WorkerFrame
  <2>7. call[w] = "snap_create" =>
            pc[w] \in {"idle", "domstate", "dominfo", "snap_create", "return"}
    BY DEF Typing, TypeOK, CallFits, Fits, PC, Commands, SnapCalls, StateCalls, StopCalls
  <2> QED BY <2>1, <2>2, <2>3, <2>4, <2>5, <2>6, <2>7
<1>3. ASSUME NEW w \in Worker, Kill(w) PROVE CreateSees'
  BY <1>3, KillFacts DEF Same, libvirt
<1>4. CASE GuestStep
  BY <1>4 DEF GuestStep, GuestWrites, GuestShutsDown, QemuExits, GuestSuspends, GuestWakes, worker
<1>5. CASE HostCrash
  BY <1>5 DEF HostCrash
<1>6. CASE UNCHANGED vars
  BY <1>6 DEF vars, libvirt, worker
<1> QED BY <1>1, <1>2, <1>3, <1>4, <1>5, <1>6 DEF Next, Environment, GuestStep

\* With `snapshot create` apart, and reverts, deletes, reconciles, kills and orphans wherever
\* they like, a managed-save image is only ever that of a VM that is off: no race makes
\* libvirt hold RAM for a guest that runs.
THEOREM ImagesOnlyOfStopped ==
    ASSUME CreatesApart
    PROVE  Spec => [](saved # None => dom = "shut off")
<1> DEFINE OffIfSaved == saved # None => dom = "shut off"
<1>1. Init => CreateInv /\ OffIfSaved
  BY InitTyping DEF Init, CreateInv, InPlay, Alone, Making, CreateSees, TakenOff
<1>2. CreateInv /\ [Next]_vars => CreateInv'
  <2> SUFFICES ASSUME CreateInv, [Next]_vars PROVE CreateInv'
    OBVIOUS
  <2>1. \A w \in Worker : pc[w] = "snap_create" => dom = "shut off"
    BY DEF CreateInv, CreateSees, Making, Typing, CallFits, Fits, SnapCalls
  <2> QED BY <2>1, NextTyping, NextInPlay, NextAlone, NextCreateSees, NextTakenOff
          DEF CreateInv, CreatesApart
<1>3. CreateInv /\ OffIfSaved /\ [Next]_vars => OffIfSaved'
  BY VmSteps DEF CreateInv, TakenOff, IsOn
<1> QED BY <1>1, <1>2, <1>3, PTL DEF Spec

\* A managed-save image is made of a VM that is off, for the disk it stands on, and stays so
\* until a snapshot is reverted under it: with no discipline at all the reverts that race are
\* the only steps that break SavedMatchesDisk.
THEOREM OnlyRevertsSpoil ==
    Spec => [][SavedMatchesDisk /\ ~SavedMatchesDisk' => Reverts]_vars
<1>1. ASSUME Typing, [Next]_vars, SavedMatchesDisk, ~SavedMatchesDisk' PROVE Reverts
  BY <1>1, VmSteps DEF SavedMatchesDisk, IsOn
<1>2. Typing /\ [Next]_vars => [SavedMatchesDisk /\ ~SavedMatchesDisk' => Reverts]_vars
  BY <1>1
<1> QED BY <1>2, TypingInvariant, PTL DEF Spec

\* Without the discipline there is one more way to cut the power of a guest that is on: a
\* revert.
THEOREM PowerCutsWithoutDiscipline ==
    Spec => [][dom' = "shut off" /\ dom \in IsOn => HostCrash \/ ForcedOff \/ Reverts]_vars
<1>1. ASSUME Typing, [Next]_vars, dom \in IsOn, dom' = "shut off"
      PROVE  HostCrash \/ ForcedOff \/ Reverts
  BY <1>1, VmSteps DEF IsOn
<1>2. Typing /\ [Next]_vars =>
          [dom' = "shut off" /\ dom \in IsOn => HostCrash \/ ForcedOff \/ Reverts]_vars
  BY <1>1
<1> QED BY <1>2, TypingInvariant, PTL DEF Spec
=============================================================================
