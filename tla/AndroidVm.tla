------------------------------ MODULE AndroidVm ------------------------------
(***************************************************************************)
(* What hostctl promises about one persistent Android VM: the three stable *)
(* power states of lifecycle::VmState, and which of them each piece of     *)
(* persistent data may change in.  There is no lock, no virsh command and  *)
(* no concurrency here: Lifecycle has those and implements this module.    *)
(***************************************************************************)
CONSTANTS
    Content,    \* what the overlay disk can hold
    SnapName,   \* names of internal qcow2 snapshots
    None        \* no such snapshot

VARIABLES
    power,      \* "Running", "Stopped" or "Hibernated"
    disk,       \* content of the overlay disk
    snaps       \* the disk content each snapshot holds, or None

vars == <<power, disk, snaps>>

VmState == {"Running", "Stopped", "Hibernated"}

Init == /\ power = "Stopped"
        /\ disk \in Content
        /\ snaps = [n \in SnapName |-> None]

\* A running VM stops or hibernates, a stopped one boots, a hibernated one
\* resumes or has its RAM image discarded.  Only Stopped -> Hibernated is missing:
\* there is no RAM to save.
ChangePower == /\ \E p \in VmState : /\ <<power, p>> # <<"Stopped", "Hibernated">>
                                     /\ power' = p
               /\ UNCHANGED <<disk, snaps>>

\* Only a running guest writes: a hibernated VM's RAM image therefore always
\* belongs to the disk it will be resumed on.
Write == /\ power = "Running"
         /\ disk' \in Content
         /\ UNCHANGED <<power, snaps>>

TakeSnapshot(n) == /\ power = "Stopped"
                   /\ snaps' = [snaps EXCEPT ![n] = disk]
                   /\ UNCHANGED <<power, disk>>

RevertTo(n) == /\ power = "Stopped"
               /\ snaps[n] # None
               /\ disk' = snaps[n]
               /\ UNCHANGED <<power, snaps>>

DropSnapshot(n) == /\ power = "Stopped"
                   /\ snaps' = [snaps EXCEPT ![n] = None]
                   /\ UNCHANGED <<power, disk>>

Next == \/ ChangePower
        \/ Write
        \/ \E n \in SnapName : TakeSnapshot(n) \/ RevertTo(n) \/ DropSnapshot(n)

Spec == Init /\ [][Next]_vars
=============================================================================
