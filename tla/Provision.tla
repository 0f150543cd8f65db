------------------------------ MODULE Provision ------------------------------
(***************************************************************************)
(* provision::create (hostctl vm create) and provision::ensure (reconcile) *)
(* for ONE Android VM, one system call or child process at a time, run by  *)
(* several hostctl processes: neither takes VmLock.  The files are those   *)
(* of storage.vm_dir: the overlay disk and one temporary file per pid.     *)
(***************************************************************************)
EXTENDS Naturals

CONSTANTS
    Proc,   \* process ids; a pid may be used again after its process ends
    None,   \* no overlay disk
    Modes   \* what the environment may do, see below

(***************************************************************************)
(* "alone": only one process at a time works on the VM, virsh define may   *)
(* fail; "steady": processes overlap, virsh define always works;           *)
(* "any": processes overlap and virsh define may fail.                     *)
(***************************************************************************)
ASSUME ProvisionAssumption == /\ None \notin Proc
                              /\ Modes \subseteq {"alone", "steady", "any"}

VARIABLES
    mode,      \* the environment of this behaviour
    disk,      \* whose overlay is linked at disk_path, or None
    temp,      \* temp[p]: does .NAME.qcow2.tmp-p exist?
    defined,   \* does libvirt know the domain?
    used,      \* has the guest run on this disk?
    pc,        \* where each process is
    ok         \* ok[p]: the result it is about to return is Ok

files == <<disk, temp>>
vars == <<mode, files, defined, used, pc, ok>>

Calls == {"create", "ensure"}
PC == {"idle", "ensure", "create", "info", "temp", "qemu-img", "link", "drop temp",
       "unlink temp", "define", "rollback", "define only", "return"}

TypeOK == /\ mode \in Modes
          /\ disk \in Proc \cup {None}
          /\ temp \in [Proc -> BOOLEAN]
          /\ defined \in BOOLEAN
          /\ used \in BOOLEAN
          /\ pc \in [Proc -> PC]
          /\ ok \in [Proc -> BOOLEAN]
          /\ \A p \in Proc : ok[p] => pc[p] = "return"
          \* what is linked or dropped is there
          /\ \A p \in Proc : pc[p] \in {"link", "drop temp", "unlink temp"} => temp[p]

Init == /\ mode \in Modes
        /\ disk = None
        /\ temp = [p \in Proc |-> FALSE]
        /\ defined = FALSE
        /\ used = FALSE
        /\ pc = [p \in Proc |-> "idle"]
        /\ ok = [p \in Proc |-> FALSE]

Goto(p, l) == pc' = [pc EXCEPT ![p] = l] /\ UNCHANGED ok
Return(p, r) == pc' = [pc EXCEPT ![p] = "return"] /\ ok' = [ok EXCEPT ![p] = r]

Begin(p, c) == /\ pc[p] = "idle"
               /\ mode = "alone" => \A q \in Proc : pc[q] = "idle"
               /\ Goto(p, c)
               /\ UNCHANGED <<mode, files, defined, used>>

\* ensure: an existing disk only has its domain defined again.
EnsureExists(p) == /\ pc[p] = "ensure"
                   /\ Goto(p, IF disk # None THEN "define only" ELSE "create")
                   /\ UNCHANGED <<mode, files, defined, used>>

\* The base image may be missing; an existing disk is refused.
CheckDisk(p) == /\ pc[p] = "create"
                /\ \/ Return(p, FALSE)
                   \/ disk = None /\ Goto(p, "info")
                /\ UNCHANGED <<mode, files, defined, used>>

\* qemu-img info fails, or finds another format than qcow2.
CheckBase(p) == /\ pc[p] = "info"
                /\ Return(p, FALSE) \/ Goto(p, "temp")
                /\ UNCHANGED <<mode, files, defined, used>>

CheckTemp(p) == /\ pc[p] = "temp"
                /\ IF temp[p] THEN Return(p, FALSE) ELSE Goto(p, "qemu-img")
                /\ UNCHANGED <<mode, files, defined, used>>

\* Faulty (here and below, variants above the definition they get wrong, not used by
\* it): nobody looks at the exit status of qemu-img create.
CreateOverlayUnchecked(p) == /\ pc[p] = "qemu-img"
                             /\ \E left \in BOOLEAN : temp' = [temp EXCEPT ![p] = left]
                             /\ Goto(p, "link")
                             /\ UNCHANGED <<mode, disk, defined, used>>

\* A failed qemu-img create may leave part of the temporary file.
CreateOverlay(p) == /\ pc[p] = "qemu-img"
                    /\ \/ temp' = [temp EXCEPT ![p] = TRUE] /\ Goto(p, "link")
                       \/ /\ \E left \in BOOLEAN : temp' = [temp EXCEPT ![p] = left]
                          /\ Return(p, FALSE)
                    /\ UNCHANGED <<mode, disk, defined, used>>

\* Faulty: the overlay is published with a rename, which overwrites.
LinkOverwrites(p) == /\ pc[p] = "link"
                     /\ disk' = p
                     /\ used' = FALSE
                     /\ Goto(p, "unlink temp")
                     /\ UNCHANGED <<mode, temp, defined>>

\* hard_link publishes the overlay only where there is no file yet.
Link(p) == /\ pc[p] = "link"
           /\ \/ /\ disk = None
                 /\ disk' = p
                 /\ used' = FALSE
                 /\ Goto(p, "unlink temp")
              \/ /\ Goto(p, "drop temp")
                 /\ UNCHANGED <<disk, used>>
           /\ UNCHANGED <<mode, temp, defined>>

\* Its own failure is ignored.
DropTemp(p) == /\ pc[p] = "drop temp"
               /\ \E left \in BOOLEAN : temp' = [temp EXCEPT ![p] = left]
               /\ Return(p, FALSE)
               /\ UNCHANGED <<mode, disk, defined, used>>

\* Failing here leaves a disk without a domain: ensure defines it later.
UnlinkTemp(p) == /\ pc[p] = "unlink temp"
                 /\ \/ temp' = [temp EXCEPT ![p] = FALSE] /\ Goto(p, "define")
                    \/ UNCHANGED temp /\ Return(p, FALSE)
                 /\ UNCHANGED <<mode, disk, defined, used>>

DefineFails == mode # "steady" /\ UNCHANGED defined

\* Faulty: the failure of virsh define is swallowed.
DefineSwallowed(p) == /\ pc[p] = "define"
                      /\ \/ defined' = TRUE /\ Return(p, TRUE)
                         \/ DefineFails /\ Return(p, TRUE)
                      /\ UNCHANGED <<mode, files, used>>

Define(p) == /\ pc[p] = "define"
             /\ \/ defined' = TRUE /\ Return(p, TRUE)
                \/ DefineFails /\ Goto(p, "rollback")
             /\ UNCHANGED <<mode, files, used>>

\* remove_file takes whatever is at disk_path.
Rollback(p) == /\ pc[p] = "rollback"
               /\ disk' \in {disk, None}
               /\ Return(p, FALSE)
               /\ UNCHANGED <<mode, temp, defined, used>>

\* Faulty: ensure shares create's rollback.
DefineOnlyRollsBack(p) == /\ pc[p] = "define only"
                          /\ \/ defined' = TRUE /\ Return(p, TRUE)
                             \/ DefineFails /\ Goto(p, "rollback")
                          /\ UNCHANGED <<mode, files, used>>

DefineOnly(p) == /\ pc[p] = "define only"
                 /\ \/ defined' = TRUE /\ Return(p, TRUE)
                    \/ DefineFails /\ Return(p, FALSE)
                 /\ UNCHANGED <<mode, files, used>>

Finish(p) == /\ pc[p] = "return"
             /\ pc' = [pc EXCEPT ![p] = "idle"]
             /\ ok' = [ok EXCEPT ![p] = FALSE]
             /\ UNCHANGED <<mode, files, defined, used>>

\* The process dies between two steps; its files stay.
Kill(p) == /\ pc[p] # "idle"
           /\ pc' = [pc EXCEPT ![p] = "idle"]
           /\ ok' = [ok EXCEPT ![p] = FALSE]
           /\ UNCHANGED <<mode, files, defined, used>>

\* A defined domain may be started by anyone, and the guest writes to its disk.
GuestRuns == /\ defined /\ disk # None
             /\ used' = TRUE
             /\ UNCHANGED <<mode, files, defined, pc, ok>>

ProcStep(p) ==
    \/ EnsureExists(p) \/ CheckDisk(p) \/ CheckBase(p) \/ CheckTemp(p)
    \/ CreateOverlay(p) \/ Link(p) \/ DropTemp(p) \/ UnlinkTemp(p)
    \/ Define(p) \/ Rollback(p) \/ DefineOnly(p) \/ Finish(p)

Next == \/ \E p \in Proc : (\E c \in Calls : Begin(p, c)) \/ ProcStep(p) \/ Kill(p)
        \/ GuestRuns

Spec == Init /\ [][Next]_vars

-----------------------------------------------------------------------------
(* Properties.                                                             *)

\* create and ensure never replace an existing overlay, and a rollback only ever takes
\* back a disk that belongs to no domain: no VM loses its persistent disk.
DiskKept == [][disk # None => \/ disk' = disk
                              \/ disk' = None /\ ~defined /\ ~used]_vars

\* libvirt never holds a domain whose disk is gone.
NoDisklessDomain == defined => disk # None

D == INSTANCE Disks WITH Vm <- {"vm"},
                         disks <- IF disk = None THEN {} ELSE {"vm"},
                         domains <- IF defined THEN {"vm"} ELSE {}

\* The processes that work on the VM, their kills and rollbacks included, keep what Disks
\* promises of one VM: to reconcile, ensure is one step.
ImplementsDisks == D!Spec

\* A create or ensure that reports success leaves a defined domain on a disk.
SuccessMeansReady == \A p \in Proc : ok[p] => defined /\ disk # None
=============================================================================
