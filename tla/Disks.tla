--------------------------------- MODULE Disks ---------------------------------
(***************************************************************************)
(* What create, ensure and reconcile promise of the persistent disks of    *)
(* the configured VMs: libvirt is told of a VM only once its disk is       *)
(* there, keeps it for good, and a disk is taken away only as long as      *)
(* libvirt has not been told.                                              *)
(***************************************************************************)
CONSTANT
    Vm          \* the configured VMs

VARIABLES
    disks,      \* the VMs that have an overlay disk
    domains     \* the VMs whose domain libvirt knows

vars == <<disks, domains>>

Init == disks = {} /\ domains = {}

\* A VM gets a disk, or keeps the one it has; it may get its domain with it.
Provide(v) == /\ disks' = disks \cup {v}
              /\ domains' \in {domains, domains \cup {v}}

TakeBack(v) == /\ v \notin domains
               /\ disks' = disks \ {v}
               /\ UNCHANGED domains

Next == \E v \in Vm : Provide(v) \/ TakeBack(v)

Spec == Init /\ [][Next]_vars
=============================================================================
