----------------------------- MODULE MCLifecycle -----------------------------
(* Small instances of Lifecycle for TLC. *)
EXTENDS Lifecycle

NoFaults == {}
Suspends == {"suspend"}
UnlockedCalls == AllCalls \ LockedCalls

\* The calls of the snapshot race, and of the race with reconcile.
SnapshotRace == {"start", "hibernate", "snap_create", "snap_revert"}
ReconcileRace == {"start", "stop", "hibernate", "reconcile"}
=============================================================================
