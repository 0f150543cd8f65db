------------------------------- MODULE MCAccess -------------------------------
(* Small instances of Access for TLC. *)
EXTENDS Access

CONSTANTS k1, k2, v1, v2, s1, s2, f1, f2

\* The router's own address; the one whose VM takes the router's MAC; one that differs
\* from it in the second octet.
Addresses == {<<10, 0, 0, 1>>, <<10, 0, 0, 2>>, <<10, 9, 0, 2>>}

\* Each VM has a controller of its own; one edit away from admitting everybody.
OneConfig == {[controllers |-> {k1, k2}, active |-> {k1, k2},
               sources |-> [k \in Controller |-> IF k = k1 THEN {s1} ELSE {s2}],
               key |-> [k \in Controller |-> IF k = k1 THEN f1 ELSE f2],
               vms |-> {v1, v2},
               address |-> [v \in Vm |-> IF v = v1 THEN <<10, 0, 0, 2>> ELSE <<10, 9, 0, 2>>],
               only |-> [v \in Vm |-> IF v = v1 THEN {k1} ELSE {k2}],
               subnet |-> Addresses, lan |-> <<10, 0, 0, 1>>]}
=============================================================================
