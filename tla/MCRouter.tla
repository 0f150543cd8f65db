------------------------------- MODULE MCRouter -------------------------------
(* Small instances of Router for TLC. *)
EXTENDS Router, TLC

CONSTANTS k1, k2, v1, v2, s1, s2, f1, f2

Addresses == {<<10, 0, 0, 1>>, <<10, 0, 0, 3>>, <<10, 0, 0, 4>>}

\* Every controller has one source; the VMs are at .3 and .4.
Basic == [controllers |-> {k1, k2}, active |-> {k1},
          sources |-> [k \in Controller |-> IF k = k1 THEN {s1} ELSE {s2}],
          key |-> [k \in Controller |-> IF k = k1 THEN f1 ELSE f2],
          vms |-> {v1, v2},
          address |-> [v \in Vm |-> <<10, 0, 0, IF v = v1 THEN 3 ELSE 4>>],
          only |-> [v \in Vm |-> {}],
          subnet |-> Addresses, lan |-> <<10, 0, 0, 1>>]

\* One controller for both VMs; the other one for one VM that is left: flows of which
\* neither contains the other's; and a file with two VMs at one address.
ThreeConfigs == {Basic, [Basic EXCEPT !.active = {k2}, !.vms = {v1}],
                 [Basic EXCEPT !.address[v2] = <<10, 0, 0, 3>>]}
Symmetry == Permutations(Script)
=============================================================================
