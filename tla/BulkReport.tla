------------------------------ MODULE BulkReport ------------------------------
(***************************************************************************)
(* What a bulk command promises its user: every selected VM is tried and   *)
(* gets one row, whatever happens to the others; the rows are reported in  *)
(* inventory order, once all are there; the exit code tells whether one of *)
(* them failed.  How threads share the work is Bulk's business.            *)
(***************************************************************************)
EXTENDS Naturals

CONSTANTS
    N,      \* how many VMs are selected
    None    \* no row yet, no exit yet

VARIABLES
    row,    \* row[i]: the result for the i-th VM, or None
    exit    \* the exit code, or None while the command runs

vars == <<row, exit>>

Index == 0 .. N - 1
Result == {"ok", "error"}

Init == row = [i \in Index |-> None] /\ exit = None

\* Rows come in any order, and each is final.
Report(i) == /\ exit = None
             /\ row[i] = None
             /\ \E r \in Result : row' = [row EXCEPT ![i] = [vm |-> i, result |-> r]]
             /\ UNCHANGED exit

Exit == /\ exit = None
        /\ \A i \in Index : row[i] # None
        /\ exit' = IF \A i \in Index : row[i].result = "ok" THEN "success" ELSE "failure"
        /\ UNCHANGED row

Next == (\E i \in Index : Report(i)) \/ Exit

Spec == Init /\ [][Next]_vars
=============================================================================
