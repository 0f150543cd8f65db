-------------------------------- MODULE Filter --------------------------------
(***************************************************************************)
(* What the router's packet filter promises: there is none, or it is one   *)
(* policy, whole; one policy replaces another in one step; and once there  *)
(* is one, it goes away only with the router's kernel.                     *)
(***************************************************************************)
CONSTANTS
    Policies,   \* the sets of flows that come from valid configurations
    None        \* no table

VARIABLES
    up,         \* is the router's kernel running?
    table       \* the flows that are let through, or None

vars == <<up, table>>

Init == up = TRUE /\ table = None

Install == up /\ table' \in Policies /\ UNCHANGED up
GoDown == up /\ up' = FALSE /\ table' = None
ComeUp == ~up /\ up' = TRUE /\ UNCHANGED table

Next == Install \/ GoDown \/ ComeUp

Spec == Init /\ [][Next]_vars
=============================================================================
