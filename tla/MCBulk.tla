-------------------------------- MODULE MCBulk --------------------------------
(* Small instances of Bulk for TLC. *)
EXTENDS Bulk
=============================================================================
