--------------------------- MODULE MCEventHandler ---------------------------
(* EventHandler for TLC: two objects with a status. *)
EXTENDS EventHandler

CONSTANTS o1, o2

TwoObjects == {o1, o2}
=============================================================================
