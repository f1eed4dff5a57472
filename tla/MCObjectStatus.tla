--------------------------- MODULE MCObjectStatus ---------------------------
(* ObjectStatus for TLC: the scenarios of the runs. *)
EXTENDS ObjectStatus

Sc(kind_, edits, changes, moves, failures) ==
  [kind |-> kind_, edits |-> edits, changes |-> changes, moves |-> moves,
   failures |-> failures]

(* An HTTPProxy that is edited; one whose updates may fail; an address that   *)
(* changes twice; a Gateway whose conditions change.                         *)
ServedScenarios ==
  {Sc("httpproxy", 1, 1, 1, 0), Sc("httpproxy", 0, 1, 1, 1),
   Sc("httpproxy", 0, 0, 2, 0), Sc("gateway", 0, 2, 1, 0)}
=============================================================================
