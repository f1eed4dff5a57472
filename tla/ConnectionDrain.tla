-------------------------- MODULE ConnectionDrain ---------------------------
(***************************************************************************)
(* What the shutdown sequence promises, with nothing of how: Envoy is let   *)
(* go only after a count of its open connections that was low enough, and   *)
(* the count is made when Envoy was told to take no more. A sequence may be *)
(* abandoned, and then Envoy is not let go.                                 *)
(***************************************************************************)
EXTENDS Integers

CONSTANT MinOpenConnections (* as many connections may be left open         *)

VARIABLES
  phase,   (* "serving", "draining", "drained" or "released"                *)
  counted, (* the connections counted when Envoy was found drained, or -1   *)
  told     (* Envoy was told to take no more; free to change at any time    *)

DrainInit == phase = "serving" /\ counted = -1

Drain == phase = "serving" /\ phase' = "draining" /\ UNCHANGED counted

Abandon == phase = "draining" /\ phase' = "serving" /\ UNCHANGED counted

Drained ==
  /\ phase = "draining" /\ phase' = "drained" /\ told
  /\ counted' \in 0..MinOpenConnections

Release == phase = "drained" /\ phase' = "released" /\ UNCHANGED counted

DrainSpec ==
  DrainInit /\ [][Drain \/ Abandon \/ Drained \/ Release]_<<phase, counted>>
=============================================================================
