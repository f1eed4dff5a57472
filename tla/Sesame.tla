------------------------------- MODULE Sesame -------------------------------
(***************************************************************************)
(* main (cmd/sesame/sesame.go): one binary whose first argument says what   *)
(* it is. "serve" is the process of the Sesame pod. "envoy" stands for the  *)
(* two commands of the Envoy pod, "envoy shutdown-manager" and "envoy       *)
(* shutdown", which run side by side. The pods share nothing, so that a     *)
(* behaviour is that of one of them.                                        *)
(***************************************************************************)
EXTENDS Serve, ShutdownManager

VARIABLE command

vars == <<command, serveVars, shutdownVars>>

(* Where the other pod's variables rest. *)
NoServe ==
  /\ input = CHOOSE i \in Inputs : TRUE
  /\ stage = "another command" /\ why = "" /\ parsed = FALSE /\ config = Defaults
  /\ spec = Nil /\ server = Nil /\ synced = FALSE /\ bound = {}
NoShutdown == ShutdownInit /\ \A l \in Listeners : conns[l] = 0

Init ==
  \/ command = "serve" /\ ServeInit /\ NoShutdown
  \/ command = "envoy" /\ NoServe /\ ShutdownInit

Next ==
  \/ command = "serve" /\ ServeNext /\ UNCHANGED <<command, shutdownVars>>
  \/ command = "envoy" /\ ShutdownNext /\ UNCHANGED <<command, serveVars>>

Spec == Init /\ [][Next]_vars /\ WF_serveVars(ServeNext) /\ ShutdownFairness
=============================================================================
