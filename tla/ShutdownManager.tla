-------------------------- MODULE ShutdownManager ---------------------------
(***************************************************************************)
(* The drain of an Envoy pod (cmd/sesame/shutdownmanager.go). When the pod  *)
(* ends the kubelet runs two pre-stop hooks at once: "sesame envoy          *)
(* shutdown" in the shutdown-manager container (shutdownHandler), and a GET *)
(* of /shutdown for the Envoy container, which the shutdown manager holds   *)
(* back until a file appears (shutdownReadyHandler). The file is on the     *)
(* volume both containers share, and nothing ever removes it.               *)
(*                                                                         *)
(* The kubelet also runs the first hook when the container fails its        *)
(* liveness probe and is restarted while the pod goes on. It waits for a    *)
(* hook until the grace period is over, and then kills the container. In a  *)
(* pod that ends it stops each container once that one's own hook returned, *)
(* which may cut off a GET of /shutdown that still waits; Envoy is then      *)
(* stopped without its answer (EnvoyExits).                                  *)
(***************************************************************************)
EXTENDS Integers

CONSTANTS
  Requests,            (* GETs of /shutdown                                  *)
  MinOpenConnections,  (* --min-open-connections                             *)
  Steps,               (* attempts to fail Envoy's health check              *)
  MaxConnections,      (* bound: connections of a listener at one time       *)
  MaxLate,             (* bound: connections opened after the check failed   *)
  MaxRestarts          (* bound: restarts of the shutdown-manager container  *)

ASSUME ShutdownAssumption ==
  /\ MinOpenConnections \in Nat /\ Steps \in Nat \ {0}
  /\ MaxConnections \in Nat /\ MaxLate \in Nat /\ MaxRestarts \in Nat

VARIABLES
  pod,       (* "running", "terminating" or "expired": grace period over     *)
  restarts,  (* how often the shutdown-manager container was restarted       *)
  envoy,     (* "serving", "failing" its health check, or "exited"           *)
  conns,     (* the open connections of each of Envoy's listeners            *)
  late,      (* connections opened while the health check failed             *)
  hook,      (* where shutdownHandler is                                     *)
  attempts,  (* requests to /healthcheck/fail that returned an error         *)
  seen,      (* the number of connections shutdownHandler read last          *)
  file,      (* the ready file: "absent" or "present"                        *)
  counted,   (* history: the count for which the file was made, or -1        *)
  request    (* where shutdownReadyHandler is for each request               *)

shutdownVars ==
  <<pod, restarts, envoy, conns, late, hook, attempts, seen, file, counted, request>>
hookVars == <<hook, attempts, seen, file, counted>>
envoyVars == <<envoy, conns, late>>
podVars == <<pod, restarts>>

(* The listeners whose connections count; the stats listener's do not.       *)
prometheusLabels == {"ingress_http", "ingress_https"}
Listeners == prometheusLabels \union {"stats"}

Running == {"drainDelay", "failing", "checkDelay", "polling", "sleeping", "creating"}

(* The type invariant. *)
ShutdownTypeOK ==
  /\ pod \in {"running", "terminating", "expired"}
  /\ restarts \in 0..MaxRestarts
  /\ envoy \in {"serving", "failing", "exited"}
  /\ conns \in [Listeners -> 0..MaxConnections]
  /\ late \in 0..MaxLate
  /\ hook \in Running \union {"none", "returned", "killed"}
  /\ attempts \in 0..Steps
  /\ seen \in Nat
  /\ file \in {"absent", "present"}
  /\ counted \in {-1} \union Nat
  /\ request \in [Requests -> {"none", "stat", "wait", "answered", "cancelled"}]

-----------------------------------------------------------------------------
(* Envoy and its clients. *)

Open(l) ==
  /\ conns[l] < MaxConnections
  /\ \/ envoy = "serving" /\ UNCHANGED late
     \/ envoy = "failing" /\ late < MaxLate /\ late' = late + 1
  /\ conns' = [conns EXCEPT ![l] = @ + 1]
  /\ UNCHANGED <<podVars, envoy, hookVars, request>>

Close(l) ==
  /\ conns[l] > 0
  /\ conns' = [conns EXCEPT ![l] = @ - 1]
  /\ UNCHANGED <<podVars, envoy, late, hookVars, request>>

(* Envoy ends when its hook has been answered, and it may crash: nothing     *)
(* starts it again in a pod that ends.                                       *)
EnvoyExits ==
  /\ pod # "running" /\ envoy # "exited"
  /\ envoy' = "exited"
  /\ conns' = [l \in Listeners |-> 0]
  /\ UNCHANGED <<podVars, late, hookVars, request>>

-----------------------------------------------------------------------------
(* The kubelet. *)

Terminate ==
  /\ pod = "running" /\ hook = "none"
  /\ pod' = "terminating" /\ hook' = "drainDelay" /\ attempts' = 0
  /\ UNCHANGED <<restarts, envoyVars, seen, file, counted, request>>

ProbeFails ==
  /\ pod = "running" /\ hook = "none" /\ restarts < MaxRestarts
  /\ restarts' = restarts + 1 /\ hook' = "drainDelay" /\ attempts' = 0
  /\ UNCHANGED <<pod, envoyVars, seen, file, counted, request>>

(* The container starts again, when the hook has returned or is given up.    *)
Restarted ==
  /\ pod = "running" /\ hook # "none"
  /\ hook' = "none"
  /\ UNCHANGED <<podVars, envoyVars, attempts, seen, file, counted, request>>

Expire ==
  /\ pod = "terminating"
  /\ pod' = "expired"
  /\ hook' = IF hook \in Running THEN "killed" ELSE hook
  /\ UNCHANGED <<restarts, envoyVars, attempts, seen, file, counted, request>>

-----------------------------------------------------------------------------
(* shutdownHandler. *)

DrainDelayed ==
  /\ hook = "drainDelay"
  /\ hook' = "failing"
  /\ UNCHANGED <<podVars, envoyVars, attempts, seen, file, counted, request>>

(* shutdownEnvoy under retry.OnError: every error is retried, and after the  *)
(* last attempt only logged. The answer to a request that took effect may be *)
(* lost.                                                                     *)
ShutdownEnvoy(answer) ==
  /\ hook = "failing"
  /\ answer \in {"ok", "lost"} => envoy # "exited"
  /\ envoy' = IF answer # "refused" THEN "failing" ELSE envoy
  /\ attempts' = IF answer = "ok" THEN attempts ELSE attempts + 1
  /\ hook' = IF answer = "ok" \/ attempts' = Steps THEN "checkDelay" ELSE "failing"
  /\ UNCHANGED <<podVars, conns, late, seen, file, counted, request>>

CheckDelayed ==
  /\ hook = "checkDelay"
  /\ hook' = "polling"
  /\ UNCHANGED <<podVars, envoyVars, attempts, seen, file, counted, request>>

parseOpenConnections == conns["ingress_http"] + conns["ingress_https"]

PollOneMore ==
  /\ hook = "polling" /\ envoy # "exited"
  /\ seen' = parseOpenConnections
  /\ hook' = IF seen' <= MinOpenConnections + 1 THEN "creating" ELSE "sleeping"
  /\ UNCHANGED <<podVars, envoyVars, attempts, file, counted, request>>

(* A count that was read. *)
Poll ==
  /\ hook = "polling" /\ envoy # "exited"
  /\ seen' = parseOpenConnections
  /\ hook' = IF seen' <= MinOpenConnections THEN "creating" ELSE "sleeping"
  /\ UNCHANGED <<podVars, envoyVars, attempts, file, counted, request>>

(* No answer, an HTTP error, or a text without the statistic. *)
PollFails ==
  /\ hook = "polling"
  /\ hook' = "sleeping"
  /\ UNCHANGED <<podVars, envoyVars, attempts, seen, file, counted, request>>

Slept ==
  /\ hook = "sleeping"
  /\ hook' = "polling"
  /\ UNCHANGED <<podVars, envoyVars, attempts, seen, file, counted, request>>

(* os.Create: an error is logged, and the hook returns all the same.         *)
CreateReadyFile(ok) ==
  /\ hook = "creating"
  /\ hook' = "returned"
  /\ file' = IF ok THEN "present" ELSE file
  /\ counted' = IF ok /\ file = "absent" THEN seen ELSE counted
  /\ UNCHANGED <<podVars, envoyVars, attempts, seen, request>>

-----------------------------------------------------------------------------
(* shutdownReadyHandler. *)

ShutdownReady(r) ==
  /\ pod = "terminating" /\ request[r] = "none"
  /\ request' = [request EXCEPT ![r] = "stat"]
  /\ UNCHANGED <<podVars, envoyVars, hookVars>>

FileFoundOnError(r) ==
  /\ request[r] = "stat"
  /\ request' = [request EXCEPT ![r] = "answered"]
  /\ UNCHANGED <<podVars, envoyVars, hookVars>>

FileFound(r) ==
  /\ request[r] = "stat" /\ file = "present"
  /\ request' = [request EXCEPT ![r] = "answered"]
  /\ UNCHANGED <<podVars, envoyVars, hookVars>>

(* There is no file, or os.Stat failed otherwise. *)
FileNotFound(r) ==
  /\ request[r] = "stat"
  /\ request' = [request EXCEPT ![r] = "wait"]
  /\ UNCHANGED <<podVars, envoyVars, hookVars>>

CheckAgainGivesUp(r) ==
  /\ request[r] = "wait"
  /\ request' = [request EXCEPT ![r] = "cancelled"]
  /\ UNCHANGED <<podVars, envoyVars, hookVars>>

CheckAgain(r) ==
  /\ request[r] = "wait"
  /\ request' = [request EXCEPT ![r] = "stat"]
  /\ UNCHANGED <<podVars, envoyVars, hookVars>>

Cancelled(r) ==
  /\ request[r] = "wait" /\ pod = "expired"
  /\ request' = [request EXCEPT ![r] = "cancelled"]
  /\ UNCHANGED <<podVars, envoyVars, hookVars>>

-----------------------------------------------------------------------------
ShutdownInit ==
  /\ pod = "running" /\ restarts = 0
  /\ envoy = "serving" /\ conns \in [Listeners -> 0..MaxConnections] /\ late = 0
  /\ hook = "none" /\ attempts = 0 /\ seen = 0
  /\ file = "absent" /\ counted = -1
  /\ request = [r \in Requests |-> "none"]

Kubelet == Terminate \/ ProbeFails \/ Restarted \/ Expire

Hook ==
  \/ DrainDelayed \/ CheckDelayed \/ Poll \/ PollFails \/ Slept
  \/ \E answer \in {"ok", "lost", "refused"} : ShutdownEnvoy(answer)
  \/ \E ok \in BOOLEAN : CreateReadyFile(ok)

Handler(r) ==
  \/ ShutdownReady(r) \/ FileFound(r) \/ FileNotFound(r)
  \/ CheckAgain(r) \/ Cancelled(r)

ShutdownNext ==
  \/ Kubelet \/ EnvoyExits \/ Hook
  \/ \E l \in Listeners : Open(l) \/ Close(l)
  \/ \E r \in Requests : Handler(r)

(* The hook and the handlers go on; Envoy's admin interface answers and      *)
(* os.Stat works now and then; clients close their connections.              *)
ShutdownFairness ==
  /\ WF_shutdownVars(Hook)
  /\ SF_shutdownVars(Poll)
  /\ \A l \in Listeners : WF_shutdownVars(Close(l))
  /\ \A r \in Requests :
       WF_shutdownVars(CheckAgain(r)) /\ WF_shutdownVars(FileNotFound(r))
         /\ SF_shutdownVars(FileFound(r))

ShutdownSpec == ShutdownInit /\ [][ShutdownNext]_shutdownVars /\ ShutdownFairness

-----------------------------------------------------------------------------
Answered == \E r \in Requests : request[r] = "answered"

(* As long as the container was never restarted, Envoy's hook is answered    *)
(* only when the hook of this very shutdown has returned: the file is not    *)
(* that of an earlier one.                                                   *)
AnswerFollowsHook ==
  restarts = 0 /\ Answered => hook = "returned"

(* Envoy's hook is answered in the end, if the file could be made, Envoy     *)
(* has lived and could be told to fail its health check.                     *)
ShutdownAnswered ==
  \A r \in Requests :
    request[r] = "stat" ~>
      \/ request[r] = "answered" \/ pod = "expired" \/ envoy = "exited"
      \/ hook = "returned" /\ file = "absent"
      \/ attempts = Steps

(* The sequence implements the drain: Envoy is let go only when the file     *)
(* was made, and the file is made only for a count that was low enough.      *)
Phase ==
  IF Answered THEN "released"
  ELSE IF file = "present" THEN "drained"
  ELSE IF hook \in Running THEN "draining"
  ELSE "serving"

(* Envoy fails its health check, or every attempt to tell it has failed.     *)
Told == envoy # "serving" \/ attempts = Steps

Abstract == INSTANCE ConnectionDrain WITH phase <- Phase, told <- Told
DrainImplemented == Abstract!DrainSpec
=============================================================================
