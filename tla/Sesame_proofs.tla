---------------------------- MODULE Sesame_proofs ---------------------------
(***************************************************************************)
(* Proofs about the two pods of Sesame, each a command of the same binary.  *)
(* "sesame serve", for any inputs: whatever the flags, the file and the     *)
(* cluster say, the probes are answered in clear, the configured            *)
(* certificates are watched, and a flag wins over the file and the file     *)
(* over the default, though the arguments are parsed twice. The shutdown    *)
(* sequence of the Envoy pod, for any number of requests, of connections,   *)
(* of attempts and of restarts of the container: its type invariant, its    *)
(* two safety invariants, and that it implements ConnectionDrain.           *)
(*                                                                         *)
(* And about what "sesame serve" writes into the status of objects, for any *)
(* scenario, any addresses, any capacity of the channel and any number of   *)
(* attempts: neither writer undoes what the other has written, and the      *)
(* condition of an HTTPProxy does not go back to an older generation.       *)
(***************************************************************************)
EXTENDS Sesame, ObjectStatus, TLAPS

(* A step of the binary is a step of one pod, and leaves the other alone.    *)
LEMMA StepOfOne == [Next]_vars => [ServeNext]_serveVars /\ [ShutdownNext]_shutdownVars
<1> SUFFICES ASSUME [Next]_vars PROVE [ServeNext]_serveVars /\ [ShutdownNext]_shutdownVars
  OBVIOUS
<1>1. CASE UNCHANGED vars
  BY <1>1 DEF vars
<1>2. CASE Next
  BY <1>2 DEF Next
<1> QED BY <1>1, <1>2

-----------------------------------------------------------------------------
(* "sesame serve" *)

(* What doServe has set up is what the configuration in force asks for, and  *)
(* that configuration was found valid.                                       *)
Registered ==
  stage = "started" =>
    /\ SpecValid(spec)
    /\ server.services = Services(spec)
    /\ server.watched = InformerNamespaces(spec)
    /\ server.builder = GetDAGBuilder(spec)
    /\ server.envoyListeners = StatsListeners(spec.envoyMetrics, spec.envoyHealth)

LEMMA InitRegistered == Init => Registered
  BY DEF Init, ServeInit, NoServe, Registered

LEMMA NextRegistered == Registered /\ [ServeNext]_serveVars => Registered'
<1> SUFFICES ASSUME Registered, [ServeNext]_serveVars PROVE Registered'
  OBVIOUS
<1>1. ASSUME NEW reason, End(reason) PROVE Registered'
  BY <1>1 DEF End, Registered
<1>2. ASSUME UNCHANGED <<stage, spec, server>> PROVE Registered'
  BY <1>2 DEF Registered
<1>3. ASSUME stage' \in {"parse again", "validate", "new server", "configure", "check"}
      PROVE  Registered'
  BY <1>3 DEF Registered
<1>4. ASSUME ParseConfig PROVE Registered'
  BY <1>1, <1>3, <1>4 DEF ParseConfig, NextStage
<1>5. ASSUME Validate \/ NewServer \/ Configure PROVE Registered'
  BY <1>1, <1>3, <1>5 DEF Validate, NewServer, Configure
<1>6. ASSUME Setup PROVE Registered'
  <2>1. CASE stage' = "ended"
    BY <2>1 DEF Registered
  <2>2. CASE stage' # "ended"
    BY <1>6, <2>2 DEF Setup, End, Registered
  <2> QED BY <2>1, <2>2
<1>7. ASSUME InformersSync PROVE Registered'
  BY <1>2, <1>7 DEF InformersSync
<1>8. ASSUME NEW s \in server.services, HTTPServiceStart(s) \/ XDSServerStart(s)
      PROVE  Registered'
  BY <1>1, <1>2, <1>8 DEF HTTPServiceStart, XDSServerStart
<1>9. CASE UNCHANGED serveVars
  BY <1>2, <1>9 DEF serveVars
<1> QED BY <1>4, <1>5, <1>6, <1>7, <1>8, <1>9 DEF ServeNext

LEMMA SpecRegistered == Spec => []Registered
  BY InitRegistered, NextRegistered, StepOfOne, PTL DEF Spec

-----------------------------------------------------------------------------
(* Every Secret the processors are configured with passes the filter.        *)
THEOREM SecretsWatchedAlways == Spec => []SecretsWatched
<1>1. Registered => SecretsWatched
  <2> SUFFICES ASSUME Registered, stage = "started", server.watched # Nil
               PROVE  /\ \A ref \in server.builder.secretRefs : ref.namespace \in server.watched
                      /\ server.builder.rootNamespaces \subseteq server.watched
    BY DEF SecretsWatched
  <2>1. server.watched = InformerNamespaces(spec) /\ server.builder = GetDAGBuilder(spec)
    BY DEF Registered
  <2>2. server.builder.secretRefs = {spec.fallback, spec.client} \ {Nil}
    BY <2>1 DEF GetDAGBuilder
  <2>3. server.builder.rootNamespaces = spec.rootNamespaces
    BY <2>1 DEF GetDAGBuilder
  <2> QED BY <2>1, <2>2, <2>3 DEF InformerNamespaces
<1> QED BY SpecRegistered, <1>1, PTL

(* Sesame's and Envoy's probes are each answered by one listener, in clear.  *)
THEOREM ProbesAnsweredAlways == Spec => []ProbesAnswered
<1>1. Registered => ProbesAnswered
  <2> SUFFICES ASSUME Registered, stage = "started"
               PROVE  ProbesAnswered
    BY DEF ProbesAnswered
  <2> DEFINE health == [name |-> "health", socket |-> spec.health, tls |-> FALSE,
                        paths |-> {"/health", "/healthz"}]
  <2>1. \E s \in server.services :
           /\ "/health" \in s.paths /\ ~s.tls /\ s.socket = spec.health
           /\ \A t \in server.services : "/health" \in t.paths => t = s
    <3>1. CASE spec.health = spec.metrics.socket
      <4>1. spec.metrics.tls = Nil
        BY <3>1 DEF Registered, SpecValid, EndpointsInConflict
      <4>2. SetupMetrics(spec) \in server.services
        BY DEF Registered, Services
      <4>3. /\ "/health" \in SetupMetrics(spec).paths /\ ~SetupMetrics(spec).tls
            /\ SetupMetrics(spec).socket = spec.health
        BY <3>1, <4>1 DEF SetupMetrics
      <4>4. \A t \in server.services : "/health" \in t.paths => t = SetupMetrics(spec)
        BY <3>1 DEF Registered, Services, SetupHealth, SetupDebugService
      <4> QED BY <4>2, <4>3, <4>4
    <3>2. CASE spec.health # spec.metrics.socket
      <4>1. health \in server.services
        BY <3>2 DEF Registered, Services, SetupHealth
      <4>2. "/health" \in health.paths /\ ~health.tls /\ health.socket = spec.health
        OBVIOUS
      <4>3. "/health" \notin SetupMetrics(spec).paths
        BY <3>2 DEF SetupMetrics
      <4>4. \A t \in server.services : "/health" \in t.paths => t = health
        BY <3>2, <4>3 DEF Registered, Services, SetupHealth, SetupDebugService
      <4> QED BY <4>1, <4>2, <4>4
    <3> QED BY <3>1, <3>2
  <2>2. \E s \in server.envoyListeners :
           /\ "/ready" \in s.paths /\ ~s.tls /\ s.socket = spec.envoyHealth
           /\ \A t \in server.envoyListeners \ {s} : "/ready" \notin t.paths /\ t.socket # s.socket
    <3> DEFINE metrics == spec.envoyMetrics
               stats == [name |-> "stats", socket |-> metrics.socket, tls |-> metrics.tls # Nil,
                         paths |-> {"/stats"}]
               ready == [name |-> "health", socket |-> spec.envoyHealth, tls |-> FALSE,
                         paths |-> {"/ready"}]
               both == [name |-> "stats-health", socket |-> spec.envoyHealth, tls |-> FALSE,
                        paths |-> {"/ready", "/stats"}]
    <3>1. server.envoyListeners = IF metrics.tls # Nil \/ metrics.socket # spec.envoyHealth
                                  THEN {stats, ready} ELSE {both}
      BY DEF Registered, StatsListeners
    <3>2. ~(metrics.tls # Nil /\ metrics.socket = spec.envoyHealth)
      BY DEF Registered, SpecValid, EnvoyConfigValid, EndpointsInConflict
    <3>3. CASE metrics.tls # Nil \/ metrics.socket # spec.envoyHealth
      <4>1. metrics.socket # spec.envoyHealth
        BY <3>2, <3>3
      <4>2. server.envoyListeners = {stats, ready}
        BY <3>1, <3>3
      <4>3. "/ready" \in ready.paths /\ ~ready.tls /\ ready.socket = spec.envoyHealth
        OBVIOUS
      <4>4. "/ready" \notin stats.paths /\ stats.socket # ready.socket
        BY <4>1
      <4> HIDE DEF stats, ready, both
      <4> QED BY <4>2, <4>3, <4>4
    <3>4. CASE ~(metrics.tls # Nil \/ metrics.socket # spec.envoyHealth)
      <4>1. server.envoyListeners = {both}
        BY <3>1, <3>4
      <4>2. "/ready" \in both.paths /\ ~both.tls /\ both.socket = spec.envoyHealth
        OBVIOUS
      <4> HIDE DEF stats, ready, both
      <4> QED BY <4>1, <4>2
    <3> QED BY <3>3, <3>4
  <2> QED BY <2>1, <2>2 DEF ProbesAnswered
<1> QED BY SpecRegistered, <1>1, PTL

-----------------------------------------------------------------------------
(* The value that the documented order of precedence gives. *)
Wanted ==
  IF input.flags.envoyService # Nil THEN input.flags.envoyService
  ELSE IF input.flags.config THEN input.file.envoyService
  ELSE Defaults.envoyService

(* What each parse leaves behind. Between the two, a file that is named has   *)
(* replaced what the flags had set; the second parse does not read it again,  *)
(* and sets the flags on top of it. Without a file both parses set them.      *)
ParsedTwice ==
  /\ stage = "parse" => input \in Inputs /\ config = Defaults /\ ~parsed
  /\ stage = "parse again" =>
       /\ "envoyService" \in DOMAIN config
       /\ input.flags.config =>
            parsed /\ input.file # Nil /\ config.envoyService = input.file.envoyService
       /\ ~input.flags.config => config.envoyService = Wanted
  /\ stage \in {"validate", "new server", "configure", "check", "started"} =>
       config.envoyService = Wanted

(* Reading the file keeps its value for the flag, and SetFlags changes the    *)
(* value only when the flag is given.                                        *)
LEMMA ParseKeeps ==
  ASSUME input \in Inputs, Parse(input.file) # Nil
  PROVE  /\ input.file # Nil
         /\ "envoyService" \in DOMAIN Parse(input.file)
         /\ Parse(input.file).envoyService = input.file.envoyService
<1>1. input.file # Nil /\ Parse(input.file) = [input.file EXCEPT !.versions = {ToLower(v) : v \in @}]
  BY DEF Parse
<1>2. "envoyService" \in DOMAIN input.file
  BY <1>1, InputsAssumption DEF Defaults
<1> QED BY <1>1, <1>2

LEMMA SetFlagsKeeps ==
  ASSUME NEW c, "envoyService" \in DOMAIN c
  PROVE  /\ "envoyService" \in DOMAIN SetFlags(c)
         /\ SetFlags(c).envoyService = IF input.flags.envoyService = Nil THEN c.envoyService
                                       ELSE input.flags.envoyService
  BY DEF SetFlags

LEMMA NextParsedTwice == ParsedTwice /\ [ServeNext]_serveVars => ParsedTwice'
<1> SUFFICES ASSUME ParsedTwice, [ServeNext]_serveVars PROVE ParsedTwice'
  OBVIOUS
<1>0. "envoyService" \in DOMAIN Defaults
  BY DEF Defaults
<1>1. ASSUME NEW reason, End(reason) PROVE ParsedTwice'
  BY <1>1 DEF End, ParsedTwice
<1>2. ASSUME UNCHANGED <<input, stage, parsed, config>> PROVE ParsedTwice'
  BY <1>2 DEF ParsedTwice, Wanted
<1>3. ASSUME stage \in {"validate", "new server", "configure", "check"},
             stage' \in {"new server", "configure", "check", "started"},
             UNCHANGED <<input, config>>
      PROVE  ParsedTwice'
  BY <1>3 DEF ParsedTwice, Wanted
<1>4. ASSUME ParseConfig PROVE ParsedTwice'
  <2> DEFINE read == input.flags.config /\ ~parsed
             params == Parse(input.file)
  <2>1. CASE stage' = "ended"
    <3>1. input' = input
      BY <1>4 DEF ParseConfig, End
    <3> QED BY <2>1, <3>1 DEF ParsedTwice
  <2>2. CASE stage' # "ended"
    <3>1. /\ stage \in {"parse", "parse again"}
          /\ ~(read /\ (IF params = Nil THEN TRUE ELSE ~ParametersValid(params)))
          /\ stage' = NextStage /\ parsed' = (parsed \/ read)
          /\ config' = IF read THEN params ELSE SetFlags(config)
          /\ input' = input
      BY <1>4, <2>2 DEF ParseConfig, End
    <3>2. read => params # Nil
      BY <3>1
    <3>3. CASE stage = "parse"
      <4>1. stage' = "parse again" /\ config = Defaults /\ ~parsed /\ input \in Inputs
        BY <3>1, <3>3 DEF NextStage, ParsedTwice
      <4>2. CASE input.flags.config
        <5>1. config' = params /\ parsed' /\ params # Nil
          BY <3>1, <3>2, <4>1, <4>2
        <5> QED BY <3>1, <4>1, <4>2, <5>1, ParseKeeps DEF ParsedTwice
      <4>3. CASE ~input.flags.config
        <5>1. config' = SetFlags(Defaults)
          BY <3>1, <4>1, <4>3
        <5> QED BY <1>0, <3>1, <4>1, <4>3, <5>1, SetFlagsKeeps DEF ParsedTwice, Wanted
      <4> QED BY <4>2, <4>3
    <3>4. CASE stage = "parse again"
      <4>1. stage' = "validate"
        BY <3>1, <3>4 DEF NextStage
      <4>2. ~read
        BY <3>4 DEF ParsedTwice
      <4>3. config' = SetFlags(config) /\ "envoyService" \in DOMAIN config
        BY <3>1, <3>4, <4>2 DEF ParsedTwice
      <4>4. config'.envoyService = Wanted
        BY <3>4, <4>3, SetFlagsKeeps DEF ParsedTwice, Wanted
      <4> QED BY <3>1, <4>1, <4>4 DEF ParsedTwice, Wanted
    <3> QED BY <3>1, <3>3, <3>4
  <2> QED BY <2>1, <2>2
<1>5. ASSUME Validate \/ NewServer \/ Configure PROVE ParsedTwice'
  BY <1>1, <1>3, <1>5 DEF Validate, NewServer, Configure
<1>6. ASSUME Setup PROVE ParsedTwice'
  BY <1>1, <1>3, <1>6 DEF Setup
<1>7. ASSUME InformersSync PROVE ParsedTwice'
  BY <1>2, <1>7 DEF InformersSync
<1>8. ASSUME NEW s \in server.services, HTTPServiceStart(s) \/ XDSServerStart(s)
      PROVE  ParsedTwice'
  BY <1>1, <1>2, <1>8 DEF HTTPServiceStart, XDSServerStart
<1>9. CASE UNCHANGED serveVars
  BY <1>2, <1>9 DEF serveVars
<1> QED BY <1>4, <1>5, <1>6, <1>7, <1>8, <1>9 DEF ServeNext

(* The configuration that is put in force has the flag's value, else the     *)
(* file's, else the default.                                                 *)
THEOREM PrecedenceAlways == Spec => []Precedence
<1>1. Init => ParsedTwice
  BY DEF Init, ServeInit, NoServe, ParsedTwice
<1>2. ParsedTwice => Precedence
  BY DEF ParsedTwice, Precedence, Wanted
<1> QED BY <1>1, <1>2, NextParsedTwice, StepOfOne, PTL DEF Spec

-----------------------------------------------------------------------------
(* "sesame envoy shutdown-manager" and "sesame envoy shutdown" *)

(* Connections are counted only after Envoy was told to fail its health      *)
(* check, or all attempts to tell it have returned errors: a count before    *)
(* would be that of an Envoy that still takes on clients.                    *)
HealthFailsFirst ==
  hook \in {"checkDelay", "polling", "sleeping", "creating", "returned"} => Told

(* The attempts of a hook are all used up only by the last of them.          *)
AttemptsInv ==
  /\ hook \in {"drainDelay", "failing"} => attempts < Steps
  /\ HealthFailsFirst

(* A count is acted on only if it was low enough; the file says so.          *)
CountInv ==
  /\ hook = "creating" => seen \in 0..MinOpenConnections
  /\ file = "present" => counted \in 0..MinOpenConnections
  /\ file = "absent" => counted = -1

(* Before any restart the file is made by the hook of the end of the pod,    *)
(* which runs only once; and a request is answered when the file is there.   *)
FileInv ==
  /\ Answered => file = "present"
  /\ restarts = 0 /\ file = "present" => hook = "returned" /\ pod # "running"
  /\ pod = "running" /\ restarts = 0 => hook = "none"
  /\ pod = "terminating" => hook # "none"

ShutdownInv == ShutdownTypeOK /\ AttemptsInv /\ CountInv /\ FileInv

-----------------------------------------------------------------------------
LEMMA InitShutdownInv == Init => ShutdownInv
<1>1. Init => ShutdownInit
  BY DEF Init, NoShutdown
<1> QED BY <1>1, ShutdownAssumption
  DEF ShutdownInit, ShutdownInv, ShutdownTypeOK, AttemptsInv, HealthFailsFirst, Told,
      CountInv,
      FileInv, Answered, Running, Listeners, prometheusLabels

(* Each step keeps the types. *)
LEMMA NextTypeOK == ShutdownTypeOK /\ CountInv /\ AttemptsInv /\ [ShutdownNext]_shutdownVars
                      => ShutdownTypeOK'
<1> SUFFICES ASSUME ShutdownTypeOK, CountInv, AttemptsInv, [ShutdownNext]_shutdownVars
             PROVE  ShutdownTypeOK'
  OBVIOUS
<1> USE ShutdownAssumption DEF podVars, envoyVars, hookVars
<1>1. ASSUME NEW l \in Listeners, Open(l) \/ Close(l) PROVE ShutdownTypeOK'
  BY <1>1 DEF Open, Close, ShutdownTypeOK
<1>2. ASSUME EnvoyExits PROVE ShutdownTypeOK'
  BY <1>2 DEF EnvoyExits, ShutdownTypeOK
<1>3. ASSUME Kubelet PROVE ShutdownTypeOK'
  BY <1>3 DEF Kubelet, Terminate, ProbeFails, Restarted, Expire, ShutdownTypeOK, Running
<1>4. ASSUME DrainDelayed \/ CheckDelayed \/ PollFails \/ Slept PROVE ShutdownTypeOK'
  BY <1>4 DEF DrainDelayed, CheckDelayed, PollFails, Slept, ShutdownTypeOK, Running
<1>5. ASSUME NEW answer \in {"ok", "lost", "refused"}, ShutdownEnvoy(answer)
      PROVE  ShutdownTypeOK'
  BY <1>5 DEF ShutdownEnvoy, ShutdownTypeOK, AttemptsInv, Running
<1>6. ASSUME Poll PROVE ShutdownTypeOK'
  BY <1>6 DEF Poll, parseOpenConnections, ShutdownTypeOK, Running, Listeners,
              prometheusLabels
<1>7. ASSUME NEW ok \in BOOLEAN, CreateReadyFile(ok) PROVE ShutdownTypeOK'
  BY <1>7 DEF CreateReadyFile, ShutdownTypeOK, CountInv, Running
<1>8. ASSUME NEW r \in Requests, Handler(r) PROVE ShutdownTypeOK'
  BY <1>8 DEF Handler, ShutdownReady, FileFound, FileNotFound, CheckAgain, Cancelled,
              ShutdownTypeOK
<1>9. CASE UNCHANGED shutdownVars
  BY <1>9 DEF shutdownVars, ShutdownTypeOK
<1> QED BY <1>1, <1>2, <1>3, <1>4, <1>5, <1>6, <1>7, <1>8, <1>9 DEF ShutdownNext, Hook

(* Steps of Envoy's clients and of the handlers change nothing the attempts  *)
(* and the count depend on.                                                  *)
LEMMA NextAttemptsInv == ShutdownInv /\ [ShutdownNext]_shutdownVars => AttemptsInv'
<1> SUFFICES ASSUME ShutdownInv, [ShutdownNext]_shutdownVars PROVE AttemptsInv'
  OBVIOUS
<1> USE ShutdownAssumption DEF podVars, envoyVars, hookVars, ShutdownInv, AttemptsInv,
        HealthFailsFirst, Told, ShutdownTypeOK
<1>1. ASSUME UNCHANGED <<hook, attempts, envoy>> PROVE AttemptsInv'
  BY <1>1
<1>2. ASSUME NEW l \in Listeners, Open(l) \/ Close(l) PROVE AttemptsInv'
  BY <1>1, <1>2 DEF Open, Close
<1>3. ASSUME EnvoyExits PROVE AttemptsInv'
  BY <1>3 DEF EnvoyExits
<1>4. ASSUME Kubelet PROVE AttemptsInv'
  BY <1>4 DEF Kubelet, Terminate, ProbeFails, Restarted, Expire, Running
<1>5. ASSUME DrainDelayed \/ CheckDelayed \/ PollFails \/ Slept \/ Poll PROVE AttemptsInv'
  BY <1>5 DEF DrainDelayed, CheckDelayed, PollFails, Slept, Poll
<1>6. ASSUME NEW answer \in {"ok", "lost", "refused"}, ShutdownEnvoy(answer)
      PROVE  AttemptsInv'
  BY <1>6 DEF ShutdownEnvoy
<1>7. ASSUME NEW ok \in BOOLEAN, CreateReadyFile(ok) PROVE AttemptsInv'
  BY <1>7 DEF CreateReadyFile
<1>8. ASSUME NEW r \in Requests, Handler(r) PROVE AttemptsInv'
  BY <1>1, <1>8 DEF Handler, ShutdownReady, FileFound, FileNotFound, CheckAgain, Cancelled
<1>9. CASE UNCHANGED shutdownVars
  BY <1>1, <1>9 DEF shutdownVars
<1> QED BY <1>2, <1>3, <1>4, <1>5, <1>6, <1>7, <1>8, <1>9 DEF ShutdownNext, Hook

LEMMA NextCountInv == ShutdownInv /\ [ShutdownNext]_shutdownVars => CountInv'
<1> SUFFICES ASSUME ShutdownInv, [ShutdownNext]_shutdownVars PROVE CountInv'
  OBVIOUS
<1> USE ShutdownAssumption DEF podVars, envoyVars, hookVars, ShutdownInv, CountInv, ShutdownTypeOK
<1>1. ASSUME UNCHANGED <<seen, file, counted>>, hook' # "creating" \/ UNCHANGED hook
      PROVE  CountInv'
  BY <1>1
<1>2. ASSUME NEW l \in Listeners, Open(l) \/ Close(l) PROVE CountInv'
  BY <1>1, <1>2 DEF Open, Close
<1>3. ASSUME EnvoyExits PROVE CountInv'
  BY <1>1, <1>3 DEF EnvoyExits
<1>4. ASSUME Kubelet PROVE CountInv'
  BY <1>1, <1>4 DEF Kubelet, Terminate, ProbeFails, Restarted, Expire
<1>5. ASSUME DrainDelayed \/ CheckDelayed \/ PollFails \/ Slept PROVE CountInv'
  BY <1>1, <1>5 DEF DrainDelayed, CheckDelayed, PollFails, Slept
<1>6. ASSUME NEW answer \in {"ok", "lost", "refused"}, ShutdownEnvoy(answer)
      PROVE  CountInv'
  BY <1>1, <1>6 DEF ShutdownEnvoy
<1>7. ASSUME Poll PROVE CountInv'
  BY <1>7 DEF Poll, parseOpenConnections, Listeners, prometheusLabels
<1>8. ASSUME NEW ok \in BOOLEAN, CreateReadyFile(ok) PROVE CountInv'
  BY <1>8 DEF CreateReadyFile
<1>9. ASSUME NEW r \in Requests, Handler(r) PROVE CountInv'
  BY <1>1, <1>9 DEF Handler, ShutdownReady, FileFound, FileNotFound, CheckAgain, Cancelled
<1>10. CASE UNCHANGED shutdownVars
  BY <1>1, <1>10 DEF shutdownVars
<1> QED
  BY <1>2, <1>3, <1>4, <1>5, <1>6, <1>7, <1>8, <1>9, <1>10 DEF ShutdownNext, Hook

LEMMA NextFileInv == ShutdownInv /\ [ShutdownNext]_shutdownVars => FileInv'
<1> SUFFICES ASSUME ShutdownInv, [ShutdownNext]_shutdownVars PROVE FileInv'
  OBVIOUS
<1> USE DEF podVars, envoyVars, hookVars, ShutdownInv, FileInv, ShutdownTypeOK
<1>1. ASSUME UNCHANGED <<pod, restarts, hook, file, request>> PROVE FileInv'
  BY <1>1 DEF Answered
<1>2. ASSUME NEW l \in Listeners, Open(l) \/ Close(l) PROVE FileInv'
  BY <1>1, <1>2 DEF Open, Close
<1>3. ASSUME EnvoyExits PROVE FileInv'
  BY <1>1, <1>3 DEF EnvoyExits
<1>4. ASSUME Kubelet PROVE FileInv'
  BY <1>4, ShutdownAssumption
  DEF Kubelet, Terminate, ProbeFails, Restarted, Expire, Running, Answered
<1>5. ASSUME Hook PROVE FileInv'
  BY <1>5 DEF Hook, DrainDelayed, CheckDelayed, PollFails, Slept, Poll, ShutdownEnvoy,
              CreateReadyFile, Answered
<1>6. ASSUME NEW r \in Requests, Handler(r) PROVE FileInv'
  BY <1>6 DEF Handler, ShutdownReady, FileFound, FileNotFound, CheckAgain, Cancelled,
              Answered
<1>7. CASE UNCHANGED shutdownVars
  BY <1>1, <1>7 DEF shutdownVars
<1> QED BY <1>2, <1>3, <1>4, <1>5, <1>6, <1>7 DEF ShutdownNext

LEMMA SpecShutdownInv == Spec => []ShutdownInv
<1>1. ShutdownInv /\ [ShutdownNext]_shutdownVars => ShutdownInv'
  BY NextTypeOK, NextAttemptsInv, NextCountInv, NextFileInv DEF ShutdownInv
<1> QED BY InitShutdownInv, <1>1, StepOfOne, PTL DEF Spec

-----------------------------------------------------------------------------
(* The variables keep their types. *)
THEOREM ShutdownTypeCorrect == Spec => []ShutdownTypeOK
<1>1. ShutdownInv => ShutdownTypeOK
  BY DEF ShutdownInv
<1> QED BY SpecShutdownInv, <1>1, PTL

(* Connections are not counted before Envoy was told to fail its health      *)
(* check, unless every attempt has returned an error.                        *)
THEOREM HealthFailsFirstAlways == Spec => []HealthFailsFirst
<1>1. ShutdownInv => HealthFailsFirst
  BY DEF ShutdownInv, AttemptsInv
<1> QED BY SpecShutdownInv, <1>1, PTL

(* Without a restart before, the answer follows the hook of this shutdown.   *)
THEOREM AnswerFollowsHookAlways == Spec => []AnswerFollowsHook
<1>1. ShutdownInv => AnswerFollowsHook
  BY DEF ShutdownInv, FileInv, AnswerFollowsHook
<1> QED BY SpecShutdownInv, <1>1, PTL

-----------------------------------------------------------------------------
(* The sequence implements the abstract drain. *)
AbstractNext ==
  Abstract!Drain \/ Abstract!Abandon \/ Abstract!Drained \/ Abstract!Release

LEMMA InitRefines == Init => Abstract!DrainInit
  BY DEF Init, NoShutdown, ShutdownInit, Abstract!DrainInit, Phase, Answered, Running

LEMMA NextRefines ==
  ShutdownInv /\ [ShutdownNext]_shutdownVars => [AbstractNext]_<<Phase, counted>>
<1> SUFFICES ASSUME ShutdownInv, [ShutdownNext]_shutdownVars
             PROVE  [AbstractNext]_<<Phase, counted>>
  OBVIOUS
<1> USE DEF podVars, envoyVars, hookVars
<1>1. ASSUME UNCHANGED <<hook, file, counted, request>>
      PROVE  UNCHANGED <<Phase, counted>>
  BY <1>1 DEF Phase, Answered
<1>2. ASSUME NEW l \in Listeners, Open(l) \/ Close(l) PROVE UNCHANGED <<Phase, counted>>
  BY <1>1, <1>2 DEF Open, Close
<1>3. ASSUME EnvoyExits PROVE UNCHANGED <<Phase, counted>>
  BY <1>1, <1>3 DEF EnvoyExits
<1>4. ASSUME UNCHANGED <<file, counted, request>> PROVE [AbstractNext]_<<Phase, counted>>
  <2>1. Answered' = Answered
    BY <1>4 DEF Answered
  <2> QED
    BY <1>4, <2>1 DEF AbstractNext, Abstract!Drain, Abstract!Abandon, Phase
<1>5. ASSUME Kubelet PROVE [AbstractNext]_<<Phase, counted>>
  BY <1>4, <1>5 DEF Kubelet, Terminate, ProbeFails, Restarted, Expire
<1>6. ASSUME NEW ok \in BOOLEAN, CreateReadyFile(ok)
      PROVE  [AbstractNext]_<<Phase, counted>>
  <2>1. Answered' = Answered
    BY <1>6 DEF CreateReadyFile, Answered
  <2>2. CASE ok /\ file = "absent"
    <3>1. ~Answered /\ seen \in 0..MinOpenConnections /\ Told
      BY <1>6, <2>2 DEF CreateReadyFile, ShutdownInv, FileInv, CountInv, AttemptsInv,
                        HealthFailsFirst
    <3> QED
      BY <1>6, <2>1, <2>2, <3>1
      DEF CreateReadyFile, AbstractNext, Abstract!Drained, Phase, Running
  <2>3. CASE ~(ok /\ file = "absent")
    <3>1. UNCHANGED <<file, counted, request>>
      BY <1>6, <2>3 DEF CreateReadyFile, ShutdownInv, ShutdownTypeOK
    <3> QED BY <1>4, <3>1
  <2> QED BY <2>2, <2>3
<1>7. ASSUME Hook PROVE [AbstractNext]_<<Phase, counted>>
  BY <1>4, <1>6, <1>7
  DEF Hook, DrainDelayed, CheckDelayed, PollFails, Slept, Poll, ShutdownEnvoy
<1>8. ASSUME NEW r \in Requests, Handler(r) PROVE [AbstractNext]_<<Phase, counted>>
  <2>1. CASE FileFound(r)
    <3>1. Answered' /\ file = "present" /\ UNCHANGED counted
      BY <2>1 DEF FileFound, Answered, ShutdownInv, ShutdownTypeOK
    <3> QED BY <3>1 DEF AbstractNext, Abstract!Release, Phase
  <2>2. CASE ~FileFound(r)
    <3>1. Answered' = Answered /\ UNCHANGED <<hook, file, counted>>
      BY <1>8, <2>2 DEF Handler, ShutdownReady, FileNotFound, CheckAgain, Cancelled,
                        Answered, ShutdownInv, ShutdownTypeOK
    <3> QED BY <3>1 DEF Phase
  <2> QED BY <2>1, <2>2
<1>9. CASE UNCHANGED shutdownVars
  BY <1>1, <1>9 DEF shutdownVars
<1> QED BY <1>2, <1>3, <1>5, <1>7, <1>8, <1>9 DEF ShutdownNext

(* Envoy is let go only after the file was made, and the file is made only   *)
(* for a count of at most MinOpenConnections, made after Envoy was told to   *)
(* fail its health check or could not be told.                               *)
THEOREM ShutdownImplementsDrain == Spec => DrainImplemented
  BY SpecShutdownInv, InitRefines, NextRefines, StepOfOne, PTL
  DEF Spec, DrainImplemented, Abstract!DrainSpec, AbstractNext

-----------------------------------------------------------------------------
(* The writers of the status of an object *)

Verdicts == [valid : BOOLEAN, gen : Nat, stamp : 0..1]
Values == Addresses \union {None}
Versions == [gen : Nat, cond : Verdicts, addr : Values]
Updates == [cond : Verdicts] \union [addr : Values]

TypeOK ==
  /\ api \in Versions /\ watch \in Seq(Versions) /\ cached \in Versions
  /\ valid \in BOOLEAN /\ dirty \in BOOLEAN
  /\ queue \in Seq(Updates)
  /\ job \in Updates \union {None} /\ base \in Versions \union {None}
  /\ outdated \in BOOLEAN /\ elected \in BOOLEAN
  /\ svc \in Values /\ moved \in Seq(Values) /\ lbStatus \in Seq(Values)
  /\ lb \in Values /\ sending \in Values /\ held \in Values
  /\ notes \in Seq(Versions)

(* The informer's store ends up with the object as it is: the last version   *)
(* on its way is the API server's.                                           *)
WatchEndsAtAPI ==
  IF watch = <<>> THEN cached = api ELSE watch[Len(watch)] = api

(* A version that was read and is not outdated is the API server's, though it *)
(* comes from the store and the object may have been written since.          *)
BaseCurrent == base # None /\ ~outdated => base = api

(* Nothing is applied before the election, and nothing read without a job,   *)
(* so that the other leader never writes in between.                         *)
AppliesWhenElected ==
  /\ ~elected => job = None
  /\ job = None => base = None

(* Until then the condition is of the object's generation or an older one.   *)
OthersBehind == ~elected => api.cond.gen <= api.gen

IInv == WatchEndsAtAPI /\ BaseCurrent /\ AppliesWhenElected /\ OthersBehind

-----------------------------------------------------------------------------
(* What a mutator makes of a version is a version, and differs from it only   *)
(* in the field of the update.                                               *)
LEMMA MutateType ==
  ASSUME NEW u \in Updates, NEW v \in Versions
  PROVE  Mutate(u, v) \in Versions
<1>1. CASE "addr" \in DOMAIN u
  <2>1. u \in [addr : Values]
    BY <1>1 DEF Updates
  <2> QED BY <1>1, <2>1 DEF Mutate, Versions
<1>2. CASE "addr" \notin DOMAIN u
  <2>1. u \in [cond : Verdicts]
    BY <1>2 DEF Updates
  <2> QED BY <1>2, <2>1 DEF Mutate, Versions
<1> QED BY <1>1, <1>2

LEMMA MutateKeepsFields ==
  ASSUME NEW u \in Updates, NEW v \in Versions
  PROVE  /\ Mutate(u, v).gen = v.gen
         /\ Mutate(u, v).addr # v.addr => "addr" \in DOMAIN u /\ Mutate(u, v).addr = u.addr
         /\ Mutate(u, v).cond # v.cond => "cond" \in DOMAIN u /\ Mutate(u, v).cond = u.cond
         /\ KeepsNewer => Mutate(u, v).cond.gen >= v.cond.gen
<1>1. CASE "addr" \in DOMAIN u
  BY <1>1 DEF Mutate, Versions, Verdicts
<1>2. CASE "addr" \notin DOMAIN u
  <2>1. u \in [cond : Verdicts]
    BY <1>2 DEF Updates
  <2>2. u.cond.gen \in Nat /\ v.cond.gen \in Nat
    BY <2>1 DEF Versions, Verdicts
  <2>3. CASE KeepsNewer /\ v.cond.gen > u.cond.gen
    BY <1>2, <2>2, <2>3 DEF Mutate
  <2>4. CASE ~(KeepsNewer /\ v.cond.gen > u.cond.gen)
    <3>1. Mutate(u, v) = [v EXCEPT !.cond = u.cond]
      BY <1>2, <2>4 DEF Mutate
    <3>2. Mutate(u, v).gen = v.gen /\ Mutate(u, v).addr = v.addr /\ Mutate(u, v).cond = u.cond
      BY <3>1 DEF Versions
    <3>3. "cond" \in DOMAIN u
      BY <2>1
    <3> QED BY <2>2, <2>4, <3>2, <3>3
  <2> QED BY <2>3, <2>4
<1> QED BY <1>1, <1>2

(* Write appends what it stores, if it is new. *)
LEMMA WriteFacts ==
  ASSUME TypeOK, NEW v \in Versions, Write(v)
  PROVE  /\ api' = v /\ watch' \in Seq(Versions)
         /\ (cached' = cached /\ WatchEndsAtAPI => WatchEndsAtAPI')
<1>1. CASE v = api
  BY <1>1 DEF Write, TypeOK, WatchEndsAtAPI
<1>2. CASE v # api
  <2>1. watch' = Append(watch, v) /\ api' = v
    BY <1>2 DEF Write
  <2>2. /\ watch' \in Seq(Versions) /\ Len(watch') = Len(watch) + 1
        /\ watch'[Len(watch) + 1] = v
    BY <2>1 DEF TypeOK
  <2>3. watch' # <<>>
    BY <2>2 DEF TypeOK
  <2> QED BY <2>1, <2>2, <2>3 DEF WatchEndsAtAPI
<1> QED BY <1>1, <1>2

(* What each step writes, if it writes at all. *)
OtherVersion == [api EXCEPT !.cond.valid = valid, !.cond.gen = api.gen]

LEMMA WrittenTypes ==
  ASSUME TypeOK
  PROVE  /\ [api EXCEPT !.gen = @ + 1] \in Versions
         /\ OtherVersion \in Versions
         /\ OtherVersion.cond.gen = api.gen /\ OtherVersion.gen = api.gen
<1>1. api \in Versions /\ api.cond \in Verdicts /\ api.gen \in Nat /\ valid \in BOOLEAN
  BY DEF TypeOK, Versions
<1>2. [api EXCEPT !.gen = @ + 1] \in Versions
  BY <1>1 DEF Versions
<1>3. OtherVersion = [api EXCEPT !.cond = [api.cond EXCEPT !.valid = valid, !.gen = api.gen]]
  BY <1>1 DEF OtherVersion, Versions
<1>4. [api.cond EXCEPT !.valid = valid, !.gen = api.gen] \in Verdicts
  BY <1>1 DEF Verdicts
<1>5. [api.cond EXCEPT !.valid = valid, !.gen = api.gen].gen = api.gen
  BY <1>1 DEF Verdicts
<1> QED BY <1>1, <1>2, <1>3, <1>4, <1>5 DEF Versions

LEMMA NextType == TypeOK /\ [StatusNext]_statusVars => TypeOK'
<1> SUFFICES ASSUME TypeOK, [StatusNext]_statusVars PROVE TypeOK'
  OBVIOUS
<1> USE DEF apiVars, dagVars, jobVars, lbVars, noteVars
<1>1. CASE Edit
  <2>1. api' \in Versions /\ watch' \in Seq(Versions)
    BY <1>1, WriteFacts, WrittenTypes DEF Edit
  <2> QED BY <1>1, <2>1 DEF Edit, TypeOK
<1>2. CASE Change
  BY <1>2 DEF Change, TypeOK
<1>3. CASE OtherLeader
  <2>1. api' \in Versions /\ watch' \in Seq(Versions)
    BY <1>3, WriteFacts, WrittenTypes DEF OtherLeader, OtherVersion
  <2> QED BY <1>3, <2>1 DEF OtherLeader, TypeOK
<1>4. CASE Failure
  BY <1>4 DEF Failure, Finish, TypeOK
<1>5. ASSUME NEW a \in Addresses \union {None}, Move(a) PROVE TypeOK'
  BY <1>5 DEF Move, TypeOK, Values
<1>6. CASE Elect
  BY <1>6 DEF Elect, TypeOK
<1>7. CASE Observe
  BY <1>7 DEF Observe, TypeOK
<1>8. CASE Rebuild
  <2>1. PICK stamp \in 0..1 :
          queue' = Append(queue, [cond |-> [valid |-> valid, gen |-> cached.gen, stamp |-> stamp]])
    BY <1>8 DEF Rebuild, SendCondition
  <2>2. [valid |-> valid, gen |-> cached.gen, stamp |-> stamp] \in Verdicts
    BY DEF TypeOK, Versions, Verdicts
  <2>3. queue' \in Seq(Updates)
    BY <2>1, <2>2 DEF TypeOK, Updates
  <2> QED BY <1>8, <2>3 DEF Rebuild, TypeOK
<1>9. CASE Take
  BY <1>9 DEF Take, TypeOK
<1>10. CASE GetObject
  BY <1>10 DEF GetObject, Finish, TypeOK
<1>11. CASE Update
  <2>1. Mutate(job, base) \in Versions
    BY <1>11, MutateType DEF Update, TypeOK
  <2>2. api' \in Versions /\ watch' \in Seq(Versions)
    BY <1>11, <2>1, WriteFacts DEF Update
  <2> QED BY <1>11, <2>2 DEF Update, Finish, TypeOK
<1>12. CASE Conflict
  BY <1>12 DEF Conflict, TypeOK
<1>13. CASE Notify
  BY <1>13 DEF Notify, TypeOK
<1>14. CASE Receive
  BY <1>14 DEF Receive, ToSend, TypeOK, Values
<1>15. CASE WriterSend
  BY <1>15 DEF WriterSend, SendAddress, TypeOK, Values, Updates
<1>16. CASE OnAdd
  BY <1>16 DEF OnAdd, ToSend, TypeOK, Values
<1>17. CASE InformerSend
  BY <1>17 DEF InformerSend, SendAddress, TypeOK, Values, Updates
<1>18. CASE UNCHANGED statusVars
  BY <1>18 DEF statusVars, TypeOK
<1> QED BY <1>1, <1>2, <1>3, <1>4, <1>5, <1>6, <1>7, <1>8, <1>9, <1>10, <1>11, <1>12,
           <1>13, <1>14, <1>15, <1>16, <1>17, <1>18 DEF StatusNext, Program

(* The types of the writers' state. *)
LEMMA SpecType == StatusSpec => []TypeOK
<1>1. StatusInit => TypeOK
  <2> SUFFICES ASSUME StatusInit PROVE TypeOK
    OBVIOUS
  <2>1. api \in Versions
    BY DEF StatusInit, Versions, Verdicts, Values
  <2>2. valid \in BOOLEAN /\ dirty \in BOOLEAN /\ outdated \in BOOLEAN /\ elected \in BOOLEAN
    BY DEF StatusInit
  <2> QED BY <2>1, <2>2 DEF StatusInit, TypeOK, Values
<1> QED BY <1>1, NextType, PTL DEF StatusSpec

-----------------------------------------------------------------------------
LEMMA NextIInv == TypeOK /\ IInv /\ [StatusNext]_statusVars => IInv'
<1> SUFFICES ASSUME TypeOK, IInv, [StatusNext]_statusVars PROVE IInv'
  OBVIOUS
<1> USE DEF apiVars, dagVars, jobVars, lbVars, noteVars
<1>1. ASSUME UNCHANGED <<api, watch, cached, job, base, outdated, elected>> PROVE IInv'
  BY <1>1 DEF IInv, WatchEndsAtAPI, BaseCurrent, AppliesWhenElected, OthersBehind
<1>2. CASE Edit
  <2>1. /\ api' = [api EXCEPT !.gen = @ + 1] /\ WatchEndsAtAPI'
    BY <1>2, WriteFacts, WrittenTypes DEF Edit, IInv
  <2>2. api'.cond = api.cond /\ api'.gen = api.gen + 1 /\ api.gen \in Nat /\ api.cond.gen \in Nat
    BY <2>1 DEF TypeOK, Versions, Verdicts
  <2>3. OthersBehind'
    BY <1>2, <2>2 DEF Edit, IInv, OthersBehind
  <2> QED BY <1>2, <2>1, <2>3 DEF Edit, IInv, BaseCurrent, AppliesWhenElected
<1>3. CASE OtherLeader
  <2>1. api' = OtherVersion /\ WatchEndsAtAPI'
    BY <1>3, WriteFacts, WrittenTypes DEF OtherLeader, OtherVersion, IInv
  <2>2. base = None
    BY <1>3 DEF OtherLeader, IInv, AppliesWhenElected
  <2>3. OthersBehind'
    <3>1. api'.cond.gen = api.gen /\ api'.gen = api.gen /\ api.gen \in Nat
      BY <2>1, WrittenTypes DEF TypeOK, Versions
    <3> QED BY <3>1 DEF OthersBehind
  <2> QED BY <1>3, <2>1, <2>2, <2>3 DEF OtherLeader, IInv, BaseCurrent, AppliesWhenElected
<1>4. CASE Failure
  BY <1>4 DEF Failure, Finish, IInv, WatchEndsAtAPI, BaseCurrent, AppliesWhenElected, OthersBehind
<1>5. CASE Elect
  BY <1>5 DEF Elect, IInv, WatchEndsAtAPI, BaseCurrent, AppliesWhenElected, OthersBehind
<1>6. CASE Observe
  <2>1. /\ watch # <<>> /\ cached' = Head(watch) /\ watch' = Tail(watch) /\ api' = api
    BY <1>6 DEF Observe
  <2>2. watch \in Seq(Versions) /\ Len(watch) \in Nat /\ Len(watch) > 0
    BY <2>1 DEF TypeOK
  <2>3. watch[Len(watch)] = api
    BY <2>1 DEF IInv, WatchEndsAtAPI
  <2>4. WatchEndsAtAPI'
    <3>1. CASE Len(watch) = 1
      <4>1. watch' = <<>> /\ cached' = watch[1]
        BY <2>1, <2>2, <3>1
      <4> QED BY <2>1, <2>3, <3>1, <4>1 DEF WatchEndsAtAPI
    <3>2. CASE Len(watch) # 1
      <4>0. Len(watch') = Len(watch) - 1
        BY <2>1, <2>2
      <4>1. Len(watch') = Len(watch) - 1 /\ Len(watch') \in Nat /\ Len(watch') > 0
        BY <2>2, <3>2, <4>0
      <4>2. watch'[Len(watch')] = watch[Len(watch)]
        BY <2>1, <2>2, <4>1
      <4>3. watch' # <<>>
        BY <4>1
      <4> QED BY <2>1, <2>3, <4>2, <4>3 DEF WatchEndsAtAPI
    <3> QED BY <3>1, <3>2
  <2> QED BY <1>6, <2>1, <2>4 DEF Observe, IInv, BaseCurrent, AppliesWhenElected, OthersBehind
<1>7. CASE Take
  BY <1>7 DEF Take, IInv, WatchEndsAtAPI, BaseCurrent, AppliesWhenElected, OthersBehind
<1>8. CASE GetObject
  <2>1. UNCHANGED <<api, watch, cached, elected>> /\ job # None
    BY <1>8 DEF GetObject
  <2>2. WatchEndsAtAPI' /\ OthersBehind'
    BY <2>1 DEF IInv, WatchEndsAtAPI, OthersBehind
  <2>3. CASE Finish
    BY <2>1, <2>2, <2>3 DEF Finish, IInv, BaseCurrent, AppliesWhenElected
  <2>4. CASE base' = cached /\ outdated' = (watch # <<>>) /\ UNCHANGED <<job, tries>>
    <3>1. ~outdated' => cached = api
      BY <2>4 DEF IInv, WatchEndsAtAPI
    <3> QED BY <2>1, <2>2, <2>4, <3>1 DEF IInv, BaseCurrent, AppliesWhenElected
  <2> QED BY <1>8, <2>3, <2>4 DEF GetObject
<1>9. CASE Update
  <2>1. Mutate(job, base) \in Versions
    BY <1>9, MutateType DEF Update, TypeOK
  <2>2. WatchEndsAtAPI'
    BY <1>9, <2>1, WriteFacts DEF Update, IInv
  <2>3. elected /\ elected' = elected
    BY <1>9 DEF Update, IInv, AppliesWhenElected
  <2> QED BY <1>9, <2>2, <2>3 DEF Update, Finish, IInv, BaseCurrent, AppliesWhenElected, OthersBehind
<1>10. CASE Conflict
  BY <1>10 DEF Conflict, IInv, WatchEndsAtAPI, BaseCurrent, AppliesWhenElected, OthersBehind
<1>11. CASE Change \/ (\E a \in Addresses \union {None} : Move(a)) \/ Rebuild \/ Notify
            \/ Receive \/ WriterSend \/ OnAdd \/ InformerSend \/ UNCHANGED statusVars
  BY <1>1, <1>11 DEF Change, Move, Rebuild, Notify, Receive, WriterSend, OnAdd, InformerSend, statusVars
<1> QED BY <1>2, <1>3, <1>4, <1>5, <1>6, <1>7, <1>8, <1>9, <1>10, <1>11 DEF StatusNext, Program

LEMMA SpecIInv == StatusSpec => []IInv
<1>1. StatusInit => IInv
  BY DEF StatusInit, IInv, WatchEndsAtAPI, BaseCurrent, AppliesWhenElected, OthersBehind
<1> QED BY <1>1, NextIInv, SpecType, PTL DEF StatusSpec

(* Only three steps write the object. *)
LEMMA WhoWrites ==
  ASSUME [StatusNext]_statusVars, api' # api
  PROVE  Edit \/ OtherLeader \/ Update
  BY DEF StatusNext, Program, Change, Failure, Move, Elect, Observe, Rebuild, Take, GetObject, Conflict,
         Notify, Receive, WriterSend, OnAdd, InformerSend, statusVars, apiVars

(* Of the two writers of a status neither undoes what the other has written,  *)
(* however stale the object was that apply had read from the store.          *)
THEOREM FieldsKeptAlways == StatusSpec => FieldsKept
<1> DEFINE Kept ==
      elected =>
        /\ api'.addr # api.addr => "addr" \in DOMAIN job /\ api'.addr = job.addr
        /\ api'.cond # api.cond => "cond" \in DOMAIN job /\ api'.cond = job.cond
<1>1. TypeOK /\ IInv /\ [StatusNext]_statusVars => [Kept]_statusVars
  <2> SUFFICES ASSUME TypeOK, IInv, [StatusNext]_statusVars, elected, api' # api PROVE Kept
    OBVIOUS
  <2>1. CASE Edit
    <3>1. api'.addr = api.addr /\ api'.cond = api.cond
      BY <2>1 DEF Edit, Write, TypeOK, Versions
    <3> QED BY <3>1
  <2>2. CASE Update
    <3>1. /\ base = api /\ api' = Mutate(job, base)
          /\ job \in Updates /\ base \in Versions
      BY <2>2 DEF Update, Write, TypeOK, IInv, BaseCurrent
    <3> QED BY <3>1, MutateKeepsFields
  <2> QED BY <2>1, <2>2, WhoWrites DEF OtherLeader
<1> QED BY <1>1, SpecType, SpecIInv, PTL DEF StatusSpec, FieldsKept

(* The generation at which the condition of an HTTPProxy was observed never   *)
(* goes back, through edits, another leader, the election and any retries.   *)
THEOREM ProxyGenerationsKeptAlways == StatusSpec => ProxyGenerationsKept
<1> DEFINE Kept == kind = "httpproxy" => api'.cond.gen >= api.cond.gen
<1>1. TypeOK /\ IInv /\ [StatusNext]_statusVars => [Kept]_statusVars
  <2> SUFFICES ASSUME TypeOK, IInv, [StatusNext]_statusVars, kind = "httpproxy"
               PROVE  api'.cond.gen >= api.cond.gen
    OBVIOUS
  <2>0. api.cond.gen \in Nat /\ api.gen \in Nat
    BY DEF TypeOK, Versions, Verdicts
  <2>1. CASE Edit
    <3>1. api'.cond = api.cond
      BY <2>1 DEF Edit, Write, TypeOK, Versions
    <3> QED BY <2>0, <3>1
  <2>2. CASE OtherLeader
    <3>1. api'.cond.gen = api.gen
      BY <2>2, WrittenTypes DEF OtherLeader, Write, OtherVersion
    <3> QED BY <2>0, <2>2, <3>1 DEF OtherLeader, IInv, OthersBehind
  <2>3. CASE Update
    <3>1. /\ base = api /\ api' = Mutate(job, base)
          /\ job \in Updates /\ base \in Versions
      BY <2>3 DEF Update, Write, TypeOK, IInv, BaseCurrent
    <3>2. KeepsNewer
      BY DEF KeepsNewer
    <3> QED BY <3>1, <3>2, MutateKeepsFields
  <2>4. CASE api' = api
    BY <2>0, <2>4
  <2> QED BY <2>1, <2>2, <2>3, <2>4, WhoWrites
<1> QED BY <1>1, SpecType, SpecIInv, PTL DEF StatusSpec, ProxyGenerationsKept
=============================================================================
