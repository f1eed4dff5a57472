------------------------------- MODULE Serve --------------------------------
(***************************************************************************)
(* "sesame serve" from its arguments to its services (cmd/sesame: main,     *)
(* registerServe, NewServer, doServe). The arguments are parsed twice, as   *)
(* the configuration file they name must come before what they say; the     *)
(* result, or a SesameConfiguration from the API server in its place, is    *)
(* checked and turned into services, filters and processors; the manager    *)
(* then starts all services at once, and the first that fails ends all.     *)
(***************************************************************************)
EXTENDS Configuration

CONSTANT Inputs  (* sets of flags, the file they name, and the cluster       *)

(* A file that is parsed at all is parsed into the defaults, so that it has   *)
(* a value for each parameter.                                               *)
ASSUME InputsAssumption ==
  \A i \in Inputs : i.file = Nil \/ DOMAIN i.file = DOMAIN Defaults

VARIABLES
  input,   (* [flags, file, cluster, certificates]: the file is Nil if it     *)
           (* cannot be parsed; can the certificate files be loaded?          *)
  stage,   (* how far main and doServe have come, or "ended"                 *)
  why,     (* why the process has ended                                      *)
  parsed,  (* has the configuration file been read?                          *)
  config,  (* ctx.Config                                                     *)
  spec,    (* the SesameConfigurationSpec in force, Nil before               *)
  server,  (* what doServe has set up, Nil before                            *)
  synced,  (* have the informers' caches synced?                             *)
  bound    (* the names of the services that listen                          *)

serveVars == <<input, stage, why, parsed, config, spec, server, synced, bound>>

(* What is given when the user gives nothing. *)
NoFlags ==
  [config |-> FALSE, crd |-> FALSE, envoyService |-> Nil, lease |-> Nil, accessLog |-> Nil,
   xds |-> <<"127.0.0.1", 8001>>, stats |-> <<"0.0.0.0", 8002>>,
   debug |-> <<"127.0.0.1", 6060>>, health |-> <<"0.0.0.0", 8000>>,
   metrics |-> <<"0.0.0.0", 8000>>, rootNamespaces |-> {},
   tlsFiles |-> {}, insecure |-> FALSE]

End(reason) ==
  /\ stage' = "ended" /\ why' = reason
  /\ UNCHANGED <<input, parsed, config, spec, server, synced, bound>>

-----------------------------------------------------------------------------
(* main. *)

(* kingpin: a flag that is not given is set to its Default, where one is     *)
(* declared: those of the leader election have one, the others do not.       *)
SetFlags(c) ==
  [c EXCEPT !.envoyService = IF input.flags.envoyService = Nil THEN @ ELSE input.flags.envoyService,
            !.accessLog = IF input.flags.accessLog = Nil THEN @ ELSE input.flags.accessLog,
            !.lease = IF input.flags.lease = Nil THEN "15s" ELSE input.flags.lease]

(* The arguments are parsed twice. *)
NextStage == IF stage = "parse" THEN "parse again" ELSE "validate"

ParseConfigEachTime ==
  LET params == Parse(input.file)
  IN  /\ stage \in {"parse", "parse again"}
      /\ IF input.flags.config /\ input.flags.crd THEN End("both")
         ELSE IF input.flags.config /\ (IF params = Nil THEN TRUE ELSE ~ParametersValid(params)) THEN End("file")
         ELSE /\ stage' = NextStage
              /\ config' = IF input.flags.config THEN params ELSE SetFlags(config)
              /\ UNCHANGED <<input, why, parsed, spec, server, synced, bound>>

(* The action of -c and --sesame-config-name comes after all flags are set,  *)
(* and replaces what they have set when it reads the file.                   *)
ParseConfig ==
  LET read == input.flags.config /\ ~parsed
      params == Parse(input.file)
  IN  /\ stage \in {"parse", "parse again"}
      /\ IF input.flags.config /\ input.flags.crd THEN End("both")
         ELSE IF read /\ (IF params = Nil THEN TRUE ELSE ~ParametersValid(params)) THEN End("file")
         ELSE /\ stage' = NextStage
              /\ parsed' = (parsed \/ read)
              /\ config' = IF read THEN params ELSE SetFlags(config)
              /\ UNCHANGED <<input, why, spec, server, synced, bound>>

Validate ==
  /\ stage = "validate"
  /\ IF ParametersValid(config)
     THEN stage' = "new server" /\ UNCHANGED <<input, why, parsed, config, spec, server, synced, bound>>
     ELSE End("config")

(* NewServer: the clients and the manager need the API server.               *)
NewServer ==
  /\ stage = "new server"
  /\ IF input.cluster.reachable
     THEN stage' = "configure" /\ UNCHANGED <<input, why, parsed, config, spec, server, synced, bound>>
     ELSE End("cluster")

-----------------------------------------------------------------------------
(* doServe. *)

Configure ==
  /\ stage = "configure"
  /\ IF input.flags.crd /\ input.cluster.crd = Nil THEN End("crd")
     ELSE /\ spec' = IF input.flags.crd THEN input.cluster.crd
                     ELSE ConvertToSesameConfigurationSpec(input.flags, config)
          /\ stage' = "check"
          /\ UNCHANGED <<input, why, parsed, config, server, synced, bound>>

InformerNamespacesNoClient(s) ==
  IF s.rootNamespaces = {} THEN Nil
  ELSE s.rootNamespaces \union (IF s.fallback = Nil THEN {} ELSE {s.fallback.namespace})

(* The namespaces whose Secrets are watched, Nil for all. *)
InformerNamespaces(s) ==
  IF s.rootNamespaces = {} THEN Nil
  ELSE s.rootNamespaces
         \union (IF s.fallback = Nil THEN {} ELSE {s.fallback.namespace})
         \union (IF s.client = Nil THEN {} ELSE {s.client.namespace})

(* setupMetrics and setupHealth: one service for both, or one for each.      *)
SetupMetrics(s) ==
  [name |-> "metrics", socket |-> s.metrics.socket,
   tls |-> IF s.metrics.tls = Nil THEN FALSE ELSE s.metrics.tls.cert /\ s.metrics.tls.key,
   paths |-> {"/metrics"} \union
               (IF s.health = s.metrics.socket THEN {"/health", "/healthz"} ELSE {})]
SetupHealth(s) ==
  IF s.health = s.metrics.socket THEN {}
  ELSE {[name |-> "health", socket |-> s.health, tls |-> FALSE, paths |-> {"/health", "/healthz"}]}

SetupDebugService(s) ==
  [name |-> "debug", socket |-> s.debug, tls |-> FALSE, paths |-> {"/debug"}]

(* grpcOptions: TLS unless it is not configured, or not wanted.              *)
GRPCSecured(tls) == IF tls = Nil THEN FALSE ELSE ~tls.insecure

Services(s) ==
  {SetupMetrics(s), SetupDebugService(s),
   [name |-> "xds", socket |-> s.xds.socket, tls |-> GRPCSecured(s.xds.tls), paths |-> {}]} \union SetupHealth(s)

(* The listeners of Envoy that do not come from the DAG. *)
StatsListeners(metrics, health) ==
  IF metrics.tls # Nil \/ metrics.socket # health
  THEN {[name |-> "stats", socket |-> metrics.socket, tls |-> metrics.tls # Nil, paths |-> {"/stats"}],
        [name |-> "health", socket |-> health, tls |-> FALSE, paths |-> {"/ready"}]}
  ELSE {[name |-> "stats-health", socket |-> health, tls |-> FALSE, paths |-> {"/ready", "/stats"}]}
StatsSecrets(tls) ==
  IF tls = Nil THEN {}
  ELSE (IF tls.cert /\ tls.key THEN {"metrics-tls-certificate"} ELSE {})
         \union (IF tls.ca THEN {"metrics-ca-certificate"} ELSE {})

(* getDAGBuilder, with what doServe hands to it: applyHeaderPolicyToIngress  *)
(* is not among it.                                                          *)
GetDAGBuilder(s) ==
  [rootNamespaces |-> s.rootNamespaces,
   secretRefs |-> {s.fallback, s.client} \ {Nil},
   policyOnIngress |-> FALSE,
   processors |-> {"ingress", "extension", "proxy", "listener"}
                    \union (IF s.gateway = Nil THEN {} ELSE {"gateway"})]

(* The rate limit service must exist, and only its timeout is read.          *)
SetupRateLimitService(s) ==
  IF s.extension = Nil THEN "none"
  ELSE IF input.cluster.extension = Nil THEN Nil
  ELSE ParseTimeoutPolicy(input.cluster.extension)

(* Validate, ParseTimeoutPolicy, setupRateLimitService, then registration.   *)
Setup ==
  /\ stage = "check"
  /\ IF ~SpecValid(spec) THEN End("endpoints")
     ELSE IF ParseTimeoutPolicy(spec.timeout) = Nil THEN End("timeouts")
     ELSE IF SetupRateLimitService(spec) = Nil THEN End("extension")
     ELSE /\ server' = [services |-> Services(spec), watched |-> InformerNamespaces(spec),
                        builder |-> GetDAGBuilder(spec), envoySecrets |-> StatsSecrets(spec.envoyMetrics.tls),
                        envoyListeners |-> StatsListeners(spec.envoyMetrics, spec.envoyHealth)]
          /\ stage' = "started"
          /\ UNCHANGED <<input, why, parsed, config, spec, synced, bound>>

-----------------------------------------------------------------------------
(* The manager and its services. *)

Overlap(a, b) == a[2] = b[2] /\ (a[1] = b[1] \/ "0.0.0.0" \in {a[1], b[1]})

InformersSync ==
  /\ stage = "started" /\ ~synced
  /\ synced' = TRUE
  /\ UNCHANGED <<input, stage, why, parsed, config, spec, server, bound>>

Taken(socket) == \E s \in server.services : s.name \in bound /\ Overlap(s.socket, socket)

(* httpsvc.Service.Start: TLS needs a certificate and a key, and what the    *)
(* files hold is looked at first.                                            *)
MetricsTLSPartial(tls) ==
  IF tls = Nil THEN FALSE ELSE (tls.cert \/ tls.key \/ tls.ca) /\ ~(tls.cert /\ tls.key)

HTTPServiceStart(s) ==
  /\ stage = "started" /\ s.name \notin bound \union {"xds"}
  /\ IF \/ s.tls /\ ~input.certificates
        \/ s.name = "metrics" /\ MetricsTLSPartial(spec.metrics.tls)
     THEN End("metrics tls")
     ELSE IF Taken(s.socket) THEN End("bind")
     ELSE bound' = bound \union {s.name}
          /\ UNCHANGED <<input, stage, why, parsed, config, spec, server, synced>>

(* verifyTLSFlags: all three files. *)
TLSFlagsVerified(tls) == tls.files = {"ca", "cert", "key"}

XDSServerStartAfterHealth(s) ==
  /\ stage = "started" /\ s.name = "xds" /\ "xds" \notin bound /\ synced /\ "health" \in bound
  /\ bound' = bound \union {"xds"}
  /\ UNCHANGED <<input, stage, why, parsed, config, spec, server, synced>>

(* xdsServer.Start waits for the informers first. *)
XDSServerStart(s) ==
  /\ stage = "started" /\ s.name = "xds" /\ "xds" \notin bound /\ synced
  /\ IF s.tls /\ ~(TLSFlagsVerified(spec.xds.tls) /\ input.certificates) THEN End("xds tls")
     ELSE IF Taken(s.socket) THEN End("bind")
     ELSE bound' = bound \union {"xds"}
          /\ UNCHANGED <<input, stage, why, parsed, config, spec, server, synced>>

-----------------------------------------------------------------------------
ServeInit ==
  /\ input \in Inputs
  /\ stage = "parse" /\ why = "" /\ parsed = FALSE /\ config = Defaults
  /\ spec = Nil /\ server = Nil /\ synced = FALSE /\ bound = {}

ServeNext ==
  \/ ParseConfig \/ Validate \/ NewServer \/ Configure \/ Setup \/ InformersSync
  \/ /\ stage = "started"
     /\ \E s \in server.services : HTTPServiceStart(s) \/ XDSServerStart(s)

(* Every step is the program's own, but for the sync of the informers.       *)
ServeSpec == ServeInit /\ [][ServeNext]_serveVars /\ WF_serveVars(ServeNext)

-----------------------------------------------------------------------------
Up == stage = "started" /\ bound = {s.name : s \in server.services}

(* "config file, overridden by env vars, overridden by cli flags"            *)
(* (registerServe), for --envoy-service-name, a flag without a default that  *)
(* sets the same value as the file: two parses and one reading of the file   *)
(* in between leave it where it should be. It says nothing of the flags of   *)
(* the leader election, which have defaults, nor of those of metrics and     *)
(* stats, over which the file prevails on purpose (SetMetricsFromConfig).    *)
Precedence ==
  stage \in {"configure", "check", "started"} =>
    config.envoyService =
      IF input.flags.envoyService # Nil THEN input.flags.envoyService
      ELSE IF input.flags.config THEN input.file.envoyService
      ELSE Defaults.envoyService

(* Probes do without TLS: of Sesame's services, and of Envoy's listeners,    *)
(* exactly one answers them, at the address that was asked for and in        *)
(* clear, however metrics and health share their ports.                      *)
ProbesAnswered ==
  stage = "started" =>
    /\ \E s \in server.services : /\ "/health" \in s.paths /\ ~s.tls /\ s.socket = spec.health
                                  /\ \A t \in server.services : "/health" \in t.paths => t = s
    /\ \E s \in server.envoyListeners :
         /\ "/ready" \in s.paths /\ ~s.tls /\ s.socket = spec.envoyHealth
         /\ \A t \in server.envoyListeners \ {s} : "/ready" \notin t.paths /\ t.socket # s.socket

(* The filter in front of the cache lets through every Secret that the       *)
(* processors are configured with, and those of the root namespaces.         *)
SecretsWatched ==
  stage = "started" /\ server.watched # Nil =>
    /\ \A ref \in server.builder.secretRefs : ref.namespace \in server.watched
    /\ server.builder.rootNamespaces \subseteq server.watched

(* The process comes up or ends with a reason. *)
ComesUpOrEnds == stage = "parse" ~> (Up \/ stage = "ended")
=============================================================================
