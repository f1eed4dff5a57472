--------------------------- MODULE Configuration ----------------------------
(***************************************************************************)
(* The configuration of "sesame serve": the parameters of the configuration *)
(* file with their defaults and their validation (pkg/config), what becomes *)
(* of them and of the flags in a SesameConfigurationSpec (servecontext.go), *)
(* and the validation of that (apis/projectsesame/v1alpha1/helpers.go).     *)
(*                                                                         *)
(* Kept are the parameters that other parts of the program decide by. A     *)
(* socket is a pair of an address and a port.                               *)
(***************************************************************************)
EXTENDS Integers, FiniteSets, Sequences

CONSTANT Nil

Blank == {"", " "}

NoName == [name |-> "", namespace |-> ""]
NoHeaders == [set |-> {}, remove |-> {}]
NoServer == [address |-> "", port |-> 0, cert |-> FALSE, key |-> FALSE, ca |-> FALSE]

(* A field of the access log: a name, or "name=format".                      *)
Field(name) == [name |-> name, format |-> Nil]

(* DefaultFields has fields of both kinds: with a mapping, and operators.    *)
Defaults ==
  [envoyService |-> "envoy", lease |-> "15s", xdsType |-> "sesame", gateway |-> Nil,
   accessLog |-> "envoy", fields |-> <<Field("path"), Field("duration")>>, format |-> "",
   ciphers |-> {}, requestHeaders |-> NoHeaders, responseHeaders |-> NoHeaders, versions |-> {},
   dns |-> "auto", balancer |-> "",
   fallback |-> NoName, client |-> NoName, timeout |-> "60s", extension |-> "",
   applyToIngress |-> FALSE, metrics |-> NoServer, envoyMetrics |-> NoServer]

(* Parse: the file's values on top of the defaults, HTTP versions in lower   *)
(* case. A file that is no YAML, or has an unknown key, is not parsed.       *)
ToLower(v) == CASE v = "HTTP/1.1" -> "http/1.1" [] v = "HTTP/2" -> "http/2" [] OTHER -> v
Parse(file) ==
  IF file = Nil THEN Nil ELSE [file EXCEPT !.versions = {ToLower(v) : v \in @}]

-----------------------------------------------------------------------------
(* Validation of the parameters. *)

ServerTypeValid(t) == t \in {"sesame", "envoy"}
GatewayParametersValid(g) == g # Nil => g # ""
ClusterDNSFamilyValid(d) == d \in {"auto", "v4", "v6"}
AccessLogTypeValid(a) == a \in {"envoy", "json"}
HTTPVersionValid(v) == v \in {"http/1.1", "http/2"}
ListenerParametersValid(b) == b \in {"", "exact"}

(* A format of known operators that ends in a newline. *)
AccessLogFormatValid(f) == f \in {"", "operators and newline"}

(* AsFieldMap: a name alone stands for its mapping or for the operator of    *)
(* that name; of two fields with one name the later prevails.                *)
JSONFields == {"path", "request_id"}
EnvoySimpleOperators == {"duration", "hostname"}
AsFormat(field) ==
  CASE field.format # Nil -> field.format
    [] field.name \in JSONFields \union EnvoySimpleOperators -> "operators"
    [] OTHER -> ""
AccessLogFieldsValid(fields) ==
  \A i \in DOMAIN fields :
    (\A j \in DOMAIN fields : fields[j].name = fields[i].name => j <= i)
      => AsFormat(fields[i]) \in {"operators", "operators and newline"}

TrimSpace(c) == IF c = " AES256-SHA " THEN "AES256-SHA" ELSE c
TLSCiphersValid(ciphers) == \A c \in ciphers : TrimSpace(c) \in {"AES256-SHA", "AES256-GCM-SHA384"}

(* The names of headers to set and to remove. *)
HeadersPolicyValid(h) == \A name \in h.set \union h.remove : name \in {"x-a", "x-b"}
PolicyParametersValid(request, response) ==
  HeadersPolicyValid(request) /\ HeadersPolicyValid(response)

(* Both the name and the namespace, or neither. *)
NamespacedNameValid(n) == (n.name \in Blank) = (n.namespace \in Blank)

TimeoutValid(t) == t \in {"", "infinity", "infinite"} \/ t \in {"0s", "60s"}

MetricsServerParametersValid(s) == s.cert = s.key /\ (s.ca => s.cert)
HasTLS(s) == s.cert /\ s.key

ParametersValid(p) ==
  /\ ClusterDNSFamilyValid(p.dns) /\ ServerTypeValid(p.xdsType)
  /\ GatewayParametersValid(p.gateway)
  /\ AccessLogTypeValid(p.accessLog) /\ AccessLogFieldsValid(p.fields)
  /\ AccessLogFormatValid(p.format)
  /\ NamespacedNameValid(p.fallback) /\ NamespacedNameValid(p.client)
  /\ TLSCiphersValid(p.ciphers)
  /\ TimeoutValid(p.timeout) /\ PolicyParametersValid(p.requestHeaders, p.responseHeaders)
  /\ \A v \in p.versions : HTTPVersionValid(v)
  /\ MetricsServerParametersValid(p.metrics) /\ MetricsServerParametersValid(p.envoyMetrics)
  /\ ListenerParametersValid(p.balancer)

-----------------------------------------------------------------------------
(* The SesameConfigurationSpec. *)

(* The file's address, port and TLS prevail over the flags'. *)
SetMetricsFromConfig(src, socket) ==
  [socket |-> <<IF src.address # "" THEN src.address ELSE socket[1],
                IF src.port > 0 THEN src.port ELSE socket[2]>>,
   tls |-> IF HasTLS(src) THEN [cert |-> src.cert, key |-> src.key, ca |-> src.ca] ELSE Nil]

NameOrNil(n) == IF n.name = "" THEN Nil ELSE n

ConvertToSesameConfigurationSpec(flags, config) ==
  [xds |-> [type |-> IF config.xdsType = "envoy" THEN "envoy" ELSE "sesame",
            socket |-> flags.xds, tls |-> [files |-> flags.tlsFiles, insecure |-> flags.insecure]],
   debug |-> flags.debug, health |-> flags.health,
   metrics |-> SetMetricsFromConfig(config.metrics, flags.metrics),
   envoyHealth |-> flags.stats,
   envoyMetrics |-> SetMetricsFromConfig(config.envoyMetrics, flags.stats),
   gateway |-> config.gateway, rootNamespaces |-> flags.rootNamespaces,
   fallback |-> NameOrNil(config.fallback), client |-> NameOrNil(config.client),
   timeout |-> IF config.timeout = "" THEN Nil ELSE config.timeout,
   extension |-> IF config.extension = "" THEN Nil ELSE config.extension,
   applyToIngress |-> config.applyToIngress]

EndpointsInConflictMutualTLS(health, metrics) ==
  metrics.tls # Nil /\ metrics.socket = health /\ metrics.tls.ca

(* Metrics over TLS and health without it cannot share a port. *)
EndpointsInConflict(health, metrics) == metrics.tls # Nil /\ metrics.socket = health

EnvoyConfigValid(spec) == ~EndpointsInConflict(spec.envoyHealth, spec.envoyMetrics)
SpecValid(spec) == ~EndpointsInConflict(spec.health, spec.metrics) /\ EnvoyConfigValid(spec)

(* ParseTimeoutPolicy: a timeout is a default, disabled or a duration.       *)
ParseTimeoutPolicy(t) ==
  CASE t = Nil \/ t = "" \/ t = "0s" -> "default"
    [] t \in {"infinity", "infinite"} -> "disabled"
    [] t = "60s" -> t
    [] OTHER -> Nil
=============================================================================
