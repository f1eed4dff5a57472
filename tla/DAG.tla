-------------------------------- MODULE DAG ---------------------------------
(***************************************************************************)
(* The data structure the processors build (internal/dag/dag.go,            *)
(* accessors.go) and the lookups in the cache of Kubernetes objects they    *)
(* build it from (cache.go). A DAG is a record; its maps are functions.     *)
(*                                                                         *)
(* A "source" holds what the KubernetesCache holds: services and secrets by *)
(* name, a name being a pair of namespace and name, and the certificate     *)
(* delegations.                                                             *)
(***************************************************************************)
EXTENDS Policies

Put(f, k, v) == [x \in DOMAIN f \union {k} |-> IF x = k THEN v ELSE f[x]]

EmptyDAG ==
  [VirtualHosts |-> <<>>, SecureVirtualHosts |-> <<>>, ExtensionClusters |-> <<>>]

VirtualHost == [Routes |-> <<>>, CORS |-> Nil, RateLimit |-> Nil]

SecureVirtualHost ==
  [Routes |-> <<>>, CORS |-> Nil, RateLimit |-> Nil, Secret |-> Nil, Fallback |-> Nil,
   TCP |-> Nil, Downstream |-> Nil, Auth |-> Nil, AuthTimeout |-> Nil, MaxBody |-> Nil,
   MinTLSVersion |-> ""]

(* The policies of a route that asks for none. *)
DefaultPolicies ==
  [reqHP |-> Nil, respHP |-> Nil, timeout |-> TimeoutPolicy(Nil), retry |-> Nil, rateLimit |-> Nil,
   hash |-> <<>>, lb |-> ""]

(* What a processor says about a route; the rest is as in this record. The  *)
(* object that the route comes from is named for the properties' sake.      *)
Route ==
  [match |-> PrefixMatch(RootPath, "string"), headers |-> <<>>, clusters |-> <<>>,
   mirror |-> Nil, upgrade |-> FALSE, websocket |-> FALSE, rewrite |-> Nil, authDisabled |-> FALSE,
   direct |-> Nil, redirect |-> FALSE, policies |-> DefaultPolicies, owner |-> Nil,
   ownerKind |-> Nil]

(* The status of a direct response is a status. *)
ASSUME StatusCodesAssumption == Nil \notin {502, 503}

Cluster(service, port) ==
  [service |-> service, port |-> port, weight |-> 0, protocol |-> "", sni |-> Nil,
   validation |-> Nil, headers |-> Nil, clientCert |-> Nil, lb |-> "", health |-> Nil,
   external |-> ""]

-----------------------------------------------------------------------------
(* Virtual hosts *)

EnsureVirtualHost(dag, host) ==
  IF host \in DOMAIN dag.VirtualHosts THEN dag
  ELSE [dag EXCEPT !.VirtualHosts = Put(@, host, VirtualHost)]

EnsureSecureVirtualHost(dag, host) ==
  IF host \in DOMAIN dag.SecureVirtualHosts THEN dag
  ELSE [dag EXCEPT !.SecureVirtualHosts = Put(@, host, SecureVirtualHost)]

(* Routes with the same conditions are the same route: the last one counts. *)
ConditionsToString(route) == <<route.match, route.headers>>

AddRoute(vhost, route) == [vhost EXCEPT !.Routes = Put(@, ConditionsToString(route), route)]

AddRoutes(vhost, routes) == FoldLeft(AddRoute, vhost, routes)

Valid(vhost) == vhost.Routes # <<>>

SecureValid(svhost) ==
  (svhost.Secret # Nil /\ svhost.Routes # <<>>) \/ svhost.TCP # Nil

RoutesOf(vhost) == {vhost.Routes[k] : k \in DOMAIN vhost.Routes}

(* Host names are texts: which ones have a wildcard for their first label,  *)
(* what remains without it, and which are not DNS names.                    *)
IsWildcard(host) == host \in {"*.a", "*.b"}
RemoveFirstDNSLabel(host) ==
  CASE host \in {"*.a", "x.a", "y.a"} -> ".a" [] host \in {"*.b", "x.b"} -> ".b" [] OTHER -> host
ValidHostName(host) == host \notin {"*", "10.0.0.1"}

(* One label in place of the wildcard, which Envoy's own match does not ask *)
(* for.                                                                     *)
WildcardDomainHeaderMatch(host) ==
  [name |-> ":authority", value |-> host, invert |-> FALSE, type |-> "regex"]

-----------------------------------------------------------------------------
(* Lookups *)

ExternalName(svc) == IF svc.type = "ExternalName" THEN svc.external ELSE ""

ValidateExternalName(svc, enabled) ==
  ExternalName(svc) = "" \/ (enabled /\ ExternalName(svc) # "localhost")

(* A port is referred to by number or by name; the first match decides. *)
LookupService(source, name, port) ==
  IF name \notin DOMAIN source.services THEN Failed
  ELSE LET svc == source.services[name]
           matching == SelectSeq(svc.ports, LAMBDA p :
                         p.number = port.number \/ (p.name # "" /\ p.name = port.name))
       IN  IF matching = <<>> \/ Head(matching).protocol # "TCP" THEN Failed
           ELSE [svc |-> svc, port |-> Head(matching)]

(* The protocol annotation names the port by its name, or else its number.  *)
UpstreamProtocol(svc, port) ==
  IF port.name \in DOMAIN svc.byName THEN svc.byName[port.name]
  ELSE IF port.number \in DOMAIN svc.byNumber THEN svc.byNumber[port.number] ELSE ""

EnsureService(source, name, port, enableExternalName) ==
  LET found == LookupService(source, name, port)
  IN  IF found = Failed THEN Failed
      ELSE IF ~ValidateExternalName(found.svc, enableExternalName) THEN Failed
      ELSE [name |-> name, port |-> found.port, external |-> ExternalName(found.svc),
            protocol |-> UpstreamProtocol(found.svc, found.port)]

ValidSecret(s) == s.type = "tls" /\ s.cert # <<>> /\ s.key # <<>>
ValidCA(s) == s.ca # <<>>

(* LookupSecret with each of the two functions that validate.               *)
LookupSecret(source, name) ==
  IF name \in DOMAIN source.secrets /\ ValidSecret(source.secrets[name]) THEN name ELSE Failed
LookupCA(source, name) ==
  IF name \in DOMAIN source.secrets /\ ValidCA(source.secrets[name]) THEN name ELSE Failed

(* Targets are namespaces, or a star alone. *)
DelegationPermitted(source, secret, namespace) ==
  \/ secret[1] = namespace
  \/ \E d \in source.delegations :
       d.secret = secret /\ (namespace \in d.targets \/ d.targets = {"*"})

LookupUpstreamValidation(source, uv) ==
  IF LookupCA(source, uv.ca) = Failed \/ uv.subject = "" THEN Failed
  ELSE [ca |-> uv.ca, subject |-> uv.subject]

GetProtocol(service, s) ==
  IF service.protocol = Nil THEN s.protocol
  ELSE IF service.protocol \in {"h2c", "h2", "tls"} THEN service.protocol ELSE Failed

-----------------------------------------------------------------------------
(* Secrets: what the cache accepts (secret.go). A bundle is a sequence of   *)
(* PEM blocks: a certificate with or without a name, a key that can be      *)
(* parsed or not, something else.                                           *)

ValidateServingBundle(data) ==
  /\ data # <<>> /\ \A i \in DOMAIN data : data[i] \in {"cert", "nameless cert"}
  /\ data[1] = "cert"

ValidateCABundle(data) ==
  data # <<>> /\ \A i \in DOMAIN data : data[i] \in {"cert", "nameless cert", "broken cert"}

(* A PKCS key that can be parsed ends the search with success; one that     *)
(* cannot be parsed is counted. EC keys are counted if they can be parsed.  *)
ValidatePrivateKey(data) ==
  LET End(b) == b \in {"key", "broken ec key", "junk"}
      first == SelectInSeq(data, End)
      keys == SelectSeq(data, LAMBDA b : b \in {"broken key", "ec key"})
  IN  IF first # 0 THEN data[first] = "key" ELSE Len(keys) = 1

IsValidSecret(s) ==
  /\ \/ s.type = "tls" /\ ValidateServingBundle(s.cert) /\ ValidatePrivateKey(s.key)
     \/ s.type = "opaque" /\ s.cert = <<>> /\ s.key = <<>> /\ s.ca # <<>>
  /\ s.ca # <<>> => ValidateCABundle(s.ca)

-----------------------------------------------------------------------------
(* What the caches of Envoy resources read. The listener processor attaches *)
(* the virtual hosts that are valid to the two listeners.                   *)

ListenerHosts(dag) == {h \in DOMAIN dag.VirtualHosts : Valid(dag.VirtualHosts[h])}

SecureListenerHosts(dag) ==
  {h \in DOMAIN dag.SecureVirtualHosts : SecureValid(dag.SecureVirtualHosts[h])}

GetClustersNoMirrors(dag) ==
  LET secure == {dag.SecureVirtualHosts[h] : h \in SecureListenerHosts(dag)}
      plain == {dag.VirtualHosts[h] : h \in ListenerHosts(dag)}
      routes == (UNION {RoutesOf(v) : v \in plain}) \union (UNION {RoutesOf(v) : v \in secure})
  IN  (UNION {Range(r.clusters) : r \in routes})
        \union (UNION {Range(v.TCP) : v \in {v \in secure : v.TCP # Nil}})

GetClusters(dag) ==
  LET Of(r) == Range(r.clusters) \union (IF r.mirror = Nil THEN {} ELSE {r.mirror})
      secure == {dag.SecureVirtualHosts[h] : h \in SecureListenerHosts(dag)}
      plain == {dag.VirtualHosts[h] : h \in ListenerHosts(dag)}
      routes == (UNION {RoutesOf(v) : v \in plain}) \union (UNION {RoutesOf(v) : v \in secure})
  IN  (UNION {Of(r) : r \in routes})
        \union (UNION {Range(v.TCP) : v \in {v \in secure : v.TCP # Nil}})

GetSecrets(dag) ==
  LET served == {dag.SecureVirtualHosts[h] : h \in SecureListenerHosts(dag)}
      clients == {c.clientCert : c \in GetClusters(dag)}
  IN  ({v.Secret : v \in served} \union {v.Fallback : v \in served} \union clients) \ {Nil}

GetExtensionCluster(dag, name) ==
  IF \E e \in Range(dag.ExtensionClusters) : e.name = name
  THEN CHOOSE e \in Range(dag.ExtensionClusters) : e.name = name ELSE Nil
=============================================================================
