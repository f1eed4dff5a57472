------------------------- MODULE HTTPProxyProcessor -------------------------
(***************************************************************************)
(* The processor that turns HTTPProxies into virtual hosts and routes       *)
(* (internal/dag/httpproxy_processor.go). A root names a virtual host; it   *)
(* has routes of its own and includes other proxies, whose routes it gets   *)
(* below the conditions of the include. The processor goes through the      *)
(* proxies in the order of a Go map, so any order; while it follows the     *)
(* includes of a root it fills the DAG, the status of each proxy it comes   *)
(* by, and the set of those that no root has included.                      *)
(*                                                                         *)
(* One run of the processor is one behaviour; what it starts from, the      *)
(* proxies and the objects they name, is chosen in Init. A proxy is known   *)
(* by the pair of its namespace and name.                                   *)
(***************************************************************************)
EXTENDS DAG, TLC

CONSTANT Word (* 2^32 in the code: the range of uint32 *)
ASSUME WordAssumption == Word \in Nat \ {0}

VARIABLES
  source,   (* the cache: proxies, services, secrets, delegations *)
  config,   (* the fields of the processor                        *)
  dag,
  updates,  (* the StatusCache: a condition for each proxy        *)
  orphaned, (* proxies no root has included so far                *)
  todo,     (* valid proxies that are still to be computed        *)
  phase

vars == <<source, config, dag, updates, orphaned, todo, phase>>

Proxies == source.proxies
IsRoot(p) == Proxies[p].vhost # Nil

(* strings.ToLower of a host name *)
LowerHost(host) == IF host = "A" THEN "a" ELSE host

-----------------------------------------------------------------------------
(* Conditions of proxies, and the cache of status updates *)

ValidCondition == [errors |-> {}, warnings |-> {}]
AddError(cond, reason) == [cond EXCEPT !.errors = @ \union {reason}]
AddWarning(cond, reason) == [cond EXCEPT !.warnings = @ \union {reason}]

CommitAlways(ups, p, cond) == Put(ups, p, cond)

(* The commit function of ProxyAccessor: a proxy can be visited more than   *)
(* once, and a visit that finds no error does not undo one that did.        *)
Commit(ups, p, cond) ==
  IF p \in DOMAIN ups /\ ups[p].errors # {} /\ cond.errors = {} THEN ups
  ELSE Put(ups, p, cond)

-----------------------------------------------------------------------------
(* Services and routes of one proxy. The processing of a route carries      *)
(* along: the route so far, the condition, the values of dynamic headers    *)
(* (a map that the services of all routes of the proxy write), and whether  *)
(* an error has ended it.                                                   *)

Fail(acc, reason) == [acc EXCEPT !.cond = AddError(@, reason), !.failed = TRUE]

(* The reason for which a service that exists ends the processing. *)
ServiceError(ns, service, found) ==
  LET protocol == GetProtocol(service, found)
      uv == service.validation
  IN  IF protocol = Failed THEN "UnsupportedProtocol"
      ELSE IF protocol \notin {"tls", "h2"} \/ uv = Nil THEN Nil
      ELSE IF ~DelegationPermitted(source, uv.ca, ns) THEN "CACertificateNotDelegated"
      ELSE IF LookupUpstreamValidation(source, uv) = Failed THEN "TLSUpstreamValidation"
      ELSE Nil

ServiceCluster(ns, service, found, acc, reqHP) ==
  LET protocol == GetProtocol(service, found)
  IN  [Cluster(found.name, found.port) EXCEPT
        !.weight = service.weight % Word, !.protocol = protocol, !.health = acc.health, !.headers = reqHP, !.lb = acc.lb,
        !.validation = IF protocol \in {"tls", "h2"} /\ service.validation # Nil
                       THEN LookupUpstreamValidation(source, service.validation) ELSE Nil,
        !.sni = DetermineSNI(acc.reqHP, reqHP, found.external),
        !.clientCert = config.clientCert, !.external = found.external]

PortInRange(n) == n >= 1 /\ n <= 65535

(* One pass of the loop over the services of a route. *)
ComputeService(ns, acc, service) ==
  LET found == EnsureService(source, <<ns, service.name>>, [number |-> service.port, name |-> ""],
                             config.enableExternalName)
      error == ServiceError(ns, service, found)
      dyn == Put(Put(acc.dyn, "SERVICE_NAME", service.name), "SERVICE_PORT", ToString(service.port))
      reqHP == HeadersPolicyService(config.reqHeaders, service.reqHeaders, dyn)
      respHP == HeadersPolicyService(config.respHeaders, service.respHeaders, dyn)
      at == [acc EXCEPT !.dyn = dyn]
      cluster == ServiceCluster(ns, service, found, acc, reqHP)
  IN  IF acc.failed THEN acc
      ELSE IF ~PortInRange(service.port) THEN Fail(acc, "ServicePortInvalid")
      ELSE IF found = Failed
      THEN [acc EXCEPT !.cond = AddError(@, "ServiceUnresolvedReference")]
      ELSE IF error # Nil THEN Fail(acc, error)
      ELSE IF reqHP = Failed THEN Fail(at, "RequestHeadersPolicyInvalid")
      ELSE IF respHP = Failed THEN Fail(at, "ResponseHeadersPolicyInvalid")
      ELSE IF CookieRewritePolicies(service.cookies) = Failed THEN Fail(at, "CookieRewritePoliciesInvalid")
      ELSE IF config.clientCert # Nil /\ LookupSecret(source, config.clientCert) = Failed
      THEN Fail(at, "SecretNotValid")
      ELSE IF service.mirror
      THEN IF acc.route.mirror # Nil THEN Fail(at, "OnlyOneMirror")
           ELSE [at EXCEPT !.route.mirror = cluster]
      ELSE [at EXCEPT !.route.clusters = Append(@, cluster)]

(* The reason for which the policies of a route end the processing, in the  *)
(* order in which the code looks at them.                                   *)
RouteError(route, conds, reqHP, respHP) ==
  IF ~PathMatchConditionsValid(route.conditions) THEN "PathMatchConditionsNotValid"
  ELSE IF ~HeaderMatchConditionsValid(conds) THEN "HeaderMatchConditionsNotValid"
  ELSE IF reqHP = Failed THEN "RequestHeadersPolicyInvalid"
  ELSE IF respHP = Failed THEN "ResponseHeaderPolicyInvalid"
  ELSE IF CookieRewritePolicies(route.cookies) = Failed THEN "CookieRewritePoliciesInvalid"
  ELSE IF route.services = <<>> /\ ~route.redirect THEN "NoServicesPresent"
  ELSE IF TimeoutPolicy(route.timeout) = Failed THEN "TimeoutPolicyNotValid"
  ELSE IF RateLimitPolicy(route.rateLimit, Word) = Failed THEN "RateLimitPolicyNotValid"
  ELSE Nil

AuthorizationConfigured(vh) == vh.tls # Nil /\ vh.auth # Nil

(* Is authorization disabled for a route: by its own policy or, without     *)
(* one, by that of the root?                                                *)
AuthDisabled(root, route) ==
  LET vh == Proxies[root].vhost
  IN  AuthorizationConfigured(vh) /\
        (IF route.authDisabled # Nil THEN route.authDisabled ELSE vh.auth.disabled = TRUE)

RouteEnforceTLSIfPermitted(enforceTLS, permitInsecure) == enforceTLS /\ permitInsecure
RouteEnforceTLS(enforceTLS, permitInsecure) == enforceTLS /\ ~permitInsecure

(* One pass of the loop over the routes of a proxy. An error ends the       *)
(* processing of the proxy and its routes, and those included, are lost.    *)
ComputeRoute(root, p, conds, enforceTLS, acc, route) ==
  LET merged == conds \o route.conditions
      path == MergePathMatchConditions(merged)
      reqHP == HeadersPolicyRoute(route.reqHeaders, TRUE, acc.dyn)
      respHP == HeadersPolicyRoute(route.respHeaders, FALSE, acc.dyn)
      error == RouteError(route, merged, reqHP, respHP)
      lb == LoadBalancerRequestHashPolicies(route.lb)
      host == Proxies[root].vhost.fqdn
      start == [Route EXCEPT
        !.match = PrefixMatch(path, "string"),
        !.headers = MergeHeaderMatchConditions(merged),
        !.upgrade = RouteEnforceTLS(enforceTLS, route.permitInsecure /\ ~config.disablePermitInsecure),
        !.redirect = route.redirect,
        !.authDisabled = AuthDisabled(root, route),
        !.rewrite = PrefixRewrite(path, route.replace),
        !.websocket = route.websocket,
        !.policies = [reqHP |-> reqHP, respHP |-> respHP, timeout |-> TimeoutPolicy(route.timeout),
                      retry |-> RetryPolicy(route.retry),
                      rateLimit |-> RateLimitPolicy(route.rateLimit, Word),
                      hash |-> lb.policies, lb |-> lb.strategy],
        !.owner = p, !.ownerKind = "HTTPProxy"]
      begun == [acc EXCEPT !.route = start, !.reqHP = reqHP, !.lb = lb.strategy,
                           !.health = HealthCheckPolicy("http", route.health),
                           !.cond = IF lb.warn THEN AddWarning(@, "IgnoredField") ELSE @]
      Finish(served) ==
        IF served.failed THEN served
        ELSE [served EXCEPT !.routes = Append(@, [served.route EXCEPT
               !.direct = IF @ = Nil /\ served.route.clusters = <<>> /\ ~route.redirect THEN 503 ELSE @,
               !.headers = IF IsWildcard(host) THEN Append(@, WildcardDomainHeaderMatch(host)) ELSE @])]
  IN  IF acc.failed THEN acc
      ELSE IF error # Nil THEN Fail(acc, error)
      ELSE IF ~PrefixReplacementsAreValid(route.replace) THEN Fail(begun, "DuplicateReplacement")
      ELSE Finish(FoldLeft(LAMBDA a, s : ComputeService(p[1], a, s), begun, route.services))

-----------------------------------------------------------------------------
(* Includes *)

(* A visit to a proxy: from a root, by the proxies visited, below the       *)
(* conditions of the includes on the way. What a visit leads to, routes     *)
(* apart, is the statuses it commits, in their order, and the proxies it    *)
(* takes from the orphaned ones.                                            *)
IncludeConditions ==
  UNION {UNION {Range(i.conditions) : i \in Range(Proxies[p].includes)} : p \in DOMAIN Proxies}
Visits == [proxy : DOMAIN Proxies, conds : Seq(IncludeConditions), visited : Seq(DOMAIN Proxies)]

VisitStart(p) ==
  [routes |-> <<>>, route |-> Route, reqHP |-> Nil, lb |-> "", health |-> Nil, cond |-> ValidCondition,
   dyn |-> ("NAMESPACE" :> p[1]), failed |-> FALSE, commits |-> <<>>, freed |-> {}]

(* One pass of the loop over the includes of a proxy; results are those of  *)
(* all visits.                                                              *)
ComputeInclude(results, v, acc, include) ==
  LET child == include.target
      notFound == [Route EXCEPT
        !.match = PrefixMatch(MergePathMatchConditions(include.conditions), "string"),
        !.headers = MergeHeaderMatchConditions(include.conditions),
        !.direct = 502, !.owner = v.proxy, !.ownerKind = "HTTPProxy"]
      below == results[[proxy |-> child, conds |-> v.conds \o include.conditions,
                        visited |-> Append(v.visited, v.proxy)]]
      Error(reason) == [acc EXCEPT !.cond = AddError(@, reason)]
  IN  IF ~PathMatchConditionsValid(include.conditions) THEN Error("PathMatchConditionsNotValid")
      ELSE IF ~HeaderMatchConditionsValid(include.conditions) THEN Error("HeaderMatchConditionsNotValid")
      ELSE IF child \notin DOMAIN Proxies
      THEN [Error("IncludeNotFound") EXCEPT
             !.routes = IF include.conditions = <<>> THEN @ ELSE Append(@, notFound)]
      ELSE IF IsRoot(child) THEN Error("RootIncludesRoot")
      ELSE [acc EXCEPT !.routes = @ \o below.routes,
                       !.commits = Append(@ \o below.commits, [proxy |-> child, cond |-> below.cond]),
                       !.freed = @ \union below.freed \union {child}]

(* The routes of a proxy, those it includes first. *)
ComputeVisit(results, root, enforceTLS, v) ==
  LET p == v.proxy
      spec == Proxies[p]
      Error(reason) == [VisitStart(p) EXCEPT !.cond = AddError(@, reason)]
      included == FoldLeft(LAMBDA a, i : ComputeInclude(results, v, a, i), VisitStart(p), spec.includes)
      own == FoldLeft(LAMBDA a, r : ComputeRoute(root, p, v.conds, enforceTLS, a, r), included, spec.routes)
  IN  IF p \in Range(v.visited) THEN Error("IncludeCreatesCycle")
      ELSE IF IncludeMatchConditionsIdentical(spec.includes) THEN Error("DuplicateMatchConditions")
      ELSE [own EXCEPT !.routes = IF own.failed THEN <<>> ELSE ExpandPrefixMatches(@)]

ComputeRoutes(root, enforceTLS) ==
  LET results[v \in Visits] == ComputeVisit(results, root, enforceTLS, v)
  IN  results[[proxy |-> root, conds |-> <<>>, visited |-> <<>>]]

-----------------------------------------------------------------------------
(* TCP proxies *)

(* The services of a TCPProxy, all of which must resolve. *)
TCPServiceError(ns, service) ==
  LET found == EnsureService(source, <<ns, service.name>>, [number |-> service.port, name |-> ""],
                             config.enableExternalName)
  IN  IF found = Failed THEN "ServiceUnresolvedReference"
      ELSE IF GetProtocol(service, found) = Failed THEN "UnsupportedProtocol" ELSE Nil

TCPCluster(ns, service, lb, health) ==
  LET found == EnsureService(source, <<ns, service.name>>, [number |-> service.port, name |-> ""],
                             config.enableExternalName)
  IN  [Cluster(found.name, found.port) EXCEPT
        !.weight = service.weight % Word, !.protocol = GetProtocol(service, found),
        !.health = health,
        !.lb = IF lb \in {"Cookie", "RequestHash"} THEN "" ELSE lb, !.sni = Literal(found.external),
        !.external = found.external]

(* Follows the includes of TCP proxies to the one with services. *)
TCPVisits == [proxy : DOMAIN Proxies, visited : Seq(DOMAIN Proxies)]

ProcessTCPVisit(results, v) ==
  LET p == v.proxy
      tcp == Proxies[p].tcp
      lb == LoadBalancerPolicy(tcp.lb)
      start == [clusters |-> Nil, cond |-> ValidCondition, failed |-> FALSE, commits |-> <<>>, freed |-> {}]
      begun == IF lb \in {"Cookie", "RequestHash"}
               THEN [start EXCEPT !.cond = AddWarning(@, "IgnoredField")] ELSE start
      errors == {TCPServiceError(p[1], s) : s \in Range(tcp.services)} \ {Nil}
      first == SelectInSeq(tcp.services, LAMBDA s : TCPServiceError(p[1], s) # Nil)
      clusters == [i \in DOMAIN tcp.services |-> TCPCluster(p[1], tcp.services[i], lb, HealthCheckPolicy("tcp", tcp.health))]
      dest == tcp.include
      visited == Append(v.visited, p)
      freed == [begun EXCEPT !.freed = {dest}]
      below == results[[proxy |-> dest, visited |-> visited]]
  IN  IF tcp = Nil THEN start
      ELSE IF tcp.services # <<>> /\ dest # Nil THEN Fail(start, "NoServicesAndInclude")
      ELSE IF errors # {} THEN Fail(begun, TCPServiceError(p[1], tcp.services[first]))
      ELSE IF tcp.services # <<>> THEN [begun EXCEPT !.clusters = clusters]
      ELSE IF dest = Nil THEN Fail(begun, "NothingDefined")
      ELSE IF dest \notin DOMAIN Proxies THEN Fail(begun, "IncludeNotFound")
      ELSE IF IsRoot(dest) THEN Fail(begun, "RootIncludesRoot")
      ELSE IF dest \in Range(visited) THEN Fail(freed, "IncludeCreatesCycle")
      ELSE [freed EXCEPT !.clusters = below.clusters, !.failed = below.failed,
                         !.commits = Append(below.commits, [proxy |-> dest, cond |-> below.cond]),
                         !.freed = @ \union below.freed]

ProcessTCPProxy(root) ==
  LET results[v \in TCPVisits] == ProcessTCPVisit(results, v)
  IN  results[[proxy |-> root, visited |-> <<>>]]

-----------------------------------------------------------------------------
(* TLS of a root. The secure virtual host is filled step by step, and what  *)
(* is filled when an error ends the processing stays.                       *)

(* The reasons for which it is refused, none of which is that there is none. *)
TLSReasons ==
  {"TLSConfigNotValid", "TLSIncompatibleFeatures", "SecretNotValid", "DelegationNotPermitted", "FallbackNotPresent",
   "FallbackNotValid", "FallbackNotDelegated"}
ASSUME TLSReasonsAssumption == Nil \notin TLSReasons

SetSecure(acc, host, svhost) == [acc EXCEPT !.dag = [@ EXCEPT !.SecureVirtualHosts[host] = svhost]]

TLSConfigErrorAnyNamespace(p, tls) ==
  IF (tls.secret # Nil) = tls.passthrough THEN "TLSConfigNotValid"
  ELSE IF tls.passthrough /\ tls.client # Nil THEN "TLSIncompatibleFeatures"
  ELSE IF tls.passthrough THEN Nil
  ELSE IF LookupSecret(source, tls.secret) = Failed THEN "SecretNotValid"
  ELSE Nil

(* Why no secure virtual host is made at all. *)
TLSConfigError(p, tls) ==
  IF (tls.secret # Nil) = tls.passthrough THEN "TLSConfigNotValid"
  ELSE IF tls.passthrough /\ tls.client # Nil THEN "TLSIncompatibleFeatures"
  ELSE IF tls.passthrough THEN Nil
  ELSE IF LookupSecret(source, tls.secret) = Failed THEN "SecretNotValid"
  ELSE IF ~DelegationPermitted(source, tls.secret, p[1]) THEN "DelegationNotPermitted"
  ELSE Nil

FallbackError(p, vh) ==
  LET cert == config.fallback
  IN  IF ~vh.tls.fallback THEN Nil
      ELSE IF vh.tls.client # Nil \/ AuthorizationConfigured(vh) THEN "TLSIncompatibleFeatures"
      ELSE IF cert = Nil THEN "FallbackNotPresent"
      ELSE IF LookupSecret(source, cert) = Failed THEN "FallbackNotValid"
      ELSE IF ~DelegationPermitted(source, cert, p[1]) THEN "FallbackNotDelegated"
      ELSE Nil

(* A CA certificate that is missing is an error that ends nothing. *)
ComputeClientValidation(host, client, acc) ==
  LET svhost == acc.dag.SecureVirtualHosts[host]
      invalid == client.ca # Nil /\ LookupCA(source, client.ca) = Failed
      missing == client.ca = Nil /\ ~client.skip
      set == SetSecure(acc, host, [svhost EXCEPT !.Downstream = client])
  IN  IF client = Nil THEN acc
      ELSE IF invalid THEN Fail(acc, "ClientValidationInvalid")
      ELSE IF missing THEN [set EXCEPT !.cond = AddError(@, "ClientValidationInvalid")]
      ELSE set

(* The authorization service must be among the extension clusters that the  *)
(* ExtensionServiceProcessor has put into the DAG before.                   *)
ComputeAuthorization(host, vh, acc) ==
  LET auth == vh.auth
      ext == GetExtensionCluster(acc.dag, auth.ext)
      time == TimeoutParse(auth.timeout)
      svhost == [acc.dag.SecureVirtualHosts[host] EXCEPT !.Auth = ext.name]
      complete == [svhost EXCEPT
        !.AuthTimeout = IF time = "default" THEN ext.timeout ELSE time,
        !.MaxBody = CASE auth.body = Nil -> Nil [] auth.body = 0 -> 1024 [] OTHER -> auth.body]
  IN  IF acc.failed \/ ~AuthorizationConfigured(vh) THEN acc
      ELSE IF ~auth.version THEN Fail(acc, "AuthBadResourceVersion")
      ELSE IF ext = Nil THEN Fail(acc, "ExtensionServiceNotFound")
      ELSE IF time = Failed THEN Fail(SetSecure(acc, host, svhost), "AuthResponseTimeoutInvalid")
      ELSE SetSecure(acc, host, complete)

ComputeTLS(p, acc) ==
  LET vh == Proxies[p].vhost
      tls == vh.tls
      host == vh.fqdn
      begun == IF tls.passthrough /\ tls.fallback
               THEN [acc EXCEPT !.cond = AddError(@, "TLSIncompatibleFeatures")] ELSE acc
      error == TLSConfigError(p, tls)
      ensured == EnsureSecureVirtualHost(begun.dag, host)
      secured == [begun EXCEPT !.dag = [ensured EXCEPT !.SecureVirtualHosts[host] =
                   [@ EXCEPT !.Secret = tls.secret, !.MinTLSVersion = MinTLSVersion(tls.minVersion, "1.2")]]]
      fallback == SetSecure(secured, host, [secured.dag.SecureVirtualHosts[host] EXCEPT
                              !.Fallback = IF tls.fallback THEN config.fallback ELSE @])
  IN  IF tls = Nil THEN acc
      ELSE IF error # Nil THEN Fail(begun, error)
      ELSE IF tls.passthrough THEN begun
      ELSE IF FallbackError(p, vh) # Nil THEN Fail(secured, FallbackError(p, vh))
      ELSE ComputeAuthorization(host, vh, ComputeClientValidation(host, tls.client, fallback))

-----------------------------------------------------------------------------
(* Roots *)

RootAllowed(ns) == config.rootNamespaces = {} \/ ns \in config.rootNamespaces

(* Why a root is not looked at any further. *)
RootError(p) ==
  LET spec == Proxies[p]
  IN  IF spec.vhost.fqdn = "" THEN "FQDNNotSpecified"
      ELSE IF ~RootAllowed(p[1]) THEN "RootProxyNotAllowedInNamespace"
      ELSE IF spec.routes = <<>> /\ spec.includes = <<>> /\ spec.tcp = Nil THEN "NothingDefined"
      ELSE Nil

CORSError(cors) == cors # Nil /\ (ParseMaxAge(cors) = Failed \/ cors = "negative")

(* What the visits below a root have led to is taken over. *)
AfterVisit(acc, visit) ==
  [acc EXCEPT !.cond = [errors |-> @.errors \union visit.cond.errors, warnings |-> @.warnings \union visit.cond.warnings],
              !.updates = FoldLeft(LAMBDA ups, c : Commit(ups, c.proxy, c.cond), @, visit.commits),
              !.orphaned = @ \ visit.freed]

AddTCP(host, acc, visit) ==
  LET after == AfterVisit(acc, visit)
      ensured == EnsureSecureVirtualHost(acc.dag, host)
  IN  [after EXCEPT !.failed = visit.failed,
                    !.dag = IF visit.clusters = Nil THEN @
                            ELSE [ensured EXCEPT !.SecureVirtualHosts[host].TCP = visit.clusters]]

(* What is left to do with the routes: they go to the virtual host and, if  *)
(* TLS is enabled and no TCP proxy takes its place, to the secure one.      *)
AddToHosts(p, before, visit) ==
  LET acc == AfterVisit(before, visit)
      spec == Proxies[p]
      vh == spec.vhost
      rlp == RateLimitPolicy(vh.rateLimit, Word)
      insecure == EnsureVirtualHost(acc.dag, vh.fqdn)
      With(vhost) == AddRoutes([vhost EXCEPT !.CORS = vh.cors, !.RateLimit = rlp], visit.routes)
      plain == [insecure EXCEPT !.VirtualHosts[vh.fqdn] = With(@)]
      secure == EnsureSecureVirtualHost(plain, vh.fqdn)
      corsSet == IF CORSError(vh.cors) THEN insecure
                 ELSE [insecure EXCEPT !.VirtualHosts[vh.fqdn].CORS = vh.cors]
  IN  IF CORSError(vh.cors) THEN Fail([acc EXCEPT !.dag = corsSet], "PolicyDidNotParse")
      ELSE IF rlp = Failed THEN Fail([acc EXCEPT !.dag = corsSet], "RateLimitPolicyNotValid")
      ELSE IF vh.tls # Nil /\ spec.tcp = Nil
      THEN [acc EXCEPT !.dag = [secure EXCEPT !.SecureVirtualHosts[vh.fqdn] = With(@)]]
      ELSE [acc EXCEPT !.dag = plain]

ComputeRoot(p, acc) ==
  LET spec == Proxies[p]
      TCP(a) == IF a.failed \/ spec.tcp = Nil THEN a
                ELSE IF spec.vhost.tls = Nil THEN Fail(a, "TLSMustBeConfigured")
                ELSE AddTCP(spec.vhost.fqdn, a, ProcessTCPProxy(p))
      Routed(a) == IF a.failed THEN a ELSE AddToHosts(p, a, ComputeRoutes(p, spec.vhost.tls # Nil))
  IN  IF RootError(p) # Nil THEN Fail(acc, RootError(p)) ELSE Routed(TCP(ComputeTLS(p, acc)))

Accumulator ==
  [cond |-> ValidCondition, failed |-> FALSE, updates |-> updates, orphaned |-> orphaned, dag |-> dag]

-----------------------------------------------------------------------------
(* Actions *)

(* Roots that share a virtual host are refused, all of them. *)
ValidHTTPProxies ==
  LET roots == {p \in DOMAIN Proxies : IsRoot(p)}
      Fqdn(p) == LowerHost(Proxies[p].vhost.fqdn)
      conflicting == {p \in roots : \E q \in roots \ {p} : Fqdn(q) = Fqdn(p)}
  IN  /\ phase = "list"
      /\ todo' = DOMAIN Proxies \ conflicting
      /\ updates' = [p \in conflicting |-> AddError(ValidCondition, "DuplicateVhost")]
      /\ phase' = "compute"
      /\ UNCHANGED <<source, config, dag, orphaned>>

ComputeHTTPProxyAnyOrder(p) ==
  LET Take(root) == /\ dag' = root.dag /\ orphaned' = root.orphaned
                    /\ updates' = Commit(root.updates, p, root.cond)
  IN  /\ phase = "compute" /\ p \in todo
      /\ todo' = todo \ {p}
      /\ IF IsRoot(p)
         THEN Take(ComputeRoot(p, Accumulator))
         ELSE /\ orphaned' = orphaned \union {p}
              /\ updates' = Commit(updates, p, ValidCondition)
              /\ UNCHANGED dag
      /\ UNCHANGED <<source, config, phase>>

(* The proxies that are not roots come first. *)
ComputeHTTPProxy(p) ==
  LET Take(root) == /\ dag' = root.dag /\ orphaned' = root.orphaned
                    /\ updates' = Commit(root.updates, p, root.cond)
  IN  /\ phase = "compute" /\ p \in todo
      /\ IsRoot(p) => \A q \in todo : IsRoot(q)
      /\ todo' = todo \ {p}
      /\ IF IsRoot(p)
         THEN Take(ComputeRoot(p, Accumulator))
         ELSE /\ orphaned' = orphaned \union {p}
              /\ updates' = Commit(updates, p, ValidCondition)
              /\ UNCHANGED dag
      /\ UNCHANGED <<source, config, phase>>

MarkOrphaned ==
  /\ phase = "compute" /\ todo = {}
  /\ updates' = [p \in DOMAIN updates \union orphaned |->
                   IF p \in orphaned THEN AddError(ValidCondition, "Orphaned") ELSE updates[p]]
  /\ orphaned' = {} /\ phase' = "done"
  /\ UNCHANGED <<source, config, dag, todo>>

(* What a run may start from: any proxies, of which there are finitely      *)
(* many, whose lists are sequences and whose weights are integers (int64);  *)
(* the DAG may have extension clusters.                                     *)
IsSeq(s) == s \in Seq(Range(s))

ServicesWellFormed(services) == IsSeq(services) /\ \A s \in Range(services) : s.weight \in Int

ProxiesWellFormed ==
  /\ IsFiniteSet(DOMAIN Proxies)
  /\ \A p \in DOMAIN Proxies :
       /\ IsSeq(Proxies[p].routes) /\ \A r \in Range(Proxies[p].routes) : ServicesWellFormed(r.services)
       /\ IsSeq(Proxies[p].includes) /\ \A i \in Range(Proxies[p].includes) : IsSeq(i.conditions)
       /\ Proxies[p].tcp # Nil => ServicesWellFormed(Proxies[p].tcp.services)

Init ==
  /\ ProxiesWellFormed
  /\ dag = [EmptyDAG EXCEPT !.ExtensionClusters = dag.ExtensionClusters]
  /\ updates = <<>> /\ orphaned = {} /\ todo = {} /\ phase = "list"

Next ==
  \/ ValidHTTPProxies
  \/ \E p \in todo : ComputeHTTPProxy(p)
  \/ MarkOrphaned

(* The processor has returned. *)
Finished == phase = "done" /\ UNCHANGED vars

Spec == Init /\ [][Next \/ Finished]_vars

-----------------------------------------------------------------------------
(* What the traversal is compared with: a walk over the graph of includes.  *)

Done == phase = "done"

(* The includes of a proxy that are followed. *)
Children(p) ==
  LET spec == Proxies[p]
      followed == {i \in Range(spec.includes) :
                     /\ PathMatchConditionsValid(i.conditions)
                     /\ HeaderMatchConditionsValid(i.conditions)
                     /\ i.target \in DOMAIN Proxies /\ ~IsRoot(i.target)}
  IN  IF IncludeMatchConditionsIdentical(spec.includes) THEN {}
      ELSE {i.target : i \in followed}

(* The proxies below p: the least set that its children are in, and with    *)
(* every proxy its children.                                                *)
ClosedBelow(p, S) == Children(p) \subseteq S /\ \A q \in S : Children(q) \subseteq S
Below(p) == {q \in DOMAIN Proxies : \A S \in SUBSET DOMAIN Proxies : ClosedBelow(p, S) => q \in S}

(* Roots without TLS are followed unless they are refused, for themselves   *)
(* or because another root has the same host.                               *)
PlainRoot(r) == IsRoot(r) /\ Proxies[r].vhost.tls = Nil /\ Proxies[r].tcp = Nil
SharesHost(r) ==
  \E q \in DOMAIN Proxies \ {r} : IsRoot(q) /\ LowerHost(Proxies[q].vhost.fqdn) = LowerHost(Proxies[r].vhost.fqdn)
Followed(r) == RootError(r) = Nil /\ ~SharesHost(r)

(* All chains of includes from r to a proxy, as sequences of proxies, each  *)
(* with the conditions on the way.                                          *)
Chains(r) ==
  LET Longer(c) == {[to |-> i.target, via |-> Append(c.via, c.to), conds |-> c.conds \o i.conditions]
                      : i \in {i \in Range(Proxies[c.to].includes) :
                                 i.target \in Children(c.to) /\ i.target \notin Range(c.via) \union {c.to}}}
      Step(cs, i) == cs \union UNION {Longer(c) : c \in cs}
  IN  FoldLeft(Step, {[to |-> r, via |-> <<>>, conds |-> <<>>]}, SetToSeq(DOMAIN Proxies))

-----------------------------------------------------------------------------
(* Properties *)

(* A proxy is reported as orphaned exactly if no root reaches it, whatever  *)
(* the order in which the map of proxies is gone through (Run, the          *)
(* deletions from p.orphaned).                                              *)
OrphansExact ==
  (Done /\ \A r \in DOMAIN Proxies : IsRoot(r) => PlainRoot(r)) =>
    \A p \in DOMAIN Proxies :
      ("Orphaned" \in updates[p].errors)
        <=> (~IsRoot(p) /\ ~\E r \in DOMAIN Proxies : IsRoot(r) /\ Followed(r) /\ p \in Below(r))

(* Visits to a proxy that come later, along other includes, do not hide an  *)
(* error: a proxy that has been found invalid stays so (ProxyAccessor).     *)
InvalidStays ==
  [][\A p \in DOMAIN updates : updates[p].errors # {} => updates'[p].errors # {}]_vars

(* An include cycle that a root leads into is reported on one of its        *)
(* members (computeRoutes, "IncludeCreatesCycle").                          *)
CyclesReported ==
  Done => \A r \in DOMAIN Proxies : (PlainRoot(r) /\ Followed(r)) =>
    \A p \in Below(r) : p \in Below(p) =>
      \E q \in Below(p) : p \in Below(q) /\ updates[q].errors # {}

(* If a root and all proxies below it are valid, its virtual host has       *)
(* exactly the routes of the chains of includes from it, each below the     *)
(* conditions of its chain, and from a proxy that has that route.           *)
RoutesExact ==
  Done => \A r \in DOMAIN Proxies :
    (PlainRoot(r) /\ Followed(r) /\ \A p \in Below(r) \union {r} : updates[p].errors = {}) =>
      LET host == Proxies[r].vhost.fqdn
          wild == IF IsWildcard(host) THEN <<WildcardDomainHeaderMatch(host)>> ELSE <<>>
          Key(c, route) ==
            LET conds == c.conds \o route.conditions
                Segs(cond) == IF cond.prefix = Nil THEN <<>> ELSE cond.prefix.segs
            IN  <<FlattenSeq([i \in DOMAIN conds |-> Segs(conds[i])]), MergeHeaderMatchConditions(conds) \o wild>>
          expected == UNION {{[key |-> Key(c, route), owner |-> c.to] : route \in Range(Proxies[c.to].routes)}
                               : c \in Chains(r)}
          actual == {[key |-> <<x.match.path.segs, x.headers>>, owner |-> x.owner]
                       : x \in RoutesOf(dag.VirtualHosts[host])}
      IN  actual \subseteq expected /\ {x.key : x \in actual} = {x.key : x \in expected}

(* The host of a root that asks for TLS is served in the clear only where a *)
(* route permits it, and not at all without a certificate that its          *)
(* namespace may use (computeHTTPProxy, routeEnforceTLS).                   *)
TLSHostNotInClear ==
  Done => \A r \in DOMAIN Proxies : (IsRoot(r) /\ Proxies[r].vhost.tls # Nil) =>
    LET host == Proxies[r].vhost.fqdn
        tls == Proxies[r].vhost.tls
        Permits(p) == \E x \in Range(Proxies[p].routes) : x.permitInsecure
        routes == IF host \in DOMAIN dag.VirtualHosts THEN RoutesOf(dag.VirtualHosts[host]) ELSE {}
    IN  /\ \A x \in routes : (x.clusters # <<>> /\ ~x.upgrade) =>
             Permits(x.owner) /\ ~config.disablePermitInsecure
        /\ (routes # {} /\ ~tls.passthrough) =>
             /\ dag.SecureVirtualHosts[host].Secret = tls.secret
             /\ ValidSecret(source.secrets[tls.secret])
             /\ DelegationPermitted(source, tls.secret, r[1])

(* A secure virtual host that is served never combines the fallback         *)
(* certificate with client validation or authorization, and does not miss   *)
(* the authorization its root asks for: "We can't have the same routes      *)
(* installed on multiple managers with inconsistent authorization".         *)
SecureHostSound ==
  Done => \A host \in SecureListenerHosts(dag) :
    LET svhost == dag.SecureVirtualHosts[host]
        r == CHOOSE r \in DOMAIN Proxies : IsRoot(r) /\ Proxies[r].vhost.fqdn = host
    IN  /\ svhost.Fallback # Nil =>
             /\ svhost.Downstream = Nil /\ svhost.Auth = Nil
             /\ DelegationPermitted(source, svhost.Fallback, r[1])
        /\ (AuthorizationConfigured(Proxies[r].vhost) /\ ~Proxies[r].vhost.tls.passthrough)
             => svhost.Auth = Proxies[r].vhost.auth.ext

(* Whatever steps of computeHTTPProxy return early, a host with TLS is      *)
(* neither served in the clear nor with less protection than it asks for.   *)
TLSHostsSound == TLSHostNotInClear /\ SecureHostSound

(* Where one route alone rewrites a prefix, no request is rewritten to a    *)
(* path with two slashes or with two segments run together: each rewrite    *)
(* ends in a slash like its prefix, and both prefixes have a route (the     *)
(* table at expandPrefixMatches).                                           *)
PrefixRewriteClean ==
  Done => \A host \in DOMAIN dag.VirtualHosts :
    LET routes == RoutesOf(dag.VirtualHosts[host])
        Same(x) == {y \in routes : y.match.path.segs = x.match.path.segs}
    IN  \A x \in routes :
          (x.rewrite # Nil /\ x.match.path # RootPath /\ \A y \in Same(x) : y.rewrite # Nil) =>
            /\ x.rewrite = RootPath \/ x.rewrite.slash = x.match.path.slash
            /\ {y.match.path.slash : y \in Same(x)} = BOOLEAN

(* What a header of a request can be, for two values of which a third one   *)
(* contains both; does it match a condition of the API?                     *)
HeaderMatches(cond, value) ==
  LET holds == CASE cond.op \in {"present", "notpresent"} -> value # "absent"
                 [] cond.op \in {"exact", "notexact"} -> value = cond.value
                 [] cond.op \in {"contains", "notcontains"} -> value \in {cond.value, "vw"}
                 [] OTHER -> TRUE
  IN  IF cond.op \in {"notpresent", "notexact", "notcontains"} THEN ~holds ELSE holds

(* Conditions are refused only if no request could meet two of them, or two *)
(* ask for exact values; and never accepted if of two of them exactly one   *)
(* holds for every request (headerMatchConditionsValid).                    *)
HeaderConditionsSound ==
  Done => \A r \in DOMAIN Proxies : (PlainRoot(r) /\ Followed(r)) =>
    \A route \in Range(Proxies[r].routes) :
      LET hs == HeadersOf(route.conditions)
          Values == {"absent", "v", "w", "vw"}
          Both(i, j) == {v \in Values : HeaderMatches(hs[i], v) /\ HeaderMatches(hs[j], v)}
          Either(i, j) == {v \in Values : HeaderMatches(hs[i], v) \/ HeaderMatches(hs[j], v)}
          pairs == {q \in (DOMAIN hs) \X (DOMAIN hs) :
                      q[1] < q[2] /\ Lower(hs[q[1]].name) = Lower(hs[q[2]].name)}
          refused == "HeaderMatchConditionsNotValid" \in updates[r].errors
      IN  /\ refused => \E q \in pairs : \/ Both(q[1], q[2]) = {}
                                         \/ hs[q[1]].op = "exact" /\ hs[q[2]].op = "exact"
          /\ ~refused => \A q \in pairs : ~(Both(q[1], q[2]) = {} /\ Either(q[1], q[2]) = Values)

(* Routes come out as their proxies ask: they are those of the chains of    *)
(* includes, rewrites are clean, and header conditions refused only if they *)
(* contradict.                                                              *)
RoutesAsAsked == RoutesExact /\ PrefixRewriteClean /\ HeaderConditionsSound
=============================================================================
