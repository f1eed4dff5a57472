-------------------------- MODULE IngressProcessor --------------------------
(***************************************************************************)
(* Ingresses (internal/dag/ingress_processor.go). The processor goes twice  *)
(* through all Ingresses, in the order of a Go map: it makes the secure     *)
(* virtual hosts first, then the routes. Each operator below is what is     *)
(* done with one Ingress, known by its namespace and name, in one pass.     *)
(***************************************************************************)
EXTENDS DAG, TLC

(* An Ingress without annotations (internal/annotation/annotations.go),     *)
(* TLS and rules; a rule has a host, "" for all, and paths.                 *)
Ingress ==
  [tls |-> <<>>, rules |-> <<>>, defaultBackend |-> Nil, forceSSLRedirect |-> FALSE, allowHTTP |-> TRUE,
   minTLSVersion |-> "", websocketRoutes |-> {}, retryOn |-> {}, numRetries |-> 0,
   perTryTimeout |-> "", responseTimeout |-> "", requestTimeout |-> ""]
IngressTLS(secret, hosts) == [secret |-> secret, hosts |-> hosts]
IngressRule(host, paths) == [host |-> host, paths |-> paths]
IngressPath(path, pathType, backend) == [path |-> path, pathType |-> pathType, backend |-> backend]

(* A port is given by name or by number. *)
Backend(service, number) == [name |-> service, port |-> [number |-> number, name |-> ""]]

TLSRequired(ing) == ing.forceSSLRedirect
HTTPAllowed(ing) == ing.allowHTTP

(* strings.ContainsAny(path, "^+*[]%"), and what Go's regexp refuses *)
LooksLikeRegex(path) == \E i \in DOMAIN path.segs : path.segs[i] \in {"a+", "[a"}
ValidateRegex(path) == "[a" \notin Range(path.segs)

-----------------------------------------------------------------------------

(* Any secret that resolves is taken, in whatever namespace it is. *)
ComputeSecureVirtualhostsUndelegated(source, dag, key) ==
  LET ing == source.ingresses[key]
      Secure(d, host, tls) ==
        [EnsureSecureVirtualHost(d, host) EXCEPT !.SecureVirtualHosts[host] =
           [@ EXCEPT !.Secret = tls.secret, !.MinTLSVersion = MinTLSVersion(ing.minTLSVersion, "1.2")]]
      Entry(d, tls) == IF LookupSecret(source, tls.secret) = Failed THEN d
                       ELSE FoldLeft(LAMBDA e, h : Secure(e, h, tls), d, tls.hosts)
  IN  FoldLeft(Entry, dag, ing.tls)

(* Entries whose secret does not resolve, or is not delegated, are skipped. *)
ComputeSecureVirtualhosts(source, dag, key) ==
  LET ing == source.ingresses[key]
      Usable(tls) ==
        /\ LookupSecret(source, tls.secret) # Failed
        /\ DelegationPermitted(source, tls.secret, key[1])
      Secure(d, host, tls) ==
        [EnsureSecureVirtualHost(d, host) EXCEPT !.SecureVirtualHosts[host] =
           [@ EXCEPT !.Secret = tls.secret, !.MinTLSVersion = MinTLSVersion(ing.minTLSVersion, "1.2")]]
      Entry(d, tls) == IF Usable(tls) THEN FoldLeft(LAMBDA e, h : Secure(e, h, tls), d, tls.hosts) ELSE d
  IN  FoldLeft(Entry, dag, ing.tls)

(* The default backend comes first, so that rules can override it. *)
RulesFromSpec(ing) ==
  (IF ing.defaultBackend = Nil THEN <<>>
   ELSE <<IngressRule("", <<IngressPath(Nil, Nil, ing.defaultBackend)>>)>>) \o ing.rules

(* The match of a path; a regular expression that cannot be parsed fails.   *)
PathMatchCondition(path, pathType) ==
  CASE pathType = "Prefix" ->
         IF path = RootPath THEN PrefixMatch(path, "string") ELSE PrefixMatch(TrimSlash(path), "segment")
    [] pathType = "Exact" -> ExactMatch(path)
    [] OTHER ->
         IF ~LooksLikeRegex(path) THEN PrefixMatch(path, "string")
         ELSE IF ValidateRegex(path) THEN RegexMatch(path) ELSE Failed

IngressRoute(config, key, ing, rule, p, service) ==
  LET path == IF p.path = Nil THEN RootPath ELSE p.path
      match == PathMatchCondition(path, p.pathType)
      dyn == ("NAMESPACE" :> key[1]) @@ ("SERVICE_NAME" :> p.backend.name)
               @@ ("SERVICE_PORT" :> ToString(p.backend.port.number))
      reqHP == HeadersPolicyService(config.reqHeaders, Nil, dyn)
      respHP == HeadersPolicyService(config.respHeaders, Nil, dyn)
      cluster == [Cluster(service.name, service.port) EXCEPT
                    !.protocol = service.protocol, !.headers = reqHP,
                    !.clientCert = config.clientCert, !.external = service.external]
  IN  IF Failed \in {match, reqHP, respHP} THEN Failed
      ELSE [Route EXCEPT
             !.match = match, !.clusters = <<cluster>>, !.upgrade = TLSRequired(ing),
             !.websocket = path \in ing.websocketRoutes,
             !.policies = [DefaultPolicies EXCEPT !.timeout = IngressTimeoutPolicy(ing),
                                                  !.retry = IngressRetryPolicy(ing)],
             !.headers = IF IsWildcard(rule.host) THEN <<WildcardDomainHeaderMatch(rule.host)>> ELSE @,
             !.owner = key, !.ownerKind = "Ingress"]

ComputeIngressRuleOwnTLS(source, config, dag, key, rule) ==
  LET ing == source.ingresses[key]
      host == IF rule.host = "" THEN "*" ELSE rule.host
      Add(d, r) ==
        LET plain == IF ~(TLSRequired(ing) \/ HTTPAllowed(ing)) THEN d
                     ELSE [EnsureVirtualHost(d, host) EXCEPT !.VirtualHosts[host] = AddRoute(@, r)]
        IN  IF host \in DOMAIN d.SecureVirtualHosts /\ \E t \in Range(ing.tls) : host \in Range(t.hosts)
            THEN [plain EXCEPT !.SecureVirtualHosts[host] = AddRoute(@, r)] ELSE plain
      Step(d, p) ==
        LET service == EnsureService(source, <<key[1], p.backend.name>>, p.backend.port,
                                     config.enableExternalName)
            route == IngressRoute(config, key, ing, rule, p, service)
        IN  IF service = Failed \/ route = Failed THEN d ELSE Add(d, route)
  IN  FoldLeft(Step, dag, rule.paths)

(* A path whose service does not resolve is skipped; one whose route cannot *)
(* be made ends the rule.                                                   *)
ComputeIngressRule(source, config, dag, key, rule) ==
  LET ing == source.ingresses[key]
      host == IF rule.host = "" THEN "*" ELSE rule.host
      Add(d, r) ==
        LET plain == IF ~(TLSRequired(ing) \/ HTTPAllowed(ing)) THEN d
                     ELSE [EnsureVirtualHost(d, host) EXCEPT !.VirtualHosts[host] = AddRoute(@, r)]
        IN  IF host \in DOMAIN d.SecureVirtualHosts /\ host # "*"
            THEN [plain EXCEPT !.SecureVirtualHosts[host] = AddRoute(@, r)] ELSE plain
      Step(acc, p) ==
        LET service == EnsureService(source, <<key[1], p.backend.name>>, p.backend.port,
                                     config.enableExternalName)
            route == IngressRoute(config, key, ing, rule, p, service)
        IN  IF acc.ended \/ service = Failed THEN acc
            ELSE IF route = Failed THEN [acc EXCEPT !.ended = TRUE]
            ELSE [acc EXCEPT !.dag = Add(@, route)]
  IN  IF config.clientCert # Nil /\ LookupSecret(source, config.clientCert) = Failed
      THEN dag
      ELSE FoldLeft(Step, [dag |-> dag, ended |-> FALSE], rule.paths).dag

ComputeIngress(source, config, dag, key) ==
  FoldLeft(LAMBDA d, rule : ComputeIngressRule(source, config, d, key, rule),
           dag, RulesFromSpec(source.ingresses[key]))
=============================================================================
