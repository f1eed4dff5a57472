------------------------ MODULE GatewayAPIProcessor -------------------------
(***************************************************************************)
(* The Gateway API (internal/dag/gatewayapi_processor.go): which routes the *)
(* listeners of the Gateway take, for which hosts, and what they add to the *)
(* DAG. The operators below are the processor's functions; the loops over   *)
(* Go maps are in the module Builder.                                       *)
(*                                                                         *)
(* Conditions are functions from the type of a condition to its reason.     *)
(***************************************************************************)
EXTENDS DAG, TLC

(* The objects of the Gateway API. A reference is a pair of namespace and   *)
(* name, with the default filled in; "valid" tells whether its group, kind  *)
(* and other required fields are those of what it refers to.                *)
Gateway(key, listeners) == [key |-> key, addresses |-> FALSE, listeners |-> listeners]
Listener(name, protocol) ==
  [name |-> name, protocol |-> protocol, hostname |-> Nil, tls |-> Nil, kinds |-> <<>>,
   from |-> Nil, selector |-> Nil]
GatewayTLS(mode, refs) == [mode |-> mode, refs |-> refs]
Ref(to) == [to |-> to, valid |-> TRUE]
RouteGroupKind(kind) == [kind |-> kind, group |-> TRUE]
ParentRef(gateway, section) == [gateway |-> gateway, section |-> section, valid |-> TRUE]
RouteObject(parents, hostnames, rules) == [parents |-> parents, hostnames |-> hostnames, rules |-> rules]
Rule(matches, backends) == [matches |-> matches, filters |-> <<>>, backends |-> backends]
Match(path, headers) == [path |-> path, headers |-> headers, method |-> Nil]
PathMatch(type, path) == [type |-> type, path |-> path, valid |-> TRUE]
BackendRef(to, port, weight) ==
  [to |-> to, port |-> port, weight |-> weight, filters |-> <<>>, valid |-> TRUE]
HeaderModifier(policy) == [type |-> "RequestHeaderModifier", policy |-> policy]

-----------------------------------------------------------------------------
(* Listeners *)

ValidCrossNamespaceRefAnyKind(source, from, to) ==
  \E rp \in source.referencepolicies :
    /\ rp.namespace = to.namespace
    /\ \E f \in rp.from : f.namespace = from.namespace
    /\ \E t \in rp.to : t.kind = to.kind /\ t.name \in {Nil, to.name}

(* A policy in the namespace of the referent names both ends. *)
ValidCrossNamespaceRef(source, from, to) ==
  \E rp \in source.referencepolicies :
    /\ rp.namespace = to.namespace
    /\ from \in rp.from
    /\ \E t \in rp.to : t.kind = to.kind /\ t.name \in {Nil, to.name}

Refused(type, reason) == [secret |-> Nil, ok |-> FALSE, conds |-> (type :> reason)]
Permitted(secret) == [secret |-> secret, ok |-> TRUE, conds |-> <<>>]

ValidGatewayTLS(source, tls) ==
  LET ref == Head(tls.refs)
      ns == source.gateway.key[1]
      granted == ref.to[1] = ns \/
        ValidCrossNamespaceRef(source, [kind |-> "Gateway", namespace |-> ns],
                               [kind |-> "Secret", namespace |-> ref.to[1], name |-> ref.to[2]])
  IN  IF Len(tls.refs) # 1 THEN Refused("Ready", "Invalid")
      ELSE IF ~ref.valid \/ ~granted \/ LookupSecret(source, ref.to) = Failed
      THEN Refused("ResolvedRefs", "InvalidCertificateRef")
      ELSE Permitted(ref.to)

(* The first part of computeListener: the listener's secret, if it has one. *)
(* A TLS listener without a mode is taken as it is.                         *)
ListenerSecret(source, l) ==
  IF l.protocol = "HTTP" THEN Permitted(Nil)
  ELSE IF l.protocol \notin {"HTTPS", "TLS"} THEN Refused("Detached", "UnsupportedProtocol")
  ELSE IF l.tls = Nil THEN Refused("Ready", "Invalid")
  ELSE IF l.protocol = "HTTPS" \/ l.tls.mode = "Terminate" THEN ValidGatewayTLS(source, l.tls)
  ELSE IF l.tls.mode = "Passthrough" /\ l.tls.refs # <<>> THEN Refused("Ready", "Invalid")
  ELSE Permitted(Nil)

GetListenerRouteKinds(l) ==
  LET Taken(k) == k.group /\ k.kind \in {"HTTPRoute", "TLSRoute"} /\ (k.kind = "TLSRoute" => l.protocol = "TLS")
      taken == Collect(l.kinds, Taken)
  IN  IF l.kinds = <<>> THEN [kinds |-> <<IF l.protocol = "TLS" THEN "TLSRoute" ELSE "HTTPRoute">>, conds |-> <<>>]
      ELSE [kinds |-> [i \in DOMAIN taken |-> taken[i].kind],
            conds |-> IF taken = l.kinds THEN <<>> ELSE "ResolvedRefs" :> "InvalidRouteKinds"]

(* A namespace that is not in the cache is selected by any selector. *)
NamespaceMatches(source, l, ns) ==
  CASE l.from = "Same" -> source.gateway.key[1] = ns
    [] l.from = "Selector" ->
         l.selector # Nil /\ (ns \in DOMAIN source.namespaces => l.selector \in source.namespaces[ns])
    [] OTHER -> TRUE

(* The first of the parents that is this Gateway decides. *)
RouteSelectsGatewayListener(source, l, parents) ==
  LET mine == SelectSeq(parents, LAMBDA r : r.valid /\ r.gateway = source.gateway.key)
  IN  mine # <<>> /\ Head(mine).section \in {Nil, l.name}

ComputeHostsAnySuffix(hostnames, lhn) ==
  LET Fits(h) == ValidHostName(h) /\ (lhn \in {Nil, "*", h} \/ IsWildcard(lhn))
      fitting == {h \in Range(hostnames) : Fits(h)}
  IN  IF hostnames = <<>> THEN [hosts |-> CASE lhn = Nil -> {"*"} [] lhn = "*" -> {} [] OTHER -> {lhn}, errors |-> FALSE]
      ELSE [hosts |-> fitting, errors |-> fitting # Range(hostnames)]

(* The hosts of a route that fit the host of a listener. *)
ComputeHosts(hostnames, lhn) ==
  LET Fits(h) == ValidHostName(h) /\
        (lhn \in {Nil, "*", h} \/ (IsWildcard(lhn) /\ RemoveFirstDNSLabel(lhn) = RemoveFirstDNSLabel(h)))
      fitting == {h \in Range(hostnames) : Fits(h)}
  IN  IF lhn \notin {Nil, "*"} /\ ~ValidHostName(lhn) THEN [hosts |-> {}, errors |-> TRUE]
      ELSE IF hostnames = <<>>
      THEN [hosts |-> CASE lhn = Nil -> {"*"} [] lhn = "*" -> {} [] OTHER -> {lhn}, errors |-> FALSE]
      ELSE [hosts |-> fitting, errors |-> fitting # Range(hostnames)]

-----------------------------------------------------------------------------
(* Rules of routes *)

(* The service, if the reference is in order and allowed. *)
ValidateBackendRef(source, config, kind, ns, ref) ==
  LET granted == ref.to[1] = ns \/
        ValidCrossNamespaceRef(source, [kind |-> kind, namespace |-> ns],
                               [kind |-> "Service", namespace |-> ref.to[1], name |-> ref.to[2]])
  IN  IF ~ref.valid \/ ~granted THEN Failed
      ELSE EnsureService(source, ref.to, [number |-> ref.port, name |-> ""], config.enableExternalName)

Weight(ref) == IF ref.weight = Nil THEN 1 ELSE ref.weight

GatewayPathMatchCondition(m) ==
  IF m = Nil THEN PrefixMatch(RootPath, "string")
  ELSE IF ~m.valid \/ m.type \notin {Nil, "PathPrefix", "Exact"} THEN Failed
  ELSE IF m.type = "Exact" THEN ExactMatch(m.path)
  ELSE PrefixMatch(m.path, IF m.path = RootPath THEN "string" ELSE "segment")

(* Only exact matches of headers are supported; the method is a header. *)
GatewayHeaderMatchConditions(match) ==
  LET Exact(name, value) == [name |-> name, value |-> value, invert |-> FALSE, type |-> "exact"]
      hs == [i \in DOMAIN match.headers |-> Exact(match.headers[i].name, match.headers[i].value)]
  IN  IF \E h \in Range(match.headers) : h.type \notin {Nil, "Exact"} THEN Failed
      ELSE IF match.method = Nil THEN hs ELSE Append(hs, Exact(":method", match.method))

MatchFailures(match) ==
  IF GatewayPathMatchCondition(match.path) = Failed
  THEN IF match.path.type \in {Nil, "PathPrefix", "Exact"} THEN "ValidMatches" :> "InvalidPathMatch"
       ELSE "NotImplemented" :> "PathMatchType"
  ELSE IF GatewayHeaderMatchConditions(match) = Failed THEN "NotImplemented" :> "HeaderMatchType" ELSE <<>>

(* The first header filter counts for a rule, the last one for a backend.   *)
HeaderPolicy(filters, first) ==
  LET modifiers == SelectSeq(filters, LAMBDA f : f.type = "RequestHeaderModifier")
      chosen == IF first THEN Head(modifiers) ELSE Last(modifiers)
  IN  IF modifiers = <<>> THEN Nil ELSE HeadersPolicyGatewayAPI(chosen.policy)

FilterFailures(filters, supported) ==
  (IF \E f \in Range(filters) : f.type \notin supported
   THEN "NotImplemented" :> "HTTPRouteFilterType" ELSE <<>>)
  @@ (IF \E f \in Range(filters) : f.type = "RequestHeaderModifier" /\ ~HeadersPolicyGatewayAPI(f.policy).ok
      THEN "ResolvedRefs" :> "Degraded" ELSE <<>>)

(* The backends that resolve, as clusters, and whether all of them do.      *)
Backends(source, config, kind, ns, refs) ==
  LET ClusterOf(ref, service) ==
        LET plain == [Cluster(service.name, service.port) EXCEPT
                        !.weight = Weight(ref), !.external = service.external]
        IN  IF service = Failed THEN Failed
            ELSE IF kind = "TLSRoute" THEN [plain EXCEPT !.sni = Literal(service.external)]
            ELSE [plain EXCEPT !.protocol = service.protocol, !.headers = HeaderPolicy(ref.filters, FALSE)]
      Resolved(clusters) ==
        [clusters |-> Collect(clusters, LAMBDA c : c # Failed), ok |-> Failed \notin Range(clusters)]
  IN  Resolved([i \in DOMAIN refs |-> ClusterOf(refs[i], ValidateBackendRef(source, config, kind, ns, refs[i]))])

TotalWeight(clusters, Word) == FoldLeft(LAMBDA n, c : (n + c.weight) % Word, 0, clusters)

(* The routes of one rule, one for each match: redirects, or with clusters. *)
RuleRoutes(source, config, key, rule, Word) ==
  LET good == Collect(rule.matches, LAMBDA m : MatchFailures(m) = <<>>)
      redirect == \E f \in Range(rule.filters) : f.type = "RequestRedirect"
      Dead(clusters) == clusters = <<>> \/ TotalWeight(clusters, Word) = 0
      RouteFor(m, clusters) == [Route EXCEPT
        !.match = GatewayPathMatchCondition(m.path), !.headers = GatewayHeaderMatchConditions(m),
        !.policies.reqHP = HeaderPolicy(rule.filters, TRUE),
        !.redirect = redirect,
        !.clusters = IF redirect THEN <<>> ELSE clusters,
        !.direct = IF ~redirect /\ Dead(clusters) THEN 503 ELSE Nil,
        !.owner = key, !.ownerKind = "HTTPRoute"]
      With(backends) == [i \in DOMAIN good |-> RouteFor(good[i], backends.clusters)]
  IN  IF ~redirect /\ rule.backends = <<>> THEN <<>>
      ELSE With(Backends(source, config, "HTTPRoute", key[1], rule.backends))

RuleFailuresNoBackends(source, config, key, rule) ==
  LET first == SelectInSeq(rule.filters, LAMBDA f : f.type = "RequestHeaderModifier")
      counted == {i \in DOMAIN rule.filters : i = first \/ rule.filters[i].type # "RequestHeaderModifier"}
      filters == SetToSeq({rule.filters[i] : i \in counted})
  IN  FilterFailures(filters, {"RequestHeaderModifier", "RequestRedirect"})
        @@ FoldSet(LAMBDA f, acc : f @@ acc, <<>>, {MatchFailures(m) : m \in Range(rule.matches)})

RuleFailures(source, config, key, rule) ==
  LET redirect == \E f \in Range(rule.filters) : f.type = "RequestRedirect"
      first == SelectInSeq(rule.filters, LAMBDA f : f.type = "RequestHeaderModifier")
      counted == {i \in DOMAIN rule.filters : i = first \/ rule.filters[i].type # "RequestHeaderModifier"}
      filters == SetToSeq({rule.filters[i] : i \in counted})
      backends == Backends(source, config, "HTTPRoute", key[1], rule.backends)
      used == {ref \in Range(rule.backends) : ValidateBackendRef(source, config, "HTTPRoute", key[1], ref) # Failed}
      All(fs) == FoldSet(LAMBDA f, acc : f @@ acc, <<>>, fs)
  IN  FilterFailures(filters, {"RequestHeaderModifier", "RequestRedirect"})
        @@ All({MatchFailures(m) : m \in Range(rule.matches)})
        @@ (IF redirect THEN <<>>
            ELSE (IF rule.backends = <<>> \/ ~backends.ok THEN "ResolvedRefs" :> "Degraded" ELSE <<>>)
                 @@ All({FilterFailures(ref.filters, {"RequestHeaderModifier"}) : ref \in used}))

-----------------------------------------------------------------------------
(* Routes. The result is the DAG, the conditions, and whether the route has *)
(* been programmed.                                                         *)

Accepted(conds) == Put(conds, "Accepted", IF conds = <<>> THEN "Valid" ELSE "ErrorsExist")

(* The hosts of a rule come in the order of a Go map. They share one route, *)
(* to which each host with a wildcard adds a condition: the virtual hosts   *)
(* file it under the conditions it has when its host's turn comes, and all  *)
(* of them have it as it is in the end.                                     *)
AddToGatewayHosts(dag, secret, order, route) ==
  LET Conditions(n) == FoldLeft(LAMBDA hs, h : IF IsWildcard(h) THEN Append(hs, WildcardDomainHeaderMatch(h)) ELSE hs,
                                route.headers, SubSeq(order, 1, n))
      final == [route EXCEPT !.headers = Conditions(Len(order))]
      Secured(svhost, key) == [svhost EXCEPT !.Secret = secret, !.Routes = Put(svhost.Routes, key, final)]
      AddAt(d, n) ==
        LET host == order[n]
            key == ConditionsToString([route EXCEPT !.headers = Conditions(n)])
        IN  IF secret = Nil
            THEN [EnsureVirtualHost(d, host) EXCEPT !.VirtualHosts[host].Routes = Put(@, key, final)]
            ELSE [EnsureSecureVirtualHost(d, host) EXCEPT !.SecureVirtualHosts[host] = Secured(@, key)]
  IN  FoldLeft(AddAt, dag, [n \in DOMAIN order |-> n])

(* orders: the order of the hosts in each rule. *)
ComputeHTTPRoute(source, config, dag, key, secret, lhn, orders, Word) ==
  LET route == source.httproutes[key]
      found == ComputeHosts(route.hostnames, lhn)
      hostErrors == IF found.errors THEN "ResolvedRefs" :> "Degraded" ELSE <<>>
      rules == [i \in DOMAIN route.rules |-> RuleRoutes(source, config, key, route.rules[i], Word)]
      failures == FoldLeft(LAMBDA acc, r : RuleFailures(source, config, key, r) @@ acc, hostErrors, route.rules)
      AddRule(d, i) == FoldLeft(LAMBDA e, r : AddToGatewayHosts(e, secret, orders[i], r), d, rules[i])
  IN  IF found.hosts = {}
      THEN [dag |-> dag, conds |-> Put(hostErrors, "Accepted", "ErrorsExist"), programmed |-> FALSE]
      ELSE [dag |-> FoldLeft(AddRule, dag, [i \in DOMAIN rules |-> i]), conds |-> Accepted(failures),
            programmed |-> \E i \in DOMAIN rules : rules[i] # <<>>]

(* Rules without a usable cluster are skipped; of the others the last one   *)
(* is what the secure virtual hosts get.                                    *)
ComputeTLSRoute(source, config, dag, key, secret, lhn, Word) ==
  LET route == source.tlsroutes[key]
      found == ComputeHosts(route.hostnames, lhn)
      hostErrors == IF found.errors THEN "ResolvedRefs" :> "Degraded" ELSE <<>>
      Zero(b) == b.clusters # <<>> /\ TotalWeight(b.clusters, Word) = 0
      Failures(all) ==
        (IF \E b \in all : b.clusters = <<>> \/ ~b.ok THEN "ResolvedRefs" :> "Degraded" ELSE <<>>)
          @@ (IF \E b \in all : Zero(b) THEN "ValidBackendRefs" :> "AllBackendRefsHaveZeroWeights" ELSE <<>>)
          @@ hostErrors
      Add(clusters) ==
        LET Ensured(host) == IF host \in DOMAIN dag.SecureVirtualHosts THEN dag.SecureVirtualHosts[host]
                             ELSE SecureVirtualHost
            With(svhost) == [svhost EXCEPT !.Secret = IF secret = Nil THEN @ ELSE secret, !.TCP = clusters]
        IN  [dag EXCEPT !.SecureVirtualHosts = [h \in DOMAIN @ \union found.hosts |->
               IF h \in found.hosts THEN With(Ensured(h)) ELSE dag.SecureVirtualHosts[h]]]
      Outcome(rules) ==
        LET usable == Collect(rules, LAMBDA b : b.clusters # <<>> /\ ~Zero(b))
        IN  [dag |-> IF usable = <<>> THEN dag ELSE Add(Last(usable).clusters),
             conds |-> Accepted(Failures(Range(rules))), programmed |-> usable # <<>>]
  IN  IF found.hosts = {}
      THEN [dag |-> dag, conds |-> Put(hostErrors, "Accepted", "ErrorsExist"), programmed |-> FALSE]
      ELSE Outcome([i \in DOMAIN route.rules |-> Backends(source, config, "TLSRoute", key[1], route.rules[i].backends)])

-----------------------------------------------------------------------------

(* The Gateway is ready if no address is asked for and its listeners are;   *)
(* a listener is ready if nothing else has been said about it.              *)
ListenerReady(status) == status.conds = <<>>
ComputeGatewayConditions(gateway, listeners) ==
  IF gateway.addresses THEN "InvalidGateway"
  ELSE IF \A n \in DOMAIN listeners : ListenerReady(listeners[n]) THEN "ValidGateway"
  ELSE "ListenersNotValid"
=============================================================================
