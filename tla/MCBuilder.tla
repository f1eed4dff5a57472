------------------------------ MODULE MCBuilder -----------------------------
(***************************************************************************)
(* Instances of Builder: families of clusters, each of which varies one     *)
(* kind of object, or the two that meet on a host, and leaves the rest      *)
(* empty.                                                                   *)
(***************************************************************************)
EXTENDS Builder, APIObjects

K8sService == [type |-> "ClusterIP", external |-> "", byName |-> <<>>, byNumber |-> <<>>,
               ports |-> <<[number |-> 80, name |-> "http", protocol |-> "TCP"]>>]
Secret(type, cert, key, ca) == [type |-> type, cert |-> cert, key |-> key, ca |-> ca]
Cert == Secret("tls", <<"cert">>, <<"key">>, <<>>)

(* The namespaces are n, m and o; the last has no labels. *)
Empty ==
  [gateway |-> Nil, gatewayclass |-> TRUE, httproutes |-> <<>>, tlsroutes |-> <<>>, referencepolicies |-> {},
   namespaces |-> ("n" :> {"green"}) @@ ("m" :> {"green"}) @@ ("o" :> {}),
   ingresses |-> <<>>, extensions |-> <<>>, proxies |-> <<>>,
   services |-> [k \in {"n", "m", "o"} \X {"s", "t"} |-> K8sService]
                  @@ (<<"n", "ext">> :> [K8sService EXCEPT !.type = "ExternalName", !.external = "elsewhere"]),
   secrets |-> (<<"n", "good">> :> Cert) @@ (<<"m", "shared">> :> Cert) @@ (<<"m", "own">> :> Cert)
                 @@ (<<"n", "ca">> :> Secret("opaque", <<>>, <<>>, <<"cert">>)),
   delegations |-> {CertificateDelegation(<<"m", "shared">>, {"n", "x"})}]

ListenerConfig ==
  [xffNumTrustedHops |-> 0, rateLimit |-> Nil, minTLSVersion |-> "1.2", httpVersions |-> {}, useProxyProto |-> FALSE,
   balance |-> ""]
Config == [enableExternalName |-> FALSE, clientCert |-> Nil, fallback |-> Nil, reqHeaders |-> Nil,
           respHeaders |-> Nil, disablePermitInsecure |-> FALSE, rootNamespaces |-> {}, listener |-> ListenerConfig]

A == Path(<<"a">>, FALSE)
AB == Path(<<"a", "b">>, FALSE)
Backed == Backend("s", 80)

-----------------------------------------------------------------------------
(* Two Ingresses in two namespaces for one host, either of which may have   *)
(* TLS for it.                                                              *)
TLSEntries ==
  {<<>>, <<IngressTLS(<<"n", "good">>, <<"a">>)>>, <<IngressTLS(<<"m", "shared">>, <<"a">>)>>,
   <<IngressTLS(<<"m", "own">>, <<"a", "*.a">>)>>, <<IngressTLS(<<"n", "ca">>, <<"a">>), IngressTLS(<<"m", "own">>, <<"*.a">>)>>}
Ingresses ==
  LET First == {[Ingress EXCEPT !.tls = t, !.rules = <<IngressRule("a", <<IngressPath(A, "Prefix", Backed)>>)>>,
                                !.forceSSLRedirect = f, !.allowHTTP = h]
                  : t \in TLSEntries, f, h \in BOOLEAN}
      Second == {[Ingress EXCEPT !.tls = t, !.defaultBackend = b, !.allowHTTP = h,
                                 !.rules = <<IngressRule("*.a", <<IngressPath(Path(<<"a">>, TRUE), "Prefix", Backend(s, 80))>>),
                                             IngressRule(r, <<IngressPath(A, "Exact", Backed),
                                                              IngressPath(AB, Nil, Backed)>>)>>]
                   : t \in TLSEntries, b \in {Nil, Backed}, h \in BOOLEAN, r \in {"", "a"},
                     s \in {"s", "gone"}}
  IN  {[Empty EXCEPT !.ingresses = (<<"n", "i1">> :> i) @@ (<<"m", "i2">> :> j)] : i \in First, j \in Second}

(* Paths of an Ingress that may be regular expressions, annotations. *)
OneIngress ==
  {[Empty EXCEPT !.ingresses = (<<"n", "i1">> :>
     [Ingress EXCEPT !.rules = <<IngressRule("a", <<IngressPath(p, t, Backend(s, 80)), IngressPath(A, "Exact", Backed)>>)>>,
                     !.retryOn = r, !.responseTimeout = o])]
     : p \in {Nil, A, Path(<<"a+">>, FALSE), Path(<<"[a">>, FALSE), RootPath}, t \in {Nil, "Prefix"},
       s \in {"s", "ext", "gone"}, r \in {{}, {"5xx"}}, o \in {"", "soon", "1s"}}

-----------------------------------------------------------------------------
(* Routes of an HTTPProxy and an Ingress that share a host. *)
S(name, weight) == [Service(name, 80) EXCEPT !.weight = weight]
R == [RouteSpec EXCEPT !.services = <<S("s", 1)>>]
Conds ==
  {<<PrefixCondition(p, TRUE)>> : p \in {RootPath, A, AB, Path(<<"a">>, TRUE)}}
    \union {<<PrefixCondition(A, TRUE), h>> : h \in {HeaderCondition("x", "exact", "v"), HeaderCondition("x", "exact", "w"),
                                                    HeaderCondition("x", "present", ""), HeaderCondition("x", "notexact", "v"),
                                                    HeaderCondition("x", "notpresent", "")}}
RouteOrder ==
  {[Empty EXCEPT
      !.proxies = (<<"n", "p">> :> Proxy(VHost("a"), <<[R EXCEPT !.conditions = c], [R EXCEPT !.conditions = d]>>, <<>>)),
      !.ingresses = (<<"n", "i">> :>
        [Ingress EXCEPT !.rules = <<IngressRule("a", <<IngressPath(p, t, Backed)>>)>>])]
     : c, d \in Conds, p \in {A, AB}, t \in {"Exact", "Prefix", Nil}}

(* Weights, also ones that overflow a word; clusters that differ in their   *)
(* policies; mirrors.                                                       *)
Weights ==
  {[Empty EXCEPT !.proxies = (<<"n", "p">> :>
      [Proxy([VHost("a") EXCEPT !.tls = tls], <<[R EXCEPT !.services = ss, !.lb = LoadBalancerPolicySpec(lb, <<>>)]>>, <<>>)
         EXCEPT !.tcp = IF tls = Nil THEN Nil ELSE [TCPProxy EXCEPT !.services = tcp]])]
     : ss \in {<<S("s", v), S("t", w)>> : v, w \in {0, 1, 3, 128, 255}}
              \union {<<S("s", 1), [S("t", w) EXCEPT !.mirror = TRUE]>> : w \in {0, 1}}
              \union {<<[S("s", 1) EXCEPT !.reqHeaders = HeadersPolicySpec(<<>>, <<"y">>)]>>},
       lb \in {"", "Random"}, tls \in {Nil, [TLS EXCEPT !.passthrough = TRUE]},
       tcp \in {<<S("s", 1)>>, <<S("s", 0), S("t", 2)>>, <<S("s", 0), S("t", 0)>>, <<S("s", 1), S("t", 3)>>,
               <<S("s", 128), S("t", 128), S("t", 0)>>}}

(* Hosts with TLS, authorization and the fallback certificate, and the      *)
(* services for authorization.                                              *)
Extensions ==
  {<<"n", "auth">> :> [ExtensionService(ss) EXCEPT !.protocol = p, !.validation = v, !.timeout = t]
     : ss \in {<<ExtensionServiceTarget("s", 80, 1)>>, <<ExtensionServiceTarget("s", 81, 1), ExtensionServiceTarget("ext", 80, 1)>>},
       p \in {Nil, "h2c"}, t \in {Nil, TimeoutPolicySpec("soon", "1s"), TimeoutPolicySpec("1s", "")},
       v \in {Nil, UpstreamValidation(<<"n", "ca">>, "s"), UpstreamValidation(<<"m", "own">>, "s")}}
SecureHost(e, s, f, v, auth, permit, g) ==
  [Empty EXCEPT
     !.extensions = e,
     !.proxies = (<<"n", "p">> :> Proxy([VHost("a") EXCEPT !.tls = [TLS EXCEPT !.secret = s, !.fallback = f, !.minVersion = v], !.auth = auth],
                                        <<[R EXCEPT !.permitInsecure = permit, !.authDisabled = IF permit THEN TRUE ELSE Nil],
                                          [R EXCEPT !.conditions = <<PrefixCondition(A, TRUE)>>]>>, <<>>))
                   @@ (<<"m", "q">> :> Proxy([VHost("b") EXCEPT !.tls = [TLS EXCEPT !.secret = <<"m", "shared">>, !.fallback = g]], <<R>>, <<>>))]
Auth == AuthorizationServer(<<"n", "auth">>)
ExtensionHosts == {SecureHost(e, <<"n", "good">>, FALSE, "", Auth, FALSE, FALSE) : e \in Extensions}
SecureHosts ==
  {SecureHost(<<"n", "auth">> :> ExtensionService(<<ExtensionServiceTarget("s", 80, 1)>>), s, f, v, auth, permit, g)
     : s \in {<<"n", "good">>, <<"m", "own">>}, v \in {"", "1.3"}, f, g, permit \in BOOLEAN, auth \in {Nil, Auth}}
SecureConfigs ==
  {[Config EXCEPT !.fallback = <<"n", "good">>, !.clientCert = c, !.listener = l]
     : c \in {Nil, <<"n", "good">>},
       l \in {ListenerConfig, [ListenerConfig EXCEPT !.xffNumTrustedHops = 1, !.minTLSVersion = "1.3"],
              [ListenerConfig EXCEPT !.rateLimit = <<"n", "limit">>, !.httpVersions = {"http1"}, !.useProxyProto = TRUE],
              [ListenerConfig EXCEPT !.xffNumTrustedHops = 1, !.rateLimit = <<"n", "limit">>, !.balance = "exact"]}}

-----------------------------------------------------------------------------
(* A Gateway with one HTTP listener or two, and HTTPRoutes of two           *)
(* namespaces.                                                              *)
Gw == <<"m", "gw">>
To(name) == BackendRef(<<"n", name>>, 80, Nil)
AnyMatch == Match(Nil, <<>>)
Grant(from, kind, name) == [namespace |-> "m", from |-> {[kind |-> from, namespace |-> "n"]}, to |-> {[kind |-> kind, name |-> name]}]
HTTPRoute(parents, hostnames) == RouteObject(parents, hostnames, <<Rule(<<AnyMatch>>, <<To("s")>>)>>)

Listeners ==
  {[Listener("l1", "HTTP") EXCEPT !.hostname = h, !.from = f, !.selector = IF f = "Selector" THEN "green" ELSE Nil]
     : h \in {Nil, "*", "a", "*.a", "10.0.0.1"}, f \in {Nil, "Same", "Selector"}}
Attachments ==
  {[Empty EXCEPT
      !.gateway = Gateway(Gw, <<l, [Listener("l2", "HTTP") EXCEPT !.hostname = "b", !.from = "All"]>>),
      !.httproutes = (<<n, "r">> :> HTTPRoute(ps, hs)) @@ (<<"m", "q">> :> HTTPRoute(<<ParentRef(Gw, Nil)>>, <<"a">>))]
     : l \in Listeners, n \in {"n", "o"},
       ps \in {<<ParentRef(Gw, Nil)>>, <<ParentRef(Gw, "l2")>>, <<ParentRef(Gw, "l2"), ParentRef(Gw, "l1")>>,
               <<ParentRef(<<"m", "other">>, Nil), ParentRef(Gw, "l1")>>},
       hs \in {<<>>, <<"a">>, <<"x.a", "b">>, <<"*.a">>, <<"x.b">>, <<"10.0.0.1">>}}

(* Rules: backends in two namespaces with and without a policy, filters,    *)
(* matches, weights (the API has at most 16 of them, of at most 1000000, so *)
(* that their sum fits a word).                                             *)
Grants == {{}, {Grant("HTTPRoute", "Service", Nil)}, {Grant("HTTPRoute", "Service", "t")}, {Grant("TLSRoute", "Service", Nil)}}
BackendLists ==
  {<<>>, <<[To("s") EXCEPT !.valid = FALSE]>>, <<BackendRef(<<"n", "ext">>, 80, 1)>>,
   <<[To("s") EXCEPT !.filters = <<HeaderModifier([Set |-> <<"y", "bad name">>, Add |-> <<>>, Remove |-> <<>>])>>]>>,
   <<[To("s") EXCEPT !.filters = <<[type |-> "RequestMirror", policy |-> Nil]>>]>>}
    \union {<<BackendRef(<<"n", "s">>, 80, v), BackendRef(<<"m", k>>, p, w)>>
              : v \in {Nil, 0, 60}, w \in {0, 1, 3}, k \in {"s", "gone"}, p \in {80, 81}}
Filters ==
  {<<>>, <<[type |-> "RequestRedirect", policy |-> Nil]>>, <<[type |-> "RequestMirror", policy |-> Nil]>>,
   <<HeaderModifier([Set |-> <<"Host">>, Add |-> <<"x">>, Remove |-> <<"y">>]),
     HeaderModifier([Set |-> <<"bad name">>, Add |-> <<>>, Remove |-> <<>>])>>}
Matches ==
  {<<AnyMatch>>, <<Match(PathMatch("Exact", A), <<>>), [Match(PathMatch("PathPrefix", A), <<[name |-> "x", type |-> Nil, value |-> "v"]>>) EXCEPT !.method = "GET"]>>,
   <<Match(PathMatch("RegularExpression", A), <<>>), AnyMatch>>, <<Match([PathMatch(Nil, A) EXCEPT !.valid = FALSE], <<>>)>>,
   <<Match(PathMatch("PathPrefix", RootPath), <<[name |-> "x", type |-> "RegularExpression", value |-> "v"]>>)>>}
Rules ==
  {[Empty EXCEPT
      !.gateway = Gateway(Gw, <<[Listener("l1", "HTTP") EXCEPT !.hostname = "a"]>>),
      !.httproutes = (<<"n", "r">> :> RouteObject(<<ParentRef(Gw, Nil)>>, <<>>,
                        <<[Rule(m, b) EXCEPT !.filters = f], Rule(<<Match(PathMatch("PathPrefix", AB), <<>>)>>, <<To("t")>>)>>)),
      !.referencepolicies = g]
     : m \in Matches, b \in BackendLists, f \in Filters, g \in Grants}
    \union {[Empty EXCEPT !.gateway = [Gateway(Gw, <<Listener("l1", "HTTP")>>) EXCEPT !.addresses = d],
                          !.httproutes = (<<"n", "r">> :> HTTPRoute(<<ParentRef(Gw, Nil)>>, <<"a">>)), !.gatewayclass = c]
              : d, c \in BOOLEAN}

(* Listeners with TLS, which terminate it or pass it through, and the       *)
(* routes they take.                                                        *)
SecureListeners ==
  {[Listener("l1", p) EXCEPT !.hostname = h, !.tls = t, !.kinds = k]
     : p \in {"HTTPS", "TLS", "UDP"}, h \in {Nil, "a", "*.a"},
       t \in {Nil, GatewayTLS("Passthrough", <<>>), GatewayTLS("Terminate", <<>>)}
             \union {GatewayTLS(mode, <<Ref(s)>>) : mode \in {"Terminate", "Passthrough"}, s \in {<<"m", "own">>, <<"n", "good">>, <<"m", "gone">>}},
       k \in {<<>>, <<RouteGroupKind("HTTPRoute")>>, <<RouteGroupKind("TLSRoute"), RouteGroupKind("HTTPRoute")>>, <<RouteGroupKind("UDPRoute")>>}}
SecureGateways ==
  {[Empty EXCEPT
      !.gateway = Gateway(Gw, <<l>>),
      !.httproutes = (<<"n", "r">> :> HTTPRoute(<<ParentRef(Gw, Nil)>>, <<"a", "x.a">>)),
      !.tlsroutes = (<<"n", "t">> :> RouteObject(<<ParentRef(Gw, "l1")>>, hs, <<Rule(<<>>, bs), Rule(<<>>, <<BackendRef(<<"n", "t">>, 80, w)>>)>>)),
      !.referencepolicies = {[g EXCEPT !.namespace = "n", !.from = {[kind |-> "Gateway", namespace |-> "m"]}]}]
     : l \in SecureListeners, hs \in {<<>>, <<"a">>}, bs \in {<<>>, <<To("s"), BackendRef(<<"n", "gone">>, 80, 1)>>, <<BackendRef(<<"n", "s">>, 80, 0)>>},
       w \in {0, 2}, g \in {Grant("Gateway", "Secret", "good"), Grant("Gateway", "Service", Nil)}}

-----------------------------------------------------------------------------

Family(sources, configs) == source \in sources /\ config \in configs

MCInit ==
  /\ \/ Family(Ingresses \union OneIngress \union RouteOrder \union Weights \union Attachments \union Rules \union SecureGateways,
               {Config})
     \/ Family(OneIngress, {[Config EXCEPT !.clientCert = <<"n", "gone">>], [Config EXCEPT !.enableExternalName = TRUE, !.clientCert = <<"n", "good">>]})
     \/ Family(SecureHosts, SecureConfigs)
     \/ Family(ExtensionHosts, {Config, [Config EXCEPT !.clientCert = <<"n", "gone">>]})
  /\ BuildInit

(* A route with two hosts that have a wildcard. *)
InitWildcards ==
  /\ source = [Empty EXCEPT !.gateway = Gateway(Gw, <<Listener("l1", "HTTP")>>),
                            !.httproutes = (<<"n", "r">> :> HTTPRoute(<<ParentRef(Gw, Nil)>>, <<"*.a", "*.b">>))]
  /\ config = Config
  /\ BuildInit

MCSpec == MCInit /\ [][BuildNext \/ BuildFinished]_buildVars
SpecWildcards == InitWildcards /\ [][BuildNext \/ BuildFinished]_buildVars
=============================================================================
