------------------------ MODULE MCHTTPProxyProcessor ------------------------
(***************************************************************************)
(* Instances of HTTPProxyProcessor: families of proxies, each of which      *)
(* varies one part of the API and leaves the rest as it is in a simple      *)
(* proxy that is valid.                                                     *)
(***************************************************************************)
EXTENDS HTTPProxyProcessor, APIObjects

P1 == <<"n", "p1">>
P2 == <<"n", "p2">>
P3 == <<"m", "p3">>
Gone == <<"n", "gone">>

S == [Service("s", 80) EXCEPT !.weight = 1]
R == [RouteSpec EXCEPT !.services = <<S>>]
Prefix(a) == PrefixCondition(Path(<<a>>, FALSE), TRUE)

K8sService == [type |-> "ClusterIP", external |-> "", byName |-> <<>>, byNumber |-> <<>>,
               ports |-> <<[number |-> 80, name |-> "http", protocol |-> "TCP"],
                           [number |-> 53, name |-> "dns", protocol |-> "UDP"],
                           [number |-> 443, name |-> "https", protocol |-> "TCP"]>>]
Services ==
  (<<"n", "s">> :> [K8sService EXCEPT !.byName = ("https" :> "tls")]) @@ (<<"m", "s">> :> K8sService)
    @@ (<<"n", "ext">> :> [K8sService EXCEPT !.type = "ExternalName", !.external = "elsewhere"])
    @@ (<<"n", "local">> :> [K8sService EXCEPT !.type = "ExternalName", !.external = "localhost"])

(* Secrets pass IsValidSecret when they come into the cache. *)
Secret(type, cert, key, ca) == [type |-> type, cert |-> cert, key |-> key, ca |-> ca]
Offered ==
  (<<"n", "good">> :> Secret("tls", <<"cert", "nameless cert">>, <<"key">>, <<>>))
    @@ (<<"n", "bad">> :> Secret("tls", <<"nameless cert">>, <<"key">>, <<>>))
    @@ (<<"n", "keyless">> :> Secret("tls", <<"cert">>, <<>>, <<>>))
    @@ (<<"n", "ca">> :> Secret("opaque", <<>>, <<>>, <<"cert">>))
    @@ (<<"n", "badca">> :> Secret("opaque", <<>>, <<>>, <<"junk">>))
    @@ (<<"m", "shared">> :> Secret("tls", <<"cert">>, <<"ec key">>, <<"cert">>))
    @@ (<<"m", "own">> :> Secret("tls", <<"cert">>, <<"broken key">>, <<"cert">>))
Accepted == {n \in DOMAIN Offered : IsValidSecret(Offered[n])}

Source(proxies) ==
  [proxies |-> proxies, services |-> Services, secrets |-> [n \in Accepted |-> Offered[n]],
   delegations |-> {CertificateDelegation(<<"m", "shared">>, {"n", "x"})}]

Config == [enableExternalName |-> FALSE, clientCert |-> Nil, fallback |-> Nil, reqHeaders |-> Nil,
           respHeaders |-> Nil, disablePermitInsecure |-> FALSE, rootNamespaces |-> {}]
Extensions == <<[name |-> <<"n", "auth">>, timeout |-> "5s"]>>

(* Include graphs: a root, a proxy that may be a second root, for the same  *)
(* host or another one, and a proxy in another namespace.                   *)
Includes ==
  LET targets == {P2, P3, P1, Gone}
      One == {<<Include(t, <<Prefix("a")>>)>> : t \in targets}
      Two == {<<Include(t, <<Prefix("a")>>), Include(u, <<Prefix(p)>>)>>
                : t \in targets, u \in targets, p \in {"a", "b"}}
  IN  {<<>>} \union One \union Two
Graph ==
  {(P1 :> Proxy(VHost("a"), <<R>>, i)) @@ (P2 :> Proxy(v, <<R>>, j)) @@ (P3 :> Proxy(Nil, <<R>>, k))
     : i \in Includes, j \in Includes, v \in {Nil, VHost("A"), VHost("*.a")},
       k \in {<<>>} \union {<<Include(t, <<Prefix("c")>>)>> : t \in {P2, P3, P1}}}

Alone(route) == P1 :> Proxy(VHost("a"), <<route>>, <<>>)

(* Header conditions of a route. *)
Headers ==
  {Alone([R EXCEPT !.conditions = <<c, d>>])
     : c, d \in {HeaderCondition(n, o, v) : n \in {"x", "X", "y"},
                   o \in {"exact", "notexact", "contains", "notcontains"}, v \in {"v", "w"}}
                \union {HeaderCondition("x", o, "") : o \in {"present", "notpresent", "none"}}}

(* A proxy that two roots include, below conditions that may contradict     *)
(* its own.                                                                 *)
Shared ==
  LET conds == {<<>>, <<Prefix("a")>>, <<HeaderCondition("x", "exact", "v")>>, <<HeaderCondition("X", "notexact", "w")>>,
                <<Prefix("a"), HeaderCondition("x", "notcontains", "v")>>}
  IN  {(P1 :> Proxy(VHost("a"), <<>>, <<Include(P2, c)>>)) @@ (P3 :> Proxy(VHost("b"), <<R>>, <<Include(P2, d)>>))
         @@ (P2 :> Proxy(Nil, <<[R EXCEPT !.conditions = e], R>>, <<>>)) : c, d, e \in conds}

(* Prefixes, in an include and a route, and their rewrites. *)
Rewrites ==
  LET paths == {Path(<<"b">>, FALSE), Path(<<"b">>, TRUE), RootPath}
      Replace(ps) == [R EXCEPT !.conditions = <<PrefixCondition(ps[1], TRUE)>>,
                               !.replace = <<ReplacePrefix(ps[2], ps[3])>>]
      routes == {Replace(ps) : ps \in paths \X {Nil, Path(<<"a", "b">>, FALSE), Path(<<"a", "b">>, TRUE)} \X paths}
  IN  {(P1 :> Proxy(VHost("a"), own, <<Include(P2, <<PrefixCondition(p, rooted)>>)>>))
         @@ (P2 :> Proxy(Nil, <<route>>, <<>>))
         : own \in {<<>>, <<[R EXCEPT !.conditions = <<Prefix("a"), Prefix("b")>>]>>}, rooted \in BOOLEAN,
           route \in routes, p \in {Path(<<"a">>, FALSE), Path(<<"a">>, TRUE), RootPath}}

(* TLS of a root, with what goes with it. *)
TLSRoots ==
  {P1 :> [Proxy([VHost("a") EXCEPT !.tls = [TLS EXCEPT !.passthrough = pass, !.secret = secret, !.fallback = fb, !.client = client],
                                   !.auth = auth],
                <<[R EXCEPT !.permitInsecure = permit]>>, <<>>) EXCEPT !.tcp = tcp]
     : pass \in BOOLEAN, fb \in BOOLEAN, permit \in BOOLEAN,
       secret \in {Nil, <<"n", "good">>, <<"n", "bad">>, <<"n", "ca">>, <<"m", "shared">>, <<"m", "own">>},
       client \in {Nil} \union {DownstreamValidation(c, s) : c \in {Nil, <<"n", "ca">>, <<"n", "badca">>}, s \in BOOLEAN},
       auth \in {Nil} \union {[AuthorizationServer(<<"n", e>>) EXCEPT !.version = v, !.timeout = t, !.body = 0]
                   : v \in BOOLEAN, e \in {"auth", "none"}, t \in {"", "soon"}},
       tcp \in {Nil, [TCPProxy EXCEPT !.services = <<S>>]}}

(* TCP proxies that include each other. *)
TCP ==
  LET tcps == {Nil} \union {[TCPProxy EXCEPT !.services = s, !.include = i, !.lb = LoadBalancerPolicySpec("Cookie", <<>>)]
                : s \in {<<>>, <<S>>, <<[S EXCEPT !.name = "gone"]>>}, i \in {Nil, P1, P2, P3, Gone}}
  IN  {(P1 :> [Proxy([VHost("a") EXCEPT !.tls = tls], <<>>, <<>>) EXCEPT !.tcp = t])
         @@ (P2 :> [Proxy(Nil, <<>>, <<>>) EXCEPT !.tcp = u])
         @@ (P3 :> [Proxy(Nil, <<>>, <<>>) EXCEPT !.tcp = [TCPProxy EXCEPT !.services = <<S>>]])
         : t \in tcps, u \in tcps,
           tls \in {Nil, [TLS EXCEPT !.passthrough = TRUE]}}

(* Policies of a route and of its services. *)
Set(name, kind) == [name |-> name, value |-> [kind |-> kind, text |-> "SERVICE_NAME"]]
HeaderPolicies ==
  {HeadersPolicySpec(set, remove) : set \in {<<>>, <<Set("X-A", "text"), Set("x-a", "envoy")>>, <<Set("Host", "text")>>, <<Set("y", "dynamic")>>},
                         remove \in {<<>>, <<"X-A", "x-a">>, <<"bad name">>}}
RoutePolicies ==
  {Alone(r) : r \in
    {[R EXCEPT !.reqHeaders = p] : p \in HeaderPolicies}
      \union {[R EXCEPT !.respHeaders = p] : p \in HeaderPolicies}
      \union {[R EXCEPT !.services = <<[S EXCEPT !.reqHeaders = p]>>] : p \in HeaderPolicies}
      \union {[R EXCEPT !.services = <<[S EXCEPT !.name = n, !.port = o, !.protocol = p, !.mirror = x, !.validation = v],
                                       [S EXCEPT !.mirror = TRUE]>>]
                : n \in {"s", "ext", "local", "gone"}, o \in {0, 53, 80, 443, 65536}, p \in {Nil, "h2", "gopher"},
                  x \in BOOLEAN, v \in {Nil} \union {UpstreamValidation(c, t)
                     : c \in {<<"n", "ca">>, <<"m", "own">>, <<"n", "badca">>}, t \in {"", "t"}}}
      \union {[R EXCEPT !.services = <<>>, !.redirect = x] : x \in BOOLEAN}
      \union {[R EXCEPT !.retry = RetryPolicySpec({}, n, t), !.health = HTTPHealthCheckPolicy("/", 0, 0)]
                : n \in {-1, 0, 2}, t \in {"", "1s"}}
      \union {[R EXCEPT !.timeout = TimeoutPolicySpec(t, u)] : t, u \in {"", "0s", "1s", "infinity", "soon"}}
      \union {[R EXCEPT !.cookies = <<CookieRewritePolicy("c", a), CookieRewritePolicy(n, {"path"})>>]
                : a \in {{}, {"path"}}, n \in {"c", "d"}}
      \union {[R EXCEPT !.rateLimit = RateLimit(l, g)]
                : l \in {Nil} \union {LocalRateLimit(q, u, 250)
                                        : q \in {0, 10}, u \in {"second", "fortnight"}},
                  g \in {Nil, <<<<{"generic"}>>>>, <<<<{"generic", "header"}>>>>}}
      \union {[R EXCEPT !.lb = LoadBalancerPolicySpec(s, <<h, g>>)]
                : s \in {"Cookie", "RequestHash", "Random", "Best"},
                  h, g \in {HashPolicy(b, x) : b \in BOOLEAN, x \in {Nil, "X-A", "x-a", "bad name"}}}}

(* What the configuration of the processor changes. *)
Configs ==
  {[Config EXCEPT !.fallback = f, !.disablePermitInsecure = d]
     : f \in {Nil, <<"n", "good">>, <<"n", "keyless">>, <<"m", "own">>}, d \in BOOLEAN}
  \union {[Config EXCEPT !.rootNamespaces = {"m"}], [Config EXCEPT !.enableExternalName = TRUE, !.clientCert = <<"n", "good">>],
          [Config EXCEPT !.clientCert = <<"n", "keyless">>],
          [Config EXCEPT !.reqHeaders = HeadersPolicySpec(<<Set("X-A", "envoy")>>, <<"x-a">>)]}

VHosts ==
  {P1 :> Proxy([VHost(h) EXCEPT !.cors = c, !.rateLimit = RateLimit(l, Nil)], <<R>>, <<>>)
     : h \in {"", "a", "*.a"}, c \in {Nil, "", "0s", "soon", "negative"},
       l \in {Nil, LocalRateLimit(0, "second", 0)}}

Instance(proxies, conf) ==
  /\ source = Source(proxies) /\ config = conf
  /\ dag = [EmptyDAG EXCEPT !.ExtensionClusters = Extensions]

MCInit ==
  /\ \/ \E g \in Graph \union Headers \union Shared \union Rewrites \union TCP : Instance(g, Config)
     \/ \E g \in RoutePolicies \union VHosts, c \in Configs : Instance(g, c)
     \/ \E g \in TLSRoots, c \in Configs : c.rootNamespaces = {} /\ c.clientCert = Nil /\ Instance(g, c)
  /\ Init

MCSpec == MCInit /\ [][Next \/ Finished]_vars
=============================================================================
