----------------------------- MODULE EnvoyConfig ----------------------------
(***************************************************************************)
(* From the DAG to the resources Envoy asks for: the listener, route,       *)
(* cluster and secret caches (internal/xdscache/v3), the conversions they   *)
(* use (internal/envoy and internal/envoy/v3) and the order of routes       *)
(* (internal/sorter).                                                       *)
(*                                                                         *)
(* Names of route configurations are pairs: <<"http", "">>,                 *)
(* <<"https", host>> and <<"fallback", "">>.                                *)
(***************************************************************************)
EXTENDS DAG, TLC

-----------------------------------------------------------------------------
(* The order of routes *)

(* strings.Compare, for the texts of the instances. *)
Alphabet ==
  <<"", "*", "*.a", "*.b", "/", ":authority", ":method", "GET", "X", "a", "a+", "ab", "b", "c", "h", "s", "t",
    "v", "w", "x", "x.a", "x.b", "y", "y.a">>
Before(a, b) ==
  SelectInSeq(Alphabet, LAMBDA t : t = a) < SelectInSeq(Alphabet, LAMBDA t : t = b)

PathBefore(a, b) ==
  LET shared == {i \in DOMAIN a.segs : i \in DOMAIN b.segs /\ a.segs[i] # b.segs[i]}
      first == CHOOSE i \in shared : \A j \in shared : i <= j
  IN  IF shared # {} THEN Before(a.segs[first], b.segs[first])
      ELSE Len(a.segs) < Len(b.segs) \/ (a.segs = b.segs /\ ~a.slash /\ b.slash)

Position(x, order) == CHOOSE i \in DOMAIN order : order[i] = x

(* headerMatchConditionSorter.Less; two equal conditions that are not       *)
(* inverted are each less than the other.                                   *)
HeaderMatchConditionLess(a, b) ==
  LET types == <<"exact", "regex", "contains", "present">>
  IN  IF a.name # b.name THEN Before(a.name, b.name)
      ELSE IF a.type # b.type THEN Position(a.type, types) < Position(b.type, types)
      ELSE IF a.type # "present" /\ a.value # b.value THEN Before(a.value, b.value)
      ELSE ~a.invert

LongestRouteByHeaderConditions(lhs, rhs) ==
  \/ /\ Len(lhs) = Len(rhs)
     /\ \E i \in DOMAIN lhs : HeaderMatchConditionLess(lhs[i], rhs[i])
  \/ Len(lhs) > Len(rhs)

RouteLessShortestFirst(a, b) ==
  LET kinds == <<"exact", "regex", "prefix">>
  IN  IF a.match.kind # b.match.kind
      THEN Position(a.match.kind, kinds) < Position(b.match.kind, kinds)
      ELSE IF a.match.path # b.match.path THEN PathBefore(a.match.path, b.match.path)
      ELSE IF a.match.type # b.match.type THEN a.match.type = "segment"
      ELSE LongestRouteByHeaderConditions(a.headers, b.headers)

(* routeSorter.Less *)
RouteLess(a, b) ==
  LET kinds == <<"exact", "regex", "prefix">>
  IN  IF a.match.kind # b.match.kind
      THEN Position(a.match.kind, kinds) < Position(b.match.kind, kinds)
      ELSE IF a.match.path # b.match.path THEN PathBefore(b.match.path, a.match.path)
      ELSE IF a.match.type # b.match.type THEN a.match.type = "segment"
      ELSE LongestRouteByHeaderConditions(a.headers, b.headers)

(* sort.Stable of up to 20 elements is an insertion sort: an element moves  *)
(* to the left while it is less than its neighbour.                         *)
StableSort(seq, Less(_, _)) ==
  LET Insert(acc, x) ==
        LET stops == {0} \union {i \in DOMAIN acc : ~Less(x, acc[i])}
            at == CHOOSE i \in stops : \A j \in stops : j <= i
        IN  InsertAt(acc, at + 1, x)
  IN  FoldLeft(Insert, <<>>, seq)

SortRoutes(routes) ==
  StableSort([i \in DOMAIN routes |->
                [routes[i] EXCEPT !.headers = StableSort(@, HeaderMatchConditionLess)]],
             RouteLess)

-----------------------------------------------------------------------------
(* Clusters *)

(* The hash in the name is taken to be different for different texts; the   *)
(* CA certificate is in it without its namespace.                           *)
Clustername(c) ==
  [service |-> c.service, port |-> c.port.number, lb |-> c.lb,
   health |-> IF c.health # Nil /\ c.health.kind = "http" THEN [c.health EXCEPT !.path[2] = ""] ELSE Nil,
   validation |-> IF c.validation = Nil THEN Nil ELSE <<c.validation.ca[2], c.validation.subject>>]

LbPolicy(strategy) ==
  CASE strategy = "WeightedLeastRequest" -> "LEAST_REQUEST" [] strategy = "Random" -> "RANDOM"
    [] strategy \in {"Cookie", "RequestHash"} -> "RING_HASH" [] OTHER -> "ROUND_ROBIN"

(* What is not given has a default. *)
EdsHealthCheck(hc) ==
  LET OrDefault(n, default) == IF n = 0 THEN default ELSE n
  IN  IF hc = Nil THEN Nil
      ELSE [hc EXCEPT !.timeout = OrDefault(@, 2), !.interval = OrDefault(@, 10),
                      !.unhealthy = OrDefault(@, 3), !.healthy = OrDefault(@, 2),
                      !.path = IF hc.kind = "http" /\ @[2] = "" THEN <<@[1], "sesame-envoy-healthcheck">> ELSE @]

UpstreamTLSContext(validation, sni, clientCert, alpn) ==
  [validation |-> validation, sni |-> sni, clientCert |-> clientCert, alpn |-> alpn]

EnvoyCluster(c) ==
  [lb |-> LbPolicy(c.lb), health |-> EdsHealthCheck(c.health), drainOnRemoval |-> c.health # Nil,
   discovery |-> IF c.external = "" THEN "EDS" ELSE "STRICT_DNS",
   assignment |-> <<c.service, c.port.name>>, address |-> c.external,
   http2 |-> c.protocol \in {"h2", "h2c"},
   tls |-> IF c.protocol \in {"tls", "h2"}
           THEN UpstreamTLSContext(c.validation, c.sni, c.clientCert, IF c.protocol = "h2" THEN "h2" ELSE "")
           ELSE Nil]

ExtensionCluster(ext) ==
  [lb |-> LbPolicy(ext.lb), health |-> Nil, drainOnRemoval |-> FALSE, discovery |-> "EDS",
   assignment |-> <<ext.name, "">>, address |-> "", http2 |-> TRUE,
   tls |-> IF ext.protocol = "h2"
           THEN UpstreamTLSContext(ext.validation, Literal(ext.sni), ext.clientCert, "h2") ELSE Nil]

(* The cluster cache. Of several clusters with one name the first one in    *)
(* the order of a Go map is served: each name has the set of what may be    *)
(* served for it. Extension clusters are known by their own name.           *)
ClusterCacheOnChange(dag) ==
  LET clusters == GetClusters(dag)
  IN  [n \in {Clustername(c) : c \in clusters} |->
        {EnvoyCluster(c) : c \in {c \in clusters : Clustername(c) = n}}]

ExtensionClusters(dag) ==
  LET exts == Range(dag.ExtensionClusters)
  IN  [n \in {e.name : e \in exts} |-> {ExtensionCluster(e) : e \in {e \in exts : e.name = n}}]

-----------------------------------------------------------------------------
(* Routes *)

(* More than one cluster, or anything to be done with headers, needs a      *)
(* weighted cluster; and so do cookies, which are left out.                 *)
SingleSimpleCluster(route) ==
  /\ Len(route.clusters) = 1
  /\ LET hp == route.clusters[1].headers
     IN  hp = Nil \/ (DOMAIN hp.Set = {} /\ hp.Add = {} /\ hp.Remove = {})

WeightedClustersKeepZero(clusters, Word) ==
  LET total == FoldLeft(LAMBDA n, c : (n + c.weight) % Word, 0, clusters)
  IN  [clusters |-> [i \in DOMAIN clusters |-> [name |-> Clustername(clusters[i]), weight |-> clusters[i].weight]],
       total |-> total]

(* If no weights are given, or their sum is 0, all weights are 1. *)
WeightedClusters(clusters, Word) ==
  LET total == FoldLeft(LAMBDA n, c : (n + c.weight) % Word, 0, clusters)
  IN  [clusters |-> [i \in DOMAIN clusters |->
                       [name |-> Clustername(clusters[i]), weight |-> IF total = 0 THEN 1 ELSE clusters[i].weight]],
       total |-> IF total = 0 THEN Len(clusters) ELSE total]

RouteRoute(route, Word) ==
  [clusters |-> IF SingleSimpleCluster(route)
                THEN [clusters |-> <<[name |-> Clustername(route.clusters[1]), weight |-> 1]>>, total |-> 1]
                ELSE WeightedClusters(route.clusters, Word),
   mirror |-> IF route.mirror = Nil THEN Nil ELSE Clustername(route.mirror),
   policies |-> route.policies, rewrite |-> route.rewrite, websocket |-> route.websocket]

(* An upgrade to HTTPS comes before a direct response, and that before a    *)
(* redirect.                                                                *)
BuildRoute(route, secure, auth, Word) ==
  LET kind == IF route.upgrade /\ ~secure THEN "upgrade"
              ELSE IF route.direct # Nil THEN "direct"
              ELSE IF route.redirect THEN "redirect" ELSE "route"
  IN  [route |-> route, kind |-> kind,
       action |-> IF kind = "route" THEN RouteRoute(route, Word) ELSE Nil,
       authDisabled |-> kind = "route" /\ auth # Nil /\ route.authDisabled]

(* routes: the routes of the virtual host in the order they are found. *)
VirtualHostAndRoutes(vhost, routes, secure, auth, Word) ==
  LET sorted == SortRoutes(routes)
  IN  [routes |-> [i \in DOMAIN sorted |-> BuildRoute(sorted[i], secure, auth, Word)],
       cors |-> vhost.CORS, rateLimit |-> vhost.RateLimit]

(* The route cache: one pass of its loops over virtual hosts and over       *)
(* secure ones. A secure one with the fallback certificate is in two        *)
(* configurations.                                                          *)
AddVirtualHost(rds, name, host, vhost) ==
  Put(rds, name, Put(IF name \in DOMAIN rds THEN rds[name] ELSE <<>>, host, vhost))

AddPlain(rds, dag, host, routes, Word) ==
  AddVirtualHost(rds, <<"http", "">>, host,
                 VirtualHostAndRoutes(dag.VirtualHosts[host], routes, FALSE, Nil, Word))

AddSecure(rds, dag, host, routes, Word) ==
  LET svhost == dag.SecureVirtualHosts[host]
      vhost == VirtualHostAndRoutes(svhost, routes, TRUE, svhost.Auth, Word)
      own == AddVirtualHost(rds, <<"https", host>>, host, vhost)
  IN  IF svhost.Fallback = Nil THEN own ELSE AddVirtualHost(own, <<"fallback", "">>, host, vhost)

-----------------------------------------------------------------------------
(* Listeners *)

DefaultFilters == <<"compressor", "grpcweb", "cors", "local_ratelimit", "lua", "router">>

(* The filters that connection managers have; none of them is no filter. *)
FilterNames == Range(DefaultFilters) \union {"misdirected", "ext_authz", "xff", "ratelimit"}
ASSUME FilterNamesAssumption == Nil \notin FilterNames

(* The router is moved to the end, past the one filter that follows it. *)
AddFilter(filters, f) ==
  LET all == Append(filters, f)
      router == SelectInSeq(all, LAMBDA g : g = "router")
  IN  IF f = Nil THEN filters
      ELSE IF Len(all) = 1 \/ router = Len(all) THEN all
      ELSE SubSeq(all, 1, router - 1) \o <<all[router + 1], "router">>

OriginalIPDetectionFilter(cfg) == IF cfg.xffNumTrustedHops = 0 THEN Nil ELSE "xff"
GlobalRateLimitFilter(cfg) == IF cfg.rateLimit = Nil THEN Nil ELSE "ratelimit"

(* The filters all connection managers have after their own ones. *)
Common(cfg, filters) ==
  AddFilter(AddFilter(filters, OriginalIPDetectionFilter(cfg)), GlobalRateLimitFilter(cfg))

SecureFilters(cfg, svhost) ==
  Common(cfg, AddFilter(AddFilter(<<>>, "misdirected") \o DefaultFilters,
                        IF svhost.Auth = Nil THEN Nil ELSE "ext_authz"))

ProtoNamesForVersions(versions) ==
  IF versions = {} \/ "auto" \in versions THEN <<"h2", "http/1.1">>
  ELSE (IF "http2" \in versions THEN <<"h2">> ELSE <<>>)
         \o (IF "http1" \in versions THEN <<"http/1.1">> ELSE <<>>)

(* Clusters without weight get no connections, unless the sum is 0. *)
TCPProxyFilter(clusters, Word) ==
  LET kept == Collect(clusters, LAMBDA c : c.weight > 0)
      total == FoldLeft(LAMBDA n, c : (n + c.weight) % Word, 0, kept)
      used == IF total = 0 THEN clusters ELSE kept
      Weight(c) == IF Len(used) = 1 \/ c.weight = 0 THEN 1 ELSE c.weight
  IN  [i \in DOMAIN used |-> [name |-> Clustername(used[i]), weight |-> Weight(used[i])]]

MaxVersion(a, b) == IF "1.3" \in {a, b} THEN "1.3" ELSE "1.2"

DownstreamTLSContext(secret, version, client, alpn) ==
  [secret |-> secret, version |-> version, client |-> client, alpn |-> alpn]

(* The chain of a secure virtual host: without a server name any TLS        *)
(* connection matches, without a secret TLS is passed through.              *)
FilterChainTLS(cfg, host, svhost, Word) ==
  LET http == svhost.TCP = Nil
      version == MaxVersion(MinTLSVersion(cfg.minTLSVersion, "1.2"), svhost.MinTLSVersion)
  IN  [name |-> "", match |-> IF host = "*" THEN Nil ELSE host,
       route |-> IF http THEN <<"https", host>> ELSE Nil,
       filters |-> IF http THEN SecureFilters(cfg, svhost) ELSE <<>>,
       auth |-> svhost.Auth,
       tcp |-> IF http THEN <<>> ELSE TCPProxyFilter(svhost.TCP, Word),
       tls |-> IF svhost.Secret = Nil THEN Nil
               ELSE DownstreamTLSContext(svhost.Secret, version, svhost.Downstream,
                      IF http THEN ProtoNamesForVersions(cfg.httpVersions) ELSE <<>>)]

FilterChainTLSFallback(cfg, svhost) ==
  [name |-> "fallback-certificate", match |-> Nil, route |-> <<"fallback", "">>,
   filters |-> Common(cfg, DefaultFilters), auth |-> Nil, tcp |-> <<>>,
   tls |-> DownstreamTLSContext(svhost.Fallback, MinTLSVersion(cfg.minTLSVersion, "1.2"), svhost.Downstream,
             IF svhost.TCP = Nil THEN ProtoNamesForVersions(cfg.httpVersions) ELSE <<>>)]

(* The listener cache. The HTTPS listener has a chain for each secure       *)
(* virtual host, in the order of their names, and one for the fallback      *)
(* certificate of the first that has it.                                    *)
ListenerCacheOnChange(dag, cfg, Word) ==
  LET secure == SecureListenerHosts(dag)
      fallback == {h \in secure : dag.SecureVirtualHosts[h].Fallback # Nil}
      first == CHOOSE h \in fallback : \A g \in fallback : ~Before(g, h)
      chains == {FilterChainTLS(cfg, h, dag.SecureVirtualHosts[h], Word) : h \in secure}
                  \union (IF fallback = {} THEN {}
                          ELSE {FilterChainTLSFallback(cfg, dag.SecureVirtualHosts[first])})
      proxyProtocol == IF cfg.useProxyProto THEN <<"proxy_protocol">> ELSE <<>>
  IN  [http |-> IF ListenerHosts(dag) = {} THEN Nil
                ELSE [listenerFilters |-> proxyProtocol, route |-> <<"http", "">>,
                      filters |-> Common(cfg, DefaultFilters), balance |-> cfg.balance],
       https |-> IF chains = {} THEN Nil
                 ELSE [listenerFilters |-> Append(proxyProtocol, "tls_inspector"), chains |-> chains,
                       balance |-> cfg.balance]]
=============================================================================
