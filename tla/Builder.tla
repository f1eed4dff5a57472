------------------------------- MODULE Builder ------------------------------
(***************************************************************************)
(* One rebuild: the processors run one after the other over the cache of    *)
(* Kubernetes objects (internal/dag/builder.go, in the order of             *)
(* cmd/sesame/serve.go) and the observers turn the DAG into Envoy's         *)
(* resources. Each pass of a loop over a Go map is a step, and any element  *)
(* may be the next.                                                         *)
(*                                                                         *)
(* The state of the HTTPProxy processor is that of the module               *)
(* HTTPProxyProcessor, whose steps are among the steps here; the other      *)
(* processors use its variables todo and phase for their loops.             *)
(***************************************************************************)
EXTENDS HTTPProxyProcessor, IngressProcessor, ExtensionServiceProcessor, GatewayAPIProcessor, EnvoyConfig

VARIABLES
  extStatus,   (* conditions of the ExtensionServices                      *)
  routeStatus, (* conditions of the HTTPRoutes and TLSRoutes, by name      *)
  gw,          (* the Gateway processor: the listener it is at, what it    *)
               (* knows about it, and the status it has made so far        *)
  xds          (* Envoy's resources                                        *)

buildVars == <<vars, extStatus, routeStatus, gw, xds>>

IdleGateway == [n |-> 0, secret |-> Nil, kinds |-> <<>>, attached |-> 0, listeners |-> <<>>, status |-> Nil]
EmptyXDS == [lds |-> Nil, rds |-> <<>>, cds |-> <<>>, ext |-> <<>>, sds |-> {}]

(* What a rebuild may start from: any objects whose lists are sequences and *)
(* whose weights, if any, are natural numbers (the API's minimum is 0).     *)
BackendsWellFormed(refs) == IsSeq(refs) /\ \A ref \in Range(refs) : ref.weight = Nil \/ ref.weight \in Nat

ObjectsWellFormed ==
  /\ \A k \in DOMAIN source.ingresses : LET ing == source.ingresses[k] IN
       /\ IsSeq(ing.tls) /\ \A t \in Range(ing.tls) : IsSeq(t.hosts)
       /\ IsSeq(ing.rules) /\ \A r \in Range(ing.rules) : IsSeq(r.paths)
  /\ \A k \in DOMAIN source.httproutes : LET route == source.httproutes[k] IN
       /\ IsSeq(route.hostnames) /\ IsSeq(route.rules)
       /\ \A r \in Range(route.rules) : IsSeq(r.matches) /\ BackendsWellFormed(r.backends)
  /\ \A k \in DOMAIN source.tlsroutes : LET route == source.tlsroutes[k] IN
       IsSeq(route.rules) /\ \A r \in Range(route.rules) : BackendsWellFormed(r.backends)
  /\ source.gateway # Nil =>
       IsSeq(source.gateway.listeners) /\ \A l \in Range(source.gateway.listeners) : IsSeq(l.kinds)

BuildInit ==
  /\ ProxiesWellFormed /\ ObjectsWellFormed
  /\ dag = EmptyDAG /\ updates = <<>> /\ orphaned = {}
  /\ todo = DOMAIN source.ingresses /\ phase = "secure"
  /\ extStatus = <<>> /\ routeStatus = <<>> /\ gw = IdleGateway /\ xds = EmptyXDS

-----------------------------------------------------------------------------
(* Ingresses and ExtensionServices *)

SecureIngress(k) ==
  /\ phase = "secure" /\ k \in todo
  /\ dag' = ComputeSecureVirtualhosts(source, dag, k)
  /\ todo' = todo \ {k}
  /\ UNCHANGED <<source, config, updates, orphaned, phase, extStatus, routeStatus, gw, xds>>

RouteIngress(k) ==
  /\ phase = "ingress" /\ k \in todo
  /\ dag' = ComputeIngress(source, config, dag, k)
  /\ todo' = todo \ {k}
  /\ UNCHANGED <<source, config, updates, orphaned, phase, extStatus, routeStatus, gw, xds>>

RunExtensionService(k) ==
  LET Take(built) == dag' = AddExtensionCluster(dag, built) /\ extStatus' = Put(extStatus, k, built.cond)
  IN  /\ phase = "extensions" /\ k \in todo
      /\ Take(BuildExtensionService(source, config, k))
      /\ todo' = todo \ {k}
      /\ UNCHANGED <<source, config, updates, orphaned, phase, routeStatus, gw, xds>>

(* The end of a loop, and the beginning of the next one. *)
NextLoop ==
  /\ todo = {}
  /\ \/ phase = "secure" /\ phase' = "ingress" /\ todo' = DOMAIN source.ingresses
     \/ phase = "ingress" /\ phase' = "extensions" /\ todo' = DOMAIN source.extensions
     \/ phase = "extensions" /\ phase' = "list" /\ UNCHANGED todo
  /\ UNCHANGED <<source, config, dag, updates, orphaned, extStatus, routeStatus, gw, xds>>

RunHTTPProxyProcessor ==
  /\ Next
  /\ UNCHANGED <<extStatus, routeStatus, gw, xds>>

-----------------------------------------------------------------------------
(* The Gateway *)

AtListener == source.gateway.listeners[gw.n]

RunGatewayAPIProcessor ==
  /\ phase = "done"
  /\ phase' = IF source.gateway # Nil /\ source.gatewayclass THEN "gateway" ELSE "build"
  /\ UNCHANGED <<source, config, dag, updates, orphaned, todo, extStatus, routeStatus, gw, xds>>

(* The routes of a kind that the listener takes. *)
Selected(l, kind) ==
  LET routes == IF kind = "HTTPRoute" THEN source.httproutes ELSE source.tlsroutes
  IN  {k \in DOMAIN routes : /\ NamespaceMatches(source, l, k[1])
                             /\ RouteSelectsGatewayListener(source, l, routes[k].parents)}

(* computeListener, up to its loops over routes. *)
BeginListener ==
  LET l == source.gateway.listeners[gw.n + 1]
      tls == ListenerSecret(source, l)
      kinds == GetListenerRouteKinds(l)
  IN  /\ phase = "gateway" /\ gw.n < Len(source.gateway.listeners)
      /\ IF tls.ok
         THEN /\ phase' = "attach"
              /\ todo' = UNION {{<<i, k>> : k \in Selected(l, kinds.kinds[i])} : i \in DOMAIN kinds.kinds}
              /\ gw' = [gw EXCEPT !.n = @ + 1, !.secret = tls.secret, !.kinds = kinds.kinds, !.attached = 0,
                                  !.listeners = Put(@, l.name, [conds |-> kinds.conds, attached |-> 0])]
         ELSE /\ gw' = [gw EXCEPT !.n = @ + 1, !.listeners = Put(@, l.name, [conds |-> tls.conds, attached |-> 0])]
              /\ UNCHANGED <<phase, todo>>
      /\ UNCHANGED <<source, config, dag, updates, orphaned, extStatus, routeStatus, xds>>

(* One pass of the loops over routes, the kinds one after the other. The    *)
(* hosts of a rule come in any order. Conditions are kept by the name of    *)
(* the route, so the last listener's count.                                 *)
AttachRoute(t) ==
  LET key == t[2]
      l == AtListener
      Take(done) ==
        /\ dag' = done.dag
        /\ routeStatus' = Put(routeStatus, key, done.conds)
        /\ gw' = IF done.programmed THEN [gw EXCEPT !.attached = @ + 1] ELSE gw
  IN  /\ phase = "attach" /\ t \in todo
      /\ \A u \in todo : t[1] <= u[1]
      /\ todo' = todo \ {t}
      /\ IF source.gateway.addresses
         THEN routeStatus' = Put(routeStatus, key, "Accepted" :> "InvalidGateway") /\ UNCHANGED <<dag, gw>>
         ELSE IF gw.kinds[t[1]] = "TLSRoute"
         THEN Take(ComputeTLSRoute(source, config, dag, key, gw.secret, l.hostname, Word))
         ELSE LET route == source.httproutes[key]
                  hosts == ComputeHosts(route.hostnames, l.hostname).hosts
              IN  \E orders \in [DOMAIN route.rules -> SetToSeqs(hosts)] :
                    Take(ComputeHTTPRoute(source, config, dag, key, gw.secret, l.hostname, orders, Word))
      /\ UNCHANGED <<source, config, updates, orphaned, phase, extStatus, xds>>

FinishListener ==
  /\ phase = "attach" /\ todo = {}
  /\ gw' = [gw EXCEPT !.listeners[AtListener.name].attached = gw.attached]
  /\ phase' = "gateway"
  /\ UNCHANGED <<source, config, dag, updates, orphaned, todo, extStatus, routeStatus, xds>>

FinishGateway ==
  /\ phase = "gateway" /\ gw.n = Len(source.gateway.listeners)
  /\ gw' = [gw EXCEPT !.status = ComputeGatewayConditions(source.gateway, gw.listeners)]
  /\ phase' = "build"
  /\ UNCHANGED <<source, config, dag, updates, orphaned, todo, extStatus, routeStatus, xds>>

-----------------------------------------------------------------------------
(* The caches of Envoy's resources *)

OnChange ==
  LET secure == {h \in SecureListenerHosts(dag) : dag.SecureVirtualHosts[h].Routes # <<>>}
  IN  /\ phase = "build"
      /\ xds' = [lds |-> ListenerCacheOnChange(dag, config.listener, Word), rds |-> Put(<<>>, <<"http", "">>, <<>>),
                 cds |-> ClusterCacheOnChange(dag), ext |-> ExtensionClusters(dag), sds |-> GetSecrets(dag)]
      /\ todo' = ({"http"} \X ListenerHosts(dag)) \union ({"https"} \X secure)
      /\ phase' = "routes"
      /\ UNCHANGED <<source, config, dag, updates, orphaned, extStatus, routeStatus, gw>>

(* The routes of a virtual host come in the order of a Go map. What is made *)
(* of one virtual host does not depend on the others.                       *)
RouteCacheOnChange ==
  LET t == CHOOSE t \in todo : TRUE
      vhost == IF t[1] = "http" THEN dag.VirtualHosts[t[2]] ELSE dag.SecureVirtualHosts[t[2]]
  IN  /\ phase = "routes" /\ todo # {}
      /\ \E routes \in SetToSeqs(RoutesOf(vhost)) :
           xds' = [xds EXCEPT !.rds = IF t[1] = "http" THEN AddPlain(@, dag, t[2], routes, Word)
                                      ELSE AddSecure(@, dag, t[2], routes, Word)]
      /\ todo' = todo \ {t}
      /\ UNCHANGED <<source, config, dag, updates, orphaned, phase, extStatus, routeStatus, gw>>

Built ==
  /\ phase = "routes" /\ todo = {}
  /\ phase' = "end"
  /\ UNCHANGED <<source, config, dag, updates, orphaned, todo, extStatus, routeStatus, gw, xds>>

BuildNext ==
  \/ \E k \in todo : SecureIngress(k) \/ RouteIngress(k) \/ RunExtensionService(k) \/ AttachRoute(k)
  \/ NextLoop
  \/ RunHTTPProxyProcessor
  \/ RunGatewayAPIProcessor
  \/ BeginListener \/ FinishListener \/ FinishGateway
  \/ OnChange \/ RouteCacheOnChange \/ Built

(* The rebuild has come to its end. *)
BuildFinished == phase = "end" /\ UNCHANGED buildVars

BuildSpec == BuildInit /\ [][BuildNext \/ BuildFinished]_buildVars

-----------------------------------------------------------------------------
(* What the properties are about *)

End == phase = "end"

(* The names a host, or the host of a listener, stands for. *)
Names(host) ==
  LET all == {"a", "b", "x.a", "y.a", "x.b"}
  IN  IF host \in {Nil, "*"} THEN all
      ELSE IF IsWildcard(host) THEN {n \in all : n # RemoveFirstDNSLabel(n) /\ RemoveFirstDNSLabel(n) = RemoveFirstDNSLabel(host)}
      ELSE {host}

(* Virtual hosts of a route configuration, and the routes in them. *)
RouteConfigs == DOMAIN xds.rds
RouteLists(name) == {xds.rds[name][h].routes : h \in DOMAIN xds.rds[name]}
Served == UNION {UNION {Range(rs) : rs \in RouteLists(name)} : name \in RouteConfigs}
InClear == UNION {Range(rs) : rs \in RouteLists(<<"http", "">>)}
FilterChains == IF xds.lds = Nil \/ xds.lds.https = Nil THEN {} ELSE xds.lds.https.chains

(* A request is a path and the value of the header "x", or "absent". *)
Requests ==
  {Path(<<>>, TRUE), Path(<<"a">>, FALSE), Path(<<"a">>, TRUE), Path(<<"a", "b">>, FALSE), Path(<<"ab">>, FALSE),
   Path(<<"b">>, FALSE)} \X {"absent", "v", "w"}

(* Is the text of path p the beginning of that of path q? *)
StringPrefix(p, q) ==
  LET n == Len(p.segs)
      Begins(s, t) == s = t \/ (s = "a" /\ t = "ab")
  IN  /\ n <= Len(q.segs) /\ \A i \in 1..(n - 1) : p.segs[i] = q.segs[i]
      /\ n > 0 => IF p.slash THEN p.segs[n] = q.segs[n] /\ (Len(q.segs) > n \/ q.slash)
                  ELSE Begins(p.segs[n], q.segs[n])

RequestMatches(route, req) ==
  LET m == route.match
      path == req[1]
      Header(h) ==
        LET holds == CASE h.type = "exact" -> req[2] = h.value
                       [] h.type = "present" -> req[2] # "absent"
                       [] OTHER -> req[2] = h.value
        IN  holds # h.invert
  IN  /\ CASE m.kind = "exact" -> path = m.path
           [] m.type = "segment" -> path = m.path \/ StringPrefix(Path(m.path.segs, TRUE), path)
           [] OTHER -> StringPrefix(m.path, path)
      /\ \A i \in DOMAIN route.headers : Header(route.headers[i])

Covers(a, b) ==
  LET Requested(r) == {q \in Requests : RequestMatches(r, q)}
  IN  Requested(b) # {} /\ Requested(b) \subseteq Requested(a) /\ Requested(a) # Requested(b)

-----------------------------------------------------------------------------
(* Properties *)

(* If any Ingress secures a host with a certificate its namespace may use,  *)
(* the routes of all Ingresses for that host are served on it, whatever the *)
(* order in which the Ingresses come (the two passes of Run).               *)
IngressSecureComplete ==
  End => \A k, j \in DOMAIN source.ingresses :
    \A rule \in Range(source.ingresses[k].rules), tls \in Range(source.ingresses[j].tls) :
      (/\ rule.host \in Range(tls.hosts)
       /\ tls.secret \in DOMAIN source.secrets /\ ValidSecret(source.secrets[tls.secret])
       /\ DelegationPermitted(source, tls.secret, j[1]))
      => \A p \in Range(rule.paths) :
           <<k[1], p.backend.name>> \in DOMAIN source.services =>
             \E x \in RoutesOf(dag.SecureVirtualHosts[rule.host]) :
               x.match.path.segs = p.path.segs /\ x.match = PathMatchCondition(p.path, p.pathType)

(* Nothing that asks for TLS is forwarded to a service in the clear: routes *)
(* of Ingresses only as their annotations allow, those of HTTPProxies whose *)
(* root has TLS only if a route permits it. Otherwise they redirect to      *)
(* HTTPS (buildRoute).                                                      *)
InClearOnlyAsAllowed ==
  End => \A x \in InClear : x.kind = "route" =>
    LET owner == x.route.owner
    IN  /\ x.route.ownerKind = "Ingress" =>
             HTTPAllowed(source.ingresses[owner]) /\ ~TLSRequired(source.ingresses[owner])
        /\ (x.route.ownerKind = "HTTPProxy" /\ IsRoot(owner)) =>
             \/ source.proxies[owner].vhost.tls = Nil
             \/ /\ ~config.disablePermitInsecure
                /\ \E r \in Range(source.proxies[owner].routes) : r.permitInsecure

(* A host serves an HTTPRoute only if a listener that allows the route's    *)
(* namespace, and that the route names as its parent, stands for all names  *)
(* of the host; and the route, if it names hosts, does too (computeHosts,   *)
(* namespaceMatches, routeSelectsGatewayListener).                          *)
GatewayHostsAllowed ==
  (End /\ source.gateway # Nil) =>
    \A name \in RouteConfigs : \A host \in DOMAIN xds.rds[name] :
      \A x \in Range(xds.rds[name][host].routes) :
        x.route.owner \in DOMAIN source.httproutes =>
          LET owner == x.route.owner
              route == source.httproutes[owner]
              From(l) == \/ l.from = "Same" /\ owner[1] = source.gateway.key[1]
                         \/ l.from = "Selector" /\ owner[1] \in DOMAIN source.namespaces
                              /\ l.selector \in source.namespaces[owner[1]]
                         \/ l.from \in {Nil, "All"}
              Parent(l) == \E p \in Range(route.parents) :
                             p.gateway = source.gateway.key /\ p.section \in {Nil, l.name}
          IN  /\ \E l \in Range(source.gateway.listeners) :
                   /\ From(l) /\ Parent(l) /\ Names(host) \subseteq Names(l.hostname)
                   /\ name[1] = "http" => l.protocol # "HTTPS"
              /\ route.hostnames # <<>> => Names(host) \subseteq UNION {Names(h) : h \in Range(route.hostnames)}

(* A policy in the namespace of the referent allows this kind of object to  *)
(* refer to it.                                                             *)
Granted(kind, ns, toKind, to) ==
  \E rp \in source.referencepolicies :
    /\ rp.namespace = to[1]
    /\ [kind |-> kind, namespace |-> ns] \in rp.from
    /\ \E t \in rp.to : t.kind = toKind /\ t.name \in {Nil, to[2]}

(* The certificate is in the namespace, or delegated to it. *)
MayUse(ns, secret) ==
  secret[1] = ns \/ \E d \in source.delegations : d.secret = secret /\ (ns \in d.targets \/ d.targets = {"*"})

(* Who asks for a certificate for a host: an Ingress with an entry that     *)
(* names both, the HTTPProxy that is the root of the host, a listener of    *)
(* the Gateway that stands for it.                                          *)
IngressNames(k, host, secret) ==
  \E t \in Range(source.ingresses[k].tls) : t.secret = secret /\ host \in Range(t.hosts)
ProxyNames(k, host, secret) ==
  LET vhost == source.proxies[k].vhost
  IN  vhost # Nil /\ vhost.fqdn = host /\ vhost.tls # Nil /\ vhost.tls.secret = secret
StandsFor(name, host) ==
  name \in {Nil, "*", host} \/ (IsWildcard(name) /\ RemoveFirstDNSLabel(name) = RemoveFirstDNSLabel(host))
ListenerNames(l, secret) == l.tls # Nil /\ \E ref \in Range(l.tls.refs) : ref.to = secret

(* One of those who ask for it may use it. *)
CertificateAllowed(host, secret) ==
  \/ \E k \in DOMAIN source.ingresses : IngressNames(k, host, secret) /\ MayUse(k[1], secret)
  \/ \E k \in DOMAIN source.proxies : ProxyNames(k, host, secret) /\ MayUse(k[1], secret)
  \/ /\ source.gateway # Nil
     /\ \E l \in Range(source.gateway.listeners) : ListenerNames(l, secret) /\ StandsFor(l.hostname, host)
     /\ LET ns == source.gateway.key[1]
        IN  secret[1] = ns \/ Granted("Gateway", ns, "Secret", secret)

(* No route reaches a service of another namespace without a policy in that *)
(* namespace (validCrossNamespaceRef), and no host has a certificate but    *)
(* one that an Ingress, an HTTPProxy or a listener names for this host, and *)
(* that is in the namespace of that very object, or is delegated or granted *)
(* to it (DelegationPermitted, validGatewayTLS).                            *)
CrossNamespaceGranted ==
  LET Kind(k) == IF k \in DOMAIN source.httproutes THEN "HTTPRoute" ELSE "none"
  IN  End => /\ \A x \in Served : \A c \in Range(x.route.clusters) :
                  \/ c.service[1] = x.route.owner[1]
                  \/ Granted(Kind(x.route.owner), x.route.owner[1], "Service", c.service)
             /\ \A h \in SecureListenerHosts(dag) :
                  LET secret == dag.SecureVirtualHosts[h].Secret
                  IN  secret = Nil \/ CertificateAllowed(h, secret)

(* A route that is reported as accepted without errors is served: for each  *)
(* of its matches there is a route, and if it is this one's it goes to a    *)
(* service, unless all weights are zero (computeHTTPRoute).                 *)
AcceptedServed ==
  End => \A k \in DOMAIN routeStatus \cap DOMAIN source.httproutes :
    routeStatus[k] = ("Accepted" :> "Valid") =>
      \A rule \in Range(source.httproutes[k].rules) : \A m \in Range(rule.matches) :
        \E x \in Served :
          /\ x.route.match.path = (IF m.path = Nil THEN RootPath ELSE m.path.path)
          /\ \A h \in Range(m.headers) : \E i \in DOMAIN x.route.headers : x.route.headers[i].name = h.name
          /\ x.route.owner = k =>
               \/ x.kind = "route" /\ Len(x.route.clusters) = Len(rule.backends)
               \/ x.kind = "redirect"
               \/ \A b \in Range(rule.backends) : b.weight = 0

(* A Gateway that is reported as valid has a certificate for each listener  *)
(* that terminates TLS, and a valid listener counts the routes it has been  *)
(* given, each of which has a status (computeListener).                     *)
ValidGatewayUsable ==
  (End /\ gw.status = "ValidGateway") =>
    \A l \in Range(source.gateway.listeners) :
      /\ (l.protocol = "HTTPS" \/ (l.protocol = "TLS" /\ l.tls.mode = "Terminate")) =>
           LET ref == Head(l.tls.refs) IN ref.valid /\ LookupSecret(source, ref.to) # Failed
      /\ gw.listeners[l.name].attached > 0 => \E k \in DOMAIN routeStatus : "Accepted" \in DOMAIN routeStatus[k]
      /\ gw.listeners[l.name].attached <= Cardinality(DOMAIN routeStatus)

(* Who asks is served: the routes of an Ingress on the hosts for which some *)
(* Ingress has a certificate, the routes reported as accepted, and the      *)
(* listeners of a Gateway reported as valid.                                *)
AskedIsServed == IngressSecureComplete /\ AcceptedServed /\ ValidGatewayUsable

(* What Envoy is told to use is there for it: the clusters of routes,       *)
(* mirrors and TCP proxies, the clusters of authorization services, the     *)
(* certificates of chains and clusters, and the route configuration of      *)
(* every chain but the fallback one (GetClusters, GetSecrets). For          *)
(* extension clusters this is so if a route has a cluster of its own.       *)
ReferencesResolved ==
  End =>
    /\ \A x \in Served : x.kind = "route" =>
         /\ \A c \in Range(x.action.clusters.clusters) : c.name \in DOMAIN xds.cds
         /\ x.action.mirror # Nil => x.action.mirror \in DOMAIN xds.cds
    /\ \A ch \in FilterChains :
         /\ \A c \in Range(ch.tcp) : c.name \in DOMAIN xds.cds
         /\ ch.auth # Nil => ch.auth \in DOMAIN xds.ext
         /\ ch.tls # Nil => ch.tls.secret \in xds.sds /\ ch.tls.secret \in DOMAIN source.secrets
         /\ (ch.route # Nil /\ ch.name = "") => ch.route \in RouteConfigs
    /\ \A n \in DOMAIN xds.cds : \A c \in xds.cds[n] :
         (c.tls # Nil /\ c.tls.clientCert # Nil) => c.tls.clientCert \in xds.sds

(* A route that another one covers comes before it: no route is hidden,     *)
(* whatever the order in which the routes are found (sortRoutes: "sort from *)
(* most to least specific"). For routes with at most one header condition,  *)
(* which does not exclude a value, and no regular expression: a header      *)
(* other than "v" comes before the header "w", and hides it.                *)
MostSpecificFirst ==
  End => \A name \in RouteConfigs : \A rs \in RouteLists(name) :
    \A i, j \in DOMAIN rs :
      LET a == rs[i].route  b == rs[j].route
          Simple(r) == r.match.kind # "regex" /\ Len(r.headers) <= 1
                         /\ \A h \in Range(r.headers) : h.name = "x" /\ (h.invert => h.type = "present")
      IN  (i < j /\ Simple(a) /\ Simple(b)) => ~Covers(a, b)

(* Sums of the weights of clusters. *)
Total(ws) == FoldLeft(LAMBDA n, w : n + w, 0, ws)
WeightsOf(clusters) == [i \in DOMAIN clusters |-> clusters[i].weight]
Fits(clusters) == Total(WeightsOf(clusters)) < Word

(* Of the weights asked for, and of those Envoy is given, a cluster has the *)
(* same part; if none is asked for, it has some.                            *)
SplitAsAsked(asked, given) ==
  LET Given(c) == Total([i \in DOMAIN given |-> IF given[i].name = Clustername(c) THEN given[i].weight ELSE 0])
      Asked(c) == Total([i \in DOMAIN asked |-> IF Clustername(asked[i]) = Clustername(c) THEN asked[i].weight ELSE 0])
      all == Total(WeightsOf(asked))
      total == Total(WeightsOf(given))
  IN  total > 0 /\ \A c \in Range(asked) : IF all = 0 THEN Given(c) > 0 ELSE Given(c) * all = Asked(c) * total

(* Traffic is split as asked for: a cluster without weight gets none, the   *)
(* weights add up to the total, and if no cluster has a weight all get the  *)
(* same (weightedClusters, TCPProxy). For weights whose sum fits a word.    *)
WeightsServed ==
  End =>
    /\ \A x \in Served : (x.kind = "route" /\ Fits(x.route.clusters)) =>
         /\ SplitAsAsked(x.route.clusters, x.action.clusters.clusters)
         /\ x.action.clusters.total = Total(WeightsOf(x.action.clusters.clusters))
    /\ \A ch \in FilterChains : (ch.tcp # <<>> /\ ch.match # Nil) =>
         LET tcp == dag.SecureVirtualHosts[ch.match].TCP
         IN  /\ Fits(tcp) => SplitAsAsked(tcp, ch.tcp)
             /\ \A c \in Range(ch.tcp) : c.weight > 0

(* Every connection manager has all its filters, and the router is the last *)
(* one and the only one; where authorization is asked for, it comes before  *)
(* the router (AddFilter).                                                  *)
FiltersInOrder ==
  End =>
    LET optional == {OriginalIPDetectionFilter(config.listener), GlobalRateLimitFilter(config.listener)} \ {Nil}
        Sound(filters, own) ==
          /\ Last(filters) = "router"
          /\ Range(filters) = Range(DefaultFilters) \union optional \union own
          /\ Cardinality(Range(filters)) = Len(filters)
    IN  /\ xds.lds.http # Nil => Sound(xds.lds.http.filters, {})
        /\ \A ch \in FilterChains : ch.route # Nil =>
             Sound(ch.filters, IF ch.name # "" THEN {}
                               ELSE {"misdirected"} \union (IF ch.auth = Nil THEN {} ELSE {"ext_authz"}))

(* The resources of one rebuild fit together: every name in them is one of  *)
(* them, and every chain of filters is complete.                            *)
ResourcesComplete == ReferencesResolved /\ FiltersInOrder

(* The routes of a host with a wildcard ask for one label in its place, and *)
(* for nothing else of the host: "add a header match regex rule to match    *)
(* the hostname so we can be sure to only match one DNS label".             *)
WildcardRoutesMatchHost ==
  End => \A name \in RouteConfigs : \A host \in DOMAIN xds.rds[name] :
    \A x \in Range(xds.rds[name][host].routes) : \A h \in Range(x.route.headers) :
      h.name = ":authority" => h.value = host
=============================================================================
