---------------------- MODULE HTTPProxyProcessor_proofs ---------------------
(***************************************************************************)
(* Proofs about the HTTPProxy processor for any proxies, any graph of      *)
(* includes and any order of the visits: a proxy found invalid stays so, a *)
(* host with TLS keeps its protection wherever the processing ends, the    *)
(* proxies that no root reaches, and no others, are orphaned, and cycles   *)
(* are reported. The loops of the processor and the recursion along        *)
(* includes are instances of the module Loops; what each of them keeps is  *)
(* shown first, from the services of a route up to a root, then that the   *)
(* steps of the processor keep ProxyInv, OrphanInv and CycleInv.           *)
(***************************************************************************)
EXTENDS HTTPProxyProcessor, FiniteSetTheorems, TLAPS

-----------------------------------------------------------------------------
(* Sequences *)

(* A list with elements of some set is a list. *)
LEMMA ElementsSeq ==
  ASSUME NEW S, NEW u \in Seq(S)
  PROVE  IsSeq(u) /\ DOMAIN u = 1..Len(u) /\ Len(u) \in Nat
<1>1. \A i \in 1..Len(u) : u[i] \in Range(u)
  BY DEF Range
<1> QED BY <1>1 DEF IsSeq

(* What the lists of the processors are built with makes lists. *)
LEMMA SeqAppend ==
  ASSUME NEW s, IsSeq(s), NEW x
  PROVE  IsSeq(Append(s, x)) /\ Range(Append(s, x)) = Range(s) \union {x}
<1> DEFINE S == Range(s) \union {x}
           t == Append(s, x)
<1>1. s \in Seq(S) /\ x \in S
  BY DEF IsSeq
<1>2. t \in Seq(S) /\ Len(t) = Len(s) + 1 /\ Len(s) \in Nat /\ t[Len(s) + 1] = x /\ \A i \in 1..Len(s) : t[i] = s[i]
  BY <1>1
<1>3. DOMAIN t = 1..(Len(s) + 1) /\ DOMAIN s = 1..Len(s)
  BY <1>1, <1>2
<1>4. Range(t) = Range(s) \union {x}
  <2> HIDE DEF t
  <2> QED BY <1>2, <1>3 DEF Range
<1>5. IsSeq(t)
  BY <1>2, ElementsSeq, Zenon
<1> QED BY <1>4, <1>5

LEMMA SeqConcat ==
  ASSUME NEW s, IsSeq(s), NEW t, IsSeq(t)
  PROVE  IsSeq(s \o t) /\ Range(s \o t) = Range(s) \union Range(t)
<1> DEFINE S == Range(s) \union Range(t)
           u == s \o t
<1>1. s \in Seq(S) /\ t \in Seq(S)
  BY DEF IsSeq
<1>2. u \in Seq(S) /\ Len(u) = Len(s) + Len(t) /\ Len(s) \in Nat /\ Len(t) \in Nat
  BY <1>1
<1>3. \A i \in 1..Len(u) : u[i] = IF i <= Len(s) THEN s[i] ELSE t[i - Len(s)]
  BY <1>1, <1>2
<1>4. DOMAIN u = 1..(Len(s) + Len(t)) /\ DOMAIN s = 1..Len(s) /\ DOMAIN t = 1..Len(t)
  BY <1>1, <1>2
<1> HIDE DEF u
<1>5. Range(u) \subseteq Range(s) \union Range(t)
  BY <1>2, ElementsSeq, <1>4 DEF Range
<1>6. Range(s) \subseteq Range(u)
  <2>1. \A i \in DOMAIN s : i \in DOMAIN u /\ u[i] = s[i]
    BY <1>2, <1>3, <1>4
  <2> QED BY <2>1 DEF Range
<1>7. Range(t) \subseteq Range(u)
  <2>1. \A i \in DOMAIN t : i + Len(s) \in DOMAIN u /\ u[i + Len(s)] = t[i]
    BY <1>2, <1>3, <1>4
  <2> QED BY <2>1 DEF Range
<1>8. IsSeq(u)
  BY <1>2, ElementsSeq
<1> QED BY <1>5, <1>6, <1>7, <1>8 DEF u

(* A function on the positions of a list is a list. *)
LEMMA SeqOver ==
  ASSUME NEW s, IsSeq(s), NEW t, t = [i \in DOMAIN s |-> t[i]]
  PROVE  IsSeq(t)
<1>1. DOMAIN s = 1..Len(s) /\ Len(s) \in Nat
  BY DEF IsSeq
<1>2. DOMAIN t = 1..Len(s) /\ \A i \in 1..Len(s) : t[i] \in Range(t)
  BY <1>1 DEF Range
<1>3. t \in [1..Len(s) -> Range(t)]
  BY <1>1, <1>2
<1> QED BY <1>1, <1>3 DEF IsSeq

LEMMA SeqEmpty == IsSeq(<<>>) /\ Range(<<>>) = {}
BY DEF IsSeq, Range

-----------------------------------------------------------------------------
(* Conditions of proxies *)

(* A condition for none of the two reasons that are found without looking   *)
(* at a proxy itself: only MarkOrphaned and ValidHTTPProxies set those.     *)
OwnReason(reason) == reason \notin {"Orphaned", "DuplicateVhost"}
OwnCondition(cond) == DOMAIN cond = {"errors", "warnings"} /\ \A reason \in cond.errors : OwnReason(reason)

LEMMA OwnConditionAdds ==
  /\ OwnCondition(ValidCondition)
  /\ \A cond, reason : OwnCondition(cond) => /\ OwnReason(reason) => OwnCondition(AddError(cond, reason))
                                           /\ OwnCondition(AddWarning(cond, reason))
BY DEF OwnCondition, ValidCondition, AddError, AddWarning

(* The reasons that the steps of the processor give. *)
LEMMA OwnReasons ==
  /\ OwnReason("ServicePortInvalid") /\ OwnReason("ServiceUnresolvedReference")
  /\ OwnReason("UnsupportedProtocol") /\ OwnReason("CACertificateNotDelegated") /\ OwnReason("TLSUpstreamValidation")
  /\ OwnReason("RequestHeadersPolicyInvalid") /\ OwnReason("ResponseHeadersPolicyInvalid")
  /\ OwnReason("ResponseHeaderPolicyInvalid") /\ OwnReason("CookieRewritePoliciesInvalid")
  /\ OwnReason("SecretNotValid") /\ OwnReason("OnlyOneMirror") /\ OwnReason("PathMatchConditionsNotValid")
  /\ OwnReason("HeaderMatchConditionsNotValid") /\ OwnReason("NoServicesPresent")
  /\ OwnReason("TimeoutPolicyNotValid") /\ OwnReason("RateLimitPolicyNotValid") /\ OwnReason("DuplicateReplacement")
  /\ OwnReason("IncludeNotFound") /\ OwnReason("RootIncludesRoot") /\ OwnReason("IncludeCreatesCycle")
  /\ OwnReason("DuplicateMatchConditions") /\ OwnReason("PolicyDidNotParse")
  /\ OwnReason("FQDNNotSpecified") /\ OwnReason("RootProxyNotAllowedInNamespace") /\ OwnReason("NothingDefined")
BY DEF OwnReason

-----------------------------------------------------------------------------
(* The services of a route *)

VisitFields ==
  {"routes", "route", "reqHP", "lb", "health", "cond", "dyn", "failed", "commits", "freed"}
RouteFields ==
  {"match", "headers", "clusters", "mirror", "upgrade", "websocket", "rewrite", "authDisabled", "direct",
   "redirect", "policies", "owner", "ownerKind"}

(* A list of clusters, whose weights are natural numbers. *)
Weighed(clusters) == IsSeq(clusters) /\ \A c \in Range(clusters) : c.weight \in Nat

(* Clusters for services of one namespace. *)
ClustersIn(ns, clusters) == Weighed(clusters) /\ \A c \in Range(clusters) : c.service[1] = ns

(* The loop over services adds clusters to the route and leaves alone what  *)
(* else the properties are about.                                           *)
ServiceStep(ns, before, r, s, acc, service) == ComputeService(ns, acc, service)
ServiceInv(ns, before, r, s, acc) ==
  /\ DOMAIN acc = VisitFields /\ DOMAIN acc.route = RouteFields
  /\ acc.routes = before.routes /\ acc.commits = before.commits /\ acc.freed = before.freed
  /\ OwnCondition(acc.cond)
  /\ acc.route.upgrade = before.route.upgrade
  /\ acc.route.direct = before.route.direct /\ acc.route.redirect = before.route.redirect
  /\ acc.route.owner = before.route.owner /\ acc.route.ownerKind = before.route.ownerKind
  /\ ClustersIn(ns, acc.route.clusters)
Services == INSTANCE Loops WITH Step <- ServiceStep, Inv <- ServiceInv

(* What the weight of a service becomes in 32 bits. *)
LEMMA WordWeight ==
  ASSUME NEW w \in Int
  PROVE  w % Word \in Nat
BY WordAssumption

(* A service that is found is of the namespace it is looked up in. *)
LEMMA ServiceClusterIn ==
  ASSUME NEW ns, NEW service, service.weight \in Int, NEW acc, NEW reqHP, NEW port,
         NEW found, found = EnsureService(source, <<ns, service.name>>, port, config.enableExternalName),
         found # Failed
  PROVE  LET c == ServiceCluster(ns, service, found, acc, reqHP) IN c.service[1] = ns /\ c.weight \in Nat
<1> DEFINE c == ServiceCluster(ns, service, found, acc, reqHP)
           weight == service.weight % Word
<1>1. found.name = <<ns, service.name>>
  BY DEF EnsureService
<1>2. weight \in Nat
  BY WordWeight
<1> HIDE DEF weight
<1>3. c.service = found.name /\ c.weight = weight
  BY DEF ServiceCluster, Cluster, weight
<1> HIDE DEF c
<1>4. c.service[1] = ns /\ c.weight \in Nat
  BY <1>1, <1>2, <1>3
<1> QED BY <1>4 DEF c

LEMMA ComputeServiceKeeps ==
  ASSUME NEW ns, NEW before, NEW acc, NEW service, service.weight \in Int, ServiceInv(ns, before, Nil, Nil, acc)
  PROVE  ServiceInv(ns, before, Nil, Nil, ComputeService(ns, acc, service))
<1> DEFINE port == [number |-> service.port, name |-> ""]
           found == EnsureService(source, <<ns, service.name>>, port, config.enableExternalName)
           dyn == Put(Put(acc.dyn, "SERVICE_NAME", service.name), "SERVICE_PORT", ToString(service.port))
           reqHP == HeadersPolicyService(config.reqHeaders, service.reqHeaders, dyn)
           at == [acc EXCEPT !.dyn = dyn]
           cluster == ServiceCluster(ns, service, found, acc, reqHP)
           done == ComputeService(ns, acc, service)
           added == Append(acc.route.clusters, cluster)
<1>1. \/ done = acc
      \/ \E reason : OwnReason(reason) /\ (done = Fail(acc, reason) \/ done = Fail(at, reason))
      \/ done = [acc EXCEPT !.cond = AddError(@, "ServiceUnresolvedReference")]
      \/ done = [at EXCEPT !.route = [at.route EXCEPT !.mirror = cluster]]
      \/ found # Failed /\ done = [at EXCEPT !.route = [at.route EXCEPT !.clusters = Append(at.route.clusters, cluster)]]
  <2>1. ServiceError(ns, service, found) # Nil => OwnReason(ServiceError(ns, service, found))
    BY OwnReasons, Zenon DEF ServiceError
  <2> QED BY <2>1, OwnReasons, Zenon DEF ComputeService
<1>2. found # Failed => ClustersIn(ns, added)
  <2> SUFFICES ASSUME found # Failed PROVE ClustersIn(ns, added)
    BY Zenon
  <2>1. cluster.service[1] = ns /\ cluster.weight \in Nat
    <3>1. found = EnsureService(source, <<ns, service.name>>, port, config.enableExternalName)
      BY Zenon
    <3> HIDE DEF found, port, reqHP
    <3> QED BY <3>1, ServiceClusterIn
  <2>2. IsSeq(acc.route.clusters) /\ \A c \in Range(acc.route.clusters) : c.service[1] = ns /\ c.weight \in Nat
    BY Zenon DEF ServiceInv, ClustersIn, Weighed
  <2> HIDE DEF cluster, found
  <2>3. IsSeq(added) /\ Range(added) = Range(acc.route.clusters) \union {cluster}
    BY <2>2, SeqAppend
  <2> HIDE DEF added
  <2> QED BY <2>1, <2>2, <2>3 DEF ClustersIn, Weighed
<1> SUFFICES ServiceInv(ns, before, Nil, Nil, done)
  OBVIOUS
<1> HIDE DEF cluster, found, dyn, done
<1>3. CASE \E reason : OwnReason(reason) /\ (done = Fail(acc, reason) \/ done = Fail(at, reason))
  <2>1. PICK reason : OwnReason(reason) /\ (done = Fail(acc, reason) \/ done = Fail(at, reason))
    BY <1>3, Zenon
  <2>2. OwnCondition(AddError(acc.cond, reason))
    BY <2>1, OwnConditionAdds DEF ServiceInv
  <2>3. at.cond = acc.cond
    BY DEF ServiceInv, VisitFields
  <2> QED BY <2>1, <2>2, <2>3, Zenon DEF ServiceInv, Fail, VisitFields
<1>4. CASE done = [acc EXCEPT !.cond = AddError(@, "ServiceUnresolvedReference")]
  <2>1. OwnCondition(AddError(acc.cond, "ServiceUnresolvedReference"))
    BY OwnReasons, OwnConditionAdds DEF ServiceInv
  <2> QED BY <1>4, <2>1 DEF ServiceInv, VisitFields
<1>5. CASE done = [at EXCEPT !.route = [at.route EXCEPT !.mirror = cluster]]
  BY <1>5 DEF ServiceInv, VisitFields, RouteFields
<1>6. CASE found # Failed /\ done = [at EXCEPT !.route = [at.route EXCEPT !.clusters = Append(at.route.clusters, cluster)]]
  BY <1>2, <1>6, Zenon DEF ServiceInv, VisitFields, RouteFields
<1> QED BY <1>1, <1>3, <1>4, <1>5, <1>6

LEMMA ServicesKeep ==
  ASSUME NEW ns, NEW before, ServiceInv(ns, before, Nil, Nil, before), NEW services, ServicesWellFormed(services)
  PROVE  ServiceInv(ns, before, Nil, Nil, Services!Loop(ns, before, Nil, Nil, before, services))
<1>1. services \in Seq(Range(services)) /\ \A i \in DOMAIN services : services[i].weight \in Int
  BY DEF IsSeq, ServicesWellFormed, Range
<1>2. \A acc : \A i \in DOMAIN services :
        ServiceInv(ns, before, Nil, Nil, acc) => ServiceInv(ns, before, Nil, Nil, ServiceStep(ns, before, Nil, Nil, acc, services[i]))
  BY <1>1, ComputeServiceKeeps DEF ServiceStep
<1> QED BY <1>1, <1>2, Services!LoopKeeps

-----------------------------------------------------------------------------
(* The routes of a proxy *)

Permits(p) == \E r \in Range(Proxies[p].routes) : r.permitInsecure

(* TLS is enforced as the virtual host of a root asks. *)
AsAsked(enforceTLS, p) == IsRoot(p) /\ Proxies[p].vhost.tls # Nil => enforceTLS

(* A route that neither answers by itself nor redirects has a cluster. *)
Answered(x) == x.direct # Nil \/ x.redirect \/ x.clusters # <<>>

(* What every route that the visits to proxies make satisfies: its services *)
(* are of the namespace of the proxy it comes from and, if the root has     *)
(* TLS, it is served in the clear only as its proxy permits, or to say that *)
(* an include is not found.                                                 *)
RouteSound(enforceTLS, x) ==
  /\ DOMAIN x = RouteFields
  /\ x.owner \in DOMAIN Proxies /\ x.ownerKind = "HTTPProxy" /\ AsAsked(enforceTLS, x.owner)
  /\ ClustersIn(x.owner[1], x.clusters) /\ Answered(x)
  /\ (enforceTLS /\ ~x.upgrade) =>
       (Permits(x.owner) /\ ~config.disablePermitInsecure) \/ (x.clusters = <<>> /\ x.direct = 502)
RoutesSound(enforceTLS, routes) == IsSeq(routes) /\ \A x \in Range(routes) : RouteSound(enforceTLS, x)

(* What a visit commits are statuses of proxies that are not roots. *)
CommitsSound(commits) ==
  IsSeq(commits) /\ \A c \in Range(commits) : c.proxy \in DOMAIN Proxies /\ ~IsRoot(c.proxy) /\ OwnCondition(c.cond)
VisitSound(enforceTLS, acc) ==
  /\ DOMAIN acc = VisitFields /\ CommitsSound(acc.commits) /\ OwnCondition(acc.cond)
  /\ RoutesSound(enforceTLS, acc.routes)

RouteStep(root, v, enforceTLS, before, acc, route) == ComputeRoute(root, v.proxy, v.conds, enforceTLS, acc, route)
RouteInv(root, v, enforceTLS, before, acc) ==
  VisitSound(enforceTLS, acc) /\ acc.commits = before.commits /\ acc.freed = before.freed
Routes == INSTANCE Loops WITH Step <- RouteStep, Inv <- RouteInv

LEMMA ComputeRouteKeeps ==
  ASSUME NEW root, NEW p \in DOMAIN Proxies, NEW conds, NEW enforceTLS, AsAsked(enforceTLS, p),
         NEW acc, VisitSound(enforceTLS, acc),
         NEW route \in Range(Proxies[p].routes), ServicesWellFormed(route.services)
  PROVE  LET done == ComputeRoute(root, p, conds, enforceTLS, acc, route)
         IN  VisitSound(enforceTLS, done) /\ done.commits = acc.commits /\ done.freed = acc.freed
<1> DEFINE merged == conds \o route.conditions
           path == MergePathMatchConditions(merged)
           reqHP == HeadersPolicyRoute(route.reqHeaders, TRUE, acc.dyn)
           respHP == HeadersPolicyRoute(route.respHeaders, FALSE, acc.dyn)
           lb == LoadBalancerRequestHashPolicies(route.lb)
           host == Proxies[root].vhost.fqdn
           policies == [reqHP |-> reqHP, respHP |-> respHP, timeout |-> TimeoutPolicy(route.timeout),
                      retry |-> RetryPolicy(route.retry),
                      rateLimit |-> RateLimitPolicy(route.rateLimit, Word),
                      hash |-> lb.policies, lb |-> lb.strategy]
           permit == route.permitInsecure /\ ~config.disablePermitInsecure
           start == [Route EXCEPT
             !.match = PrefixMatch(path, "string"),
             !.headers = MergeHeaderMatchConditions(merged),
             !.upgrade = RouteEnforceTLS(enforceTLS, permit),
             !.redirect = route.redirect,
             !.authDisabled = AuthDisabled(root, route),
             !.rewrite = PrefixRewrite(path, route.replace),
             !.websocket = route.websocket,
             !.policies = policies,
             !.owner = p, !.ownerKind = "HTTPProxy"]
           health == HealthCheckPolicy("http", route.health)
           begun == [acc EXCEPT !.route = start, !.reqHP = reqHP, !.lb = lb.strategy, !.health = health,
                                !.cond = IF lb.warn THEN AddWarning(@, "IgnoredField") ELSE @]
           served == FoldLeft(LAMBDA a, s : ComputeService(p[1], a, s), begun, route.services)
           error == RouteError(route, merged, reqHP, respHP)
           Finish(x) ==
             IF x.failed THEN x
             ELSE [x EXCEPT !.routes = Append(@, [x.route EXCEPT
                    !.direct = IF @ = Nil /\ x.route.clusters = <<>> /\ ~route.redirect THEN 503 ELSE @,
                    !.headers = IF IsWildcard(host) THEN Append(@, WildcardDomainHeaderMatch(host)) ELSE @])]
           done == ComputeRoute(root, p, conds, enforceTLS, acc, route)
           Answers(d) == d # Nil \/ route.redirect \/ served.route.clusters # <<>>
<1>0. done = IF acc.failed THEN acc
             ELSE IF error # Nil THEN Fail(acc, error)
             ELSE IF ~PrefixReplacementsAreValid(route.replace) THEN Fail(begun, "DuplicateReplacement")
             ELSE Finish(served)
  BY DEF ComputeRoute
<1>s. served = Services!Loop(p[1], begun, Nil, Nil, begun, route.services)
  BY DEF Services!Loop, FoldLeft, MapThenFoldSet, Services!Last, Max, ServiceStep
<1>1. \/ done = acc
      \/ \E reason : OwnReason(reason) /\ (done = Fail(acc, reason) \/ done = Fail(begun, reason))
      \/ done = served
      \/ \E d, h : Answers(d) /\ done = [served EXCEPT !.routes = Append(served.routes, [served.route EXCEPT !.direct = d, !.headers = h])]
  <2> DEFINE d == IF served.route.direct = Nil /\ served.route.clusters = <<>> /\ ~route.redirect
                  THEN 503 ELSE served.route.direct
             h == IF IsWildcard(host) THEN Append(served.route.headers, WildcardDomainHeaderMatch(host))
                  ELSE served.route.headers
  <2> HIDE DEF done, error, begun, served
  <2>1. \/ Finish(served) = served
        \/ Finish(served) = [served EXCEPT !.routes = Append(served.routes, [served.route EXCEPT !.direct = d, !.headers = h])]
    OBVIOUS
  <2>2. error # Nil => OwnReason(error)
    BY OwnReasons, Zenon DEF error, RouteError
  <2>3. Answers(d)
    BY StatusCodesAssumption
  <2> HIDE DEF Finish, d, h, Answers
  <2> QED BY <1>0, <2>1, <2>2, <2>3, OwnReasons, Zenon
<1>2. /\ DOMAIN start = RouteFields /\ start.clusters = <<>> /\ start.owner = p /\ start.ownerKind = "HTTPProxy"
      /\ start.upgrade = RouteEnforceTLS(enforceTLS, permit) /\ start.redirect = route.redirect
  BY Zenon DEF Route, RouteFields
<1> HIDE DEF start, reqHP, lb, health, permit, error, done, served
<1>3. /\ DOMAIN begun = VisitFields /\ begun.route = start /\ begun.routes = acc.routes /\ begun.commits = acc.commits
      /\ begun.freed = acc.freed /\ OwnCondition(begun.cond)
  <2>1. OwnCondition(AddWarning(acc.cond, "IgnoredField")) /\ OwnCondition(acc.cond)
    BY OwnConditionAdds DEF VisitSound
  <2> QED BY <2>1 DEF VisitSound, VisitFields
<1> HIDE DEF begun
<1>4. ServiceInv(p[1], begun, Nil, Nil, begun)
  BY <1>2, <1>3, SeqEmpty DEF ServiceInv, ClustersIn, Weighed
<1>5. ServiceInv(p[1], begun, Nil, Nil, served)
  BY <1>s, <1>4, ServicesKeep
<1>6. /\ DOMAIN served = VisitFields /\ DOMAIN served.route = RouteFields
      /\ served.routes = acc.routes /\ served.commits = acc.commits /\ served.freed = acc.freed
      /\ OwnCondition(served.cond)
      /\ served.route.upgrade = RouteEnforceTLS(enforceTLS, permit)
      /\ served.route.owner = p /\ served.route.ownerKind = "HTTPProxy" /\ served.route.redirect = route.redirect
      /\ ClustersIn(p[1], served.route.clusters)
  BY <1>2, <1>3, <1>5 DEF ServiceInv
<1>7. (enforceTLS /\ ~served.route.upgrade) => Permits(p) /\ ~config.disablePermitInsecure
  BY <1>6, Zenon DEF RouteEnforceTLS, permit, Permits
<1>8. ASSUME NEW d, Answers(d), NEW h PROVE RouteSound(enforceTLS, [served.route EXCEPT !.direct = d, !.headers = h])
  BY <1>6, <1>7, <1>8 DEF RouteSound, RouteFields, Answered
<1> SUFFICES VisitSound(enforceTLS, done) /\ done.commits = acc.commits /\ done.freed = acc.freed
  BY DEF done
<1>9. CASE \E reason : OwnReason(reason) /\ (done = Fail(acc, reason) \/ done = Fail(begun, reason))
  <2>1. PICK reason : OwnReason(reason) /\ (done = Fail(acc, reason) \/ done = Fail(begun, reason))
    BY <1>9, Zenon
  <2>2. OwnCondition(AddError(acc.cond, reason)) /\ OwnCondition(AddError(begun.cond, reason))
    BY <1>3, <2>1, OwnConditionAdds DEF VisitSound
  <2> QED BY <1>3, <2>1, <2>2, Zenon DEF VisitSound, Fail, VisitFields
<1>10. CASE done = served
  BY <1>6, <1>10 DEF VisitSound
<1>11. CASE \E d, h : Answers(d) /\ done = [served EXCEPT !.routes = Append(served.routes, [served.route EXCEPT !.direct = d, !.headers = h])]
  <2>1. PICK d, h : Answers(d) /\ done = [served EXCEPT !.routes = Append(served.routes, [served.route EXCEPT !.direct = d, !.headers = h])]
    BY <1>11, Zenon
  <2> DEFINE x == [served.route EXCEPT !.direct = d, !.headers = h]
  <2>2. RouteSound(enforceTLS, x)
    BY <1>8, <2>1, Zenon
  <2> HIDE DEF x
  <2>3. RoutesSound(enforceTLS, Append(acc.routes, x))
    BY <2>2, SeqAppend DEF VisitSound, RoutesSound
  <2>4. /\ DOMAIN done = VisitFields /\ done.routes = Append(acc.routes, x) /\ done.commits = acc.commits
        /\ done.freed = acc.freed /\ done.cond = served.cond
    BY <1>6, <2>1 DEF x, VisitFields
  <2> QED BY <1>6, <2>3, <2>4 DEF VisitSound
<1> QED BY <1>1, <1>9, <1>10, <1>11, Zenon

LEMMA RoutesKeep ==
  ASSUME ProxiesWellFormed, NEW root, NEW v, v.proxy \in DOMAIN Proxies, NEW enforceTLS, AsAsked(enforceTLS, v.proxy),
         NEW acc, VisitSound(enforceTLS, acc)
  PROVE  RouteInv(root, v, enforceTLS, acc, Routes!Loop(root, v, enforceTLS, acc, acc, Proxies[v.proxy].routes))
<1> DEFINE routes == Proxies[v.proxy].routes
<1>1. routes \in Seq(Range(routes)) /\ \A r \in Range(routes) : ServicesWellFormed(r.services)
  BY DEF IsSeq, ProxiesWellFormed
<1>2. \A a : \A i \in DOMAIN routes :
        RouteInv(root, v, enforceTLS, acc, a) => RouteInv(root, v, enforceTLS, acc, RouteStep(root, v, enforceTLS, acc, a, routes[i]))
  <2> SUFFICES ASSUME NEW a, NEW i \in DOMAIN routes, VisitSound(enforceTLS, a)
               PROVE  LET done == ComputeRoute(root, v.proxy, v.conds, enforceTLS, a, routes[i])
                      IN  VisitSound(enforceTLS, done) /\ done.commits = a.commits /\ done.freed = a.freed
    BY DEF RouteInv, RouteStep
  <2>1. routes[i] \in Range(routes) /\ ServicesWellFormed(routes[i].services)
    BY <1>1 DEF Range
  <2> QED BY <2>1, ComputeRouteKeeps
<1>3. RouteInv(root, v, enforceTLS, acc, Routes!Loop(root, v, enforceTLS, acc, acc, routes))
  <2>1. RouteInv(root, v, enforceTLS, acc, acc)
    BY DEF RouteInv
  <2> HIDE DEF routes
  <2> QED BY <1>1, <1>2, <2>1, Routes!LoopKeeps
<1> QED BY <1>3

-----------------------------------------------------------------------------
(* Prefixes with a slash *)

(* The second routes for prefixes with a slash are made of routes there are. *)
Expands(routes, r) ==
  /\ Cardinality({i \in DOMAIN routes : TrimSlash(routes[i].match.path) = TrimSlash(r.match.path)}) = 1
  /\ r.rewrite # Nil /\ r.match.path # RootPath
ExpandStep(routes, q, r, s, kept, x) == IF Expands(routes, x) THEN Append(kept, x) ELSE kept
ExpandInv(routes, q, r, s, kept) == IsSeq(kept) /\ Range(kept) \subseteq Range(routes)
Expanded == INSTANCE Loops WITH Step <- ExpandStep, Inv <- ExpandInv

LEMMA ExpandKeeps ==
  ASSUME NEW enforceTLS, NEW routes, RoutesSound(enforceTLS, routes)
  PROVE  RoutesSound(enforceTLS, ExpandPrefixMatches(routes))
<1> DEFINE Without(r) == [r EXCEPT !.match.path = TrimSlash(@), !.rewrite = TrimSlash(@)]
           With(r) == [r EXCEPT !.match.path = Path(@.segs, TRUE), !.rewrite = Path(@.segs, TRUE)]
           kept == [i \in DOMAIN routes |-> IF Expands(routes, routes[i]) THEN Without(routes[i]) ELSE routes[i]]
           expanded == Expanded!Loop(routes, Nil, Nil, Nil, <<>>, routes)
           more == [i \in DOMAIN expanded |-> With(expanded[i])]
<1>1. ExpandPrefixMatches(routes) = kept \o more
  BY DEF ExpandPrefixMatches, Collect, Expands, Expanded!Loop, FoldLeft, MapThenFoldSet, Expanded!Last, Max,
         ExpandStep
<1>2. IsSeq(routes) /\ \A x \in Range(routes) : RouteSound(enforceTLS, x)
  BY DEF RoutesSound
<1>3. ExpandInv(routes, Nil, Nil, Nil, expanded)
  <2>1. routes \in Seq(Range(routes))
    BY <1>2 DEF IsSeq
  <2>2. ExpandInv(routes, Nil, Nil, Nil, <<>>)
    BY SeqEmpty DEF ExpandInv
  <2>3. \A acc : \A i \in DOMAIN routes :
          ExpandInv(routes, Nil, Nil, Nil, acc) => ExpandInv(routes, Nil, Nil, Nil, ExpandStep(routes, Nil, Nil, Nil, acc, routes[i]))
    <3> SUFFICES ASSUME NEW acc, NEW i \in DOMAIN routes, IsSeq(acc), Range(acc) \subseteq Range(routes)
                 PROVE  IsSeq(Append(acc, routes[i])) /\ Range(Append(acc, routes[i])) \subseteq Range(routes)
      BY DEF ExpandInv, ExpandStep
    <3>1. routes[i] \in Range(routes)
      BY DEF Range
    <3> QED BY <3>1, SeqAppend
  <2> QED BY <2>1, <2>2, <2>3, Expanded!LoopKeeps
<1> HIDE DEF expanded
<1>4. IsSeq(expanded) /\ \A i \in DOMAIN expanded : RouteSound(enforceTLS, expanded[i])
  <2>1. \A i \in DOMAIN expanded : expanded[i] \in Range(expanded)
    BY DEF Range
  <2> QED BY <1>2, <1>3, <2>1 DEF ExpandInv
<1>5. \A i \in DOMAIN routes : RouteSound(enforceTLS, routes[i])
  BY <1>2 DEF Range
<1>6. ASSUME NEW x, RouteSound(enforceTLS, x), NEW m, NEW w
      PROVE  RouteSound(enforceTLS, [x EXCEPT !.match = m, !.rewrite = w])
  BY <1>6 DEF RouteSound, RouteFields, Answered
<1>7. RoutesSound(enforceTLS, kept)
  <2>1. \A i \in DOMAIN kept : RouteSound(enforceTLS, kept[i])
    <3> SUFFICES ASSUME NEW i \in DOMAIN routes PROVE RouteSound(enforceTLS, Without(routes[i]))
      BY <1>5, Zenon
    <3>1. Without(routes[i]) = [routes[i] EXCEPT !.match = [routes[i].match EXCEPT !.path = TrimSlash(@)], !.rewrite = TrimSlash(routes[i].rewrite)]
      OBVIOUS
    <3> QED BY <1>5, <1>6, <3>1, Zenon
  <2>2. kept = [i \in DOMAIN routes |-> kept[i]]
    OBVIOUS
  <2> HIDE DEF kept
  <2>3. IsSeq(kept)
    BY <1>2, <2>2, SeqOver
  <2> QED BY <2>1, <2>3 DEF RoutesSound, Range
<1>8. RoutesSound(enforceTLS, more)
  <2>1. \A i \in DOMAIN more : RouteSound(enforceTLS, more[i])
    <3> SUFFICES ASSUME NEW i \in DOMAIN expanded PROVE RouteSound(enforceTLS, With(expanded[i]))
      BY Zenon
    <3>1. With(expanded[i]) = [expanded[i] EXCEPT !.match = [expanded[i].match EXCEPT !.path = Path(@.segs, TRUE)],
                                                  !.rewrite = Path(expanded[i].rewrite.segs, TRUE)]
      OBVIOUS
    <3> QED BY <1>4, <1>6, <3>1, Zenon
  <2>2. more = [i \in DOMAIN expanded |-> more[i]]
    OBVIOUS
  <2> HIDE DEF more
  <2>3. IsSeq(more)
    BY <1>4, <2>2, SeqOver
  <2> QED BY <2>1, <2>3 DEF RoutesSound, Range
<1> HIDE DEF kept, more
<1>9. RoutesSound(enforceTLS, kept \o more)
  BY <1>7, <1>8, SeqConcat DEF RoutesSound
<1> QED BY <1>1, <1>9

-----------------------------------------------------------------------------
(* Includes *)

(* The visit that an include leads to. *)
ChildVisit(v, include) ==
  [proxy |-> include.target, conds |-> v.conds \o include.conditions, visited |-> Append(v.visited, v.proxy)]

(* The proxies that a visit takes from the orphaned ones are below its      *)
(* proxy and, but for those whose includes are followed elsewhere, have     *)
(* all their children among them.                                           *)
FreedSound(v, freed) ==
  LET elsewhere == Range(v.visited) \union {v.proxy}
  IN  /\ \A S : ClosedBelow(v.proxy, S) => freed \subseteq S
      /\ \A q \in freed \ elsewhere : Children(q) \subseteq freed \union elsewhere
FreedAll(v, freed) ==
  FreedSound(v, freed) /\ (v.proxy \notin Range(v.visited) => Children(v.proxy) \subseteq freed)

LEMMA FreedByInclude ==
  ASSUME NEW v, IsSeq(v.visited), NEW include, include.target \in Children(v.proxy),
         NEW freed, FreedSound(v, freed), NEW below, FreedAll(ChildVisit(v, include), below)
  PROVE  FreedSound(v, freed \union below \union {include.target})
<1> DEFINE child == include.target
           w == ChildVisit(v, include)
           elsewhere == Range(v.visited) \union {v.proxy}
           all == freed \union below \union {child}
<1>1. w.proxy = child /\ Range(w.visited) = elsewhere
  BY SeqAppend DEF ChildVisit
<1> HIDE DEF w
<1>2. ASSUME NEW S, ClosedBelow(v.proxy, S) PROVE all \subseteq S
  <2>1. child \in S /\ ClosedBelow(child, S)
    BY <1>2 DEF ClosedBelow
  <2>2. freed \subseteq S
    BY <1>2 DEF FreedSound
  <2>3. below \subseteq S
    BY <1>1, <2>1 DEF FreedAll, FreedSound, w
  <2> QED BY <2>1, <2>2, <2>3
<1>3. ASSUME NEW q \in all \ elsewhere PROVE Children(q) \subseteq all \union elsewhere
  <2>1. CASE q \in freed
    BY <1>3, <2>1 DEF FreedSound
  <2>2. CASE q = child
    BY <1>1, <1>3, <2>2 DEF FreedAll, w
  <2>3. CASE q \in below /\ q # child
    <3>1. q \in below \ (Range(w.visited) \union {w.proxy})
      BY <1>1, <1>3, <2>3
    <3>2. Children(q) \subseteq below \union (Range(w.visited) \union {w.proxy})
      BY <3>1 DEF FreedAll, FreedSound, w
    <3> QED BY <1>1, <3>2
  <2> QED BY <1>3, <2>1, <2>2, <2>3
<1> QED BY <1>2, <1>3 DEF FreedSound

(* Proxies of which each has a child among them, as on a cycle of includes: *)
(* once a visit has come by one of them, an error is committed for one.     *)
Looping(C) == \A q \in C : Children(q) \cap C # {}
Reports(commits, C) == \E c \in Range(commits) : c.proxy \in C /\ c.cond.errors # {}
CyclesFound(freed, commits) == \A C : Looping(C) /\ freed \cap C # {} => Reports(commits, C)
CyclesSeen(v, acc) ==
  /\ CyclesFound(acc.freed, acc.commits)
  /\ \A C : Looping(C) /\ v.proxy \in C => acc.cond.errors # {} \/ Reports(acc.commits, C)

LEMMA CyclesByInclude ==
  ASSUME NEW freed, NEW commits, IsSeq(commits), CyclesFound(freed, commits),
         NEW w, NEW below, IsSeq(below.commits), CyclesSeen(w, below)
  PROVE  CyclesFound(freed \union below.freed \union {w.proxy},
                     Append(commits \o below.commits, [proxy |-> w.proxy, cond |-> below.cond]))
<1> DEFINE c == [proxy |-> w.proxy, cond |-> below.cond]
           all == Append(commits \o below.commits, c)
<1>1. c.proxy = w.proxy /\ c.cond = below.cond
  OBVIOUS
<1> HIDE DEF c
<1>2. Range(all) = Range(commits) \union Range(below.commits) \union {c}
  BY SeqAppend, SeqConcat
<1> HIDE DEF all
<1>3. ASSUME NEW C, Looping(C), (freed \union below.freed \union {w.proxy}) \cap C # {}
      PROVE  Reports(all, C)
  <2>1. CASE freed \cap C # {}
    BY <1>2, <1>3, <2>1 DEF CyclesFound, Reports
  <2>2. CASE below.freed \cap C # {}
    BY <1>2, <1>3, <2>2 DEF CyclesSeen, CyclesFound, Reports
  <2>3. CASE w.proxy \in C
    BY <1>1, <1>2, <1>3, <2>3 DEF CyclesSeen, Reports
  <2> QED BY <1>3, <2>1, <2>2, <2>3
<1>4. CyclesFound(freed \union below.freed \union {w.proxy}, all)
  BY <1>3 DEF CyclesFound
<1> QED BY <1>4 DEF all, c

(* An include that is followed. *)
Follows(include) ==
  /\ PathMatchConditionsValid(include.conditions) /\ HeaderMatchConditionsValid(include.conditions)
  /\ include.target \in DOMAIN Proxies /\ ~IsRoot(include.target)

LEMMA ChildrenFollowed ==
  ASSUME NEW p, ~IncludeMatchConditionsIdentical(Proxies[p].includes)
  PROVE  Children(p) = {i.target : i \in {i \in Range(Proxies[p].includes) : Follows(i)}}
BY DEF Children, Follows

IncludeStep(results, v, enforceTLS, S, acc, include) == ComputeInclude(results, v, acc, include)
IncludeInv(results, v, enforceTLS, S, acc) ==
  /\ VisitSound(enforceTLS, acc) /\ FreedSound(v, acc.freed) /\ CyclesFound(acc.freed, acc.commits)
  /\ S \subseteq acc.freed
Includes == INSTANCE Loops WITH Step <- IncludeStep, Inv <- IncludeInv

LEMMA ComputeIncludeKeeps ==
  ASSUME NEW results, NEW v, v.proxy \in DOMAIN Proxies, IsSeq(v.visited),
         ~IncludeMatchConditionsIdentical(Proxies[v.proxy].includes),
         NEW enforceTLS, AsAsked(enforceTLS, v.proxy),
         NEW acc, VisitSound(enforceTLS, acc), FreedSound(v, acc.freed), CyclesFound(acc.freed, acc.commits),
         NEW include \in Range(Proxies[v.proxy].includes),
         (include.target \in DOMAIN Proxies /\ ~IsRoot(include.target)) =>
           LET w == ChildVisit(v, include)
           IN  VisitSound(enforceTLS, results[w]) /\ FreedAll(w, results[w].freed) /\ CyclesSeen(w, results[w])
  PROVE  LET done == ComputeInclude(results, v, acc, include)
         IN  /\ VisitSound(enforceTLS, done) /\ FreedSound(v, done.freed) /\ CyclesFound(done.freed, done.commits)
             /\ acc.freed \subseteq done.freed /\ (Follows(include) => include.target \in done.freed)
<1> DEFINE child == include.target
           notFound == [Route EXCEPT
             !.match = PrefixMatch(MergePathMatchConditions(include.conditions), "string"),
             !.headers = MergeHeaderMatchConditions(include.conditions),
             !.direct = 502, !.owner = v.proxy, !.ownerKind = "HTTPProxy"]
           below == results[ChildVisit(v, include)]
           Error(reason) == [acc EXCEPT !.cond = AddError(@, reason)]
           done == ComputeInclude(results, v, acc, include)
           commits == Append(acc.commits \o below.commits, [proxy |-> child, cond |-> below.cond])
           freed == acc.freed \union below.freed \union {child}
           all == [acc EXCEPT !.routes = acc.routes \o below.routes, !.commits = commits, !.freed = freed]
<1>1. \/ ~Follows(include) /\ \E reason : OwnReason(reason) /\ done = Error(reason)
      \/ ~Follows(include) /\ done = [Error("IncludeNotFound") EXCEPT !.routes = acc.routes]
      \/ ~Follows(include) /\ done = [Error("IncludeNotFound") EXCEPT !.routes = Append(acc.routes, notFound)]
      \/ Follows(include) /\ done = all
  <2>1. ChildVisit(v, include) = [proxy |-> child, conds |-> v.conds \o include.conditions, visited |-> Append(v.visited, v.proxy)]
    BY DEF ChildVisit
  <2>2. done = IF ~PathMatchConditionsValid(include.conditions) THEN Error("PathMatchConditionsNotValid")
      ELSE IF ~HeaderMatchConditionsValid(include.conditions) THEN Error("HeaderMatchConditionsNotValid")
      ELSE IF child \notin DOMAIN Proxies
      THEN [Error("IncludeNotFound") EXCEPT
             !.routes = IF include.conditions = <<>> THEN @ ELSE Append(@, notFound)]
      ELSE IF IsRoot(child) THEN Error("RootIncludesRoot")
      ELSE [acc EXCEPT !.routes = @ \o below.routes,
                       !.commits = Append(@ \o below.commits, [proxy |-> child, cond |-> below.cond]),
                       !.freed = @ \union below.freed \union {child}]
    BY DEF ComputeInclude, ChildVisit
  <2>3. Error("IncludeNotFound").routes = acc.routes
    OBVIOUS
  <2> HIDE DEF done, notFound, below, Error, all
  <2> QED BY <2>2, <2>3, OwnReasons, Zenon DEF Follows, all
<1> SUFFICES /\ VisitSound(enforceTLS, done) /\ FreedSound(v, done.freed) /\ CyclesFound(done.freed, done.commits)
             /\ acc.freed \subseteq done.freed /\ (Follows(include) => child \in done.freed)
  OBVIOUS
<1>2. RouteSound(enforceTLS, notFound)
  BY SeqEmpty, StatusCodesAssumption DEF RouteSound, Route, RouteFields, ClustersIn, Weighed, Answered
<1>3. CommitsSound(acc.commits) /\ RoutesSound(enforceTLS, acc.routes) /\ DOMAIN acc = VisitFields /\ OwnCondition(acc.cond)
  BY DEF VisitSound
<1>4. RoutesSound(enforceTLS, Append(acc.routes, notFound))
  <2> HIDE DEF notFound
  <2> QED BY <1>2, <1>3, SeqAppend DEF RoutesSound
<1>5. CASE Follows(include) /\ done = all
  <2>1. VisitSound(enforceTLS, below) /\ FreedAll(ChildVisit(v, include), below.freed) /\ child \in DOMAIN Proxies /\ ~IsRoot(child)
    BY <1>5 DEF Follows
  <2>2. CommitsSound(below.commits) /\ RoutesSound(enforceTLS, below.routes) /\ OwnCondition(below.cond)
    BY <2>1 DEF VisitSound
  <2>3. FreedSound(v, freed)
    <3>1. child \in Children(v.proxy)
      BY <1>5, ChildrenFollowed
    <3> HIDE DEF below
    <3> QED BY <2>1, <3>1, FreedByInclude
  <2>c. CyclesFound(freed, commits)
    <3> DEFINE w == ChildVisit(v, include)
    <3>1. CyclesSeen(w, below) /\ w.proxy = child
      BY <1>5 DEF Follows, ChildVisit
    <3>2. IsSeq(acc.commits) /\ IsSeq(below.commits)
      BY <1>3, <2>2 DEF CommitsSound
    <3> HIDE DEF w, below, child
    <3>3. CyclesFound(acc.freed \union below.freed \union {w.proxy},
                      Append(acc.commits \o below.commits, [proxy |-> w.proxy, cond |-> below.cond]))
      BY <3>1, <3>2, CyclesByInclude
    <3> QED BY <3>1, <3>3
  <2> HIDE DEF below, child
  <2>4. CommitsSound(commits)
    <3> DEFINE c == [proxy |-> child, cond |-> below.cond]
    <3>1. c.proxy = child /\ c.cond = below.cond
      OBVIOUS
    <3> HIDE DEF c
    <3>2. IsSeq(Append(acc.commits \o below.commits, c))
          /\ Range(Append(acc.commits \o below.commits, c)) = Range(acc.commits) \union Range(below.commits) \union {c}
      BY <1>3, <2>2, SeqAppend, SeqConcat DEF CommitsSound
    <3>3. CommitsSound(Append(acc.commits \o below.commits, c))
      BY <1>3, <2>1, <2>2, <3>1, <3>2 DEF CommitsSound
    <3> QED BY <3>3 DEF c
  <2>5. RoutesSound(enforceTLS, acc.routes \o below.routes)
    BY <1>3, <2>2, SeqConcat DEF RoutesSound
  <2>6. /\ DOMAIN all = VisitFields /\ all.routes = acc.routes \o below.routes /\ all.commits = commits
        /\ all.freed = freed /\ all.cond = acc.cond
    BY <1>3, Zenon DEF VisitFields
  <2> HIDE DEF all, commits, done
  <2>7. VisitSound(enforceTLS, done)
    BY <1>3, <1>5, <2>4, <2>5, <2>6 DEF VisitSound
  <2> QED BY <1>5, <2>3, <2>c, <2>6, <2>7
<1> HIDE DEF done, notFound, all, child
<1>6. CASE ~Follows(include) /\ \E reason : OwnReason(reason) /\ done = Error(reason)
  <2>1. PICK reason : OwnReason(reason) /\ done = Error(reason)
    BY <1>6
  <2>2. OwnCondition(AddError(acc.cond, reason))
    BY <1>3, <2>1, OwnConditionAdds
  <2>3. /\ DOMAIN done = VisitFields /\ done.commits = acc.commits /\ done.routes = acc.routes /\ done.freed = acc.freed
        /\ done.cond = AddError(acc.cond, reason)
    BY <1>3, <2>1 DEF VisitFields
  <2> QED BY <1>3, <1>6, <2>2, <2>3 DEF VisitSound
<1>7. ASSUME ~Follows(include), NEW routes, RoutesSound(enforceTLS, routes), done = [Error("IncludeNotFound") EXCEPT !.routes = routes]
      PROVE  VisitSound(enforceTLS, done) /\ done.freed = acc.freed /\ done.commits = acc.commits
  <2>1. OwnCondition(AddError(acc.cond, "IncludeNotFound"))
    BY <1>3, OwnReasons, OwnConditionAdds
  <2>2. /\ DOMAIN done = VisitFields /\ done.commits = acc.commits /\ done.routes = routes /\ done.freed = acc.freed
        /\ done.cond = AddError(acc.cond, "IncludeNotFound")
    BY <1>3, <1>7 DEF VisitFields
  <2> QED BY <1>3, <1>7, <2>1, <2>2 DEF VisitSound
<1>8. CASE ~Follows(include) /\ done = [Error("IncludeNotFound") EXCEPT !.routes = acc.routes]
  BY <1>3, <1>7, <1>8
<1>9. CASE ~Follows(include) /\ done = [Error("IncludeNotFound") EXCEPT !.routes = Append(acc.routes, notFound)]
  BY <1>4, <1>7, <1>9
<1> QED BY <1>1, <1>5, <1>6, <1>8, <1>9 DEF all

(* The visits below a visit, as long as the includes have not led to a      *)
(* proxy again, have fewer proxies left to go to.                           *)
ProxiesLeft == [v \in Visits |-> Cardinality(DOMAIN Proxies \ Range(v.visited))]

LEMMA ProxiesLeftType ==
  ASSUME IsFiniteSet(DOMAIN Proxies)
  PROVE  Cardinality(DOMAIN Proxies) \in Nat /\ ProxiesLeft \in [Visits -> 0..Cardinality(DOMAIN Proxies)]
<1>1. Cardinality(DOMAIN Proxies) \in Nat
  BY FS_CardinalityType
<1>2. ASSUME NEW S PROVE Cardinality(DOMAIN Proxies \ S) \in 0..Cardinality(DOMAIN Proxies)
  <2>1. IsFiniteSet(DOMAIN Proxies \ S) /\ Cardinality(DOMAIN Proxies \ S) <= Cardinality(DOMAIN Proxies)
    <3>1. DOMAIN Proxies \ S \subseteq DOMAIN Proxies
      OBVIOUS
    <3> QED BY <3>1, FS_Subset
  <2>2. Cardinality(DOMAIN Proxies \ S) \in Nat
    BY <2>1, FS_CardinalityType
  <2> QED BY <1>1, <2>1, <2>2
<1> QED BY <1>1, <1>2 DEF ProxiesLeft

LEMMA ChildVisitSmaller ==
  ASSUME ProxiesWellFormed, NEW v \in Visits, NEW include \in Range(Proxies[v.proxy].includes),
         include.target \in DOMAIN Proxies, v.proxy \notin Range(v.visited)
  PROVE  ChildVisit(v, include) \in Visits /\ ProxiesLeft[ChildVisit(v, include)] < ProxiesLeft[v]
<1> DEFINE w == ChildVisit(v, include)
           P == DOMAIN Proxies
<1>1. v.proxy \in P /\ v.conds \in Seq(IncludeConditions) /\ v.visited \in Seq(P) /\ IsSeq(v.visited)
  BY ElementsSeq DEF Visits
<1>2. include.conditions \in Seq(IncludeConditions)
  <2>1. include.conditions \in Seq(Range(include.conditions))
    BY <1>1 DEF ProxiesWellFormed, IsSeq
  <2>2. Range(include.conditions) \subseteq IncludeConditions
    BY <1>1 DEF IncludeConditions
  <2> QED BY <2>1, <2>2
<1>3. w = [proxy |-> include.target, conds |-> v.conds \o include.conditions, visited |-> Append(v.visited, v.proxy)]
  BY DEF ChildVisit
<1>4. v.conds \o include.conditions \in Seq(IncludeConditions) /\ Append(v.visited, v.proxy) \in Seq(P)
  BY <1>1, <1>2
<1> HIDE DEF w
<1>5. w \in Visits
  BY <1>3, <1>4 DEF Visits
<1>6. Range(w.visited) = Range(v.visited) \union {v.proxy}
  BY <1>1, <1>3, SeqAppend
<1>7. Cardinality((P \ Range(v.visited)) \ {v.proxy}) = Cardinality(P \ Range(v.visited)) - 1
  <2>1. IsFiniteSet(P \ Range(v.visited))
    BY FS_Subset DEF ProxiesWellFormed
  <2>2. v.proxy \in P \ Range(v.visited)
    BY <1>1
  <2> QED BY <2>1, <2>2, FS_RemoveElement, Zenon
<1>8. P \ Range(w.visited) = (P \ Range(v.visited)) \ {v.proxy}
  BY <1>6
<1>9. ProxiesLeft[w] = ProxiesLeft[v] - 1 /\ ProxiesLeft[v] \in Int
  <2>1. ProxiesLeft[v] \in Int
    BY ProxiesLeftType DEF ProxiesWellFormed
  <2> QED BY <2>1, <1>5, <1>7, <1>8, Zenon DEF ProxiesLeft
<1> QED BY <1>5, <1>9 DEF w

VisitStep(root, enforceTLS, r, s, results, v) == ComputeVisit(results, root, enforceTLS, v)
VisitInv(root, enforceTLS, r, s, acc) == TRUE
AllVisits == INSTANCE Loops WITH Step <- VisitStep, Inv <- VisitInv

(* The results of visits below are needed only by a visit that does not     *)
(* report a cycle, so only those of smaller visits.                         *)
LEMMA VisitDependsOnSmaller ==
  ASSUME ProxiesWellFormed, NEW root, NEW enforceTLS, NEW g, NEW h, NEW v \in Visits,
         \A w \in Visits : ProxiesLeft[w] < ProxiesLeft[v] => g[w] = h[w]
  PROVE  ComputeVisit(g, root, enforceTLS, v) = ComputeVisit(h, root, enforceTLS, v)
<1> DEFINE includes == Proxies[v.proxy].includes
           start == VisitStart(v.proxy)
           Included(results) == FoldLeft(LAMBDA a, i : ComputeInclude(results, v, a, i), start, includes)
           Own(in) == FoldLeft(LAMBDA a, r : ComputeRoute(root, v.proxy, v.conds, enforceTLS, a, r), in, Proxies[v.proxy].routes)
           Error(reason) == [VisitStart(v.proxy) EXCEPT !.cond = AddError(@, reason)]
           Result(in) == IF v.proxy \in Range(v.visited) THEN Error("IncludeCreatesCycle")
              ELSE IF IncludeMatchConditionsIdentical(includes) THEN Error("DuplicateMatchConditions")
              ELSE [Own(in) EXCEPT !.routes = IF Own(in).failed THEN <<>> ELSE ExpandPrefixMatches(@)]
<1>1. ASSUME NEW f PROVE ComputeVisit(f, root, enforceTLS, v) = Result(Included(f))
  BY DEF ComputeVisit
<1>2. ASSUME NEW f PROVE Included(f) = Includes!Loop(f, v, enforceTLS, Nil, start, includes)
  BY DEF Includes!Loop, FoldLeft, MapThenFoldSet, Includes!Last, Max, IncludeStep
<1>3. v.proxy \notin Range(v.visited) => Included(g) = Included(h)
  <2> SUFFICES ASSUME v.proxy \notin Range(v.visited) PROVE Included(g) = Included(h)
    BY Zenon
  <2>1. includes \in Seq(Range(includes))
    BY DEF ProxiesWellFormed, IsSeq, Visits
  <2>2. \A acc : \A i \in DOMAIN includes :
          IncludeStep(g, v, enforceTLS, Nil, acc, includes[i]) = IncludeStep(h, v, enforceTLS, Nil, acc, includes[i])
    <3> SUFFICES ASSUME NEW acc, NEW include \in Range(includes)
                 PROVE  ComputeInclude(g, v, acc, include) = ComputeInclude(h, v, acc, include)
      BY DEF IncludeStep, Range
    <3>1. include.target \in DOMAIN Proxies => g[ChildVisit(v, include)] = h[ChildVisit(v, include)]
      BY ChildVisitSmaller
    <3> QED BY <3>1, ZenonT(40) DEF ComputeInclude, ChildVisit
  <2> HIDE DEF includes, start
  <2>3. Includes!Loop(g, v, enforceTLS, Nil, start, includes) = Includes!Loop(h, v, enforceTLS, Nil, start, includes)
    BY <2>1, <2>2, Includes!LoopSame
  <2> QED BY <1>2, <2>3, Zenon
<1> HIDE DEF Included, Own
<1> QED BY <1>1, <1>3

(* What the visits lead to, of which what is below them is known. *)
VisitedSound(enforceTLS, v, acc) ==
  AsAsked(enforceTLS, v.proxy) => VisitSound(enforceTLS, acc) /\ FreedAll(v, acc.freed) /\ CyclesSeen(v, acc)

LEMMA IncludesKeep ==
  ASSUME ProxiesWellFormed, NEW enforceTLS, NEW results, NEW v \in Visits, AsAsked(enforceTLS, v.proxy),
         v.proxy \notin Range(v.visited), ~IncludeMatchConditionsIdentical(Proxies[v.proxy].includes),
         \A w \in Visits : ProxiesLeft[w] < ProxiesLeft[v] => VisitedSound(enforceTLS, w, results[w]),
         NEW start, VisitSound(enforceTLS, start), start.freed = {}
  PROVE  IncludeInv(results, v, enforceTLS, Children(v.proxy), Includes!Loop(results, v, enforceTLS, {}, start, Proxies[v.proxy].includes))
<1> DEFINE includes == Proxies[v.proxy].includes
           included == Includes!Loop(results, v, enforceTLS, {}, start, includes)
           Keeps(S) == \A acc : \A i \in DOMAIN includes :
             IncludeInv(results, v, enforceTLS, S, acc)
               => IncludeInv(results, v, enforceTLS, S, IncludeStep(results, v, enforceTLS, {}, acc, includes[i]))
<1>1. v.proxy \in DOMAIN Proxies /\ IsSeq(v.visited)
  BY ElementsSeq DEF Visits
<1>2. includes \in Seq(Range(includes)) /\ \A i \in DOMAIN includes : includes[i] \in Range(includes)
  BY <1>1 DEF ProxiesWellFormed, IsSeq, Range
<1>3. ASSUME NEW acc, NEW include \in Range(includes),
             VisitSound(enforceTLS, acc), FreedSound(v, acc.freed), CyclesFound(acc.freed, acc.commits)
      PROVE  LET done == ComputeInclude(results, v, acc, include)
             IN  /\ VisitSound(enforceTLS, done) /\ FreedSound(v, done.freed) /\ CyclesFound(done.freed, done.commits)
                 /\ acc.freed \subseteq done.freed /\ (Follows(include) => include.target \in done.freed)
  <2>1. (include.target \in DOMAIN Proxies /\ ~IsRoot(include.target)) =>
          LET w == ChildVisit(v, include)
          IN  VisitSound(enforceTLS, results[w]) /\ FreedAll(w, results[w].freed) /\ CyclesSeen(w, results[w])
    <3>1. ~IsRoot(include.target) => AsAsked(enforceTLS, ChildVisit(v, include).proxy)
      BY DEF AsAsked, ChildVisit
    <3> QED BY <3>1, ChildVisitSmaller DEF VisitedSound
  <2> QED BY <1>1, <1>3, <2>1, ComputeIncludeKeeps
<1>4. \A S : Keeps(S)
  BY <1>2, <1>3 DEF IncludeInv, IncludeStep
<1>5. IncludeInv(results, v, enforceTLS, {}, start)
  BY DEF IncludeInv, FreedSound, CyclesFound
<1> HIDE DEF includes
<1>6. IncludeInv(results, v, enforceTLS, {}, included)
  BY <1>2, <1>4, <1>5, Includes!LoopKeeps
<1>7. ASSUME NEW k \in DOMAIN includes, Follows(includes[k]) PROVE includes[k].target \in included.freed
  <2> DEFINE S == {includes[k].target}
  <2>1. \A acc : IncludeInv(results, v, enforceTLS, {}, acc)
          => IncludeInv(results, v, enforceTLS, S, IncludeStep(results, v, enforceTLS, {}, acc, includes[k]))
    BY <1>2, <1>3, <1>7 DEF IncludeInv, IncludeStep
  <2>2. Keeps(S) /\ Keeps({})
    BY <1>4
  <2> HIDE DEF S
  <2>3. IncludeInv(results, v, enforceTLS, S, included)
    BY <1>2, <1>5, <2>1, <2>2, Includes!LoopReaches
  <2> QED BY <2>3 DEF IncludeInv, S
<1> HIDE DEF included
<1>8. Children(v.proxy) \subseteq included.freed
  <2>1. Children(v.proxy) = {i.target : i \in {i \in Range(includes) : Follows(i)}}
    BY ChildrenFollowed DEF includes
  <2> QED BY <1>7, <2>1 DEF Range
<1>9. IncludeInv(results, v, enforceTLS, Children(v.proxy), included)
  BY <1>6, <1>8 DEF IncludeInv
<1> QED BY <1>9 DEF included, includes

LEMMA ComputeVisitSound ==
  ASSUME ProxiesWellFormed, NEW root, NEW enforceTLS, NEW results, NEW v \in Visits,
         \A w \in Visits : ProxiesLeft[w] < ProxiesLeft[v] => VisitedSound(enforceTLS, w, results[w])
  PROVE  VisitedSound(enforceTLS, v, ComputeVisit(results, root, enforceTLS, v))
<1> SUFFICES ASSUME AsAsked(enforceTLS, v.proxy)
             PROVE  VisitedSound(enforceTLS, v, ComputeVisit(results, root, enforceTLS, v))
  BY DEF VisitedSound
<1> DEFINE includes == Proxies[v.proxy].includes
           start == VisitStart(v.proxy)
           included == FoldLeft(LAMBDA a, i : ComputeInclude(results, v, a, i), start, includes)
           own == FoldLeft(LAMBDA a, r : ComputeRoute(root, v.proxy, v.conds, enforceTLS, a, r), included, Proxies[v.proxy].routes)
           Error(reason) == [start EXCEPT !.cond = AddError(@, reason)]
           done == ComputeVisit(results, root, enforceTLS, v)
<1>1. done = IF v.proxy \in Range(v.visited) THEN Error("IncludeCreatesCycle")
             ELSE IF IncludeMatchConditionsIdentical(includes) THEN Error("DuplicateMatchConditions")
             ELSE [own EXCEPT !.routes = IF own.failed THEN <<>> ELSE ExpandPrefixMatches(@)]
  BY DEF ComputeVisit
<1>2. included = Includes!Loop(results, v, enforceTLS, {}, start, includes)
  BY DEF Includes!Loop, FoldLeft, MapThenFoldSet, Includes!Last, Max, IncludeStep
<1>3. own = Routes!Loop(root, v, enforceTLS, included, included, Proxies[v.proxy].routes)
  BY DEF Routes!Loop, FoldLeft, MapThenFoldSet, Routes!Last, Max, RouteStep
<1>4. v.proxy \in DOMAIN Proxies
  BY DEF Visits
<1>5. VisitSound(enforceTLS, start) /\ start.freed = {} /\ start.cond = ValidCondition
  <2>1. start.commits = <<>> /\ start.routes = <<>> /\ start.cond = ValidCondition /\ start.freed = {} /\ DOMAIN start = VisitFields
    BY DEF VisitStart, VisitFields
  <2> HIDE DEF start
  <2> QED BY <2>1, SeqEmpty, OwnConditionAdds DEF VisitSound, CommitsSound, RoutesSound
<1>6. ASSUME NEW reason, OwnReason(reason), v.proxy \notin Range(v.visited) => Children(v.proxy) = {}
      PROVE  VisitedSound(enforceTLS, v, Error(reason))
  <2> HIDE DEF start
  <2>1. OwnCondition(AddError(start.cond, reason))
    BY <1>5, <1>6, OwnConditionAdds DEF VisitSound
  <2>2. VisitSound(enforceTLS, Error(reason)) /\ Error(reason).freed = {} /\ Error(reason).cond = AddError(start.cond, reason)
    BY <1>5, <2>1 DEF VisitSound, VisitFields
  <2>3. Error(reason).cond.errors # {}
    BY <1>5, <2>2 DEF AddError, ValidCondition
  <2> HIDE DEF Error
  <2> QED BY <1>6, <2>2, <2>3 DEF VisitedSound, FreedAll, FreedSound, CyclesSeen, CyclesFound
<1>7. CASE v.proxy \in Range(v.visited)
  BY <1>1, <1>6, <1>7, OwnReasons
<1>8. CASE v.proxy \notin Range(v.visited) /\ IncludeMatchConditionsIdentical(includes)
  <2>1. Children(v.proxy) = {}
    BY <1>8 DEF Children
  <2> HIDE DEF Error, start, done
  <2>2. done = Error("DuplicateMatchConditions")
    BY <1>1, <1>8
  <2> QED BY <1>6, <2>1, <2>2, OwnReasons DEF done
<1> SUFFICES ASSUME v.proxy \notin Range(v.visited), ~IncludeMatchConditionsIdentical(includes)
             PROVE  VisitedSound(enforceTLS, v, [own EXCEPT !.routes = IF own.failed THEN <<>> ELSE ExpandPrefixMatches(@)])
  <2> HIDE DEF done, own, Error
  <2> QED BY <1>1, <1>7, <1>8 DEF done
<1> HIDE DEF included, own, start, done
<1>9. IncludeInv(results, v, enforceTLS, Children(v.proxy), included)
  BY <1>2, <1>5, IncludesKeep
<1>10. VisitSound(enforceTLS, own) /\ own.commits = included.commits /\ own.freed = included.freed
  <2>1. VisitSound(enforceTLS, included)
    BY <1>9 DEF IncludeInv
  <2>2. RouteInv(root, v, enforceTLS, included, Routes!Loop(root, v, enforceTLS, included, included, Proxies[v.proxy].routes))
    BY <1>4, <2>1, RoutesKeep
  <2> QED BY <1>3, <2>2, Zenon DEF RouteInv
<1> DEFINE routes == IF own.failed THEN <<>> ELSE ExpandPrefixMatches(own.routes)
<1>11. RoutesSound(enforceTLS, routes)
  <2>1. RoutesSound(enforceTLS, <<>>)
    BY SeqEmpty DEF RoutesSound
  <2> QED BY <1>10, <2>1, ExpandKeeps DEF VisitSound
<1> HIDE DEF routes
<1> DEFINE all == [own EXCEPT !.routes = routes]
<1>12. VisitSound(enforceTLS, all) /\ all.commits = included.commits /\ all.freed = included.freed
  BY <1>10, <1>11 DEF VisitSound, VisitFields
<1> HIDE DEF all
<1>13. FreedSound(v, all.freed) /\ CyclesFound(all.freed, all.commits) /\ Children(v.proxy) \subseteq all.freed
  BY <1>9, <1>12 DEF IncludeInv
<1>14. \A C : Looping(C) /\ v.proxy \in C => Reports(all.commits, C)
  BY <1>13 DEF Looping, CyclesFound
<1>15. VisitedSound(enforceTLS, v, all)
  BY <1>12, <1>13, <1>14 DEF VisitedSound, FreedAll, CyclesSeen
<1> QED BY <1>15 DEF all, routes

(* Whatever the graph of includes, what a root gets from it is sound. *)
LEMMA ComputeRoutesSound ==
  ASSUME ProxiesWellFormed, NEW root \in DOMAIN Proxies, NEW enforceTLS
  PROVE  VisitedSound(enforceTLS, [proxy |-> root, conds |-> <<>>, visited |-> <<>>], ComputeRoutes(root, enforceTLS))
<1> DEFINE results == AllVisits!Recursive(root, enforceTLS, Nil, Nil, Visits)
           v0 == [proxy |-> root, conds |-> <<>>, visited |-> <<>>]
           n == Cardinality(DOMAIN Proxies)
<1>1. ComputeRoutes(root, enforceTLS) = results[v0]
  BY DEF ComputeRoutes, AllVisits!Recursive, VisitStep
<1>2. v0 \in Visits
  BY DEF Visits
<1>3. n \in Nat /\ ProxiesLeft \in [Visits -> 0..n]
  BY ProxiesLeftType DEF ProxiesWellFormed
<1>4. \A g, h : \A v \in Visits : (\A w \in Visits : ProxiesLeft[w] < ProxiesLeft[v] => g[w] = h[w])
        => VisitStep(root, enforceTLS, Nil, Nil, g, v) = VisitStep(root, enforceTLS, Nil, Nil, h, v)
  BY VisitDependsOnSmaller DEF VisitStep
<1>5. results = [v \in Visits |-> VisitStep(root, enforceTLS, Nil, Nil, results, v)]
  <2> HIDE DEF n
  <2> QED BY <1>3, <1>4, AllVisits!RecursionSolves
<1> DEFINE T == {v \in Visits : VisitedSound(enforceTLS, v, results[v])}
<1>6. \A v \in Visits : (\A w \in Visits : ProxiesLeft[w] < ProxiesLeft[v] => w \in T) => v \in T
  <2> SUFFICES ASSUME NEW v \in Visits, \A w \in Visits : ProxiesLeft[w] < ProxiesLeft[v] => VisitedSound(enforceTLS, w, results[w])
               PROVE  VisitedSound(enforceTLS, v, results[v])
    OBVIOUS
  <2> HIDE DEF results
  <2>1. results[v] = ComputeVisit(results, root, enforceTLS, v)
    BY <1>5 DEF VisitStep
  <2> QED BY <2>1, ComputeVisitSound
<1>7. Visits \subseteq T
  <2>1. ProxiesLeft \in [Visits -> Nat]
    BY <1>3
  <2> HIDE DEF T
  <2> QED BY <1>6, <2>1, AllVisits!SizeInduction
<1> HIDE DEF results, v0
<1>8. VisitedSound(enforceTLS, v0, results[v0])
  BY <1>2, <1>7
<1> QED BY <1>1, <1>8 DEF v0

(* The proxies that a root takes from the orphaned ones are those below it, *)
(* whatever cycles there are among them and wherever the visits end.        *)
LEMMA FreedByRoot ==
  ASSUME ProxiesWellFormed, NEW root \in DOMAIN Proxies, IsRoot(root), NEW enforceTLS, AsAsked(enforceTLS, root)
  PROVE  ComputeRoutes(root, enforceTLS).freed = Below(root)
<1> DEFINE freed == ComputeRoutes(root, enforceTLS).freed
           v0 == [proxy |-> root, conds |-> <<>>, visited |-> <<>>]
           others == {q \in DOMAIN Proxies : ~IsRoot(q)}
<1>1. \A q : Children(q) \subseteq others
  BY DEF Children
<1>2. /\ \A S : ClosedBelow(root, S) => freed \subseteq S
      /\ \A q \in freed \ {root} : Children(q) \subseteq freed \union {root}
      /\ Children(root) \subseteq freed
  <2>1. FreedAll(v0, freed)
    BY ComputeRoutesSound DEF VisitedSound
  <2>2. v0.proxy = root /\ Range(v0.visited) = {}
    BY SeqEmpty
  <2> HIDE DEF v0, freed
  <2> QED BY <2>1, <2>2 DEF FreedAll, FreedSound
<1> HIDE DEF freed
<1>3. ClosedBelow(root, others)
  BY <1>1 DEF ClosedBelow
<1>4. freed \subseteq others
  BY <1>2, <1>3
<1>5. root \notin others /\ others \subseteq DOMAIN Proxies
  OBVIOUS
<1> HIDE DEF others
<1>6. ClosedBelow(root, freed)
  BY <1>1, <1>2, <1>4, <1>5 DEF ClosedBelow
<1>7. freed \subseteq Below(root)
  BY <1>2, <1>4, <1>5 DEF Below
<1>8. Below(root) \subseteq freed
  BY <1>4, <1>5, <1>6 DEF Below
<1> QED BY <1>7, <1>8 DEF freed

-----------------------------------------------------------------------------
(* TCP proxies *)

TCPSound(visit) == IsSeq(visit.commits) /\ (visit.clusters # Nil => Weighed(visit.clusters))

TCPVisitStep(p, q, r, s, results, v) == ProcessTCPVisit(results, v)
TCPVisitInv(p, q, r, s, acc) == TRUE
AllTCPVisits == INSTANCE Loops WITH Step <- TCPVisitStep, Inv <- TCPVisitInv

(* The visit to the TCP proxy that is included. *)
TCPChildVisit(v) == [proxy |-> Proxies[v.proxy].tcp.include, visited |-> Append(v.visited, v.proxy)]

(* Here a proxy is not visited again, so the one that is being visited does *)
(* not count as left.                                                       *)
TCPProxiesLeft == [v \in TCPVisits |-> Cardinality(DOMAIN Proxies \ (Range(v.visited) \union {v.proxy}))]

LEMMA TCPProxiesLeftType ==
  ASSUME IsFiniteSet(DOMAIN Proxies)
  PROVE  Cardinality(DOMAIN Proxies) \in Nat /\ TCPProxiesLeft \in [TCPVisits -> 0..Cardinality(DOMAIN Proxies)]
<1>1. Cardinality(DOMAIN Proxies) \in Nat
  BY FS_CardinalityType
<1>2. ASSUME NEW S PROVE Cardinality(DOMAIN Proxies \ S) \in 0..Cardinality(DOMAIN Proxies)
  <2>1. IsFiniteSet(DOMAIN Proxies \ S) /\ Cardinality(DOMAIN Proxies \ S) <= Cardinality(DOMAIN Proxies)
    <3>1. DOMAIN Proxies \ S \subseteq DOMAIN Proxies
      OBVIOUS
    <3> QED BY <3>1, FS_Subset
  <2>2. Cardinality(DOMAIN Proxies \ S) \in Nat
    BY <2>1, FS_CardinalityType
  <2> QED BY <1>1, <2>1, <2>2
<1> QED BY <1>1, <1>2, Zenon DEF TCPProxiesLeft

LEMMA TCPChildVisitSmaller ==
  ASSUME ProxiesWellFormed, NEW v \in TCPVisits, NEW dest \in DOMAIN Proxies,
         dest = Proxies[v.proxy].tcp.include, dest \notin Range(Append(v.visited, v.proxy))
  PROVE  TCPChildVisit(v) \in TCPVisits /\ TCPProxiesLeft[TCPChildVisit(v)] < TCPProxiesLeft[v]
<1> DEFINE w == TCPChildVisit(v)
           P == DOMAIN Proxies
           U == Range(v.visited) \union {v.proxy}
<1>1. v.proxy \in P /\ v.visited \in Seq(P) /\ IsSeq(v.visited)
  BY ElementsSeq DEF TCPVisits
<1>2. w = [proxy |-> dest, visited |-> Append(v.visited, v.proxy)]
  BY DEF TCPChildVisit
<1> HIDE DEF w
<1>3. w \in TCPVisits
  BY <1>1, <1>2 DEF TCPVisits
<1>4. Range(w.visited) = U /\ w.proxy = dest /\ dest \notin U
  BY <1>1, <1>2, SeqAppend
<1>5. Cardinality((P \ U) \ {dest}) = Cardinality(P \ U) - 1
  <2>1. IsFiniteSet(P \ U)
    BY FS_Subset DEF ProxiesWellFormed
  <2>2. dest \in P \ U
    BY <1>4
  <2> HIDE DEF U
  <2> QED BY <2>1, <2>2, FS_RemoveElement, Zenon
<1>6. P \ (Range(w.visited) \union {w.proxy}) = (P \ U) \ {dest}
  BY <1>4
<1>7. TCPProxiesLeft[w] = TCPProxiesLeft[v] - 1 /\ TCPProxiesLeft[v] \in Int
  <2>1. TCPProxiesLeft[v] \in Int
    BY TCPProxiesLeftType DEF ProxiesWellFormed
  <2> QED BY <2>1, <1>3, <1>5, <1>6, Zenon DEF TCPProxiesLeft
<1> QED BY <1>3, <1>7 DEF w

LEMMA TCPVisitDependsOnSmaller ==
  ASSUME ProxiesWellFormed, NEW g, NEW h, NEW v \in TCPVisits,
         \A w \in TCPVisits : TCPProxiesLeft[w] < TCPProxiesLeft[v] => g[w] = h[w]
  PROVE  ProcessTCPVisit(g, v) = ProcessTCPVisit(h, v)
<1> DEFINE dest == Proxies[v.proxy].tcp.include
<1>1. (dest \in DOMAIN Proxies /\ dest \notin Range(Append(v.visited, v.proxy))) => g[TCPChildVisit(v)] = h[TCPChildVisit(v)]
  BY TCPChildVisitSmaller
<1> QED BY <1>1, Zenon DEF ProcessTCPVisit, TCPChildVisit

LEMMA ProcessTCPVisitSound ==
  ASSUME ProxiesWellFormed, NEW results, NEW v \in TCPVisits,
         \A w \in TCPVisits : TCPProxiesLeft[w] < TCPProxiesLeft[v] => TCPSound(results[w])
  PROVE  TCPSound(ProcessTCPVisit(results, v))
<1> DEFINE p == v.proxy
           tcp == Proxies[p].tcp
           dest == tcp.include
           lb == LoadBalancerPolicy(tcp.lb)
           start == [clusters |-> Nil, cond |-> ValidCondition, failed |-> FALSE, commits |-> <<>>, freed |-> {}]
           begun == IF lb \in {"Cookie", "RequestHash"}
                    THEN [start EXCEPT !.cond = AddWarning(@, "IgnoredField")] ELSE start
           clusters == [i \in DOMAIN tcp.services |-> TCPCluster(p[1], tcp.services[i], lb, HealthCheckPolicy("tcp", tcp.health))]
           freed == [begun EXCEPT !.freed = {dest}]
           below == results[TCPChildVisit(v)]
           visited == Append(v.visited, p)
           done == ProcessTCPVisit(results, v)
<1>1. \/ done = start
      \/ \E reason : done = Fail(start, reason) \/ done = Fail(begun, reason) \/ done = Fail(freed, reason)
      \/ tcp # Nil /\ done = [begun EXCEPT !.clusters = clusters]
      \/ /\ dest \in DOMAIN Proxies /\ dest \notin Range(visited)
         /\ done = [freed EXCEPT !.clusters = below.clusters, !.failed = below.failed,
                                 !.commits = Append(below.commits, [proxy |-> dest, cond |-> below.cond]),
                                 !.freed = {dest} \union below.freed]
  BY Zenon DEF ProcessTCPVisit, TCPChildVisit
<1>2. p \in DOMAIN Proxies
  BY DEF TCPVisits
<1>3. ASSUME dest \in DOMAIN Proxies, dest \notin Range(visited) PROVE TCPSound(below)
  BY <1>3, TCPChildVisitSmaller
<1>4. tcp # Nil => Weighed(clusters)
  <2> SUFFICES ASSUME tcp # Nil PROVE Weighed(clusters)
    OBVIOUS
  <2> DEFINE health == HealthCheckPolicy("tcp", tcp.health)
  <2>1. IsSeq(tcp.services) /\ \A i \in DOMAIN tcp.services : tcp.services[i].weight \in Int
    BY <1>2 DEF ProxiesWellFormed, ServicesWellFormed, Range
  <2>2. clusters = [i \in DOMAIN tcp.services |-> clusters[i]]
    OBVIOUS
  <2>3. ASSUME NEW i \in DOMAIN tcp.services PROVE TCPCluster(p[1], tcp.services[i], lb, health).weight \in Nat
    <3> DEFINE weight == tcp.services[i].weight % Word
    <3>1. weight \in Nat
      BY <2>1, WordWeight
    <3> HIDE DEF weight
    <3>2. TCPCluster(p[1], tcp.services[i], lb, health).weight = weight
      BY DEF TCPCluster, Cluster, weight
    <3> QED BY <3>1, <3>2
  <2>4. \A i \in DOMAIN clusters : clusters[i].weight \in Nat
    BY <2>3
  <2> HIDE DEF clusters, tcp
  <2>5. IsSeq(clusters)
    BY <2>1, <2>2, SeqOver
  <2> QED BY <2>4, <2>5 DEF Weighed, Range
<1> SUFFICES TCPSound(done)
  OBVIOUS
<1>5. /\ start.clusters = Nil /\ start.commits = <<>> /\ begun.clusters = Nil /\ begun.commits = <<>>
      /\ freed.clusters = Nil /\ freed.commits = <<>>
      /\ DOMAIN start = {"clusters", "cond", "failed", "commits", "freed"}
      /\ DOMAIN begun = DOMAIN start /\ DOMAIN freed = DOMAIN start
  <2> HIDE DEF lb
  <2> QED OBVIOUS
<1> HIDE DEF start, begun, freed, clusters, below, dest, visited, done, tcp
<1>6. CASE \E reason : done = Fail(start, reason) \/ done = Fail(begun, reason) \/ done = Fail(freed, reason)
  BY <1>5, <1>6, SeqEmpty, Zenon DEF Fail, TCPSound
<1>7. CASE tcp # Nil /\ done = [begun EXCEPT !.clusters = clusters]
  BY <1>4, <1>5, <1>7, SeqEmpty DEF TCPSound
<1>8. CASE /\ dest \in DOMAIN Proxies /\ dest \notin Range(visited)
           /\ done = [freed EXCEPT !.clusters = below.clusters, !.failed = below.failed,
                                 !.commits = Append(below.commits, [proxy |-> dest, cond |-> below.cond]),
                                 !.freed = {dest} \union below.freed]
  <2>1. done.clusters = below.clusters /\ done.commits = Append(below.commits, [proxy |-> dest, cond |-> below.cond])
    BY <1>5, <1>8
  <2>2. IsSeq(below.commits) /\ (below.clusters # Nil => Weighed(below.clusters))
    BY <1>3, <1>8 DEF TCPSound
  <2> QED BY <2>1, <2>2, SeqAppend DEF TCPSound
<1>9. CASE done = start
  BY <1>5, <1>9, SeqEmpty DEF TCPSound
<1> QED BY <1>1, <1>6, <1>7, <1>8, <1>9

LEMMA ProcessTCPProxySound ==
  ASSUME ProxiesWellFormed, NEW root \in DOMAIN Proxies
  PROVE  TCPSound(ProcessTCPProxy(root))
<1> DEFINE results == AllTCPVisits!Recursive(Nil, Nil, Nil, Nil, TCPVisits)
           v0 == [proxy |-> root, visited |-> <<>>]
           n == Cardinality(DOMAIN Proxies)
<1>1. ProcessTCPProxy(root) = results[v0]
  BY DEF ProcessTCPProxy, AllTCPVisits!Recursive, TCPVisitStep
<1>2. v0 \in TCPVisits
  BY DEF TCPVisits
<1>3. n \in Nat /\ TCPProxiesLeft \in [TCPVisits -> 0..n]
  BY TCPProxiesLeftType DEF ProxiesWellFormed
<1>4. \A g, h : \A v \in TCPVisits : (\A w \in TCPVisits : TCPProxiesLeft[w] < TCPProxiesLeft[v] => g[w] = h[w])
        => TCPVisitStep(Nil, Nil, Nil, Nil, g, v) = TCPVisitStep(Nil, Nil, Nil, Nil, h, v)
  BY TCPVisitDependsOnSmaller DEF TCPVisitStep
<1>5. results = [v \in TCPVisits |-> TCPVisitStep(Nil, Nil, Nil, Nil, results, v)]
  <2> HIDE DEF n
  <2> QED BY <1>3, <1>4, AllTCPVisits!RecursionSolves
<1> DEFINE T == {v \in TCPVisits : TCPSound(results[v])}
<1>6. \A v \in TCPVisits : (\A w \in TCPVisits : TCPProxiesLeft[w] < TCPProxiesLeft[v] => w \in T) => v \in T
  <2> SUFFICES ASSUME NEW v \in TCPVisits, \A w \in TCPVisits : TCPProxiesLeft[w] < TCPProxiesLeft[v] => TCPSound(results[w])
               PROVE  TCPSound(results[v])
    OBVIOUS
  <2> HIDE DEF results
  <2>1. results[v] = ProcessTCPVisit(results, v)
    BY <1>5 DEF TCPVisitStep
  <2> QED BY <2>1, ProcessTCPVisitSound
<1>7. TCPVisits \subseteq T
  <2>1. TCPProxiesLeft \in [TCPVisits -> Nat]
    BY <1>3
  <2> HIDE DEF T
  <2> QED BY <1>6, <2>1, AllTCPVisits!SizeInduction
<1> QED BY <1>1, <1>2, <1>7

-----------------------------------------------------------------------------
(* Statuses *)

(* Proxies found invalid in the one cache of statuses are so in the other. *)
Stays(before, ups) ==
  \A p \in DOMAIN before : before[p].errors # {} => p \in DOMAIN ups /\ ups[p].errors # {}

CommitStep(p, q, r, s, ups, c) == Commit(ups, c.proxy, c.cond)
CommitInv(p, q, r, before, ups) == Stays(before, ups)
Commits == INSTANCE Loops WITH Step <- CommitStep, Inv <- CommitInv

LEMMA CommitStays ==
  ASSUME NEW before, NEW ups, Stays(before, ups), NEW p, NEW cond
  PROVE  Stays(before, Commit(ups, p, cond))
BY DEF Stays, Commit, Put

RootFields == {"cond", "failed", "updates", "orphaned", "dag"}

LEMMA AfterVisitStays ==
  ASSUME NEW before, NEW acc, DOMAIN acc = RootFields, Stays(before, acc.updates), NEW visit, IsSeq(visit.commits)
  PROVE  LET after == AfterVisit(acc, visit)
         IN  DOMAIN after = RootFields /\ after.dag = acc.dag /\ after.failed = acc.failed /\ Stays(before, after.updates)
<1> DEFINE after == AfterVisit(acc, visit)
           committed == Commits!Loop(Nil, Nil, Nil, before, acc.updates, visit.commits)
<1>1. FoldLeft(LAMBDA ups, c : Commit(ups, c.proxy, c.cond), acc.updates, visit.commits) = committed
  BY DEF Commits!Loop, FoldLeft, MapThenFoldSet, Commits!Last, Max, CommitStep
<1>2. CommitInv(Nil, Nil, Nil, before, committed)
  <2>1. visit.commits \in Seq(Range(visit.commits))
    BY DEF IsSeq
  <2>2. \A ups : \A i \in DOMAIN visit.commits : CommitInv(Nil, Nil, Nil, before, ups)
          => CommitInv(Nil, Nil, Nil, before, CommitStep(Nil, Nil, Nil, before, ups, visit.commits[i]))
    BY CommitStays DEF CommitInv, CommitStep
  <2>3. CommitInv(Nil, Nil, Nil, before, acc.updates)
    BY DEF CommitInv
  <2> QED BY <2>1, <2>2, <2>3, Commits!LoopKeeps, Zenon
<1>3. after = [acc EXCEPT !.cond = [errors |-> @.errors \union visit.cond.errors, warnings |-> @.warnings \union visit.cond.warnings],
              !.updates = FoldLeft(LAMBDA ups, c : Commit(ups, c.proxy, c.cond), @, visit.commits),
              !.orphaned = @ \ visit.freed]
  BY DEF AfterVisit
<1>4. /\ DOMAIN after = RootFields /\ after.dag = acc.dag /\ after.failed = acc.failed
      /\ after.updates = FoldLeft(LAMBDA ups, c : Commit(ups, c.proxy, c.cond), acc.updates, visit.commits)
  BY <1>3 DEF RootFields
<1> HIDE DEF after, committed
<1>5. Stays(before, after.updates)
  BY <1>1, <1>2, <1>4, Zenon DEF CommitInv
<1> QED BY <1>4, <1>5, Zenon DEF after

(* An error that is committed on a visit is in the statuses after it. *)
LEMMA AfterVisitReports ==
  ASSUME NEW acc, DOMAIN acc = RootFields, NEW visit, IsSeq(visit.commits),
         NEW c \in Range(visit.commits), c.cond.errors # {}
  PROVE  LET ups == AfterVisit(acc, visit).updates IN c.proxy \in DOMAIN ups /\ ups[c.proxy].errors # {}
<1> DEFINE after == AfterVisit(acc, visit)
           none == [x \in {} |-> Nil]
           found == [x \in {c.proxy} |-> c.cond]
           commits == visit.commits
           committed == Commits!Loop(Nil, Nil, Nil, none, acc.updates, commits)
<1>1. after.updates = committed
  <2>1. after.updates = FoldLeft(LAMBDA ups, x : Commit(ups, x.proxy, x.cond), acc.updates, visit.commits)
    BY DEF AfterVisit, RootFields
  <2>2. FoldLeft(LAMBDA ups, x : Commit(ups, x.proxy, x.cond), acc.updates, visit.commits) = committed
    BY DEF Commits!Loop, FoldLeft, MapThenFoldSet, Commits!Last, Max, CommitStep
  <2> HIDE DEF after, committed
  <2> QED BY <2>1, <2>2, Zenon
<1>2. PICK k \in DOMAIN commits : commits[k] = c
  BY DEF Range
<1>3. commits \in Seq(Range(commits))
  BY DEF IsSeq
<1>4. \A ups : CommitInv(Nil, Nil, Nil, none, ups)
  BY DEF CommitInv, Stays
<1>5. \A ups : CommitInv(Nil, Nil, Nil, found, CommitStep(Nil, Nil, Nil, none, ups, commits[k]))
  BY <1>2 DEF CommitInv, CommitStep, Stays, Commit, Put
<1>6. \A ups : \A i \in DOMAIN commits : CommitInv(Nil, Nil, Nil, found, ups)
        => CommitInv(Nil, Nil, Nil, found, CommitStep(Nil, Nil, Nil, none, ups, commits[i]))
  BY CommitStays DEF CommitInv, CommitStep
<1> HIDE DEF after, none, found, commits, committed
<1>7. CommitInv(Nil, Nil, Nil, found, Commits!Loop(Nil, Nil, Nil, none, acc.updates, commits))
  BY <1>3, <1>4, <1>5, <1>6, Commits!LoopReaches
<1>8. Stays(found, after.updates)
  BY <1>1, <1>7 DEF CommitInv, committed
<1> QED BY <1>8 DEF Stays, found, after

(* Roots with the host of another root. *)
Conflicting(p) == IsRoot(p) /\ SharesHost(p)

(* Before the orphaned proxies are marked, roots that share a host have     *)
(* their status from ValidHTTPProxies, all others from a look at them.      *)
StatusesSound(ups) ==
  \A p \in DOMAIN ups :
    IF Conflicting(p) THEN ups[p] = AddError(ValidCondition, "DuplicateVhost") ELSE OwnCondition(ups[p])

RecordInv(before, q, r, s, ups) == StatusesSound(ups) /\ DOMAIN before \subseteq DOMAIN ups
Records == INSTANCE Loops WITH Step <- CommitStep, Inv <- RecordInv

LEMMA CommitSound ==
  ASSUME NEW ups, StatusesSound(ups), NEW p, ~Conflicting(p), NEW cond, OwnCondition(cond)
  PROVE  StatusesSound(Commit(ups, p, cond)) /\ DOMAIN Commit(ups, p, cond) = DOMAIN ups \union {p}
BY DEF StatusesSound, Commit, Put

LEMMA AfterVisitSound ==
  ASSUME NEW acc, DOMAIN acc = RootFields, OwnCondition(acc.cond), StatusesSound(acc.updates),
         NEW visit, CommitsSound(visit.commits), OwnCondition(visit.cond)
  PROVE  LET after == AfterVisit(acc, visit)
         IN  /\ DOMAIN after = RootFields /\ OwnCondition(after.cond) /\ after.orphaned = acc.orphaned \ visit.freed
             /\ StatusesSound(after.updates) /\ DOMAIN acc.updates \subseteq DOMAIN after.updates
<1> DEFINE after == AfterVisit(acc, visit)
           before == acc.updates
           commits == visit.commits
           committed == Records!Loop(before, Nil, Nil, Nil, before, commits)
           cond == [errors |-> acc.cond.errors \union visit.cond.errors, warnings |-> acc.cond.warnings \union visit.cond.warnings]
<1>1. FoldLeft(LAMBDA ups, c : Commit(ups, c.proxy, c.cond), before, commits) = committed
  BY DEF Records!Loop, FoldLeft, MapThenFoldSet, Records!Last, Max, CommitStep
<1>2. RecordInv(before, Nil, Nil, Nil, committed)
  <2>1. commits \in Seq(Range(commits)) /\ \A i \in DOMAIN commits : commits[i] \in Range(commits)
    BY DEF CommitsSound, IsSeq, Range
  <2>2. \A ups : \A i \in DOMAIN commits : RecordInv(before, Nil, Nil, Nil, ups)
          => RecordInv(before, Nil, Nil, Nil, CommitStep(before, Nil, Nil, Nil, ups, commits[i]))
    <3> SUFFICES ASSUME NEW ups, NEW c \in Range(commits), RecordInv(before, Nil, Nil, Nil, ups)
                 PROVE  RecordInv(before, Nil, Nil, Nil, Commit(ups, c.proxy, c.cond))
      BY <2>1 DEF CommitStep
    <3>1. ~Conflicting(c.proxy) /\ OwnCondition(c.cond)
      BY DEF CommitsSound, Conflicting
    <3> DEFINE new == Commit(ups, c.proxy, c.cond)
    <3>2. StatusesSound(ups)
      BY DEF RecordInv
    <3>3. StatusesSound(new)
      BY <3>1, <3>2, CommitSound
    <3>4. DOMAIN new = DOMAIN ups \union {c.proxy}
      BY <3>1, <3>2, CommitSound
    <3> HIDE DEF new
    <3> QED BY <3>3, <3>4 DEF RecordInv, new
  <2>3. RecordInv(before, Nil, Nil, Nil, before)
    BY DEF RecordInv
  <2> HIDE DEF before, commits
  <2> QED BY <2>1, <2>2, <2>3, Records!LoopKeeps
<1>3. OwnCondition(cond)
  BY DEF OwnCondition
<1>4. after = [acc EXCEPT !.cond = [errors |-> @.errors \union visit.cond.errors, warnings |-> @.warnings \union visit.cond.warnings],
              !.updates = FoldLeft(LAMBDA ups, c : Commit(ups, c.proxy, c.cond), @, commits),
              !.orphaned = @ \ visit.freed]
  BY DEF AfterVisit
<1>5. /\ DOMAIN after = RootFields /\ after.cond = cond /\ after.orphaned = acc.orphaned \ visit.freed
      /\ after.updates = FoldLeft(LAMBDA ups, c : Commit(ups, c.proxy, c.cond), before, commits)
  BY <1>4 DEF RootFields
<1> HIDE DEF after, committed, cond
<1>6. StatusesSound(after.updates) /\ DOMAIN before \subseteq DOMAIN after.updates
  BY <1>1, <1>2, <1>5, Zenon DEF RecordInv
<1> QED BY <1>3, <1>5, <1>6, Zenon DEF after

-----------------------------------------------------------------------------
(* The secure virtual host of a root *)

DAGFields == {"VirtualHosts", "SecureVirtualHosts", "ExtensionClusters"}
SecureFields ==
  {"Routes", "CORS", "RateLimit", "Secret", "Fallback", "TCP", "Downstream", "Auth", "AuthTimeout", "MaxBody",
   "MinTLSVersion"}

(* d2 is d but for one of its secure virtual hosts. *)
OnlySecure(d, d2, host) ==
  /\ DOMAIN d2 = DAGFields
  /\ d2.VirtualHosts = d.VirtualHosts /\ d2.ExtensionClusters = d.ExtensionClusters
  /\ DOMAIN d2.SecureVirtualHosts = DOMAIN d.SecureVirtualHosts \union {host}
  /\ \A h \in DOMAIN d.SecureVirtualHosts \ {host} : d2.SecureVirtualHosts[h] = d.SecureVirtualHosts[h]

(* What EnsureSecureVirtualHost makes of a host. *)
Ensured(d, host) ==
  IF host \in DOMAIN d.SecureVirtualHosts THEN d.SecureVirtualHosts[host] ELSE SecureVirtualHost

Others(v, w, fields) == DOMAIN w = SecureFields /\ \A f \in SecureFields \ fields : w[f] = v[f]

LEMMA EnsureSecureFacts ==
  ASSUME NEW d, DOMAIN d = DAGFields, NEW host
  PROVE  LET e == EnsureSecureVirtualHost(d, host)
         IN  OnlySecure(d, e, host) /\ e.SecureVirtualHosts[host] = Ensured(d, host)
BY DEF EnsureSecureVirtualHost, OnlySecure, Ensured, Put, DAGFields

(* An assignment to a secure virtual host that is there. *)
LEMMA SetSecureFacts ==
  ASSUME NEW acc, DOMAIN acc = RootFields, DOMAIN acc.dag = DAGFields, NEW host, NEW svhost,
         host \in DOMAIN acc.dag.SecureVirtualHosts
  PROVE  LET a == SetSecure(acc, host, svhost)
         IN  /\ DOMAIN a = RootFields /\ a.updates = acc.updates /\ a.failed = acc.failed
             /\ OnlySecure(acc.dag, a.dag, host) /\ a.dag.SecureVirtualHosts[host] = svhost
<1> DEFINE a == SetSecure(acc, host, svhost)
<1>1. /\ DOMAIN a = RootFields /\ a.updates = acc.updates /\ a.failed = acc.failed
      /\ a.dag = [acc.dag EXCEPT !.SecureVirtualHosts[host] = svhost]
  BY DEF SetSecure, RootFields
<1>2. DOMAIN a.dag = DAGFields /\ a.dag.SecureVirtualHosts = [acc.dag.SecureVirtualHosts EXCEPT ![host] = svhost]
  BY <1>1 DEF DAGFields
<1>3. a.dag.VirtualHosts = acc.dag.VirtualHosts /\ a.dag.ExtensionClusters = acc.dag.ExtensionClusters
  BY <1>1 DEF DAGFields
<1> HIDE DEF a
<1> QED BY <1>1, <1>2, <1>3 DEF OnlySecure, a

LEMMA ClientValidationFacts ==
  ASSUME NEW acc, DOMAIN acc = RootFields, DOMAIN acc.dag = DAGFields, NEW host, NEW client,
         host \in DOMAIN acc.dag.SecureVirtualHosts,
         DOMAIN acc.dag.SecureVirtualHosts[host] = SecureFields
  PROVE  LET a == ComputeClientValidation(host, client, acc)
             old == acc.dag.SecureVirtualHosts[host]
             new == a.dag.SecureVirtualHosts[host]
         IN  /\ DOMAIN a = RootFields /\ a.updates = acc.updates
             /\ OnlySecure(acc.dag, a.dag, host) /\ Others(old, new, {"Downstream"})
             /\ new.Downstream = old.Downstream \/ (client # Nil /\ new.Downstream = client)
<1> DEFINE a == ComputeClientValidation(host, client, acc)
           old == acc.dag.SecureVirtualHosts[host]
           svhost == [old EXCEPT !.Downstream = client]
           set == SetSecure(acc, host, svhost)
<1>1. \/ a = acc
      \/ a = Fail(acc, "ClientValidationInvalid")
      \/ client # Nil /\ (a = set \/ \E cond : a = [set EXCEPT !.cond = cond])
  BY Zenon DEF ComputeClientValidation
<1>2. DOMAIN svhost = SecureFields /\ Others(old, svhost, {"Downstream"}) /\ svhost.Downstream = client
  BY DEF Others, SecureFields
<1>3. Others(old, old, {"Downstream"}) /\ OnlySecure(acc.dag, acc.dag, host)
  BY DEF Others, OnlySecure
<1> HIDE DEF svhost
<1>4. /\ DOMAIN set = RootFields /\ set.updates = acc.updates
      /\ OnlySecure(acc.dag, set.dag, host) /\ set.dag.SecureVirtualHosts[host] = svhost
  BY SetSecureFacts
<1> HIDE DEF set, a
<1>5. DOMAIN a = RootFields /\ a.updates = acc.updates /\ (a.dag = acc.dag \/ (client # Nil /\ a.dag = set.dag))
  BY <1>1, <1>4, Zenon DEF RootFields, Fail
<1> QED BY <1>2, <1>3, <1>4, <1>5 DEF a

LEMMA AuthorizationFacts ==
  ASSUME NEW acc, DOMAIN acc = RootFields, DOMAIN acc.dag = DAGFields, NEW host, NEW vh,
         host \in DOMAIN acc.dag.SecureVirtualHosts,
         DOMAIN acc.dag.SecureVirtualHosts[host] = SecureFields
  PROVE  LET a == ComputeAuthorization(host, vh, acc)
             old == acc.dag.SecureVirtualHosts[host]
             new == a.dag.SecureVirtualHosts[host]
             ext == GetExtensionCluster(acc.dag, vh.auth.ext)
         IN  /\ DOMAIN a = RootFields /\ a.updates = acc.updates /\ (acc.failed => a.failed)
             /\ OnlySecure(acc.dag, a.dag, host) /\ Others(old, new, {"Auth", "AuthTimeout", "MaxBody"})
             /\ \/ new.Auth = old.Auth /\ (a.failed \/ ~AuthorizationConfigured(vh))
                \/ AuthorizationConfigured(vh) /\ ext # Nil /\ new.Auth = ext.name
<1> DEFINE a == ComputeAuthorization(host, vh, acc)
           old == acc.dag.SecureVirtualHosts[host]
           ext == GetExtensionCluster(acc.dag, vh.auth.ext)
           Shape(sv) == Others(old, sv, {"Auth", "AuthTimeout", "MaxBody"}) /\ sv.Auth = ext.name
<1> DEFINE svhost == [old EXCEPT !.Auth = ext.name]
           time == TimeoutParse(vh.auth.timeout)
           timeout == IF time = "default" THEN ext.timeout ELSE time
           body == CASE vh.auth.body = Nil -> Nil [] vh.auth.body = 0 -> 1024 [] OTHER -> vh.auth.body
           complete == [svhost EXCEPT !.AuthTimeout = timeout, !.MaxBody = body]
<1>1. \/ a = acc /\ (acc.failed \/ ~AuthorizationConfigured(vh))
      \/ \E reason : ~acc.failed /\ AuthorizationConfigured(vh) /\ a = Fail(acc, reason)
      \/ /\ ~acc.failed /\ AuthorizationConfigured(vh) /\ ext # Nil
         /\ \/ \E reason : a = Fail(SetSecure(acc, host, svhost), reason)
            \/ a = SetSecure(acc, host, complete)
  <2> HIDE DEF svhost, complete, ext
  <2> QED BY DEF ComputeAuthorization, svhost, complete, ext
<1>2. Shape(svhost) /\ Shape(complete)
  <2>1. Shape(svhost)
    BY DEF Others, SecureFields
  <2>2. ASSUME NEW t, NEW m PROVE Shape([svhost EXCEPT !.AuthTimeout = t, !.MaxBody = m])
    <3> HIDE DEF svhost
    <3> QED BY <2>1, Zenon DEF Others, SecureFields
  <2> HIDE DEF svhost, Shape, timeout, body
  <2> QED BY <2>1, <2>2, Zenon
<1> HIDE DEF svhost, complete
<1>3. OnlySecure(acc.dag, acc.dag, host) /\ Others(old, old, {"Auth", "AuthTimeout", "MaxBody"})
  BY DEF Others, OnlySecure
<1>4. ASSUME NEW sv
      PROVE  LET set == SetSecure(acc, host, sv)
             IN  /\ DOMAIN set = RootFields /\ set.updates = acc.updates /\ set.failed = acc.failed
                 /\ OnlySecure(acc.dag, set.dag, host) /\ set.dag.SecureVirtualHosts[host] = sv
  BY SetSecureFacts
<1> HIDE DEF a, ext
<1>5. CASE a = acc /\ (acc.failed \/ ~AuthorizationConfigured(vh))
  BY <1>3, <1>5 DEF a, ext
<1>6. CASE \E reason : ~acc.failed /\ AuthorizationConfigured(vh) /\ a = Fail(acc, reason)
  <2>1. DOMAIN a = RootFields /\ a.updates = acc.updates /\ a.dag = acc.dag /\ a.failed
    BY <1>6 DEF Fail, RootFields
  <2> QED BY <1>3, <1>6, <2>1 DEF a, ext
<1>7. CASE /\ ~acc.failed /\ AuthorizationConfigured(vh) /\ ext # Nil
           /\ \E reason : a = Fail(SetSecure(acc, host, svhost), reason)
  <2>1. DOMAIN a = RootFields /\ a.updates = acc.updates /\ a.dag = SetSecure(acc, host, svhost).dag /\ a.failed
    BY <1>4, <1>7 DEF Fail, RootFields
  <2> QED BY <1>2, <1>4, <1>7, <2>1 DEF a, ext
<1>8. CASE /\ ~acc.failed /\ AuthorizationConfigured(vh) /\ ext # Nil
           /\ a = SetSecure(acc, host, complete)
  BY <1>2, <1>4, <1>8 DEF a, ext
<1> QED BY <1>1, <1>5, <1>6, <1>7, <1>8

(* What computing the TLS of a root may do: nothing, if it fails or nothing *)
(* is to be done, or fill the secure virtual host of the root as it asks    *)
(* for. If it does not fail, all that is asked for is there.                *)
TLSComputed(p, acc, a) ==
  LET vh == Proxies[p].vhost
      tls == vh.tls
      old == Ensured(acc.dag, vh.fqdn)
      new == a.dag.SecureVirtualHosts[vh.fqdn]
      ext == GetExtensionCluster(acc.dag, vh.auth.ext)
  IN  /\ DOMAIN a = RootFields /\ a.updates = acc.updates
      /\ \/ a.dag = acc.dag /\ (a.failed \/ tls = Nil \/ tls.passthrough)
         \/ /\ tls # Nil /\ ~tls.passthrough /\ TLSConfigError(p, tls) = Nil
            /\ OnlySecure(acc.dag, a.dag, vh.fqdn)
            /\ Others(old, new, {"Secret", "MinTLSVersion", "Fallback", "Downstream", "Auth", "AuthTimeout", "MaxBody"})
            /\ new.Secret = tls.secret
            /\ \/ new.Fallback = old.Fallback /\ (a.failed \/ ~tls.fallback)
               \/ tls.fallback /\ new.Fallback = config.fallback /\ FallbackError(p, vh) = Nil
            /\ new.Downstream = old.Downstream \/ (tls.client # Nil /\ new.Downstream = tls.client)
            /\ \/ new.Auth = old.Auth /\ (a.failed \/ ~AuthorizationConfigured(vh))
               \/ AuthorizationConfigured(vh) /\ ext # Nil /\ new.Auth = ext.name

LEMMA SecureVirtualHostFields == DOMAIN SecureVirtualHost = SecureFields
BY DEF SecureVirtualHost, SecureFields

LEMMA ComputeTLSFacts ==
  ASSUME NEW p, NEW acc, DOMAIN acc = RootFields, DOMAIN acc.dag = DAGFields,
         \A h \in DOMAIN acc.dag.SecureVirtualHosts : DOMAIN acc.dag.SecureVirtualHosts[h] = SecureFields
  PROVE  TLSComputed(p, acc, ComputeTLS(p, acc))
<1> DEFINE vh == Proxies[p].vhost
           tls == vh.tls
           host == vh.fqdn
           begun == IF tls.passthrough /\ tls.fallback
                    THEN [acc EXCEPT !.cond = AddError(@, "TLSIncompatibleFeatures")] ELSE acc
           error == TLSConfigError(p, tls)
           ensured == EnsureSecureVirtualHost(begun.dag, host)
           min == MinTLSVersion(tls.minVersion, "1.2")
           secured == [begun EXCEPT !.dag = [ensured EXCEPT !.SecureVirtualHosts[host] =
                        [@ EXCEPT !.Secret = tls.secret, !.MinTLSVersion = min]]]
           fallback == SetSecure(secured, host, [secured.dag.SecureVirtualHosts[host] EXCEPT
                                   !.Fallback = IF tls.fallback THEN config.fallback ELSE @])
           client == ComputeClientValidation(host, tls.client, fallback)
           auth == ComputeAuthorization(host, vh, client)
           old == Ensured(acc.dag, host)
           a == ComputeTLS(p, acc)
<1>1. a = IF tls = Nil THEN acc
          ELSE IF error # Nil THEN Fail(begun, error)
          ELSE IF tls.passthrough THEN begun
          ELSE IF FallbackError(p, vh) # Nil THEN Fail(secured, FallbackError(p, vh))
          ELSE auth
  BY DEF ComputeTLS
<1>2. DOMAIN begun = RootFields /\ begun.updates = acc.updates /\ begun.dag = acc.dag /\ DOMAIN old = SecureFields
  BY SecureVirtualHostFields DEF RootFields, Ensured
<1>3. OnlySecure(acc.dag, ensured, host) /\ ensured.SecureVirtualHosts[host] = old
  <2> HIDE DEF begun
  <2> QED BY <1>2, EnsureSecureFacts
<1> HIDE DEF begun, ensured, old, min
<1> DEFINE sv == [ensured.SecureVirtualHosts[host] EXCEPT !.Secret = tls.secret, !.MinTLSVersion = min]
<1>4. /\ DOMAIN secured = RootFields /\ secured.updates = acc.updates
      /\ secured.dag = [ensured EXCEPT !.SecureVirtualHosts[host] = sv]
  BY <1>2 DEF RootFields
<1>5. Others(old, sv, {"Secret", "MinTLSVersion"}) /\ sv.Secret = tls.secret
  BY <1>2, <1>3, Zenon DEF Others, SecureFields
<1> HIDE DEF secured, sv
<1>6. DOMAIN ensured = DAGFields /\ host \in DOMAIN ensured.SecureVirtualHosts
  BY <1>3 DEF OnlySecure
<1>7. /\ OnlySecure(acc.dag, secured.dag, host) /\ secured.dag.SecureVirtualHosts[host] = sv
      /\ DOMAIN secured.dag = DAGFields /\ host \in DOMAIN secured.dag.SecureVirtualHosts
  <2>1. DOMAIN secured.dag = DAGFields /\ secured.dag.SecureVirtualHosts = [ensured.SecureVirtualHosts EXCEPT ![host] = sv]
    BY <1>4, <1>6 DEF DAGFields
  <2>2. secured.dag.VirtualHosts = ensured.VirtualHosts /\ secured.dag.ExtensionClusters = ensured.ExtensionClusters
    BY <1>4, <1>6 DEF DAGFields
  <2> QED BY <1>3, <1>6, <2>1, <2>2 DEF OnlySecure
<1> DEFINE fb == IF tls.fallback THEN config.fallback ELSE sv.Fallback
           sv2 == [sv EXCEPT !.Fallback = fb]
<1>8. fallback = SetSecure(secured, host, sv2)
  BY <1>7
<1>9. Others(old, sv2, {"Secret", "MinTLSVersion", "Fallback"}) /\ sv2.Secret = tls.secret /\ sv2.Fallback = fb /\ sv.Fallback = old.Fallback
  BY <1>5 DEF Others, SecureFields
<1> HIDE DEF sv2, fallback
<1>10. /\ DOMAIN fallback = RootFields /\ fallback.updates = acc.updates
       /\ OnlySecure(secured.dag, fallback.dag, host) /\ fallback.dag.SecureVirtualHosts[host] = sv2
  <2> DEFINE set == SetSecure(secured, host, sv2)
  <2>1. DOMAIN secured = RootFields /\ DOMAIN secured.dag = DAGFields /\ host \in DOMAIN secured.dag.SecureVirtualHosts
    BY <1>4, <1>7
  <2>2. /\ DOMAIN set = RootFields /\ set.updates = secured.updates
        /\ OnlySecure(secured.dag, set.dag, host) /\ set.dag.SecureVirtualHosts[host] = sv2
    <3> HIDE DEF host
    <3> QED BY <2>1, SetSecureFacts
  <2> HIDE DEF set, host
  <2> QED BY <1>4, <1>8, <2>2 DEF set
<1>11. DOMAIN fallback.dag = DAGFields /\ host \in DOMAIN fallback.dag.SecureVirtualHosts /\ DOMAIN sv2 = SecureFields
  BY <1>7, <1>9, <1>10, Zenon DEF OnlySecure, Others
<1> DEFINE sv3 == client.dag.SecureVirtualHosts[host]
           sv4 == auth.dag.SecureVirtualHosts[host]
<1>12. /\ DOMAIN client = RootFields /\ client.updates = acc.updates
       /\ OnlySecure(fallback.dag, client.dag, host) /\ Others(sv2, sv3, {"Downstream"})
       /\ sv3.Downstream = sv2.Downstream \/ (tls.client # Nil /\ sv3.Downstream = tls.client)
  BY <1>10, <1>11, ClientValidationFacts
<1> HIDE DEF client, sv3
<1>13. DOMAIN client.dag = DAGFields /\ host \in DOMAIN client.dag.SecureVirtualHosts /\ DOMAIN client.dag.SecureVirtualHosts[host] = SecureFields
  BY <1>11, <1>12, Zenon DEF OnlySecure, Others, sv3
<1>14. /\ DOMAIN auth = RootFields /\ auth.updates = acc.updates
       /\ OnlySecure(client.dag, auth.dag, host) /\ Others(sv3, sv4, {"Auth", "AuthTimeout", "MaxBody"})
       /\ \/ sv4.Auth = sv3.Auth /\ (auth.failed \/ ~AuthorizationConfigured(vh))
          \/ /\ AuthorizationConfigured(vh) /\ GetExtensionCluster(client.dag, vh.auth.ext) # Nil
             /\ sv4.Auth = GetExtensionCluster(client.dag, vh.auth.ext).name
  BY <1>12, <1>13, AuthorizationFacts, Zenon DEF sv3
<1>15. ASSUME NEW d, NEW e, NEW f, OnlySecure(d, e, host), OnlySecure(e, f, host) PROVE OnlySecure(d, f, host)
  BY <1>15 DEF OnlySecure
<1> HIDE DEF auth, sv4
<1>16. OnlySecure(acc.dag, auth.dag, host)
  BY <1>7, <1>10, <1>12, <1>14, <1>15
<1>17. GetExtensionCluster(client.dag, vh.auth.ext) = GetExtensionCluster(acc.dag, vh.auth.ext)
  <2>1. client.dag.ExtensionClusters = acc.dag.ExtensionClusters
    BY <1>7, <1>10, <1>12 DEF OnlySecure
  <2> QED BY <2>1 DEF GetExtensionCluster
<1> SUFFICES TLSComputed(p, acc, a)
  OBVIOUS
<1>18. CASE a = acc /\ tls = Nil
  BY <1>18 DEF TLSComputed
<1>19. CASE a = Fail(begun, error)
  <2>1. DOMAIN a = RootFields /\ a.updates = acc.updates /\ a.dag = acc.dag /\ a.failed
    BY <1>2, <1>19 DEF Fail, RootFields
  <2> HIDE DEF a
  <2> QED BY <2>1 DEF TLSComputed
<1>20. CASE a = begun /\ tls.passthrough
  <2> HIDE DEF a
  <2> QED BY <1>2, <1>20 DEF TLSComputed
<1>21. CASE tls # Nil /\ error = Nil /\ ~tls.passthrough /\ a = Fail(secured, FallbackError(p, vh))
  <2>1. DOMAIN a = RootFields /\ a.updates = acc.updates /\ a.dag = secured.dag /\ a.failed
    BY <1>4, <1>21 DEF Fail, RootFields
  <2>2. sv.Fallback = old.Fallback /\ sv.Downstream = old.Downstream /\ sv.Auth = old.Auth
    BY <1>5 DEF Others, SecureFields
  <2>3. Others(old, sv, {"Secret", "MinTLSVersion", "Fallback", "Downstream", "Auth", "AuthTimeout", "MaxBody"})
    BY <1>5, Zenon DEF Others
  <2> HIDE DEF a
  <2> QED BY <1>5, <1>7, <1>21, <2>1, <2>2, <2>3 DEF TLSComputed, old
<1>22. CASE tls # Nil /\ error = Nil /\ ~tls.passthrough /\ FallbackError(p, vh) = Nil /\ a = auth
  <2>1. Others(old, sv4, {"Secret", "MinTLSVersion", "Fallback", "Downstream", "Auth", "AuthTimeout", "MaxBody"})
    BY <1>9, <1>12, <1>14 DEF Others
  <2>2. sv4.Secret = tls.secret /\ sv4.Fallback = fb /\ sv4.Downstream = sv3.Downstream
    BY <1>9, <1>12, <1>14 DEF Others, SecureFields
  <2>3. sv3.Auth = old.Auth /\ sv2.Downstream = old.Downstream
    BY <1>9, <1>12 DEF Others, SecureFields
  <2>4. sv4 = a.dag.SecureVirtualHosts[host]
    BY <1>22 DEF sv4
  <2>5. \/ sv4.Fallback = old.Fallback /\ ~tls.fallback
        \/ tls.fallback /\ sv4.Fallback = config.fallback
    BY <1>9, <2>2
  <2> HIDE DEF a
  <2> QED BY <1>12, <1>14, <1>16, <1>17, <1>22, <2>1, <2>2, <2>3, <2>4, <2>5, Zenon DEF TLSComputed, old
<1> HIDE DEF a, error
<1> QED BY <1>1, <1>18, <1>19, <1>20, <1>21, <1>22

-----------------------------------------------------------------------------
(* Routes of virtual hosts *)

PlainFields == {"Routes", "CORS", "RateLimit"}

(* w is v, with some of the given routes added or put in the place of       *)
(* others.                                                                  *)
Extended(v, w, routes) ==
  /\ RoutesOf(w) \subseteq RoutesOf(v) \union routes
  /\ IsFiniteSet(DOMAIN v.Routes) => IsFiniteSet(DOMAIN w.Routes)

AddRouteStep(vhost, routes, r, s, acc, route) == AddRoute(acc, route)
AddRouteInv(vhost, routes, r, s, acc) ==
  /\ DOMAIN acc = DOMAIN vhost /\ Extended(vhost, acc, routes)
  /\ \A f \in DOMAIN vhost \ {"Routes"} : acc[f] = vhost[f]
RouteAdditions == INSTANCE Loops WITH Step <- AddRouteStep, Inv <- AddRouteInv

LEMMA AddRouteFacts ==
  ASSUME NEW vhost, "Routes" \in DOMAIN vhost, NEW route
  PROVE  LET w == AddRoute(vhost, route)
         IN  /\ DOMAIN w = DOMAIN vhost /\ Extended(vhost, w, {route})
             /\ \A f \in DOMAIN vhost \ {"Routes"} : w[f] = vhost[f]
<1> DEFINE k == ConditionsToString(route)
           w == AddRoute(vhost, route)
<1>1. /\ DOMAIN w = DOMAIN vhost /\ w.Routes = Put(vhost.Routes, k, route)
      /\ \A f \in DOMAIN vhost \ {"Routes"} : w[f] = vhost[f]
  BY DEF AddRoute
<1> HIDE DEF w, k
<1>2. RoutesOf(w) \subseteq RoutesOf(vhost) \union {route}
  BY <1>1 DEF RoutesOf, Put
<1>3. IsFiniteSet(DOMAIN vhost.Routes) => IsFiniteSet(DOMAIN w.Routes)
  <2>1. DOMAIN w.Routes = DOMAIN vhost.Routes \union {k}
    BY <1>1 DEF Put
  <2> QED BY <2>1, FS_AddElement
<1> QED BY <1>1, <1>2, <1>3 DEF w, Extended

LEMMA AddRoutesFacts ==
  ASSUME NEW vhost, "Routes" \in DOMAIN vhost, NEW routes, IsSeq(routes)
  PROVE  AddRouteInv(vhost, Range(routes), Nil, Nil, AddRoutes(vhost, routes))
<1> DEFINE R == Range(routes)
<1>1. AddRoutes(vhost, routes) = RouteAdditions!Loop(vhost, R, Nil, Nil, vhost, routes)
  BY DEF AddRoutes, RouteAdditions!Loop, FoldLeft, MapThenFoldSet, RouteAdditions!Last, Max, AddRouteStep
<1>2. routes \in Seq(R)
  BY DEF IsSeq
<1>3. AddRouteInv(vhost, R, Nil, Nil, vhost)
  BY DEF AddRouteInv, Extended
<1>4. \A acc : \A i \in DOMAIN routes : AddRouteInv(vhost, R, Nil, Nil, acc)
        => AddRouteInv(vhost, R, Nil, Nil, AddRouteStep(vhost, R, Nil, Nil, acc, routes[i]))
  <2> SUFFICES ASSUME NEW acc, NEW i \in DOMAIN routes, AddRouteInv(vhost, R, Nil, Nil, acc)
               PROVE  AddRouteInv(vhost, R, Nil, Nil, AddRoute(acc, routes[i]))
    BY DEF AddRouteStep
  <2> DEFINE w == AddRoute(acc, routes[i])
  <2>1. routes[i] \in R
    BY DEF Range
  <2>2. /\ DOMAIN w = DOMAIN acc /\ Extended(acc, w, {routes[i]})
        /\ \A f \in DOMAIN acc \ {"Routes"} : w[f] = acc[f]
    BY AddRouteFacts, Zenon DEF AddRouteInv
  <2> HIDE DEF w, R
  <2> SUFFICES AddRouteInv(vhost, R, Nil, Nil, w)
    BY DEF w
  <2> QED BY <2>1, <2>2 DEF AddRouteInv, Extended
<1> HIDE DEF R
<1>5. AddRouteInv(vhost, R, Nil, Nil, RouteAdditions!Loop(vhost, R, Nil, Nil, vhost, routes))
  BY <1>2, <1>3, <1>4, RouteAdditions!LoopKeeps
<1> QED BY <1>1, <1>5 DEF R

-----------------------------------------------------------------------------
(* The hosts of a root *)

TCPAdded(host, acc, visit, a) ==
  LET new == a.dag.SecureVirtualHosts[host]
  IN  /\ DOMAIN a = RootFields
      /\ \/ a.dag = acc.dag
         \/ /\ OnlySecure(acc.dag, a.dag, host) /\ Others(Ensured(acc.dag, host), new, {"TCP"})
            /\ new.TCP = visit.clusters /\ visit.clusters # Nil

LEMMA AddTCPFacts ==
  ASSUME NEW acc, DOMAIN acc = RootFields, DOMAIN acc.dag = DAGFields,
         \A h \in DOMAIN acc.dag.SecureVirtualHosts : DOMAIN acc.dag.SecureVirtualHosts[h] = SecureFields,
         NEW host, NEW visit, TCPSound(visit), NEW before, Stays(before, acc.updates)
  PROVE  TCPAdded(host, acc, visit, AddTCP(host, acc, visit)) /\ Stays(before, AddTCP(host, acc, visit).updates)
<1> DEFINE a == AddTCP(host, acc, visit)
           after == AfterVisit(acc, visit)
           ensured == EnsureSecureVirtualHost(acc.dag, host)
           old == Ensured(acc.dag, host)
           tcp == [ensured EXCEPT !.SecureVirtualHosts[host] = [ensured.SecureVirtualHosts[host] EXCEPT !.TCP = visit.clusters]]
<1>1. a = [after EXCEPT !.failed = visit.failed, !.dag = IF visit.clusters = Nil THEN @ ELSE tcp]
  BY DEF AddTCP
<1>2. DOMAIN after = RootFields /\ after.dag = acc.dag /\ Stays(before, after.updates)
  BY AfterVisitStays DEF TCPSound
<1>3. /\ OnlySecure(acc.dag, ensured, host) /\ ensured.SecureVirtualHosts[host] = old /\ DOMAIN old = SecureFields
      /\ DOMAIN ensured = DAGFields /\ host \in DOMAIN ensured.SecureVirtualHosts
  <2>1. OnlySecure(acc.dag, ensured, host) /\ ensured.SecureVirtualHosts[host] = old
    BY EnsureSecureFacts
  <2>2. DOMAIN old = SecureFields
    BY SecureVirtualHostFields DEF Ensured
  <2> HIDE DEF ensured, old
  <2> QED BY <2>1, <2>2 DEF OnlySecure
<1> HIDE DEF after, ensured, old
<1>4. OnlySecure(ensured, tcp, host) /\ tcp.SecureVirtualHosts[host] = [old EXCEPT !.TCP = visit.clusters]
  <2>1. DOMAIN tcp = DAGFields /\ tcp.SecureVirtualHosts = [ensured.SecureVirtualHosts EXCEPT ![host] = [old EXCEPT !.TCP = visit.clusters]]
    BY <1>3 DEF DAGFields
  <2>2. tcp.VirtualHosts = ensured.VirtualHosts /\ tcp.ExtensionClusters = ensured.ExtensionClusters
    BY <1>3 DEF DAGFields
  <2> HIDE DEF tcp
  <2> QED BY <1>3, <2>1, <2>2 DEF OnlySecure
<1> HIDE DEF tcp
<1>5. OnlySecure(acc.dag, tcp, host)
  BY <1>3, <1>4 DEF OnlySecure
<1>6. Others(old, tcp.SecureVirtualHosts[host], {"TCP"}) /\ tcp.SecureVirtualHosts[host].TCP = visit.clusters
  BY <1>3, <1>4 DEF Others, SecureFields
<1>7. /\ DOMAIN a = RootFields /\ a.updates = after.updates
      /\ a.dag = acc.dag \/ (visit.clusters # Nil /\ a.dag = tcp)
  BY <1>1, <1>2 DEF RootFields
<1> HIDE DEF a
<1> QED BY <1>2, <1>5, <1>6, <1>7 DEF TCPAdded, a, old

EnsuredPlain(d, host) == IF host \in DOMAIN d.VirtualHosts THEN d.VirtualHosts[host] ELSE VirtualHost

OnlyPlain(d, d2, host) ==
  /\ DOMAIN d2 = DAGFields
  /\ d2.SecureVirtualHosts = d.SecureVirtualHosts /\ d2.ExtensionClusters = d.ExtensionClusters
  /\ DOMAIN d2.VirtualHosts = DOMAIN d.VirtualHosts \union {host}
  /\ \A h \in DOMAIN d.VirtualHosts \ {host} : d2.VirtualHosts[h] = d.VirtualHosts[h]

LEMMA EnsurePlainFacts ==
  ASSUME NEW d, DOMAIN d = DAGFields, NEW host
  PROVE  LET e == EnsureVirtualHost(d, host)
         IN  OnlyPlain(d, e, host) /\ e.VirtualHosts[host] = EnsuredPlain(d, host)
BY DEF EnsureVirtualHost, OnlyPlain, EnsuredPlain, Put, DAGFields

(* An assignment to a virtual host that is there. *)
LEMMA SetPlainFacts ==
  ASSUME NEW d, DOMAIN d = DAGFields, NEW host \in DOMAIN d.VirtualHosts, NEW v
  PROVE  LET e == [d EXCEPT !.VirtualHosts[host] = v]
         IN  OnlyPlain(d, e, host) /\ e.VirtualHosts[host] = v
<1> DEFINE e == [d EXCEPT !.VirtualHosts[host] = v]
<1>1. DOMAIN e = DAGFields /\ e.VirtualHosts = [d.VirtualHosts EXCEPT ![host] = v]
  BY DEF DAGFields
<1>2. e.SecureVirtualHosts = d.SecureVirtualHosts /\ e.ExtensionClusters = d.ExtensionClusters
  BY DEF DAGFields
<1> HIDE DEF e
<1> QED BY <1>1, <1>2 DEF OnlyPlain, e

LEMMA SetSecureHostFacts ==
  ASSUME NEW d, DOMAIN d = DAGFields, NEW host \in DOMAIN d.SecureVirtualHosts, NEW v
  PROVE  LET e == [d EXCEPT !.SecureVirtualHosts[host] = v]
         IN  OnlySecure(d, e, host) /\ e.SecureVirtualHosts[host] = v
<1> DEFINE e == [d EXCEPT !.SecureVirtualHosts[host] = v]
<1>1. DOMAIN e = DAGFields /\ e.SecureVirtualHosts = [d.SecureVirtualHosts EXCEPT ![host] = v]
  BY DEF DAGFields
<1>2. e.VirtualHosts = d.VirtualHosts /\ e.ExtensionClusters = d.ExtensionClusters
  BY DEF DAGFields
<1> HIDE DEF e
<1> QED BY <1>1, <1>2 DEF OnlySecure, e

(* What adding the routes of a root to its hosts may do: the virtual host   *)
(* is there and has them or, if a policy is refused, those it had; the      *)
(* secure one gets them too, or nothing.                                    *)
HostsAdded(p, d, routes, e) ==
  LET host == Proxies[p].vhost.fqdn
      new == e.SecureVirtualHosts[host]
  IN  /\ DOMAIN e = DAGFields /\ e.ExtensionClusters = d.ExtensionClusters
      /\ DOMAIN e.VirtualHosts = DOMAIN d.VirtualHosts \union {host}
      /\ \A h \in DOMAIN d.VirtualHosts \ {host} : e.VirtualHosts[h] = d.VirtualHosts[h]
      /\ DOMAIN e.VirtualHosts[host] = PlainFields
      /\ Extended(EnsuredPlain(d, host), e.VirtualHosts[host], routes)
      /\ \/ e.SecureVirtualHosts = d.SecureVirtualHosts
         \/ /\ Proxies[p].vhost.tls # Nil
            /\ DOMAIN e.SecureVirtualHosts = DOMAIN d.SecureVirtualHosts \union {host}
            /\ \A h \in DOMAIN d.SecureVirtualHosts \ {host} : e.SecureVirtualHosts[h] = d.SecureVirtualHosts[h]
            /\ Others(Ensured(d, host), new, PlainFields) /\ Extended(Ensured(d, host), new, routes)

(* Every host of a DAG has all its fields. *)
DAGShape(d) ==
  /\ DOMAIN d = DAGFields
  /\ \A h \in DOMAIN d.VirtualHosts : DOMAIN d.VirtualHosts[h] = PlainFields
  /\ \A h \in DOMAIN d.SecureVirtualHosts : DOMAIN d.SecureVirtualHosts[h] = SecureFields

(* A host with its policies, and with the routes added. *)
WithRoutes(v, cors, rlp, routes) == AddRoutes([v EXCEPT !.CORS = cors, !.RateLimit = rlp], routes)

LEMMA WithFacts ==
  ASSUME NEW v, PlainFields \subseteq DOMAIN v, NEW cors, NEW rlp, NEW routes, IsSeq(routes)
  PROVE  LET w == WithRoutes(v, cors, rlp, routes)
         IN  /\ DOMAIN w = DOMAIN v /\ Extended(v, w, Range(routes))
             /\ \A f \in DOMAIN v \ PlainFields : w[f] = v[f]
<1> DEFINE u == [v EXCEPT !.CORS = cors, !.RateLimit = rlp]
           w == AddRoutes(u, routes)
<1>1. DOMAIN u = DOMAIN v /\ u.Routes = v.Routes /\ \A f \in DOMAIN v \ PlainFields : u[f] = v[f]
  BY Zenon DEF PlainFields
<1>2. "Routes" \in DOMAIN u
  BY <1>1 DEF PlainFields
<1> HIDE DEF u
<1>3. AddRouteInv(u, Range(routes), Nil, Nil, w)
  BY <1>2, AddRoutesFacts
<1> HIDE DEF w
<1>4. DOMAIN w = DOMAIN v /\ \A f \in DOMAIN v \ PlainFields : w[f] = v[f]
  BY <1>1, <1>3 DEF AddRouteInv, PlainFields
<1>5. Extended(v, w, Range(routes))
  BY <1>1, <1>3 DEF AddRouteInv, Extended, RoutesOf
<1> QED BY <1>4, <1>5 DEF w, u, WithRoutes

LEMMA AddToHostsFacts ==
  ASSUME NEW p, NEW acc, DOMAIN acc = RootFields, DAGShape(acc.dag),
         NEW visit, IsSeq(visit.commits), IsSeq(visit.routes), NEW ups, Stays(ups, acc.updates)
  PROVE  LET a == AddToHosts(p, acc, visit)
         IN  DOMAIN a = RootFields /\ HostsAdded(p, acc.dag, Range(visit.routes), a.dag) /\ Stays(ups, a.updates)
<1> DEFINE a == AddToHosts(p, acc, visit)
           after == AfterVisit(acc, visit)
           spec == Proxies[p]
           vh == spec.vhost
           host == vh.fqdn
           rlp == RateLimitPolicy(vh.rateLimit, Word)
           insecure == EnsureVirtualHost(after.dag, host)
           With(vhost) == AddRoutes([vhost EXCEPT !.CORS = vh.cors, !.RateLimit = rlp], visit.routes)
           plain == [insecure EXCEPT !.VirtualHosts[host] = With(@)]
           secure == EnsureSecureVirtualHost(plain, host)
           corsSet == IF CORSError(vh.cors) THEN insecure
                      ELSE [insecure EXCEPT !.VirtualHosts[host].CORS = vh.cors]
           both == [secure EXCEPT !.SecureVirtualHosts[host] = With(@)]
           R == Range(visit.routes)
           d == acc.dag
<1>1. a = IF CORSError(vh.cors) THEN Fail([after EXCEPT !.dag = corsSet], "PolicyDidNotParse")
          ELSE IF rlp = Failed THEN Fail([after EXCEPT !.dag = corsSet], "RateLimitPolicyNotValid")
          ELSE IF vh.tls # Nil /\ spec.tcp = Nil THEN [after EXCEPT !.dag = both]
          ELSE [after EXCEPT !.dag = plain]
  BY DEF AddToHosts
<1>2. DOMAIN after = RootFields /\ after.dag = acc.dag /\ Stays(ups, after.updates)
  BY AfterVisitStays
<1> DEFINE v == EnsuredPlain(d, host)
           sv == Ensured(d, host)
<1>3. DOMAIN v = PlainFields /\ DOMAIN sv = SecureFields
  BY DEF DAGShape, EnsuredPlain, Ensured, VirtualHost, SecureVirtualHost, PlainFields, SecureFields
<1>4. OnlyPlain(d, insecure, host) /\ insecure.VirtualHosts[host] = v /\ DOMAIN insecure = DAGFields /\ host \in DOMAIN insecure.VirtualHosts
  <2>1. DOMAIN after.dag = DAGFields
    BY <1>2 DEF DAGShape
  <2>2. OnlyPlain(after.dag, insecure, host) /\ insecure.VirtualHosts[host] = EnsuredPlain(after.dag, host)
    <3> HIDE DEF after
    <3> QED BY <2>1, EnsurePlainFacts
  <2> HIDE DEF insecure, after
  <2> QED BY <1>2, <2>2 DEF OnlyPlain
<1>5. ASSUME NEW w, PlainFields \subseteq DOMAIN w
      PROVE  /\ DOMAIN With(w) = DOMAIN w /\ Extended(w, With(w), R)
             /\ \A f \in DOMAIN w \ PlainFields : With(w)[f] = w[f]
  <2>1. With(w) = WithRoutes(w, vh.cors, rlp, visit.routes)
    BY DEF WithRoutes
  <2> HIDE DEF With
  <2> QED BY <1>5, <2>1, WithFacts
<1> DEFINE wv == With(v)
           wsv == With(sv)
<1>6. DOMAIN wv = PlainFields /\ Extended(v, wv, R)
  <2> HIDE DEF With, v
  <2> QED BY <1>3, <1>5
<1>7. Others(sv, wsv, PlainFields) /\ Extended(sv, wsv, R)
  <2>1. PlainFields \subseteq SecureFields
    BY DEF PlainFields, SecureFields
  <2> HIDE DEF With, sv
  <2> QED BY <1>3, <1>5, <2>1 DEF Others
<1>8. plain = [insecure EXCEPT !.VirtualHosts[host] = wv]
  BY <1>4
<1> HIDE DEF after, insecure, v, sv, wv, wsv, With, rlp, R
<1>9. OnlyPlain(insecure, plain, host) /\ plain.VirtualHosts[host] = wv
  <2>1. OnlyPlain(insecure, [insecure EXCEPT !.VirtualHosts[host] = wv], host) /\ [insecure EXCEPT !.VirtualHosts[host] = wv].VirtualHosts[host] = wv
    <3> HIDE DEF host
    <3> QED BY <1>4, SetPlainFacts
  <2> QED BY <1>8, <2>1, Zenon
<1> HIDE DEF plain
<1>10. OnlyPlain(d, plain, host) /\ DOMAIN plain = DAGFields /\ plain.SecureVirtualHosts = d.SecureVirtualHosts
  BY <1>4, <1>9 DEF OnlyPlain
<1>11. HostsAdded(p, d, R, plain)
  BY <1>6, <1>9, <1>10 DEF HostsAdded, OnlyPlain, v
<1>12. HostsAdded(p, d, R, corsSet)
  <2> DEFINE cv == [v EXCEPT !.CORS = vh.cors]
  <2>1. /\ \A f \in PlainFields : f # "CORS" => cv[f] = v[f]
        /\ DOMAIN cv = PlainFields
    BY <1>3 DEF PlainFields
  <2>2. Extended(v, cv, R) /\ Extended(v, v, R)
    <3>1. cv.Routes = v.Routes
      BY <2>1 DEF PlainFields
    <3> HIDE DEF cv
    <3> QED BY <3>1 DEF Extended, RoutesOf
  <2>3. HostsAdded(p, d, R, insecure)
    BY <1>3, <1>4, <2>2 DEF HostsAdded, OnlyPlain, v
  <2> DEFINE set == [insecure EXCEPT !.VirtualHosts[host].CORS = vh.cors]
  <2>4. set = [insecure EXCEPT !.VirtualHosts[host] = cv]
    BY <1>4
  <2> HIDE DEF cv
  <2>5. OnlyPlain(insecure, set, host) /\ set.VirtualHosts[host] = cv
    <3>1. OnlyPlain(insecure, [insecure EXCEPT !.VirtualHosts[host] = cv], host) /\ [insecure EXCEPT !.VirtualHosts[host] = cv].VirtualHosts[host] = cv
      <4> HIDE DEF host
      <4> QED BY <1>4, SetPlainFacts
    <3> QED BY <2>4, <3>1, Zenon
  <2> HIDE DEF set
  <2>6. HostsAdded(p, d, R, set)
    BY <1>4, <2>1, <2>2, <2>5 DEF HostsAdded, OnlyPlain, v
  <2> QED BY <2>3, <2>6 DEF set
<1>13. OnlySecure(plain, secure, host) /\ secure.SecureVirtualHosts[host] = sv /\ DOMAIN secure = DAGFields /\ host \in DOMAIN secure.SecureVirtualHosts
  <2>1. OnlySecure(plain, secure, host) /\ secure.SecureVirtualHosts[host] = Ensured(plain, host)
    <3> HIDE DEF host
    <3> QED BY <1>10, EnsureSecureFacts
  <2>2. Ensured(plain, host) = sv
    BY <1>10 DEF Ensured, sv
  <2> HIDE DEF secure
  <2> QED BY <2>1, <2>2 DEF OnlySecure
<1>14. both = [secure EXCEPT !.SecureVirtualHosts[host] = wsv]
  BY <1>13 DEF wsv
<1> HIDE DEF secure
<1>15. OnlySecure(secure, both, host) /\ both.SecureVirtualHosts[host] = wsv
  <2>1. OnlySecure(secure, [secure EXCEPT !.SecureVirtualHosts[host] = wsv], host) /\ [secure EXCEPT !.SecureVirtualHosts[host] = wsv].SecureVirtualHosts[host] = wsv
    <3> HIDE DEF host
    <3> QED BY <1>13, SetSecureHostFacts
  <2> QED BY <1>14, <2>1, Zenon
<1> HIDE DEF both
<1>16. HostsAdded(p, d, R, both) \/ vh.tls = Nil
  <2>1. OnlySecure(plain, both, host)
    BY <1>13, <1>15 DEF OnlySecure
  <2> QED BY <1>6, <1>7, <1>9, <1>10, <1>15, <2>1 DEF HostsAdded, OnlyPlain, OnlySecure, v, sv
<1>17. /\ DOMAIN a = RootFields /\ a.updates = after.updates
       /\ a.dag = corsSet \/ a.dag = plain \/ (vh.tls # Nil /\ a.dag = both)
  <2> HIDE DEF corsSet
  <2>1. DOMAIN Fail([after EXCEPT !.dag = corsSet], "PolicyDidNotParse") = RootFields
    BY <1>2 DEF Fail, RootFields
  <2> QED BY <1>1, <1>2 DEF Fail, RootFields
<1> HIDE DEF a, corsSet
<1> QED BY <1>2, <1>11, <1>12, <1>16, <1>17 DEF a, R

-----------------------------------------------------------------------------
(* A root *)

(* The routes of w are those of v and sound ones. *)
Within(enforceTLS, v, w) ==
  /\ \A x \in RoutesOf(w) : x \in RoutesOf(v) \/ RouteSound(enforceTLS, x)
  /\ IsFiniteSet(DOMAIN v.Routes) => IsFiniteSet(DOMAIN w.Routes)

(* The hosts of e are those of d but for one that may be new or other. *)
OnlyHost(d, e, host) ==
  /\ DOMAIN d \subseteq DOMAIN e /\ DOMAIN e \subseteq DOMAIN d \union {host}
  /\ \A h \in DOMAIN d \ {host} : e[h] = d[h]

(* A secure virtual host that a root has filled: all that it is given is    *)
(* what the root asks for, and that may use it.                             *)
SecureFilled(p, d, old, new) ==
  LET vh == Proxies[p].vhost
      tls == vh.tls
      ext == GetExtensionCluster(d, vh.auth.ext)
  IN  /\ Within(tls # Nil, old, new)
      /\ \/ new.Secret = old.Secret
         \/ tls # Nil /\ ~tls.passthrough /\ TLSConfigError(p, tls) = Nil /\ new.Secret = tls.secret
      /\ \/ new.Fallback = old.Fallback
         \/ tls # Nil /\ tls.fallback /\ new.Fallback = config.fallback /\ FallbackError(p, vh) = Nil
      /\ new.Downstream = old.Downstream \/ tls.client # Nil
      /\ new.Auth = old.Auth \/ (AuthorizationConfigured(vh) /\ ext # Nil /\ new.Auth = ext.name)
      /\ new.TCP = old.TCP \/ (new.TCP # Nil /\ Weighed(new.TCP))

(* All the protection that a root with TLS asks for is there. *)
Protected(p, d, e) ==
  LET vh == Proxies[p].vhost
      new == e.SecureVirtualHosts[vh.fqdn]
      ext == GetExtensionCluster(d, vh.auth.ext)
  IN  \/ vh.tls = Nil \/ vh.tls.passthrough
      \/ /\ vh.fqdn \in DOMAIN e.SecureVirtualHosts
         /\ TLSConfigError(p, vh.tls) = Nil /\ new.Secret = vh.tls.secret
         /\ AuthorizationConfigured(vh) => ext # Nil /\ new.Auth = ext.name

(* What computing a root may do to the DAG: its hosts alone are touched; if *)
(* what it asks for is not all there, nothing is served on them.            *)
RootComputed(p, d, e) ==
  LET host == Proxies[p].vhost.fqdn
      old == Ensured(d, host)
      new == e.SecureVirtualHosts[host]
  IN  /\ DAGShape(e) /\ e.ExtensionClusters = d.ExtensionClusters
      /\ OnlyHost(d.VirtualHosts, e.VirtualHosts, host) /\ OnlyHost(d.SecureVirtualHosts, e.SecureVirtualHosts, host)
      /\ host \in DOMAIN e.VirtualHosts =>
           Within(Proxies[p].vhost.tls # Nil, EnsuredPlain(d, host), e.VirtualHosts[host])
      /\ host \in DOMAIN e.SecureVirtualHosts => SecureFilled(p, d, old, new)
      /\ \/ Protected(p, d, e)
         \/ /\ e.VirtualHosts = d.VirtualHosts
            /\ host \in DOMAIN e.SecureVirtualHosts => new.Routes = old.Routes /\ new.TCP = old.TCP

(* The first step of a root, its TLS. *)
LEMMA TLSComputedRoot ==
  ASSUME NEW p, NEW acc, DAGShape(acc.dag), NEW a, TLSComputed(p, acc, a)
  PROVE  RootComputed(p, acc.dag, a.dag) /\ (a.failed \/ Protected(p, acc.dag, a.dag))
<1> DEFINE d == acc.dag
           e == a.dag
           vh == Proxies[p].vhost
           tls == vh.tls
           host == vh.fqdn
           old == Ensured(d, host)
           new == e.SecureVirtualHosts[host]
           ext == GetExtensionCluster(d, vh.auth.ext)
<1>1. ASSUME NEW v PROVE Within(tls # Nil, v, v)
  BY DEF Within
<1>2. CASE e = d /\ (a.failed \/ tls = Nil \/ tls.passthrough)
  <2>1. host \in DOMAIN e.VirtualHosts => EnsuredPlain(d, host) = e.VirtualHosts[host]
    BY <1>2 DEF EnsuredPlain
  <2>2. host \in DOMAIN e.SecureVirtualHosts => old = new
    BY <1>2 DEF Ensured
  <2>3. host \in DOMAIN e.SecureVirtualHosts => SecureFilled(p, d, old, new)
    BY <1>1, <2>2 DEF SecureFilled
  <2>4. a.failed \/ Protected(p, d, e)
    BY <1>2 DEF Protected
  <2>5. OnlyHost(d.VirtualHosts, e.VirtualHosts, host) /\ OnlyHost(d.SecureVirtualHosts, e.SecureVirtualHosts, host)
    BY <1>2 DEF OnlyHost
  <2> HIDE DEF old, new
  <2> QED BY <1>1, <1>2, <2>1, <2>2, <2>3, <2>4, <2>5 DEF RootComputed, old, new
<1>3. CASE /\ tls # Nil /\ ~tls.passthrough /\ TLSConfigError(p, tls) = Nil
           /\ OnlySecure(d, e, host)
           /\ Others(old, new, {"Secret", "MinTLSVersion", "Fallback", "Downstream", "Auth", "AuthTimeout", "MaxBody"})
           /\ new.Secret = tls.secret
           /\ \/ new.Fallback = old.Fallback /\ (a.failed \/ ~tls.fallback)
              \/ tls.fallback /\ new.Fallback = config.fallback /\ FallbackError(p, vh) = Nil
           /\ new.Downstream = old.Downstream \/ (tls.client # Nil /\ new.Downstream = tls.client)
           /\ \/ new.Auth = old.Auth /\ (a.failed \/ ~AuthorizationConfigured(vh))
              \/ AuthorizationConfigured(vh) /\ ext # Nil /\ new.Auth = ext.name
  <2>1. /\ e.VirtualHosts = d.VirtualHosts /\ e.ExtensionClusters = d.ExtensionClusters /\ DOMAIN e = DAGFields
        /\ DOMAIN e.SecureVirtualHosts = DOMAIN d.SecureVirtualHosts \union {host}
        /\ \A h \in DOMAIN d.SecureVirtualHosts \ {host} : e.SecureVirtualHosts[h] = d.SecureVirtualHosts[h]
    BY <1>3, Zenon DEF OnlySecure
  <2>2. DOMAIN new = SecureFields /\ new.Routes = old.Routes /\ new.TCP = old.TCP
    BY <1>3, Zenon DEF Others, SecureFields
  <2>3. DAGShape(e)
    <3> HIDE DEF e
    <3>1. DOMAIN e.SecureVirtualHosts[host] = SecureFields
      BY <2>2
    <3> QED BY <2>1, <3>1 DEF DAGShape
  <2>4. OnlyHost(d.VirtualHosts, e.VirtualHosts, host) /\ OnlyHost(d.SecureVirtualHosts, e.SecureVirtualHosts, host)
    BY <2>1 DEF OnlyHost
  <2>5. host \in DOMAIN e.VirtualHosts => EnsuredPlain(d, host) = e.VirtualHosts[host]
    BY <2>1 DEF EnsuredPlain
  <2>6. Within(tls # Nil, old, new)
    BY <2>2 DEF Within, RoutesOf
  <2> HIDE DEF old, new
  <2>7. SecureFilled(p, d, old, new)
    BY <1>3, <2>2, <2>6, Zenon DEF SecureFilled
  <2>8. a.failed \/ Protected(p, d, e)
    BY <1>3, <2>1, Zenon DEF Protected, new
  <2> QED BY <1>1, <2>1, <2>2, <2>3, <2>4, <2>5, <2>7, <2>8 DEF RootComputed, old, new
<1> QED BY <1>2, <1>3 DEF TLSComputed

(* Its second step, the TCP proxy. *)
LEMMA TCPAddedRoot ==
  ASSUME NEW p, NEW d, DAGShape(d), NEW acc, RootComputed(p, d, acc.dag), Protected(p, d, acc.dag),
         NEW visit, TCPSound(visit), NEW a, TCPAdded(Proxies[p].vhost.fqdn, acc, visit, a)
  PROVE  RootComputed(p, d, a.dag) /\ Protected(p, d, a.dag)
<1> DEFINE e == acc.dag
           f == a.dag
           vh == Proxies[p].vhost
           host == vh.fqdn
           old == Ensured(d, host)
           mid == Ensured(e, host)
           new == f.SecureVirtualHosts[host]
<1>1. CASE f = e
  BY <1>1
<1>2. CASE /\ OnlySecure(e, f, host) /\ Others(mid, new, {"TCP"})
           /\ new.TCP = visit.clusters /\ visit.clusters # Nil
  <2>1. /\ f.VirtualHosts = e.VirtualHosts /\ f.ExtensionClusters = e.ExtensionClusters /\ DOMAIN f = DAGFields
        /\ DOMAIN f.SecureVirtualHosts = DOMAIN e.SecureVirtualHosts \union {host}
        /\ \A h \in DOMAIN e.SecureVirtualHosts \ {host} : f.SecureVirtualHosts[h] = e.SecureVirtualHosts[h]
    BY <1>2 DEF OnlySecure
  <2>2. /\ DOMAIN new = SecureFields /\ new.Routes = mid.Routes /\ new.Secret = mid.Secret /\ new.Fallback = mid.Fallback
        /\ new.Downstream = mid.Downstream /\ new.Auth = mid.Auth /\ new.TCP # Nil /\ Weighed(new.TCP)
    BY <1>2 DEF Others, SecureFields, TCPSound
  <2>3. /\ DAGShape(e) /\ e.ExtensionClusters = d.ExtensionClusters
        /\ OnlyHost(d.VirtualHosts, e.VirtualHosts, host) /\ OnlyHost(d.SecureVirtualHosts, e.SecureVirtualHosts, host)
        /\ host \in DOMAIN e.VirtualHosts =>
             Within(vh.tls # Nil, EnsuredPlain(d, host), e.VirtualHosts[host])
        /\ host \in DOMAIN e.SecureVirtualHosts => SecureFilled(p, d, old, e.SecureVirtualHosts[host])
    BY DEF RootComputed
  <2>4. DAGShape(f)
    <3> HIDE DEF f, e
    <3>1. DOMAIN f.SecureVirtualHosts[host] = SecureFields
      BY <2>2
    <3> QED BY <2>1, <2>3, <3>1 DEF DAGShape
  <2>5. OnlyHost(d.SecureVirtualHosts, f.SecureVirtualHosts, host)
    BY <2>1, <2>3 DEF OnlyHost
  <2>6. SecureFilled(p, d, old, mid)
    <3>1. CASE host \in DOMAIN e.SecureVirtualHosts
      BY <2>3, <3>1 DEF Ensured
    <3>2. CASE host \notin DOMAIN e.SecureVirtualHosts
      <4>1. mid = old
        BY <2>3, <3>2 DEF Ensured, OnlyHost
      <4> QED BY <4>1 DEF SecureFilled, Within
    <3> QED BY <3>1, <3>2
  <2> HIDE DEF old, mid, new
  <2>7. Within(vh.tls # Nil, old, new)
    BY <2>2, <2>6 DEF SecureFilled, Within, RoutesOf
  <2>8. SecureFilled(p, d, old, new)
    BY <2>2, <2>6, <2>7, Zenon DEF SecureFilled
  <2>9. Protected(p, d, f)
    BY <2>1, <2>2, Zenon DEF Protected, Ensured, mid, new
  <2> QED BY <2>1, <2>3, <2>4, <2>5, <2>8, <2>9 DEF RootComputed, old, new
<1> QED BY <1>1, <1>2 DEF TCPAdded

(* And its third, the routes. *)
LEMMA HostsAddedRoot ==
  ASSUME NEW p, NEW d, DAGShape(d), NEW e, RootComputed(p, d, e), Protected(p, d, e),
         NEW R, \A x \in R : RouteSound(Proxies[p].vhost.tls # Nil, x), NEW f, HostsAdded(p, e, R, f)
  PROVE  RootComputed(p, d, f)
<1> DEFINE vh == Proxies[p].vhost
           host == vh.fqdn
           old == Ensured(d, host)
           mid == Ensured(e, host)
           new == f.SecureVirtualHosts[host]
           oldv == EnsuredPlain(d, host)
           midv == EnsuredPlain(e, host)
           newv == f.VirtualHosts[host]
<1>1. /\ DAGShape(e) /\ e.ExtensionClusters = d.ExtensionClusters
      /\ OnlyHost(d.VirtualHosts, e.VirtualHosts, host) /\ OnlyHost(d.SecureVirtualHosts, e.SecureVirtualHosts, host)
      /\ host \in DOMAIN e.VirtualHosts => Within(vh.tls # Nil, oldv, e.VirtualHosts[host])
      /\ host \in DOMAIN e.SecureVirtualHosts => SecureFilled(p, d, old, e.SecureVirtualHosts[host])
  BY DEF RootComputed
<1>2. /\ DOMAIN f = DAGFields /\ f.ExtensionClusters = e.ExtensionClusters
      /\ DOMAIN f.VirtualHosts = DOMAIN e.VirtualHosts \union {host}
      /\ \A h \in DOMAIN e.VirtualHosts \ {host} : f.VirtualHosts[h] = e.VirtualHosts[h]
      /\ DOMAIN newv = PlainFields
      /\ Extended(midv, newv, R)
  BY DEF HostsAdded
<1>3. \/ f.SecureVirtualHosts = e.SecureVirtualHosts
      \/ /\ DOMAIN f.SecureVirtualHosts = DOMAIN e.SecureVirtualHosts \union {host}
         /\ \A h \in DOMAIN e.SecureVirtualHosts \ {host} : f.SecureVirtualHosts[h] = e.SecureVirtualHosts[h]
         /\ Others(mid, new, PlainFields) /\ Extended(mid, new, R)
  BY DEF HostsAdded
<1>4. OnlyHost(d.VirtualHosts, f.VirtualHosts, host) /\ OnlyHost(d.SecureVirtualHosts, f.SecureVirtualHosts, host)
  BY <1>1, <1>2, <1>3 DEF OnlyHost
<1>5. Within(vh.tls # Nil, oldv, midv)
  <2>1. CASE host \in DOMAIN e.VirtualHosts
    BY <1>1, <2>1 DEF EnsuredPlain
  <2>2. CASE host \notin DOMAIN e.VirtualHosts
    <3>1. midv = oldv
      BY <1>1, <2>2 DEF EnsuredPlain, OnlyHost
    <3> QED BY <3>1 DEF Within
  <2> QED BY <2>1, <2>2
<1>6. SecureFilled(p, d, old, mid)
  <2>1. CASE host \in DOMAIN e.SecureVirtualHosts
    BY <1>1, <2>1 DEF Ensured
  <2>2. CASE host \notin DOMAIN e.SecureVirtualHosts
    <3>1. mid = old
      BY <1>1, <2>2 DEF Ensured, OnlyHost
    <3> QED BY <3>1 DEF SecureFilled, Within
  <2> QED BY <2>1, <2>2
<1> HIDE DEF old, mid, new, oldv, midv, newv
<1>7. Within(vh.tls # Nil, oldv, newv)
  BY <1>2, <1>5 DEF Within, Extended
<1>8. ASSUME Others(mid, new, PlainFields), Extended(mid, new, R) PROVE SecureFilled(p, d, old, new)
  <2>1. /\ new.Secret = mid.Secret /\ new.Fallback = mid.Fallback
        /\ new.Downstream = mid.Downstream /\ new.Auth = mid.Auth /\ new.TCP = mid.TCP
    BY <1>8 DEF Others, SecureFields, PlainFields
  <2>2. Within(vh.tls # Nil, old, new)
    BY <1>6, <1>8 DEF SecureFilled, Within, Extended
  <2> QED BY <1>6, <2>1, <2>2 DEF SecureFilled
<1>9. host \in DOMAIN f.SecureVirtualHosts => SecureFilled(p, d, old, new)
  <2>1. CASE f.SecureVirtualHosts = e.SecureVirtualHosts
    BY <1>1, <2>1 DEF new
  <2> QED BY <1>3, <1>8, <2>1
<1>10. DAGShape(f)
  <2>1. \A h \in DOMAIN f.VirtualHosts : DOMAIN f.VirtualHosts[h] = PlainFields
    BY <1>1, <1>2 DEF DAGShape, newv
  <2>2. \A h \in DOMAIN f.SecureVirtualHosts : DOMAIN f.SecureVirtualHosts[h] = SecureFields
    BY <1>1, <1>3 DEF DAGShape, Others, new
  <2> QED BY <1>2, <2>1, <2>2 DEF DAGShape
<1>11. Protected(p, d, f)
  <2>1. CASE f.SecureVirtualHosts = e.SecureVirtualHosts
    BY <2>1 DEF Protected
  <2>2. CASE /\ DOMAIN f.SecureVirtualHosts = DOMAIN e.SecureVirtualHosts \union {host}
             /\ Others(mid, new, PlainFields)
    <3>1. new.Secret = mid.Secret /\ new.Auth = mid.Auth
      BY <2>2 DEF Others, SecureFields, PlainFields
    <3> QED BY <2>2, <3>1 DEF Protected, mid, new, Ensured
  <2> QED BY <1>3, <2>1, <2>2
<1> QED BY <1>1, <1>2, <1>4, <1>7, <1>9, <1>10, <1>11 DEF RootComputed, old, new, oldv, newv

LEMMA ComputeRootFacts ==
  ASSUME NEW p \in DOMAIN Proxies, ProxiesWellFormed, NEW acc, DOMAIN acc = RootFields, DAGShape(acc.dag)
  PROVE  LET a == ComputeRoot(p, acc)
         IN  DOMAIN a = RootFields /\ RootComputed(p, acc.dag, a.dag) /\ Stays(acc.updates, a.updates)
<1> DEFINE spec == Proxies[p]
           d == acc.dag
           tls == ComputeTLS(p, acc)
           TCP(a) == IF a.failed \/ spec.tcp = Nil THEN a
                     ELSE IF spec.vhost.tls = Nil THEN Fail(a, "TLSMustBeConfigured")
                     ELSE AddTCP(spec.vhost.fqdn, a, ProcessTCPProxy(p))
           tcp == TCP(tls)
           visit == ComputeRoutes(p, spec.vhost.tls # Nil)
           routed == IF tcp.failed THEN tcp ELSE AddToHosts(p, tcp, visit)
           a == ComputeRoot(p, acc)
<1>1. a = IF RootError(p) # Nil THEN Fail(acc, RootError(p)) ELSE routed
  BY DEF ComputeRoot
<1>2. TLSComputed(p, acc, tls)
  BY ComputeTLSFacts, Zenon DEF DAGShape
<1> HIDE DEF tls
<1>3. RootComputed(p, d, tls.dag) /\ (tls.failed \/ Protected(p, d, tls.dag)) /\ DOMAIN tls = RootFields /\ tls.updates = acc.updates
  BY <1>2, TLSComputedRoot, Zenon DEF TLSComputed
<1>4. Stays(acc.updates, acc.updates)
  BY DEF Stays
<1>5. TCPSound(ProcessTCPProxy(p))
  BY ProcessTCPProxySound
<1>6. VisitSound(spec.vhost.tls # Nil, visit)
  BY ComputeRoutesSound DEF VisitedSound, AsAsked
<1>7. /\ DOMAIN tcp = RootFields /\ RootComputed(p, d, tcp.dag) /\ Stays(acc.updates, tcp.updates)
      /\ tcp.failed \/ Protected(p, d, tcp.dag)
  <2> DEFINE host == spec.vhost.fqdn
             pv == ProcessTCPProxy(p)
             add == AddTCP(host, tls, pv)
  <2>1. CASE tcp = tls
    BY <1>3, <1>4, <2>1
  <2>2. CASE tcp = Fail(tls, "TLSMustBeConfigured")
    <3>1. DOMAIN tcp = RootFields /\ tcp.dag = tls.dag /\ tcp.updates = tls.updates /\ tcp.failed
      BY <1>3, <2>2, Zenon DEF Fail, RootFields
    <3> HIDE DEF tcp
    <3> QED BY <1>3, <1>4, <3>1
  <2>3. CASE tcp = add /\ ~tls.failed
    <3>1. /\ DAGShape(tls.dag) /\ DOMAIN tls.dag = DAGFields
          /\ \A h \in DOMAIN tls.dag.SecureVirtualHosts : DOMAIN tls.dag.SecureVirtualHosts[h] = SecureFields
      BY <1>3 DEF RootComputed, DAGShape
    <3>2. TCPAdded(host, tls, pv, add) /\ Stays(acc.updates, add.updates)
      <4>1. TCPSound(pv) /\ Stays(acc.updates, tls.updates)
        BY <1>3, <1>4, <1>5
      <4> HIDE DEF host, pv
      <4> QED BY <1>3, <3>1, <4>1, AddTCPFacts, Zenon
    <3> HIDE DEF add, tcp, pv
    <3>3. RootComputed(p, d, add.dag) /\ Protected(p, d, add.dag)
      BY <1>3, <1>5, <2>3, <3>2, TCPAddedRoot DEF pv
    <3> QED BY <2>3, <3>2, <3>3 DEF TCPAdded
  <2> QED BY <2>1, <2>2, <2>3
<1> HIDE DEF tcp, visit
<1>8. DOMAIN routed = RootFields /\ RootComputed(p, d, routed.dag) /\ Stays(acc.updates, routed.updates)
  <2>1. CASE tcp.failed
    BY <1>7, <2>1
  <2>2. CASE ~tcp.failed
    <3> DEFINE h == AddToHosts(p, tcp, visit)
    <3>1. DAGShape(tcp.dag) /\ IsSeq(visit.commits) /\ IsSeq(visit.routes) /\ \A x \in Range(visit.routes) : RouteSound(spec.vhost.tls # Nil, x)
      BY <1>6, <1>7 DEF RootComputed, VisitSound, CommitsSound, RoutesSound
    <3>2. DOMAIN h = RootFields /\ HostsAdded(p, tcp.dag, Range(visit.routes), h.dag) /\ Stays(acc.updates, h.updates)
      BY <1>7, <3>1, AddToHostsFacts, Zenon
    <3> HIDE DEF h
    <3>3. RootComputed(p, d, h.dag)
      BY <1>7, <2>2, <3>1, <3>2, HostsAddedRoot
    <3> QED BY <2>2, <3>2, <3>3 DEF h
  <2> QED BY <2>1, <2>2
<1>9. CASE a = Fail(acc, RootError(p))
  <2>1. DOMAIN a = RootFields /\ a.dag = acc.dag /\ a.updates = acc.updates
    BY <1>9 DEF Fail, RootFields
  <2> DEFINE same == [acc EXCEPT !.failed = TRUE]
  <2>2. TLSComputed(p, acc, same) /\ same.dag = acc.dag
    <3>1. DOMAIN same = RootFields /\ same.updates = acc.updates /\ same.dag = acc.dag /\ same.failed
      BY DEF RootFields
    <3> HIDE DEF same
    <3> QED BY <3>1 DEF TLSComputed
  <2> HIDE DEF a, same
  <2>3. RootComputed(p, d, same.dag)
    BY <2>2, TLSComputedRoot
  <2> QED BY <1>4, <2>1, <2>2, <2>3 DEF a
<1> HIDE DEF a, routed
<1> QED BY <1>1, <1>8, <1>9 DEF a

(* A root without TLS, wherever its processing ends, takes the proxies      *)
(* below it from the orphaned ones unless it is refused at the start.       *)
LEMMA PlainRootComputed ==
  ASSUME ProxiesWellFormed, NEW p \in DOMAIN Proxies, PlainRoot(p),
         NEW acc, DOMAIN acc = RootFields, OwnCondition(acc.cond), ~acc.failed, StatusesSound(acc.updates)
  PROVE  LET a == ComputeRoot(p, acc)
         IN  /\ OwnCondition(a.cond) /\ StatusesSound(a.updates) /\ DOMAIN acc.updates \subseteq DOMAIN a.updates
             /\ a.orphaned = IF RootError(p) = Nil THEN acc.orphaned \ Below(p) ELSE acc.orphaned
<1> DEFINE a == ComputeRoot(p, acc)
           visit == ComputeRoutes(p, FALSE)
           after == AfterVisit(acc, visit)
           hosts == AddToHosts(p, acc, visit)
<1>1. a = IF RootError(p) # Nil THEN Fail(acc, RootError(p)) ELSE hosts
  <2>1. Proxies[p].vhost.tls = Nil /\ Proxies[p].tcp = Nil
    BY DEF PlainRoot
  <2>2. ComputeTLS(p, acc) = acc
    BY <2>1 DEF ComputeTLS
  <2>3. (Proxies[p].vhost.tls # Nil) = FALSE
    BY <2>1
  <2> QED BY <2>1, <2>2, <2>3, Zenon DEF ComputeRoot
<1>2. RootError(p) # Nil => OwnReason(RootError(p))
  BY OwnReasons, Zenon DEF RootError
<1>3. VisitSound(FALSE, visit) /\ visit.freed = Below(p)
  <2>1. VisitSound(FALSE, visit)
    BY ComputeRoutesSound DEF VisitedSound, AsAsked, PlainRoot
  <2>2. visit.freed = Below(p)
    BY FreedByRoot DEF AsAsked, PlainRoot
  <2> QED BY <2>1, <2>2
<1> HIDE DEF visit
<1>4. /\ DOMAIN after = RootFields /\ OwnCondition(after.cond) /\ after.orphaned = acc.orphaned \ Below(p)
      /\ StatusesSound(after.updates) /\ DOMAIN acc.updates \subseteq DOMAIN after.updates
  <2>1. CommitsSound(visit.commits) /\ OwnCondition(visit.cond)
    BY <1>3 DEF VisitSound
  <2>2. LET after2 == AfterVisit(acc, visit)
        IN  /\ DOMAIN after2 = RootFields /\ OwnCondition(after2.cond) /\ after2.orphaned = acc.orphaned \ visit.freed
            /\ StatusesSound(after2.updates) /\ DOMAIN acc.updates \subseteq DOMAIN after2.updates
    BY <2>1, AfterVisitSound
  <2> QED BY <1>3, <2>2
<1>5. \/ \E d : hosts = [after EXCEPT !.dag = d]
      \/ \E d, reason : OwnReason(reason) /\ hosts = Fail([after EXCEPT !.dag = d], reason)
  BY OwnReasons, Zenon DEF AddToHosts
<1> HIDE DEF after, hosts
<1>6. OwnCondition(hosts.cond) /\ hosts.updates = after.updates /\ hosts.orphaned = after.orphaned
  <2>1. CASE \E d : hosts = [after EXCEPT !.dag = d]
    BY <1>4, <2>1 DEF RootFields
  <2>2. CASE \E d, reason : OwnReason(reason) /\ hosts = Fail([after EXCEPT !.dag = d], reason)
    <3>1. PICK d, reason : OwnReason(reason) /\ hosts = Fail([after EXCEPT !.dag = d], reason)
      BY <2>2
    <3>2. hosts.cond = AddError(after.cond, reason) /\ hosts.updates = after.updates /\ hosts.orphaned = after.orphaned
      BY <1>4, <3>1 DEF Fail, RootFields
    <3> QED BY <1>4, <3>1, <3>2, OwnConditionAdds
  <2> QED BY <1>5, <2>1, <2>2
<1>7. CASE RootError(p) = Nil
  BY <1>1, <1>4, <1>6, <1>7
<1>8. CASE RootError(p) # Nil
  <2>1. a = Fail(acc, RootError(p))
    BY <1>1, <1>8
  <2>2. a.cond = AddError(acc.cond, RootError(p)) /\ a.updates = acc.updates /\ a.orphaned = acc.orphaned
    BY <2>1 DEF Fail, RootFields
  <2> QED BY <1>2, <1>8, <2>2, OwnConditionAdds
<1> QED BY <1>7, <1>8

(* Of the proxies on a cycle that such a root leads into, one is reported. *)
LEMMA PlainRootReports ==
  ASSUME ProxiesWellFormed, NEW p \in DOMAIN Proxies, PlainRoot(p), RootError(p) = Nil,
         NEW acc, DOMAIN acc = RootFields, ~acc.failed, NEW C, Looping(C), Below(p) \cap C # {}
  PROVE  LET ups == ComputeRoot(p, acc).updates IN \E q \in C \cap DOMAIN ups : ups[q].errors # {}
<1> DEFINE a == ComputeRoot(p, acc)
           visit == ComputeRoutes(p, FALSE)
           after == AfterVisit(acc, visit)
           hosts == AddToHosts(p, acc, visit)
           v0 == [proxy |-> p, conds |-> <<>>, visited |-> <<>>]
<1>1. a = hosts
  <2>1. Proxies[p].vhost.tls = Nil /\ Proxies[p].tcp = Nil
    BY DEF PlainRoot
  <2>2. ComputeTLS(p, acc) = acc
    BY <2>1 DEF ComputeTLS
  <2>3. (Proxies[p].vhost.tls # Nil) = FALSE
    BY <2>1
  <2> QED BY <2>1, <2>2, <2>3, Zenon DEF ComputeRoot
<1>2. VisitSound(FALSE, visit) /\ CyclesSeen(v0, visit) /\ visit.freed = Below(p)
  <2>1. VisitSound(FALSE, visit) /\ CyclesSeen(v0, visit)
    BY ComputeRoutesSound DEF VisitedSound, AsAsked, PlainRoot
  <2>2. visit.freed = Below(p)
    BY FreedByRoot DEF AsAsked, PlainRoot
  <2> QED BY <2>1, <2>2
<1> HIDE DEF visit, v0
<1>3. PICK c \in Range(visit.commits) : c.proxy \in C /\ c.cond.errors # {}
  BY <1>2 DEF CyclesSeen, CyclesFound, Reports
<1>4. IsSeq(visit.commits)
  BY <1>2 DEF VisitSound, CommitsSound
<1>5. c.proxy \in DOMAIN after.updates /\ after.updates[c.proxy].errors # {} /\ DOMAIN after = RootFields
  <2>1. LET ups == AfterVisit(acc, visit).updates IN c.proxy \in DOMAIN ups /\ ups[c.proxy].errors # {}
    BY <1>3, <1>4, AfterVisitReports
  <2>2. DOMAIN after = RootFields
    BY DEF AfterVisit
  <2> QED BY <2>1, <2>2
<1>6. \/ \E d : hosts = [after EXCEPT !.dag = d]
      \/ \E d, reason : hosts = Fail([after EXCEPT !.dag = d], reason)
  BY Zenon DEF AddToHosts
<1> HIDE DEF after, hosts
<1>7. hosts.updates = after.updates
  BY <1>5, <1>6 DEF Fail, RootFields
<1> QED BY <1>1, <1>3, <1>5, <1>7

-----------------------------------------------------------------------------
(* The invariant *)

HostOf(p) == Proxies[p].vhost.fqdn
Computed == {p \in DOMAIN Proxies \ todo : IsRoot(p) /\ ~Conflicting(p)}

(* Each host is that of a root which has been computed. *)
HostsOwned ==
  \A h \in DOMAIN dag.VirtualHosts \union DOMAIN dag.SecureVirtualHosts :
    \E p \in Computed : h = HostOf(p)

(* What a root has left behind, on hosts that were not there before. *)
RootSound(p, d) ==
  LET host == HostOf(p)
      vh == Proxies[p].vhost
      new == d.SecureVirtualHosts[host]
      routes == RoutesOf(d.VirtualHosts[host])
  IN  /\ host \in DOMAIN d.VirtualHosts => \A x \in routes : RouteSound(vh.tls # Nil, x)
      /\ host \in DOMAIN d.SecureVirtualHosts /\ new.Fallback # Nil =>
             vh.tls.fallback /\ new.Fallback = config.fallback /\ FallbackError(p, vh) = Nil /\ new.Downstream = Nil /\ new.Auth = Nil
      /\ \/ Protected(p, d, d)
         \/ /\ host \in DOMAIN d.VirtualHosts => routes = {}
            /\ host \in DOMAIN d.SecureVirtualHosts => ~SecureValid(new)

ProxyInv ==
  /\ ProxiesWellFormed /\ DAGShape(dag)
  /\ phase \in {"list", "compute", "done"}
  /\ phase = "list" => updates = <<>> /\ dag.VirtualHosts = <<>> /\ dag.SecureVirtualHosts = <<>>
  /\ phase # "list" => /\ todo \subseteq {p \in DOMAIN Proxies : ~Conflicting(p)} /\ HostsOwned
                       /\ \A p \in Computed : RootSound(p, dag)

(* A root whose hosts are new. *)
LEMMA RootComputedSound ==
  ASSUME NEW p, NEW d, NEW e, RootComputed(p, d, e), HostOf(p) \notin DOMAIN d.VirtualHosts,
         HostOf(p) \notin DOMAIN d.SecureVirtualHosts
  PROVE  RootSound(p, e)
<1> DEFINE host == HostOf(p)
           vh == Proxies[p].vhost
           new == e.SecureVirtualHosts[host]
           routes == RoutesOf(e.VirtualHosts[host])
<1>1. host = vh.fqdn /\ Ensured(d, host) = SecureVirtualHost /\ EnsuredPlain(d, host) = VirtualHost
  BY DEF HostOf, Ensured, EnsuredPlain
<1>2. RoutesOf(VirtualHost) = {} /\ RoutesOf(SecureVirtualHost) = {}
  BY DEF RoutesOf, VirtualHost, SecureVirtualHost
<1>3. host \in DOMAIN e.VirtualHosts => \A x \in routes : RouteSound(vh.tls # Nil, x)
  <2>1. host \in DOMAIN e.VirtualHosts => Within(vh.tls # Nil, VirtualHost, e.VirtualHosts[host])
    BY <1>1 DEF RootComputed
  <2> QED BY <1>2, <2>1 DEF Within
<1>4. host \in DOMAIN e.SecureVirtualHosts => SecureFilled(p, d, SecureVirtualHost, new)
  BY <1>1 DEF RootComputed
<1>5. /\ SecureVirtualHost.Fallback = Nil /\ SecureVirtualHost.Downstream = Nil /\ SecureVirtualHost.Auth = Nil
      /\ SecureVirtualHost.Secret = Nil /\ SecureVirtualHost.Routes = <<>> /\ SecureVirtualHost.TCP = Nil
  BY DEF SecureVirtualHost
<1> HIDE DEF new, host
<1>6. ASSUME FallbackError(p, vh) = Nil, vh.tls.fallback PROVE vh.tls.client = Nil /\ ~AuthorizationConfigured(vh)
  <2>1. "TLSIncompatibleFeatures" # Nil
    BY TLSReasonsAssumption DEF TLSReasons
  <2> QED BY <1>6, <2>1 DEF FallbackError, AuthorizationConfigured
<1>7. host \in DOMAIN e.SecureVirtualHosts /\ new.Fallback # Nil =>
        vh.tls.fallback /\ new.Fallback = config.fallback /\ FallbackError(p, vh) = Nil /\ new.Downstream = Nil /\ new.Auth = Nil
  BY <1>4, <1>5, <1>6 DEF SecureFilled
<1>8. CASE Protected(p, d, e)
  <2>1. Protected(p, e, e)
    <3>1. GetExtensionCluster(d, vh.auth.ext) = GetExtensionCluster(e, vh.auth.ext)
      BY DEF RootComputed, GetExtensionCluster
    <3> QED BY <1>8, <3>1 DEF Protected
  <2> QED BY <1>3, <1>7, <2>1 DEF RootSound, host, new
<1>9. CASE /\ e.VirtualHosts = d.VirtualHosts
           /\ host \in DOMAIN e.SecureVirtualHosts => new.Routes = <<>> /\ new.TCP = Nil
  <2>1. host \notin DOMAIN e.VirtualHosts /\ (host \in DOMAIN e.SecureVirtualHosts => ~SecureValid(new))
    BY <1>9 DEF SecureValid, host
  <2> QED BY <1>3, <1>7, <2>1 DEF RootSound, host, new
<1> QED BY <1>1, <1>5, <1>8, <1>9 DEF RootComputed, host, new

(* The first host of a root that is not in conflict is not there before. *)
LEMMA HostNew ==
  ASSUME ProxyInv, phase = "compute", NEW p \in todo, IsRoot(p)
  PROVE  HostOf(p) \notin DOMAIN dag.VirtualHosts /\ HostOf(p) \notin DOMAIN dag.SecureVirtualHosts
<1>1. ASSUME NEW q \in Computed PROVE HostOf(q) # HostOf(p)
  <2>1. q # p /\ IsRoot(q) /\ q \in DOMAIN Proxies /\ p \in DOMAIN Proxies /\ ~Conflicting(p)
    BY DEF Computed, ProxyInv
  <2> QED BY <2>1 DEF Conflicting, SharesHost, HostOf
<1> QED BY <1>1 DEF ProxyInv, HostsOwned

(* What is known of the hosts of one root depends on them alone. *)
LEMMA RootSoundKeeps ==
  ASSUME NEW p, NEW d, NEW e, RootSound(p, d), e.ExtensionClusters = d.ExtensionClusters,
         (HostOf(p) \in DOMAIN e.VirtualHosts) <=> (HostOf(p) \in DOMAIN d.VirtualHosts),
         (HostOf(p) \in DOMAIN e.SecureVirtualHosts) <=> (HostOf(p) \in DOMAIN d.SecureVirtualHosts),
         HostOf(p) \in DOMAIN d.VirtualHosts => e.VirtualHosts[HostOf(p)] = d.VirtualHosts[HostOf(p)],
         HostOf(p) \in DOMAIN d.SecureVirtualHosts => e.SecureVirtualHosts[HostOf(p)] = d.SecureVirtualHosts[HostOf(p)]
  PROVE  RootSound(p, e)
<1>1. GetExtensionCluster(e, Proxies[p].vhost.auth.ext) = GetExtensionCluster(d, Proxies[p].vhost.auth.ext)
  BY DEF GetExtensionCluster
<1>2. Protected(p, d, d) => Protected(p, e, e)
  BY <1>1 DEF Protected, HostOf
<1> QED BY <1>2 DEF RootSound

LEMMA ListKeeps == ProxyInv /\ ValidHTTPProxies => ProxyInv'
<1> SUFFICES ASSUME ProxyInv, ValidHTTPProxies PROVE ProxyInv'
  OBVIOUS
<1>1. UNCHANGED <<source, config, dag, orphaned>> /\ phase = "list" /\ phase' = "compute"
  BY DEF ValidHTTPProxies
<1>2. ProxiesWellFormed' /\ DAGShape(dag)'
  BY <1>1 DEF ProxyInv, ProxiesWellFormed, DAGShape, Proxies
<1>3. todo' = {p \in DOMAIN Proxies : ~Conflicting(p)}
  <2> DEFINE roots == {p \in DOMAIN Proxies : IsRoot(p)}
             Fqdn(p) == LowerHost(Proxies[p].vhost.fqdn)
             conflicting == {p \in roots : \E q \in roots \ {p} : Fqdn(q) = Fqdn(p)}
  <2>1. todo' = DOMAIN Proxies \ conflicting
    BY DEF ValidHTTPProxies
  <2>2. \A p \in DOMAIN Proxies : p \in conflicting <=> Conflicting(p)
    BY DEF Conflicting, SharesHost
  <2> HIDE DEF conflicting
  <2> QED BY <2>1, <2>2
<1>4. (DOMAIN Proxies)' = DOMAIN Proxies /\ \A p : Conflicting(p)' <=> Conflicting(p)
  BY <1>1 DEF Conflicting, SharesHost, Proxies, IsRoot
<1>5. Computed' = {}
  BY <1>3, <1>4 DEF Computed
<1>6. HostsOwned'
  <2>1. DOMAIN dag.VirtualHosts = {} /\ DOMAIN dag.SecureVirtualHosts = {}
    BY <1>1 DEF ProxyInv
  <2> QED BY <1>1, <2>1 DEF HostsOwned
<1>7. todo' \subseteq {p \in DOMAIN Proxies' : ~Conflicting(p)'}
  BY <1>3, <1>4
<1> QED BY <1>1, <1>2, <1>5, <1>6, <1>7 DEF ProxyInv

(* The steps that compute a proxy. *)
LEMMA ComputeKeeps ==
  ASSUME ProxyInv, NEW p \in todo, ComputeHTTPProxy(p)
  PROVE  ProxyInv' /\ Stays(updates, updates')
<1> DEFINE root == ComputeRoot(p, Accumulator)
<1>1. /\ UNCHANGED <<source, config, phase>> /\ phase = "compute" /\ todo' = todo \ {p}
      /\ p \in DOMAIN Proxies /\ ~Conflicting(p)
  BY DEF ComputeHTTPProxy, ProxyInv
<1>2. (DOMAIN Proxies)' = DOMAIN Proxies /\ ProxiesWellFormed' /\ \A q : (Conflicting(q)' <=> Conflicting(q)) /\ (IsRoot(q)' <=> IsRoot(q)) /\ HostOf(q)' = HostOf(q)
  BY <1>1 DEF ProxyInv, ProxiesWellFormed, Conflicting, SharesHost, Proxies, IsRoot, HostOf
<1>3. todo' \subseteq {q \in DOMAIN Proxies' : ~Conflicting(q)'}
  BY <1>1, <1>2 DEF ProxyInv
<1>4. Stays(updates, updates)
  BY DEF Stays
<1>5. Computed' = IF IsRoot(p) THEN Computed \union {p} ELSE Computed
  <2>1. \A q : q \in Computed' <=> q \in DOMAIN Proxies /\ q \notin todo' /\ IsRoot(q) /\ ~Conflicting(q)
    BY <1>2 DEF Computed
  <2>2. \A q : q \in Computed <=> q \in DOMAIN Proxies /\ q \notin todo /\ IsRoot(q) /\ ~Conflicting(q)
    BY DEF Computed
  <2> QED BY <1>1, <2>1, <2>2
<1>6. \A q, d : RootSound(q, d)' <=> RootSound(q, d')
  BY <1>1 DEF RootSound, HostOf, Proxies, Protected, RouteSound, AsAsked, IsRoot, ClustersIn, Weighed, Answered, Permits, TLSConfigError, FallbackError
<1>7. CASE IsRoot(p)
  <2>1. dag' = root.dag /\ updates' = Commit(root.updates, p, root.cond)
    BY <1>7 DEF ComputeHTTPProxy
  <2>2. DOMAIN Accumulator = RootFields /\ Accumulator.dag = dag /\ Accumulator.updates = updates
    BY DEF Accumulator, RootFields
  <2>3. DOMAIN root = RootFields /\ RootComputed(p, dag, root.dag) /\ Stays(updates, root.updates)
    <3> DEFINE acc == Accumulator
    <3>1. DOMAIN acc = RootFields /\ DAGShape(acc.dag) /\ ProxiesWellFormed
      BY <2>2 DEF ProxyInv
    <3> HIDE DEF acc
    <3>2. LET a == ComputeRoot(p, acc)
          IN  DOMAIN a = RootFields /\ RootComputed(p, acc.dag, a.dag) /\ Stays(acc.updates, a.updates)
      BY <1>1, <3>1, ComputeRootFacts
    <3> QED BY <2>2, <3>2 DEF acc
  <2> HIDE DEF root
  <2>4. Stays(updates, updates')
    BY <2>1, <2>3, CommitStays
  <2> DEFINE host == HostOf(p)
  <2>5. host \notin DOMAIN dag.VirtualHosts /\ host \notin DOMAIN dag.SecureVirtualHosts
    BY <1>1, <1>7, HostNew
  <2>6. /\ DAGShape(dag') /\ OnlyHost(dag.VirtualHosts, dag'.VirtualHosts, host)
        /\ OnlyHost(dag.SecureVirtualHosts, dag'.SecureVirtualHosts, host) /\ dag'.ExtensionClusters = dag.ExtensionClusters
    BY <2>1, <2>3 DEF RootComputed, HostOf
  <2>7. RootSound(p, dag')
    BY <2>1, <2>3, <2>5, RootComputedSound
  <2>8. ASSUME NEW q \in Computed PROVE RootSound(q, dag')
    <3>1. HostOf(q) # host
      <4>1. q # p /\ IsRoot(q) /\ q \in DOMAIN Proxies
        BY DEF Computed
      <4> QED BY <1>1, <1>7, <4>1 DEF Conflicting, SharesHost, HostOf
    <3>2. RootSound(q, dag)
      BY <1>1 DEF ProxyInv
    <3> HIDE DEF host
    <3> QED BY <2>6, <3>1, <3>2, RootSoundKeeps DEF OnlyHost
  <2>9. HostsOwned'
    <3>1. \A h \in DOMAIN dag.VirtualHosts \union DOMAIN dag.SecureVirtualHosts : \E q \in Computed : h = HostOf(q)
      BY <1>1 DEF ProxyInv, HostsOwned
    <3>2. \A h \in DOMAIN dag'.VirtualHosts \union DOMAIN dag'.SecureVirtualHosts : \E q \in Computed' : h = HostOf(q)
      BY <1>5, <1>7, <2>6, <3>1 DEF OnlyHost
    <3> QED BY <1>2, <3>2 DEF HostsOwned
  <2>10. \A q \in Computed' : RootSound(q, dag')
    BY <1>5, <2>7, <2>8
  <2>11. (\A q \in Computed : RootSound(q, dag))'
    BY <1>6, <2>10
  <2> QED BY <1>1, <1>2, <1>3, <2>4, <2>6, <2>9, <2>11 DEF ProxyInv, DAGShape
<1>8. CASE ~IsRoot(p)
  <2>1. dag' = dag /\ updates' = Commit(updates, p, ValidCondition)
    BY <1>8 DEF ComputeHTTPProxy
  <2>2. Stays(updates, updates')
    BY <1>4, <2>1, CommitStays
  <2>3. HostsOwned'
    BY <1>1, <1>2, <1>5, <1>8, <2>1 DEF ProxyInv, HostsOwned
  <2>4. (\A q \in Computed : RootSound(q, dag))'
    <3>1. \A q \in Computed' : RootSound(q, dag')
      BY <1>1, <1>5, <1>8, <2>1 DEF ProxyInv
    <3> QED BY <1>6, <3>1
  <2> QED BY <1>1, <1>2, <1>3, <2>1, <2>2, <2>3, <2>4 DEF ProxyInv, DAGShape
<1> QED BY <1>7, <1>8

(* Steps that leave the DAG and the proxies to compute alone. *)
LEMMA ProxyInvSame ==
  ASSUME ProxyInv, UNCHANGED <<source, config, dag, todo>>, phase' \in {"compute", "done"} \union {phase},
         phase = "list" => phase' = phase /\ updates' = updates
  PROVE  ProxyInv'
<1>1. ProxiesWellFormed' /\ DAGShape(dag)'
  BY DEF ProxyInv, ProxiesWellFormed, DAGShape, Proxies
<1>2. (DOMAIN Proxies)' = DOMAIN Proxies /\ \A q : (Conflicting(q)' <=> Conflicting(q)) /\ (IsRoot(q)' <=> IsRoot(q)) /\ HostOf(q)' = HostOf(q)
  BY DEF Conflicting, SharesHost, Proxies, IsRoot, HostOf
<1>3. Computed' = Computed
  BY <1>2 DEF Computed
<1>4. HostsOwned <=> HostsOwned'
  BY <1>2, <1>3 DEF HostsOwned
<1>5. \A q, d : RootSound(q, d)' <=> RootSound(q, d)
  BY DEF RootSound, HostOf, Proxies, Protected, RouteSound, AsAsked, IsRoot, ClustersIn, Weighed, Answered, Permits, TLSConfigError, FallbackError
<1>6. (\A p \in Computed : RootSound(p, dag)) <=> (\A p \in Computed : RootSound(p, dag))'
  <2>1. ASSUME NEW q PROVE RootSound(q, dag)' <=> RootSound(q, dag)
    BY <1>5
  <2> QED BY <1>3, <2>1
<1>7. (todo \subseteq {p \in DOMAIN Proxies : ~Conflicting(p)}) <=> (todo \subseteq {p \in DOMAIN Proxies : ~Conflicting(p)})'
  BY <1>2
<1> QED BY <1>1, <1>4, <1>6, <1>7 DEF ProxyInv

LEMMA ProxyInvKeeps == ProxyInv /\ [Next \/ Finished]_vars => ProxyInv' /\ Stays(updates, updates')
<1> SUFFICES ASSUME ProxyInv, [Next \/ Finished]_vars PROVE ProxyInv' /\ Stays(updates, updates')
  OBVIOUS
<1>1. CASE ValidHTTPProxies
  <2>1. Stays(updates, updates')
    BY <1>1 DEF ValidHTTPProxies, ProxyInv, Stays
  <2> QED BY <1>1, <2>1, ListKeeps
<1>2. CASE \E p \in todo : ComputeHTTPProxy(p)
  BY <1>2, ComputeKeeps
<1>3. CASE MarkOrphaned
  <2>1. UNCHANGED <<source, config, dag, todo>> /\ phase = "compute" /\ phase' = "done"
    BY <1>3 DEF MarkOrphaned
  <2>2. Stays(updates, updates')
    <3>1. updates' = [p \in DOMAIN updates \union orphaned |->
                        IF p \in orphaned THEN AddError(ValidCondition, "Orphaned") ELSE updates[p]]
      BY <1>3 DEF MarkOrphaned
    <3>2. AddError(ValidCondition, "Orphaned").errors # {}
      BY DEF AddError, ValidCondition
    <3> QED BY <3>1, <3>2 DEF Stays
  <2>3. ProxyInv'
    BY <2>1, ProxyInvSame
  <2> QED BY <2>2, <2>3
<1>4. CASE UNCHANGED vars
  <2>1. Stays(updates, updates')
    BY <1>4 DEF vars, Stays
  <2>2. ProxyInv'
    BY <1>4, ProxyInvSame DEF vars
  <2> QED BY <2>1, <2>2
<1> QED BY <1>1, <1>2, <1>3, <1>4 DEF Next, Finished

LEMMA ProxyInvInit == Init => ProxyInv
<1> SUFFICES ASSUME Init PROVE ProxyInv
  OBVIOUS
<1> DEFINE ext == dag.ExtensionClusters
<1>1. dag = [EmptyDAG EXCEPT !.ExtensionClusters = ext] /\ phase = "list" /\ updates = <<>> /\ ProxiesWellFormed
  BY DEF Init
<1> HIDE DEF ext
<1>2. DOMAIN dag = DAGFields /\ dag.VirtualHosts = <<>> /\ dag.SecureVirtualHosts = <<>>
  BY <1>1 DEF EmptyDAG, DAGFields
<1>3. DAGShape(dag)
  BY <1>2 DEF DAGShape
<1> QED BY <1>1, <1>2, <1>3 DEF ProxyInv

LEMMA ProxyInvHolds == Spec => []ProxyInv
<1>1. ProxyInv /\ [Next \/ Finished]_vars => ProxyInv'
  BY ProxyInvKeeps
<1> QED BY <1>1, ProxyInvInit, PTL DEF Spec

(* A proxy that has been found invalid stays so, however many visits come   *)
(* by it later along other includes, and whatever those find                *)
(* (ProxyAccessor).                                                         *)
THEOREM ProxiesStayInvalid == Spec => InvalidStays
<1>1. ProxyInv /\ [Next \/ Finished]_vars => [\A p \in DOMAIN updates : updates[p].errors # {} => updates'[p].errors # {}]_vars
  BY ProxyInvKeeps DEF Stays
<1> QED BY <1>1, ProxyInvHolds, PTL DEF Spec, InvalidStays

LEMMA ProxyInvTLS == ProxyInv => TLSHostsSound
<1> SUFFICES ASSUME ProxyInv, Done PROVE TLSHostsSound
  BY Zenon DEF TLSHostsSound, TLSHostNotInClear, SecureHostSound
<1>1. phase # "list"
  BY DEF Done
<1>2. HostsOwned /\ \A p \in Computed : RootSound(p, dag)
  BY <1>1 DEF ProxyInv
<1>3. ASSUME NEW r \in DOMAIN Proxies, IsRoot(r), NEW p \in Computed, HostOf(p) = HostOf(r) PROVE r = p
  BY <1>3 DEF Computed, Conflicting, SharesHost, HostOf
<1>4. ASSUME NEW r \in Computed, TLSConfigError(r, Proxies[r].vhost.tls) = Nil, ~Proxies[r].vhost.tls.passthrough
      PROVE  LET tls == Proxies[r].vhost.tls
             IN  ValidSecret(source.secrets[tls.secret]) /\ DelegationPermitted(source, tls.secret, r[1])
  BY <1>4, TLSReasonsAssumption DEF TLSConfigError, LookupSecret, TLSReasons
<1>5. TLSHostNotInClear
  <2> SUFFICES ASSUME NEW r \in DOMAIN Proxies, IsRoot(r), Proxies[r].vhost.tls # Nil
               PROVE  LET host == Proxies[r].vhost.fqdn
                          tls == Proxies[r].vhost.tls
                          routes == IF host \in DOMAIN dag.VirtualHosts THEN RoutesOf(dag.VirtualHosts[host]) ELSE {}
                      IN  /\ \A x \in routes : (x.clusters # <<>> /\ ~x.upgrade) =>
                               (\E y \in Range(Proxies[x.owner].routes) : y.permitInsecure) /\ ~config.disablePermitInsecure
                          /\ (routes # {} /\ ~tls.passthrough) =>
                               /\ dag.SecureVirtualHosts[host].Secret = tls.secret
                               /\ ValidSecret(source.secrets[tls.secret])
                               /\ DelegationPermitted(source, tls.secret, r[1])
    BY Zenon DEF TLSHostNotInClear
  <2> DEFINE host == Proxies[r].vhost.fqdn
             tls == Proxies[r].vhost.tls
             routes == IF host \in DOMAIN dag.VirtualHosts THEN RoutesOf(dag.VirtualHosts[host]) ELSE {}
  <2>1. CASE host \notin DOMAIN dag.VirtualHosts
    BY <2>1
  <2>2. CASE host \in DOMAIN dag.VirtualHosts
    <3>1. r \in Computed
      BY <1>2, <1>3, <2>2 DEF HostsOwned, HostOf
    <3>2. RootSound(r, dag) /\ HostOf(r) = host
      BY <1>2, <3>1 DEF HostOf
    <3>3. ASSUME NEW x \in routes, x.clusters # <<>> /\ ~x.upgrade
          PROVE  (\E y \in Range(Proxies[x.owner].routes) : y.permitInsecure) /\ ~config.disablePermitInsecure
      BY <2>2, <3>2, <3>3 DEF RootSound, RouteSound, Permits
    <3>4. ASSUME routes # {}, ~tls.passthrough
          PROVE  /\ dag.SecureVirtualHosts[host].Secret = tls.secret
                 /\ ValidSecret(source.secrets[tls.secret])
                 /\ DelegationPermitted(source, tls.secret, r[1])
      <4>1. Protected(r, dag, dag)
        BY <2>2, <3>2, <3>4 DEF RootSound
      <4>2. TLSConfigError(r, tls) = Nil /\ dag.SecureVirtualHosts[host].Secret = tls.secret
        BY <3>4, <4>1 DEF Protected
      <4> QED BY <1>4, <3>1, <3>4, <4>2
    <3> QED BY <3>3, <3>4
  <2> QED BY <2>1, <2>2
<1>6. SecureHostSound
  <2> SUFFICES ASSUME NEW host \in SecureListenerHosts(dag)
               PROVE  LET svhost == dag.SecureVirtualHosts[host]
                          r == CHOOSE r \in DOMAIN Proxies : IsRoot(r) /\ Proxies[r].vhost.fqdn = host
                      IN  /\ svhost.Fallback # Nil =>
                               /\ svhost.Downstream = Nil /\ svhost.Auth = Nil
                               /\ DelegationPermitted(source, svhost.Fallback, r[1])
                          /\ (AuthorizationConfigured(Proxies[r].vhost) /\ ~Proxies[r].vhost.tls.passthrough)
                               => svhost.Auth = Proxies[r].vhost.auth.ext
    BY DEF SecureHostSound
  <2> DEFINE svhost == dag.SecureVirtualHosts[host]
             r == CHOOSE r \in DOMAIN Proxies : IsRoot(r) /\ Proxies[r].vhost.fqdn = host
             vh == Proxies[r].vhost
  <2>1. host \in DOMAIN dag.SecureVirtualHosts /\ SecureValid(svhost)
    BY DEF SecureListenerHosts
  <2>2. PICK p \in Computed : host = HostOf(p)
    BY <1>2, <2>1 DEF HostsOwned
  <2>3. p \in DOMAIN Proxies /\ IsRoot(p) /\ Proxies[p].vhost.fqdn = host
    BY <2>2 DEF Computed, HostOf
  <2>4. r \in DOMAIN Proxies /\ IsRoot(r) /\ Proxies[r].vhost.fqdn = host
    BY <2>3
  <2> HIDE DEF r
  <2>5. r = p
    BY <1>3, <2>2, <2>3, <2>4 DEF HostOf
  <2>6. RootSound(r, dag) /\ HostOf(r) = host
    BY <1>2, <2>2, <2>5
  <2>7. ASSUME svhost.Fallback # Nil
        PROVE  svhost.Downstream = Nil /\ svhost.Auth = Nil /\ DelegationPermitted(source, svhost.Fallback, r[1])
    <3>1. /\ vh.tls.fallback /\ svhost.Fallback = config.fallback /\ FallbackError(r, vh) = Nil
          /\ svhost.Downstream = Nil /\ svhost.Auth = Nil
      BY <2>1, <2>6, <2>7 DEF RootSound
    <3>2. DelegationPermitted(source, config.fallback, r[1])
      BY <3>1, TLSReasonsAssumption DEF FallbackError, TLSReasons, AuthorizationConfigured
    <3> QED BY <3>1, <3>2
  <2>8. ASSUME AuthorizationConfigured(vh), ~vh.tls.passthrough PROVE svhost.Auth = vh.auth.ext
    <3> DEFINE ext == GetExtensionCluster(dag, vh.auth.ext)
    <3>1. Protected(r, dag, dag)
      BY <2>1, <2>6 DEF RootSound
    <3>2. vh.tls # Nil
      BY <2>8 DEF AuthorizationConfigured
    <3>3. ext # Nil /\ svhost.Auth = ext.name
      BY <2>4, <2>8, <3>1, <3>2 DEF Protected
    <3>4. ext.name = vh.auth.ext
      BY <3>3 DEF GetExtensionCluster
    <3> QED BY <3>3, <3>4
  <2> QED BY <2>7, <2>8 DEF r
<1> QED BY <1>5, <1>6 DEF TLSHostsSound

(* Whatever the includes, the order in which proxies are visited, and the   *)
(* step at which the processing of a root ends: a host with TLS is served   *)
(* in the clear only where a route permits it, never without a certificate  *)
(* its namespace may use, and on a secure virtual host only with all the    *)
(* protection its root asks for (computeHTTPProxy).                         *)
THEOREM HostsKeepTLS == Spec => []TLSHostsSound
BY ProxyInvHolds, ProxyInvTLS, PTL

-----------------------------------------------------------------------------
(* Orphans *)

AllPlain == \A r \in DOMAIN Proxies : IsRoot(r) => PlainRoot(r)
Reached(p) == \E r \in Computed : RootError(r) = Nil /\ p \in Below(r)

(* While proxies are computed, those taken for orphaned are the ones looked *)
(* at that no root has reached so far; once a root has been computed, only  *)
(* roots are left.                                                          *)
Orphans ==
  /\ DOMAIN Proxies \ todo \subseteq DOMAIN updates /\ StatusesSound(updates)
  /\ Computed # {} => \A q \in todo : IsRoot(q)
  /\ orphaned = {p \in DOMAIN Proxies \ todo : ~IsRoot(p) /\ ~Reached(p)}
OrphanInv ==
  AllPlain => /\ phase = "list" => orphaned = {}
              /\ phase = "compute" => Orphans
              /\ OrphansExact

(* The graph of includes does not change while it is gone through. *)
LEMMA GraphSame ==
  ASSUME UNCHANGED <<source, config>>
  PROVE  /\ (DOMAIN Proxies)' = DOMAIN Proxies /\ (AllPlain' <=> AllPlain)
         /\ \A p : /\ (IsRoot(p)' <=> IsRoot(p)) /\ (Conflicting(p)' <=> Conflicting(p))
                  /\ RootError(p)' = RootError(p) /\ (Followed(p)' <=> Followed(p)) /\ Below(p)' = Below(p)
                  /\ (PlainRoot(p)' <=> PlainRoot(p)) /\ Children(p)' = Children(p)
<1>1. Proxies' = Proxies /\ config' = config
  BY DEF Proxies
<1>2. \A p : /\ (IsRoot(p)' <=> IsRoot(p)) /\ (PlainRoot(p)' <=> PlainRoot(p))
           /\ (Conflicting(p)' <=> Conflicting(p)) /\ (SharesHost(p)' <=> SharesHost(p))
  BY <1>1 DEF IsRoot, PlainRoot, Conflicting, SharesHost
<1>3. AllPlain' <=> AllPlain
  BY <1>1, <1>2 DEF AllPlain
<1>4. \A p : RootError(p)' = RootError(p)
  BY <1>1 DEF RootError, RootAllowed
<1>5. \A p : Children(p)' = Children(p)
  BY <1>1 DEF Children, IsRoot
<1>6. \A p : Below(p)' = Below(p)
  BY <1>1, <1>5 DEF Below, ClosedBelow
<1>7. \A p : Followed(p)' <=> Followed(p)
  BY <1>2, <1>4 DEF Followed
<1> QED BY <1>1, <1>2, <1>3, <1>4, <1>5, <1>6, <1>7

LEMMA OrphansListed ==
  ASSUME ProxyInv, OrphanInv, AllPlain, ValidHTTPProxies
  PROVE  Orphans'
<1> DEFINE roots == {p \in DOMAIN Proxies : IsRoot(p)}
           Fqdn(p) == LowerHost(Proxies[p].vhost.fqdn)
           conflicting == {p \in roots : \E q \in roots \ {p} : Fqdn(q) = Fqdn(p)}
<1>1. /\ UNCHANGED <<source, config, orphaned>> /\ phase = "list" /\ todo' = DOMAIN Proxies \ conflicting
      /\ updates' = [p \in conflicting |-> AddError(ValidCondition, "DuplicateVhost")]
  BY DEF ValidHTTPProxies
<1>2. \A p : p \in conflicting <=> p \in DOMAIN Proxies /\ Conflicting(p)
  BY DEF Conflicting, SharesHost
<1> HIDE DEF conflicting
<1>3. orphaned' = {}
  BY <1>1 DEF OrphanInv
<1>4. (DOMAIN Proxies)' = DOMAIN Proxies /\ \A p : (IsRoot(p)' <=> IsRoot(p)) /\ (Conflicting(p)' <=> Conflicting(p))
  BY <1>1, GraphSame
<1>5. Computed' = {}
  BY <1>1, <1>2, <1>4 DEF Computed
<1>6. (DOMAIN Proxies \ todo \subseteq DOMAIN updates)' /\ StatusesSound(updates)'
  BY <1>1, <1>2, <1>4 DEF StatusesSound
<1>7. \A p \in DOMAIN Proxies \ todo' : IsRoot(p)
  BY <1>1, <1>2 DEF Conflicting
<1>8. (orphaned = {p \in DOMAIN Proxies \ todo : ~IsRoot(p) /\ ~Reached(p)})'
  BY <1>3, <1>4, <1>7
<1> QED BY <1>5, <1>6, <1>8 DEF Orphans

LEMMA OrphansComputed ==
  ASSUME ProxyInv, OrphanInv, AllPlain, NEW p \in todo, ComputeHTTPProxy(p)
  PROVE  Orphans'
<1> DEFINE root == ComputeRoot(p, Accumulator)
<1>1. /\ UNCHANGED <<source, config, phase>> /\ phase = "compute" /\ todo' = todo \ {p}
      /\ p \in DOMAIN Proxies /\ ~Conflicting(p) /\ (IsRoot(p) => \A q \in todo : IsRoot(q))
      /\ todo \subseteq DOMAIN Proxies
  BY DEF ComputeHTTPProxy, ProxyInv
<1>2. Orphans
  BY <1>1 DEF OrphanInv
<1>3. /\ (DOMAIN Proxies)' = DOMAIN Proxies
      /\ \A q : /\ (IsRoot(q)' <=> IsRoot(q)) /\ (Conflicting(q)' <=> Conflicting(q))
               /\ RootError(q)' = RootError(q) /\ Below(q)' = Below(q)
  BY <1>1, GraphSame
<1>4. Computed' = IF IsRoot(p) THEN Computed \union {p} ELSE Computed
  <2>1. \A q : q \in Computed' <=> q \in DOMAIN Proxies /\ q \notin todo' /\ IsRoot(q) /\ ~Conflicting(q)
    BY <1>3 DEF Computed
  <2>2. \A q : q \in Computed <=> q \in DOMAIN Proxies /\ q \notin todo /\ IsRoot(q) /\ ~Conflicting(q)
    BY DEF Computed
  <2> QED BY <1>1, <2>1, <2>2
<1>5. \A q : Reached(q)' <=> Reached(q) \/ (IsRoot(p) /\ RootError(p) = Nil /\ q \in Below(p))
  BY <1>3, <1>4 DEF Reached
<1>6. ASSUME NEW ups, StatusesSound(ups), DOMAIN updates \subseteq DOMAIN ups, NEW cond, OwnCondition(cond),
             updates' = Commit(ups, p, cond)
      PROVE  (DOMAIN Proxies \ todo \subseteq DOMAIN updates)' /\ StatusesSound(updates)'
  <2>1. StatusesSound(updates')
    BY <1>1, <1>6, CommitSound
  <2>2. DOMAIN updates' = DOMAIN ups \union {p}
    BY <1>1, <1>6, CommitSound
  <2>3. StatusesSound(updates)'
    BY <1>3, <2>1 DEF StatusesSound
  <2> QED BY <1>1, <1>2, <1>3, <1>6, <2>2, <2>3 DEF Orphans
<1>7. CASE IsRoot(p)
  <2>1. updates' = Commit(root.updates, p, root.cond) /\ orphaned' = root.orphaned
    BY <1>7 DEF ComputeHTTPProxy
  <2>2. /\ OwnCondition(root.cond) /\ StatusesSound(root.updates) /\ DOMAIN updates \subseteq DOMAIN root.updates
        /\ root.orphaned = IF RootError(p) = Nil THEN orphaned \ Below(p) ELSE orphaned
    <3> DEFINE acc == Accumulator
    <3>1. /\ DOMAIN acc = RootFields /\ acc.cond = ValidCondition /\ ~acc.failed
          /\ acc.updates = updates /\ acc.orphaned = orphaned
      BY DEF Accumulator, RootFields
    <3>2. OwnCondition(acc.cond) /\ StatusesSound(acc.updates)
      BY <1>2, <3>1, OwnConditionAdds DEF Orphans
    <3>3. PlainRoot(p) /\ ProxiesWellFormed
      BY <1>1, <1>7 DEF AllPlain, ProxyInv
    <3> HIDE DEF acc
    <3>4. LET a == ComputeRoot(p, acc)
          IN  /\ OwnCondition(a.cond) /\ StatusesSound(a.updates) /\ DOMAIN acc.updates \subseteq DOMAIN a.updates
              /\ a.orphaned = IF RootError(p) = Nil THEN acc.orphaned \ Below(p) ELSE acc.orphaned
      BY <1>1, <3>1, <3>2, <3>3, PlainRootComputed
    <3> QED BY <3>1, <3>4 DEF acc
  <2> HIDE DEF root
  <2>3. (DOMAIN Proxies \ todo \subseteq DOMAIN updates)' /\ StatusesSound(updates)'
    BY <1>6, <2>1, <2>2
  <2>4. (\A q \in todo : IsRoot(q))'
    BY <1>1, <1>3, <1>7
  <2>5. orphaned = {q \in DOMAIN Proxies \ todo : ~IsRoot(q) /\ ~Reached(q)}
    BY <1>2 DEF Orphans
  <2>6. \A q : q \in orphaned' <=> q \in DOMAIN Proxies \ todo' /\ ~IsRoot(q) /\ ~Reached(q)'
    BY <1>1, <1>5, <1>7, <2>1, <2>2, <2>5
  <2>7. (orphaned = {q \in DOMAIN Proxies \ todo : ~IsRoot(q) /\ ~Reached(q)})'
    BY <1>3, <2>6
  <2> QED BY <2>3, <2>4, <2>7 DEF Orphans
<1>8. CASE ~IsRoot(p)
  <2>1. updates' = Commit(updates, p, ValidCondition) /\ orphaned' = orphaned \union {p}
    BY <1>8 DEF ComputeHTTPProxy
  <2>2. (DOMAIN Proxies \ todo \subseteq DOMAIN updates)' /\ StatusesSound(updates)'
    BY <1>2, <1>6, <2>1, OwnConditionAdds DEF Orphans
  <2>3. Computed = {}
    BY <1>2, <1>8 DEF Orphans
  <2>4. \A q : ~Reached(q) /\ ~Reached(q)'
    BY <1>5, <1>8, <2>3 DEF Reached
  <2>5. orphaned = {q \in DOMAIN Proxies \ todo : ~IsRoot(q) /\ ~Reached(q)}
    BY <1>2 DEF Orphans
  <2>6. \A q : q \in orphaned' <=> q \in DOMAIN Proxies \ todo' /\ ~IsRoot(q) /\ ~Reached(q)'
    BY <1>1, <1>8, <2>1, <2>4, <2>5
  <2>7. (orphaned = {q \in DOMAIN Proxies \ todo : ~IsRoot(q) /\ ~Reached(q)})'
    BY <1>3, <2>6
  <2> QED BY <1>4, <1>8, <2>2, <2>3, <2>7 DEF Orphans
<1> QED BY <1>7, <1>8

LEMMA OrphansMarked ==
  ASSUME ProxyInv, OrphanInv, AllPlain, MarkOrphaned
  PROVE  OrphansExact'
<1>1. /\ UNCHANGED <<source, config>> /\ phase = "compute" /\ todo = {}
      /\ updates' = [p \in DOMAIN updates \union orphaned |->
                       IF p \in orphaned THEN AddError(ValidCondition, "Orphaned") ELSE updates[p]]
  BY DEF MarkOrphaned
<1>2. Orphans
  BY <1>1 DEF OrphanInv
<1>3. /\ (DOMAIN Proxies)' = DOMAIN Proxies
      /\ \A q : /\ (IsRoot(q)' <=> IsRoot(q)) /\ (Followed(q)' <=> Followed(q)) /\ Below(q)' = Below(q)
  BY <1>1, GraphSame
<1>4. /\ DOMAIN Proxies \subseteq DOMAIN updates /\ StatusesSound(updates)
      /\ orphaned = {p \in DOMAIN Proxies : ~IsRoot(p) /\ ~Reached(p)}
  BY <1>1, <1>2 DEF Orphans
<1>5. /\ AddError(ValidCondition, "Orphaned").errors = {"Orphaned"}
      /\ AddError(ValidCondition, "DuplicateVhost").errors = {"DuplicateVhost"}
  BY DEF AddError, ValidCondition
<1>6. ASSUME NEW p \in DOMAIN Proxies PROVE "Orphaned" \in updates'[p].errors <=> p \in orphaned
  <2>1. p \in orphaned => updates'[p].errors = {"Orphaned"}
    BY <1>1, <1>5
  <2>2. p \notin orphaned => updates'[p] = updates[p]
    BY <1>1, <1>4
  <2>3. "Orphaned" \notin updates[p].errors
    BY <1>4, <1>5 DEF StatusesSound, OwnCondition, OwnReason
  <2> QED BY <2>1, <2>2, <2>3
<1>7. \A r : r \in Computed /\ RootError(r) = Nil <=> r \in DOMAIN Proxies /\ IsRoot(r) /\ Followed(r)
  BY <1>1 DEF Computed, Conflicting, Followed
<1>8. \A p : Reached(p) <=> \E r \in DOMAIN Proxies : IsRoot(r) /\ Followed(r) /\ p \in Below(r)
  BY <1>7 DEF Reached
<1>9. \A p \in DOMAIN Proxies : "Orphaned" \in updates'[p].errors
          <=> (~IsRoot(p) /\ ~\E r \in DOMAIN Proxies : IsRoot(r) /\ Followed(r) /\ p \in Below(r))
  BY <1>4, <1>6, <1>8
<1> QED BY <1>3, <1>9 DEF OrphansExact

LEMMA OrphanInvKeeps == ProxyInv /\ OrphanInv /\ [Next \/ Finished]_vars => OrphanInv'
<1> SUFFICES ASSUME ProxyInv, OrphanInv, [Next \/ Finished]_vars PROVE OrphanInv'
  OBVIOUS
<1>1. UNCHANGED <<source, config>>
  BY DEF Next, Finished, vars, ValidHTTPProxies, ComputeHTTPProxy, MarkOrphaned
<1>2. AllPlain' <=> AllPlain
  BY <1>1, GraphSame
<1> SUFFICES ASSUME AllPlain
             PROVE  /\ phase' = "list" => orphaned' = {}
                    /\ phase' = "compute" => Orphans'
                    /\ OrphansExact'
  BY <1>2 DEF OrphanInv
<1>3. phase' # "done" => OrphansExact'
  BY DEF OrphansExact, Done
<1>4. CASE ValidHTTPProxies
  BY <1>3, <1>4, OrphansListed DEF ValidHTTPProxies
<1>5. CASE \E p \in todo : ComputeHTTPProxy(p)
  BY <1>3, <1>5, OrphansComputed DEF ComputeHTTPProxy
<1>6. CASE MarkOrphaned
  BY <1>6, OrphansMarked DEF MarkOrphaned
<1>7. CASE UNCHANGED vars
  <2>1. UNCHANGED <<updates, orphaned, todo, phase>>
    BY <1>7 DEF vars
  <2>2. /\ (DOMAIN Proxies)' = DOMAIN Proxies
        /\ \A q : /\ (IsRoot(q)' <=> IsRoot(q)) /\ (Conflicting(q)' <=> Conflicting(q))
                 /\ RootError(q)' = RootError(q) /\ (Followed(q)' <=> Followed(q)) /\ Below(q)' = Below(q)
    BY <1>1, GraphSame
  <2>3. Computed' = Computed
    BY <2>1, <2>2 DEF Computed
  <2>4. Orphans => Orphans'
    BY <2>1, <2>2, <2>3 DEF Orphans, Reached, StatusesSound
  <2>5. OrphansExact => OrphansExact'
    BY <2>1, <2>2 DEF OrphansExact, Done, AllPlain
  <2> QED BY <2>1, <2>4, <2>5 DEF OrphanInv
<1> QED BY <1>4, <1>5, <1>6, <1>7 DEF Next, Finished

(* A proxy is reported as orphaned exactly if no root reaches it along      *)
(* includes that are followed, whatever cycles the includes make and in     *)
(* whatever order the proxies come (Run, the deletions from p.orphaned).    *)
THEOREM OrphansAlwaysExact == Spec => []OrphansExact
<1>1. Init => OrphanInv
  BY DEF Init, OrphanInv, OrphansExact, Done
<1>2. OrphanInv => OrphansExact
  BY DEF OrphanInv, OrphansExact, AllPlain
<1>3. ProxyInv /\ OrphanInv /\ [Next \/ Finished]_vars => OrphanInv'
  BY OrphanInvKeeps
<1> QED BY <1>1, <1>2, <1>3, ProxyInvHolds, PTL DEF Spec

-----------------------------------------------------------------------------
(* Cycles *)

LEMMA BelowClosed == \A p : ClosedBelow(p, Below(p))
<1>1. \A q : Children(q) \subseteq DOMAIN Proxies
  BY DEF Children
<1> QED BY <1>1 DEF Below, ClosedBelow

(* What is below a proxy is so through one of its children. *)
LEMMA BelowChild ==
  ASSUME NEW q, NEW p \in Below(q)
  PROVE  \E c \in Children(q) : p = c \/ p \in Below(c)
<1> DEFINE S == {x \in DOMAIN Proxies : \E c \in Children(q) : x = c \/ x \in Below(c)}
<1>1. \A x : Children(x) \subseteq DOMAIN Proxies
  BY DEF Children
<1>2. ClosedBelow(q, S)
  BY <1>1, BelowClosed DEF ClosedBelow
<1>3. S \in SUBSET DOMAIN Proxies
  OBVIOUS
<1> HIDE DEF S
<1>4. p \in S
  BY <1>2, <1>3 DEF Below
<1> QED BY <1>4 DEF S

CycleOf(p) == {q \in Below(p) : p \in Below(q)}

LEMMA CycleLoops ==
  ASSUME NEW p, p \in Below(p)
  PROVE  Looping(CycleOf(p)) /\ p \in CycleOf(p) /\ CycleOf(p) \subseteq DOMAIN Proxies
<1>1. ASSUME NEW q \in CycleOf(p) PROVE Children(q) \cap CycleOf(p) # {}
  <2>1. q \in Below(p) /\ p \in Below(q)
    BY DEF CycleOf
  <2>2. PICK c \in Children(q) : p = c \/ p \in Below(c)
    BY <2>1, BelowChild
  <2>3. c \in Below(p)
    BY <2>1, <2>2, BelowClosed DEF ClosedBelow
  <2> QED BY <2>2, <2>3 DEF CycleOf
<1> QED BY <1>1 DEF Looping, CycleOf, Below

(* The cycles that r leads into are reported. *)
CyclesShown(r, ups) ==
  \A C \in SUBSET DOMAIN Proxies :
    Looping(C) /\ Below(r) \cap C # {} => \E q \in C \cap DOMAIN ups : ups[q].errors # {}

(* Every root that has been computed has its cycles reported; at the end    *)
(* all have been computed.                                                  *)
CycleInv ==
  /\ phase = "done" => todo = {}
  /\ phase # "list" => \A r \in Computed : PlainRoot(r) /\ RootError(r) = Nil => CyclesShown(r, updates)

LEMMA CycleInvKeeps == ProxyInv /\ CycleInv /\ [Next \/ Finished]_vars => CycleInv'
<1> SUFFICES ASSUME ProxyInv, CycleInv, [Next \/ Finished]_vars PROVE CycleInv'
  OBVIOUS
<1>1. UNCHANGED <<source, config>>
  BY DEF Next, Finished, vars, ValidHTTPProxies, ComputeHTTPProxy, MarkOrphaned
<1>2. /\ (DOMAIN Proxies)' = DOMAIN Proxies
      /\ \A q : /\ (IsRoot(q)' <=> IsRoot(q)) /\ (Conflicting(q)' <=> Conflicting(q)) /\ RootError(q)' = RootError(q)
               /\ Below(q)' = Below(q) /\ (PlainRoot(q)' <=> PlainRoot(q)) /\ Children(q)' = Children(q)
  BY <1>1, GraphSame
<1>3. Stays(updates, updates')
  BY ProxyInvKeeps
<1>4. \A r, ups : CyclesShown(r, ups)' <=> CyclesShown(r, ups')
  BY <1>2 DEF CyclesShown, Looping
<1>5. \A r : CyclesShown(r, updates) => CyclesShown(r, updates')
  BY <1>3 DEF CyclesShown, Stays
<1>6. \A r : r \in Computed' <=> r \in DOMAIN Proxies /\ r \notin todo' /\ IsRoot(r) /\ ~Conflicting(r)
  BY <1>2 DEF Computed
<1> SUFFICES /\ phase' = "done" => todo' = {}
             /\ phase' # "list" => \A r \in Computed' : PlainRoot(r) /\ RootError(r) = Nil => CyclesShown(r, updates')
  BY <1>2, <1>4 DEF CycleInv
<1>7. CASE ValidHTTPProxies
  <2> DEFINE roots == {p \in DOMAIN Proxies : IsRoot(p)}
             Fqdn(p) == LowerHost(Proxies[p].vhost.fqdn)
             conflicting == {p \in roots : \E q \in roots \ {p} : Fqdn(q) = Fqdn(p)}
  <2>1. todo' = DOMAIN Proxies \ conflicting /\ phase' = "compute"
    BY <1>7 DEF ValidHTTPProxies
  <2>2. \A p : p \in conflicting <=> p \in DOMAIN Proxies /\ Conflicting(p)
    BY DEF Conflicting, SharesHost
  <2> HIDE DEF conflicting
  <2>3. Computed' = {}
    BY <1>6, <2>1, <2>2
  <2> QED BY <2>1, <2>3
<1>8. CASE \E p \in todo : ComputeHTTPProxy(p)
  <2>1. PICK p \in todo : ComputeHTTPProxy(p)
    BY <1>8
  <2>2. phase' = "compute" /\ phase = "compute" /\ todo' = todo \ {p} /\ p \in DOMAIN Proxies
    BY <2>1 DEF ComputeHTTPProxy, ProxyInv
  <2>3. \A r \in Computed' : r = p \/ r \in Computed
    BY <1>6, <2>2 DEF Computed
  <2>4. ASSUME PlainRoot(p), RootError(p) = Nil PROVE CyclesShown(p, updates')
    <3> DEFINE acc == Accumulator
               root == ComputeRoot(p, acc)
    <3>1. DOMAIN acc = RootFields /\ ~acc.failed
      BY DEF Accumulator, RootFields
    <3>2. updates' = Commit(root.updates, p, root.cond)
      BY <2>1, <2>4 DEF ComputeHTTPProxy, PlainRoot
    <3> HIDE DEF acc
    <3>3. ASSUME NEW C, Looping(C), Below(p) \cap C # {}
          PROVE  \E q \in C \cap DOMAIN root.updates : root.updates[q].errors # {}
      <4>1. ProxiesWellFormed
        BY DEF ProxyInv
      <4> QED BY <2>2, <2>4, <3>1, <3>3, <4>1, PlainRootReports
    <3> HIDE DEF root
    <3>4. Stays(root.updates, updates')
      <4>1. Stays(root.updates, root.updates)
        BY DEF Stays
      <4> QED BY <3>2, <4>1, CommitStays
    <3> QED BY <3>3, <3>4 DEF CyclesShown, Stays
  <2> QED BY <1>5, <2>2, <2>3, <2>4 DEF CycleInv
<1>9. CASE MarkOrphaned
  <2>1. phase = "compute" /\ todo = {} /\ todo' = todo
    BY <1>9 DEF MarkOrphaned
  <2>2. Computed' = Computed
    BY <1>6, <2>1 DEF Computed
  <2> QED BY <1>5, <2>1, <2>2 DEF CycleInv
<1>10. CASE UNCHANGED vars
  <2>1. UNCHANGED <<phase, todo>>
    BY <1>10 DEF vars
  <2>2. Computed' = Computed
    BY <1>6, <2>1 DEF Computed
  <2> QED BY <1>5, <2>1, <2>2 DEF CycleInv
<1> QED BY <1>7, <1>8, <1>9, <1>10 DEF Next, Finished

LEMMA CycleInvReports == CycleInv => CyclesReported
<1> SUFFICES ASSUME CycleInv, Done, NEW r \in DOMAIN Proxies, PlainRoot(r), Followed(r), NEW p \in Below(r), p \in Below(p)
             PROVE  \E q \in Below(p) : p \in Below(q) /\ updates[q].errors # {}
  BY DEF CyclesReported
<1>1. r \in Computed /\ RootError(r) = Nil
  BY DEF CycleInv, Done, Computed, Followed, Conflicting, PlainRoot
<1>2. CyclesShown(r, updates)
  BY <1>1 DEF CycleInv, Done
<1>3. Looping(CycleOf(p)) /\ p \in CycleOf(p) /\ CycleOf(p) \subseteq DOMAIN Proxies
  BY CycleLoops
<1>4. \E q \in CycleOf(p) : updates[q].errors # {}
  BY <1>2, <1>3 DEF CyclesShown
<1> QED BY <1>4 DEF CycleOf

(* A cycle of includes that a root leads into is reported on one of its     *)
(* members, however the includes lead there, and no later visit takes that  *)
(* back (computeRoutes, "IncludeCreatesCycle").                             *)
THEOREM CyclesAlwaysReported == Spec => []CyclesReported
<1>1. Init => CycleInv
  BY DEF Init, CycleInv
<1>2. ProxyInv /\ CycleInv /\ [Next \/ Finished]_vars => CycleInv'
  BY CycleInvKeeps
<1> QED BY <1>1, <1>2, CycleInvReports, ProxyInvHolds, PTL DEF Spec
=============================================================================
