--------------------------- MODULE Builder_proofs ---------------------------
(***************************************************************************)
(* Proofs about a whole rebuild, for any objects and any order in which the *)
(* processors go through them: what is served reaches another namespace     *)
(* only if that namespace says so, and what Envoy's resources refer to is   *)
(* among them.                                                              *)
(***************************************************************************)
EXTENDS Builder, HTTPProxyProcessor_proofs

-----------------------------------------------------------------------------
(* What is to be kept by everything that is done to the DAG *)

OwnerKind(k) == IF k \in DOMAIN source.httproutes THEN "HTTPRoute" ELSE "none"

ClusterGranted(owner, c) ==
  c.service[1] = owner[1] \/ Granted(OwnerKind(owner), owner[1], "Service", c.service)

RouteGranted(x) ==
  /\ DOMAIN x = RouteFields /\ Weighed(x.clusters) /\ Answered(x)
  /\ \A c \in Range(x.clusters) : ClusterGranted(x.owner, c)

(* A certificate that a host may have, and one that a listener gives to the *)
(* hosts it stands for.                                                     *)
SecretGranted(host, secret) ==
  secret = Nil \/ (secret \in DOMAIN source.secrets /\ CertificateAllowed(host, secret))

ListenerGranted(lhn, secret) ==
  \/ secret = Nil
  \/ /\ secret \in DOMAIN source.secrets /\ source.gateway # Nil
     /\ \E l \in Range(source.gateway.listeners) : l.hostname = lhn /\ ListenerNames(l, secret)
     /\ secret[1] = source.gateway.key[1] \/ Granted("Gateway", source.gateway.key[1], "Secret", secret)

RoutesGranted(v) == IsFiniteSet(DOMAIN v.Routes) /\ \A x \in RoutesOf(v) : RouteGranted(x)

(* A route that may be forwarded in the clear, if it does not upgrade: the  *)
(* object it comes from says so. That an include is not found (502) is not  *)
(* forwarded.                                                               *)
ClearAllowed(x) ==
  /\ (x.ownerKind = "Ingress" /\ ~x.upgrade) =>
       HTTPAllowed(source.ingresses[x.owner]) /\ ~TLSRequired(source.ingresses[x.owner])
  /\ (x.ownerKind = "HTTPProxy" /\ IsRoot(x.owner) /\ ~x.upgrade /\ x.direct # 502) =>
       \/ source.proxies[x.owner].vhost.tls = Nil
       \/ ~config.disablePermitInsecure /\ Permits(x.owner)

(* The routes of a host that is served in the clear. *)
PlainGranted(v) == RoutesGranted(v) /\ \A x \in RoutesOf(v) : ClearAllowed(x)

SecureGranted(host, ext, v) ==
  /\ RoutesGranted(v) /\ SecretGranted(host, v.Secret)
  /\ v.Fallback # Nil => v.Fallback \in DOMAIN source.secrets
  /\ v.TCP # Nil => Weighed(v.TCP)
  /\ v.Auth # Nil => \E e \in Range(ext) : e.name = v.Auth

DAGGranted(d) ==
  /\ DAGShape(d) /\ IsSeq(d.ExtensionClusters)
  /\ \A h \in DOMAIN d.VirtualHosts : PlainGranted(d.VirtualHosts[h])
  /\ \A h \in DOMAIN d.SecureVirtualHosts : SecureGranted(h, d.ExtensionClusters, d.SecureVirtualHosts[h])

-----------------------------------------------------------------------------
(* Changes to one host *)

LEMMA NewHosts ==
  ASSUME NEW host, NEW ext
  PROVE  PlainGranted(VirtualHost) /\ SecureGranted(host, ext, SecureVirtualHost) /\ DOMAIN VirtualHost = PlainFields
<1>1. VirtualHost.Routes = <<>> /\ DOMAIN VirtualHost = PlainFields
  BY DEF VirtualHost, PlainFields
<1>2. /\ SecureVirtualHost.Routes = <<>> /\ SecureVirtualHost.Secret = Nil /\ SecureVirtualHost.Fallback = Nil
      /\ SecureVirtualHost.TCP = Nil /\ SecureVirtualHost.Auth = Nil
  BY DEF SecureVirtualHost
<1>3. DOMAIN <<>> = {}
  OBVIOUS
<1>4. IsFiniteSet({})
  BY FS_EmptySet
<1> QED BY <1>1, <1>2, <1>3, <1>4 DEF PlainGranted, RoutesGranted, SecureGranted, RoutesOf, SecretGranted

(* Hosts that the processors ask for are there, or new. *)
LEMMA EnsuredGranted ==
  ASSUME NEW d, DAGGranted(d), NEW host
  PROVE  /\ PlainGranted(EnsuredPlain(d, host)) /\ DOMAIN EnsuredPlain(d, host) = PlainFields
         /\ SecureGranted(host, d.ExtensionClusters, Ensured(d, host)) /\ DOMAIN Ensured(d, host) = SecureFields
BY NewHosts, SecureVirtualHostFields DEF DAGGranted, DAGShape, EnsuredPlain, Ensured

LEMMA PlainKeeps ==
  ASSUME NEW d, DAGGranted(d), NEW host, NEW e, OnlyPlain(d, e, host),
         DOMAIN e.VirtualHosts[host] = PlainFields, PlainGranted(e.VirtualHosts[host])
  PROVE  DAGGranted(e)
BY DEF DAGGranted, DAGShape, OnlyPlain

LEMMA SecureKeeps ==
  ASSUME NEW d, DAGGranted(d), NEW host, NEW e, OnlySecure(d, e, host),
         DOMAIN e.SecureVirtualHosts[host] = SecureFields,
         SecureGranted(host, d.ExtensionClusters, e.SecureVirtualHosts[host])
  PROVE  DAGGranted(e)
BY DEF DAGGranted, DAGShape, OnlySecure

LEMMA ExtendedKeeps ==
  ASSUME NEW v, RoutesGranted(v), NEW w, NEW R, Extended(v, w, R), \A x \in R : RouteGranted(x)
  PROVE  RoutesGranted(w) /\ (PlainGranted(v) /\ (\A x \in R : ClearAllowed(x)) => PlainGranted(w))
BY DEF RoutesGranted, PlainGranted, Extended

-----------------------------------------------------------------------------
(* Ingresses: the secure virtual hosts *)

SecureHost(secret, min, d, host) ==
  [EnsureSecureVirtualHost(d, host) EXCEPT !.SecureVirtualHosts[host] =
     [@ EXCEPT !.Secret = secret, !.MinTLSVersion = min]]

SecureHostStep(tls, min, r, s, d, host) == SecureHost(tls.secret, min, d, host)
SecureHostInv(tls, min, r, s, d) == DAGGranted(d)
SecureHosts == INSTANCE Loops WITH Step <- SecureHostStep, Inv <- SecureHostInv

LEMMA SecureHostKeeps ==
  ASSUME NEW d, DAGGranted(d), NEW host, NEW secret, SecretGranted(host, secret), NEW min
  PROVE  DAGGranted(SecureHost(secret, min, d, host))
<1> DEFINE ensured == EnsureSecureVirtualHost(d, host)
           old == Ensured(d, host)
           new == [old EXCEPT !.Secret = secret, !.MinTLSVersion = min]
           e == [ensured EXCEPT !.SecureVirtualHosts[host] = new]
<1>1. OnlySecure(d, ensured, host) /\ ensured.SecureVirtualHosts[host] = old
  BY EnsureSecureFacts DEF DAGGranted, DAGShape
<1>2. SecureGranted(host, d.ExtensionClusters, old) /\ DOMAIN old = SecureFields
  BY EnsuredGranted
<1> HIDE DEF ensured, old
<1>3. SecureHost(secret, min, d, host) = e
  BY <1>1 DEF SecureHost, ensured, OnlySecure
<1>4. /\ DOMAIN new = SecureFields /\ new.Secret = secret /\ new.Routes = old.Routes /\ new.Fallback = old.Fallback
      /\ new.TCP = old.TCP /\ new.Auth = old.Auth
  BY <1>2 DEF SecureFields
<1> HIDE DEF new
<1>5. SecureGranted(host, d.ExtensionClusters, new)
  BY <1>2, <1>4 DEF SecureGranted, RoutesGranted, RoutesOf
<1>6. OnlySecure(ensured, e, host) /\ e.SecureVirtualHosts[host] = new
  <2>1. DOMAIN ensured = DAGFields /\ host \in DOMAIN ensured.SecureVirtualHosts
    BY <1>1 DEF OnlySecure
  <2> QED BY <2>1, SetSecureHostFacts
<1> HIDE DEF e
<1>7. OnlySecure(d, e, host)
  BY <1>1, <1>6 DEF OnlySecure
<1> QED BY <1>3, <1>4, <1>5, <1>6, <1>7, SecureKeeps

IngressTLSStep(ing, key, r, s, d, tls) ==
  IF LookupSecret(source, tls.secret) # Failed /\ DelegationPermitted(source, tls.secret, key[1])
  THEN SecureHosts!Loop(tls, MinTLSVersion(ing.minTLSVersion, "1.2"), Nil, Nil, d, tls.hosts) ELSE d
IngressTLSInv(ing, key, r, s, d) == DAGGranted(d)
IngressTLSEntries == INSTANCE Loops WITH Step <- IngressTLSStep, Inv <- IngressTLSInv

LEMMA SecureIngressKeeps ==
  ASSUME ObjectsWellFormed, NEW key \in DOMAIN source.ingresses, NEW d, DAGGranted(d)
  PROVE  DAGGranted(ComputeSecureVirtualhosts(source, d, key))
<1> DEFINE ing == source.ingresses[key]
           min == MinTLSVersion(ing.minTLSVersion, "1.2")
<1>1. ComputeSecureVirtualhosts(source, d, key) = IngressTLSEntries!Loop(ing, key, Nil, Nil, d, ing.tls)
  BY DEF ComputeSecureVirtualhosts, IngressTLSEntries!Loop, FoldLeft, MapThenFoldSet, IngressTLSEntries!Last,
         Max, IngressTLSStep, SecureHosts!Loop,
         SecureHosts!Last, SecureHostStep, SecureHost
<1>2. IsSeq(ing.tls) /\ \A t \in Range(ing.tls) : IsSeq(t.hosts)
  BY DEF ObjectsWellFormed
<1>3. ASSUME NEW acc, NEW i \in DOMAIN ing.tls, DAGGranted(acc)
      PROVE  DAGGranted(IngressTLSStep(ing, key, Nil, Nil, acc, ing.tls[i]))
  <2> DEFINE tls == ing.tls[i]
  <2>1. tls.hosts \in Seq(Range(tls.hosts))
    BY <1>2, Zenon DEF IsSeq, Range
  <2> HIDE DEF tls, ing, min
  <2>2. CASE LookupSecret(source, tls.secret) # Failed /\ DelegationPermitted(source, tls.secret, key[1])
    <3>1. \A j \in DOMAIN tls.hosts : SecretGranted(tls.hosts[j], tls.secret)
      <4>1. tls \in Range(source.ingresses[key].tls)
        BY DEF tls, ing, Range
      <4>2. \A j \in DOMAIN tls.hosts : tls.hosts[j] \in Range(tls.hosts)
        BY DEF Range
      <4>3. tls.secret \in DOMAIN source.secrets
        BY <2>2 DEF LookupSecret
      <4>4. MayUse(key[1], tls.secret)
        BY <2>2 DEF MayUse, DelegationPermitted
      <4> QED BY <4>1, <4>2, <4>3, <4>4 DEF SecretGranted, CertificateAllowed, IngressNames
    <3>2. \A e : \A j \in DOMAIN tls.hosts : SecureHostInv(tls, min, Nil, Nil, e)
            => SecureHostInv(tls, min, Nil, Nil, SecureHostStep(tls, min, Nil, Nil, e, tls.hosts[j]))
      BY <3>1, SecureHostKeeps DEF SecureHostInv, SecureHostStep
    <3>3. SecureHostInv(tls, min, Nil, Nil, acc)
      BY <1>3 DEF SecureHostInv
    <3>4. SecureHostInv(tls, min, Nil, Nil, SecureHosts!Loop(tls, min, Nil, Nil, acc, tls.hosts))
      BY <2>1, <3>2, <3>3, SecureHosts!LoopKeeps, Zenon
    <3> QED BY <2>2, <3>4 DEF IngressTLSStep, SecureHostInv, min, tls
  <2>3. CASE ~(LookupSecret(source, tls.secret) # Failed /\ DelegationPermitted(source, tls.secret, key[1]))
    BY <1>3, <2>3 DEF IngressTLSStep, tls
  <2> QED BY <2>2, <2>3
<1>4. \A acc : \A i \in DOMAIN ing.tls : IngressTLSInv(ing, key, Nil, Nil, acc)
        => IngressTLSInv(ing, key, Nil, Nil, IngressTLSStep(ing, key, Nil, Nil, acc, ing.tls[i]))
  BY <1>3 DEF IngressTLSInv
<1>5. ing.tls \in Seq(Range(ing.tls)) /\ IngressTLSInv(ing, key, Nil, Nil, d)
  BY <1>2 DEF IsSeq, IngressTLSInv
<1> HIDE DEF ing
<1>6. IngressTLSInv(ing, key, Nil, Nil, IngressTLSEntries!Loop(ing, key, Nil, Nil, d, ing.tls))
  BY <1>4, <1>5, IngressTLSEntries!LoopKeeps, Zenon
<1> QED BY <1>1, <1>6 DEF IngressTLSInv

-----------------------------------------------------------------------------
(* Ingresses: the routes *)

IngressAdd(ing, host, d, r) ==
  LET plain == IF ~(TLSRequired(ing) \/ HTTPAllowed(ing)) THEN d
               ELSE [EnsureVirtualHost(d, host) EXCEPT !.VirtualHosts[host] = AddRoute(@, r)]
  IN  IF host \in DOMAIN d.SecureVirtualHosts /\ host # "*"
      THEN [plain EXCEPT !.SecureVirtualHosts[host] = AddRoute(@, r)] ELSE plain

RuleHost(rule) == IF rule.host = "" THEN "*" ELSE rule.host

IngressPathStep(key, rule, r, s, acc, p) ==
  LET ing == source.ingresses[key]
      service == EnsureService(source, <<key[1], p.backend.name>>, p.backend.port, config.enableExternalName)
      route == IngressRoute(config, key, ing, rule, p, service)
  IN  IF acc.ended \/ service = Failed THEN acc
      ELSE IF route = Failed THEN [acc EXCEPT !.ended = TRUE]
      ELSE [acc EXCEPT !.dag = IngressAdd(ing, RuleHost(rule), @, route)]
IngressPathInv(key, rule, r, s, acc) == DOMAIN acc = {"dag", "ended"} /\ DAGGranted(acc.dag)
IngressPaths == INSTANCE Loops WITH Step <- IngressPathStep, Inv <- IngressPathInv

(* A route of the Ingress, which upgrades if the Ingress requires TLS. *)
OfIngress(key, x) == x.ownerKind = "Ingress" /\ x.owner = key /\ x.upgrade = TLSRequired(source.ingresses[key])

(* The service of an Ingress is one of its own namespace. *)
LEMMA IngressRouteGranted ==
  ASSUME NEW key, NEW ing, ing = source.ingresses[key], NEW rule, NEW p, NEW name, NEW port, NEW service,
         service = EnsureService(source, <<key[1], name>>, port, config.enableExternalName), service # Failed,
         IngressRoute(config, key, ing, rule, p, service) # Failed
  PROVE  LET x == IngressRoute(config, key, ing, rule, p, service) IN RouteGranted(x) /\ OfIngress(key, x)
<1> DEFINE route == IngressRoute(config, key, ing, rule, p, service)
           dyn == ("NAMESPACE" :> key[1]) @@ ("SERVICE_NAME" :> p.backend.name)
                    @@ ("SERVICE_PORT" :> ToString(p.backend.port.number))
           reqHP == HeadersPolicyService(config.reqHeaders, Nil, dyn)
           cluster == [Cluster(service.name, service.port) EXCEPT
                         !.protocol = service.protocol, !.headers = reqHP,
                         !.clientCert = config.clientCert, !.external = service.external]
<1>1. service.name = <<key[1], name>>
  BY DEF EnsureService
<1>2. cluster.service = service.name /\ cluster.weight = 0
  BY DEF Cluster
<1> HIDE DEF cluster
<1>3. /\ DOMAIN route = RouteFields /\ route.clusters = <<cluster>> /\ route.owner = key
      /\ route.ownerKind = "Ingress" /\ route.upgrade = TLSRequired(ing)
  BY DEF IngressRoute, Route, RouteFields, cluster
<1>4. IsSeq(<<cluster>>) /\ Range(<<cluster>>) = {cluster}
  BY DEF IsSeq, Range
<1> HIDE DEF route
<1>5. cluster.service[1] = key[1]
  BY <1>1, <1>2
<1>6. <<cluster>> # <<>>
  OBVIOUS
<1>7. RouteGranted(route) /\ OfIngress(key, route)
  BY <1>2, <1>3, <1>4, <1>5, <1>6 DEF RouteGranted, ClusterGranted, OfIngress, Weighed, Answered
<1> QED BY <1>7 DEF route

LEMMA IngressAddKeeps ==
  ASSUME NEW key, NEW ing, ing = source.ingresses[key], NEW host, NEW d, DAGGranted(d),
         NEW x, RouteGranted(x), OfIngress(key, x)
  PROVE  DAGGranted(IngressAdd(ing, host, d, x))
<1> DEFINE ensured == EnsureVirtualHost(d, host)
           v == AddRoute(EnsuredPlain(d, host), x)
           added == [ensured EXCEPT !.VirtualHosts[host] = v]
           plain == IF ~(TLSRequired(ing) \/ HTTPAllowed(ing)) THEN d
                    ELSE [ensured EXCEPT !.VirtualHosts[host] = AddRoute(@, x)]
<1>1. OnlyPlain(d, ensured, host) /\ ensured.VirtualHosts[host] = EnsuredPlain(d, host)
  BY EnsurePlainFacts DEF DAGGranted, DAGShape
<1>2. PlainGranted(EnsuredPlain(d, host)) /\ DOMAIN EnsuredPlain(d, host) = PlainFields
  BY EnsuredGranted
<1>3. DOMAIN v = PlainFields /\ Extended(EnsuredPlain(d, host), v, {x})
  BY <1>2, AddRouteFacts DEF PlainFields
<1>4. TLSRequired(ing) \/ HTTPAllowed(ing) => PlainGranted(v)
  <2>1. TLSRequired(ing) \/ HTTPAllowed(ing) => ClearAllowed(x)
    BY DEF ClearAllowed, OfIngress
  <2> HIDE DEF v
  <2> QED BY <1>2, <1>3, <2>1, ExtendedKeeps DEF PlainGranted
<1> HIDE DEF ensured, v
<1>5. OnlyPlain(ensured, added, host) /\ added.VirtualHosts[host] = v
  <2>1. DOMAIN ensured = DAGFields /\ host \in DOMAIN ensured.VirtualHosts
    BY <1>1 DEF OnlyPlain
  <2> QED BY <2>1, SetPlainFacts
<1>6. [ensured EXCEPT !.VirtualHosts[host] = AddRoute(@, x)] = added
  BY <1>1 DEF OnlyPlain, v
<1> HIDE DEF added
<1>7. OnlyPlain(d, added, host)
  BY <1>1, <1>5 DEF OnlyPlain
<1>8. TLSRequired(ing) \/ HTTPAllowed(ing) => DAGGranted(added)
  BY <1>3, <1>4, <1>5, <1>7, PlainKeeps
<1>9. DAGGranted(plain) /\ plain.SecureVirtualHosts = d.SecureVirtualHosts
  BY <1>6, <1>7, <1>8, Zenon DEF OnlyPlain
<1>10. ASSUME host \in DOMAIN d.SecureVirtualHosts
       PROVE  DAGGranted([plain EXCEPT !.SecureVirtualHosts[host] = AddRoute(@, x)])
  <2> HIDE DEF plain
  <2> DEFINE old == plain.SecureVirtualHosts[host]
             new == AddRoute(old, x)
             e == [plain EXCEPT !.SecureVirtualHosts[host] = new]
  <2>1. SecureGranted(host, plain.ExtensionClusters, old) /\ DOMAIN old = SecureFields /\ host \in DOMAIN plain.SecureVirtualHosts
        /\ DOMAIN plain = DAGFields
    BY <1>9, <1>10 DEF DAGGranted, DAGShape
  <2>2. DOMAIN new = SecureFields /\ Extended(old, new, {x}) /\ \A f \in SecureFields \ {"Routes"} : new[f] = old[f]
    <3> HIDE DEF old
    <3> QED BY <2>1, AddRouteFacts, Zenon DEF SecureFields
  <2>3. [plain EXCEPT !.SecureVirtualHosts[host] = AddRoute(@, x)] = e
    BY <2>1
  <2> HIDE DEF new
  <2>4. OnlySecure(plain, e, host) /\ e.SecureVirtualHosts[host] = new
    BY <2>1, SetSecureHostFacts
  <2> HIDE DEF old, e
  <2>5. RoutesGranted(new)
    BY <2>1, <2>2, ExtendedKeeps DEF SecureGranted
  <2>6. new.Secret = old.Secret /\ new.Fallback = old.Fallback /\ new.TCP = old.TCP /\ new.Auth = old.Auth
    BY <2>2 DEF SecureFields
  <2>7. SecureGranted(host, plain.ExtensionClusters, new)
    BY <2>1, <2>5, <2>6 DEF SecureGranted
  <2> QED BY <1>9, <2>2, <2>3, <2>4, <2>7, SecureKeeps
<1> QED BY <1>9, <1>10 DEF IngressAdd, ensured

LEMMA IngressRuleKeeps ==
  ASSUME NEW key, NEW rule, IsSeq(rule.paths), NEW d, DAGGranted(d)
  PROVE  DAGGranted(ComputeIngressRule(source, config, d, key, rule))
<1> DEFINE base == [dag |-> d, ended |-> FALSE]
           loop == IngressPaths!Loop(key, rule, Nil, Nil, base, rule.paths)
<1>1. ComputeIngressRule(source, config, d, key, rule) =
        IF config.clientCert # Nil /\ LookupSecret(source, config.clientCert) = Failed THEN d ELSE loop.dag
  BY DEF ComputeIngressRule, IngressPaths!Loop, FoldLeft, MapThenFoldSet, IngressPaths!Last, Max,
         IngressPathStep, IngressAdd, RuleHost
<1>2. ASSUME NEW acc, NEW i \in DOMAIN rule.paths, IngressPathInv(key, rule, Nil, Nil, acc)
      PROVE  IngressPathInv(key, rule, Nil, Nil, IngressPathStep(key, rule, Nil, Nil, acc, rule.paths[i]))
  <2> DEFINE p == rule.paths[i]
             ing == source.ingresses[key]
             host == RuleHost(rule)
             service == EnsureService(source, <<key[1], p.backend.name>>, p.backend.port, config.enableExternalName)
             route == IngressRoute(config, key, ing, rule, p, service)
             done == IngressPathStep(key, rule, Nil, Nil, acc, p)
             new == IngressAdd(ing, host, acc.dag, route)
  <2>1. \/ done = acc
        \/ done = [acc EXCEPT !.ended = TRUE]
        \/ service # Failed /\ route # Failed /\ done = [acc EXCEPT !.dag = new]
    BY <1>2 DEF IngressPathStep, IngressPathInv
  <2>2. ASSUME service # Failed, route # Failed PROVE DAGGranted(new)
    <3>1. RouteGranted(route) /\ OfIngress(key, route)
      BY <2>2, IngressRouteGranted
    <3>2. ing = source.ingresses[key]
      OBVIOUS
    <3> HIDE DEF route, host, ing
    <3> QED BY <1>2, <3>1, <3>2, IngressAddKeeps DEF IngressPathInv
  <2> HIDE DEF new, service, route, done
  <2>3. IngressPathInv(key, rule, Nil, Nil, done)
    BY <1>2, <2>1, <2>2 DEF IngressPathInv
  <2> QED BY <2>3 DEF done
<1>3. IngressPathInv(key, rule, Nil, Nil, base)
  BY DEF IngressPathInv
<1>4. rule.paths \in Seq(Range(rule.paths))
  BY DEF IsSeq
<1> HIDE DEF base
<1>5. IngressPathInv(key, rule, Nil, Nil, loop)
  BY <1>2, <1>3, <1>4, IngressPaths!LoopKeeps, Zenon
<1> QED BY <1>1, <1>5 DEF IngressPathInv

IngressRuleStep(key, q, r, s, d, rule) == ComputeIngressRule(source, config, d, key, rule)
IngressRuleInv(key, q, r, s, d) == DAGGranted(d)
IngressRules == INSTANCE Loops WITH Step <- IngressRuleStep, Inv <- IngressRuleInv

LEMMA RouteIngressKeeps ==
  ASSUME ObjectsWellFormed, NEW key \in DOMAIN source.ingresses, NEW d, DAGGranted(d)
  PROVE  DAGGranted(ComputeIngress(source, config, d, key))
<1> DEFINE ing == source.ingresses[key]
           rules == RulesFromSpec(ing)
           path == IngressPath(Nil, Nil, ing.defaultBackend)
           first == IngressRule("", <<path>>)
<1>1. ComputeIngress(source, config, d, key) = IngressRules!Loop(key, Nil, Nil, Nil, d, rules)
  BY DEF ComputeIngress, IngressRules!Loop, FoldLeft, MapThenFoldSet, IngressRules!Last, Max, IngressRuleStep
<1>2. IsSeq(ing.rules) /\ \A r \in Range(ing.rules) : IsSeq(r.paths)
  BY DEF ObjectsWellFormed
<1>3. IsSeq(rules) /\ \A r \in Range(rules) : IsSeq(r.paths)
  <2> HIDE DEF ing
  <2>1. IsSeq(<<first>>) /\ Range(<<first>>) = {first}
    <3> HIDE DEF first
    <3> QED BY DEF IsSeq, Range
  <2>2. IsSeq(first.paths)
    <3>1. first.paths = <<path>>
      BY DEF IngressRule
    <3> HIDE DEF path, first
    <3> QED BY <3>1 DEF IsSeq, Range
  <2>3. rules = (IF ing.defaultBackend = Nil THEN <<>> ELSE <<first>>) \o ing.rules
    BY DEF RulesFromSpec
  <2> HIDE DEF first, rules
  <2>4. CASE ing.defaultBackend = Nil
    BY <1>2, <2>3, <2>4, SeqConcat, SeqEmpty
  <2>5. CASE ing.defaultBackend # Nil
    BY <1>2, <2>1, <2>2, <2>3, <2>5, SeqConcat
  <2> QED BY <2>4, <2>5
<1> HIDE DEF rules
<1>4. \A acc : \A i \in DOMAIN rules : IngressRuleInv(key, Nil, Nil, Nil, acc)
        => IngressRuleInv(key, Nil, Nil, Nil, IngressRuleStep(key, Nil, Nil, Nil, acc, rules[i]))
  <2>1. \A i \in DOMAIN rules : IsSeq(rules[i].paths)
    BY <1>3 DEF Range
  <2> QED BY <2>1, IngressRuleKeeps DEF IngressRuleInv, IngressRuleStep
<1>5. rules \in Seq(Range(rules)) /\ IngressRuleInv(key, Nil, Nil, Nil, d)
  BY <1>3 DEF IsSeq, IngressRuleInv
<1>6. IngressRuleInv(key, Nil, Nil, Nil, IngressRules!Loop(key, Nil, Nil, Nil, d, rules))
  BY <1>4, <1>5, IngressRules!LoopKeeps
<1> QED BY <1>1, <1>6 DEF IngressRuleInv

-----------------------------------------------------------------------------
(* ExtensionServices and HTTPProxies *)

LEMMA ExtensionKeeps ==
  ASSUME NEW d, DAGGranted(d), NEW built
  PROVE  DAGGranted(AddExtensionCluster(d, built))
<1> DEFINE ext == Append(d.ExtensionClusters, built.cluster)
           e == [d EXCEPT !.ExtensionClusters = ext]
<1>1. AddExtensionCluster(d, built) = d \/ AddExtensionCluster(d, built) = e
  BY DEF AddExtensionCluster
<1>2. IsSeq(ext) /\ Range(d.ExtensionClusters) \subseteq Range(ext)
  BY SeqAppend DEF DAGGranted
<1> HIDE DEF ext
<1>3. /\ DOMAIN e = DAGFields /\ e.ExtensionClusters = ext
      /\ e.VirtualHosts = d.VirtualHosts /\ e.SecureVirtualHosts = d.SecureVirtualHosts
  BY DEF DAGGranted, DAGShape, DAGFields
<1> HIDE DEF e
<1>4. \A h, v : SecureGranted(h, d.ExtensionClusters, v) => SecureGranted(h, ext, v)
  BY <1>2 DEF SecureGranted
<1>5. DAGGranted(e)
  BY <1>2, <1>3, <1>4 DEF DAGGranted, DAGShape
<1> QED BY <1>1, <1>5

(* What a root asks for is what its namespace may use. *)
LEMMA RootKeeps ==
  ASSUME NEW p \in DOMAIN Proxies, IsRoot(p), NEW d, DAGGranted(d), NEW e, RootComputed(p, d, e)
  PROVE  DAGGranted(e)
<1> DEFINE host == Proxies[p].vhost.fqdn
           vh == Proxies[p].vhost
           ext == d.ExtensionClusters
           old == Ensured(d, host)
           new == e.SecureVirtualHosts[host]
           oldv == EnsuredPlain(d, host)
           newv == e.VirtualHosts[host]
<1>1. /\ DAGShape(e) /\ e.ExtensionClusters = ext
      /\ OnlyHost(d.VirtualHosts, e.VirtualHosts, host) /\ OnlyHost(d.SecureVirtualHosts, e.SecureVirtualHosts, host)
      /\ host \in DOMAIN e.VirtualHosts => Within(vh.tls # Nil, oldv, newv)
      /\ host \in DOMAIN e.SecureVirtualHosts => SecureFilled(p, d, old, new)
  BY DEF RootComputed
<1>2. PlainGranted(oldv) /\ SecureGranted(host, ext, old)
  BY EnsuredGranted
<1>3. \A b, x : RouteSound(b, x) => RouteGranted(x)
  BY DEF RouteSound, RouteGranted, ClustersIn, ClusterGranted, Weighed
<1>4. ASSUME NEW b, NEW v, NEW w, RoutesGranted(v), Within(b, v, w) PROVE RoutesGranted(w)
  BY <1>3, <1>4 DEF Within, RoutesGranted
<1>5. host \in DOMAIN e.VirtualHosts => PlainGranted(newv)
  <2>1. \A b, x : RouteSound(b, x) => ClearAllowed(x)
    BY DEF RouteSound, AsAsked, ClearAllowed, Proxies
  <2>2. ASSUME NEW b, NEW v, NEW w, PlainGranted(v), Within(b, v, w) PROVE PlainGranted(w)
    BY <1>4, <2>1, <2>2 DEF Within, PlainGranted
  <2> QED BY <1>1, <1>2, <2>2
<1>6. ASSUME SecureFilled(p, d, old, new) PROVE SecureGranted(host, ext, new)
  <2> HIDE DEF old, new
  <2>1. RoutesGranted(new)
    BY <1>2, <1>4, <1>6 DEF SecureFilled, SecureGranted
  <2>2. SecretGranted(host, new.Secret)
    <3>1. CASE new.Secret = old.Secret
      BY <1>2, <3>1 DEF SecureGranted
    <3>2. CASE vh.tls # Nil /\ ~vh.tls.passthrough /\ TLSConfigError(p, vh.tls) = Nil /\ new.Secret = vh.tls.secret
      <4>1. "TLSConfigNotValid" # Nil /\ "SecretNotValid" # Nil /\ "DelegationNotPermitted" # Nil
        BY TLSReasonsAssumption DEF TLSReasons
      <4>2. LookupSecret(source, vh.tls.secret) # Failed /\ DelegationPermitted(source, vh.tls.secret, p[1])
        BY <3>2, <4>1 DEF TLSConfigError
      <4>3. vh.tls.secret \in DOMAIN source.secrets
        BY <4>2 DEF LookupSecret
      <4>4. MayUse(p[1], vh.tls.secret)
        BY <4>2 DEF MayUse, DelegationPermitted
      <4>5. ProxyNames(p, host, new.Secret) /\ p \in DOMAIN source.proxies
        <5>1. vh # Nil
          BY DEF IsRoot
        <5> QED BY <3>2, <5>1 DEF ProxyNames, Proxies
      <4> QED BY <3>2, <4>3, <4>4, <4>5 DEF SecretGranted, CertificateAllowed
    <3> QED BY <1>6, <3>1, <3>2 DEF SecureFilled
  <2>3. new.Fallback # Nil => new.Fallback \in DOMAIN source.secrets
    <3>1. CASE new.Fallback = old.Fallback
      BY <1>2, <3>1 DEF SecureGranted
    <3>2. CASE vh.tls.fallback /\ new.Fallback = config.fallback /\ FallbackError(p, vh) = Nil
      <4>1. /\ "TLSIncompatibleFeatures" # Nil /\ "FallbackNotPresent" # Nil /\ "FallbackNotValid" # Nil
            /\ "FallbackNotDelegated" # Nil
        BY TLSReasonsAssumption DEF TLSReasons
      <4>2. LookupSecret(source, config.fallback) # Failed
        BY <3>2, <4>1 DEF FallbackError
      <4> QED BY <3>2, <4>2 DEF LookupSecret
    <3> QED BY <1>6, <3>1, <3>2 DEF SecureFilled
  <2>4. new.TCP # Nil => Weighed(new.TCP)
    BY <1>2, <1>6 DEF SecureFilled, SecureGranted
  <2>5. new.Auth # Nil => \E x \in Range(ext) : x.name = new.Auth
    <3>1. CASE new.Auth = old.Auth
      BY <1>2, <3>1 DEF SecureGranted
    <3>2. CASE GetExtensionCluster(d, vh.auth.ext) # Nil /\ new.Auth = GetExtensionCluster(d, vh.auth.ext).name
      BY <3>2 DEF GetExtensionCluster
    <3> QED BY <1>6, <3>1, <3>2 DEF SecureFilled
  <2> QED BY <2>1, <2>2, <2>3, <2>4, <2>5 DEF SecureGranted
<1>7. \A h \in DOMAIN e.VirtualHosts : PlainGranted(e.VirtualHosts[h])
  BY <1>1, <1>5 DEF OnlyHost, DAGGranted
<1>8. \A h \in DOMAIN e.SecureVirtualHosts : SecureGranted(h, ext, e.SecureVirtualHosts[h])
  BY <1>1, <1>6 DEF OnlyHost, DAGGranted
<1>9. IsSeq(e.ExtensionClusters)
  BY <1>1 DEF DAGGranted
<1> QED BY <1>1, <1>7, <1>8, <1>9 DEF DAGGranted

-----------------------------------------------------------------------------
(* Routes of the Gateway API: the clusters of a rule *)

KeptStep(seq, q, r, s, kept, c) == IF c # Failed THEN Append(kept, c) ELSE kept
KeptInv(seq, q, r, s, kept) == IsSeq(kept) /\ \A c \in Range(kept) : c \in Range(seq) /\ c # Failed
Kept == INSTANCE Loops WITH Step <- KeptStep, Inv <- KeptInv

KeptOf(seq) == Collect(seq, LAMBDA c : c # Failed)

LEMMA KeptFacts ==
  ASSUME NEW seq, IsSeq(seq)
  PROVE  IsSeq(KeptOf(seq)) /\ \A c \in Range(KeptOf(seq)) : c \in Range(seq) /\ c # Failed
<1>1. KeptOf(seq) = Kept!Loop(seq, Nil, Nil, Nil, <<>>, seq)
  BY DEF KeptOf, Collect, Kept!Loop, FoldLeft, MapThenFoldSet, Kept!Last, Max, KeptStep
<1>2. KeptInv(seq, Nil, Nil, Nil, <<>>)
  BY SeqEmpty DEF KeptInv
<1>3. ASSUME NEW acc, NEW i \in DOMAIN seq, KeptInv(seq, Nil, Nil, Nil, acc)
      PROVE  KeptInv(seq, Nil, Nil, Nil, KeptStep(seq, Nil, Nil, Nil, acc, seq[i]))
  <2>1. seq[i] \in Range(seq)
    BY DEF Range
  <2>2. IsSeq(Append(acc, seq[i])) /\ Range(Append(acc, seq[i])) = Range(acc) \union {seq[i]}
    BY <1>3, SeqAppend DEF KeptInv
  <2> QED BY <1>3, <2>1, <2>2 DEF KeptInv, KeptStep
<1>4. seq \in Seq(Range(seq))
  BY DEF IsSeq
<1>5. KeptInv(seq, Nil, Nil, Nil, Kept!Loop(seq, Nil, Nil, Nil, <<>>, seq))
  BY <1>2, <1>3, <1>4, Kept!LoopKeeps
<1> QED BY <1>1, <1>5 DEF KeptInv

BackendCluster(kind, ref, service) ==
  LET plain == [Cluster(service.name, service.port) EXCEPT
                  !.weight = Weight(ref), !.external = service.external]
  IN  IF service = Failed THEN Failed
      ELSE IF kind = "TLSRoute" THEN [plain EXCEPT !.sni = Literal(service.external)]
      ELSE [plain EXCEPT !.protocol = service.protocol, !.headers = HeaderPolicy(ref.filters, FALSE)]

BackendClusters(kind, ns, refs) ==
  [i \in DOMAIN refs |-> BackendCluster(kind, refs[i], ValidateBackendRef(source, config, kind, ns, refs[i]))]

LEMMA BackendClusterFacts ==
  ASSUME NEW kind, NEW ref, NEW service, BackendCluster(kind, ref, service) # Failed
  PROVE  /\ service # Failed
         /\ LET c == BackendCluster(kind, ref, service) IN c.service = service.name /\ c.weight = Weight(ref)
<1> DEFINE new == Cluster(service.name, service.port)
           plain == [new EXCEPT !.weight = Weight(ref), !.external = service.external]
           c == BackendCluster(kind, ref, service)
<1>1. c = IF service = Failed THEN Failed
          ELSE IF kind = "TLSRoute" THEN [plain EXCEPT !.sni = Literal(service.external)]
          ELSE [plain EXCEPT !.protocol = service.protocol, !.headers = HeaderPolicy(ref.filters, FALSE)]
  BY DEF BackendCluster
<1>2. plain.service = service.name /\ plain.weight = Weight(ref) /\ {"service", "weight"} \subseteq DOMAIN plain
  <2>1. new.service = service.name /\ {"service", "weight"} \subseteq DOMAIN new
    BY DEF Cluster
  <2> HIDE DEF new
  <2> QED BY <2>1
<1> HIDE DEF plain, c
<1> QED BY <1>1, <1>2 DEF c

(* A reference that resolves is to the namespace of the route, or granted. *)
LEMMA BackendRefFacts ==
  ASSUME NEW kind, NEW ns, NEW ref
  PROVE  ValidateBackendRef(source, config, kind, ns, ref) # Failed =>
         /\ ValidateBackendRef(source, config, kind, ns, ref).name = ref.to
         /\ ref.to[1] = ns \/ Granted(kind, ns, "Service", ref.to)
<1> DEFINE port == [number |-> ref.port, name |-> ""]
           granted == ref.to[1] = ns \/
             ValidCrossNamespaceRef(source, [kind |-> kind, namespace |-> ns],
                                    [kind |-> "Service", namespace |-> ref.to[1], name |-> ref.to[2]])
           service == EnsureService(source, ref.to, port, config.enableExternalName)
<1>1. ValidateBackendRef(source, config, kind, ns, ref) = IF ~ref.valid \/ ~granted THEN Failed ELSE service
  BY DEF ValidateBackendRef
<1> HIDE DEF port
<1>2. service # Failed => service.name = ref.to
  BY DEF EnsureService
<1>3. granted => ref.to[1] = ns \/ Granted(kind, ns, "Service", ref.to)
  BY DEF ValidCrossNamespaceRef, Granted
<1> HIDE DEF granted, service
<1> QED BY <1>1, <1>2, <1>3

LEMMA BackendsGranted ==
  ASSUME NEW kind, NEW ns, NEW refs, BackendsWellFormed(refs)
  PROVE  LET clusters == Backends(source, config, kind, ns, refs).clusters
         IN  /\ Weighed(clusters)
             /\ \A c \in Range(clusters) : c.service[1] = ns \/ Granted(kind, ns, "Service", c.service)
<1> DEFINE all == BackendClusters(kind, ns, refs)
           clusters == Backends(source, config, kind, ns, refs).clusters
           Service(i) == ValidateBackendRef(source, config, kind, ns, refs[i])
<1>1. clusters = KeptOf(all)
  <2> DEFINE ok == Failed \notin Range(all)
  <2>1. Backends(source, config, kind, ns, refs) = [clusters |-> KeptOf(all), ok |-> ok]
    BY DEF Backends, BackendClusters, BackendCluster, KeptOf, Collect, FoldLeft, MapThenFoldSet, Max
  <2> HIDE DEF ok, all
  <2> QED BY <2>1
<1>2. /\ all = [i \in DOMAIN refs |-> all[i]] /\ DOMAIN all = DOMAIN refs
      /\ \A i \in DOMAIN refs : all[i] = BackendCluster(kind, refs[i], Service(i))
  BY DEF BackendClusters
<1> HIDE DEF all, clusters
<1>3. IsSeq(all)
  BY <1>2, SeqOver DEF BackendsWellFormed
<1>4. IsSeq(clusters) /\ \A c \in Range(clusters) : c \in Range(all) /\ c # Failed
  BY <1>1, <1>3, KeptFacts
<1>5. ASSUME NEW c \in Range(clusters)
      PROVE  c.weight \in Nat /\ (c.service[1] = ns \/ Granted(kind, ns, "Service", c.service))
  <2>1. PICK i \in DOMAIN refs : c = all[i]
    BY <1>2, <1>4 DEF Range
  <2>2. Service(i) # Failed /\ c.service = Service(i).name /\ c.weight = Weight(refs[i])
    BY <1>2, <1>4, <2>1, BackendClusterFacts
  <2>3. Weight(refs[i]) \in Nat
    BY DEF Weight, BackendsWellFormed, Range
  <2> QED BY <2>2, <2>3, BackendRefFacts
<1> QED BY <1>4, <1>5 DEF clusters, Weighed

MatchedStep(p, q, r, s, kept, m) == IF MatchFailures(m) = <<>> THEN Append(kept, m) ELSE kept
MatchedInv(p, q, r, s, kept) == IsSeq(kept)
Matched == INSTANCE Loops WITH Step <- MatchedStep, Inv <- MatchedInv

MatchedOf(matches) == Collect(matches, LAMBDA m : MatchFailures(m) = <<>>)

LEMMA MatchedSeq ==
  ASSUME NEW matches, IsSeq(matches)
  PROVE  IsSeq(MatchedOf(matches))
<1>1. MatchedOf(matches) = Matched!Loop(Nil, Nil, Nil, Nil, <<>>, matches)
  BY DEF MatchedOf, Collect, Matched!Loop, FoldLeft, MapThenFoldSet, Matched!Last, Max, MatchedStep
<1>2. MatchedInv(Nil, Nil, Nil, Nil, <<>>)
  BY SeqEmpty DEF MatchedInv
<1>3. \A acc : \A i \in DOMAIN matches : MatchedInv(Nil, Nil, Nil, Nil, acc)
        => MatchedInv(Nil, Nil, Nil, Nil, MatchedStep(Nil, Nil, Nil, Nil, acc, matches[i]))
  BY SeqAppend DEF MatchedInv, MatchedStep
<1>4. matches \in Seq(Range(matches))
  BY DEF IsSeq
<1>5. MatchedInv(Nil, Nil, Nil, Nil, Matched!Loop(Nil, Nil, Nil, Nil, <<>>, matches))
  BY <1>2, <1>3, <1>4, Matched!LoopKeeps
<1> QED BY <1>1, <1>5 DEF MatchedInv

(* The routes of a rule of an HTTPRoute. *)
LEMMA RuleRoutesGranted ==
  ASSUME NEW key \in DOMAIN source.httproutes, NEW rule, IsSeq(rule.matches), BackendsWellFormed(rule.backends)
  PROVE  LET routes == RuleRoutes(source, config, key, rule, Word)
         IN  IsSeq(routes) /\ \A x \in Range(routes) : RouteGranted(x) /\ ClearAllowed(x)
<1> DEFINE good == MatchedOf(rule.matches)
           redirect == \E f \in Range(rule.filters) : f.type = "RequestRedirect"
           Dead(cs) == cs = <<>> \/ TotalWeight(cs, Word) = 0
           RouteFor(m, cs) == [Route EXCEPT
             !.match = GatewayPathMatchCondition(m.path), !.headers = GatewayHeaderMatchConditions(m),
             !.policies.reqHP = HeaderPolicy(rule.filters, TRUE),
             !.redirect = redirect,
             !.clusters = IF redirect THEN <<>> ELSE cs,
             !.direct = IF ~redirect /\ Dead(cs) THEN 503 ELSE Nil,
             !.owner = key, !.ownerKind = "HTTPRoute"]
           clusters == Backends(source, config, "HTTPRoute", key[1], rule.backends).clusters
           all == [i \in DOMAIN good |-> RouteFor(good[i], clusters)]
<1>1. RuleRoutes(source, config, key, rule, Word) = IF ~redirect /\ rule.backends = <<>> THEN <<>> ELSE all
  BY DEF RuleRoutes, MatchedOf, Collect, FoldLeft, MapThenFoldSet, Max
<1>2. Weighed(clusters) /\ \A c \in Range(clusters) : c.service[1] = key[1] \/ Granted("HTTPRoute", key[1], "Service", c.service)
  BY BackendsGranted
<1>3. IsSeq(good)
  BY MatchedSeq
<1> HIDE DEF good, redirect, clusters
<1>4. ASSUME NEW m PROVE LET x == RouteFor(m, clusters) IN RouteGranted(x) /\ ClearAllowed(x)
  <2> DEFINE x == RouteFor(m, clusters)
  <2>1. /\ DOMAIN x = RouteFields /\ x.owner = key /\ x.ownerKind = "HTTPRoute"
        /\ x.clusters = (IF redirect THEN <<>> ELSE clusters) /\ x.redirect = redirect
        /\ x.direct = IF ~redirect /\ Dead(clusters) THEN 503 ELSE Nil
    BY DEF Route, RouteFields
  <2> HIDE DEF x
  <2>2. Answered(x)
    BY <2>1, StatusCodesAssumption DEF Answered
  <2>4. RouteGranted(x)
    BY <1>2, <2>1, <2>2, SeqEmpty DEF RouteGranted, ClusterGranted, OwnerKind, Weighed
  <2>3. ClearAllowed(x)
    BY <2>1 DEF ClearAllowed
  <2> QED BY <2>3, <2>4 DEF x
<1> HIDE DEF RouteFor
<1>5. all = [i \in DOMAIN good |-> all[i]] /\ DOMAIN all = DOMAIN good
      /\ \A i \in DOMAIN good : RouteGranted(all[i]) /\ ClearAllowed(all[i])
  BY <1>4
<1> HIDE DEF all
<1>6. IsSeq(all) /\ \A x \in Range(all) : RouteGranted(x) /\ ClearAllowed(x)
  BY <1>3, <1>5, SeqOver DEF Range
<1> QED BY <1>1, <1>6, SeqEmpty

-----------------------------------------------------------------------------
(* Routes of the Gateway API: the hosts *)

(* A route at a place of its own in the routes of a host. *)
LEMMA PutKeeps ==
  ASSUME NEW v, RoutesGranted(v), NEW k, NEW x, RouteGranted(x), NEW w, w.Routes = Put(v.Routes, k, x)
  PROVE  RoutesGranted(w) /\ (PlainGranted(v) /\ ClearAllowed(x) => PlainGranted(w))
<1>1. DOMAIN w.Routes = DOMAIN v.Routes \union {k}
  BY DEF Put
<1>2. IsFiniteSet(DOMAIN w.Routes)
  BY <1>1, FS_AddElement DEF RoutesGranted
<1>3. \A y \in RoutesOf(w) : y = x \/ y \in RoutesOf(v)
  BY DEF RoutesOf, Put
<1> QED BY <1>2, <1>3 DEF RoutesGranted, PlainGranted

HeadersAt(order, route, n) ==
  FoldLeft(LAMBDA hs, h : IF IsWildcard(h) THEN Append(hs, WildcardDomainHeaderMatch(h)) ELSE hs,
           route.headers, SubSeq(order, 1, n))

GatewayHostAdd(secret, host, k, x, d) ==
  IF secret = Nil
  THEN [EnsureVirtualHost(d, host) EXCEPT !.VirtualHosts[host].Routes = Put(@, k, x)]
  ELSE LET Secured(v) == [v EXCEPT !.Secret = secret, !.Routes = Put(v.Routes, k, x)]
       IN  [EnsureSecureVirtualHost(d, host) EXCEPT !.SecureVirtualHosts[host] = Secured(@)]

GatewayHostStep(secret, order, route, s, d, n) ==
  GatewayHostAdd(secret, order[n], ConditionsToString([route EXCEPT !.headers = HeadersAt(order, route, n)]),
                 [route EXCEPT !.headers = HeadersAt(order, route, Len(order))], d)
GatewayHostInv(secret, order, route, s, d) == DAGGranted(d)
GatewayHosts == INSTANCE Loops WITH Step <- GatewayHostStep, Inv <- GatewayHostInv

LEMMA GatewayHostKeeps ==
  ASSUME NEW secret, NEW host, SecretGranted(host, secret), NEW k, NEW x, RouteGranted(x), ClearAllowed(x),
         NEW d, DAGGranted(d)
  PROVE  DAGGranted(GatewayHostAdd(secret, host, k, x, d))
<1>1. CASE secret = Nil
  <2> DEFINE ensured == EnsureVirtualHost(d, host)
             old == EnsuredPlain(d, host)
             new == [old EXCEPT !.Routes = Put(old.Routes, k, x)]
             e == [ensured EXCEPT !.VirtualHosts[host] = new]
  <2>1. OnlyPlain(d, ensured, host) /\ ensured.VirtualHosts[host] = old
    BY EnsurePlainFacts DEF DAGGranted, DAGShape
  <2>2. PlainGranted(old) /\ DOMAIN old = PlainFields
    BY EnsuredGranted
  <2> HIDE DEF ensured, old
  <2>3. GatewayHostAdd(secret, host, k, x, d) = e
    <3>1. GatewayHostAdd(secret, host, k, x, d) = [ensured EXCEPT !.VirtualHosts[host].Routes = Put(@, k, x)]
      BY <1>1 DEF GatewayHostAdd, ensured
    <3> QED BY <2>1, <3>1 DEF OnlyPlain, DAGFields
  <2>4. DOMAIN new = PlainFields /\ new.Routes = Put(old.Routes, k, x)
    BY <2>2 DEF PlainFields
  <2> HIDE DEF new
  <2>5. PlainGranted(new)
    BY <2>2, <2>4, PutKeeps DEF PlainGranted
  <2>6. OnlyPlain(ensured, e, host) /\ e.VirtualHosts[host] = new
    <3>1. DOMAIN ensured = DAGFields /\ host \in DOMAIN ensured.VirtualHosts
      BY <2>1 DEF OnlyPlain
    <3> QED BY <3>1, SetPlainFacts
  <2> HIDE DEF e
  <2>7. OnlyPlain(d, e, host)
    BY <2>1, <2>6 DEF OnlyPlain
  <2> QED BY <2>3, <2>4, <2>5, <2>6, <2>7, PlainKeeps
<1>2. CASE secret # Nil
  <2> DEFINE ensured == EnsureSecureVirtualHost(d, host)
             old == Ensured(d, host)
             Secured(v) == [v EXCEPT !.Secret = secret, !.Routes = Put(v.Routes, k, x)]
             new == Secured(old)
             e == [ensured EXCEPT !.SecureVirtualHosts[host] = new]
  <2>1. OnlySecure(d, ensured, host) /\ ensured.SecureVirtualHosts[host] = old
    BY EnsureSecureFacts DEF DAGGranted, DAGShape
  <2>2. SecureGranted(host, d.ExtensionClusters, old) /\ DOMAIN old = SecureFields
    BY EnsuredGranted
  <2> HIDE DEF ensured, old
  <2>3. GatewayHostAdd(secret, host, k, x, d) = e
    <3>1. GatewayHostAdd(secret, host, k, x, d) = [ensured EXCEPT !.SecureVirtualHosts[host] = Secured(@)]
      BY <1>2 DEF GatewayHostAdd, ensured
    <3> HIDE DEF Secured
    <3> QED BY <2>1, <3>1 DEF OnlySecure, DAGFields
  <2>4. /\ DOMAIN new = SecureFields /\ new.Routes = Put(old.Routes, k, x) /\ new.Secret = secret
        /\ new.Fallback = old.Fallback /\ new.TCP = old.TCP /\ new.Auth = old.Auth
    BY <2>2 DEF SecureFields
  <2> HIDE DEF new
  <2>5. RoutesGranted(new)
    BY <2>2, <2>4, PutKeeps DEF SecureGranted
  <2>6. SecureGranted(host, d.ExtensionClusters, new)
    BY <2>2, <2>4, <2>5 DEF SecureGranted
  <2>7. OnlySecure(ensured, e, host) /\ e.SecureVirtualHosts[host] = new
    <3>1. DOMAIN ensured = DAGFields /\ host \in DOMAIN ensured.SecureVirtualHosts
      BY <2>1 DEF OnlySecure
    <3> QED BY <3>1, SetSecureHostFacts
  <2> HIDE DEF e
  <2>8. OnlySecure(d, e, host)
    BY <2>1, <2>7 DEF OnlySecure
  <2> QED BY <2>3, <2>4, <2>6, <2>7, <2>8, SecureKeeps
<1> QED BY <1>1, <1>2

LEMMA GatewayHostsKeep ==
  ASSUME NEW secret, NEW order, IsSeq(order), \A n \in DOMAIN order : SecretGranted(order[n], secret), NEW x, RouteGranted(x), ClearAllowed(x),
         NEW d, DAGGranted(d)
  PROVE  DAGGranted(AddToGatewayHosts(d, secret, order, x))
<1> DEFINE places == [n \in DOMAIN order |-> n]
<1>1. AddToGatewayHosts(d, secret, order, x) = GatewayHosts!Loop(secret, order, x, Nil, d, places)
  BY DEF AddToGatewayHosts, GatewayHosts!Loop, FoldLeft, MapThenFoldSet, GatewayHosts!Last, Max,
         GatewayHostStep, GatewayHostAdd, HeadersAt
<1>2. IsSeq(places)
  <2>1. places = [n \in DOMAIN order |-> places[n]]
    OBVIOUS
  <2> HIDE DEF places
  <2> QED BY <2>1, SeqOver
<1>3. ASSUME NEW headers PROVE LET y == [x EXCEPT !.headers = headers] IN RouteGranted(y) /\ ClearAllowed(y)
  <2> DEFINE y == [x EXCEPT !.headers = headers]
  <2>1. /\ DOMAIN y = RouteFields /\ y.owner = x.owner /\ y.clusters = x.clusters
        /\ y.ownerKind = x.ownerKind /\ y.upgrade = x.upgrade /\ y.direct = x.direct /\ y.redirect = x.redirect
    BY DEF RouteGranted, RouteFields
  <2> HIDE DEF y
  <2>2. RouteGranted(y) /\ ClearAllowed(y)
    BY <2>1 DEF RouteGranted, ClearAllowed, Answered
  <2> QED BY <2>2 DEF y
<1>p. \A i \in DOMAIN places : SecretGranted(order[places[i]], secret)
  OBVIOUS
<1> HIDE DEF places
<1>4. \A acc : \A i \in DOMAIN places : GatewayHostInv(secret, order, x, Nil, acc)
        => GatewayHostInv(secret, order, x, Nil, GatewayHostStep(secret, order, x, Nil, acc, places[i]))
  BY <1>p, <1>3, GatewayHostKeeps DEF GatewayHostInv, GatewayHostStep
<1>5. places \in Seq(Range(places)) /\ GatewayHostInv(secret, order, x, Nil, d)
  BY <1>2 DEF IsSeq, GatewayHostInv
<1>6. GatewayHostInv(secret, order, x, Nil, GatewayHosts!Loop(secret, order, x, Nil, d, places))
  BY <1>4, <1>5, GatewayHosts!LoopKeeps
<1> QED BY <1>1, <1>6 DEF GatewayHostInv

GatewayRouteStep(secret, order, r, s, d, x) == AddToGatewayHosts(d, secret, order, x)
GatewayRouteInv(secret, order, r, s, d) == DAGGranted(d)
GatewayRoutes == INSTANCE Loops WITH Step <- GatewayRouteStep, Inv <- GatewayRouteInv

GatewayRuleStep(secret, orders, rules, s, d, i) == GatewayRoutes!Loop(secret, orders[i], Nil, Nil, d, rules[i])
GatewayRuleInv(secret, orders, rules, s, d) == DAGGranted(d)
GatewayRules == INSTANCE Loops WITH Step <- GatewayRuleStep, Inv <- GatewayRuleInv

RulesOf(key) == [i \in DOMAIN source.httproutes[key].rules |-> RuleRoutes(source, config, key, source.httproutes[key].rules[i], Word)]

LEMMA HTTPRouteKeeps ==
  ASSUME ObjectsWellFormed, NEW key \in DOMAIN source.httproutes, NEW secret, NEW lhn, NEW orders,
         \A i \in DOMAIN source.httproutes[key].rules :
           IsSeq(orders[i]) /\ \A n \in DOMAIN orders[i] : SecretGranted(orders[i][n], secret),
         NEW d, DAGGranted(d)
  PROVE  DAGGranted(ComputeHTTPRoute(source, config, d, key, secret, lhn, orders, Word).dag)
<1> DEFINE route == source.httproutes[key]
           found == ComputeHosts(route.hostnames, lhn)
           rules == RulesOf(key)
           places == [i \in DOMAIN rules |-> i]
           done == ComputeHTTPRoute(source, config, d, key, secret, lhn, orders, Word)
           loop == GatewayRules!Loop(secret, orders, rules, Nil, d, places)
<1>1. done.dag = IF found.hosts = {} THEN d ELSE loop
  <2> DEFINE hostErrors == IF found.errors THEN "ResolvedRefs" :> "Degraded" ELSE <<>>
             failures == FoldLeft(LAMBDA acc, r : RuleFailures(source, config, key, r) @@ acc, hostErrors, route.rules)
             none == Put(hostErrors, "Accepted", "ErrorsExist")
             some == Accepted(failures)
             programmed == \E i \in DOMAIN rules : rules[i] # <<>>
  <2>1. done = IF found.hosts = {} THEN [dag |-> d, conds |-> none, programmed |-> FALSE]
               ELSE [dag |-> loop, conds |-> some, programmed |-> programmed]
    BY DEF ComputeHTTPRoute, GatewayRules!Loop, FoldLeft, MapThenFoldSet, GatewayRules!Last, Max,
           GatewayRuleStep, GatewayRoutes!Loop, GatewayRoutes!Last, GatewayRouteStep, RulesOf
  <2> HIDE DEF done, loop, none, some, programmed, found
  <2> QED BY <2>1
<1>2. IsSeq(route.rules) /\ \A r \in Range(route.rules) : IsSeq(r.matches) /\ BackendsWellFormed(r.backends)
  BY DEF ObjectsWellFormed
<1>3. /\ DOMAIN rules = DOMAIN route.rules
      /\ \A i \in DOMAIN rules : IsSeq(rules[i]) /\ \A x \in Range(rules[i]) : RouteGranted(x) /\ ClearAllowed(x)
  <2>1. \A i \in DOMAIN route.rules : IsSeq(route.rules[i].matches) /\ BackendsWellFormed(route.rules[i].backends)
    BY <1>2 DEF Range
  <2>2. DOMAIN rules = DOMAIN route.rules /\ \A i \in DOMAIN route.rules : rules[i] = RuleRoutes(source, config, key, route.rules[i], Word)
    BY DEF RulesOf
  <2> HIDE DEF rules, route
  <2> QED BY <2>1, <2>2, RuleRoutesGranted
<1>4. IsSeq(places)
  <2>1. places = [i \in DOMAIN route.rules |-> places[i]]
    BY <1>3
  <2> HIDE DEF places
  <2> QED BY <1>2, <2>1, SeqOver
<1>5. \A i \in DOMAIN places : places[i] \in DOMAIN rules
  OBVIOUS
<1>6. \A i \in DOMAIN rules : IsSeq(orders[i]) /\ \A n \in DOMAIN orders[i] : SecretGranted(orders[i][n], secret)
  BY <1>3
<1> HIDE DEF places, rules
<1>7. ASSUME NEW acc, NEW i \in DOMAIN rules, DAGGranted(acc)
      PROVE  DAGGranted(GatewayRoutes!Loop(secret, orders[i], Nil, Nil, acc, rules[i]))
  <2>1. \A e : \A j \in DOMAIN rules[i] : GatewayRouteInv(secret, orders[i], Nil, Nil, e)
          => GatewayRouteInv(secret, orders[i], Nil, Nil, GatewayRouteStep(secret, orders[i], Nil, Nil, e, rules[i][j]))
    <3>1. \A j \in DOMAIN rules[i] : RouteGranted(rules[i][j]) /\ ClearAllowed(rules[i][j])
      BY <1>3 DEF Range
    <3> QED BY <1>6, <3>1, GatewayHostsKeep DEF GatewayRouteInv, GatewayRouteStep
  <2>2. rules[i] \in Seq(Range(rules[i])) /\ GatewayRouteInv(secret, orders[i], Nil, Nil, acc)
    BY <1>3, <1>7 DEF IsSeq, GatewayRouteInv
  <2>3. GatewayRouteInv(secret, orders[i], Nil, Nil, GatewayRoutes!Loop(secret, orders[i], Nil, Nil, acc, rules[i]))
    BY <2>1, <2>2, GatewayRoutes!LoopKeeps
  <2> QED BY <2>3 DEF GatewayRouteInv
<1>8. \A acc : \A i \in DOMAIN places : GatewayRuleInv(secret, orders, rules, Nil, acc)
        => GatewayRuleInv(secret, orders, rules, Nil, GatewayRuleStep(secret, orders, rules, Nil, acc, places[i]))
  BY <1>5, <1>7 DEF GatewayRuleInv, GatewayRuleStep
<1>9. places \in Seq(Range(places)) /\ GatewayRuleInv(secret, orders, rules, Nil, d)
  BY <1>4 DEF IsSeq, GatewayRuleInv
<1>10. GatewayRuleInv(secret, orders, rules, Nil, loop)
  BY <1>8, <1>9, GatewayRules!LoopKeeps
<1> HIDE DEF loop, done, found
<1> QED BY <1>1, <1>10 DEF GatewayRuleInv, done

(* TLSRoutes. *)
ZeroWeight(b) == b.clusters # <<>> /\ TotalWeight(b.clusters, Word) = 0
UsableStep(rules, q, r, s, kept, b) == IF b.clusters # <<>> /\ ~ZeroWeight(b) THEN Append(kept, b) ELSE kept
UsableInv(rules, q, r, s, kept) == IsSeq(kept) /\ Range(kept) \subseteq Range(rules)
Usable == INSTANCE Loops WITH Step <- UsableStep, Inv <- UsableInv

UsableOf(rules) == Collect(rules, LAMBDA b : b.clusters # <<>> /\ ~ZeroWeight(b))

LEMMA UsableFacts ==
  ASSUME NEW rules, IsSeq(rules)
  PROVE  IsSeq(UsableOf(rules)) /\ Range(UsableOf(rules)) \subseteq Range(rules)
<1>1. UsableOf(rules) = Usable!Loop(rules, Nil, Nil, Nil, <<>>, rules)
  BY DEF UsableOf, Collect, Usable!Loop, FoldLeft, MapThenFoldSet, Usable!Last, Max, UsableStep
<1>2. UsableInv(rules, Nil, Nil, Nil, <<>>)
  BY SeqEmpty DEF UsableInv
<1>3. ASSUME NEW acc, NEW i \in DOMAIN rules, UsableInv(rules, Nil, Nil, Nil, acc)
      PROVE  UsableInv(rules, Nil, Nil, Nil, UsableStep(rules, Nil, Nil, Nil, acc, rules[i]))
  <2>1. rules[i] \in Range(rules)
    BY DEF Range
  <2>2. IsSeq(Append(acc, rules[i])) /\ Range(Append(acc, rules[i])) = Range(acc) \union {rules[i]}
    BY <1>3, SeqAppend DEF UsableInv
  <2> QED BY <1>3, <2>1, <2>2 DEF UsableInv, UsableStep
<1>4. rules \in Seq(Range(rules))
  BY DEF IsSeq
<1>5. UsableInv(rules, Nil, Nil, Nil, Usable!Loop(rules, Nil, Nil, Nil, <<>>, rules))
  BY <1>2, <1>3, <1>4, Usable!LoopKeeps
<1> QED BY <1>1, <1>5 DEF UsableInv

LEMMA ImageFinite ==
  ASSUME NEW f, IsFiniteSet(DOMAIN f)
  PROVE  IsFiniteSet({f[k] : k \in DOMAIN f})
<1> DEFINE S == DOMAIN f
           T == {f[k] : k \in DOMAIN f}
           g == [k \in S |-> f[k]]
<1>1. g \in Surjection(S, T)
  BY DEF Surjection
<1> HIDE DEF S, T, g
<1>2. IsFiniteSet(T)
  BY <1>1, FS_Surjection DEF S
<1> QED BY <1>2 DEF T

(* The hosts that a route gets from a listener. *)
LEMMA HostsStand ==
  ASSUME NEW hostnames, NEW lhn
  PROVE  /\ \A h \in ComputeHosts(hostnames, lhn).hosts : StandsFor(lhn, h)
         /\ IsSeq(hostnames) => IsFiniteSet(ComputeHosts(hostnames, lhn).hosts)
<1> DEFINE Stands(h) == ValidHostName(h) /\
             (lhn \in {Nil, "*", h} \/ (IsWildcard(lhn) /\ RemoveFirstDNSLabel(lhn) = RemoveFirstDNSLabel(h)))
           fitting == {h \in Range(hostnames) : Stands(h)}
           one == CASE lhn = Nil -> {"*"} [] lhn = "*" -> {} [] OTHER -> {lhn}
           bad == lhn \notin {Nil, "*"} /\ ~ValidHostName(lhn)
           found == ComputeHosts(hostnames, lhn)
           missed == fitting # Range(hostnames)
<1>1. found = IF bad THEN [hosts |-> {}, errors |-> TRUE]
              ELSE IF hostnames = <<>> THEN [hosts |-> one, errors |-> FALSE]
              ELSE [hosts |-> fitting, errors |-> missed]
  BY Zenon DEF ComputeHosts
<1>2. IsSeq(hostnames) => IsFiniteSet(Range(hostnames))
  <2> SUFFICES ASSUME IsSeq(hostnames) PROVE IsFiniteSet(Range(hostnames))
    OBVIOUS
  <2>1. DOMAIN hostnames = 1..Len(hostnames) /\ Len(hostnames) \in Nat
    BY DEF IsSeq
  <2>2. IsFiniteSet(DOMAIN hostnames)
    BY <2>1, FS_Interval
  <2> QED BY <2>2, ImageFinite DEF Range
<1>3. IsSeq(hostnames) => IsFiniteSet(fitting)
  <2>1. fitting \subseteq Range(hostnames)
    BY Zenon
  <2> HIDE DEF fitting
  <2> QED BY <1>2, <2>1, FS_Subset
<1>4. IsFiniteSet({}) /\ IsFiniteSet(one)
  <2>1. one = {"*"} \/ one = {} \/ one = {lhn}
    <3>1. CASE lhn = Nil
      BY <3>1, Zenon
    <3>2. CASE lhn # Nil /\ lhn = "*"
      BY <3>2, Zenon
    <3>3. CASE lhn # Nil /\ lhn # "*"
      BY <3>3, Zenon
    <3> QED BY <3>1, <3>2, <3>3, Zenon
  <2>2. IsFiniteSet({}) /\ IsFiniteSet({lhn}) /\ \A x : IsFiniteSet({x})
    BY FS_EmptySet, FS_Singleton, Zenon
  <2> HIDE DEF one
  <2> QED BY <2>1, <2>2, Zenon
<1>6. \A h \in fitting : StandsFor(lhn, h)
  BY Zenon DEF StandsFor
<1>7. \A h \in one : StandsFor(lhn, h)
  <2>1. CASE lhn = Nil
    BY <2>1 DEF StandsFor
  <2>2. CASE lhn # Nil /\ lhn = "*"
    BY <2>2 DEF StandsFor
  <2>3. CASE lhn # Nil /\ lhn # "*"
    <3>1. one = {lhn}
      BY <2>3, Zenon
    <3> QED BY <3>1 DEF StandsFor
  <2> QED BY <2>1, <2>2, <2>3
<1> HIDE DEF fitting, one, bad, found, missed
<1>5. found.hosts = {} \/ found.hosts = one \/ found.hosts = fitting
  BY <1>1
<1> QED BY <1>3, <1>4, <1>5, <1>6, <1>7 DEF found

LEMMA HostGranted ==
  ASSUME NEW lhn, NEW secret, ListenerGranted(lhn, secret), NEW host, StandsFor(lhn, host)
  PROVE  SecretGranted(host, secret)
BY DEF ListenerGranted, SecretGranted, CertificateAllowed

WithTCP(secret, clusters, v) == [v EXCEPT !.Secret = IF secret = Nil THEN @ ELSE secret, !.TCP = clusters]

TCPHosts(secret, clusters, hosts, d) ==
  [d EXCEPT !.SecureVirtualHosts = [h \in DOMAIN @ \union hosts |->
     IF h \in hosts THEN WithTCP(secret, clusters, Ensured(d, h)) ELSE d.SecureVirtualHosts[h]]]

LEMMA TCPHostsKeep ==
  ASSUME NEW secret, NEW clusters, Weighed(clusters), NEW hosts, \A h \in hosts : SecretGranted(h, secret),
         NEW d, DAGGranted(d)
  PROVE  DAGGranted(TCPHosts(secret, clusters, hosts, d))
<1> DEFINE e == TCPHosts(secret, clusters, hosts, d)
           new == [h \in DOMAIN d.SecureVirtualHosts \union hosts |->
                     IF h \in hosts THEN WithTCP(secret, clusters, Ensured(d, h)) ELSE d.SecureVirtualHosts[h]]
<1>1. /\ DOMAIN e = DAGFields /\ e.ExtensionClusters = d.ExtensionClusters /\ e.VirtualHosts = d.VirtualHosts
      /\ e.SecureVirtualHosts = new
  BY DEF TCPHosts, DAGGranted, DAGShape, DAGFields
<1>2. ASSUME NEW h \in hosts, NEW v, SecureGranted(h, d.ExtensionClusters, v), DOMAIN v = SecureFields
      PROVE  LET w == WithTCP(secret, clusters, v) IN SecureGranted(h, d.ExtensionClusters, w) /\ DOMAIN w = SecureFields
  <2> DEFINE w == WithTCP(secret, clusters, v)
  <2>1. /\ DOMAIN w = SecureFields /\ w.Secret = (IF secret = Nil THEN v.Secret ELSE secret) /\ w.TCP = clusters
        /\ w.Routes = v.Routes /\ w.Fallback = v.Fallback /\ w.Auth = v.Auth
    BY <1>2 DEF WithTCP, SecureFields
  <2> HIDE DEF w
  <2>2. SecureGranted(h, d.ExtensionClusters, w)
    BY <1>2, <2>1 DEF SecureGranted, RoutesGranted, RoutesOf
  <2> QED BY <2>1, <2>2 DEF w
<1>3. ASSUME NEW h \in DOMAIN new
      PROVE  SecureGranted(h, d.ExtensionClusters, new[h]) /\ DOMAIN new[h] = SecureFields
  BY <1>2, EnsuredGranted DEF DAGGranted, DAGShape
<1> HIDE DEF new, e
<1>4. DAGGranted(e)
  BY <1>1, <1>3 DEF DAGGranted, DAGShape
<1> QED BY <1>4 DEF e

LEMMA TLSRouteKeeps ==
  ASSUME ObjectsWellFormed, NEW key \in DOMAIN source.tlsroutes, NEW secret, NEW lhn, ListenerGranted(lhn, secret),
         NEW d, DAGGranted(d)
  PROVE  DAGGranted(ComputeTLSRoute(source, config, d, key, secret, lhn, Word).dag)
<1> DEFINE route == source.tlsroutes[key]
           found == ComputeHosts(route.hostnames, lhn)
           rules == [i \in DOMAIN route.rules |-> Backends(source, config, "TLSRoute", key[1], route.rules[i].backends)]
           usable == UsableOf(rules)
           added == TCPHosts(secret, Last(usable).clusters, found.hosts, d)
           done == ComputeTLSRoute(source, config, d, key, secret, lhn, Word)
<1>1. done.dag = IF found.hosts = {} \/ usable = <<>> THEN d ELSE added
  <2> DEFINE hostErrors == IF found.errors THEN "ResolvedRefs" :> "Degraded" ELSE <<>>
             none == Put(hostErrors, "Accepted", "ErrorsExist")
             some == Accepted((IF \E b \in Range(rules) : b.clusters = <<>> \/ ~b.ok THEN "ResolvedRefs" :> "Degraded" ELSE <<>>)
                              @@ (IF \E b \in Range(rules) : ZeroWeight(b) THEN "ValidBackendRefs" :> "AllBackendRefsHaveZeroWeights" ELSE <<>>)
                              @@ hostErrors)
  <2>1. done = IF found.hosts = {} THEN [dag |-> d, conds |-> none, programmed |-> FALSE]
               ELSE [dag |-> IF usable = <<>> THEN d ELSE added, conds |-> some, programmed |-> usable # <<>>]
    BY DEF ComputeTLSRoute, UsableOf, Collect, FoldLeft, MapThenFoldSet, Max, ZeroWeight, TCPHosts, WithTCP,
           Ensured
  <2> HIDE DEF done, none, some, found, usable, added
  <2> QED BY <2>1
<1>2. IsSeq(route.rules) /\ \A r \in Range(route.rules) : BackendsWellFormed(r.backends)
  BY DEF ObjectsWellFormed
<1>3. \A i \in DOMAIN rules : Weighed(rules[i].clusters)
  <2>1. \A i \in DOMAIN route.rules : BackendsWellFormed(route.rules[i].backends)
    BY <1>2 DEF Range
  <2> HIDE DEF route
  <2> QED BY <2>1, BackendsGranted
<1>4. IsSeq(rules)
  <2>1. rules = [i \in DOMAIN route.rules |-> rules[i]]
    OBVIOUS
  <2> HIDE DEF rules
  <2> QED BY <1>2, <2>1, SeqOver
<1> HIDE DEF rules
<1>5. IsSeq(usable) /\ Range(usable) \subseteq Range(rules)
  BY <1>4, UsableFacts
<1> HIDE DEF usable
<1>6. usable # <<>> => Weighed(Last(usable).clusters)
  <2>1. usable # <<>> => Last(usable) \in Range(usable)
    BY <1>5 DEF IsSeq, Last, Range
  <2> QED BY <1>3, <1>5, <2>1 DEF Range
<1>7. usable # <<>> => DAGGranted(added)
  <2>1. \A h \in found.hosts : SecretGranted(h, secret)
    BY HostsStand, HostGranted
  <2> HIDE DEF found
  <2> QED BY <1>6, <2>1, TCPHostsKeep
<1> HIDE DEF done, added, found
<1> QED BY <1>1, <1>7 DEF done

-----------------------------------------------------------------------------
(* The certificate of a listener *)

LEMMA ListenerSecretGranted ==
  ASSUME source.gateway # Nil, NEW l \in Range(source.gateway.listeners)
  PROVE  ListenerGranted(l.hostname, ListenerSecret(source, l).secret)
<1>1. /\ ListenerGranted(l.hostname, Permitted(Nil).secret)
      /\ \A t, r : ListenerGranted(l.hostname, Refused(t, r).secret)
  BY DEF Permitted, Refused, ListenerGranted
<1>2. l.tls # Nil => ListenerGranted(l.hostname, ValidGatewayTLS(source, l.tls).secret)
  <2> DEFINE ref == Head(l.tls.refs)
             ns == source.gateway.key[1]
             granted == ref.to[1] = ns \/
               ValidCrossNamespaceRef(source, [kind |-> "Gateway", namespace |-> ns],
                                      [kind |-> "Secret", namespace |-> ref.to[1], name |-> ref.to[2]])
             bad == ~ref.valid \/ ~granted \/ LookupSecret(source, ref.to) = Failed
  <2>1. ValidGatewayTLS(source, l.tls) = IF Len(l.tls.refs) # 1 THEN Refused("Ready", "Invalid")
                                         ELSE IF bad THEN Refused("ResolvedRefs", "InvalidCertificateRef")
                                         ELSE Permitted(ref.to)
    BY DEF ValidGatewayTLS
  <2>2. Permitted(ref.to).secret = ref.to
    BY DEF Permitted
  <2>3. granted => ref.to[1] = ns \/ Granted("Gateway", ns, "Secret", ref.to)
    BY DEF ValidCrossNamespaceRef, Granted
  <2>4. ~bad => ref.to \in DOMAIN source.secrets /\ granted
    BY DEF LookupSecret
  <2> HIDE DEF granted, bad, ref
  <2>5. Len(l.tls.refs) = 1 => ref \in Range(l.tls.refs)
    BY DEF ref, Range, IsSeq
  <2>6. (~bad /\ Len(l.tls.refs) = 1 /\ l.tls # Nil) => ListenerGranted(l.hostname, ref.to)
    BY <2>3, <2>4, <2>5 DEF ListenerGranted, ListenerNames
  <2> QED BY <1>1, <2>1, <2>2, <2>6
<1> QED BY <1>1, <1>2 DEF ListenerSecret

-----------------------------------------------------------------------------
(* The routes of a host, sorted *)

LEMMA InsertFacts ==
  ASSUME NEW s, IsSeq(s), NEW at \in 0..Len(s), NEW x
  PROVE  IsSeq(InsertAt(s, at + 1, x)) /\ Range(InsertAt(s, at + 1, x)) \subseteq Range(s) \union {x}
<1> DEFINE left == SubSeq(s, 1, (at + 1) - 1)
           right == SubSeq(s, at + 1, Len(s))
<1>1. Len(s) \in Nat /\ DOMAIN s = 1..Len(s) /\ s \in Seq(Range(s))
  BY DEF IsSeq
<1>2. InsertAt(s, at + 1, x) = (left \o <<x>>) \o right
  BY Zenon DEF InsertAt
<1>3. left \in Seq(Range(s)) /\ right \in Seq(Range(s))
  BY <1>1
<1> HIDE DEF left, right
<1>4. IsSeq(left) /\ IsSeq(right)
  BY <1>3, ElementsSeq
<1>5. Range(left) \subseteq Range(s) /\ Range(right) \subseteq Range(s)
  BY <1>3 DEF Range
<1>6. IsSeq(<<x>>) /\ Range(<<x>>) = {x}
  BY DEF IsSeq, Range
<1>7. IsSeq(left \o <<x>>) /\ Range(left \o <<x>>) = Range(left) \union {x}
  BY <1>4, <1>6, SeqConcat
<1>8. IsSeq((left \o <<x>>) \o right) /\ Range((left \o <<x>>) \o right) = Range(left \o <<x>>) \union Range(right)
  BY <1>4, <1>7, SeqConcat
<1> HIDE DEF InsertAt
<1>9. \A u : u = (left \o <<x>>) \o right => IsSeq(u) /\ Range(u) \subseteq Range(s) \union {x}
  BY <1>5, <1>7, <1>8
<1> QED BY <1>2, <1>9, Zenon

(* A set of positions that is not empty has a last one. *)
LEMMA LastPosition ==
  ASSUME NEW n \in Nat, NEW D, D \subseteq 0..n, D # {}
  PROVE  \E i \in D : \A j \in D : j <= i
<1> DEFINE T == {k \in Nat : \A y \in D : y <= k}
<1>1. PICK m \in T : \A k \in T : m <= k
  <2>1. n \in T /\ T \subseteq Nat
    OBVIOUS
  <2> HIDE DEF T
  <2> QED BY <2>1, Kept!LeastNat, Zenon
<1>2. m \in D
  <2>1. CASE m = 0
    <3>1. PICK y \in D : y \in 0..n
      BY Zenon
    <3>2. y <= m
      BY <1>1
    <3> QED BY <2>1, <3>1, <3>2
  <2>2. CASE m # 0
    <3>1. m - 1 \notin T
      BY <1>1, <2>2
    <3>2. PICK y \in D : ~(y <= m - 1)
      BY <1>1, <2>2, <3>1
    <3>3. y = m
      BY <1>1, <3>2
    <3> QED BY <3>3
  <2> QED BY <2>1, <2>2
<1> QED BY <1>1, <1>2

InsertRoute(acc, x) ==
  LET stops == {0} \union {i \in DOMAIN acc : ~RouteLess(x, acc[i])}
      at == CHOOSE i \in stops : \A j \in stops : j <= i
  IN  InsertAt(acc, at + 1, x)

InsertRouteStep(seq, q, r, s, acc, x) == InsertRoute(acc, x)
InsertRouteInv(seq, q, r, s, acc) == IsSeq(acc) /\ Range(acc) \subseteq Range(seq)
InsertRoutes == INSTANCE Loops WITH Step <- InsertRouteStep, Inv <- InsertRouteInv

RoutesSorted(seq) == StableSort(seq, RouteLess)

LEMMA SortedFacts ==
  ASSUME NEW seq, IsSeq(seq)
  PROVE  IsSeq(RoutesSorted(seq)) /\ Range(RoutesSorted(seq)) \subseteq Range(seq)
<1>1. RoutesSorted(seq) = InsertRoutes!Loop(seq, Nil, Nil, Nil, <<>>, seq)
  BY DEF RoutesSorted, StableSort, InsertRoutes!Loop, FoldLeft, MapThenFoldSet, InsertRoutes!Last, Max,
         InsertRouteStep, InsertRoute
<1>2. InsertRouteInv(seq, Nil, Nil, Nil, <<>>)
  BY SeqEmpty DEF InsertRouteInv
<1>3. ASSUME NEW acc, NEW i \in DOMAIN seq, InsertRouteInv(seq, Nil, Nil, Nil, acc)
      PROVE  InsertRouteInv(seq, Nil, Nil, Nil, InsertRouteStep(seq, Nil, Nil, Nil, acc, seq[i]))
  <2> DEFINE x == seq[i]
             stops == {0} \union {j \in DOMAIN acc : ~RouteLess(x, acc[j])}
             at == CHOOSE k \in stops : \A j \in stops : j <= k
  <2>1. x \in Range(seq)
    BY DEF Range
  <2>2. IsSeq(acc) /\ Range(acc) \subseteq Range(seq) /\ DOMAIN acc = 1..Len(acc) /\ Len(acc) \in Nat
    BY <1>3 DEF InsertRouteInv, IsSeq
  <2>3. stops \subseteq 0..Len(acc) /\ stops # {}
    BY <2>2
  <2>4. InsertRouteStep(seq, Nil, Nil, Nil, acc, seq[i]) = InsertAt(acc, at + 1, x)
    BY DEF InsertRouteStep, InsertRoute
  <2> HIDE DEF stops, x
  <2>5. at \in stops
    <3>1. \E k \in stops : \A j \in stops : j <= k
      BY <2>2, <2>3, LastPosition, Zenon
    <3> QED BY <3>1, Zenon
  <2> HIDE DEF at
  <2>6. at \in 0..Len(acc)
    BY <2>3, <2>5
  <2>7. IsSeq(InsertAt(acc, at + 1, x)) /\ Range(InsertAt(acc, at + 1, x)) \subseteq Range(acc) \union {x}
    BY <2>2, <2>6, InsertFacts
  <2> QED BY <2>1, <2>2, <2>4, <2>7 DEF InsertRouteInv
<1>4. seq \in Seq(Range(seq))
  BY DEF IsSeq
<1>5. InsertRouteInv(seq, Nil, Nil, Nil, InsertRoutes!Loop(seq, Nil, Nil, Nil, <<>>, seq))
  BY <1>2, <1>3, <1>4, InsertRoutes!LoopKeeps
<1> QED BY <1>1, <1>5 DEF InsertRouteInv

-----------------------------------------------------------------------------
(* What the route cache makes of them *)

(* y is the route r, its headers apart. *)
SameRoute(y, r) ==
  /\ y.clusters = r.clusters /\ y.mirror = r.mirror /\ y.owner = r.owner /\ y.ownerKind = r.ownerKind
  /\ y.upgrade = r.upgrade /\ y.direct = r.direct /\ y.redirect = r.redirect

(* x is a route of the DAG, with its headers in order. If it is forwarded,  *)
(* it has neither a direct response nor a redirect and, in the clear, does  *)
(* not upgrade.                                                             *)
Forwarded(secure, x) ==
  x.kind = "route" =>
    /\ x.action = RouteRoute(x.route, Word) /\ x.route.direct = Nil /\ ~x.route.redirect
    /\ secure \/ ~x.route.upgrade
ServedFrom(R, secure, x) == Forwarded(secure, x) /\ \E r \in R : SameRoute(x.route, r)
HostFrom(R, secure, v) == \A x \in Range(v.routes) : ServedFrom(R, secure, x)

PlainRoutes(d) == UNION {RoutesOf(d.VirtualHosts[h]) : h \in ListenerHosts(d)}
DAGRoutes(d) == PlainRoutes(d) \union (UNION {RoutesOf(d.SecureVirtualHosts[h]) : h \in SecureListenerHosts(d)})

(* The route configuration of the listener without TLS has routes of the    *)
(* virtual hosts without TLS only.                                          *)
PlainName == <<"http", "">>
ConfigRoutes(d, name) == IF name = PlainName THEN PlainRoutes(d) ELSE DAGRoutes(d)
RDSFrom(d, rds) ==
  /\ PlainName \in DOMAIN rds
  /\ \A n \in DOMAIN rds : \A h \in DOMAIN rds[n] : HostFrom(ConfigRoutes(d, n), n # PlainName, rds[n][h])

LEMMA BuiltFacts ==
  ASSUME NEW route, NEW secure, NEW auth
  PROVE  LET x == BuildRoute(route, secure, auth, Word)
         IN  x.route = route /\ Forwarded(secure, x)
<1> DEFINE kind == IF route.upgrade /\ ~secure THEN "upgrade"
                   ELSE IF route.direct # Nil THEN "direct"
                   ELSE IF route.redirect THEN "redirect" ELSE "route"
           action == IF kind = "route" THEN RouteRoute(route, Word) ELSE Nil
           disabled == kind = "route" /\ auth # Nil /\ route.authDisabled
           x == BuildRoute(route, secure, auth, Word)
<1>1. x = [route |-> route, kind |-> kind, action |-> action, authDisabled |-> disabled]
  BY Zenon DEF BuildRoute
<1>2. kind = "route" => /\ action = RouteRoute(route, Word) /\ route.direct = Nil /\ ~route.redirect
                        /\ secure \/ ~route.upgrade
  <2>1. "upgrade" # "route" /\ "direct" # "route" /\ "redirect" # "route"
    OBVIOUS
  <2> QED BY <2>1, Zenon
<1> HIDE DEF kind, action, disabled, x
<1>3. x.route = route /\ Forwarded(secure, x)
  BY <1>1, <1>2 DEF Forwarded
<1> QED BY <1>3 DEF x

OrderedHeaders(x) == [x EXCEPT !.headers = StableSort(@, HeaderMatchConditionLess)]

LEMMA OrderedFacts ==
  ASSUME NEW x, DOMAIN x = RouteFields
  PROVE  SameRoute(OrderedHeaders(x), x)
<1> DEFINE headers == StableSort(x.headers, HeaderMatchConditionLess)
<1>1. OrderedHeaders(x) = [x EXCEPT !.headers = headers]
  BY Zenon DEF OrderedHeaders
<1> HIDE DEF headers
<1> QED BY <1>1 DEF RouteFields, SameRoute

(* The orders in which a Go map may be gone through. *)
LEMMA OrdersFacts ==
  ASSUME NEW S, IsFiniteSet(S), NEW seq \in SetToSeqs(S)
  PROVE  IsSeq(seq) /\ Range(seq) \subseteq S
<1>1. Cardinality(S) \in Nat
  BY FS_CardinalityType
<1>2. seq \in [1..Cardinality(S) -> S]
  BY DEF SetToSeqs
<1>3. seq \in Seq(S)
  BY <1>1, <1>2
<1> QED BY <1>3, ElementsSeq DEF Range

LEMMA HostServedFrom ==
  ASSUME NEW v, IsFiniteSet(DOMAIN v.Routes), \A x \in RoutesOf(v) : DOMAIN x = RouteFields,
         NEW R, RoutesOf(v) \subseteq R, NEW routes \in SetToSeqs(RoutesOf(v)), NEW secure, NEW auth
  PROVE  HostFrom(R, secure, VirtualHostAndRoutes(v, routes, secure, auth, Word))
<1> DEFINE ordered == [i \in DOMAIN routes |-> OrderedHeaders(routes[i])]
           sorted == SortRoutes(routes)
           all == [i \in DOMAIN sorted |-> BuildRoute(sorted[i], secure, auth, Word)]
           vhost == VirtualHostAndRoutes(v, routes, secure, auth, Word)
<1>1. IsSeq(routes) /\ Range(routes) \subseteq RoutesOf(v)
  <2> DEFINE f == v.Routes
  <2>1. IsFiniteSet(RoutesOf(v))
    <3>1. RoutesOf(v) = {f[k] : k \in DOMAIN f}
      BY DEF RoutesOf
    <3> HIDE DEF f
    <3> QED BY <3>1, ImageFinite DEF f
  <2> QED BY <2>1, OrdersFacts
<1>2. sorted = RoutesSorted(ordered)
  BY Zenon DEF SortRoutes, RoutesSorted, OrderedHeaders
<1>3. ordered = [i \in DOMAIN routes |-> ordered[i]] /\ DOMAIN ordered = DOMAIN routes
      /\ \A i \in DOMAIN routes : ordered[i] = OrderedHeaders(routes[i])
  BY Zenon
<1>4. vhost.routes = all
  <2> HIDE DEF all
  <2>1. vhost = [routes |-> all, cors |-> v.CORS, rateLimit |-> v.RateLimit]
    BY Zenon DEF VirtualHostAndRoutes, all
  <2> HIDE DEF vhost
  <2> QED BY <2>1
<1> HIDE DEF ordered
<1>5. IsSeq(ordered)
  BY <1>1, <1>3, SeqOver
<1> HIDE DEF sorted
<1>6. Range(sorted) \subseteq Range(ordered)
  BY <1>2, <1>5, SortedFacts
<1>7. ASSUME NEW i \in DOMAIN sorted PROVE ServedFrom(R, secure, BuildRoute(sorted[i], secure, auth, Word))
  <2>1. PICK j \in DOMAIN routes : sorted[i] = OrderedHeaders(routes[j])
    BY <1>3, <1>6 DEF Range
  <2>2. routes[j] \in R /\ DOMAIN routes[j] = RouteFields
    BY <1>1 DEF Range
  <2> DEFINE x == BuildRoute(sorted[i], secure, auth, Word)
             r == routes[j]
  <2>3. x.route = sorted[i] /\ Forwarded(secure, x)
    BY BuiltFacts
  <2>4. SameRoute(sorted[i], r)
    BY <2>1, <2>2, OrderedFacts
  <2> HIDE DEF x
  <2> QED BY <2>2, <2>3, <2>4 DEF ServedFrom, x
<1>8. \A y \in Range(all) : ServedFrom(R, secure, y)
  BY <1>7 DEF Range
<1> HIDE DEF all
<1> QED BY <1>4, <1>8 DEF HostFrom

Grows(rds, name, new) == DOMAIN new = DOMAIN rds \union {name}

LEMMA AddHostFrom ==
  ASSUME NEW d, NEW rds, RDSFrom(d, rds), NEW name, NEW host, NEW w,
         HostFrom(ConfigRoutes(d, name), name # PlainName, w)
  PROVE  LET new == AddVirtualHost(rds, name, host, w) IN RDSFrom(d, new) /\ Grows(rds, name, new)
<1> DEFINE old == IF name \in DOMAIN rds THEN rds[name] ELSE <<>>
           at == Put(old, host, w)
           new == AddVirtualHost(rds, name, host, w)
<1>1. \A h \in DOMAIN old : HostFrom(ConfigRoutes(d, name), name # PlainName, old[h])
  <2>1. DOMAIN <<>> = {}
    OBVIOUS
  <2> QED BY <2>1 DEF RDSFrom
<1>2. new = Put(rds, name, at)
  BY Zenon DEF AddVirtualHost
<1> HIDE DEF old
<1>3. \A h \in DOMAIN at : HostFrom(ConfigRoutes(d, name), name # PlainName, at[h])
  BY <1>1 DEF Put
<1> HIDE DEF at, new
<1>4. DOMAIN new = DOMAIN rds \union {name} /\ \A n \in DOMAIN new : new[n] = IF n = name THEN at ELSE rds[n]
  BY <1>2 DEF Put
<1>5. RDSFrom(d, new)
  BY <1>3, <1>4 DEF RDSFrom
<1> QED BY <1>4, <1>5 DEF new, Grows

-----------------------------------------------------------------------------
(* The invariant of a rebuild *)

SecureHostsWithRoutes(d) == {h \in SecureListenerHosts(d) : d.SecureVirtualHosts[h].Routes # <<>>}

GatewayFields == {"n", "secret", "kinds", "attached", "listeners", "status"}
XDSFields == {"lds", "rds", "cds", "ext", "sds"}

(* The objects are those of the start, and the DAG has only what they may   *)
(* ask for.                                                                 *)
ObjectsSound == ProxiesWellFormed /\ ObjectsWellFormed /\ DAGGranted(dag)

(* The loops are over what there is. *)
LoopSound ==
  /\ phase \in {"secure", "ingress"} => todo \subseteq DOMAIN source.ingresses
  /\ phase = "compute" => todo \subseteq DOMAIN source.proxies
  /\ phase \in {"gateway", "attach"} => source.gateway # Nil
  /\ phase = "attach" => \A t \in todo : IF gw.kinds[t[1]] = "TLSRoute" THEN t[2] \in DOMAIN source.tlsroutes
                                         ELSE t[2] \in DOMAIN source.httproutes
  /\ phase = "routes" => todo \subseteq ({"http"} \X ListenerHosts(dag)) \union ({"https"} \X SecureHostsWithRoutes(dag))
  /\ phase = "end" => todo = {}

GatewaySound ==
  /\ DOMAIN gw = GatewayFields /\ gw.n \in Nat
  /\ phase = "attach" => ListenerGranted(AtListener.hostname, gw.secret)

(* Envoy's resources are made of this DAG, and every secure host with       *)
(* routes has its route configuration, or will have it.                     *)
XDSSound ==
  phase \in {"routes", "end"} =>
    /\ DOMAIN xds = XDSFields
    /\ xds.lds = ListenerCacheOnChange(dag, config.listener, Word) /\ xds.cds = ClusterCacheOnChange(dag)
    /\ xds.ext = ExtensionClusters(dag) /\ xds.sds = GetSecrets(dag)
    /\ RDSFrom(dag, xds.rds)
    /\ \A h \in SecureHostsWithRoutes(dag) : <<"https", h>> \in todo \union DOMAIN xds.rds

BuildInv == ObjectsSound /\ LoopSound /\ GatewaySound /\ XDSSound

LEMMA BuildInvInit == BuildInit => BuildInv
<1> SUFFICES ASSUME BuildInit PROVE BuildInv
  OBVIOUS
<1>1. /\ ProxiesWellFormed /\ ObjectsWellFormed /\ dag = EmptyDAG /\ todo = DOMAIN source.ingresses /\ phase = "secure"
      /\ gw = IdleGateway
  BY DEF BuildInit
<1>2. DAGGranted(dag)
  <2>1. /\ DOMAIN dag = DAGFields /\ dag.VirtualHosts = <<>> /\ dag.SecureVirtualHosts = <<>>
        /\ dag.ExtensionClusters = <<>>
    BY <1>1 DEF EmptyDAG, DAGFields
  <2>2. DOMAIN <<>> = {}
    OBVIOUS
  <2> QED BY <2>1, <2>2, SeqEmpty DEF DAGGranted, DAGShape
<1>3. GatewaySound
  BY <1>1 DEF IdleGateway, GatewaySound, GatewayFields
<1> QED BY <1>1, <1>2, <1>3 DEF BuildInv, ObjectsSound, LoopSound, XDSSound

(* What holds of the objects goes on to do so. *)
LEMMA GrantedSame ==
  ASSUME source' = source, config' = config
  PROVE  /\ ProxiesWellFormed => ProxiesWellFormed' /\ (ObjectsWellFormed => ObjectsWellFormed')
         /\ \A lhn, s : ListenerGranted(lhn, s) => ListenerGranted(lhn, s)'
         /\ \A d : DAGGranted(d) => DAGGranted(d)'
<1>1. (ProxiesWellFormed => ProxiesWellFormed') /\ (ObjectsWellFormed => ObjectsWellFormed')
  BY DEF ProxiesWellFormed, ObjectsWellFormed, Proxies
<1>2. \A kind, ns, toKind, to : Granted(kind, ns, toKind, to) => Granted(kind, ns, toKind, to)'
  BY DEF Granted
<1>3. \A k : OwnerKind(k)' = OwnerKind(k)
  BY DEF OwnerKind
<1>4. \A h, s : SecretGranted(h, s) => SecretGranted(h, s)'
  <2>1. \A h, s : CertificateAllowed(h, s) => CertificateAllowed(h, s)'
    BY <1>2 DEF CertificateAllowed, MayUse, IngressNames, ProxyNames, ListenerNames
  <2> QED BY <2>1 DEF SecretGranted
<1>l. \A lhn, s : ListenerGranted(lhn, s) => ListenerGranted(lhn, s)'
  BY <1>2 DEF ListenerGranted, ListenerNames
<1>5. \A x : RouteGranted(x) => RouteGranted(x)'
  BY <1>2, <1>3 DEF RouteGranted, ClusterGranted
<1>6. \A v : RoutesGranted(v) => RoutesGranted(v)'
  BY <1>5 DEF RoutesGranted
<1>7. \A h, ext, v : SecureGranted(h, ext, v) => SecureGranted(h, ext, v)'
  BY <1>4, <1>6 DEF SecureGranted
<1>8. \A v : PlainGranted(v) => PlainGranted(v)'
  <2>1. \A x : ClearAllowed(x) => ClearAllowed(x)'
    BY DEF ClearAllowed, Permits, Proxies, IsRoot
  <2> QED BY <1>6, <2>1 DEF PlainGranted
<1>9. \A d : DAGGranted(d) => DAGGranted(d)'
  BY <1>7, <1>8 DEF DAGGranted, DAGShape
<1> QED BY <1>1, <1>l, <1>9

-----------------------------------------------------------------------------
(* The steps *)

(* Steps before the resources are made, which keep the objects. *)
LEMMA BuildStep ==
  ASSUME BuildInv, source' = source, config' = config, DAGGranted(dag'), phase' \notin {"routes", "end"},
         phase' \in {"secure", "ingress"} => todo' \subseteq DOMAIN source.ingresses,
         phase' = "compute" => todo' \subseteq DOMAIN source.proxies,
         phase' \in {"gateway", "attach"} => source.gateway # Nil,
         phase' = "attach" => \A t \in todo' : IF gw'.kinds[t[1]] = "TLSRoute" THEN t[2] \in DOMAIN source.tlsroutes
                                               ELSE t[2] \in DOMAIN source.httproutes,
         DOMAIN gw' = GatewayFields, gw'.n \in Nat,
         phase' = "attach" => ListenerGranted(source.gateway.listeners[gw'.n].hostname, gw'.secret)
  PROVE  BuildInv'
<1>1. ObjectsSound'
  <2>1. ProxiesWellFormed' /\ ObjectsWellFormed' /\ DAGGranted(dag)'
    BY GrantedSame DEF BuildInv, ObjectsSound
  <2> QED BY <2>1 DEF ObjectsSound
<1>2. LoopSound'
  BY DEF LoopSound
<1>3. GatewaySound'
  <2>1. phase' = "attach" => ListenerGranted(AtListener.hostname, gw.secret)'
    BY GrantedSame DEF AtListener
  <2> QED BY <2>1 DEF GatewaySound, GatewayFields
<1>4. XDSSound'
  BY DEF XDSSound
<1> QED BY <1>1, <1>2, <1>3, <1>4 DEF BuildInv

LEMMA IngressSteps ==
  ASSUME BuildInv, NEW k \in todo, SecureIngress(k) \/ RouteIngress(k) \/ RunExtensionService(k)
  PROVE  BuildInv'
<1>1. DAGGranted(dag) /\ ObjectsWellFormed /\ DOMAIN gw = GatewayFields /\ gw.n \in Nat
  BY DEF BuildInv, ObjectsSound, GatewaySound
<1>2. CASE SecureIngress(k)
  <2>1. /\ phase = "secure" /\ dag' = ComputeSecureVirtualhosts(source, dag, k) /\ todo' = todo \ {k}
        /\ UNCHANGED <<source, config, phase, gw>>
    BY <1>2 DEF SecureIngress
  <2>2. todo \subseteq DOMAIN source.ingresses
    BY <2>1 DEF BuildInv, LoopSound
  <2>3. DAGGranted(dag')
    BY <1>1, <2>1, <2>2, SecureIngressKeeps
  <2> QED BY <1>1, <2>1, <2>2, <2>3, BuildStep
<1>3. CASE RouteIngress(k)
  <2>1. /\ phase = "ingress" /\ dag' = ComputeIngress(source, config, dag, k) /\ todo' = todo \ {k}
        /\ UNCHANGED <<source, config, phase, gw>>
    BY <1>3 DEF RouteIngress
  <2>2. todo \subseteq DOMAIN source.ingresses
    BY <2>1 DEF BuildInv, LoopSound
  <2>3. DAGGranted(dag')
    BY <1>1, <2>1, <2>2, RouteIngressKeeps
  <2> QED BY <1>1, <2>1, <2>2, <2>3, BuildStep
<1>4. CASE RunExtensionService(k)
  <2>1. /\ phase = "extensions" /\ dag' = AddExtensionCluster(dag, BuildExtensionService(source, config, k))
        /\ todo' = todo \ {k} /\ UNCHANGED <<source, config, phase, gw>>
    BY <1>4 DEF RunExtensionService
  <2>2. DAGGranted(dag')
    BY <1>1, <2>1, ExtensionKeeps
  <2> QED BY <1>1, <2>1, <2>2, BuildStep
<1> QED BY <1>2, <1>3, <1>4

LEMMA NextLoopStep == BuildInv /\ NextLoop => BuildInv'
<1> SUFFICES ASSUME BuildInv, NextLoop PROVE BuildInv'
  OBVIOUS
<1>1. DAGGranted(dag) /\ DOMAIN gw = GatewayFields /\ gw.n \in Nat
  BY DEF BuildInv, ObjectsSound, GatewaySound
<1>2. UNCHANGED <<source, config, dag, gw>> /\ phase' \in {"ingress", "extensions", "list"}
      /\ (phase' = "ingress" => todo' = DOMAIN source.ingresses)
  BY DEF NextLoop
<1> QED BY <1>1, <1>2, BuildStep

LEMMA ProxySteps == BuildInv /\ RunHTTPProxyProcessor => BuildInv'
<1> SUFFICES ASSUME BuildInv, RunHTTPProxyProcessor PROVE BuildInv'
  OBVIOUS
<1>1. /\ DAGGranted(dag) /\ ProxiesWellFormed /\ DOMAIN gw = GatewayFields /\ gw.n \in Nat
      /\ phase = "compute" => todo \subseteq DOMAIN source.proxies
  BY DEF BuildInv, ObjectsSound, GatewaySound, LoopSound
<1>2. Next /\ UNCHANGED gw
  BY DEF RunHTTPProxyProcessor
<1>3. CASE ValidHTTPProxies
  <2>1. UNCHANGED <<source, config, dag>> /\ phase' = "compute" /\ todo' \subseteq DOMAIN source.proxies
    BY <1>3 DEF ValidHTTPProxies, Proxies
  <2> QED BY <1>1, <1>2, <2>1, BuildStep
<1>4. ASSUME NEW p \in todo, ComputeHTTPProxy(p) PROVE BuildInv'
  <2>1. UNCHANGED <<source, config, phase>> /\ phase = "compute" /\ todo' = todo \ {p}
    BY <1>4 DEF ComputeHTTPProxy
  <2>2. p \in DOMAIN Proxies
    BY <1>1, <2>1 DEF Proxies
  <2>3. DAGGranted(dag')
    <3>1. CASE ~IsRoot(p)
      BY <1>1, <1>4, <3>1 DEF ComputeHTTPProxy
    <3>2. CASE IsRoot(p)
      <4> DEFINE acc == Accumulator
      <4>1. dag' = ComputeRoot(p, acc).dag
        BY <1>4, <3>2 DEF ComputeHTTPProxy
      <4>2. DOMAIN acc = RootFields /\ acc.dag = dag
        BY DEF Accumulator, RootFields
      <4> HIDE DEF acc
      <4>3. RootComputed(p, acc.dag, ComputeRoot(p, acc).dag)
        BY <1>1, <2>2, <3>2, <4>2, ComputeRootFacts DEF DAGGranted
      <4> QED BY <1>1, <2>2, <3>2, <4>1, <4>2, <4>3, RootKeeps
    <3> QED BY <3>1, <3>2
  <2> QED BY <1>1, <1>2, <2>1, <2>3, BuildStep
<1>5. CASE MarkOrphaned
  <2>1. UNCHANGED <<source, config, dag>> /\ phase' = "done"
    BY <1>5 DEF MarkOrphaned
  <2> QED BY <1>1, <1>2, <2>1, BuildStep
<1> QED BY <1>2, <1>3, <1>4, <1>5 DEF Next

(* A listener takes routes of the two kinds only. *)
TakenKind(l, k) == k.group /\ k.kind \in {"HTTPRoute", "TLSRoute"} /\ (k.kind = "TLSRoute" => l.protocol = "TLS")
TakenStep(l, q, r, s, kept, k) == IF TakenKind(l, k) THEN Append(kept, k) ELSE kept
TakenInv(l, q, r, s, kept) == IsSeq(kept) /\ \A k \in Range(kept) : TakenKind(l, k)
TakenKinds == INSTANCE Loops WITH Step <- TakenStep, Inv <- TakenInv

TakenOf(l) == Collect(l.kinds, LAMBDA k : TakenKind(l, k))

LEMMA TakenFacts ==
  ASSUME NEW l, IsSeq(l.kinds)
  PROVE  \A k \in Range(TakenOf(l)) : k.kind \in {"HTTPRoute", "TLSRoute"}
<1>1. TakenOf(l) = TakenKinds!Loop(l, Nil, Nil, Nil, <<>>, l.kinds)
  BY DEF TakenOf, Collect, TakenKinds!Loop, FoldLeft, MapThenFoldSet, TakenKinds!Last, Max, TakenStep
<1>2. TakenInv(l, Nil, Nil, Nil, <<>>)
  BY SeqEmpty DEF TakenInv
<1>3. ASSUME NEW acc, NEW i \in DOMAIN l.kinds, TakenInv(l, Nil, Nil, Nil, acc)
      PROVE  TakenInv(l, Nil, Nil, Nil, TakenStep(l, Nil, Nil, Nil, acc, l.kinds[i]))
  <2> DEFINE k == l.kinds[i]
  <2>1. IsSeq(Append(acc, k)) /\ Range(Append(acc, k)) = Range(acc) \union {k}
    BY <1>3, SeqAppend DEF TakenInv
  <2> HIDE DEF k
  <2>2. TakenInv(l, Nil, Nil, Nil, TakenStep(l, Nil, Nil, Nil, acc, k))
    BY <1>3, <2>1 DEF TakenInv, TakenStep
  <2> QED BY <2>2 DEF k
<1>4. l.kinds \in Seq(Range(l.kinds))
  BY DEF IsSeq
<1>5. TakenInv(l, Nil, Nil, Nil, TakenKinds!Loop(l, Nil, Nil, Nil, <<>>, l.kinds))
  <2> DEFINE kinds == l.kinds
  <2>1. \A acc : \A i \in DOMAIN kinds : TakenInv(l, Nil, Nil, Nil, acc)
          => TakenInv(l, Nil, Nil, Nil, TakenStep(l, Nil, Nil, Nil, acc, kinds[i]))
    BY <1>3
  <2>2. kinds \in Seq(Range(kinds))
    BY <1>4
  <2> HIDE DEF kinds
  <2>3. TakenInv(l, Nil, Nil, Nil, TakenKinds!Loop(l, Nil, Nil, Nil, <<>>, kinds))
    BY <1>2, <2>1, <2>2, TakenKinds!LoopKeeps
  <2> QED BY <2>3 DEF kinds
<1> QED BY <1>1, <1>5 DEF TakenInv, TakenKind

LEMMA KindsFacts ==
  ASSUME NEW l, IsSeq(l.kinds)
  PROVE  LET kinds == GetListenerRouteKinds(l).kinds
         IN  \A i \in DOMAIN kinds : kinds[i] \in {"HTTPRoute", "TLSRoute"}
<1> DEFINE taken == TakenOf(l)
           one == <<IF l.protocol = "TLS" THEN "TLSRoute" ELSE "HTTPRoute">>
           several == [i \in DOMAIN taken |-> taken[i].kind]
           conds == IF taken = l.kinds THEN <<>> ELSE "ResolvedRefs" :> "InvalidRouteKinds"
           got == GetListenerRouteKinds(l)
<1>1. got = IF l.kinds = <<>> THEN [kinds |-> one, conds |-> <<>>] ELSE [kinds |-> several, conds |-> conds]
  BY DEF GetListenerRouteKinds, TakenOf, Collect, FoldLeft, MapThenFoldSet, Max, TakenKind
<1>2. \A i \in DOMAIN one : one[i] \in {"HTTPRoute", "TLSRoute"}
  OBVIOUS
<1>3. \A i \in DOMAIN several : several[i] \in {"HTTPRoute", "TLSRoute"}
  <2> HIDE DEF taken
  <2>1. \A k \in Range(taken) : k.kind \in {"HTTPRoute", "TLSRoute"}
    BY TakenFacts DEF taken
  <2> QED BY <2>1 DEF Range
<1> HIDE DEF one, several, conds, got
<1>4. got.kinds = one \/ got.kinds = several
  BY <1>1
<1> QED BY <1>2, <1>3, <1>4 DEF got

LEMMA BeginListenerStep == BuildInv /\ BeginListener => BuildInv'
<1> SUFFICES ASSUME BuildInv, BeginListener PROVE BuildInv'
  OBVIOUS
<1>1. DAGGranted(dag) /\ ObjectsWellFormed /\ DOMAIN gw = GatewayFields /\ gw.n \in Nat
  BY DEF BuildInv, ObjectsSound, GatewaySound
<1> DEFINE l == source.gateway.listeners[gw.n + 1]
           tls == ListenerSecret(source, l)
           kinds == GetListenerRouteKinds(l)
           taken == Put(gw.listeners, l.name, [conds |-> kinds.conds, attached |-> 0])
           refused == Put(gw.listeners, l.name, [conds |-> tls.conds, attached |-> 0])
           selected == UNION {{<<i, k>> : k \in Selected(l, kinds.kinds[i])} : i \in DOMAIN kinds.kinds}
           with == [gw EXCEPT !.n = @ + 1, !.secret = tls.secret, !.kinds = kinds.kinds, !.attached = 0,
                              !.listeners = taken]
           without == [gw EXCEPT !.n = @ + 1, !.listeners = refused]
<1>2. /\ phase = "gateway" /\ gw.n < Len(source.gateway.listeners) /\ UNCHANGED <<source, config, dag>>
      /\ IF tls.ok THEN phase' = "attach" /\ todo' = selected /\ gw' = with
         ELSE gw' = without /\ UNCHANGED <<phase, todo>>
  BY DEF BeginListener
<1>3. source.gateway # Nil /\ IsSeq(l.kinds) /\ l \in Range(source.gateway.listeners)
  <2>1. source.gateway # Nil
    BY <1>2 DEF BuildInv, LoopSound
  <2>2. IsSeq(source.gateway.listeners) /\ \A x \in Range(source.gateway.listeners) : IsSeq(x.kinds)
    BY <1>1, <2>1 DEF ObjectsWellFormed
  <2>3. gw.n + 1 \in DOMAIN source.gateway.listeners
    BY <1>1, <1>2, <2>2 DEF IsSeq
  <2> QED BY <2>1, <2>2, <2>3 DEF Range
<1>4. ListenerGranted(l.hostname, tls.secret)
  BY <1>3, ListenerSecretGranted
<1>5. \A i \in DOMAIN kinds.kinds : kinds.kinds[i] \in {"HTTPRoute", "TLSRoute"}
  BY <1>3, KindsFacts
<1>6. \A t \in selected : IF kinds.kinds[t[1]] = "TLSRoute" THEN t[2] \in DOMAIN source.tlsroutes
                          ELSE t[2] \in DOMAIN source.httproutes
  <2> SUFFICES ASSUME NEW i \in DOMAIN kinds.kinds, NEW k \in Selected(l, kinds.kinds[i])
               PROVE  IF kinds.kinds[i] = "TLSRoute" THEN k \in DOMAIN source.tlsroutes ELSE k \in DOMAIN source.httproutes
    <3> HIDE DEF l, kinds
    <3> QED OBVIOUS
  <2> HIDE DEF kinds, l
  <2> QED BY <1>5 DEF Selected
<1> HIDE DEF selected, kinds, tls, taken, refused, l
<1>7. /\ DOMAIN with = GatewayFields /\ with.n = gw.n + 1 /\ with.n \in Nat /\ with.secret = tls.secret /\ with.kinds = kinds.kinds
      /\ DOMAIN without = GatewayFields /\ without.n \in Nat /\ without.secret = gw.secret
  BY <1>1 DEF GatewayFields
<1> HIDE DEF with, without
<1>8. CASE tls.ok
  <2>1. ListenerGranted(source.gateway.listeners[with.n].hostname, with.secret)
    BY <1>4, <1>7 DEF l
  <2> QED BY <1>1, <1>2, <1>3, <1>6, <1>7, <1>8, <2>1, BuildStep
<1>9. CASE ~tls.ok
  BY <1>1, <1>2, <1>3, <1>7, <1>9, BuildStep
<1> QED BY <1>8, <1>9

LEMMA GatewaySteps == BuildInv /\ (RunGatewayAPIProcessor \/ FinishListener \/ FinishGateway) => BuildInv'
<1> SUFFICES ASSUME BuildInv, RunGatewayAPIProcessor \/ FinishListener \/ FinishGateway PROVE BuildInv'
  OBVIOUS
<1>1. /\ DAGGranted(dag) /\ DOMAIN gw = GatewayFields /\ gw.n \in Nat
      /\ phase \in {"gateway", "attach"} => source.gateway # Nil
  BY DEF BuildInv, ObjectsSound, GatewaySound, LoopSound
<1>2. CASE RunGatewayAPIProcessor
  <2>1. UNCHANGED <<source, config, dag, gw>> /\ phase' \in {"gateway", "build"} /\ (phase' = "gateway" => source.gateway # Nil)
    BY <1>2 DEF RunGatewayAPIProcessor
  <2> QED BY <1>1, <2>1, BuildStep
<1>3. CASE FinishListener
  <2> DEFINE at == AtListener.name
             listeners == [gw.listeners EXCEPT ![at].attached = gw.attached]
             new == [gw EXCEPT !.listeners = listeners]
  <2>1. UNCHANGED <<source, config, dag>> /\ phase = "attach" /\ phase' = "gateway"
        /\ gw' = [gw EXCEPT !.listeners[AtListener.name].attached = gw.attached]
    BY <1>3 DEF FinishListener
  <2> HIDE DEF at
  <2>2. gw' = new
    BY <2>1 DEF at
  <2> HIDE DEF listeners
  <2>3. DOMAIN new = GatewayFields /\ new.n = gw.n /\ new.secret = gw.secret
    BY <1>1 DEF GatewayFields
  <2> HIDE DEF new
  <2> QED BY <1>1, <2>1, <2>2, <2>3, BuildStep
<1>4. CASE FinishGateway
  <2> DEFINE status == ComputeGatewayConditions(source.gateway, gw.listeners)
             new == [gw EXCEPT !.status = status]
  <2>1. UNCHANGED <<source, config, dag>> /\ phase' = "build" /\ gw' = new
    BY <1>4 DEF FinishGateway
  <2> HIDE DEF status
  <2>2. DOMAIN new = GatewayFields /\ new.n = gw.n /\ new.secret = gw.secret
    BY <1>1 DEF GatewayFields
  <2> HIDE DEF new
  <2> QED BY <1>1, <2>1, <2>2, BuildStep
<1> QED BY <1>2, <1>3, <1>4

LEMMA AttachRouteStep ==
  ASSUME BuildInv, NEW t \in todo, AttachRoute(t)
  PROVE  BuildInv'
<1>1. DAGGranted(dag) /\ ObjectsWellFormed /\ DOMAIN gw = GatewayFields /\ gw.n \in Nat
  BY DEF BuildInv, ObjectsSound, GatewaySound
<1> DEFINE key == t[2]
           lhn == AtListener.hostname
           hosts == ComputeHosts(source.httproutes[key].hostnames, lhn).hosts
           counted == [gw EXCEPT !.attached = @ + 1]
           tlsDone == ComputeTLSRoute(source, config, dag, key, gw.secret, lhn, Word)
           Done1(orders) == ComputeHTTPRoute(source, config, dag, key, gw.secret, lhn, orders, Word)
<1>2. phase = "attach" /\ todo' = todo \ {t} /\ UNCHANGED <<source, config, phase>>
  BY DEF AttachRoute
<1>3. /\ source.gateway # Nil
      /\ \A u \in todo : IF gw.kinds[u[1]] = "TLSRoute" THEN u[2] \in DOMAIN source.tlsroutes
                         ELSE u[2] \in DOMAIN source.httproutes
  BY <1>2 DEF BuildInv, LoopSound
<1>l. ListenerGranted(lhn, gw.secret)
  BY <1>2 DEF BuildInv, GatewaySound
<1>4. gw' = gw \/ gw' = counted
  BY DEF AttachRoute
<1>5. DOMAIN gw' = GatewayFields /\ gw'.n \in Nat /\ gw'.n = gw.n /\ gw'.secret = gw.secret /\ gw'.kinds = gw.kinds
  <2>1. /\ DOMAIN counted = GatewayFields /\ counted.n = gw.n /\ counted.secret = gw.secret
        /\ counted.kinds = gw.kinds
    BY <1>1 DEF GatewayFields
  <2> HIDE DEF counted
  <2> QED BY <1>1, <1>4, <2>1
<1>6. DAGGranted(dag')
  <2>1. CASE source.gateway.addresses
    <3>1. dag' = dag
      BY <2>1 DEF AttachRoute
    <3> QED BY <1>1, <3>1
  <2>2. CASE ~source.gateway.addresses /\ gw.kinds[t[1]] = "TLSRoute"
    <3>1. dag' = tlsDone.dag
      BY <2>2 DEF AttachRoute
    <3>2. key \in DOMAIN source.tlsroutes
      BY <1>3, <2>2
    <3> QED BY <1>1, <1>l, <3>1, <3>2, TLSRouteKeeps
  <2>3. CASE ~source.gateway.addresses /\ gw.kinds[t[1]] # "TLSRoute"
    <3>1. PICK orders \in [DOMAIN source.httproutes[key].rules -> SetToSeqs(hosts)] : dag' = Done1(orders).dag
      BY <2>3 DEF AttachRoute
    <3>2. key \in DOMAIN source.httproutes
      BY <1>3, <2>3
    <3>3. IsSeq(source.httproutes[key].hostnames)
      BY <1>1, <3>2 DEF ObjectsWellFormed
    <3>4. IsFiniteSet(hosts) /\ \A h \in hosts : SecretGranted(h, gw.secret)
      BY <1>l, <3>3, HostsStand, HostGranted
    <3> HIDE DEF hosts
    <3>5. ASSUME NEW i \in DOMAIN source.httproutes[key].rules
          PROVE  IsSeq(orders[i]) /\ \A n \in DOMAIN orders[i] : SecretGranted(orders[i][n], gw.secret)
      <4>1. IsSeq(orders[i]) /\ Range(orders[i]) \subseteq hosts
        BY <3>1, <3>4, OrdersFacts
      <4> QED BY <3>4, <4>1 DEF Range
    <3> QED BY <1>1, <3>1, <3>2, <3>5, HTTPRouteKeeps
  <2> QED BY <2>1, <2>2, <2>3
<1> QED BY <1>2, <1>3, <1>5, <1>6, <1>l, BuildStep DEF AtListener

-----------------------------------------------------------------------------
(* The steps that make Envoy's resources *)

LEMMA EmptyConfiguration ==
  ASSUME NEW d
  PROVE  RDSFrom(d, Put(<<>>, PlainName, <<>>))
<1>1. DOMAIN <<>> = {}
  OBVIOUS
<1>2. DOMAIN Put(<<>>, PlainName, <<>>) = {PlainName} /\ Put(<<>>, PlainName, <<>>)[PlainName] = <<>>
  BY <1>1 DEF Put
<1> QED BY <1>1, <1>2 DEF RDSFrom

LEMMA OnChangeStep == BuildInv /\ OnChange => BuildInv'
<1> SUFFICES ASSUME BuildInv, OnChange PROVE BuildInv'
  OBVIOUS
<1> DEFINE empty == Put(<<>>, <<"http", "">>, <<>>)
           lds == ListenerCacheOnChange(dag, config.listener, Word)
           new == [lds |-> lds, rds |-> empty, cds |-> ClusterCacheOnChange(dag),
                   ext |-> ExtensionClusters(dag), sds |-> GetSecrets(dag)]
           secure == SecureHostsWithRoutes(dag)
<1>1. /\ xds' = new /\ phase' = "routes" /\ UNCHANGED <<source, config, dag, gw>>
      /\ todo' = ({"http"} \X ListenerHosts(dag)) \union ({"https"} \X secure)
  BY Zenon DEF OnChange, SecureHostsWithRoutes
<1>2. RDSFrom(dag, empty)
  BY EmptyConfiguration, Zenon DEF PlainName
<1> HIDE DEF empty, lds
<1>3. /\ DOMAIN new = XDSFields /\ new.lds = lds /\ new.rds = empty /\ new.cds = ClusterCacheOnChange(dag)
      /\ new.ext = ExtensionClusters(dag) /\ new.sds = GetSecrets(dag)
  BY DEF XDSFields
<1> HIDE DEF new
<1>4. ObjectsSound' /\ GatewaySound'
  <2>1. ProxiesWellFormed' /\ ObjectsWellFormed' /\ DAGGranted(dag)'
    BY <1>1, GrantedSame DEF BuildInv, ObjectsSound, GatewaySound
  <2> QED BY <1>1, <2>1 DEF ObjectsSound, GatewaySound, GatewayFields, BuildInv
<1>5. LoopSound'
  BY <1>1 DEF LoopSound
<1>6. XDSSound'
  <2>1. \A h \in secure : <<"https", h>> \in todo'
    <3> HIDE DEF secure
    <3> QED BY <1>1
  <2> QED BY <1>1, <1>2, <1>3, <2>1 DEF XDSSound, lds, XDSFields
<1> QED BY <1>4, <1>5, <1>6 DEF BuildInv

LEMMA AddPlainFacts ==
  ASSUME DAGGranted(dag), NEW host \in ListenerHosts(dag), NEW routes \in SetToSeqs(RoutesOf(dag.VirtualHosts[host])),
         NEW rds, RDSFrom(dag, rds)
  PROVE  LET new == AddPlain(rds, dag, host, routes, Word)
         IN  RDSFrom(dag, new) /\ DOMAIN rds \subseteq DOMAIN new
<1> DEFINE name == <<"http", "">>
           v == dag.VirtualHosts[host]
           secure == FALSE
           vhost == VirtualHostAndRoutes(v, routes, secure, Nil, Word)
           new == AddVirtualHost(rds, name, host, vhost)
<1>1. AddPlain(rds, dag, host, routes, Word) = new
  BY Zenon DEF AddPlain
<1>2. RoutesGranted(v) /\ RoutesOf(v) \subseteq PlainRoutes(dag)
  BY DEF DAGGranted, PlainGranted, ListenerHosts, PlainRoutes
<1>n. name = PlainName
  BY DEF PlainName
<1> HIDE DEF name
<1>3. HostFrom(ConfigRoutes(dag, name), name # PlainName, vhost)
  <2>1. (name # PlainName) = secure /\ ConfigRoutes(dag, name) = PlainRoutes(dag)
    BY <1>n DEF ConfigRoutes
  <2> HIDE DEF v, secure
  <2>2. HostFrom(PlainRoutes(dag), secure, vhost)
    BY <1>2, HostServedFrom DEF RoutesGranted, RouteGranted, v
  <2> HIDE DEF vhost
  <2> QED BY <2>1, <2>2, Zenon
<1> HIDE DEF secure
<1> HIDE DEF vhost
<1>4. RDSFrom(dag, new) /\ Grows(rds, name, new)
  BY <1>3, AddHostFrom, Zenon
<1> HIDE DEF new
<1>5. DOMAIN rds \subseteq DOMAIN new
  BY <1>4 DEF Grows
<1> QED BY <1>1, <1>4, <1>5, Zenon

LEMMA AddSecureFacts ==
  ASSUME DAGGranted(dag), NEW host \in SecureListenerHosts(dag),
         NEW routes \in SetToSeqs(RoutesOf(dag.SecureVirtualHosts[host])),
         NEW rds, RDSFrom(dag, rds)
  PROVE  LET new == AddSecure(rds, dag, host, routes, Word)
         IN  RDSFrom(dag, new) /\ DOMAIN rds \union {<<"https", host>>} \subseteq DOMAIN new
<1> DEFINE name == <<"https", host>>
           fallback == <<"fallback", "">>
           v == dag.SecureVirtualHosts[host]
           secure == TRUE
           auth == v.Auth
           vhost == VirtualHostAndRoutes(v, routes, secure, auth, Word)
           own == AddVirtualHost(rds, name, host, vhost)
           both == AddVirtualHost(own, fallback, host, vhost)
<1>1. AddSecure(rds, dag, host, routes, Word) = IF v.Fallback = Nil THEN own ELSE both
  BY Zenon DEF AddSecure
<1>2. RoutesGranted(v) /\ RoutesOf(v) \subseteq DAGRoutes(dag)
  BY DEF DAGGranted, SecureGranted, SecureListenerHosts, DAGRoutes
<1> HIDE DEF name, fallback, secure, auth
<1>3. HostFrom(DAGRoutes(dag), secure, vhost)
  <2> HIDE DEF v
  <2> QED BY <1>2, HostServedFrom DEF RoutesGranted, RouteGranted, v
<1> HIDE DEF vhost
<1>n. /\ (name # PlainName) = secure /\ (fallback # PlainName) = secure
      /\ ConfigRoutes(dag, name) = DAGRoutes(dag) /\ ConfigRoutes(dag, fallback) = DAGRoutes(dag)
  <2>1. name # PlainName /\ fallback # PlainName
    BY DEF name, fallback, PlainName
  <2> QED BY <2>1 DEF ConfigRoutes, secure
<1>m. /\ HostFrom(ConfigRoutes(dag, name), name # PlainName, vhost)
      /\ HostFrom(ConfigRoutes(dag, fallback), fallback # PlainName, vhost)
  BY <1>3, <1>n, Zenon
<1>4. RDSFrom(dag, own) /\ Grows(rds, name, own)
  BY <1>m, AddHostFrom, Zenon
<1> HIDE DEF own
<1>5. RDSFrom(dag, both) /\ Grows(own, fallback, both)
  BY <1>m, <1>4, AddHostFrom, Zenon
<1> HIDE DEF both
<1>6. DOMAIN rds \union {name} \subseteq DOMAIN own /\ DOMAIN rds \union {name} \subseteq DOMAIN both
  BY <1>4, <1>5 DEF Grows
<1>7. CASE v.Fallback = Nil
  BY <1>1, <1>4, <1>6, <1>7, Zenon DEF name
<1>8. CASE v.Fallback # Nil
  BY <1>1, <1>5, <1>6, <1>8, Zenon DEF name
<1> QED BY <1>7, <1>8

LEMMA RouteCacheStep == BuildInv /\ RouteCacheOnChange => BuildInv'
<1> SUFFICES ASSUME BuildInv, RouteCacheOnChange PROVE BuildInv'
  OBVIOUS
<1> DEFINE t == CHOOSE t \in todo : TRUE
           vhost == IF t[1] = "http" THEN dag.VirtualHosts[t[2]] ELSE dag.SecureVirtualHosts[t[2]]
           Rds(routes) == IF t[1] = "http" THEN AddPlain(xds.rds, dag, t[2], routes, Word)
                          ELSE AddSecure(xds.rds, dag, t[2], routes, Word)
<1>1. PICK routes \in SetToSeqs(RoutesOf(vhost)) : xds' = [xds EXCEPT !.rds = Rds(routes)]
  BY Zenon DEF RouteCacheOnChange
<1>2. phase = "routes" /\ todo # {} /\ todo' = todo \ {t} /\ UNCHANGED <<source, config, dag, phase, gw>>
  BY Zenon DEF RouteCacheOnChange
<1>3. t \in todo
  BY <1>2, Zenon
<1> DEFINE rds == Rds(routes)
           secure == SecureHostsWithRoutes(dag)
<1> HIDE DEF t
<1>4. /\ DOMAIN xds = XDSFields
      /\ xds.lds = ListenerCacheOnChange(dag, config.listener, Word) /\ xds.cds = ClusterCacheOnChange(dag)
      /\ xds.ext = ExtensionClusters(dag) /\ xds.sds = GetSecrets(dag)
      /\ RDSFrom(dag, xds.rds)
      /\ \A h \in secure : <<"https", h>> \in todo \union DOMAIN xds.rds
  BY <1>2 DEF BuildInv, XDSSound
<1>5. todo \subseteq ({"http"} \X ListenerHosts(dag)) \union ({"https"} \X secure) /\ DAGGranted(dag)
  BY <1>2 DEF BuildInv, LoopSound, ObjectsSound
<1>6. /\ RDSFrom(dag, rds) /\ DOMAIN xds.rds \subseteq DOMAIN rds
      /\ \A h \in secure : t = <<"https", h>> => t \in DOMAIN rds
  <2>1. CASE t[1] = "http"
    <3>1. t[2] \in ListenerHosts(dag) /\ rds = AddPlain(xds.rds, dag, t[2], routes, Word)
          /\ routes \in SetToSeqs(RoutesOf(dag.VirtualHosts[t[2]]))
      BY <1>1, <1>3, <1>5, <2>1
    <3>2. \A h : t # <<"https", h>>
      BY <2>1
    <3>3. RDSFrom(dag, xds.rds) /\ DAGGranted(dag)
      BY <1>4, <1>5
    <3> HIDE DEF rds
    <3>4. RDSFrom(dag, rds) /\ DOMAIN xds.rds \subseteq DOMAIN rds
      BY <3>1, <3>3, AddPlainFacts, Zenon
    <3> QED BY <3>2, <3>4, Zenon
  <2>2. CASE t[1] # "http"
    <3>1. t = <<"https", t[2]>> /\ t[2] \in SecureListenerHosts(dag) /\ rds = AddSecure(xds.rds, dag, t[2], routes, Word)
          /\ routes \in SetToSeqs(RoutesOf(dag.SecureVirtualHosts[t[2]]))
      BY <1>1, <1>3, <1>5, <2>2 DEF SecureHostsWithRoutes
    <3> HIDE DEF rds
    <3> QED BY <1>4, <1>5, <3>1, AddSecureFacts
  <2> QED BY <2>1, <2>2
<1> HIDE DEF rds
<1>7. /\ DOMAIN xds' = XDSFields /\ xds'.lds = xds.lds /\ xds'.cds = xds.cds /\ xds'.ext = xds.ext
      /\ xds'.sds = xds.sds /\ xds'.rds = rds
  BY <1>1, <1>4 DEF XDSFields, rds
<1>8. ObjectsSound' /\ GatewaySound'
  <2>1. ProxiesWellFormed' /\ ObjectsWellFormed' /\ DAGGranted(dag)'
    BY <1>2, GrantedSame DEF BuildInv, ObjectsSound, GatewaySound
  <2> QED BY <1>2, <2>1 DEF ObjectsSound, GatewaySound, GatewayFields, BuildInv
<1>9. LoopSound'
  BY <1>2, <1>5 DEF LoopSound
<1>10. XDSSound'
  <2>1. \A h \in secure : <<"https", h>> \in todo' \union DOMAIN rds
    <3> SUFFICES ASSUME NEW h \in secure, <<"https", h>> \notin DOMAIN rds PROVE <<"https", h>> \in todo'
      BY Zenon
    <3>1. <<"https", h>> \in todo
      BY <1>4, <1>6, Zenon
    <3>2. <<"https", h>> # t
      BY <1>6, Zenon
    <3> QED BY <1>2, <3>1, <3>2, Zenon
  <2> QED BY <1>2, <1>4, <1>6, <1>7, <2>1 DEF XDSSound, XDSFields
<1> QED BY <1>8, <1>9, <1>10 DEF BuildInv

LEMMA EndSteps ==
  ASSUME BuildInv, Built \/ UNCHANGED buildVars
  PROVE  BuildInv'
<1>1. /\ UNCHANGED <<source, config, dag, todo, gw, xds>>
      /\ phase' = phase \/ (phase = "routes" /\ todo = {} /\ phase' = "end")
  BY DEF Built, buildVars, vars
<1>2. ObjectsSound' /\ GatewaySound'
  <2>1. ProxiesWellFormed' /\ ObjectsWellFormed' /\ DAGGranted(dag)'
    BY <1>1, GrantedSame DEF BuildInv, ObjectsSound
  <2>2. phase' = "attach" => ListenerGranted(AtListener.hostname, gw.secret)'
    BY <1>1, GrantedSame DEF BuildInv, GatewaySound, AtListener
  <2> QED BY <1>1, <2>1, <2>2 DEF ObjectsSound, GatewaySound, GatewayFields, BuildInv
<1>3. LoopSound'
  BY <1>1 DEF BuildInv, LoopSound
<1>4. XDSSound'
  BY <1>1 DEF BuildInv, XDSSound, XDSFields
<1> QED BY <1>2, <1>3, <1>4 DEF BuildInv

LEMMA BuildInvKeeps == BuildInv /\ [BuildNext \/ BuildFinished]_buildVars => BuildInv'
<1> SUFFICES ASSUME BuildInv, [BuildNext \/ BuildFinished]_buildVars PROVE BuildInv'
  OBVIOUS
<1>1. ASSUME NEW k \in todo, SecureIngress(k) \/ RouteIngress(k) \/ RunExtensionService(k) \/ AttachRoute(k)
      PROVE  BuildInv'
  BY <1>1, IngressSteps, AttachRouteStep
<1>2. BuildFinished => UNCHANGED buildVars
  BY DEF BuildFinished
<1> QED BY <1>1, <1>2, NextLoopStep, ProxySteps, GatewaySteps, BeginListenerStep, OnChangeStep, RouteCacheStep, EndSteps
        DEF BuildNext

LEMMA BuildInvHolds == BuildSpec => []BuildInv
BY BuildInvInit, BuildInvKeeps, PTL DEF BuildSpec

-----------------------------------------------------------------------------
(* What follows from it *)

LEMMA ServedRoutes ==
  ASSUME BuildInv, End, NEW x \in Served
  PROVE  ServedFrom(DAGRoutes(dag), TRUE, x)
<1>1. RDSFrom(dag, xds.rds)
  BY DEF BuildInv, XDSSound, End
<1>2. PICK name \in DOMAIN xds.rds : \E h \in DOMAIN xds.rds[name] : x \in Range(xds.rds[name][h].routes)
  BY DEF Served, RouteConfigs, RouteLists
<1>3. ServedFrom(ConfigRoutes(dag, name), name # PlainName, x)
  BY <1>1, <1>2 DEF RDSFrom, HostFrom
<1>4. ConfigRoutes(dag, name) \subseteq DAGRoutes(dag)
  BY DEF ConfigRoutes, DAGRoutes
<1> QED BY <1>3, <1>4 DEF ServedFrom, Forwarded

LEMMA DAGRoutesGranted ==
  ASSUME DAGGranted(dag), NEW r \in DAGRoutes(dag)
  PROVE  RouteGranted(r)
<1>1. \A h \in ListenerHosts(dag) : \A y \in RoutesOf(dag.VirtualHosts[h]) : RouteGranted(y)
  BY DEF DAGGranted, PlainGranted, RoutesGranted, ListenerHosts
<1>2. \A h \in SecureListenerHosts(dag) : \A y \in RoutesOf(dag.SecureVirtualHosts[h]) : RouteGranted(y)
  BY DEF DAGGranted, SecureGranted, RoutesGranted, SecureListenerHosts
<1> QED BY <1>1, <1>2 DEF DAGRoutes, PlainRoutes

LEMMA BuildInvGranted == BuildInv => CrossNamespaceGranted
<1> SUFFICES ASSUME BuildInv, End PROVE CrossNamespaceGranted
  BY DEF CrossNamespaceGranted
<1>1. DAGGranted(dag)
  BY DEF BuildInv, ObjectsSound
<1>2. ASSUME NEW x \in Served, NEW c \in Range(x.route.clusters)
      PROVE  \/ c.service[1] = x.route.owner[1]
             \/ Granted(OwnerKind(x.route.owner), x.route.owner[1], "Service", c.service)
  <2>1. PICK r \in DAGRoutes(dag) : x.route.clusters = r.clusters /\ x.route.owner = r.owner
    BY ServedRoutes DEF ServedFrom, Forwarded, SameRoute
  <2>2. RouteGranted(r)
    BY <1>1, <2>1, DAGRoutesGranted
  <2> QED BY <1>2, <2>1, <2>2 DEF RouteGranted, ClusterGranted
<1>3. ASSUME NEW h \in SecureListenerHosts(dag)
      PROVE  SecretGranted(h, dag.SecureVirtualHosts[h].Secret)
  BY <1>1 DEF DAGGranted, SecureGranted, SecureListenerHosts
<1> QED BY <1>2, <1>3 DEF CrossNamespaceGranted, OwnerKind, SecretGranted

(* Whatever objects there are and in whatever order they are gone through:  *)
(* a route reaches a service of another namespace only if a policy there    *)
(* says so (validCrossNamespaceRef), and the certificate of a host is one   *)
(* that an Ingress, an HTTPProxy or a listener names for this host, whose   *)
(* own namespace has it or is delegated it (DelegationPermitted).           *)
THEOREM ReferencesGranted == BuildSpec => []CrossNamespaceGranted
BY BuildInvHolds, BuildInvGranted, PTL

LEMMA BuildInvClear == BuildInv => InClearOnlyAsAllowed
<1> SUFFICES ASSUME BuildInv, End, NEW x \in InClear, x.kind = "route"
             PROVE  /\ x.route.ownerKind = "Ingress" =>
                         /\ HTTPAllowed(source.ingresses[x.route.owner])
                         /\ ~TLSRequired(source.ingresses[x.route.owner])
                    /\ (x.route.ownerKind = "HTTPProxy" /\ IsRoot(x.route.owner)) =>
                         \/ source.proxies[x.route.owner].vhost.tls = Nil
                         \/ /\ ~config.disablePermitInsecure
                            /\ \E r \in Range(source.proxies[x.route.owner].routes) : r.permitInsecure
  BY Zenon DEF InClearOnlyAsAllowed
<1>1. DAGGranted(dag) /\ RDSFrom(dag, xds.rds)
  BY DEF BuildInv, ObjectsSound, XDSSound, End
<1>2. PICK h \in DOMAIN xds.rds[PlainName] : x \in Range(xds.rds[PlainName][h].routes)
  BY DEF InClear, RouteLists, PlainName
<1>3. ServedFrom(PlainRoutes(dag), FALSE, x)
  <2>1. HostFrom(ConfigRoutes(dag, PlainName), FALSE, xds.rds[PlainName][h])
    <3>1. (PlainName # PlainName) = FALSE
      OBVIOUS
    <3> QED BY <1>1, <1>2, <3>1, Zenon DEF RDSFrom
  <2> QED BY <1>2, <2>1 DEF HostFrom, ConfigRoutes
<1>4. PICK r \in PlainRoutes(dag) : SameRoute(x.route, r)
  BY <1>3 DEF ServedFrom
<1>5. ClearAllowed(r)
  BY <1>1, <1>4 DEF DAGGranted, PlainGranted, ListenerHosts, PlainRoutes
<1>6. x.route.direct = Nil /\ ~x.route.upgrade
  BY <1>3 DEF ServedFrom, Forwarded
<1>7. r.direct # 502 /\ ~r.upgrade /\ r.owner = x.route.owner /\ r.ownerKind = x.route.ownerKind
  BY <1>4, <1>6, StatusCodesAssumption DEF SameRoute
<1> QED BY <1>5, <1>7 DEF ClearAllowed, Permits, Proxies

(* Whatever objects there are and whichever processor writes a host first:  *)
(* in the clear a route forwards to a service only if its Ingress allows    *)
(* HTTP and does not require TLS, or its root HTTPProxy has no TLS or       *)
(* permits it, and the configuration does not overrule that (routeEnforceTLS,*)
(* computeIngressRule, buildRoute).                                         *)
THEOREM InClearAlwaysAllowed == BuildSpec => []InClearOnlyAsAllowed
BY BuildInvHolds, BuildInvClear, PTL

-----------------------------------------------------------------------------
(* Every name in Envoy's resources is there: clusters *)

LEMMA ClusterNamed ==
  ASSUME NEW d, NEW c \in GetClusters(d)
  PROVE  Clustername(c) \in DOMAIN ClusterCacheOnChange(d)
BY Zenon DEF ClusterCacheOnChange

LEMMA RouteClusters ==
  ASSUME NEW d, NEW r \in DAGRoutes(d)
  PROVE  Range(r.clusters) \subseteq GetClusters(d) /\ (r.mirror # Nil => r.mirror \in GetClusters(d))
<1> DEFINE Of(x) == Range(x.clusters) \union (IF x.mirror = Nil THEN {} ELSE {x.mirror})
           secure == {d.SecureVirtualHosts[h] : h \in SecureListenerHosts(d)}
           plain == {d.VirtualHosts[h] : h \in ListenerHosts(d)}
           routes == (UNION {RoutesOf(v) : v \in plain}) \union (UNION {RoutesOf(v) : v \in secure})
           all == UNION {Of(x) : x \in routes}
           tcp == UNION {Range(v.TCP) : v \in {v \in secure : v.TCP # Nil}}
<1>1. GetClusters(d) = all \union tcp
  BY Zenon DEF GetClusters
<1>2. r \in routes
  BY DEF DAGRoutes, PlainRoutes
<1> HIDE DEF routes, tcp
<1>3. Of(r) \subseteq all
  BY <1>2
<1> HIDE DEF all
<1> QED BY <1>1, <1>3

LEMMA TCPClusters ==
  ASSUME NEW d, NEW h \in SecureListenerHosts(d), d.SecureVirtualHosts[h].TCP # Nil
  PROVE  Range(d.SecureVirtualHosts[h].TCP) \subseteq GetClusters(d)
<1> DEFINE Of(x) == Range(x.clusters) \union (IF x.mirror = Nil THEN {} ELSE {x.mirror})
           secure == {d.SecureVirtualHosts[g] : g \in SecureListenerHosts(d)}
           plain == {d.VirtualHosts[g] : g \in ListenerHosts(d)}
           routes == (UNION {RoutesOf(v) : v \in plain}) \union (UNION {RoutesOf(v) : v \in secure})
           all == UNION {Of(x) : x \in routes}
           tcp == UNION {Range(v.TCP) : v \in {v \in secure : v.TCP # Nil}}
<1>1. GetClusters(d) = all \union tcp
  BY Zenon DEF GetClusters
<1>2. d.SecureVirtualHosts[h] \in secure
  OBVIOUS
<1> HIDE DEF all, secure
<1>3. Range(d.SecureVirtualHosts[h].TCP) \subseteq tcp
  BY <1>2
<1> HIDE DEF tcp
<1> QED BY <1>1, <1>3

(* The clusters a route is sent to are its own. *)
LEMMA ActionClusters ==
  ASSUME NEW route, IsSeq(route.clusters)
  PROVE  LET a == RouteRoute(route, Word)
         IN  /\ \A w \in Range(a.clusters.clusters) : \E c \in Range(route.clusters) : w.name = Clustername(c)
             /\ a.mirror = IF route.mirror = Nil THEN Nil ELSE Clustername(route.mirror)
<1> DEFINE cs == route.clusters
           total == FoldLeft(LAMBDA n, c : (n + c.weight) % Word, 0, cs)
           Weighted(c) == [name |-> Clustername(c), weight |-> IF total = 0 THEN 1 ELSE c.weight]
           many == [i \in DOMAIN cs |-> [name |-> Clustername(cs[i]), weight |-> IF total = 0 THEN 1 ELSE cs[i].weight]]
           one == <<[name |-> Clustername(cs[1]), weight |-> 1]>>
           sum == IF total = 0 THEN Len(cs) ELSE total
           clusters == IF SingleSimpleCluster(route) THEN [clusters |-> one, total |-> 1]
                       ELSE [clusters |-> many, total |-> sum]
           mirror == IF route.mirror = Nil THEN Nil ELSE Clustername(route.mirror)
           a == RouteRoute(route, Word)
<1>1. a = [clusters |-> clusters, mirror |-> mirror, policies |-> route.policies, rewrite |-> route.rewrite,
           websocket |-> route.websocket]
  BY Zenon DEF RouteRoute, WeightedClusters
<1>2. \A w \in Range(many) : \E c \in Range(cs) : w.name = Clustername(c)
  <2> HIDE DEF total, cs
  <2>1. \A i \in DOMAIN many : i \in DOMAIN cs /\ many[i].name = Clustername(cs[i])
    OBVIOUS
  <2> HIDE DEF many
  <2> QED BY <2>1 DEF Range
<1>3. SingleSimpleCluster(route) => \A w \in Range(one) : \E c \in Range(cs) : w.name = Clustername(c)
  <2>1. SingleSimpleCluster(route) => cs[1] \in Range(cs)
    BY DEF SingleSimpleCluster, IsSeq, Range
  <2> DEFINE x == [name |-> Clustername(cs[1]), weight |-> 1]
  <2>2. x.name = Clustername(cs[1])
    OBVIOUS
  <2>3. one = <<x>>
    BY Zenon
  <2> HIDE DEF x, cs, one
  <2>4. Range(one) = {x}
    BY <2>3 DEF Range
  <2> QED BY <2>1, <2>2, <2>4
<1> HIDE DEF one, many, sum
<1>4. clusters.clusters = IF SingleSimpleCluster(route) THEN one ELSE many
  OBVIOUS
<1> HIDE DEF clusters, mirror, a
<1>5. a.clusters = clusters /\ a.mirror = mirror
  BY <1>1
<1>6. \A w \in Range(a.clusters.clusters) : \E c \in Range(cs) : w.name = Clustername(c)
  BY <1>2, <1>3, <1>4, <1>5
<1> QED BY <1>5, <1>6, Zenon DEF a, mirror

LEMMA ServedResolved ==
  ASSUME BuildInv, End, NEW x \in Served, x.kind = "route"
  PROVE  /\ \A c \in Range(x.action.clusters.clusters) : c.name \in DOMAIN xds.cds
         /\ x.action.mirror # Nil => x.action.mirror \in DOMAIN xds.cds
<1>1. PICK r \in DAGRoutes(dag) : /\ x.route.clusters = r.clusters /\ x.route.mirror = r.mirror
                                  /\ x.action = RouteRoute(x.route, Word)
  BY ServedRoutes DEF ServedFrom, Forwarded, SameRoute
<1>2. xds.cds = ClusterCacheOnChange(dag) /\ DAGGranted(dag)
  BY DEF BuildInv, XDSSound, End, ObjectsSound
<1>3. IsSeq(x.route.clusters)
  BY <1>1, <1>2, DAGRoutesGranted DEF RouteGranted, Weighed
<1> DEFINE route == x.route
           a == RouteRoute(route, Word)
<1>4. /\ \A w \in Range(a.clusters.clusters) : \E c \in Range(route.clusters) : w.name = Clustername(c)
      /\ a.mirror = IF route.mirror = Nil THEN Nil ELSE Clustername(route.mirror)
  <2> HIDE DEF route
  <2> QED BY <1>3, ActionClusters DEF route
<1>5. Range(r.clusters) \subseteq GetClusters(dag) /\ (r.mirror # Nil => r.mirror \in GetClusters(dag))
  BY <1>1, RouteClusters
<1>6. \A c \in GetClusters(dag) : Clustername(c) \in DOMAIN xds.cds
  BY <1>2, ClusterNamed
<1> HIDE DEF a
<1>7. \A c \in Range(a.clusters.clusters) : c.name \in DOMAIN xds.cds
  BY <1>1, <1>4, <1>5, <1>6
<1>8. a.mirror # Nil => a.mirror \in DOMAIN xds.cds
  BY <1>1, <1>4, <1>5, <1>6
<1>9. x.action = a
  BY <1>1 DEF a
<1> QED BY <1>7, <1>8, <1>9

-----------------------------------------------------------------------------
(* The filters of a connection manager *)

(* The router comes last, after the filters in S, each of which comes once. *)
RouterLast(filters, S) ==
  \E s : /\ IsSeq(s) /\ Range(s) = S /\ filters = Append(s, "router")
         /\ "router" \notin S /\ IsFiniteSet(S) /\ Cardinality(S) = Len(s)

LEMMA SameSeq ==
  ASSUME NEW A, NEW u \in Seq(A), NEW w \in Seq(A), Len(u) = Len(w), \A i \in 1..Len(u) : u[i] = w[i]
  PROVE  u = w
OBVIOUS

(* The list u of elements of A is left followed by right. *)
Joined(A, left, right, u) ==
  /\ u \in Seq(A) /\ Len(u) = Len(left) + Len(right)
  /\ \A i \in 1..Len(left) : u[i] = left[i]
  /\ \A i \in 1..Len(right) : u[Len(left) + i] = right[i]

LEMMA Concatenated ==
  ASSUME NEW A, NEW u \in Seq(A), NEW w \in Seq(A)
  PROVE  Joined(A, u, w, u \o w)
<1>1. u \o w \in Seq(A) /\ Len(u \o w) = Len(u) + Len(w) /\ Len(u) \in Nat /\ Len(w) \in Nat
  OBVIOUS
<1>2. \A i \in 1..(Len(u) + Len(w)) : (u \o w)[i] = IF i <= Len(u) THEN u[i] ELSE w[i - Len(u)]
  BY <1>1
<1>3. \A i \in 1..Len(w) : (u \o w)[Len(u) + i] = w[i]
  <2> SUFFICES ASSUME NEW i \in 1..Len(w) PROVE (u \o w)[Len(u) + i] = w[i]
    OBVIOUS
  <2>1. Len(u) + i \in 1..(Len(u) + Len(w)) /\ ~(Len(u) + i <= Len(u)) /\ (Len(u) + i) - Len(u) = i
    BY <1>1
  <2> QED BY <1>2, <2>1
<1> QED BY <1>1, <1>2, <1>3 DEF Joined

LEMMA RouterFound ==
  ASSUME NEW s, IsSeq(s), "router" \notin Range(s), NEW f, f # "router"
  PROVE  SelectInSeq(Append(Append(s, "router"), f), LAMBDA g : g = "router") = Len(s) + 1
<1> DEFINE all == Append(Append(s, "router"), f)
           n == Len(s)
           I == {i \in 1..Len(all) : all[i] = "router"}
<1>1. s \in Seq(Range(s) \union {"router", f}) /\ n \in Nat
  BY DEF IsSeq
<1>2. /\ Len(all) = n + 2 /\ all[n + 1] = "router" /\ all[n + 2] = f /\ \A i \in 1..n : all[i] = s[i]
  BY <1>1
<1>3. \A i \in 1..n : s[i] \in Range(s)
  BY <1>1 DEF Range
<1>4. I = {n + 1}
  <2> HIDE DEF all, n
  <2> QED BY <1>1, <1>2, <1>3
<1>5. Min({n + 1}) = n + 1 /\ {n + 1} # {}
  BY <1>1 DEF Min
<1>6. SelectInSeq(all, LAMBDA g : g = "router") = IF I # {} THEN Min(I) ELSE 0
  BY Zenon DEF SelectInSeq
<1> HIDE DEF I
<1>7. SelectInSeq(all, LAMBDA g : g = "router") = n + 1
  BY <1>4, <1>5, <1>6, Zenon
<1> QED BY <1>7, Zenon

LEMMA FilterAdded ==
  ASSUME NEW filters, NEW S, RouterLast(filters, S), NEW f, f # Nil, f \notin S, f # "router"
  PROVE  RouterLast(AddFilter(filters, f), S \union {f})
<1>1. PICK s : /\ IsSeq(s) /\ Range(s) = S /\ filters = Append(s, "router")
               /\ "router" \notin S /\ IsFiniteSet(S) /\ Cardinality(S) = Len(s)
  BY DEF RouterLast
<1> DEFINE all == Append(filters, f)
           n == Len(s)
           t == Append(s, f)
           A == Range(s) \union {"router", f}
           u == SubSeq(all, 1, (n + 1) - 1) \o <<all[(n + 1) + 1], "router">>
<1>2. s \in Seq(A) /\ n \in Nat
  BY <1>1 DEF IsSeq
<1>3. /\ all \in Seq(A) /\ Len(all) = n + 2 /\ all[n + 2] = f /\ \A i \in 1..n : all[i] = s[i]
  BY <1>1, <1>2
<1>4. SelectInSeq(all, LAMBDA g : g = "router") = n + 1
  BY <1>1, RouterFound, Zenon
<1> HIDE DEF n
<1>5. AddFilter(filters, f) = IF Len(all) = 1 \/ n + 1 = Len(all) THEN all ELSE u
  BY <1>4, Zenon DEF AddFilter
<1>6. ~(Len(all) = 1 \/ n + 1 = Len(all))
  BY <1>2, <1>3
<1>7. u = Append(t, "router")
  <2> DEFINE left == SubSeq(all, 1, (n + 1) - 1)
             right == <<all[(n + 1) + 1], "router">>
             w == Append(t, "router")
  <2>1. left \in Seq(A) /\ Len(left) = n /\ \A i \in 1..n : left[i] = s[i]
    <3> HIDE DEF all, A
    <3> QED BY <1>2, <1>3
  <2>2. right \in Seq(A) /\ Len(right) = 2 /\ right[1] = f /\ right[2] = "router"
    <3> HIDE DEF all
    <3> QED BY <1>2, <1>3
  <2>3. w \in Seq(A) /\ Len(w) = n + 2 /\ w[n + 1] = f /\ w[n + 2] = "router" /\ \A i \in 1..n : w[i] = s[i]
    BY <1>2 DEF n
  <2> HIDE DEF left, right, w, A
  <2>4. u \in Seq(A) /\ Len(u) = n + 2 /\ u[n + 1] = f /\ u[n + 2] = "router" /\ \A i \in 1..n : u[i] = s[i]
    <3>1. u = left \o right
      BY Zenon DEF left, right
    <3> HIDE DEF u
    <3>2. Joined(A, left, right, u)
      BY <2>1, <2>2, <3>1, Concatenated, Zenon
    <3> QED BY <1>2, <2>1, <2>2, <3>2 DEF Joined
  <2> HIDE DEF u
  <2>5. \A i \in 1..(n + 2) : i \in 1..n \/ i = n + 1 \/ i = n + 2
    BY <1>2
  <2>6. \A i \in 1..(n + 2) : u[i] = w[i]
    BY <2>3, <2>4, <2>5
  <2> QED BY <2>3, <2>4, <2>6, SameSeq DEF w
<1>8. IsSeq(t) /\ Range(t) = S \union {f} /\ Len(t) = n + 1
  BY <1>1, <1>2, SeqAppend DEF n
<1>9. IsFiniteSet(S \union {f}) /\ Cardinality(S \union {f}) = n + 1
  BY <1>1, FS_AddElement, Zenon DEF n
<1> HIDE DEF t, u, all
<1>10. AddFilter(filters, f) = Append(t, "router")
  BY <1>5, <1>6, <1>7
<1> QED BY <1>1, <1>8, <1>9, <1>10 DEF RouterLast

LEMMA FilterMayBeAdded ==
  ASSUME NEW filters, NEW S, RouterLast(filters, S), NEW f, f # Nil => f \notin S /\ f # "router"
  PROVE  RouterLast(AddFilter(filters, f), S \union ({f} \ {Nil}))
<1>1. CASE f = Nil
  <2>1. AddFilter(filters, f) = filters
    BY <1>1, Zenon DEF AddFilter
  <2>2. S \union ({f} \ {Nil}) = S
    BY <1>1
  <2> QED BY <2>1, <2>2, Zenon
<1>2. CASE f # Nil
  <2>1. S \union ({f} \ {Nil}) = S \union {f}
    BY <1>2
  <2>2. RouterLast(AddFilter(filters, f), S \union {f})
    BY <1>2, FilterAdded, Zenon
  <2> QED BY <2>1, <2>2, Zenon
<1> QED BY <1>1, <1>2, Zenon

LEMMA FilterFirst ==
  ASSUME NEW filters, NEW S, RouterLast(filters, S), NEW f, f \notin S, f # "router"
  PROVE  RouterLast(<<f>> \o filters, S \union {f})
<1>1. PICK s : /\ IsSeq(s) /\ Range(s) = S /\ filters = Append(s, "router")
               /\ "router" \notin S /\ IsFiniteSet(S) /\ Cardinality(S) = Len(s)
  BY DEF RouterLast
<1> DEFINE A == Range(s) \union {"router", f}
           n == Len(s)
           one == <<f>>
           t == one \o s
           u == one \o filters
           w == Append(t, "router")
<1>2. s \in Seq(A) /\ n \in Nat
  BY <1>1 DEF IsSeq
<1>3. one \in Seq(A) /\ Len(one) = 1 /\ one[1] = f
  OBVIOUS
<1>4. filters \in Seq(A) /\ Len(filters) = n + 1 /\ filters[n + 1] = "router" /\ \A i \in 1..n : filters[i] = s[i]
  BY <1>1, <1>2
<1>5. IsSeq(one) /\ Range(one) = {f}
  BY DEF IsSeq, Range
<1> HIDE DEF one
<1>6. IsSeq(t) /\ Range(t) = {f} \union S
  BY <1>1, <1>5, SeqConcat
<1> HIDE DEF A
<1>7. /\ t \in Seq(A) /\ Len(t) = 1 + n /\ \A i \in 1..1 : t[i] = one[i]
      /\ \A i \in 1..n : t[1 + i] = s[i]
  <2>1. Joined(A, one, s, t)
    BY <1>2, <1>3, Concatenated, Zenon
  <2> HIDE DEF t
  <2> QED BY <1>2, <1>3, <2>1 DEF Joined
<1>8. /\ u \in Seq(A) /\ Len(u) = 1 + (n + 1) /\ \A i \in 1..1 : u[i] = one[i]
      /\ \A i \in 1..(n + 1) : u[1 + i] = filters[i]
  <2>1. Joined(A, one, filters, u)
    BY <1>3, <1>4, Concatenated, Zenon
  <2> HIDE DEF u
  <2> QED BY <1>2, <1>3, <1>4, <2>1 DEF Joined
<1>9. "router" \in A
  BY DEF A
<1> HIDE DEF t, u
<1>10. w \in Seq(A) /\ Len(w) = n + 2 /\ w[n + 2] = "router" /\ \A i \in 1..(n + 1) : w[i] = t[i]
  BY <1>2, <1>7, <1>9
<1> HIDE DEF w, n
<1>11. ASSUME NEW i \in 1..(n + 2) PROVE u[i] = w[i]
  <2>1. CASE i = 1
    BY <1>2, <1>7, <1>8, <1>10, <2>1
  <2>2. CASE i = n + 2
    <3>1. u[1 + (n + 1)] = filters[n + 1] /\ 1 + (n + 1) = n + 2
      BY <1>2, <1>8
    <3> QED BY <1>4, <1>10, <2>2, <3>1
  <2>3. CASE i # 1 /\ i # n + 2
    <3>1. i - 1 \in 1..n /\ i - 1 \in 1..(n + 1) /\ 1 + (i - 1) = i /\ i \in 1..(n + 1)
      BY <1>2, <2>3
    <3>2. u[i] = filters[i - 1] /\ t[i] = s[i - 1]
      BY <1>7, <1>8, <3>1
    <3> QED BY <1>4, <1>10, <3>1, <3>2
  <2> QED BY <2>1, <2>2, <2>3
<1>12. u = w
  BY <1>2, <1>8, <1>10, <1>11, SameSeq
<1>13. IsFiniteSet(S \union {f}) /\ Cardinality(S \union {f}) = n + 1
  BY <1>1, FS_AddElement, Zenon DEF n
<1>14. Range(t) = S \union {f} /\ Len(t) = n + 1 /\ "router" \notin S \union {f}
  BY <1>1, <1>2, <1>6, <1>7
<1> QED BY <1>6, <1>12, <1>13, <1>14, Zenon DEF RouterLast, u, w, one

LEMMA DefaultFiltersFacts == RouterLast(DefaultFilters, Range(DefaultFilters) \ {"router"})
<1> DEFINE s == <<"compressor", "grpcweb", "cors", "local_ratelimit", "lua">>
           one == {} \union {"compressor"}
           two == one \union {"grpcweb"}
           three == two \union {"cors"}
           four == three \union {"local_ratelimit"}
           five == four \union {"lua"}
<1>1. IsSeq(s) /\ Range(s) = five /\ Len(s) = 5
  BY DEF IsSeq, Range
<1>2. DefaultFilters = Append(s, "router") /\ Range(DefaultFilters) \ {"router"} = five
  BY DEF DefaultFilters, Range
<1>3. "router" \notin five /\ "lua" \notin four /\ "local_ratelimit" \notin three /\ "cors" \notin two
      /\ "grpcweb" \notin one /\ "compressor" \notin {}
  OBVIOUS
<1>4. IsFiniteSet({}) /\ Cardinality({}) = 0
  BY FS_EmptySet
<1>5. \A S, x : IsFiniteSet(S) /\ x \notin S => IsFiniteSet(S \union {x}) /\ Cardinality(S \union {x}) = Cardinality(S) + 1
  BY FS_AddElement, Zenon
<1>6. IsFiniteSet(one) /\ Cardinality(one) = 0 + 1
  BY <1>3, <1>4, <1>5, Zenon
<1> HIDE DEF one
<1>7. IsFiniteSet(two) /\ Cardinality(two) = (0 + 1) + 1
  BY <1>3, <1>5, <1>6, Zenon
<1> HIDE DEF two
<1>8. IsFiniteSet(three) /\ Cardinality(three) = ((0 + 1) + 1) + 1
  BY <1>3, <1>5, <1>7, Zenon
<1> HIDE DEF three
<1>9. IsFiniteSet(four) /\ Cardinality(four) = (((0 + 1) + 1) + 1) + 1
  BY <1>3, <1>5, <1>8, Zenon
<1> HIDE DEF four
<1>10. IsFiniteSet(five) /\ Cardinality(five) = ((((0 + 1) + 1) + 1) + 1) + 1
  BY <1>3, <1>5, <1>9, Zenon
<1> HIDE DEF five, s
<1>11. Cardinality(five) = Len(s)
  BY <1>1, <1>10
<1>12. RouterLast(DefaultFilters, five)
  BY <1>1, <1>2, <1>3, <1>10, <1>11, Zenon DEF RouterLast
<1> QED BY <1>2, <1>12, Zenon

Optional(cfg) == {OriginalIPDetectionFilter(cfg), GlobalRateLimitFilter(cfg)} \ {Nil}

LEMMA CommonFacts ==
  ASSUME NEW cfg, NEW filters, NEW S, RouterLast(filters, S), "xff" \notin S, "ratelimit" \notin S
  PROVE  RouterLast(Common(cfg, filters), S \union Optional(cfg))
<1> DEFINE xff == OriginalIPDetectionFilter(cfg)
           limit == GlobalRateLimitFilter(cfg)
           one == AddFilter(filters, xff)
           T == S \union ({xff} \ {Nil})
<1>1. xff \in {Nil, "xff"} /\ limit \in {Nil, "ratelimit"}
  BY DEF OriginalIPDetectionFilter, GlobalRateLimitFilter
<1>2. Common(cfg, filters) = AddFilter(one, limit)
  BY Zenon DEF Common
<1>3. S \union Optional(cfg) = T \union ({limit} \ {Nil})
  BY DEF Optional
<1> HIDE DEF xff, limit
<1>4. xff # Nil => xff \notin S /\ xff # "router"
  BY <1>1
<1>5. RouterLast(one, T)
  BY <1>4, FilterMayBeAdded, Zenon
<1>6. limit # Nil => limit \notin T /\ limit # "router"
  BY <1>1
<1> HIDE DEF one, T
<1>7. RouterLast(AddFilter(one, limit), T \union ({limit} \ {Nil}))
  BY <1>5, <1>6, FilterMayBeAdded, Zenon
<1> QED BY <1>2, <1>3, <1>7, Zenon

(* The filters of a secure virtual host besides those that all have. *)
OwnFilters(auth) == {"misdirected"} \union (IF auth = Nil THEN {} ELSE {"ext_authz"})

LEMMA SecureFiltersFacts ==
  ASSUME NEW cfg, NEW v
  PROVE  RouterLast(SecureFilters(cfg, v),
                    ((Range(DefaultFilters) \ {"router"}) \union OwnFilters(v.Auth)) \union Optional(cfg))
<1> DEFINE S == Range(DefaultFilters) \ {"router"}
           first == <<"misdirected">> \o DefaultFilters
           T == S \union {"misdirected"}
           auth == IF v.Auth = Nil THEN Nil ELSE "ext_authz"
           two == AddFilter(first, auth)
           U == T \union ({auth} \ {Nil})
<1>1. "misdirected" # Nil /\ "ext_authz" # Nil
  BY FilterNamesAssumption DEF FilterNames
<1>2. AddFilter(<<>>, "misdirected") = <<"misdirected">>
  <2> DEFINE all == Append(<<>>, "misdirected")
             found == SelectInSeq(all, LAMBDA g : g = "router")
             moved == SubSeq(all, 1, found - 1) \o <<all[found + 1], "router">>
  <2>1. AddFilter(<<>>, "misdirected") = IF "misdirected" = Nil THEN <<>>
                                         ELSE IF Len(all) = 1 \/ found = Len(all) THEN all ELSE moved
    BY Zenon DEF AddFilter
  <2>2. all = <<"misdirected">> /\ Len(all) = 1
    OBVIOUS
  <2> HIDE DEF all, found, moved
  <2> QED BY <1>1, <2>1, <2>2, Zenon
<1>3. SecureFilters(cfg, v) = Common(cfg, two)
  BY <1>2, Zenon DEF SecureFilters
<1>4. /\ "misdirected" \notin S /\ "ext_authz" \notin S /\ "xff" \notin S /\ "ratelimit" \notin S
  BY DEF DefaultFilters, Range
<1>5. RouterLast(DefaultFilters, S)
  BY DefaultFiltersFacts, Zenon
<1> HIDE DEF S
<1>6. RouterLast(first, T)
  BY <1>4, <1>5, FilterFirst
<1>7. auth # Nil => auth \notin T /\ auth # "router"
  BY <1>4
<1> HIDE DEF first
<1>8. RouterLast(two, U)
  <2> HIDE DEF T, auth
  <2> QED BY <1>6, <1>7, FilterMayBeAdded, Zenon
<1>9. "xff" \notin U /\ "ratelimit" \notin U
  BY <1>4
<1>10. U = S \union OwnFilters(v.Auth)
  BY <1>1 DEF OwnFilters
<1> HIDE DEF two, U
<1>11. RouterLast(Common(cfg, two), U \union Optional(cfg))
  BY <1>8, <1>9, CommonFacts, Zenon
<1> QED BY <1>3, <1>10, <1>11, Zenon DEF S

(* What FiltersInOrder asks of the filters of a connection manager. *)
FiltersComplete(cfg, filters, own) ==
  /\ Last(filters) = "router"
  /\ Range(filters) = Range(DefaultFilters) \union Optional(cfg) \union own
  /\ Cardinality(Range(filters)) = Len(filters)

LEMMA RouterLastComplete ==
  ASSUME NEW cfg, NEW own, NEW filters,
         RouterLast(filters, ((Range(DefaultFilters) \ {"router"}) \union own) \union Optional(cfg))
  PROVE  FiltersComplete(cfg, filters, own)
<1> DEFINE S == ((Range(DefaultFilters) \ {"router"}) \union own) \union Optional(cfg)
<1>1. PICK s : /\ IsSeq(s) /\ Range(s) = S /\ filters = Append(s, "router")
               /\ "router" \notin S /\ IsFiniteSet(S) /\ Cardinality(S) = Len(s)
  BY Zenon DEF RouterLast
<1>2. "router" \in Range(DefaultFilters)
  BY DEF DefaultFilters, Range
<1>3. S \union {"router"} = Range(DefaultFilters) \union Optional(cfg) \union own
  BY <1>2
<1> HIDE DEF S
<1>4. s \in Seq(S) /\ Len(s) \in Nat
  BY <1>1 DEF IsSeq
<1>5. Len(filters) = Len(s) + 1 /\ Last(filters) = "router"
  BY <1>1, <1>4 DEF Last
<1>6. Range(filters) = S \union {"router"}
  BY <1>1, SeqAppend
<1>7. Cardinality(S \union {"router"}) = Len(s) + 1
  BY <1>1, FS_AddElement, Zenon
<1> QED BY <1>3, <1>5, <1>6, <1>7, Zenon DEF FiltersComplete

-----------------------------------------------------------------------------
(* Every name in Envoy's resources is there: filter chains *)

WeightedStep(seq, q, r, s, kept, c) == IF c.weight > 0 THEN Append(kept, c) ELSE kept
WeightedInv(seq, q, r, s, kept) == IsSeq(kept) /\ \A c \in Range(kept) : c \in Range(seq) /\ c.weight > 0
WeightedLoop == INSTANCE Loops WITH Step <- WeightedStep, Inv <- WeightedInv

WeightedOf(seq) == Collect(seq, LAMBDA c : c.weight > 0)

LEMMA WeightedFacts ==
  ASSUME NEW seq, IsSeq(seq)
  PROVE  IsSeq(WeightedOf(seq)) /\ \A c \in Range(WeightedOf(seq)) : c \in Range(seq) /\ c.weight > 0
<1>1. WeightedOf(seq) = WeightedLoop!Loop(seq, Nil, Nil, Nil, <<>>, seq)
  BY DEF WeightedOf, Collect, WeightedLoop!Loop, FoldLeft, MapThenFoldSet, WeightedLoop!Last, Max, WeightedStep
<1>2. WeightedInv(seq, Nil, Nil, Nil, <<>>)
  BY SeqEmpty DEF WeightedInv
<1>3. ASSUME NEW acc, NEW i \in DOMAIN seq, WeightedInv(seq, Nil, Nil, Nil, acc)
      PROVE  WeightedInv(seq, Nil, Nil, Nil, WeightedStep(seq, Nil, Nil, Nil, acc, seq[i]))
  <2>1. seq[i] \in Range(seq)
    BY DEF Range
  <2>2. IsSeq(Append(acc, seq[i])) /\ Range(Append(acc, seq[i])) = Range(acc) \union {seq[i]}
    BY <1>3, SeqAppend DEF WeightedInv
  <2> QED BY <1>3, <2>1, <2>2 DEF WeightedInv, WeightedStep
<1>4. seq \in Seq(Range(seq))
  BY DEF IsSeq
<1>5. WeightedInv(seq, Nil, Nil, Nil, WeightedLoop!Loop(seq, Nil, Nil, Nil, <<>>, seq))
  BY <1>2, <1>3, <1>4, WeightedLoop!LoopKeeps
<1> QED BY <1>1, <1>5 DEF WeightedInv

(* The sum of weights in words. *)
Wrapped(cs) == FoldLeft(LAMBDA n, c : (n + c.weight) % Word, 0, cs)

(* A TCP proxy connects to the clusters it has been given. *)
LEMMA TCPProxyNames ==
  ASSUME NEW clusters, IsSeq(clusters)
  PROVE  \A w \in Range(TCPProxyFilter(clusters, Word)) : \E c \in Range(clusters) : w.name = Clustername(c)
<1> DEFINE kept == WeightedOf(clusters)
           used == IF Wrapped(kept) = 0 THEN clusters ELSE kept
           WeightIn(c) == IF Len(used) = 1 \/ c.weight = 0 THEN 1 ELSE c.weight
           filter == [i \in DOMAIN used |-> [name |-> Clustername(used[i]), weight |-> WeightIn(used[i])]]
<1>1. TCPProxyFilter(clusters, Word) = filter
  BY Zenon DEF TCPProxyFilter, WeightedOf, Wrapped
<1>2. \A c \in Range(kept) : c \in Range(clusters)
  BY WeightedFacts
<1> HIDE DEF kept
<1>3. \A i \in DOMAIN used : used[i] \in Range(clusters)
  BY <1>2 DEF Range
<1> HIDE DEF used
<1>4. \A i \in DOMAIN filter : i \in DOMAIN used /\ filter[i].name = Clustername(used[i])
  OBVIOUS
<1> HIDE DEF filter
<1>5. \A w \in Range(filter) : \E c \in Range(clusters) : w.name = Clustername(c)
  BY <1>3, <1>4 DEF Range
<1> QED BY <1>1, <1>5

(* What the chain of a secure virtual host refers to. *)
ChainOf(cfg, host, v, ch) ==
  /\ ch.name = "" /\ ch.match = (IF host = "*" THEN Nil ELSE host) /\ ch.auth = v.Auth
  /\ ch.route = IF v.TCP = Nil THEN <<"https", host>> ELSE Nil
  /\ ch.filters = IF v.TCP = Nil THEN SecureFilters(cfg, v) ELSE <<>>
  /\ ch.tcp = IF v.TCP = Nil THEN <<>> ELSE TCPProxyFilter(v.TCP, Word)
  /\ ch.tls # Nil => v.Secret # Nil /\ ch.tls.secret = v.Secret

LEMMA ChainFields ==
  ASSUME NEW cfg, NEW host, NEW v
  PROVE  ChainOf(cfg, host, v, FilterChainTLS(cfg, host, v, Word))
<1> DEFINE ch == FilterChainTLS(cfg, host, v, Word)
           nameless == ""
           match == IF host = "*" THEN Nil ELSE host
           route == IF v.TCP = Nil THEN <<"https", host>> ELSE Nil
           filters == IF v.TCP = Nil THEN SecureFilters(cfg, v) ELSE <<>>
           auth == v.Auth
           tcp == IF v.TCP = Nil THEN <<>> ELSE TCPProxyFilter(v.TCP, Word)
           version == MaxVersion(MinTLSVersion(cfg.minTLSVersion, "1.2"), v.MinTLSVersion)
           client == v.Downstream
           alpn == IF v.TCP = Nil THEN ProtoNamesForVersions(cfg.httpVersions) ELSE <<>>
           context == [secret |-> v.Secret, version |-> version, client |-> client, alpn |-> alpn]
           tls == IF v.Secret = Nil THEN Nil ELSE context
<1>1. ch = [name |-> nameless, match |-> match, route |-> route, filters |-> filters, auth |-> auth, tcp |-> tcp,
            tls |-> tls]
  BY Zenon DEF FilterChainTLS, DownstreamTLSContext
<1> HIDE DEF version, client, alpn
<1>2. context.secret = v.Secret
  OBVIOUS
<1> HIDE DEF context
<1>3. tls # Nil => v.Secret # Nil /\ tls.secret = v.Secret
  BY <1>2
<1> HIDE DEF nameless, match, route, filters, auth, tcp, tls, ch
<1>4. /\ ch.name = nameless /\ ch.match = match /\ ch.route = route /\ ch.filters = filters /\ ch.auth = auth
      /\ ch.tcp = tcp /\ ch.tls = tls
  BY <1>1
<1> QED BY <1>3, <1>4, Zenon DEF ChainOf, nameless, match, route, filters, auth, tcp, ch

FallbackChainOf(cfg, v, ch) ==
  /\ ch.name # "" /\ ch.auth = Nil /\ ch.tcp = <<>> /\ ch.tls.secret = v.Fallback
  /\ ch.filters = Common(cfg, DefaultFilters)

LEMMA FallbackFields ==
  ASSUME NEW cfg, NEW v
  PROVE  FallbackChainOf(cfg, v, FilterChainTLSFallback(cfg, v))
<1> DEFINE ch == FilterChainTLSFallback(cfg, v)
           name == "fallback-certificate"
           nameless == ""
           route == <<"fallback", "">>
           filters == Common(cfg, DefaultFilters)
           version == MinTLSVersion(cfg.minTLSVersion, "1.2")
           client == v.Downstream
           alpn == IF v.TCP = Nil THEN ProtoNamesForVersions(cfg.httpVersions) ELSE <<>>
           context == [secret |-> v.Fallback, version |-> version, client |-> client, alpn |-> alpn]
<1>1. ch = [name |-> name, match |-> Nil, route |-> route, filters |-> filters, auth |-> Nil, tcp |-> <<>>,
            tls |-> context]
  BY Zenon DEF FilterChainTLSFallback, DownstreamTLSContext
<1>2. name # nameless
  BY Zenon
<1> HIDE DEF version, client, alpn
<1>3. context.secret = v.Fallback
  OBVIOUS
<1> HIDE DEF context, name, nameless, route, filters, ch
<1>4. ch.name = name /\ ch.filters = filters /\ ch.auth = Nil /\ ch.tcp = <<>> /\ ch.tls = context
  BY <1>1
<1> QED BY <1>2, <1>3, <1>4, Zenon DEF FallbackChainOf, name, nameless, filters, ch

(* Names have a place in the order of names, so some name is the first of   *)
(* those that have a fallback certificate.                                  *)
Rank(a) == SelectInSeq(Alphabet, LAMBDA t : t = a)

LEMMA PlaceFacts ==
  ASSUME NEW seq, IsSeq(seq), NEW a
  PROVE  SelectInSeq(seq, LAMBDA t : t = a) \in Nat
<1> DEFINE I == {i \in 1..Len(seq) : seq[i] = a}
<1>1. Len(seq) \in Nat
  BY DEF IsSeq
<1>2. I \subseteq Nat
  BY <1>1
<1>3. SelectInSeq(seq, LAMBDA t : t = a) = IF I # {} THEN Min(I) ELSE 0
  BY Zenon DEF SelectInSeq
<1> HIDE DEF I
<1>4. I # {} => Min(I) \in Nat
  <2> SUFFICES ASSUME I # {} PROVE Min(I) \in Nat
    OBVIOUS
  <2>1. \E x \in I : \A y \in I : x <= y
    BY <1>2, Kept!LeastNat, Zenon
  <2>2. Min(I) \in I
    BY <2>1, Zenon DEF Min
  <2> QED BY <1>2, <2>2, Zenon
<1> QED BY <1>3, <1>4

LEMMA AlphabetSeq == IsSeq(Alphabet)
<1>1. \A e : IsSeq(<<e, "*", "*.a", "*.b", "/", ":authority", ":method", "GET", "X", "a", "a+", "ab", "b", "c", "h", "s", "t",
                     "v", "w", "x", "x.a", "x.b", "y", "y.a">>)
  BY DEF IsSeq, Range
<1> QED BY <1>1, Zenon DEF Alphabet

LEMMA FirstFound ==
  ASSUME NEW T, T # {}
  PROVE  (CHOOSE h \in T : \A g \in T : ~Before(g, h)) \in T
<1> DEFINE Ranks == {Rank(h) : h \in T}
<1>1. \A a : Rank(a) \in Nat
  BY AlphabetSeq, PlaceFacts DEF Rank
<1>2. \A g, h : Before(g, h) <=> Rank(g) < Rank(h)
  BY Zenon DEF Before, Rank
<1>3. \E m \in Ranks : \A n \in Ranks : m <= n
  <2>1. Ranks \subseteq Nat /\ Ranks # {}
    BY <1>1
  <2> HIDE DEF Ranks
  <2> QED BY <2>1, Kept!LeastNat, Zenon
<1>4. PICK h \in T : \A n \in Ranks : Rank(h) <= n
  BY <1>3, Zenon
<1>5. \A g \in T : Rank(h) <= Rank(g)
  BY <1>4, Zenon
<1> HIDE DEF Ranks
<1>6. \A g \in T : ~Before(g, h)
  BY <1>1, <1>2, <1>5
<1> QED BY <1>6, Zenon

(* The filter chains are those of the secure hosts, and one for the         *)
(* fallback certificate of one of them.                                     *)
ListenersOf(d, cfg, lds) ==
  /\ lds.http # Nil => lds.http.filters = Common(cfg, DefaultFilters)
  /\ lds.https # Nil =>
       \A ch \in lds.https.chains : \E h \in SecureListenerHosts(d) :
         \/ ch = FilterChainTLS(cfg, h, d.SecureVirtualHosts[h], Word)
         \/ ch = FilterChainTLSFallback(cfg, d.SecureVirtualHosts[h]) /\ d.SecureVirtualHosts[h].Fallback # Nil

LEMMA ListenerFacts ==
  ASSUME NEW d, NEW cfg
  PROVE  ListenersOf(d, cfg, ListenerCacheOnChange(d, cfg, Word))
<1> DEFINE lds == ListenerCacheOnChange(d, cfg, Word)
           secure == SecureListenerHosts(d)
           fallback == {h \in secure : d.SecureVirtualHosts[h].Fallback # Nil}
           first == CHOOSE h \in fallback : \A g \in fallback : ~Before(g, h)
           own == {FilterChainTLS(cfg, h, d.SecureVirtualHosts[h], Word) : h \in secure}
           last == IF fallback = {} THEN {} ELSE {FilterChainTLSFallback(cfg, d.SecureVirtualHosts[first])}
           chains == own \union last
           proxyProtocol == IF cfg.useProxyProto THEN <<"proxy_protocol">> ELSE <<>>
           route == <<"http", "">>
           filters == Common(cfg, DefaultFilters)
           balance == cfg.balance
           inspected == Append(proxyProtocol, "tls_inspector")
           plain == [listenerFilters |-> proxyProtocol, route |-> route, filters |-> filters, balance |-> balance]
           tls == [listenerFilters |-> inspected, chains |-> chains, balance |-> balance]
           http == IF ListenerHosts(d) = {} THEN Nil ELSE plain
           https == IF chains = {} THEN Nil ELSE tls
<1>1. lds = [http |-> http, https |-> https]
  BY Zenon DEF ListenerCacheOnChange
<1>2. fallback # {} => first \in fallback
  <2> HIDE DEF fallback
  <2> QED BY FirstFound, Zenon
<1>3. \A ch \in chains : \E h \in secure :
        \/ ch = FilterChainTLS(cfg, h, d.SecureVirtualHosts[h], Word)
        \/ ch = FilterChainTLSFallback(cfg, d.SecureVirtualHosts[h]) /\ d.SecureVirtualHosts[h].Fallback # Nil
  <2>1. \A ch \in own : \E h \in secure : ch = FilterChainTLS(cfg, h, d.SecureVirtualHosts[h], Word)
    BY Zenon
  <2> HIDE DEF own, first
  <2>2. \A ch \in last : ch = FilterChainTLSFallback(cfg, d.SecureVirtualHosts[first]) /\ fallback # {}
    <3> HIDE DEF fallback
    <3> QED OBVIOUS
  <2>3. \A h \in fallback : h \in secure /\ d.SecureVirtualHosts[h].Fallback # Nil
    BY Zenon
  <2> HIDE DEF last, fallback, secure
  <2> QED BY <1>2, <2>1, <2>2, <2>3
<1> HIDE DEF chains, route, filters, balance, inspected, proxyProtocol
<1>4. plain.filters = filters /\ tls.chains = chains
  OBVIOUS
<1> HIDE DEF plain, tls
<1>5. (http # Nil => http.filters = filters) /\ (https # Nil => https.chains = chains)
  BY <1>4
<1> HIDE DEF http, https, lds
<1>6. lds.http = http /\ lds.https = https
  BY <1>1
<1> QED BY <1>3, <1>5, <1>6, Zenon DEF ListenersOf, lds, filters, secure

LEMMA ChainsOfHosts ==
  ASSUME BuildInv, End, NEW ch \in FilterChains
  PROVE  \E h \in SecureListenerHosts(dag) :
           \/ ch = FilterChainTLS(config.listener, h, dag.SecureVirtualHosts[h], Word)
           \/ /\ ch = FilterChainTLSFallback(config.listener, dag.SecureVirtualHosts[h])
              /\ dag.SecureVirtualHosts[h].Fallback # Nil
<1>1. xds.lds = ListenerCacheOnChange(dag, config.listener, Word)
  BY DEF BuildInv, XDSSound, End
<1>2. xds.lds.https # Nil /\ ch \in xds.lds.https.chains
  BY DEF FilterChains
<1>3. ListenersOf(dag, config.listener, xds.lds)
  BY <1>1, ListenerFacts, Zenon
<1> QED BY <1>2, <1>3, Zenon DEF ListenersOf

LEMMA SecretsServed ==
  ASSUME NEW d
  PROVE  /\ \A h \in SecureListenerHosts(d) : LET v == d.SecureVirtualHosts[h]
              IN  (v.Secret # Nil => v.Secret \in GetSecrets(d)) /\ (v.Fallback # Nil => v.Fallback \in GetSecrets(d))
         /\ \A c \in GetClusters(d) : c.clientCert # Nil => c.clientCert \in GetSecrets(d)
BY Zenon DEF GetSecrets

LEMMA ExtensionServed ==
  ASSUME NEW d, NEW name, \E e \in Range(d.ExtensionClusters) : e.name = name
  PROVE  name \in DOMAIN ExtensionClusters(d)
BY Zenon DEF ExtensionClusters

LEMMA ChainResolved ==
  ASSUME BuildInv, End, NEW ch \in FilterChains
  PROVE  /\ \A c \in Range(ch.tcp) : c.name \in DOMAIN xds.cds
         /\ ch.auth # Nil => ch.auth \in DOMAIN xds.ext
         /\ ch.tls # Nil => ch.tls.secret \in xds.sds /\ ch.tls.secret \in DOMAIN source.secrets
         /\ (ch.route # Nil /\ ch.name = "") => ch.route \in RouteConfigs
<1> DEFINE cfg == config.listener
<1>1. PICK h \in SecureListenerHosts(dag) :
           \/ ch = FilterChainTLS(cfg, h, dag.SecureVirtualHosts[h], Word)
           \/ ch = FilterChainTLSFallback(cfg, dag.SecureVirtualHosts[h]) /\ dag.SecureVirtualHosts[h].Fallback # Nil
  BY ChainsOfHosts, Zenon
<1> DEFINE v == dag.SecureVirtualHosts[h]
<1>2. /\ DAGGranted(dag) /\ xds.cds = ClusterCacheOnChange(dag) /\ xds.ext = ExtensionClusters(dag)
      /\ xds.sds = GetSecrets(dag)
      /\ \A g \in SecureHostsWithRoutes(dag) : <<"https", g>> \in DOMAIN xds.rds
  BY DEF BuildInv, XDSSound, LoopSound, End, ObjectsSound
<1>3. SecureGranted(h, dag.ExtensionClusters, v) /\ SecureValid(v)
  BY <1>2 DEF DAGGranted, SecureListenerHosts
<1>4. (v.Secret # Nil => v.Secret \in xds.sds) /\ (v.Fallback # Nil => v.Fallback \in xds.sds)
  BY <1>1, <1>2, SecretsServed, Zenon
<1>5. /\ v.Secret # Nil => v.Secret \in DOMAIN source.secrets
      /\ v.Fallback # Nil => v.Fallback \in DOMAIN source.secrets
  BY <1>3 DEF SecureGranted, SecretGranted
<1>6. Range(<<>>) = {}
  BY SeqEmpty
<1> HIDE DEF cfg
<1>7. CASE ch = FilterChainTLS(cfg, h, v, Word)
  <2>1. /\ ch.auth = v.Auth /\ ch.route = IF v.TCP = Nil THEN <<"https", h>> ELSE Nil
        /\ ch.tcp = IF v.TCP = Nil THEN <<>> ELSE TCPProxyFilter(v.TCP, Word)
        /\ ch.tls # Nil => v.Secret # Nil /\ ch.tls.secret = v.Secret
    <3>1. ChainOf(cfg, h, v, ch)
      BY <1>7, ChainFields, Zenon
    <3> QED BY <3>1, Zenon DEF ChainOf
  <2>2. ch.auth # Nil => ch.auth \in DOMAIN xds.ext
    BY <1>2, <1>3, <2>1, ExtensionServed DEF SecureGranted
  <2>3. ch.tls # Nil => ch.tls.secret \in xds.sds /\ ch.tls.secret \in DOMAIN source.secrets
    BY <1>4, <1>5, <2>1
  <2>4. v.TCP = Nil => h \in SecureHostsWithRoutes(dag)
    BY <1>3 DEF SecureHostsWithRoutes, SecureValid
  <2>5. ch.route # Nil => ch.route \in RouteConfigs
    BY <1>2, <2>1, <2>4 DEF RouteConfigs
  <2>6. \A c \in Range(ch.tcp) : c.name \in DOMAIN xds.cds
    <3>1. CASE v.TCP = Nil
      BY <1>6, <2>1, <3>1
    <3>2. CASE v.TCP # Nil
      <4>1. IsSeq(v.TCP)
        BY <1>3, <3>2 DEF SecureGranted, Weighed
      <4>2. \A w \in Range(ch.tcp) : \E c \in Range(v.TCP) : w.name = Clustername(c)
        BY <2>1, <3>2, <4>1, TCPProxyNames
      <4>3. \A c \in Range(v.TCP) : Clustername(c) \in DOMAIN xds.cds
        BY <1>2, <3>2, TCPClusters, ClusterNamed
      <4> HIDE DEF v
      <4> QED BY <4>2, <4>3
    <3> QED BY <3>1, <3>2
  <2> QED BY <2>2, <2>3, <2>5, <2>6, Zenon
<1>8. CASE ch = FilterChainTLSFallback(cfg, v) /\ v.Fallback # Nil
  <2>1. ch.name # "" /\ ch.auth = Nil /\ ch.tcp = <<>> /\ ch.tls.secret = v.Fallback
    <3>1. FallbackChainOf(cfg, v, ch)
      BY <1>8, FallbackFields, Zenon
    <3> QED BY <3>1, Zenon DEF FallbackChainOf
  <2>2. Range(ch.tcp) = {}
    BY <1>6, <2>1, Zenon
  <2>3. ch.tls.secret \in xds.sds /\ ch.tls.secret \in DOMAIN source.secrets
    BY <1>4, <1>5, <1>8, <2>1, Zenon
  <2> QED BY <2>1, <2>2, <2>3, Zenon
<1> QED BY <1>1, <1>7, <1>8, Zenon DEF cfg

(* The certificate a cluster shows is one of those that are served. *)
LEMMA ClusterResolved ==
  ASSUME BuildInv, End, NEW n \in DOMAIN xds.cds, NEW c \in xds.cds[n], c.tls # Nil, c.tls.clientCert # Nil
  PROVE  c.tls.clientCert \in xds.sds
<1>1. xds.cds = ClusterCacheOnChange(dag) /\ xds.sds = GetSecrets(dag)
  BY DEF BuildInv, XDSSound, End
<1>2. PICK x \in GetClusters(dag) : c = EnvoyCluster(x)
  <2>1. \A m \in DOMAIN ClusterCacheOnChange(dag) : \A y \in ClusterCacheOnChange(dag)[m] :
          \E x \in GetClusters(dag) : y = EnvoyCluster(x)
    BY Zenon DEF ClusterCacheOnChange
  <2> QED BY <1>1, <2>1, Zenon
<1> DEFINE lb == LbPolicy(x.lb)
           health == EdsHealthCheck(x.health)
           drain == x.health # Nil
           discovery == IF x.external = "" THEN "EDS" ELSE "STRICT_DNS"
           assignment == <<x.service, x.port.name>>
           address == x.external
           http2 == x.protocol \in {"h2", "h2c"}
           validation == x.validation
           sni == x.sni
           alpn == IF x.protocol = "h2" THEN "h2" ELSE ""
           context == [validation |-> validation, sni |-> sni, clientCert |-> x.clientCert, alpn |-> alpn]
           tls == IF x.protocol \in {"tls", "h2"} THEN context ELSE Nil
<1>3. c = [lb |-> lb, health |-> health, drainOnRemoval |-> drain, discovery |-> discovery, assignment |-> assignment,
           address |-> address, http2 |-> http2, tls |-> tls]
  BY <1>2, Zenon DEF EnvoyCluster, UpstreamTLSContext
<1> HIDE DEF lb, health, drain, discovery, assignment, address, http2, validation, sni, alpn
<1>4. context.clientCert = x.clientCert
  OBVIOUS
<1> HIDE DEF context
<1>5. tls # Nil => tls.clientCert = x.clientCert
  BY <1>4
<1> HIDE DEF tls
<1>6. c.tls = tls
  BY <1>3
<1>7. x.clientCert # Nil => x.clientCert \in GetSecrets(dag)
  BY <1>2, SecretsServed, Zenon
<1> QED BY <1>1, <1>5, <1>6, <1>7

LEMMA BuildInvResolved == BuildInv => ReferencesResolved
BY ServedResolved, ChainResolved, ClusterResolved, Zenon DEF ReferencesResolved

LEMMA BuildInvFilters == BuildInv => FiltersInOrder
<1> SUFFICES ASSUME BuildInv, End PROVE FiltersInOrder
  BY Zenon DEF FiltersInOrder
<1> DEFINE cfg == config.listener
           S == Range(DefaultFilters) \ {"router"}
           none == {}
           Own(ch) == IF ch.name # "" THEN {} ELSE OwnFilters(ch.auth)
<1>1. FiltersComplete(cfg, Common(cfg, DefaultFilters), none)
  <2>1. "xff" \notin S /\ "ratelimit" \notin S
    BY DEF DefaultFilters, Range
  <2>2. RouterLast(DefaultFilters, S)
    BY DefaultFiltersFacts, Zenon
  <2>3. (S \union none) \union Optional(cfg) = S \union Optional(cfg)
    OBVIOUS
  <2> HIDE DEF S, cfg, none
  <2>4. RouterLast(Common(cfg, DefaultFilters), S \union Optional(cfg))
    BY <2>1, <2>2, CommonFacts, Zenon
  <2>5. RouterLast(Common(cfg, DefaultFilters), (S \union none) \union Optional(cfg))
    BY <2>3, <2>4, Zenon
  <2> QED BY <2>5, RouterLastComplete, Zenon DEF S
<1>2. \A v : FiltersComplete(cfg, SecureFilters(cfg, v), OwnFilters(v.Auth))
  <2> HIDE DEF cfg
  <2> QED BY SecureFiltersFacts, RouterLastComplete, Zenon
<1>3. xds.lds.http # Nil => FiltersComplete(cfg, xds.lds.http.filters, none)
  <2>1. xds.lds = ListenerCacheOnChange(dag, config.listener, Word)
    BY DEF BuildInv, XDSSound, End
  <2>2. ListenersOf(dag, cfg, xds.lds)
    BY <2>1, ListenerFacts, Zenon
  <2> QED BY <1>1, <2>2, Zenon DEF ListenersOf
<1>4. ASSUME NEW ch \in FilterChains, ch.route # Nil PROVE FiltersComplete(cfg, ch.filters, Own(ch))
  <2>1. PICK h \in SecureListenerHosts(dag) :
             \/ ch = FilterChainTLS(cfg, h, dag.SecureVirtualHosts[h], Word)
             \/ ch = FilterChainTLSFallback(cfg, dag.SecureVirtualHosts[h])
    BY ChainsOfHosts, Zenon
  <2> DEFINE v == dag.SecureVirtualHosts[h]
  <2>2. CASE ch = FilterChainTLS(cfg, h, v, Word)
    <3>1. /\ ch.name = "" /\ ch.auth = v.Auth /\ ch.route = IF v.TCP = Nil THEN <<"https", h>> ELSE Nil
          /\ ch.filters = IF v.TCP = Nil THEN SecureFilters(cfg, v) ELSE <<>>
      <4>1. ChainOf(cfg, h, v, ch)
        BY <2>2, ChainFields, Zenon
      <4> QED BY <4>1, Zenon DEF ChainOf
    <3>2. ch.filters = SecureFilters(cfg, v)
      BY <1>4, <3>1, Zenon
    <3> QED BY <1>2, <3>1, <3>2, Zenon
  <2>3. CASE ch = FilterChainTLSFallback(cfg, v)
    <3>1. ch.name # "" /\ ch.filters = Common(cfg, DefaultFilters)
      <4>1. FallbackChainOf(cfg, v, ch)
        BY <2>3, FallbackFields, Zenon
      <4> QED BY <4>1, Zenon DEF FallbackChainOf
    <3> QED BY <1>1, <3>1, Zenon
  <2> QED BY <2>1, <2>2, <2>3, Zenon
<1> QED BY <1>3, <1>4, Zenon DEF FiltersInOrder, FiltersComplete, OwnFilters, Optional

(* Whatever objects there are and in whatever order they are gone through:  *)
(* what Envoy's resources name is among them, clusters of routes, mirrors   *)
(* and TCP proxies, authorization services, certificates and route          *)
(* configurations, and every connection manager has its filters with the    *)
(* router last (GetClusters, GetSecrets, AddFilter).                        *)
THEOREM ResourcesFitTogether == BuildSpec => []ResourcesComplete
<1>1. BuildInv => ResourcesComplete
  BY BuildInvResolved, BuildInvFilters DEF ResourcesComplete
<1> QED BY <1>1, BuildInvHolds, PTL
-----------------------------------------------------------------------------
(* Traffic is split as asked for: sums of weights *)

TotalStep(p, q, r, s, n, w) == n + w
TotalInv(p, q, r, s, n) == n \in Nat
Totals == INSTANCE Loops WITH Step <- TotalStep, Inv <- TotalInv

LEMMA TotalList ==
  /\ Total(<<>>) = 0
  /\ \A ws \in Seq(Nat) : \A w \in Nat : Total(Append(ws, w)) = Total(ws) + w
<1>1. \A ws : Total(ws) = Totals!Loop(Nil, Nil, Nil, Nil, 0, ws)
  BY DEF Total, Totals!Loop, FoldLeft, MapThenFoldSet, Totals!Last, Max, TotalStep
<1>2. Total(<<>>) = 0
  BY <1>1, Totals!LoopEmpty
<1>3. ASSUME NEW ws \in Seq(Nat), NEW w \in Nat PROVE Total(Append(ws, w)) = Total(ws) + w
  <2>1. Totals!Loop(Nil, Nil, Nil, Nil, 0, Append(ws, w)) =
          TotalStep(Nil, Nil, Nil, Nil, Totals!Loop(Nil, Nil, Nil, Nil, 0, ws), w)
    BY Totals!LoopAppend
  <2> QED BY <1>1, <2>1 DEF TotalStep
<1> QED BY <1>2, <1>3

(* No weight is more than the sum of all. *)
LEMMA TotalFacts ==
  ASSUME NEW ws \in Seq(Nat)
  PROVE  Total(ws) \in Nat /\ \A i \in DOMAIN ws : ws[i] <= Total(ws)
<1> DEFINE T == {s \in Seq(Nat) : Total(s) \in Nat /\ \A i \in DOMAIN s : s[i] <= Total(s)}
<1>1. <<>> \in T
  BY TotalList
<1>2. ASSUME NEW s \in Seq(Nat), NEW w \in Nat, s \in T PROVE Append(s, w) \in T
  <2> DEFINE more == Append(s, w)
  <2>1. /\ more \in Seq(Nat) /\ Total(more) = Total(s) + w
        /\ DOMAIN more = 1..(Len(s) + 1) /\ DOMAIN s = 1..Len(s) /\ Len(s) \in Nat
        /\ more[Len(s) + 1] = w /\ \A i \in DOMAIN s : more[i] = s[i] /\ s[i] \in Nat
    BY TotalList
  <2> HIDE DEF more
  <2>2. \A i \in DOMAIN more : i = Len(s) + 1 \/ i \in DOMAIN s
    BY <2>1
  <2>3. Total(more) \in Nat /\ \A i \in DOMAIN more : more[i] <= Total(more)
    <3>1. Total(s) \in Nat /\ \A i \in DOMAIN s : s[i] <= Total(s)
      BY <1>2
    <3> DEFINE sum == Total(s)
    <3> HIDE DEF sum, T
    <3>2. sum \in Nat /\ Total(more) = sum + w /\ Total(more) \in Nat
      BY <2>1, <3>1 DEF sum
    <3>3. \A i \in DOMAIN s : more[i] <= sum /\ more[i] \in Nat
      BY <2>1, <3>1 DEF sum
    <3>4. \A i \in DOMAIN s : more[i] <= Total(more)
      BY <3>2, <3>3
    <3>5. more[Len(s) + 1] <= Total(more)
      BY <2>1, <3>2
    <3> QED BY <2>2, <3>2, <3>4, <3>5
  <2> QED BY <2>1, <2>3 DEF more
<1> HIDE DEF T
<1>3. Seq(Nat) \subseteq T
  BY <1>1, <1>2, Totals!ListInduction
<1> QED BY <1>3 DEF T

LEMMA TotalOnes ==
  ASSUME NEW ws \in Seq(Nat), \A i \in DOMAIN ws : ws[i] = 1
  PROVE  Total(ws) = Len(ws)
<1> DEFINE T == {s \in Seq({1}) : Total(s) = Len(s)}
<1>1. <<>> \in T
  BY TotalList
<1>2. ASSUME NEW s \in Seq({1}), NEW w \in {1}, s \in T PROVE Append(s, w) \in T
  <2>1. s \in Seq(Nat) /\ w \in Nat /\ w = 1 /\ Append(s, w) \in Seq({1}) /\ Len(Append(s, w)) = Len(s) + 1
    OBVIOUS
  <2>2. Total(Append(s, w)) = Total(s) + w
    BY <2>1, TotalList
  <2> QED BY <1>2, <2>1, <2>2
<1> HIDE DEF T
<1>3. Seq({1}) \subseteq T
  BY <1>1, <1>2, Totals!ListInduction
<1>4. ws \in Seq({1})
  OBVIOUS
<1> QED BY <1>3, <1>4 DEF T

LEMMA TotalOne ==
  ASSUME NEW ws \in Seq(Nat), Len(ws) = 1
  PROVE  Total(ws) = ws[1] /\ ws[1] \in Nat
<1> DEFINE w == ws[1]
<1>1. w \in Nat /\ ws = Append(<<>>, w) /\ <<>> \in Seq(Nat)
  OBVIOUS
<1> HIDE DEF w
<1>2. Total(Append(<<>>, w)) = 0 + w
  BY <1>1, TotalList
<1> QED BY <1>1, <1>2 DEF w

(* What the clusters with the name n have of the weights. *)
Share(n, cs) == [i \in DOMAIN cs |-> IF Clustername(cs[i]) = n THEN cs[i].weight ELSE 0]
ShareOf(n, c) == IF Clustername(c) = n THEN c.weight ELSE 0
GivenShare(n, given) == [i \in DOMAIN given |-> IF given[i].name = n THEN given[i].weight ELSE 0]

LEMMA AppendForm ==
  ASSUME NEW s \in Seq(Nat), NEW x \in Nat
  PROVE  LET m == Len(s) + 1
             t == Append(s, x)
         IN  t = [i \in 1..m |-> t[i]] /\ t[m] = x /\ \A i \in 1..Len(s) : t[i] = s[i]
<1> DEFINE m == Len(s) + 1
           t == Append(s, x)
<1>1. t \in Seq(Nat) /\ Len(t) = m /\ t[m] = x /\ \A i \in 1..Len(s) : t[i] = s[i]
  OBVIOUS
<1> HIDE DEF m, t
<1>2. t \in [1..m -> Nat]
  BY <1>1
<1>3. t = [i \in 1..m |-> t[i]]
  BY <1>2
<1> QED BY <1>1, <1>3 DEF m, t

LEMMA SharesSeq ==
  ASSUME NEW A, \A c \in A : c.weight \in Nat, NEW cs \in Seq(A), NEW n
  PROVE  /\ WeightsOf(cs) \in Seq(Nat) /\ Share(n, cs) \in Seq(Nat)
         /\ \A c \in A : /\ WeightsOf(Append(cs, c)) = Append(WeightsOf(cs), c.weight)
                         /\ Share(n, Append(cs, c)) = Append(Share(n, cs), ShareOf(n, c))
                         /\ ShareOf(n, c) \in Nat
<1>1. DOMAIN cs = 1..Len(cs) /\ Len(cs) \in Nat /\ \A i \in DOMAIN cs : cs[i] \in A
  OBVIOUS
<1> DEFINE ws == WeightsOf(cs)
           share == Share(n, cs)
<1>2. /\ ws \in [1..Len(cs) -> Nat] /\ \A i \in DOMAIN cs : ws[i] = cs[i].weight
  BY <1>1 DEF WeightsOf
<1>3. share \in [1..Len(cs) -> Nat] /\ \A i \in DOMAIN cs : share[i] = ShareOf(n, cs[i])
  BY <1>1 DEF Share, ShareOf
<1>4. ws \in Seq(Nat) /\ Len(ws) = Len(cs) /\ share \in Seq(Nat) /\ Len(share) = Len(cs)
  <2> HIDE DEF ws, share
  <2>1. ws \in Seq(Nat) /\ Len(ws) = Len(cs)
    BY <1>1, <1>2
  <2>2. share \in Seq(Nat) /\ Len(share) = Len(cs)
    BY <1>1, <1>3
  <2> QED BY <2>1, <2>2
<1>5. ASSUME NEW c \in A
      PROVE  /\ WeightsOf(Append(cs, c)) = Append(WeightsOf(cs), c.weight)
             /\ Share(n, Append(cs, c)) = Append(Share(n, cs), ShareOf(n, c))
             /\ ShareOf(n, c) \in Nat
  <2> DEFINE more == Append(cs, c)
             m == Len(cs) + 1
             w == c.weight
             h == ShareOf(n, c)
  <2>1. DOMAIN more = 1..m /\ more[m] = c /\ \A i \in DOMAIN cs : more[i] = cs[i]
    BY <1>1
  <2>2. w \in Nat /\ h \in Nat
    BY DEF ShareOf
  <2>3. \A i \in 1..m : i = m \/ i \in DOMAIN cs
    BY <1>1
  <2> DEFINE ws2 == WeightsOf(more)
             share2 == Share(n, more)
             ws3 == Append(ws, w)
             share3 == Append(share, h)
  <2> HIDE DEF more
  <2>4. ws2 = [i \in 1..m |-> ws2[i]] /\ ws2[m] = w /\ \A i \in DOMAIN cs : ws2[i] = ws[i]
    <3>1. \A i \in DOMAIN cs : i \in 1..m
      BY <1>1
    <3> QED BY <1>1, <1>2, <2>1, <3>1 DEF WeightsOf
  <2>5. share2 = [i \in 1..m |-> share2[i]] /\ share2[m] = h /\ \A i \in DOMAIN cs : share2[i] = share[i]
    <3>1. \A i \in DOMAIN cs : i \in 1..m
      BY <1>1
    <3> QED BY <1>1, <1>3, <2>1, <3>1 DEF Share, ShareOf
  <2> HIDE DEF ws, share, w, h
  <2>6. ws3 = [i \in 1..m |-> ws3[i]] /\ ws3[m] = w /\ \A i \in DOMAIN cs : ws3[i] = ws[i]
    BY <1>1, <1>4, <2>2, AppendForm DEF m
  <2>7. share3 = [i \in 1..m |-> share3[i]] /\ share3[m] = h /\ \A i \in DOMAIN cs : share3[i] = share[i]
    BY <1>1, <1>4, <2>2, AppendForm DEF m
  <2> HIDE DEF ws2, ws3, share2, share3, m
  <2>8. \A i \in 1..m : ws2[i] = ws3[i] /\ share2[i] = share3[i]
    BY <2>3, <2>4, <2>5, <2>6, <2>7
  <2>9. ws2 = ws3 /\ share2 = share3
    BY <2>4, <2>5, <2>6, <2>7, <2>8
  <2> QED BY <2>2, <2>9 DEF ws2, ws3, share2, share3, ws, share, w, h, more
<1> QED BY <1>4, <1>5

(* As long as it fits a word, the sum of the weights is what the code adds  *)
(* up, in words.                                                            *)
WrappedStep(p, q, r, s, n, c) == (n + c.weight) % Word
WrappedInv(p, q, r, s, n) == n \in Nat
WrappedLoop == INSTANCE Loops WITH Step <- WrappedStep, Inv <- WrappedInv

LEMMA Remains ==
  ASSUME NEW k \in Nat, k < Word
  PROVE  k % Word = k
BY WordAssumption

LEMMA WrappedTotal ==
  ASSUME NEW cs, Weighed(cs), Fits(cs)
  PROVE  Wrapped(cs) = Total(WeightsOf(cs))
<1> DEFINE A == Range(cs)
           Sum(s) == Total(WeightsOf(s))
           T == {s \in Seq(A) : Sum(s) < Word => Wrapped(s) = Sum(s)}
<1>1. \A s : Wrapped(s) = WrappedLoop!Loop(Nil, Nil, Nil, Nil, 0, s)
  BY DEF Wrapped, WrappedLoop!Loop, FoldLeft, MapThenFoldSet, WrappedLoop!Last, Max, WrappedStep
<1>2. cs \in Seq(A) /\ \A c \in A : c.weight \in Nat
  BY DEF Weighed, IsSeq
<1> HIDE DEF A
<1>3. <<>> \in T
  <2>1. Wrapped(<<>>) = 0
    BY <1>1, WrappedLoop!LoopEmpty
  <2>2. WeightsOf(<<>>) = <<>>
    BY DEF WeightsOf
  <2> QED BY <2>1, <2>2, TotalList
<1>4. ASSUME NEW s \in Seq(A), NEW c \in A, s \in T PROVE Append(s, c) \in T
  <2> DEFINE more == Append(s, c)
             n == Sum(s)
             w == c.weight
  <2>1. WeightsOf(s) \in Seq(Nat) /\ WeightsOf(more) = Append(WeightsOf(s), w) /\ w \in Nat
    BY <1>2, SharesSeq
  <2>2. n \in Nat /\ Sum(more) = n + w
    BY <2>1, TotalFacts, TotalList
  <2>3. WrappedLoop!Loop(Nil, Nil, Nil, Nil, 0, more) =
          WrappedStep(Nil, Nil, Nil, Nil, WrappedLoop!Loop(Nil, Nil, Nil, Nil, 0, s), c)
    BY WrappedLoop!LoopAppend
  <2>4. Wrapped(more) = (Wrapped(s) + w) % Word
    BY <1>1, <2>3 DEF WrappedStep
  <2>5. n < Word => Wrapped(s) = n
    BY <1>4
  <2>6. more \in Seq(A)
    OBVIOUS
  <2> HIDE DEF more, n, w, Sum
  <2>7. Sum(more) < Word => Wrapped(more) = Sum(more)
    <3> SUFFICES ASSUME n + w < Word PROVE Wrapped(more) = n + w
      BY <2>2
    <3>1. n < Word /\ n + w \in Nat
      BY <2>1, <2>2, WordAssumption
    <3>2. (n + w) % Word = n + w
      BY <3>1, Remains
    <3> QED BY <2>4, <2>5, <3>1, <3>2
  <2> QED BY <2>6, <2>7 DEF more
<1> HIDE DEF T
<1>5. Seq(A) \subseteq T
  BY <1>3, <1>4, WrappedLoop!ListInduction
<1> QED BY <1>2, <1>5 DEF T, Fits

(* To leave out the clusters without weight changes no sum. *)
LEMMA WeightedTotals ==
  ASSUME NEW cs, Weighed(cs), NEW n
  PROVE  /\ Total(WeightsOf(WeightedOf(cs))) = Total(WeightsOf(cs))
         /\ Total(Share(n, WeightedOf(cs))) = Total(Share(n, cs))
<1> DEFINE A == Range(cs)
           Same(s, t) == Total(WeightsOf(t)) = Total(WeightsOf(s)) /\ Total(Share(n, t)) = Total(Share(n, s))
           T == {s \in Seq(A) : WeightedOf(s) \in Seq(A) /\ Same(s, WeightedOf(s))}
<1>1. \A s : WeightedOf(s) = WeightedLoop!Loop(Nil, Nil, Nil, Nil, <<>>, s)
  BY DEF WeightedOf, Collect, WeightedLoop!Loop, FoldLeft, MapThenFoldSet, WeightedLoop!Last, Max, WeightedStep
<1>2. cs \in Seq(A) /\ \A c \in A : c.weight \in Nat
  BY DEF Weighed, IsSeq
<1> HIDE DEF A
<1>3. <<>> \in T
  <2> DEFINE none == <<>>
  <2>1. WeightedOf(none) = none /\ none \in Seq(A)
    BY <1>1, WeightedLoop!LoopEmpty
  <2> HIDE DEF none
  <2> QED BY <2>1 DEF none
<1>4. ASSUME NEW s \in Seq(A), NEW c \in A, s \in T PROVE Append(s, c) \in T
  <2> DEFINE more == Append(s, c)
             kept == WeightedOf(s)
             w == c.weight
             h == ShareOf(n, c)
             a == Total(WeightsOf(s))
             b == Total(Share(n, s))
  <2>1. more \in Seq(A) /\ kept \in Seq(A)
    BY <1>4
  <2>2. WeightedOf(more) = IF w > 0 THEN Append(kept, c) ELSE kept
    <3>1. WeightedLoop!Loop(Nil, Nil, Nil, Nil, <<>>, more) =
            WeightedStep(Nil, Nil, Nil, Nil, WeightedLoop!Loop(Nil, Nil, Nil, Nil, <<>>, s), c)
      BY WeightedLoop!LoopAppend
    <3> QED BY <1>1, <3>1 DEF WeightedStep
  <2>3. Total(WeightsOf(kept)) = a /\ Total(Share(n, kept)) = b
    BY <1>4
  <2>4. w \in Nat /\ h \in Nat /\ (w = 0 => h = 0)
    BY <1>2 DEF ShareOf
  <2> HIDE DEF T
  <2>5. ASSUME NEW t \in Seq(A)
        PROVE  /\ Total(WeightsOf(t)) \in Nat /\ Total(Share(n, t)) \in Nat
               /\ Total(WeightsOf(Append(t, c))) = Total(WeightsOf(t)) + w
               /\ Total(Share(n, Append(t, c))) = Total(Share(n, t)) + h
    <3>1. /\ WeightsOf(t) \in Seq(Nat) /\ Share(n, t) \in Seq(Nat)
          /\ WeightsOf(Append(t, c)) = Append(WeightsOf(t), w)
          /\ Share(n, Append(t, c)) = Append(Share(n, t), h)
      <4>1. /\ WeightsOf(t) \in Seq(Nat) /\ Share(n, t) \in Seq(Nat)
            /\ \A e \in A : /\ WeightsOf(Append(t, e)) = Append(WeightsOf(t), e.weight)
                            /\ Share(n, Append(t, e)) = Append(Share(n, t), ShareOf(n, e))
                            /\ ShareOf(n, e) \in Nat
        BY <1>2, SharesSeq, Zenon
      <4> QED BY <4>1, Zenon
    <3> HIDE DEF w, h
    <3> QED BY <2>4, <3>1, TotalFacts, TotalList
  <2> HIDE DEF kept, w, h
  <2>6. a \in Nat /\ b \in Nat /\ Total(WeightsOf(more)) = a + w /\ Total(Share(n, more)) = b + h
    BY <2>5
  <2>7. /\ Total(WeightsOf(Append(kept, c))) = a + w /\ Total(Share(n, Append(kept, c))) = b + h
    BY <2>1, <2>3, <2>5
  <2> HIDE DEF more, a, b
  <2>8. CASE w > 0
    <3>1. Append(kept, c) \in Seq(A)
      BY <2>1
    <3> QED BY <2>1, <2>2, <2>6, <2>7, <2>8, <3>1 DEF T, more
  <2>9. CASE w = 0
    <3>1. WeightedOf(more) = kept /\ a + w = a /\ b + h = b
      BY <2>2, <2>4, <2>6, <2>9
    <3> QED BY <2>1, <2>3, <2>6, <3>1 DEF T, more
  <2> QED BY <2>4, <2>8, <2>9
<1> HIDE DEF T
<1>5. Seq(A) \subseteq T
  BY <1>3, <1>4, WeightedLoop!ListInduction
<1> QED BY <1>2, <1>5 DEF T

-----------------------------------------------------------------------------
(* Traffic is split as asked for: what Envoy is given *)

(* given has the clusters cs, by name. *)
NamesOf(given, cs) == DOMAIN given = DOMAIN cs /\ \A i \in DOMAIN cs : given[i].name = Clustername(cs[i])

LEMMA SplitDef ==
  ASSUME NEW asked, NEW given, Total(WeightsOf(given)) > 0,
         \A c \in Range(asked) :
           IF Total(WeightsOf(asked)) = 0 THEN Total(GivenShare(Clustername(c), given)) > 0
           ELSE Total(GivenShare(Clustername(c), given)) * Total(WeightsOf(asked)) =
                  Total(Share(Clustername(c), asked)) * Total(WeightsOf(given))
  PROVE  SplitAsAsked(asked, given)
BY Zenon DEF SplitAsAsked, GivenShare, Share

(* If each cluster in use has the weight that is asked for it, and those    *)
(* that are not in use have none, traffic is split as asked for.            *)
LEMMA SplitByWeight ==
  ASSUME NEW asked, Weighed(asked), NEW used, NEW given, NamesOf(given, used),
         \A i \in DOMAIN used : given[i].weight = used[i].weight,
         Total(WeightsOf(used)) = Total(WeightsOf(asked)),
         \A n : Total(Share(n, used)) = Total(Share(n, asked)),
         Total(WeightsOf(asked)) > 0
  PROVE  SplitAsAsked(asked, given) /\ Total(WeightsOf(given)) = Total(WeightsOf(asked))
<1>1. WeightsOf(given) = WeightsOf(used)
  BY DEF WeightsOf, NamesOf
<1>2. \A n : GivenShare(n, given) = Share(n, used)
  BY DEF GivenShare, Share, NamesOf
<1>3. Total(WeightsOf(asked)) # 0
  <2>1. Total(WeightsOf(asked)) \in Nat
    BY SharesSeq, TotalFacts DEF Weighed, IsSeq
  <2> QED BY <2>1
<1>4. \A c \in Range(asked) :
        Total(GivenShare(Clustername(c), given)) * Total(WeightsOf(asked)) =
          Total(Share(Clustername(c), asked)) * Total(WeightsOf(given))
  BY <1>1, <1>2, Zenon
<1> QED BY <1>1, <1>3, <1>4, SplitDef, Zenon

(* If no weight is asked for, all have the same. *)
LEMMA SplitEvenly ==
  ASSUME NEW asked, Weighed(asked), asked # <<>>, NEW given, NamesOf(given, asked),
         \A i \in DOMAIN asked : given[i].weight = 1,
         Total(WeightsOf(asked)) = 0
  PROVE  SplitAsAsked(asked, given) /\ Total(WeightsOf(given)) = Len(asked)
<1>1. asked \in Seq(Range(asked)) /\ DOMAIN asked = 1..Len(asked) /\ Len(asked) \in Nat /\ Len(asked) > 0
  BY DEF Weighed, IsSeq
<1> DEFINE ws == WeightsOf(given)
<1>2. ws \in [1..Len(asked) -> Nat] /\ \A i \in DOMAIN asked : ws[i] = 1
  BY <1>1 DEF WeightsOf, NamesOf
<1> HIDE DEF ws
<1>3. ws \in Seq(Nat) /\ Len(ws) = Len(asked) /\ DOMAIN ws = DOMAIN asked
  BY <1>1, <1>2
<1>4. Total(ws) = Len(asked)
  BY <1>2, <1>3, TotalOnes
<1>5. ASSUME NEW c \in Range(asked) PROVE Total(GivenShare(Clustername(c), given)) > 0
  <2> DEFINE n == Clustername(c)
             share == GivenShare(n, given)
  <2>1. PICK i \in DOMAIN asked : asked[i] = c
    BY DEF Range
  <2>2. share \in [1..Len(asked) -> Nat] /\ share[i] = 1
    BY <1>1, <2>1 DEF GivenShare, NamesOf
  <2> HIDE DEF share
  <2>3. share \in Seq(Nat) /\ i \in DOMAIN share
    BY <1>1, <2>1, <2>2
  <2>4. Total(share) \in Nat /\ share[i] <= Total(share)
    BY <2>3, TotalFacts
  <2> QED BY <2>2, <2>4 DEF share
<1> QED BY <1>1, <1>4, <1>5, SplitDef DEF ws

LEMMA OnePlace ==
  ASSUME NEW ws \in [{1} -> Nat]
  PROVE  ws \in Seq(Nat) /\ Len(ws) = 1
<1> DEFINE n == 1
<1>1. {1} = 1..n /\ n \in Nat
  OBVIOUS
<1>2. ws \in [1..n -> Nat]
  BY <1>1
<1>3. n = 1
  OBVIOUS
<1> HIDE DEF n
<1>4. ws \in Seq(Nat) /\ Len(ws) = n
  BY <1>1, <1>2
<1> QED BY <1>3, <1>4

(* If one cluster only is in use, it has everything. *)
LEMMA SplitToOne ==
  ASSUME NEW asked, Weighed(asked), NEW used, Weighed(used), Len(used) = 1, NEW given, NamesOf(given, used),
         given[1].weight = 1,
         Total(WeightsOf(used)) = Total(WeightsOf(asked)),
         \A n : Total(Share(n, used)) = Total(Share(n, asked)),
         Total(WeightsOf(asked)) = 0 => used = asked
  PROVE  SplitAsAsked(asked, given) /\ Total(WeightsOf(given)) = 1
<1> DEFINE u == used[1]
           w == u.weight
<1>1. used \in Seq(Range(used)) /\ DOMAIN used = {1} /\ u \in Range(used) /\ w \in Nat
  BY DEF Weighed, IsSeq, Range
<1>2. Total(WeightsOf(used)) = w
  <2>1. WeightsOf(used) \in Seq(Nat)
    BY <1>1, SharesSeq DEF Weighed
  <2>2. Len(WeightsOf(used)) = 1 /\ WeightsOf(used)[1] = w
    BY <1>1, <2>1 DEF WeightsOf
  <2> QED BY <2>1, <2>2, TotalOne
<1>3. ASSUME NEW n PROVE Total(Share(n, used)) = IF Clustername(u) = n THEN w ELSE 0
  <2>1. Share(n, used) \in Seq(Nat)
    BY <1>1, SharesSeq DEF Weighed
  <2>2. Len(Share(n, used)) = 1 /\ Share(n, used)[1] = IF Clustername(u) = n THEN w ELSE 0
    BY <1>1, <2>1 DEF Share
  <2> QED BY <2>1, <2>2, TotalOne
<1>4. DOMAIN given = {1} /\ given[1].name = Clustername(u)
  BY <1>1 DEF NamesOf
<1>5. Total(WeightsOf(given)) = 1
  <2> DEFINE ws == WeightsOf(given)
  <2>1. ws \in [{1} -> Nat] /\ ws[1] = 1
    BY <1>4 DEF WeightsOf
  <2> HIDE DEF ws
  <2>2. ws \in Seq(Nat) /\ Len(ws) = 1
    BY <2>1, OnePlace
  <2> QED BY <2>1, <2>2, TotalOne DEF ws
<1>6. ASSUME NEW n PROVE Total(GivenShare(n, given)) = IF Clustername(u) = n THEN 1 ELSE 0
  <2> DEFINE ws == GivenShare(n, given)
  <2>1. ws \in [{1} -> Nat] /\ ws[1] = IF Clustername(u) = n THEN 1 ELSE 0
    BY <1>4 DEF GivenShare
  <2> HIDE DEF ws
  <2>2. ws \in Seq(Nat) /\ Len(ws) = 1
    BY <2>1, OnePlace
  <2> QED BY <2>1, <2>2, TotalOne DEF ws
<1>7. ASSUME NEW c \in Range(asked)
      PROVE  IF Total(WeightsOf(asked)) = 0 THEN Total(GivenShare(Clustername(c), given)) > 0
             ELSE Total(GivenShare(Clustername(c), given)) * Total(WeightsOf(asked)) =
                    Total(Share(Clustername(c), asked)) * Total(WeightsOf(given))
  <2> DEFINE n == Clustername(c)
             all == Total(WeightsOf(asked))
  <2>1. all = w /\ Total(Share(n, asked)) = IF Clustername(u) = n THEN w ELSE 0
    BY <1>2, <1>3
  <2>2. all = 0 => c = u
    <3> SUFFICES ASSUME all = 0 PROVE c = u
      OBVIOUS
    <3>1. used = asked
      OBVIOUS
    <3> QED BY <1>1, <3>1 DEF Range
  <2>3. Total(GivenShare(n, given)) = IF Clustername(u) = n THEN 1 ELSE 0
    BY <1>6
  <2> HIDE DEF u, w, n, all
  <2>4. all = 0 => Total(GivenShare(n, given)) > 0
    BY <2>2, <2>3 DEF n
  <2>5. Total(GivenShare(n, given)) * all = Total(Share(n, asked)) * Total(WeightsOf(given))
    BY <1>1, <1>5, <2>1, <2>3
  <2> QED BY <2>4, <2>5 DEF n, all
<1> QED BY <1>5, <1>7, SplitDef

(* The clusters of a route. *)
LEMMA RouteSplit ==
  ASSUME NEW route, Weighed(route.clusters), route.clusters # <<>>, Fits(route.clusters)
  PROVE  LET split == RouteRoute(route, Word).clusters
         IN  /\ SplitAsAsked(route.clusters, split.clusters)
             /\ split.total = Total(WeightsOf(split.clusters))
<1> DEFINE cs == route.clusters
           all == Total(WeightsOf(cs))
           single == <<[name |-> Clustername(cs[1]), weight |-> 1]>>
           one == [clusters |-> single, total |-> 1]
           WeightIn(c) == IF Wrapped(cs) = 0 THEN 1 ELSE c.weight
           given == [i \in DOMAIN cs |-> [name |-> Clustername(cs[i]), weight |-> WeightIn(cs[i])]]
           sum == IF Wrapped(cs) = 0 THEN Len(cs) ELSE Wrapped(cs)
           many == [clusters |-> given, total |-> sum]
           split == RouteRoute(route, Word).clusters
<1>1. split = IF SingleSimpleCluster(route) THEN one ELSE many
  <2> DEFINE mirror == IF route.mirror = Nil THEN Nil ELSE Clustername(route.mirror)
             policies == route.policies
             rewrite == route.rewrite
             websocket == route.websocket
             clusters == IF SingleSimpleCluster(route) THEN one ELSE many
             action == [clusters |-> clusters, mirror |-> mirror, policies |-> policies, rewrite |-> rewrite,
                        websocket |-> websocket]
  <2>1. RouteRoute(route, Word) = action
    BY Zenon DEF RouteRoute, WeightedClusters, Wrapped
  <2> HIDE DEF clusters, mirror, policies, rewrite, websocket
  <2>2. action.clusters = clusters
    OBVIOUS
  <2> QED BY <2>1, <2>2, Zenon DEF clusters
<1>2. all \in Nat /\ Wrapped(cs) = all
  <2>1. all \in Nat
    BY SharesSeq, TotalFacts DEF Weighed, IsSeq
  <2> QED BY <2>1, WrappedTotal
<1>3. CASE SingleSimpleCluster(route)
  <2>1. Len(cs) = 1
    BY <1>3 DEF SingleSimpleCluster
  <2>2. DOMAIN cs = {1}
    BY <2>1 DEF Weighed, IsSeq
  <2>3. NamesOf(single, cs) /\ single[1].weight = 1
    BY <2>2 DEF NamesOf
  <2>4. one.clusters = single /\ one.total = 1
    OBVIOUS
  <2> HIDE DEF single, one, many, cs, split
  <2>5. SplitAsAsked(cs, single) /\ Total(WeightsOf(single)) = 1
    BY <2>1, <2>3, SplitToOne DEF cs
  <2> QED BY <1>1, <1>3, <2>4, <2>5 DEF cs, split
<1>4. CASE ~SingleSimpleCluster(route)
  <2>1. NamesOf(given, cs) /\ \A i \in DOMAIN cs : given[i].weight = WeightIn(cs[i])
    BY DEF NamesOf
  <2>2. many.clusters = given /\ many.total = sum
    <3> HIDE DEF given, sum
    <3> QED OBVIOUS
  <2> HIDE DEF given, one, many, split, single, cs
  <2>3. SplitAsAsked(cs, given) /\ sum = Total(WeightsOf(given))
    <3>1. CASE all = 0
      BY <1>2, <2>1, <3>1, SplitEvenly DEF cs
    <3>2. CASE all > 0
      BY <1>2, <2>1, <3>2, SplitByWeight DEF cs
    <3> QED BY <1>2, <3>1, <3>2
  <2> QED BY <1>1, <1>4, <2>2, <2>3 DEF cs, split
<1> QED BY <1>3, <1>4

(* The clusters of a TCP proxy. *)
LEMMA TCPSplit ==
  ASSUME NEW cs, Weighed(cs), TCPProxyFilter(cs, Word) # <<>>
  PROVE  LET given == TCPProxyFilter(cs, Word)
         IN  /\ Fits(cs) => SplitAsAsked(cs, given)
             /\ \A c \in Range(given) : c.weight > 0
<1> DEFINE kept == WeightedOf(cs)
           used == IF Wrapped(kept) = 0 THEN cs ELSE kept
           WeightIn(c) == IF Len(used) = 1 \/ c.weight = 0 THEN 1 ELSE c.weight
           given == [i \in DOMAIN used |-> [name |-> Clustername(used[i]), weight |-> WeightIn(used[i])]]
           all == Total(WeightsOf(cs))
<1>1. TCPProxyFilter(cs, Word) = given
  BY Zenon DEF TCPProxyFilter, WeightedOf, Wrapped
<1>2. IsSeq(kept) /\ \A c \in Range(kept) : c \in Range(cs) /\ c.weight > 0
  BY WeightedFacts DEF Weighed
<1>3. /\ Total(WeightsOf(kept)) = all /\ \A n : Total(Share(n, kept)) = Total(Share(n, cs))
  BY WeightedTotals
<1>4. all \in Nat
  BY SharesSeq, TotalFacts DEF Weighed, IsSeq
<1> HIDE DEF kept, all
<1>5. Weighed(kept) /\ Weighed(used) /\ \A i \in DOMAIN used : used[i] \in Range(cs) /\ used[i].weight \in Nat
  BY <1>2 DEF Weighed, Range
<1>6. NamesOf(given, used) /\ \A i \in DOMAIN used : given[i].weight = WeightIn(used[i])
  <2> HIDE DEF used
  <2> QED BY DEF NamesOf
<1> HIDE DEF given
<1>7. \A c \in Range(given) : c.weight > 0
  <2>1. \A i \in DOMAIN used : WeightIn(used[i]) > 0
    <3> HIDE DEF used
    <3> QED BY <1>5
  <2> HIDE DEF used
  <2> QED BY <1>6, <2>1 DEF NamesOf, Range
<1>8. ASSUME Fits(cs) PROVE SplitAsAsked(cs, given)
  <2>1. Wrapped(kept) = all
    <3>1. Fits(kept)
      BY <1>3, <1>8 DEF Fits, all
    <3> QED BY <1>3, <1>5, <3>1, WrappedTotal
  <2>2. CASE all = 0
    <3>1. used = cs
      BY <2>1, <2>2
    <3>2. \A i \in DOMAIN cs : cs[i].weight = 0
      <4>1. WeightsOf(cs) \in Seq(Nat)
        BY SharesSeq DEF Weighed, IsSeq
      <4>2. \A i \in DOMAIN WeightsOf(cs) : WeightsOf(cs)[i] <= 0
        BY <2>2, <4>1, TotalFacts DEF all
      <4>3. \A i \in DOMAIN cs : cs[i].weight <= 0 /\ cs[i].weight \in Nat
        BY <4>2 DEF WeightsOf, Weighed, Range
      <4> QED BY <4>3
    <3>3. \A i \in DOMAIN cs : given[i].weight = 1
      BY <1>6, <3>1, <3>2
    <3>4. cs # <<>>
      <4> SUFFICES ASSUME cs = <<>> PROVE FALSE
        OBVIOUS
      <4>1. DOMAIN given = {}
        BY <1>6, <3>1 DEF NamesOf
      <4>2. given = <<>>
        BY <1>1, <3>1, <4>1 DEF given
      <4> QED BY <1>1, <4>2
    <3> QED BY <1>6, <2>2, <3>1, <3>3, <3>4, SplitEvenly DEF all
  <2>3. CASE all > 0
    <3>1. used = kept
      BY <2>1, <2>3
    <3>2. CASE Len(used) = 1
      <4>1. 1 \in DOMAIN used
        BY <1>5, <3>2 DEF Weighed, IsSeq
      <4>2. given[1].weight = 1
        BY <1>6, <3>2, <4>1
      <4> HIDE DEF used
      <4> QED BY <1>3, <1>5, <1>6, <2>3, <3>1, <3>2, <4>2, SplitToOne DEF all
    <3>3. CASE Len(used) # 1
      <4>1. \A i \in DOMAIN used : used[i].weight > 0
        BY <1>2, <3>1 DEF Range
      <4>2. \A i \in DOMAIN used : given[i].weight = used[i].weight
        BY <1>6, <3>3, <4>1
      <4> HIDE DEF used
      <4> QED BY <1>3, <1>6, <2>3, <3>1, <4>2, SplitByWeight DEF all
    <3> QED BY <3>2, <3>3
  <2> QED BY <1>4, <2>2, <2>3
<1> QED BY <1>1, <1>7, <1>8

LEMMA BuildInvWeights == BuildInv => WeightsServed
<1> SUFFICES ASSUME BuildInv, End PROVE WeightsServed
  BY DEF WeightsServed
<1>1. DAGGranted(dag)
  BY DEF BuildInv, ObjectsSound
<1>2. ASSUME NEW x \in Served, x.kind = "route", Fits(x.route.clusters)
      PROVE  /\ SplitAsAsked(x.route.clusters, x.action.clusters.clusters)
             /\ x.action.clusters.total = Total(WeightsOf(x.action.clusters.clusters))
  <2>1. ServedFrom(DAGRoutes(dag), TRUE, x)
    BY ServedRoutes
  <2>2. x.action = RouteRoute(x.route, Word) /\ x.route.direct = Nil /\ ~x.route.redirect
    BY <1>2, <2>1 DEF ServedFrom, Forwarded
  <2>3. PICK r \in DAGRoutes(dag) : SameRoute(x.route, r)
    BY <2>1 DEF ServedFrom
  <2>4. RouteGranted(r)
    BY <1>1, DAGRoutesGranted
  <2>5. Weighed(x.route.clusters) /\ x.route.clusters # <<>>
    BY <2>2, <2>3, <2>4 DEF SameRoute, RouteGranted, Answered
  <2> QED BY <1>2, <2>2, <2>5, RouteSplit
<1>3. ASSUME NEW ch \in FilterChains, ch.tcp # <<>>, ch.match # Nil
      PROVE  LET tcp == dag.SecureVirtualHosts[ch.match].TCP
             IN  /\ Fits(tcp) => SplitAsAsked(tcp, ch.tcp)
                 /\ \A c \in Range(ch.tcp) : c.weight > 0
  <2> DEFINE cfg == config.listener
  <2>1. PICK h \in SecureListenerHosts(dag) :
             \/ ch = FilterChainTLS(cfg, h, dag.SecureVirtualHosts[h], Word)
             \/ ch = FilterChainTLSFallback(cfg, dag.SecureVirtualHosts[h]) /\ dag.SecureVirtualHosts[h].Fallback # Nil
    BY ChainsOfHosts, Zenon
  <2> DEFINE v == dag.SecureVirtualHosts[h]
  <2> HIDE DEF cfg
  <2>2. CASE ch = FilterChainTLS(cfg, h, v, Word)
    <3>1. ChainOf(cfg, h, v, ch)
      BY <2>2, ChainFields, Zenon
    <3>2. v.TCP # Nil /\ ch.tcp = TCPProxyFilter(v.TCP, Word) /\ ch.match = h
      BY <1>3, <3>1, Zenon DEF ChainOf
    <3>3. Weighed(v.TCP)
      BY <1>1, <3>2 DEF DAGGranted, SecureGranted, SecureListenerHosts
    <3> QED BY <1>3, <3>2, <3>3, TCPSplit
  <2>3. CASE ch = FilterChainTLSFallback(cfg, v)
    <3>1. FallbackChainOf(cfg, v, ch)
      BY <2>3, FallbackFields, Zenon
    <3> QED BY <1>3, <3>1, Zenon DEF FallbackChainOf
  <2> QED BY <2>1, <2>2, <2>3
<1> QED BY <1>2, <1>3 DEF WeightsServed

(* Whatever objects there are and in whatever order they are gone through:  *)
(* of the traffic of a route or of a TCP proxy each cluster has the part    *)
(* that its weight is of the sum of the weights, all have some if no weight *)
(* is asked for, and the total that Envoy is told is that sum, as long as   *)
(* it fits a word (weightedClusters, TCPProxy).                             *)
THEOREM WeightsAlwaysServed == BuildSpec => []WeightsServed
BY BuildInvHolds, BuildInvWeights, PTL
=============================================================================
