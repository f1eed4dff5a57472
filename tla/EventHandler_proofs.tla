------------------------- MODULE EventHandler_proofs ------------------------
(***************************************************************************)
(* Proofs about when a rebuild comes. The cache asks for one whenever the    *)
(* DAG would come out differently (RebuildRequested), for any namespaces and *)
(* any kinds of objects but the two that serviceTriggersRebuild ignores, and *)
(* as long as no reference spells out the referrer's own namespace. The      *)
(* hold-off of EventHandler forgets none and delays none for too long, for   *)
(* every pair of delays, any number of events and any set of objects.        *)
(***************************************************************************)
EXTENDS EventHandler, KubernetesCache, TLAPS

-----------------------------------------------------------------------------
(* The hold-off *)

(* The types of what the hold-off works on. *)
HoldoffTypeOK ==
  /\ pc \in {"select", "send"}
  /\ changes \in Nat /\ built \in Nat
  /\ outstanding \in Nat
  /\ timer \in {Off} \union 0..HoldoffDelay
  /\ since \in 0..HoldoffMaxDelay + 1
  /\ age \in Nat

(* What the loop knows about its local variables. While an event waits the  *)
(* timer runs, and what is left of it fits into the bound: an event is no   *)
(* older than the last rebuild when it sets the timer for a full delay.     *)
HoldoffInv ==
  /\ pc = "send" => outstanding = 0 /\ built = changes
  /\ outstanding = 0 => built = changes /\ age = 0 /\ timer = Off
  /\ outstanding > 0 =>
       /\ timer # Off
       /\ since <= HoldoffMaxDelay => age <= since
       /\ age + timer <= HoldoffMaxDelay + HoldoffDelay

(* The announcement of a new leader counts as an event without a change.    *)
IInv == HoldoffTypeOK /\ HoldoffInv

-----------------------------------------------------------------------------
LEMMA InitIInv == Init => IInv
  BY HandlerAssumption DEF Init, IInv, HoldoffTypeOK, HoldoffInv, Off

(* The event that calls for a rebuild. *)
LEMMA SchedulePreserves ==
  ASSUME IInv, pc = "select", Schedule, UNCHANGED <<pc, built>>,
         changes' \in Nat
  PROVE  IInv'
<1>1. HoldoffTypeOK'
  BY HandlerAssumption DEF IInv, HoldoffTypeOK, Schedule
<1>2. HoldoffInv'
  BY HandlerAssumption DEF IInv, HoldoffTypeOK, HoldoffInv, Schedule, Off
<1> QED BY <1>1, <1>2 DEF IInv

LEMMA NextIInv == IInv /\ [Next]_vars => IInv'
<1> SUFFICES ASSUME IInv, [Next]_vars PROVE IInv'
  OBVIOUS
<1> DEFINE hvars == <<pc, changes, built, outstanding, timer, since, age>>
<1>1. ASSUME UNCHANGED hvars PROVE IInv'
  BY <1>1 DEF IInv, HoldoffTypeOK, HoldoffInv
<1>2. ASSUME Tick PROVE IInv'
  BY <1>2, HandlerAssumption DEF Tick, IInv, HoldoffTypeOK, HoldoffInv, Off, Oldest
<1>3. ASSUME NEW rebuild \in BOOLEAN, Accept(rebuild) PROVE IInv'
  <2>1. CASE rebuild
    BY <1>3, <2>1, SchedulePreserves DEF Accept, IInv, HoldoffTypeOK
  <2>2. CASE ~rebuild
    BY <1>3, <2>2, <1>1 DEF Accept, timeVars
  <2> QED BY <2>1, <2>2
<1>4. ASSUME AcceptLeader PROVE IInv'
  BY <1>4, SchedulePreserves DEF AcceptLeader, IInv, HoldoffTypeOK
<1>5. ASSUME Rebuild PROVE IInv'
  BY <1>5 DEF Rebuild, IInv, HoldoffTypeOK, HoldoffInv, Off
<1>6. ASSUME Rebuilt PROVE IInv'
  BY <1>6, HandlerAssumption DEF Rebuilt, IInv, HoldoffTypeOK, HoldoffInv
<1>7. ASSUME NEW o \in Objects, Send(o) PROVE IInv'
  BY <1>7, <1>1 DEF Send, timeVars
<1>8. ASSUME Offer \/ Elect \/ Apply \/ ApplyFails PROVE IInv'
  BY <1>8, <1>1 DEF Offer, Elect, Apply, ApplyFails, timeVars
<1>9. CASE UNCHANGED vars
  BY <1>9, <1>1 DEF vars
<1> QED BY <1>2, <1>3, <1>4, <1>5, <1>6, <1>7, <1>8, <1>9 DEF Next, Handler

LEMMA SpecIInv == Spec => []IInv
  BY InitIInv, NextIInv, PTL DEF Spec

(* Batching never forgets a change. *)
THEOREM NoneForgottenAlways == Spec => []NoneForgotten
<1>1. IInv => NoneForgotten
  BY DEF IInv, HoldoffTypeOK, HoldoffInv, NoneForgotten
<1> QED BY SpecIInv, <1>1, PTL

(* No event waits longer than the two delays together. *)
THEOREM HoldoffBoundedAlways == Spec => []HoldoffBounded
<1>1. IInv => HoldoffBounded
  BY HandlerAssumption DEF IInv, HoldoffTypeOK, HoldoffInv, HoldoffBounded, Oldest, Off
<1> QED BY SpecIInv, <1>1, PTL

-----------------------------------------------------------------------------
(* The cache of objects *)

(* The references in the cache are as the API server delivers them. *)
RefsOK ==
  \A n \in Namespaces :
    /\ \A kind \in Kinds \cap Hosts :
         Has(kind, n) => Get(kind, n).cert \in SecretRefs(n)
    /\ Has("gateway", n) => Get("gateway", n).cert \in Namespaces

LEMMA HostSpecs ==
  ASSUME NEW kind \in Hosts, NEW ns \in Namespaces, NEW spec \in Specs(kind, ns)
  PROVE  spec.cert \in SecretRefs(ns)
<1>1. CASE kind = "ingress"
  <2>1. spec \in [matches : BOOLEAN, backend : {Own}, cert : SecretRefs(ns)]
    BY <1>1 DEF Specs, SpecsByKind
  <2> QED BY <2>1
<1>2. CASE kind = "httpproxy"
  <2>1. spec \in [matches : BOOLEAN, backend : {Own}, cert : SecretRefs(ns)]
    BY <1>2 DEF Specs, SpecsByKind
  <2> QED BY <2>1
<1> QED BY <1>1, <1>2 DEF Hosts

LEMMA GatewaySpecs ==
  ASSUME NEW ns \in Namespaces, NEW spec \in Specs("gateway", ns)
  PROVE  spec.cert \in Namespaces
<1>1. spec \in [cert : IF "secret" \in Kinds THEN Namespaces ELSE {ns}]
  BY DEF Specs, SpecsByKind
<1> QED BY <1>1

(* Every step leaves each object as it is, deletes it, or stores the object  *)
(* the event is about.                                                       *)
LEMMA EachObject ==
  ASSUME CacheNext, NEW k \in Keys, objects'[k] # objects[k]
  PROVE  objects'[k] = Absent \/ objects'[k] \in Specs(k[1], k[2])
<1>1. PICK kind \in Kinds, ns \in Namespaces :
        \/ \E spec \in Specs(kind, ns) : OnAdd(kind, ns, spec) \/ OnUpdate(kind, ns, spec)
        \/ OnDelete(kind, ns)
  BY DEF CacheNext, Build
<1>2. CASE OnDelete(kind, ns)
  BY <1>2 DEF OnDelete, Removed
<1>3. ASSUME NEW spec \in Specs(kind, ns), OnAdd(kind, ns, spec) \/ OnUpdate(kind, ns, spec)
      PROVE  objects'[k] = Absent \/ objects'[k] \in Specs(k[1], k[2])
  <2>1. k = <<kind, ns>> => k[1] = kind /\ k[2] = ns
    OBVIOUS
  <2>2. \/ objects' = objects
        \/ objects' = Inserted(objects, kind, ns, spec)
        \/ objects' = Inserted(Removed(objects, kind, ns), kind, ns, spec)
    BY <1>3 DEF OnAdd, OnUpdate
  <2> QED BY <2>1, <2>2 DEF Inserted, Stored, Removed
<1> QED BY <1>1, <1>2, <1>3

LEMMA RefsOKStep == RefsOK /\ [CacheNext]_cacheVars => RefsOK'
<1> SUFFICES ASSUME RefsOK, [CacheNext]_cacheVars PROVE RefsOK'
  OBVIOUS
<1>1. CASE UNCHANGED cacheVars
  BY <1>1 DEF RefsOK, cacheVars, Has, Get
<1>2. CASE CacheNext
  <2>1. ASSUME NEW n \in Namespaces, NEW kind \in Kinds \cap Hosts, Has(kind, n)'
        PROVE  Get(kind, n)'.cert \in SecretRefs(n)
    <3> DEFINE k == <<kind, n>>
    <3>1. k \in Keys /\ k[1] = kind /\ k[2] = n /\ kind \in Hosts
      BY DEF Keys
    <3>2. CASE objects'[k] = objects[k]
      BY <2>1, <3>1, <3>2 DEF RefsOK, Has, Get
    <3>3. CASE objects'[k] # objects[k]
      <4>1. objects'[k] \in Specs(kind, n)
        BY <1>2, <2>1, <3>1, <3>3, EachObject DEF Has
      <4> QED BY <4>1, <3>1, HostSpecs DEF Get
    <3> QED BY <3>2, <3>3
  <2>2. ASSUME NEW n \in Namespaces, Has("gateway", n)'
        PROVE  Get("gateway", n)'.cert \in Namespaces
    <3> DEFINE k == <<"gateway", n>>
    <3>1. k \in Keys /\ k[1] = "gateway" /\ k[2] = n
      BY <2>2 DEF Has
    <3>2. CASE objects'[k] = objects[k]
      BY <2>2, <3>1, <3>2 DEF RefsOK, Has, Get
    <3>3. CASE objects'[k] # objects[k]
      <4>1. objects'[k] \in Specs("gateway", n)
        BY <1>2, <2>2, <3>1, <3>3, EachObject DEF Has
      <4> QED BY <4>1, GatewaySpecs DEF Get
    <3> QED BY <3>2, <3>3
  <2> QED BY <2>1, <2>2 DEF RefsOK
<1> QED BY <1>1, <1>2

-----------------------------------------------------------------------------
(* A Service or Secret decides nothing about which others are in use. *)
LEMMA UsersSame ==
  ASSUME \A k \in Keys : k[1] \notin {"service", "secret"} => objects'[k] = objects[k]
  PROVE  /\ \A t \in Namespaces : ServiceInUse(t)' <=> ServiceInUse(t)
         /\ \A t \in Namespaces : CertificateInUse(t)' <=> CertificateInUse(t)
<1>1. \A kind \in AllKinds \ {"service", "secret"}, n \in Namespaces :
        /\ Has(kind, n)' <=> Has(kind, n)
        /\ Has(kind, n) => Get(kind, n)' = Get(kind, n)
  <2> SUFFICES ASSUME NEW kind \in AllKinds \ {"service", "secret"}, NEW n \in Namespaces
               PROVE  /\ Has(kind, n)' <=> Has(kind, n)
                      /\ Has(kind, n) => Get(kind, n)' = Get(kind, n)
    OBVIOUS
  <2>1. <<kind, n>>[1] = kind
    OBVIOUS
  <2> QED BY <2>1 DEF Has, Get
<1>2. GatewayFound' <=> GatewayFound
  BY <1>1 DEF GatewayFound, Single, AllKinds, Reconciled
<1>3. \A kind \in AllKinds, n, t \in Namespaces :
        PolicyPermitted(kind, n, t)' <=> PolicyPermitted(kind, n, t)
  BY <1>1 DEF PolicyPermitted, AllKinds
<1>4. \A n, t \in Namespaces : DelegationPermitted(t, n)' <=> DelegationPermitted(t, n)
  BY <1>1 DEF DelegationPermitted, AllKinds
<1>5. \A t \in Namespaces : ServiceInUse(t)' <=> ServiceInUse(t)
  <2>1. Kinds \cap (Backends \union Routes) \subseteq AllKinds \ {"service", "secret"}
    BY DEF AllKinds, Backends, Reconciled, Routes
  <2>2. \A kind \in Kinds \cap (Backends \union Routes), n, t \in Namespaces :
          (kind \in Routes => GatewayFound /\ PolicyPermitted(kind, n, t))'
            <=> (kind \in Routes => GatewayFound /\ PolicyPermitted(kind, n, t))
    BY <1>2, <1>3, <2>1
  <2> QED BY <1>1, <2>1, <2>2 DEF ServiceInUse
<1>6. \A t \in Namespaces : CertificateInUse(t)' <=> CertificateInUse(t)
  <2>1. Kinds \cap (Hosts \union {"gateway"}) \subseteq AllKinds \ {"service", "secret"}
    BY DEF AllKinds, Hosts, Backends, Reconciled, Single
  <2> QED BY <1>1, <1>2, <1>3, <1>4, <2>1 DEF CertificateInUse, Target
<1> QED BY <1>5, <1>6

(* The DAG is built from the same things if the only objects that differ are *)
(* Services and Secrets that were not used and are not.                      *)
LEMMA UnusedChanges ==
  ASSUME \A k \in Keys : objects'[k] # objects[k] =>
           k[1] \in {"service", "secret"} /\ k \notin UsedKeys /\ k \notin UsedKeys'
  PROVE  View' = View
<1>1. /\ \A t \in Namespaces : ServiceInUse(t)' <=> ServiceInUse(t)
      /\ \A t \in Namespaces : CertificateInUse(t)' <=> CertificateInUse(t)
  BY UsersSame
<1>2. ASSUME NEW k \in Keys, objects'[k] = objects[k]
      PROVE  k \in UsedKeys' <=> k \in UsedKeys
  <2>1. k[2] \in Namespaces /\ k = <<k[1], k[2]>>
    BY DEF Keys
  <2>2. k[1] = "secret" => (SecretInUse(k[2])' <=> SecretInUse(k[2]))
    BY <1>1, <1>2, <2>1 DEF SecretInUse, Get
  <2> QED BY <1>1, <1>2, <2>1, <2>2 DEF UsedKeys
<1>3. UsedKeys' = UsedKeys
  BY <1>2 DEF UsedKeys
<1>4. \A k \in UsedKeys : objects'[k] = objects[k]
  BY <1>3 DEF UsedKeys
<1> QED BY <1>3, <1>4 DEF View

-----------------------------------------------------------------------------
(* What the processors use, the cache sees. *)
LEMMA UsedServicesTrigger ==
  ASSUME Kinds \cap {"tlsroute", "extension"} = {},
         NEW t \in Namespaces, ServiceInUse(t)'
  PROVE  ServiceTriggersRebuild(t)'
<1>1. Kinds \cap (Backends \union Routes) \subseteq Kinds \cap {"ingress", "httpproxy", "httproute"}
  BY DEF Backends, Routes
<1> QED BY <1>1 DEF ServiceInUse, ServiceTriggersRebuild

LEMMA UsedSecretsTrigger ==
  ASSUME ~OwnQualified, RefsOK', NEW t \in Namespaces, SecretInUse(t)'
  PROVE  SecretTriggersRebuild(t)'
<1>1. CASE Get("secret", t)'.type = "ca" \/ t \in ConfiguredSecretRefs
  BY <1>1 DEF SecretTriggersRebuild
<1>2. CASE CertificateInUse(t)'
  <2>1. PICK kind \in Kinds \cap (Hosts \union {"gateway"}), n \in Namespaces :
          /\ Has(kind, n)'
          /\ t = Target(Get(kind, n)'.cert, n)
          /\ kind # "gateway" => DelegationPermitted(t, n)'
    BY <1>2 DEF CertificateInUse
  <2>2. CASE kind = "gateway"
    <3>1. Get("gateway", n)'.cert \in Namespaces
      BY <2>1, <2>2 DEF RefsOK
    <3>2. Get("gateway", n)'.cert = t
      BY <2>1, <2>2, <3>1, CacheAssumption DEF Target
    <3> QED BY <2>1, <2>2, <3>2 DEF SecretTriggersRebuild
  <2>3. CASE kind # "gateway"
    <3>1. kind \in Kinds \cap Hosts
      BY <2>3
    <3>2. CASE Get(kind, n)'.cert = Own
      BY <2>1, <3>1, <3>2 DEF Target, SecretTriggersRebuild
    <3>3. CASE Get(kind, n)'.cert # Own
      <4>1. Get(kind, n)'.cert = t
        BY <2>1, <3>3 DEF Target
      <4>2. Get(kind, n)'.cert \in SecretRefs(n)
        BY <2>1, <3>1 DEF RefsOK
      <4>3. t # n
        BY <3>3, <4>1, <4>2 DEF SecretRefs
      <4>4. /\ Has("delegation", t)'
            /\ \/ n \in Get("delegation", t)'.targets
               \/ Get("delegation", t)'.targets = {Anywhere}
        BY <2>1, <2>3, <4>3 DEF DelegationPermitted
      <4>5. {n, Anywhere} \cap DelegatedTo' # {}
        BY <4>4 DEF DelegatedTo
      <4> QED BY <2>1, <3>1, <4>1, <4>5 DEF SecretTriggersRebuild
    <3> QED BY <3>2, <3>3
  <2> QED BY <2>2, <2>3
<1> QED BY <1>1, <1>2 DEF SecretInUse

(* The cache holds exactly the objects it accepts. *)
THEOREM CacheMirrors == CacheSpec => []CacheMirrorsWorld
<1>1. CacheInit => CacheMirrorsWorld
  BY DEF CacheInit, CacheMirrorsWorld
<1>2. CacheMirrorsWorld /\ [CacheNext]_cacheVars => CacheMirrorsWorld'
  <2> SUFFICES ASSUME CacheMirrorsWorld, [CacheNext]_cacheVars, NEW key \in Keys
               PROVE  objects'[key] = IF world'[key] # Absent /\ Accepts(key[1], key[2], world'[key])
                                      THEN world'[key] ELSE Absent
    BY DEF CacheMirrorsWorld
  <2>1. objects[key] = IF world[key] # Absent /\ Accepts(key[1], key[2], world[key])
                       THEN world[key] ELSE Absent
    BY DEF CacheMirrorsWorld
  <2>2. CASE UNCHANGED cacheVars
    BY <2>1, <2>2 DEF cacheVars
  <2>3. CASE Build
    BY <2>1, <2>3 DEF Build
  <2>4. key = <<key[1], key[2]>>
    BY DEF Keys
  <2>5. \A kind \in Reconciled : \A ns, spec : Accepts(kind, ns, spec)
    BY DEF Accepts, Reconciled, Routes, Single, Hosts
  <2>6. ASSUME NEW kind \in Kinds, NEW ns \in Namespaces, NEW spec \in Specs(kind, ns),
               OnAdd(kind, ns, spec)
        PROVE  objects'[key] = IF world'[key] # Absent /\ Accepts(key[1], key[2], world'[key])
                               THEN world'[key] ELSE Absent
    <3>1. CASE Accepts(kind, ns, spec)
      BY <2>1, <2>4, <2>6, <3>1 DEF OnAdd, Inserted, Stored
    <3>2. CASE ~Accepts(kind, ns, spec)
      <4>1. kind \notin Single /\ world[<<kind, ns>>] = Absent
        BY <2>5, <2>6, <3>2 DEF OnAdd, Reconciled
      <4> QED BY <2>1, <2>4, <2>6, <3>2, <4>1 DEF OnAdd, Inserted, Stored
    <3> QED BY <3>1, <3>2
  <2>7. ASSUME NEW kind \in Kinds, NEW ns \in Namespaces, NEW spec \in Specs(kind, ns),
               OnUpdate(kind, ns, spec)
        PROVE  objects'[key] = IF world'[key] # Absent /\ Accepts(key[1], key[2], world'[key])
                               THEN world'[key] ELSE Absent
    <3>1. kind \notin Single
      BY <2>7 DEF OnUpdate, Reconciled
    <3>2. world'[key] = IF key = <<kind, ns>> THEN spec ELSE world[key]
      BY <2>7, <3>1 DEF OnUpdate, Stored
    <3>3. CASE world[<<kind, ns>>] = spec
      BY <2>1, <2>7, <3>2, <3>3 DEF OnUpdate
    <3>4. CASE world[<<kind, ns>>] # spec
      <4>1. objects' = Inserted(Removed(objects, kind, ns), kind, ns, spec)
        BY <2>7, <3>4 DEF OnUpdate
      <4> QED BY <2>1, <2>4, <3>1, <3>2, <4>1 DEF Inserted, Stored, Removed
    <3> QED BY <3>3, <3>4
  <2>8. ASSUME NEW kind \in Kinds, NEW ns \in Namespaces, OnDelete(kind, ns)
        PROVE  objects'[key] = IF world'[key] # Absent /\ Accepts(key[1], key[2], world'[key])
                               THEN world'[key] ELSE Absent
    BY <2>1, <2>8 DEF OnDelete, Removed
  <2> QED BY <2>2, <2>3, <2>6, <2>7, <2>8 DEF CacheNext
<1> QED BY <1>1, <1>2, PTL DEF CacheSpec

(* An event that changes what the DAG would be built from asks for a rebuild,*)
(* whatever the namespaces, unless TLSRoutes or ExtensionServices are around *)
(* or a Secret reference spells out its own namespace.                       *)
THEOREM RebuildsAreRequested ==
  ASSUME Kinds \cap {"tlsroute", "extension"} = {}, ~OwnQualified
  PROVE  CacheSpec => RebuildRequested
<1>1. CacheInit => RefsOK
  BY DEF CacheInit, RefsOK, Has
<1>2. RefsOK /\ [CacheNext]_cacheVars => RefsOK'
  BY RefsOKStep
<1>3. CacheMirrorsWorld /\ RefsOK' /\ [CacheNext]_cacheVars => [View' # View => pending']_cacheVars
  <2> SUFFICES ASSUME CacheMirrorsWorld, RefsOK', CacheNext, ~pending'
               PROVE  View' = View
    OBVIOUS
  <2> DEFINE Untouched == \A k \in Keys : objects'[k] = objects[k]
  <2>1. CASE Untouched
    BY <2>1, UnusedChanges
  <2>2. ASSUME NEW kind \in Kinds, NEW ns \in Namespaces,
               kind \in {"service", "secret"},
               kind = "service" => ~ServiceTriggersRebuild(ns)',
               kind = "secret" => ~SecretTriggersRebuild(ns)',
               objects[<<kind, ns>>] = Absent,
               \A k \in Keys : k # <<kind, ns>> => objects'[k] = objects[k]
        PROVE  View' = View
    <3> DEFINE key == <<kind, ns>>
    <3>1. key \notin UsedKeys /\ key[1] = kind /\ key[2] = ns
      BY <2>2 DEF UsedKeys
    <3>2. kind = "service" => ~ServiceInUse(ns)'
      BY <2>2, UsedServicesTrigger
    <3>3. kind = "secret" => ~SecretInUse(ns)'
      BY <2>2, UsedSecretsTrigger
    <3>4. key \notin UsedKeys'
      BY <2>2, <3>1, <3>2, <3>3 DEF UsedKeys
    <3> QED BY <2>2, <3>1, <3>4, UnusedChanges
  <2>3. CASE Build
    BY <2>1, <2>3 DEF Build
  <2>4. ASSUME NEW kind \in Kinds, NEW ns \in Namespaces, NEW spec \in Specs(kind, ns),
               OnAdd(kind, ns, spec)
        PROVE  View' = View
    <3>1. CASE ~Accepts(kind, ns, spec)
      BY <2>1, <2>4, <3>1 DEF OnAdd, Inserted
    <3>2. CASE Accepts(kind, ns, spec)
      <4>1. /\ kind \in {"service", "secret"}
            /\ kind = "service" => ~ServiceTriggersRebuild(ns)'
            /\ kind = "secret" => ~SecretTriggersRebuild(ns)'
        BY <2>4, <3>2 DEF OnAdd, InsertReturns
      <4>2. world[<<kind, ns>>] = Absent /\ kind \notin Single /\ <<kind, ns>> \in Keys
        BY <2>4, <4>1 DEF OnAdd, Reconciled, Routes, Single, Keys
      <4>3. objects[<<kind, ns>>] = Absent
        BY <4>2 DEF CacheMirrorsWorld
      <4>4. \A k \in Keys : k # <<kind, ns>> => objects'[k] = objects[k]
        BY <2>4, <3>2, <4>2 DEF OnAdd, Inserted, Stored
      <4> QED BY <2>2, <4>1, <4>3, <4>4
    <3> QED BY <3>1, <3>2
  <2>5. ASSUME NEW kind \in Kinds, NEW ns \in Namespaces, NEW spec \in Specs(kind, ns),
               OnUpdate(kind, ns, spec)
        PROVE  View' = View
    <3>1. CASE world[<<kind, ns>>] = spec
      BY <2>1, <2>5, <3>1 DEF OnUpdate
    <3>2. CASE world[<<kind, ns>>] # spec
      <4>1. /\ objects' = Inserted(Removed(objects, kind, ns), kind, ns, spec)
            /\ ~RemoveReturns(kind, ns)
            /\ ~InsertReturns(kind, ns, spec)
        BY <2>5, <3>2 DEF OnUpdate
      <4>2. kind \notin Single /\ objects[<<kind, ns>>] = Absent
        BY <4>1 DEF RemoveReturns, Has, Keys
      <4>3. \A k \in Keys : k # <<kind, ns>> => objects'[k] = objects[k]
        BY <4>1, <4>2 DEF Inserted, Stored, Removed
      <4>4. CASE ~Accepts(kind, ns, spec)
        <5>1. objects'[<<kind, ns>>] = objects[<<kind, ns>>]
          BY <4>1, <4>2, <4>4 DEF Inserted, Removed, Keys
        <5> QED BY <2>1, <4>3, <5>1
      <4>5. CASE Accepts(kind, ns, spec)
        <5>1. /\ kind \in {"service", "secret"}
              /\ kind = "service" => ~ServiceTriggersRebuild(ns)'
              /\ kind = "secret" => ~SecretTriggersRebuild(ns)'
          BY <4>1, <4>5 DEF InsertReturns
        <5> QED BY <2>2, <4>2, <4>3, <5>1
      <4> QED BY <4>4, <4>5
    <3> QED BY <3>1, <3>2
  <2>6. ASSUME NEW kind \in Kinds, NEW ns \in Namespaces, OnDelete(kind, ns)
        PROVE  View' = View
    <3>1. kind \notin Single /\ objects[<<kind, ns>>] = Absent
      BY <2>6 DEF OnDelete, RemoveReturns, Has, Keys
    <3> QED BY <2>1, <2>6, <3>1 DEF OnDelete, Removed
  <2> QED BY <2>3, <2>4, <2>5, <2>6 DEF CacheNext
<1> QED BY <1>1, <1>2, <1>3, CacheMirrors, PTL DEF CacheSpec, RebuildRequested
=============================================================================
