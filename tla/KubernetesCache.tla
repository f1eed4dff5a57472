--------------------------- MODULE KubernetesCache --------------------------
(***************************************************************************)
(* The KubernetesCache (internal/dag/cache.go) as EventHandler.onUpdate     *)
(* drives it: which objects it keeps, and when it asks for a rebuild of the *)
(* DAG. A Service or a Secret asks for one only if the cache can see that   *)
(* something refers to it; the DAG processors resolve the references later, *)
(* by rules of their own. The model relates the two.                        *)
(*                                                                         *)
(* There is at most one object of each kind in a namespace, so a reference  *)
(* is the namespace of its target.                                          *)
(***************************************************************************)
EXTENDS Integers

CONSTANTS
  Namespaces,    (* names of cluster-scoped objects, too                    *)
  Kinds,         (* the kinds of objects the API server delivers            *)
  Absent,        (* no such object                                          *)
  Own,           (* a reference by name only: to the referrer's namespace   *)
  Anywhere,      (* "*" as the only target namespace of a delegation        *)
  OwnQualified,  (* may a reference spell out the referrer's own namespace? *)
  IngressClassName,     (* the name of the IngressClass of this Sesame      *)
  ConfiguredSecretRefs  (* the Secrets the configuration file refers to     *)

Backends == {"ingress", "httpproxy", "extension"}  (* Services by name only   *)
Routes == {"httproute", "tlsroute"}                (* Services, any namespace *)
Hosts == {"ingress", "httpproxy"}                  (* have an ingress class   *)
Single == {"gateway", "gatewayclass"}              (* one field, not a map    *)
Reconciled == Routes \union Single                 (* from the controllers    *)
AllKinds == Backends \union Reconciled \union
            {"service", "secret", "delegation", "policy", "namespace", "ingressclass"}

ASSUME CacheAssumption ==
  /\ Kinds \subseteq AllKinds
  /\ OwnQualified \in BOOLEAN
  /\ ConfiguredSecretRefs \subseteq Namespaces
  /\ {Absent, Own, Anywhere} \cap Namespaces = {}

Keys == Kinds \X Namespaces

(* A TLS Secret reference by name, or with a namespace in front; which one  *)
(* makes no difference where there are no Secrets.                          *)
SecretRefs(ns) ==
  IF "secret" \notin Kinds THEN {Own}
  ELSE {Own} \union (IF OwnQualified THEN Namespaces ELSE Namespaces \ {ns})

(* The objects of a kind, with what the cache and the processors look at.   *)
(* A Secret is a serving certificate, a CA bundle or of no use; a policy is *)
(* a ReferencePolicy for one kind of object of one other namespace.         *)
SpecsByKind(ns) ==
  LET Host == [matches : BOOLEAN, backend : {Own}, cert : SecretRefs(ns)]
      Route == [backend : Namespaces]
      Other == Namespaces \ {ns}
  IN [service |-> [rev : 1..2],
      secret |-> [type : {"tls"}, rev : 1..2] \union [type : {"ca", "invalid"}, rev : {1}],
      ingress |-> Host,
      httpproxy |-> Host,
      extension |-> [backend : {Own}],
      httproute |-> Route,
      tlsroute |-> Route,
      gateway |-> [cert : IF "secret" \in Kinds THEN Namespaces ELSE {ns}],
      delegation |-> [targets : ((SUBSET Other) \ {{}}) \union {{Anywhere}}],
      policy |-> [from : (Kinds \cap (Routes \union {"gateway"})) \X Other],
      gatewayclass |-> [rev : {1}],
      namespace |-> [rev : {1}],
      ingressclass |-> [rev : {1}]]

Specs(kind, ns) == SpecsByKind(ns)[kind]

VARIABLES
  world,   (* the objects as informers and controllers last reported them *)
  objects, (* the objects in the cache                                    *)
  pending  (* has an event asked for a rebuild since the last one?        *)

cacheVars == <<world, objects, pending>>

Has(kind, ns) == <<kind, ns>> \in Keys /\ objects[<<kind, ns>>] # Absent
Get(kind, ns) == objects[<<kind, ns>>]

-----------------------------------------------------------------------------
(* What the DAG processors resolve *)

Target(ref, ns) == IF ref = Own THEN ns ELSE ref

(* DelegationPermitted. *)
DelegationPermitted(secret, ns) ==
  \/ secret = ns
  \/ Has("delegation", secret) /\ (ns \in Get("delegation", secret).targets
                                    \/ Get("delegation", secret).targets = {Anywhere})

(* validCrossNamespaceRef. *)
PolicyPermitted(kind, ns, target) ==
  \/ target = ns
  \/ Has("policy", target) /\ Get("policy", target).from = <<kind, ns>>

(* GatewayAPIProcessor.Run needs both. *)
GatewayFound == \A kind \in Single : \E ns \in Namespaces : Has(kind, ns)

(* Does any object use the Service: LookupService? *)
ServiceInUse(t) ==
  \E kind \in Kinds \cap (Backends \union Routes), ns \in Namespaces :
    /\ Has(kind, ns)
    /\ t = Target(Get(kind, ns).backend, ns)
    /\ (kind \in Routes => GatewayFound /\ PolicyPermitted(kind, ns, t))

(* Does any object use the Secret as its certificate: LookupSecret? *)
CertificateInUse(t) ==
  \E kind \in Kinds \cap (Hosts \union {"gateway"}), ns \in Namespaces :
    /\ Has(kind, ns)
    /\ t = Target(Get(kind, ns).cert, ns)
    /\ IF kind = "gateway"
       THEN GatewayFound /\ PolicyPermitted(kind, ns, t)
       ELSE DelegationPermitted(t, ns)

(* CA bundles are looked up from many places; take them all as used. *)
SecretInUse(t) ==
  \/ Get("secret", t).type = "ca"
  \/ t \in ConfiguredSecretRefs
  \/ CertificateInUse(t)

UsedKeys ==
  {k \in Keys : /\ objects[k] # Absent
                /\ k[1] = "service" => ServiceInUse(k[2])
                /\ k[1] = "secret" => SecretInUse(k[2])}

(* All that a DAG built now would be made of. *)
View == [k \in UsedKeys |-> objects[k]]

-----------------------------------------------------------------------------
(* When the cache asks for a rebuild *)

(* A variant that looks at Ingress and HTTPProxy objects only. *)
ServiceTriggersWithoutRoutes(ns) ==
  \E kind \in Kinds \cap Hosts, n \in Namespaces :
    Has(kind, n) /\ n = ns /\ Target(Get(kind, n).backend, n) = ns

(* serviceTriggersRebuild: an Ingress or HTTPProxy in the Service's own     *)
(* namespace, or an HTTPRoute, refers to it.                                *)
ServiceTriggersRebuild(ns) ==
  \E kind \in Kinds \cap {"ingress", "httpproxy", "httproute"}, n \in Namespaces :
    Has(kind, n) /\ Target(Get(kind, n).backend, n) = ns

(* The target namespaces of all delegations, whatever they delegate. *)
DelegatedTo == UNION {Get("delegation", n).targets : n \in {m \in Namespaces : Has("delegation", m)}}

(* secretTriggersRebuild; the reference is compared as it is spelled. *)
SecretTriggersRebuild(ns) ==
  \/ Get("secret", ns).type = "ca"
  \/ \E kind \in Kinds \cap Hosts, n \in Namespaces :
       /\ Has(kind, n)
       /\ \/ n = ns /\ Get(kind, n).cert = Own
          \/ {n, Anywhere} \cap DelegatedTo # {} /\ Get(kind, n).cert = ns
  \/ ns \in ConfiguredSecretRefs
  \/ \E n \in Namespaces : Has("gateway", n) /\ Get("gateway", n).cert = ns

(* Which objects Insert keeps. *)
Accepts(kind, ns, spec) ==
  /\ kind \in Hosts => spec.matches
  /\ kind = "secret" => spec.type # "invalid"
  /\ kind = "ingressclass" => ns = IngressClassName

(* objs with an object stored, and with one deleted. A kind with a single   *)
(* field has room for one object, and is cleared whatever it holds.         *)
Stored(objs, kind, ns, spec) ==
  [k \in Keys |-> IF k = <<kind, ns>> THEN spec
                  ELSE IF kind \in Single /\ k[1] = kind THEN Absent ELSE objs[k]]

Removed(objs, kind, ns) ==
  [k \in Keys |-> IF k = <<kind, ns>> \/ (kind \in Single /\ k[1] = kind)
                  THEN Absent ELSE objs[k]]

(* The cache after Insert. *)
Inserted(objs, kind, ns, spec) ==
  IF Accepts(kind, ns, spec) THEN Stored(objs, kind, ns, spec) ELSE objs

(* What Insert returns, once it has changed the cache. *)
InsertReturns(kind, ns, spec) ==
  /\ Accepts(kind, ns, spec)
  /\ kind = "service" => ServiceTriggersRebuild(ns)'
  /\ kind = "secret" => SecretTriggersRebuild(ns)'

(* What Remove returns. *)
RemoveReturns(kind, ns) == kind \in Single \/ Has(kind, ns)

-----------------------------------------------------------------------------
CacheInit ==
  /\ world = [k \in Keys |-> Absent]
  /\ objects = world
  /\ pending = FALSE

(* An informer adds an object once; the controllers report the present      *)
(* state of an object, or of the one that matters, as often as they like.   *)
OnAdd(kind, ns, spec) ==
  /\ kind \in Reconciled \/ world[<<kind, ns>>] = Absent
  /\ world' = Stored(world, kind, ns, spec)
  /\ objects' = Inserted(objects, kind, ns, spec)
  /\ pending' = (pending \/ InsertReturns(kind, ns, spec))

(* A variant that inserts the new object without removing the old one. *)
OnUpdateInsertOnly(kind, ns, spec) ==
  /\ kind \notin Reconciled /\ world[<<kind, ns>>] # Absent
  /\ world' = Stored(world, kind, ns, spec)
  /\ objects' = Inserted(objects, kind, ns, spec)
  /\ pending' = (pending \/ InsertReturns(kind, ns, spec))

(* Remove the old object and insert the new one, unless nothing that counts *)
(* has changed.                                                             *)
OnUpdate(kind, ns, spec) ==
  /\ kind \notin Reconciled /\ world[<<kind, ns>>] # Absent
  /\ world' = Stored(world, kind, ns, spec)
  /\ IF world[<<kind, ns>>] = spec
     THEN UNCHANGED <<objects, pending>>
     ELSE /\ objects' = Inserted(Removed(objects, kind, ns), kind, ns, spec)
          /\ pending' = (\/ pending
                         \/ RemoveReturns(kind, ns)
                         \/ InsertReturns(kind, ns, spec))

(* A controller may report the deletion of an object it never reported. *)
OnDelete(kind, ns) ==
  /\ kind \in Reconciled \/ world[<<kind, ns>>] # Absent
  /\ world' = Removed(world, kind, ns)
  /\ objects' = Removed(objects, kind, ns)
  /\ pending' = (pending \/ RemoveReturns(kind, ns))

(* rebuildDAG. *)
Build ==
  /\ pending
  /\ pending' = FALSE
  /\ UNCHANGED <<world, objects>>

CacheNext ==
  \/ \E kind \in Kinds, ns \in Namespaces :
       \/ \E spec \in Specs(kind, ns) : OnAdd(kind, ns, spec) \/ OnUpdate(kind, ns, spec)
       \/ OnDelete(kind, ns)
  \/ Build

CacheSpec == CacheInit /\ [][CacheNext]_cacheVars

-----------------------------------------------------------------------------
(* Properties *)

(* An event after which the DAG would be built from something else asks for  *)
(* a rebuild, in whatever order an object, its referrers and the delegations *)
(* and policies between them come and go: "onUpdate returns true if the      *)
(* event changed the cache in a way that requires notifying the Observer".   *)
RebuildRequested == [][View' # View => pending']_cacheVars

(* The cache holds exactly the objects it accepts: an object whose ingress   *)
(* class stops matching, or a Secret that stops being valid, is gone.        *)
CacheMirrorsWorld ==
  \A k \in Keys : objects[k] = IF world[k] # Absent /\ Accepts(k[1], k[2], world[k])
                               THEN world[k] ELSE Absent
=============================================================================
