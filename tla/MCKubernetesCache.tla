-------------------------- MODULE MCKubernetesCache -------------------------
(***************************************************************************)
(* KubernetesCache for TLC: two namespaces. All kinds of objects at once are *)
(* out of reach, so every behaviour picks one family of kinds that interact. *)
(***************************************************************************)
EXTENDS KubernetesCache

CONSTANTS a, b,
  Families  (* the families a behaviour may pick from *)

TwoNamespaces == {a, b}
OneSecret == {a}

(* What refers to Services, what refers to Secrets, and the rest. *)
ServiceKinds == {"service", "ingress", "httproute", "policy", "gateway", "gatewayclass"}
SecretKinds == {"secret", "httpproxy", "delegation"}
OtherKinds == {"namespace", "ingressclass", "secret", "policy", "gateway", "gatewayclass"}

AllFamilies == {ServiceKinds, SecretKinds, OtherKinds}
ServedKinds == UNION AllFamilies

VARIABLE family

(* The name of a GatewayClass makes no difference, nor do certificates where *)
(* no Secret is around; ingress classes are left to HTTPProxies.             *)
Objects(kind, ns) ==
  {spec \in Specs(kind, ns) :
     /\ kind = "gatewayclass" => ns = a
     /\ kind = "ingress" => spec.matches /\ spec.cert = Own
     /\ kind = "gateway" /\ "secret" \notin family => spec.cert = ns}

MCInit == CacheInit /\ family \in Families

MCNext ==
  /\ \/ \E kind \in family, ns \in Namespaces :
          \/ \E spec \in Objects(kind, ns) : OnAdd(kind, ns, spec)
          \/ \E spec \in Objects(kind, ns) : OnUpdate(kind, ns, spec)
          \/ OnDelete(kind, ns)
     \/ Build
  /\ UNCHANGED family

MCSpec == MCInit /\ [][MCNext]_<<cacheVars, family>>
=============================================================================
