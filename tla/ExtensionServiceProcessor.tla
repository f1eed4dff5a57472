--------------------- MODULE ExtensionServiceProcessor ----------------------
(***************************************************************************)
(* ExtensionServices (internal/dag/extension_processor.go): each becomes an *)
(* extension cluster, unless something is wrong with it. Errors do not end  *)
(* the processing of the object, but for a certificate that is not          *)
(* delegated; so a status can name several.                                 *)
(***************************************************************************)
EXTENDS DAG

(* Clusters of extension services have the name of their object. *)
ExtensionClusterName(key) == key

(* What is wrong with a service of an ExtensionService; it may only be one  *)
(* of the same namespace.                                                   *)
TargetError(source, key, target) ==
  LET found == LookupService(source, <<key[1], target.name>>, [number |-> target.port, name |-> ""])
  IN  IF found = Failed THEN "ServiceUnresolvedReference"
      ELSE IF found.svc.external # "" THEN "UnsupportedServiceType" ELSE Nil

WeightedService(source, key, target) ==
  [weight |-> target.weight, service |-> <<key[1], target.name>>,
   port |-> LookupService(source, <<key[1], target.name>>, [number |-> target.port, name |-> ""]).port]

(* The cluster, or Nil, and the condition of the object. *)
BuildExtensionService(source, config, key) ==
  LET ext == source.extensions[key]
      uv == ext.validation
      validation == IF uv = Nil THEN Nil ELSE LookupUpstreamValidation(source, uv)
      lb == LoadBalancerPolicy(ext.lb)
      protocol == IF ext.protocol = Nil THEN "h2" ELSE ext.protocol
      tp == TimeoutPolicy(ext.timeout)
      undelegated == uv # Nil /\ ~DelegationPermitted(source, uv.ca, key[1])
      found == SelectSeq(ext.services, LAMBDA t : TargetError(source, key, t) = Nil)
      early == {IF tp = Failed THEN "TimeoutPolicyNotValid" ELSE Nil,
                IF config.clientCert # Nil /\ LookupSecret(source, config.clientCert) = Failed
                THEN "SecretNotValid" ELSE Nil}
      late == {IF validation = Failed THEN "TLSUpstreamValidation" ELSE Nil,
               IF uv # Nil /\ protocol # "h2" THEN "InconsistentProtocol" ELSE Nil}
                \union {TargetError(source, key, t) : t \in Range(ext.services)}
      errors == (IF undelegated THEN early \union {"CACertificateNotDelegated"} ELSE early \union late) \ {Nil}
      ignored == lb \in {"Cookie", "RequestHash"} \/ (ext.timeout # Nil /\ ext.timeout.idle # "")
      cluster == [name |-> ExtensionClusterName(key), protocol |-> protocol, validation |-> validation,
                  sni |-> IF validation \in {Nil, Failed} THEN "" ELSE validation.subject,
                  lb |-> IF lb \in {"Cookie", "RequestHash"} THEN "" ELSE lb, 
                  timeout |-> IF tp = Failed THEN "default" ELSE tp.response,
                  clientCert |-> config.clientCert,
                  services |-> [i \in DOMAIN found |-> WeightedService(source, key, found[i])]]
  IN  [cluster |-> IF undelegated THEN Nil ELSE cluster,
       cond |-> [errors |-> errors, warnings |-> IF ignored THEN {"IgnoredField"} ELSE {}]]

(* One pass of the loop of Run. *)
AddExtensionCluster(dag, built) ==
  IF built.cluster # Nil /\ built.cond.errors = {}
  THEN [dag EXCEPT !.ExtensionClusters = Append(@, built.cluster)] ELSE dag
=============================================================================
