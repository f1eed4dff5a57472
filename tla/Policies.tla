------------------------------ MODULE Policies ------------------------------
(***************************************************************************)
(* The policies of routes and services (internal/dag/policy.go): what the   *)
(* API object asks for is validated and turned into what the DAG holds. A   *)
(* function that can fail returns Failed.                                   *)
(*                                                                         *)
(* A header name is as the user wrote it: two of them can be the same       *)
(* header. A header value is one token: a literal text, a percent sign, or  *)
(* a variable that Envoy or Sesame expands. Durations are numbers.          *)
(***************************************************************************)
EXTENDS Conditions

CONSTANT Failed (* the error result of a function *)

(* net/http and apimachinery: the canonical form of a header name, and      *)
(* which names are legal.                                                   *)
CanonicalHeaderKey(name) == IF name = "x-a" THEN "X-A" ELSE name
IsHTTPHeaderName(key) == key # "bad name"

Literal(text) == [kind |-> "text", text |-> text]

Duplicate(seq) == \E i, j \in DOMAIN seq : i # j /\ seq[i] = seq[j]

(* Percent signs are doubled, except around the variables of Envoy; the     *)
(* variables of Sesame are replaced by their values if they have one.       *)
EscapeHeaderValue(value, dynamicHeaders) ==
  CASE value.kind = "text"     -> value
    [] value.kind = "envoy"    -> value
    [] value.kind = "dynamic" /\ value.text \in DOMAIN dynamicHeaders
                               -> Literal(dynamicHeaders[value.text])
    [] OTHER                   -> [kind |-> "escaped", text |-> value.text]

(* Header names that a list of names must not hold. *)
BadKeys(keys) == Duplicate(keys) \/ \E i \in DOMAIN keys : ~IsHTTPHeaderName(keys[i])

(* Set and remove headers of a route or a service. A Host header is not set *)
(* but rewrites the host, which only a route may do; the last one counts.   *)
HeadersPolicyRoute(policy, allowHostRewrite, dynamicHeaders) ==
  IF policy = Nil THEN Nil
  ELSE LET IsHost(e) == CanonicalHeaderKey(e.name) = "Host"
           hosts == SelectSeq(policy.Set, IsHost)
           others == SelectSeq(policy.Set, LAMBDA e : ~IsHost(e))
           keys == [i \in DOMAIN others |-> CanonicalHeaderKey(others[i].name)]
           removed == [i \in DOMAIN policy.Remove |-> CanonicalHeaderKey(policy.Remove[i])]
       IN  IF (hosts # <<>> /\ ~allowHostRewrite) \/ BadKeys(keys) \/ BadKeys(removed)
           THEN Failed
           ELSE [Set |-> [k \in Range(keys) |->
                   EscapeHeaderValue(others[CHOOSE i \in DOMAIN keys : keys[i] = k].value, dynamicHeaders)],
                 Add |-> {},
                 HostRewrite |-> IF hosts = <<>> THEN Nil ELSE Last(hosts).value,
                 Remove |-> Range(removed)]

(* A service's policy on top of the one of the configuration file. *)
HeadersPolicyService(defaultPolicy, policy, dynamicHeaders) ==
  LET user == HeadersPolicyRoute(policy, FALSE, dynamicHeaders)
      base == IF user = Nil THEN [Set |-> <<>>, Add |-> {}, HostRewrite |-> Nil, Remove |-> {}] ELSE user
      names == {CanonicalHeaderKey(e.name) : e \in Range(defaultPolicy.Set)}
      removed == {CanonicalHeaderKey(n) : n \in Range(defaultPolicy.Remove)}
      Default(k) ==
        CHOOSE e \in Range(defaultPolicy.Set) : CanonicalHeaderKey(e.name) = k
  IN  IF defaultPolicy = Nil \/ user = Failed THEN user
      ELSE IF "Host" \in names \/ \E n \in names \union removed : ~IsHTTPHeaderName(n)
      THEN Failed
      ELSE [base EXCEPT
             !.Set = [k \in DOMAIN @ \union names |->
                        IF k \in DOMAIN base.Set THEN base.Set[k]
                        ELSE EscapeHeaderValue(Default(k).value, dynamicHeaders)],
             !.Remove = @ \union removed]

(* A header filter of the Gateway API: what is wrong is left out, and       *)
(* reported. The values are literal texts, of which nothing depends.        *)
HeadersPolicyGatewayAPI(filter) ==
  LET Keys(s) == [i \in DOMAIN s |-> CanonicalHeaderKey(s[i])]
      Kept(keys) == {k \in Range(keys) : k # "Host" /\ IsHTTPHeaderName(k)}
      set == Keys(filter.Set)  add == Keys(filter.Add)  remove == Keys(filter.Remove)
      Plain(keys) == SelectSeq(keys, LAMBDA k : k # "Host")
  IN  [Set |-> [k \in Kept(set) |-> Literal("")], Add |-> Kept(add),
       Remove |-> {k \in Range(remove) : IsHTTPHeaderName(k)},
       HostRewrite |-> IF "Host" \in Range(set) \union Range(add) THEN Literal("") ELSE Nil,
       ok |-> ~BadKeys(Plain(set)) /\ ~BadKeys(Plain(add)) /\ ~BadKeys(remove)]

(* One rule for each cookie, and each rule rewrites something. *)
CookieRewritePolicies(policies) ==
  IF \/ Duplicate([i \in DOMAIN policies |-> policies[i].name])
     \/ \E p \in Range(policies) : p.attributes = {}
  THEN Failed ELSE policies

-----------------------------------------------------------------------------

(* annotation.MinTLSVersion *)
MinTLSVersion(version, default) == IF version \in {"1.2", "1.3"} THEN version ELSE default

(* timeout.Parse: nothing and zero are the default, "infinity" disables the *)
(* timeout, anything else is a duration or an error.                        *)
TimeoutParse(text) ==
  CASE text \in {"", "0s"} -> "default" [] text = "infinity" -> "disabled"
    [] text = "soon" -> Failed [] OTHER -> text

(* timeout.ParseMaxAge: here zero disables. *)
ParseMaxAge(text) ==
  CASE text = "" -> "default" [] text = "0s" -> "disabled" [] text = "soon" -> Failed
    [] OTHER -> text

TimeoutPolicy(tp) ==
  LET parsed == [response |-> TimeoutParse(tp.response), idle |-> TimeoutParse(tp.idle)]
  IN  IF tp = Nil THEN [response |-> "default", idle |-> "default"]
      ELSE IF Failed \in {parsed.response, parsed.idle} THEN Failed ELSE parsed

(* -1 means no retries, nothing means one. *)
NumRetries(n) == CASE n = -1 -> 0 [] n \in {0, 1} -> 1 [] OTHER -> n

(* A timeout for each try that is not a duration is not set. *)
RetryPolicy(rp) ==
  IF rp = Nil THEN Nil
  ELSE [retryOn |-> IF rp.retryOn = {} THEN {"5xx"} ELSE rp.retryOn,
        numRetries |-> NumRetries(rp.numRetries),
        perTry |-> IF rp.perTryTimeout \in {"", "0s", "soon", "infinity"}
                   THEN "default" ELSE rp.perTryTimeout]

(* The same from the annotations of an Ingress, where "infinity" is a       *)
(* timeout; errors are logged and leave the defaults.                       *)
IngressRetryPolicy(ing) ==
  LET perTry == TimeoutParse(ing.perTryTimeout)
  IN  IF ing.retryOn = {} THEN Nil
      ELSE [retryOn |-> ing.retryOn, numRetries |-> NumRetries(ing.numRetries),
            perTry |-> IF perTry = Failed THEN "default" ELSE perTry]

IngressTimeoutPolicy(ing) ==
  LET response == IF ing.responseTimeout = "" THEN ing.requestTimeout ELSE ing.responseTimeout
      tp == TimeoutPolicy([response |-> response, idle |-> ""])
  IN  IF tp = Failed THEN TimeoutPolicy(Nil) ELSE tp

(* A health check of the given kind; the defaults are filled in later. *)
HealthCheckPolicy(kind, hc) ==
  IF hc = Nil THEN Nil
  ELSE [kind |-> kind, interval |-> hc.interval, timeout |-> hc.timeout,
        unhealthy |-> hc.unhealthy, healthy |-> hc.healthy,
        path |-> IF kind = "http" THEN <<hc.path, hc.host>> ELSE <<>>]

(* Requests and burst are unsigned 32-bit numbers, and so is their sum; the *)
(* model's word has the size Word.                                          *)
LocalRateLimitPolicy(in, Word) ==
  IF in = Nil THEN Nil
  ELSE IF \/ in.requests <= 0 \/ in.unit \notin {"second", "minute", "hour"}
          \/ BadKeys([i \in DOMAIN in.headers |-> CanonicalHeaderKey(in.headers[i])])
  THEN Failed
  ELSE [maxTokens |-> (in.requests + in.burst) % Word,
        tokensPerFill |-> in.requests, fillInterval |-> in.unit]

(* Each entry of each descriptor has exactly one of its fields. *)
GlobalRateLimitPolicy(in) ==
  IF in = Nil THEN Nil
  ELSE IF \E d \in Range(in) : \E e \in Range(d) : Cardinality(e) # 1 THEN Failed ELSE in

RateLimitPolicy(in, Word) ==
  LET local == LocalRateLimitPolicy(in.local, Word)  global == GlobalRateLimitPolicy(in.global)
  IN  IF in = Nil \/ in = [local |-> Nil, global |-> Nil] THEN Nil
      ELSE IF Failed \in {local, global} THEN Failed
      ELSE [local |-> local, global |-> global]

(* The strategy, or nothing for one that is not known. *)
LoadBalancerPolicy(lbp) ==
  IF lbp # Nil /\ lbp.strategy \in {"WeightedLeastRequest", "Random", "Cookie", "RequestHash"}
  THEN lbp.strategy ELSE ""

(* Hash policies that hash nothing, or what an earlier one hashes, are      *)
(* ignored with a warning; if none is left the strategy is the default one. *)
LoadBalancerRequestHashPolicies(lbp) ==
  LET strategy == LoadBalancerPolicy(lbp)
      Valid(h) == /\ h.sourceIP = (h.header = Nil)
                  /\ h.header # Nil => IsHTTPHeaderName(CanonicalHeaderKey(h.header))
      Hashes(h) == IF h.sourceIP THEN Nil ELSE CanonicalHeaderKey(h.header)
      Keep(kept, h) ==
        IF Valid(h) /\ Hashes(h) \notin Range(kept) THEN Append(kept, Hashes(h)) ELSE kept
      kept == FoldLeft(Keep, <<>>, lbp.hashes)
  IN  CASE strategy = "Cookie" -> [policies |-> <<"session cookie">>, strategy |-> strategy, warn |-> FALSE]
        [] strategy = "RequestHash" ->
             [policies |-> kept, strategy |-> IF kept = <<>> THEN "RoundRobin" ELSE strategy,
              warn |-> Len(kept) < Len(lbp.hashes) \/ kept = <<>>]
        [] OTHER -> [policies |-> <<>>, strategy |-> strategy, warn |-> FALSE]

(* The SNI comes from the service's headers, the route's, or the service.   *)
DetermineSNI(routeHeaders, serviceHeaders, externalName) ==
  LET Host(p) == IF p = Nil THEN Nil ELSE p.HostRewrite
  IN  IF Host(serviceHeaders) # Nil THEN Host(serviceHeaders)
      ELSE IF Host(routeHeaders) # Nil THEN Host(routeHeaders) ELSE Literal(externalName)
=============================================================================
