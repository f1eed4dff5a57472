----------------------------- MODULE APIObjects -----------------------------
(***************************************************************************)
(* The objects of the API (apis/projectsesame) as the processors read them: *)
(* one record for each type, with the fields that decide something and the  *)
(* values they have when the user leaves them out. References are pairs of  *)
(* a namespace and a name, with the default namespace filled in.            *)
(***************************************************************************)
EXTENDS Conditions

(* HTTPProxy: a root has a virtual host. *)
Proxy(vhost, routes, includes) ==
  [vhost |-> vhost, routes |-> routes, includes |-> includes, tcp |-> Nil]
Include(target, conds) == [target |-> target, conditions |-> conds]

VHost(fqdn) == [fqdn |-> fqdn, tls |-> Nil, auth |-> Nil, cors |-> Nil, rateLimit |-> Nil]
TLS == [secret |-> Nil, minVersion |-> "", passthrough |-> FALSE, client |-> Nil, fallback |-> FALSE]
DownstreamValidation(ca, skip) == [ca |-> ca, skip |-> skip]

(* The version is that of the extension service's API; the body is the size *)
(* of the buffer, 0 if it is not given.                                     *)
AuthorizationServer(ext) ==
  [version |-> TRUE, ext |-> ext, disabled |-> Nil, timeout |-> "", body |-> Nil]

RouteSpec ==
  [conditions |-> <<>>, services |-> <<>>, websocket |-> FALSE, permitInsecure |-> FALSE,
   authDisabled |-> Nil, timeout |-> Nil, retry |-> Nil, health |-> Nil, lb |-> Nil,
   replace |-> <<>>, reqHeaders |-> Nil, respHeaders |-> Nil, cookies |-> <<>>,
   rateLimit |-> Nil, redirect |-> FALSE]

Service(name, port) ==
  [name |-> name, port |-> port, protocol |-> Nil, weight |-> 0, validation |-> Nil,
   mirror |-> FALSE, reqHeaders |-> Nil, respHeaders |-> Nil, cookies |-> <<>>]
UpstreamValidation(ca, subject) == [ca |-> ca, subject |-> subject]

TCPProxy == [services |-> <<>>, include |-> Nil, lb |-> Nil, health |-> Nil]

(* Policies *)
HTTPHealthCheckPolicy(path, interval, timeout) ==
  [path |-> path, host |-> "", interval |-> interval, timeout |-> timeout, unhealthy |-> 0, healthy |-> 0]
TimeoutPolicySpec(response, idle) == [response |-> response, idle |-> idle]
RetryPolicySpec(retryOn, numRetries, perTry) ==
  [retryOn |-> retryOn, numRetries |-> numRetries, perTryTimeout |-> perTry]
ReplacePrefix(prefix, replacement) == [prefix |-> prefix, replacement |-> replacement]
HashPolicy(sourceIP, header) == [sourceIP |-> sourceIP, header |-> header]
LoadBalancerPolicySpec(strategy, hashes) == [strategy |-> strategy, hashes |-> hashes]
HeadersPolicySpec(set, remove) == [Set |-> set, Remove |-> remove]
CookieRewritePolicy(name, attributes) == [name |-> name, attributes |-> attributes]
LocalRateLimit(requests, unit, burst) ==
  [requests |-> requests, unit |-> unit, burst |-> burst, headers |-> <<>>]

(* An entry of a descriptor is the set of its fields that are given. *)
RateLimit(local, descriptors) == [local |-> local, global |-> descriptors]

ExtensionService(services) ==
  [services |-> services, validation |-> Nil, protocol |-> Nil, lb |-> Nil, timeout |-> Nil]
ExtensionServiceTarget(name, port, weight) == [name |-> name, port |-> port, weight |-> weight]

CertificateDelegation(secret, targets) == [secret |-> secret, targets |-> targets]
=============================================================================
