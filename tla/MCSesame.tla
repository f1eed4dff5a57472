------------------------------ MODULE MCSesame ------------------------------
(***************************************************************************)
(* Four families of inputs of "sesame serve", each of which varies what one *)
(* of the questions is about and leaves the rest at its defaults.           *)
(***************************************************************************)
EXTENDS Sesame

Cluster == [reachable |-> TRUE, crd |-> Nil, extension |-> Nil]
Input(fl, fi) ==
  [flags |-> fl, file |-> fi, cluster |-> Cluster, certificates |-> TRUE]

(* The command line of the example deployment: where the certificates of the *)
(* xDS server are.                                                           *)
Flags == [NoFlags EXCEPT !.tlsFiles = {"ca", "cert", "key"}]
Converted == ConvertToSesameConfigurationSpec(Flags, Defaults)

(* What the flags, the file and the defaults say of the same value. *)
PrecedenceInputs ==
  {[Input([Flags EXCEPT !.config = c, !.crd = d, !.envoyService = s, !.lease = l], f)
      EXCEPT !.cluster = [@ EXCEPT !.reachable = r, !.crd = IF k THEN Converted ELSE Nil]] :
     c \in BOOLEAN, d \in BOOLEAN, s \in {Nil, "flag"}, l \in {Nil, "flag"},
     f \in {Nil, Defaults, [Defaults EXCEPT !.envoyService = "file", !.lease = "file"]},
     r \in BOOLEAN, k \in BOOLEAN}

(* Where metrics and health of Sesame and of Envoy are to be found. *)
Servers == {NoServer, [NoServer EXCEPT !.port = 8002], [NoServer EXCEPT !.address = "127.0.0.1"],
            [NoServer EXCEPT !.cert = TRUE, !.key = TRUE],
            [NoServer EXCEPT !.port = 8002, !.cert = TRUE, !.key = TRUE, !.ca = TRUE]}
EndpointInputs ==
  {Input([Flags EXCEPT !.config = TRUE, !.health = h, !.metrics = m, !.stats = s],
         [Defaults EXCEPT !.metrics = a, !.envoyMetrics = b]) :
     h \in {<<"0.0.0.0", 8000>>, <<"127.0.0.1", 8000>>, <<"127.0.0.1", 6060>>},
     m \in {<<"0.0.0.0", 8000>>, <<"0.0.0.0", 8002>>, <<"127.0.0.1", 8001>>},
     s \in {<<"0.0.0.0", 8000>>, <<"0.0.0.0", 8002>>},
     a \in Servers, b \in Servers}

(* Certificates in and outside the root namespaces; Gateways, the header     *)
(* policy and a rate limit service, from the file or from the cluster.       *)
SecretInputs ==
  LET Names == {NoName, [name |-> "c", namespace |-> "ns1"], [name |-> "c", namespace |-> "ns2"]}
      Config(f, c, g, a, e) ==
        [Defaults EXCEPT !.fallback = f, !.client = c, !.gateway = g, !.applyToIngress = a,
                         !.extension = e]
  IN  UNION {
        {[Input([Flags EXCEPT !.config = TRUE, !.rootNamespaces = r], Config(f, c, g, a, e))
            EXCEPT !.cluster.extension = t],
         [Input([Flags EXCEPT !.crd = TRUE], Defaults)
            EXCEPT !.cluster = [@ EXCEPT !.extension = t,
                      !.crd = ConvertToSesameConfigurationSpec([Flags EXCEPT !.rootNamespaces = r],
                                                               Config(f, c, g, a, e))]]} :
          r \in {{}, {"ns1"}, {"ns1", "ns2"}}, f \in Names, c \in Names, g \in {Nil, "controller"},
          a \in BOOLEAN, e \in {"", "ext"}, t \in {Nil, "60s", "x"}}

(* What is valid and what is not, one value at a time; certificates.         *)
ValidationInputs ==
  LET File(f, v) == Input([Flags EXCEPT !.config = TRUE], [Defaults EXCEPT ![f] = v])
  IN  {File("xdsType", v) : v \in {"envoy", "x"}} \union {File("gateway", v) : v \in {"", "c"}}
        \union {File("dns", v) : v \in {"v4", "v6", "x"}} \union {File("accessLog", v) : v \in {"json", "x"}}
        \union {File("format", v) : v \in {"operators and newline", "x"}}
        \union {File("fields", v) : v \in {<<Field("x")>>, <<Field("x"), [name |-> "x", format |-> "operators"]>>,
                  <<Field("path"), [name |-> "path", format |-> "x"]>>}}
        \union {File("ciphers", v) : v \in SUBSET {" AES256-SHA ", "AES256-SHA", "x"}}
        \union {File(f, v) : f \in {"requestHeaders", "responseHeaders"},
                  v \in [set : {{}, {"x-a"}, {"x a"}}, remove : {{}, {"x-b"}, {"x b"}}]}
        \union {File("versions", v) : v \in SUBSET {"HTTP/1.1", "HTTP/2", "HTTP/3"}}
        \union {File("balancer", v) : v \in {"exact", "x"}}
        \union {File("timeout", v) : v \in {"", "infinity", "infinite", "0s", "x"}}
        \union {File("fallback", v) : v \in [name : {"", "c"}, namespace : {"", "ns1"}]}
        \union {File("metrics", v) : v \in [address : {""}, port : {0, 8002}, cert : BOOLEAN, key : BOOLEAN, ca : BOOLEAN]}
        \union {Input([Flags EXCEPT !.accessLog = v], Nil) : v \in {"json", "x"}}
        \union {[Input([Flags EXCEPT !.tlsFiles = t, !.insecure = i], Nil) EXCEPT !.certificates = c] :
                  t \in {{}, {"ca"}, {"ca", "cert", "key"}}, i \in BOOLEAN, c \in BOOLEAN}
        \union {[Input([Flags EXCEPT !.crd = TRUE], Nil) EXCEPT
                   !.cluster.crd = [Converted EXCEPT !.timeout = t, !.xds.tls = Nil,
                                      !.metrics = [socket |-> <<"0.0.0.0", 8002>>, tls |-> m]]] :
                  t \in {Nil, "", "0s", "x"},
                  m \in {Nil} \union [cert : BOOLEAN, key : BOOLEAN, ca : BOOLEAN]}

MCInputs == PrecedenceInputs \union EndpointInputs \union SecretInputs \union ValidationInputs
=============================================================================
