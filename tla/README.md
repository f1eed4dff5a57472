# Sesame in TLA+

Sesame is a Kubernetes ingress controller. It watches Kubernetes objects, builds
from them a graph (the DAG) of virtual hosts, routes and clusters, serves the
graph to a fleet of Envoy proxies over xDS, and writes status back to the objects
it read. This directory models the way from the objects to Envoy, the way back to
the statuses, and the start and the end of the processes: TLA+ modules, TLC
configurations, and proofs checked by TLAPS.

## 1. The system

### Components, state and operations

| part | state | operations | source |
|---|---|---|---|
| `EventHandler` | outstanding events, hold-off timer, time of the last rebuild | `OnAdd/OnUpdate/OnDelete`, `OnElectedLeader`, the loop of `Start`, `rebuildDAG` | `internal/sesame/handler.go` |
| `KubernetesCache` | the objects that make up the configuration | `Insert`, `Remove`, lookups, the two "triggers rebuild" tests | `internal/dag/cache.go` |
| DAG builder and processors | the DAG under construction, orphans, status updates | `Build`, one `Run` per processor | `internal/dag` |
| Envoy configuration | listeners, routes, clusters, secrets of one DAG | `OnChange` of each cache, the conversions, the sorter | `internal/xdscache/v3`, `internal/envoy`, `internal/sorter` |
| resource caches and `Cond` | values by name, a notification counter, waiters | `OnChange`, `Update`, `Contents`, `Query`, `Register`, `Notify` | `internal/xdscache/v3`, `internal/sesame/cond.go` |
| `EndpointsTranslator` | endpoints, service clusters, stale clusters, load assignments | informer callbacks, `OnChange` | `internal/xdscache/v3/endpointstranslator.go` |
| `SnapshotHandler` | the snapshot version, the snapshot cache | `Refresh`, `OnChange`, `AddSnapshotter` | `internal/xdscache/snapshot.go` |
| xDS server | one goroutine per stream | `stream` | `internal/xds/v3/sesame.go` |
| status writer | a channel of 100 updates | `Send`, `Start`, `apply`, the mutators | `internal/k8s/status.go`, `internal/status` |
| load balancer status | the last address | the Service watcher, the writer, informer callbacks | `internal/k8s/statusaddress.go`, `cmd/sesame/ingressstatus.go` |
| gateway controllers | work queues; the chosen GatewayClass and Gateway | predicates, `Reconcile`, `OnElectedLeader` | `internal/controller` |
| shutdown manager | the ready file, Envoy's health check, open connections | `shutdownHandler`, `shutdownReadyHandler` | `cmd/sesame/shutdownmanager.go` |
| configuration | the parameters, from defaults, file, flags or a resource | `Parse`, `Validate`, the conversion | `pkg/config`, `cmd/sesame/servecontext.go`, `apis/projectsesame/v1alpha1` |
| serve | services, filters, processors; which services listen | `main`, `NewServer`, `doServe`, the services' `Start` | `cmd/sesame/serve.go`, `internal/httpsvc` |
| bootstrap, certgen, workgroup | none that lives on | one-shot, or used by tests only | `cmd/sesame`, `internal/workgroup` |

### How they interact

    informers ──┬─> EventHandler ──> KubernetesCache
    controllers ┘        │ rebuildDAG
                         ├──> listener, secret, route, cluster caches ──> Cond ──> streams ──> Envoy
                         ├──> EndpointsTranslator <── endpoints informer      │
                         │           └────────── Refresh ──> SnapshotHandler ─┘ (other server type)
                         └──> status channel ──> StatusUpdateHandler ──> API server ──> informers
    Service watcher ──> load balancer status writer ──┘

Everything crosses goroutines by channels (the EventHandler's unbuffered one, the
status channel of 100, the watcher's of 1, a channel per stream) or by mutexes that
are held for one access at a time. What is hard:

* several critical sections make one operation (`OnChange` of the
  EndpointsTranslator, `generateNewSnapshot`), and the other goroutine gets in
  between;
* a stream reads its cache and registers for the next change separately;
* bounded channels whose reader runs only on the leader;
* status is computed from what an informer has seen, and written later, under
  optimistic concurrency, by two writers, possibly by another replica;
* a status write is an event, and an event may cause a rebuild and more writes;
* the cache must know, before a DAG is built, whether an object matters to it;
* the processors run over Go maps, whose order is random, fill the DAG step by step
  and return early, and several kinds of objects write the same virtual host;
* one `*Route` or map is shared by several holders and changed between them;
* the two hooks of an Envoy pod meet only through a file, and the kubelet may
  restart, repeat or kill either;
* predicates and `Reconcile` read the cluster when they run, not when the event
  happened.

For each part the properties that make it correct are the ones in section 3; what
they guard against is listed with its line under `hazards` in `PROJECT.json`.

## 2. The modules

`X` models a part, `MCX` instantiates it for TLC where constants need definitions,
`X_proofs` holds its theorems. Some modules of proofs are about more than one part:
`SesameServer_proofs` also about `EndpointsTranslator`, `EventHandler_proofs` about
`KubernetesCache`, `Sesame_proofs` about `Serve`, `ShutdownManager` and `ObjectStatus`.
So that they can be extended together, `EndpointsTranslator`, `KubernetesCache` and
`ObjectStatus` call their specifications `EndpointsSpec`, `CacheSpec` and `StatusSpec`,
and likewise what these are made of. `Loops` belongs to the proofs only. A definition
that nothing uses and whose name extends that of the definition it stands before
(`PollOneMore` before `Poll`) is a plausible mistake: each property has been seen to
fail when one of them takes the place of that definition.

* **Cond, SesameServer**. `Cond` is the counter, the waiters and their channels;
  `Register`, `Notify` and the receive are its operations. `SesameServer` has one
  goroutine per stream (`Open`, `RecvRequest`, `Notified`, `SendResponse`,
  `Terminate`) and a cache of one of two kinds: one that notifies under
  its mutex (`Update`) and the EndpointsTranslator, which changes its entries and
  notifies later, from two goroutines (`SetEntries`, `NotifyEntries`). Contents are
  the number of the change. A stream keeps one set of resource names.
* **EndpointsTranslator**. Each critical section of the informer callbacks
  (`Store`, `InformerRecalculate`, `Merge`, `InformerNotify`, `Refresh`) and of
  `OnChange` (`SetClusters`, `RebuildRecalculate`, `SetIfChanged`,
  `RebuildNotify`) is a step. A load assignment maps the Services of a cluster that
  have ready addresses to the event that brought them.
* **SnapshotHandler**. `Refresh` and `OnChange` on two goroutines: load, store and
  format the version (a data race, so each access is a step and the formatted value
  may come from a register or from memory), read five caches one after the other,
  publish under the mutex. `AddSnapshotter` happens at any time. `Respond` stands
  for go-control-plane, which is not part of the repository.
* **EventHandler**. The loop of `Start` with discrete time: `Accept` (an event that
  changes the cache or one that does not), `AcceptLeader`, `Rebuild`, `Send`,
  `Rebuilt`, and the leader's `Apply`. Whether an event changes the cache is a
  choice here and `KubernetesCache`'s subject.
* **KubernetesCache**. `OnAdd`, `OnUpdate`, `OnDelete` as `onUpdate` executes them,
  and next to them what the DAG processors would resolve (`ServiceInUse`,
  `CertificateInUse`, `DelegationPermitted`, `PolicyPermitted`). `View` is all that
  a DAG built now would be made of. There is one object per kind and namespace, so a
  reference is a namespace; the spelling of a reference (`Own`, or with its
  namespace) is kept because the code compares spellings.
* **ObjectStatus**. One object, of kind HTTPProxy, Gateway, HTTPRoute or
  ExtensionService, at the API server, in the watch and in the informer's store;
  `Rebuild` sends its condition, the load balancer writer its address; `Take`,
  `GetObject`, `Update`, `Conflict`, `Failure` are the steps of the status writer.
  While this replica is not the leader, another one writes.
* **GatewayControllers**. Classes and Gateways with creation times, the watches
  (`MapGatewayClassToGateways`, `WatchGateway`), both `Reconcile` functions, the
  rebuild that reports on the DAG's Gateway, and the status channel whose writes are
  events again. `Reconcile` is one step: whatever changes after it has listed the
  objects is an event that makes it run again.
* **Conditions, Policies, DAG, APIObjects**. Operators without state: match
  conditions and their merge, the policies of routes, virtual hosts with their
  routes and clusters, lookups of Services and Secrets, and one record for each type
  of the API. A path is a sequence of segments and whether a slash ends it; a header
  value, a timeout or a PEM block is one of a few values that the code tells apart.
* **HTTPProxyProcessor**. `Run`: a step for each proxy of the map in any order, then
  one for each orphan. A step is the whole of `computeHTTPProxy`, that is TLS, the
  fallback certificate, client validation, authorization, includes (with an accessor
  committed for each visit), routes and TCP proxy, with every early return and what has
  been written to the DAG before it. Following includes is a recursive function over
  the proxies that have been visited. The initial states are all clusters whose lists
  are lists (`ProxiesWellFormed`; `ObjectsWellFormed` in `Builder`); `MC` modules choose
  among them.
* **IngressProcessor, ExtensionServiceProcessor, GatewayAPIProcessor**. The functions
  of the other processors. `GatewayAPIProcessor` has listeners, allowed routes, hosts,
  reference policies, rules, filters, weights and conditions.
* **EnvoyConfig**. What the four caches make of a DAG: route configurations in the
  order of the sorter, clusters by name (a name may stand for several clusters: the
  set is kept), filter chains and their filters, secrets.
* **Builder**. One rebuild: the processors in the order of `getDAGBuilder`, each pass
  of a loop over a Go map a step, then the observers. It extends the module of every
  processor, and the steps of `HTTPProxyProcessor` are among its own.
* **Configuration, Serve**. `Configuration` has the defaults, the validation of the
  file and of the SesameConfigurationSpec, and the conversion between them, for the
  parameters something is decided by. `Serve` goes from the arguments (`ParseConfig`,
  twice) over `Validate`, `NewServer`, `Configure` and `Setup` to the services that
  start in any order (`HTTPServiceStart`, `XDSServerStart`), any of which may end the
  process.
* **ShutdownManager, ConnectionDrain**. `ConnectionDrain` is the abstract
  specification: serving, draining, drained with a count within the limit that was made
  after Envoy was told, released, and a drain may be abandoned. `ShutdownManager` has the hook (`ShutdownEnvoy` with
  its attempts, `Poll`, `CreateReadyFile`), a handler per request for `/shutdown`, and
  as its environment Envoy with its clients and the kubelet. `DrainImplemented` is the
  refinement, under the mappings `Phase` and `Told`.
* **Sesame**. `main`: the binary is either `serve` or the pair of Envoy's hooks.

## 3. What TLC checks

### Passing runs

| run | shows |
|---|---|
| `server` | no send on a waiter's channel blocks (`NeverWedged`); a stream at rest has sent the newest contents (`IdleIsFresh`); versions increase (`VersionsIncrease`); every open stream ends up with the last contents (`EventuallyFresh`) |
| `endpoints` | incremental and full computation agree unless handlers overlap (`EntriesExact`); every change is notified, however they overlap (`ChangesNotified`) |
| `snapshot` | a rebuild that runs alone repairs any earlier overlap (`SoloSnapshotCurrent`); without overlaps a version stands for one snapshot (`VersionIdentifiesContents`), and versions move, the wrap included (`VersionMoves`) |
| `handler` | on a replica that becomes the leader batching forgets nothing (`NoneForgotten`), delays nothing beyond both hold-off delays (`HoldoffBounded`), and statuses end up current (`StatusConverges`) |
| `cache` | the cache holds what it accepts (`CacheMirrorsWorld`); whatever changes the DAG's input asks for a rebuild (`RebuildRequested`) |
| `status` | the two writers do not undo each other (`FieldsKept`); an older condition of an HTTPProxy never replaces a newer one (`ProxyGenerationsKept`); addresses and the conditions of Gateways converge (`StatusesConverge`: `AddressConverges` and `ConditionConverges`), and the writes end (`Settles`) |
| `controllers` | one class accepted, its oldest Gateway in the DAG, the others marked, whenever nothing is left to do (`QuietIsRight`: `OneClassAccepted`, `OldestGatewayInDAG`, `OthersNotScheduled`); the controllers come to rest (`ControllersSettle`) |
| `proxies` | exactly the proxies no root reaches are orphaned, in any order of the map (`OrphansExact`); a later visit hides no error (`InvalidStays`); cycles are reported (`CyclesReported`); TLS is not served in the clear, without a permitted certificate or without the authorization asked for (`TLSHostsSound`: `TLSHostNotInClear`, `SecureHostSound`); a valid root has exactly the routes of its include chains, and rewrites and header conditions are sound (`RoutesAsAsked`: `RoutesExact`, `PrefixRewriteClean`, `HeaderConditionsSound`) |
| `builder` | nothing that asks for TLS is forwarded in the clear (`InClearOnlyAsAllowed`); Gateway routes are served only on hosts their listener and they allow (`GatewayHostsAllowed`), services of other namespaces are reached only as granted, and a host has only a certificate that an object which names it for this host may use (`CrossNamespaceGranted`); an Ingress' certificate secures the routes of all, and a route reported as accepted is served, by a Gateway that has what it needs (`AskedIsServed`: `IngressSecureComplete`, `AcceptedServed`, `ValidGatewayUsable`); whatever Envoy is told to use exists, and its filters are complete and in order (`ResourcesComplete`: `ReferencesResolved`, `FiltersInOrder`); no route hides a more specific one (`MostSpecificFirst`), and traffic is split as asked (`WeightsServed`) |
| `sesame` | the Envoy service's name is that of the flag, else of the file (`Precedence`); probes are answered in the clear exactly once (`ProbesAnswered`); configured Secrets are watched (`SecretsWatched`); serve comes up or ends with a reason (`ComesUpOrEnds`); Envoy is answered only after the hook of this shutdown (`AnswerFollowsHook`), and in the end (`ShutdownAnswered`); the hooks implement a drain, in which Envoy is let go only after a low enough count, made after its health check failed or could not be failed (`DrainImplemented`) |

A property that is a conjunction has its parts defined before it, each with its own
comment. The types of the variables are given where they are declared; type
invariants are kept where a proof needs one (`SesameServer`, `ShutdownManager`).

### Runs that find a disagreement

Each states what a comment of the code says, and TLC finds a behaviour of the code
that contradicts it; `PROJECT.json` quotes the lines.

| run | behaviour |
|---|---|
| `handler_replica` | on a replica that is not the leader the status channel fills and `rebuildDAG` blocks |
| `gateway_wildcard` | with two wildcard hostnames in an HTTPRoute the routes of each host demand both, and match nothing |

### Other known disagreements

Behaviour of the models that contradicts a comment or a document, found while the
properties were stated. The passing properties leave these cases out (next section).

* `endpointstranslator.go:298`. "Since we reset the cluster cache above, all the load
  assignments will be recalculated and we can just set the entries". An endpoints
  event between `SetClusters` and `Recalculate` takes the stale clusters, and
  `OnChange` replaces all entries by what is left: load assignments of clusters in use
  are gone until the next DAG or event.
* `snapshot.go:89`. `generateNewSnapshot` reads the caches without a lock: of two
  snapshots the one read first may be published last, and stays.
* `cache.go:305`. `serviceTriggersRebuild` does not look at TLSRoutes (nor
  `secretTriggersRebuild` at ExtensionServices): a Service added after the TLSRoute
  that refers to it causes no rebuild.
* `gatewaystatus.go:151`, `routeconditions.go:182`. "is there a newer Condition [...]
  keep the newer one": the lookup stores the zero value, so that a new leader writes
  what it had queued over newer conditions of Gateways and routes.
* `httpproxy_processor.go:644`. One map of dynamic headers serves all routes of a
  proxy: a route after the first has `%Sesame_SERVICE_NAME%` replaced by the service
  of an earlier one, although "For per-Route `requestHeadersPolicy` only
  `%Sesame_NAMESPACE%` is set" (`request-rewriting.md:256`).
* `serve.go:124-128`. The leader election flags have defaults, so that the second
  parse overwrites the file's `leaderelection` values, against the precedence that
  `registerServe` describes.
* `serve.go:392`. `applyHeaderPolicyToIngress` is not handed to `getDAGBuilder`: the
  documented `applyToIngress` has no effect.
* `shutdownmanager.go:190`. The ready file is never removed: after a restart of the
  shutdown-manager container the next `/shutdown` is answered at once.

### Conditions of the passing properties

Some properties hold under a condition that the code needs and does not state. Each
is visible in the module, and dropping it makes TLC find the behaviour in brackets.

* `VersionIdentifiesContents`, `VersionMoves`: the two goroutines have not overlapped
  (`snapshotVersion++` is not synchronised, and two snapshots can get one version).
* `SoloSnapshotCurrent`: there is a snapshot (a snapshotter attached after the first
  DAG has none until something changes again).
* `RebuildRequested`: no TLSRoutes, no ExtensionServices, and `OwnQualified = FALSE`
  (the cache looks at none of the first two, and compares a `secretName` as it is
  spelled).
* `ConditionConverges`: Gateways only (an HTTPProxy's update that is compared with a
  stale object is dropped as a no-op, and nothing sends it again).
* `AddressConverges`: the load balancer has an address (an address that goes away
  stays in the status).
* `Settles`: HTTPProxies and Gateways (the status of an HTTPRoute is never found
  equal, so writes and rebuilds set each other off).
* `RoutesExact`, `CyclesReported`, `OrphansExact`: roots without TLS (with TLS the steps before the
  routes may return early; `SecureHostSound` and `TLSHostNotInClear` are about those).
* `PrefixRewriteClean`: no other route has the same prefix without a rewrite.
* `MostSpecificFirst`: at most one header condition, which excludes no value, and no
  regular expression (the comparison of headers is no strict order).
* `WeightsServed`: the sum fits a word (a sum of 0 modulo 2^32 means equal shares).
* `ReferencesResolved`: not the fallback chain's route configuration, and not the
  client certificates of extension clusters.
* `Precedence`: the name of the Envoy service, whose flag has no default. The flags of
  metrics and stats have none either, but there the file prevails on purpose
  (`servecontext.go:402`). `AnswerFollowsHook`: the container was never
  restarted. `ShutdownAnswered`: the file could be made, Envoy lives, and it could be
  told to fail its health check.
* `OldestGatewayInDAG`: `Patient = TRUE` (a Gateway deleted just before its class
  stays in the DAG).
* `StatusesConverge`: no write has failed for another reason than a conflict.

### Bounds

* `SesameServer`: two streams, two resource names, two updates, and either kind of
  cache: a notification can be missed, coalesced, and race with a second stream's
  registration.
* `EndpointsTranslator`: two Services, two clusters, a few events and rebuilds:
  clusters share Services, appear and disappear, and events overlap each step of a
  rebuild.
* `SnapshotHandler`: two informer changes and two rebuilds; `MaxInt64 = 3` makes
  the version wrap.
* `EventHandler`: hold-off 2 and maximum 3 ticks, five events: the timer is set anew
  until the maximum is exceeded; a channel of 3 fills with two objects.
* `KubernetesCache`: two namespaces, so that own and foreign references differ; no
  bound on the number of events. A behaviour picks one of three families of kinds
  that refer to each other (`MCKubernetesCache`); the theorems have no such split. A
  Service has two revisions, so has a TLS Secret.
* `ObjectStatus`: a behaviour picks a scenario, a kind of object with the numbers of
  edits, changes, moves and failures (`MCObjectStatus`); two attempts, a channel of
  two: enough for a stale read, a conflict, and a second update in flight.
* `GatewayControllers`: two classes and two Gateways, four of them created and
  deleted, in one second or in different ones (`pace`); a channel of 2.
* `HTTPProxyProcessor`, `Builder`: families of clusters, each of which varies one part
  of the API, or two that meet on a host, and leaves the rest as in a simple valid
  object: two roots and three proxies with includes in two namespaces, so that cycles,
  shared children and orphans all occur; two Ingresses; a Gateway of up to two
  listeners and two routes; three namespaces. `Word = 256` stands for 2^32 in sums of
  weights.
* `Sesame`: some two thousand inputs in four families (precedence, endpoints, secrets,
  validation). In the pod one request, four attempts as in the code, two connections
  per listener of which one may be left open, one late connection and one restart;
  the theorems have none of these bounds.

Deadlock is not checked where the bounded environment may simply stop.

### Fairness

Weak fairness of a goroutine's steps says that the scheduler runs what can run.
`EventHandler` needs the clock to go on and events to end; then Go's `select`, which
chooses at random, takes the expired timer. The election of this replica is assumed
fair in the runs about the replica that becomes the leader, and not in
`handler_replica`. In `ObjectStatus` senders on the status channel have strong
fairness: Go serves blocked senders in the order they came. In `GatewayControllers`
the controllers, the EventHandler and the status writer together work while there is
anything to do. `SesameServer` assumes that a stream whose channel has a value goes
on, and that Envoy acknowledges what it got. `Serve` assumes that the program goes on
and the informers sync. In `ShutdownManager` the hook and the handlers go on (sleeps
end), clients close their connections, and a request to Envoy's admin interface, or a
look for the file, that is possible again and again succeeds in the end (strong
fairness); Envoy need not live, the file need not be made, and the kubelet may end it
all at any time. In a pod that ends, the kubelet stops the shutdown-manager container as
soon as that container's own hook has returned, which may cut off a `/shutdown` that
still waits; there is no action for that, and `ShutdownAnswered` has it only as an Envoy
that exits, or a grace period that ends, without the answer.

## 4. What is proved

The theorems hold for every value of the constants that satisfies the named
assumptions.

* `SesameServer_proofs`: `TypeCorrect`, `CondNeverWedges`, `IdleStreamsAreFresh`,
  `StreamVersionsIncrease`. The inductive invariant says where a stream's channel
  may hold a value and where it may be registered: a stream that is registered has
  an empty channel, one that is not waiting is not registered. That is why no send
  blocks. Freshness adds that a waiting, unregistered stream has a value in its
  channel, and a registered one has seen the last notification.
* `SesameServer_proofs`, endpoints: `EntriesExactAlways` rests on an invariant for each
  program counter while no handler overlaps: outside the stale clusters, and the
  ones in the hands of `Merge`, the entries are already right. `ChangesNotifiedAlways`
  says that an unnotified change is always ahead of some goroutine at its `Notify`.
* `EventHandler_proofs`: `NoneForgottenAlways`, `HoldoffBoundedAlways`. The bound
  needs that, while an event is outstanding, its age plus what is left of the timer
  is within both delays: an event that finds the maximum exceeded sets the timer to 0.
* `EventHandler_proofs`, cache: `CacheMirrors`, and `RebuildsAreRequested` for all kinds
  but TLSRoute and ExtensionService and for references by name, the exceptions being
  exactly those of section 3. It relates, kind by kind, who uses a Service or Secret
  to what the two tests look at, with the mirror as the inductive invariant.
* `SnapshotHandler_proofs`: `SoloSnapshotCurrentAlways`, `VersionMovesAlways`,
  `VersionIdentifiesContentsAlways`. A goroutine that is alone has read, of the caches
  its loop has passed, what they hold now, as nobody else changes them. For the version
  the invariant follows the unsynchronised counter through load, store and format: while
  the goroutines have not overlapped the snapshot in place has the counter's version
  until the next one is stored, and the wrap leads from the largest version to 1, which
  differ. Up to the wrap the counter is the number of snapshots begun, so that a version
  is used once.
* `Sesame_proofs`, statuses: `FieldsKeptAlways`, `ProxyGenerationsKeptAlways`. What keeps two
  writers with stale reads apart is that an update is accepted only for the version it
  was made from: a version that was read and is not outdated is the API server's
  (`BaseCurrent`), though it came from the informer's store, whose watch ends at the API
  server's version (`WatchEndsAtAPI`). The generations need that this replica applies
  nothing before its election, and that up to then the condition is of the object's
  generation or an older one.
* `GatewayControllers_proofs`: `OneClassAcceptedAlways` and `QuietIsRightAlways`, which is
  all three parts of `QuietIsRight`. A state at rest says little about the steps before
  it, so that the invariant is about the work on its way. `ClassInv`: with an empty work
  queue of the class controller the DAG has the oldest class, and the last update on its
  way to each class, or what the class says if there is none, is the right verdict.
  `OneInv`: there are never two accepted classes, because the updates that reject the
  others are ahead of the one that accepts, and no update outlives its class.
  `GatewayInv`: unless the gateway controller is going to reconcile (`Pending`, which an
  event of a class that is gone does not count for), the DAG has the right Gateway, the
  others have been told or are about to be, and the one in the DAG has been reported on
  last, or is about to be. The second and third need `Patient`, as in section 3;
  `OneClassAcceptedAlways` does not. `LeastNat`, a consequence of the well-foundedness of
  the natural numbers, gives the oldest object of any set.
* `Sesame_proofs`: a step of the binary is a step of one of the two pods (`StepOfOne`), so
  that the theorems are about the specification of the `sesame` run.
  `ShutdownTypeCorrect`, `HealthFailsFirstAlways`, `AnswerFollowsHookAlways` and the
  refinement `ShutdownImplementsDrain`: the invariant ties the file to the count it was
  made for, a hook that is about to make the file to a count within the limit, and,
  without restarts, the file to a hook that has returned; an answered request implies
  the file. `SecretsWatchedAlways`, `ProbesAnsweredAlways`, for any inputs: what is
  registered is what the valid configuration in force asks for. `PrecedenceAlways`, of
  the name of the Envoy service: the invariant says what each of the two parses leaves behind. Between them a file that is
  named has replaced what the flags had set, and the second sets the flags on top of it.

* `Loops`: what the proofs about the processors need of loops and of recursion. The
  operators that loop are folds, and the prover has no induction over a list. `Loops`
  is a module whose parameters are what one pass does and what is to be shown of the
  result; from the well-foundedness of the natural numbers it proves, once, that a loop
  whose every pass keeps a fact keeps the fact (`LoopKeeps`), that two loops whose
  passes agree give the same result (`LoopSame`), that what the pass for one element
  brings about is there after the loop (`LoopReaches`), that a recursive
  function whose calls get smaller satisfies its equation (`RecursionSolves`), and
  induction over the size of calls (`SizeInduction`), the passes of a loop
  (`PassesInduction`) and lists (`ListInduction`). A module of proofs instantiates it for
  each loop of the model.
* `HTTPProxyProcessor_proofs`: `ProxiesStayInvalid`, `HostsKeepTLS`, `OrphansAlwaysExact`
  and `CyclesAlwaysReported`, for any number of proxies and any includes. The first is about the accessors committed on the way: a
  commit adds errors to what a proxy has and removes none (`Stays`), so that the visits
  of a root, however they are nested, do not either; they end because each has fewer
  proxies left to visit. The second needs `ProxyInv`. Of the hosts in the DAG it says
  whose they are: each belongs to one root that has it for itself. Of each root that has been
  computed it says, in `RootSound`, that what is in the clear may be there, and that in
  the clear or under TLS either nothing is served or the certificate, the client
  validation and the authorization asked for are in place; a fallback certificate is
  used only where neither of the last two is asked for. A root returns early at many
  places, and each leaves something behind, so the lemma in the middle,
  `ComputeRootFacts`, describes what computing a root does wherever it returns.

  The last two compare the visits with the graph of includes. What is below a root is
  defined without paths, as the least set that has its children and with each proxy the
  proxy's children (`Below`). A visit ends at a proxy that is already on its way, so that
  what it takes from the orphaned proxies is closed only up to those on the way
  (`FreedSound`); for a visit that starts at a root there are none, and what it takes is
  what is below the root (`FreedByRoot`). `OrphanInv` then says which proxies are taken
  for orphaned between the steps, given that the roots come last. A cycle is a set of
  proxies each of which has a child in it (`Looping`): a visit that comes by one of them
  commits an error for one of them (`CyclesSeen`), because to come to an end without one
  it would have to leave the set. Commits are kept by those that follow, so that
  `CycleInv` holds of every root that has been computed.
* `Builder_proofs`: that `CrossNamespaceGranted` holds of every rebuild
  (`ReferencesGranted`), `ResourcesComplete` (`ResourcesFitTogether`),
  `InClearOnlyAsAllowed` (`InClearAlwaysAllowed`) and `WeightsServed`
  (`WeightsAlwaysServed`). The invariant
  `BuildInv` has four parts. `ObjectsSound`: every cluster of every route and every
  certificate in the DAG is of a Service or a Secret that exists and that the object
  referring to it may use, a certificate by an object that names it for the very host
  that has it, and an authorization names an extension cluster that is in the DAG
  (`DAGGranted`); this goes through every processor, as each writes routes.
  `LoopSound` and `GatewaySound`: what the loops under way hold is of that kind too.
  `XDSSound`: the resources that have been made are made of this DAG, and a host with
  TLS has its route configuration or is still to be visited by the loop. From it
  references are resolved by following the names: that of a cluster in a route, a TCP
  proxy or a filter is one of those `GetClusters` collects, that of a certificate one
  of those the secret cache collects, that of a route configuration one of those the
  route cache has made for its host. The order of filters is about what the chain
  builders do in sequence: each adds a filter to a list that ends with the router and
  keeps it last (`RouterLast`, `FilterAdded`). What may be in the clear is a part of
  `DAGGranted` about the virtual hosts without TLS (`ClearAllowed`): each processor
  adds to such a host only routes whose object allows it, or that redirect to HTTPS or
  answer by themselves, and `buildRoute` keeps them so (`Forwarded`). An Ingress and an
  HTTPProxy may have one name, so that a route of the model names the kind of its object
  too (`ownerKind`); the code has no such field. For HTTPProxies the fact is one of
  `HTTPProxyProcessor_proofs`, about every route of every visit (`AsAsked`).
  `WeightsServed` is about sums. By induction over lists, a sum of naturals is a natural,
  is at least each of them, and if it fits a word is what the code's sum, wrapped at
  each addition, gives (`WrappedTotal`). What Envoy is given is then the weights as they are (`SplitByWeight`), the same
  for all if the sum is zero (`SplitEvenly`), or one cluster (`SplitToOne`).
  That the weights in the DAG are naturals is a part of `DAGGranted`, to which the
  conversion of each processor to a word contributes.

The assumptions are named where the constants are declared and are evaluated in every
run: numbers are natural numbers, sets of objects are finite, names of classes are not
names of Gateways, the status channel has room for what one `Reconcile` sends
(`ControllersAssumption`), and a configuration file that is parsed has a value for each
parameter, since it is parsed into the defaults (`InputsAssumption`). `Nil`, which stands
for nil and the empty string, is not a reason that TLS is refused for
(`TLSReasonsAssumption`), nor the name of a filter (`FilterNamesAssumption`), nor the
status of a direct response (`StatusCodesAssumption`). A word is not empty
(`WordAssumption`); the initial states say of the objects that weights are integers
(HTTPProxy, where int64 becomes uint32) or naturals (backends). The invariants were checked by
TLC on the instances of section 3 before they were proved.

Only model-checked:

* everything under fairness (`EventuallyFresh`, `StatusConverges`, `StatusesConverge`,
  `Settles`, `ControllersSettle`, `ComesUpOrEnds`, `ShutdownAnswered`): liveness is out
  of the prover's reach;
* `RoutesExact`, which compares the routes of a root with those of all chains of includes:
  the visits and the reference definition build their lists in different orders, and
  relating them takes an induction over chains that has not been done;
* `GatewayHostsAllowed`, `MostSpecificFirst` and `HeaderConditionsSound`, which look into
  host names, prefixes and header values: in the modules these are the few texts of the
  instances, with their order and their wildcards given by tables, so that a theorem
  would be about those texts and say no more than TLC does;
* `PrefixRewriteClean`, which is about pairs of routes that `expandPrefixMatches` makes
  from the whole list of a root: it needs an invariant of the fold over all routes, not
  of each route;
* `AskedIsServed`, which says of what each Ingress or route asked for that it is served.
  It would need invariants of the loops of the processors in the other direction: not
  that what is in the DAG was asked for, as `BuildInv` says, but that what was asked for
  is in the DAG and that nothing later takes its place.

## 5. What is not modelled

* The wording of errors, X.509 parsing, circuit breaker annotations, DNS families, the
  access log and the fields of Envoy's messages that no property tells apart.
* A stream that changes its resource names; gRPC failures other than the end of a
  stream.
* `Reconcile` after an election (`OnElectedLeader` of the controllers), errors of
  `List`, Ingress status (one writer only).
* Bootstrap and certgen (one-shot), the `cli` client, what the debug, health and
  metrics services answer; `workgroup`, which only the feature tests use; the namespace
  filter and the EventRecorder, which have no state.
* The use of parameters that are validated and handed on as they are (access log fields,
  cipher suites, header policies), and environment variables. The manager's own metrics listener (controller-runtime's
  default port).
* An Ingress with a resource backend, on which `serviceTriggersRebuild` would
  dereference nil; random order of listener statuses.

## 6. Plan

Done, in this order: the xDS server and `Cond`; endpoints; snapshots; the event
handler; the cache; statuses; the gateway controllers; the HTTPProxy processor; the
other processors, the builder and Envoy's configuration; configuration, serve and the
shutdown manager with its abstract drain. Proved after that: the safety properties of
the concurrent parts and the refinement of the drain; then, over `Loops`, those of the
processors that section 4 lists.

Next:

1. The invariants of the processors that are only model-checked: `AskedIsServed` over
   the lemmas of `Builder_proofs`, and `RoutesExact` over chains.
2. A composition of the cache, the handler and the server in which Envoy ends up with
   the DAG of the last event, as a refinement of one register that is written and read.
3. A stream that changes its resource names; an election in the controllers; Gateways
   with two listeners in `ObjectStatus`.

## 7. Running

    tlc -config EventHandler.cfg MCEventHandler
    tlapm EventHandler_proofs.tla

`PROJECT.json` lists every run with its module and configuration.
