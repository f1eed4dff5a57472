------------------------- MODULE EndpointsTranslator ------------------------
(***************************************************************************)
(* The EndpointsTranslator and its EndpointsCache                           *)
(* (internal/xdscache/v3/endpointstranslator.go). Two goroutines use it:    *)
(* the endpoints informer calls OnAdd, OnUpdate and OnDelete, one event at  *)
(* a time, and the goroutine that rebuilds the DAG calls OnChange. Each     *)
(* takes the mutex of the cache and that of the entries several times, so   *)
(* each critical section is a step of its own.                              *)
(***************************************************************************)
EXTENDS Integers

CONSTANTS
  Services,   (* Kubernetes Services, which share their name with Endpoints *)
  Clusters,   (* names of service clusters                                  *)
  MaxEvents,  (* bound: endpoints events the informer delivers              *)
  MaxRebuilds,(* bound: DAG rebuilds                                        *)
  NoObject,   (* there is no Endpoints object                               *)
  NoSubsets,  (* the Endpoints object has no subsets                        *)
  NotReady    (* it has subsets, but none with a ready address              *)

ASSUME TranslatorAssumption ==
  /\ MaxEvents \in Nat /\ MaxRebuilds \in Nat
  /\ {NoObject, NoSubsets, NotReady} \cap Nat = {}
  /\ NoObject # NoSubsets /\ NoObject # NotReady /\ NoSubsets # NotReady

VARIABLES
  endpoints,  (* cache.endpoints: an event number stands for ready addresses *)
  services,   (* cache.services, by cluster: the cluster's Services, {} if   *)
              (* the DAG has no such cluster                                 *)
  stale,      (* cache.stale, as the set of its cluster names                *)
  entries,    (* e.entries: the load assignment of each cluster              *)
  informer,   (* the informer goroutine's next step ...                      *)
  merging,    (* ... and the result of its Recalculate                       *)
  rebuild,    (* the DAG goroutine's next step ...                           *)
  setting,    (* ... and the result of its Recalculate                       *)
  events,     (* endpoints events so far                                     *)
  rebuilds,   (* DAG rebuilds so far                                         *)
  unnotified, (* history: entries changed and nobody has called Notify since *)
  overlapped  (* history: the two goroutines have overlapped since the last  *)
              (* OnChange that began alone                                   *)

translatorVars == <<endpoints, services, stale>>
informerVars == <<informer, merging, events>>
rebuildVars == <<rebuild, setting, rebuilds>>
endpointsVars == <<translatorVars, entries, informerVars, rebuildVars, unnotified, overlapped>>

Ready == 1..MaxEvents
Objects == Ready \union {NoSubsets, NotReady}

NoEntries == [c \in {} |-> {}]

EndpointsInit ==
  /\ endpoints = [s \in Services |-> NoObject]
  /\ services = [c \in Clusters |-> {}]
  /\ stale = {}
  /\ entries = NoEntries /\ merging = NoEntries /\ setting = NoEntries
  /\ informer = "idle" /\ rebuild = "idle"
  /\ events = 0 /\ rebuilds = 0
  /\ unnotified = FALSE /\ overlapped = FALSE

-----------------------------------------------------------------------------
(* EndpointsCache *)

(* RecalculateEndpoints, for every Service of a cluster. *)
LoadAssignment(c) ==
  [s \in {t \in services[c] : endpoints[t] \in Ready} |-> endpoints[s]]

(* The clusters in use: Validate refuses one without Services. *)
InUse == {c \in Clusters : services[c] # {}}

(* Recalculate's result; it also empties the stale list. *)
Recalculated == [c \in stale |-> LoadAssignment(c)]

(* What the entries should be. *)
Expected == [c \in InUse |-> LoadAssignment(c)]

(* The clusters that use s become stale. *)
Affected(s) == {c \in Clusters : s \in services[c]}

-----------------------------------------------------------------------------
(* The informer goroutine *)

(* A variant that stores the endpoints and forgets the stale clusters. *)
StoreForgetsStale(s, ep) ==
  /\ endpoints' = [endpoints EXCEPT ![s] = ep]
  /\ informer' = IF Affected(s) = {} THEN "idle" ELSE "recalculate"
  /\ UNCHANGED stale

(* UpdateEndpoint and DeleteEndpoint: store, mark stale, go on if in use. *)
Store(s, ep) ==
  /\ endpoints' = [endpoints EXCEPT ![s] = ep]
  /\ stale' = stale \union Affected(s)
  /\ informer' = IF Affected(s) = {} THEN "idle" ELSE "recalculate"

Event ==
  /\ informer = "idle"
  /\ events < MaxEvents
  /\ events' = events + 1
  /\ overlapped' = (overlapped \/ rebuild # "idle")
  /\ UNCHANGED <<services, entries, merging, rebuildVars, unnotified>>

(* The object an event brings: fresh addresses, or none that are ready. *)
NewObjects == {events + 1, NoSubsets, NotReady}

OnAdd(s) ==
  /\ Event
  /\ endpoints[s] = NoObject
  /\ \E ep \in NewObjects : Store(s, ep)

(* An update from no subsets to no subsets is ignored. *)
OnUpdate(s) ==
  /\ Event
  /\ endpoints[s] # NoObject
  /\ \E ep \in NewObjects :
       IF endpoints[s] = NoSubsets /\ ep = NoSubsets
       THEN UNCHANGED <<endpoints, stale, informer>>
       ELSE Store(s, ep)

OnDelete(s) ==
  /\ Event
  /\ endpoints[s] # NoObject
  /\ Store(s, NoObject)

InformerRecalculate ==
  /\ informer = "recalculate"
  /\ merging' = Recalculated
  /\ stale' = {}
  /\ informer' = "merge"
  /\ UNCHANGED <<endpoints, services, entries, events, rebuildVars, unnotified, overlapped>>

(* The existing entries with some of them replaced. *)
Merged(new) ==
  [c \in DOMAIN entries \union DOMAIN new |->
     IF c \in DOMAIN new THEN new[c] ELSE entries[c]]

Merge ==
  /\ informer = "merge"
  /\ entries' = Merged(merging)
  /\ merging' = NoEntries
  /\ unnotified' = (unnotified \/ entries' # entries)
  /\ informer' = "notify"
  /\ UNCHANGED <<translatorVars, events, rebuildVars, overlapped>>

InformerNotify ==
  /\ informer = "notify"
  /\ unnotified' = FALSE
  /\ informer' = "refresh"
  /\ UNCHANGED <<translatorVars, entries, merging, events, rebuildVars, overlapped>>

(* Observer.Refresh: the snapshot handler, see SnapshotHandler. *)
Refresh ==
  /\ informer = "refresh"
  /\ informer' = "idle"
  /\ UNCHANGED <<translatorVars, entries, merging, events, rebuildVars, unnotified, overlapped>>

-----------------------------------------------------------------------------
(* The goroutine that rebuilds the DAG: OnChange *)

(* SetClusters, with the valid service clusters of the new DAG. *)
SetClusters(new) ==
  /\ rebuild = "idle"
  /\ rebuilds < MaxRebuilds
  /\ rebuilds' = rebuilds + 1
  /\ services' = new
  /\ stale' = {c \in Clusters : new[c] # {}}
  /\ rebuild' = "recalculate"
  /\ overlapped' = (informer # "idle")
  /\ UNCHANGED <<endpoints, entries, informerVars, setting, unnotified>>

RebuildRecalculate ==
  /\ rebuild = "recalculate"
  /\ setting' = Recalculated
  /\ stale' = {}
  /\ rebuild' = "set"
  /\ UNCHANGED <<endpoints, services, entries, informerVars, rebuilds, unnotified, overlapped>>

(* A variant that decides whether to notify by the number of entries. *)
SetComparesLength ==
  /\ rebuild = "set"
  /\ entries' = setting
  /\ setting' = NoEntries
  /\ unnotified' = (unnotified \/ entries' # entries)
  /\ rebuild' = IF DOMAIN entries' # DOMAIN entries THEN "notify" ELSE "idle"
  /\ UNCHANGED <<translatorVars, informerVars, rebuilds, overlapped>>

(* "if !equal(e.entries, entries)": set the entries and notify, or do nothing. *)
SetIfChanged ==
  /\ rebuild = "set"
  /\ IF entries # setting
     THEN entries' = setting /\ unnotified' = TRUE /\ rebuild' = "notify"
     ELSE UNCHANGED <<entries, unnotified>> /\ rebuild' = "idle"
  /\ setting' = NoEntries
  /\ UNCHANGED <<translatorVars, informerVars, rebuilds, overlapped>>

RebuildNotify ==
  /\ rebuild = "notify"
  /\ unnotified' = FALSE
  /\ rebuild' = "idle"
  /\ UNCHANGED <<translatorVars, entries, informerVars, setting, rebuilds, overlapped>>

-----------------------------------------------------------------------------
Informer ==
  \/ \E s \in Services : OnAdd(s) \/ OnUpdate(s) \/ OnDelete(s)
  \/ InformerRecalculate \/ Merge \/ InformerNotify \/ Refresh

OnChange ==
  \/ \E new \in [Clusters -> SUBSET Services] : SetClusters(new)
  \/ RebuildRecalculate \/ SetIfChanged \/ RebuildNotify

EndpointsNext == Informer \/ OnChange

EndpointsSpec == EndpointsInit /\ [][EndpointsNext]_endpointsVars

-----------------------------------------------------------------------------
(* Properties *)

Quiescent == informer = "idle" /\ rebuild = "idle"

(* Between handlers, the entries are exactly the load assignments of the     *)
(* clusters in use, computed from the endpoints last seen, provided that no  *)
(* handler has overlapped another since an OnChange that ran alone: the      *)
(* incremental path (stale clusters, Merge) and the full path (SetClusters,  *)
(* replace) agree with each other.                                           *)
EntriesExact == Quiescent /\ ~overlapped => entries = Expected

(* However the goroutines interleave, no change of the entries is left       *)
(* without a Notify after it, although OnChange notifies only if it saw a    *)
(* difference and the informer's changes go in between.                      *)
ChangesNotified == Quiescent => ~unnotified
=============================================================================
