--------------------------- MODULE SnapshotHandler --------------------------
(***************************************************************************)
(* The SnapshotHandler (internal/xdscache/snapshot.go), which feeds the     *)
(* go-control-plane snapshot cache when xds-server-type is "envoy", with    *)
(* the two goroutines that call it: the endpoints informer (Refresh, after  *)
(* it changed the endpoints cache) and the DAG goroutine (OnChange, after   *)
(* the five caches have observed the new DAG one after the other).          *)
(* Only the last part of generateNewSnapshot is under a mutex. The version  *)
(* counter is read and written without one: a data race.                    *)
(***************************************************************************)
EXTENDS Integers, Sequences, SequencesExt

CONSTANTS
  MaxChanges,  (* bound: changes of the endpoints made by the informer *)
  MaxRebuilds, (* bound: DAG rebuilds                                  *)
  MaxInt64     (* the largest snapshot version                         *)

ASSUME SnapshotAssumption ==
  /\ MaxChanges \in Nat /\ MaxRebuilds \in Nat
  /\ MaxInt64 \in Nat /\ MaxInt64 > 1

Procs == {"informer", "rebuild"}

(* The caches, in the order in which the DAG's observers are composed ... *)
UpdateOrder == <<"listener", "secret", "route", "cluster", "endpoints">>

(* ... and in the order in which generateNewSnapshot reads them. *)
ReadOrder == <<"endpoints", "cluster", "route", "listener", "secret">>

Types == Range(UpdateOrder)

VARIABLES
  cache,           (* what each cache holds: the number of the change          *)
  changes,         (* changes made by the informer                             *)
  rebuilds,        (* DAG rebuilds                                             *)
  pc, step,        (* where each goroutine is, and in which of the five caches *)
  loaded,          (* the counter as the goroutine has loaded it               *)
  version,         (* the version its snapshot is going to have                *)
  resources,       (* the contents it has read                                 *)
  snapshotVersion, (* SnapshotHandler.snapshotVersion                          *)
  attached,        (* has xdsServer.Start called AddSnapshotter?               *)
  snapshot,        (* the snapshot cache; version 0 when it has none           *)
  envoy,           (* the snapshot Envoy has received                          *)
  overlapped,      (* history: the goroutines have overlapped since the last   *)
                   (* rebuild that began alone                                 *)
  raced            (* history: they have overlapped at all                     *)

procVars == <<pc, step, loaded, version, resources>>
cacheVars == <<cache, changes, rebuilds>>
vars == <<cacheVars, procVars, snapshotVersion, attached, snapshot, envoy, overlapped, raced>>

Contents == [Types -> Nat]
Nothing == [t \in Types |-> 0]

Init ==
  /\ cache = Nothing /\ changes = 0 /\ rebuilds = 0
  /\ pc = [p \in Procs |-> "idle"] /\ step = [p \in Procs |-> 1]
  /\ loaded = [p \in Procs |-> 0] /\ version = [p \in Procs |-> 0]
  /\ resources = [p \in Procs |-> Nothing]
  /\ snapshotVersion = 0
  /\ attached = FALSE
  /\ snapshot = [version |-> 0, resources |-> Nothing]
  /\ envoy = snapshot
  /\ overlapped = FALSE /\ raced = FALSE

-----------------------------------------------------------------------------
(* What sets the handler off *)

(* The informer has merged new load assignments and calls Refresh. *)
EndpointsChange ==
  /\ pc["informer"] = "idle" /\ changes < MaxChanges
  /\ changes' = changes + 1
  /\ cache' = [cache EXCEPT !["endpoints"] = @ + 1]
  /\ pc' = [pc EXCEPT !["informer"] = "load"]
  /\ overlapped' = (overlapped \/ pc["rebuild"] # "idle")
  /\ raced' = (raced \/ pc["rebuild"] # "idle")
  /\ UNCHANGED <<rebuilds, step, loaded, version, resources,
                 snapshotVersion, attached, snapshot, envoy>>

StartRebuild ==
  /\ pc["rebuild"] = "idle" /\ rebuilds < MaxRebuilds
  /\ rebuilds' = rebuilds + 1
  /\ pc' = [pc EXCEPT !["rebuild"] = "update"]
  /\ overlapped' = (pc["informer"] # "idle")
  /\ raced' = (raced \/ pc["informer"] # "idle")
  /\ UNCHANGED <<cache, changes, step, loaded, version, resources,
                 snapshotVersion, attached, snapshot, envoy>>

(* One cache after the other observes the DAG; the last is the endpoints    *)
(* cache, which may find its entries unchanged. Then OnChange.              *)
UpdateCache ==
  /\ pc["rebuild"] = "update"
  /\ LET i == step["rebuild"]
         t == UpdateOrder[i]
     IN  /\ \/ cache' = [cache EXCEPT ![t] = @ + 1]
            \/ t = "endpoints" /\ UNCHANGED cache
         /\ step' = [step EXCEPT !["rebuild"] = IF i < 5 THEN i + 1 ELSE 1]
         /\ pc' = [pc EXCEPT !["rebuild"] = IF i < 5 THEN "update" ELSE "load"]
  /\ UNCHANGED <<changes, rebuilds, loaded, version, resources,
                 snapshotVersion, attached, snapshot, envoy, overlapped, raced>>

-----------------------------------------------------------------------------
(* generateNewSnapshot *)

(* A variant of newSnapshotVersion that stays at the largest version. *)
LoadSaturates(p) ==
  /\ pc[p] = "load"
  /\ loaded' = [loaded EXCEPT ![p] =
                  IF snapshotVersion = MaxInt64 THEN MaxInt64 - 1 ELSE snapshotVersion]
  /\ pc' = [pc EXCEPT ![p] = "store"]
  /\ UNCHANGED <<cacheVars, step, version, resources, snapshotVersion,
                 attached, snapshot, envoy, overlapped, raced>>

(* A variant in which each goroutine counts by itself. *)
LoadOwnVersion(p) ==
  /\ pc[p] = "load"
  /\ loaded' = [loaded EXCEPT ![p] = IF version[p] = MaxInt64 THEN 0 ELSE version[p]]
  /\ pc' = [pc EXCEPT ![p] = "store"]
  /\ UNCHANGED <<cacheVars, step, version, resources, snapshotVersion,
                 attached, snapshot, envoy, overlapped, raced>>

(* newSnapshotVersion: back to 0 from the largest version, load ...        *)
LoadVersion(p) ==
  /\ pc[p] = "load"
  /\ snapshotVersion' = IF snapshotVersion = MaxInt64 THEN 0 ELSE snapshotVersion
  /\ loaded' = [loaded EXCEPT ![p] = snapshotVersion']
  /\ pc' = [pc EXCEPT ![p] = "store"]
  /\ UNCHANGED <<cacheVars, step, version, resources,
                 attached, snapshot, envoy, overlapped, raced>>

(* ... store the successor ... *)
StoreVersion(p) ==
  /\ pc[p] = "store"
  /\ snapshotVersion' = loaded[p] + 1
  /\ pc' = [pc EXCEPT ![p] = "format"]
  /\ UNCHANGED <<cacheVars, step, loaded, version, resources,
                 attached, snapshot, envoy, overlapped, raced>>

(* ... and format it: from a register, or from memory again. *)
FormatVersion(p) ==
  /\ pc[p] = "format"
  /\ \E v \in {loaded[p] + 1, snapshotVersion} : version' = [version EXCEPT ![p] = v]
  /\ pc' = [pc EXCEPT ![p] = "read"]
  /\ UNCHANGED <<cacheVars, step, loaded, resources, snapshotVersion,
                 attached, snapshot, envoy, overlapped, raced>>

(* A variant that reads the contents once and never again. *)
ReadContentsOnce(p) ==
  /\ pc[p] = "read"
  /\ LET i == step[p]
         t == ReadOrder[i]
     IN  /\ resources' = [resources EXCEPT ![p][t] = IF @ = 0 THEN cache[t] ELSE @]
         /\ step' = [step EXCEPT ![p] = IF i < 5 THEN i + 1 ELSE 1]
         /\ pc' = [pc EXCEPT ![p] = IF i < 5 THEN "read" ELSE "generate"]
  /\ UNCHANGED <<cacheVars, loaded, version, snapshotVersion,
                 attached, snapshot, envoy, overlapped, raced>>

(* Contents of one cache after the other, each under that cache's mutex. *)
ReadContents(p) ==
  /\ pc[p] = "read"
  /\ LET i == step[p]
         t == ReadOrder[i]
     IN  /\ resources' = [resources EXCEPT ![p][t] = cache[t]]
         /\ step' = [step EXCEPT ![p] = IF i < 5 THEN i + 1 ELSE 1]
         /\ pc' = [pc EXCEPT ![p] = IF i < 5 THEN "read" ELSE "generate"]
  /\ UNCHANGED <<cacheVars, loaded, version, snapshotVersion,
                 attached, snapshot, envoy, overlapped, raced>>

(* Under snapLock: hand the snapshot to the snapshotter, if there is one. *)
Generate(p) ==
  /\ pc[p] = "generate"
  /\ snapshot' = IF attached
                 THEN [version |-> version[p], resources |-> resources[p]]
                 ELSE snapshot
  /\ pc' = [pc EXCEPT ![p] = "idle"]
  /\ UNCHANGED <<cacheVars, step, loaded, version, resources, snapshotVersion,
                 attached, envoy, overlapped, raced>>

(* xdsServer.Start, once the informers' caches have synced. *)
AddSnapshotter ==
  /\ ~attached
  /\ attached' = TRUE
  /\ UNCHANGED <<cacheVars, procVars, snapshotVersion, snapshot, envoy, overlapped, raced>>

(* The go-control-plane server answers a watch whose version differs from   *)
(* the snapshot's.                                                          *)
Respond ==
  /\ snapshot.version # 0
  /\ envoy.version # snapshot.version
  /\ envoy' = snapshot
  /\ UNCHANGED <<cacheVars, procVars, snapshotVersion, attached, snapshot, overlapped, raced>>

-----------------------------------------------------------------------------
GenerateNewSnapshot(p) ==
  LoadVersion(p) \/ StoreVersion(p) \/ FormatVersion(p) \/ ReadContents(p) \/ Generate(p)

Next ==
  \/ EndpointsChange \/ StartRebuild \/ UpdateCache
  \/ \E p \in Procs : GenerateNewSnapshot(p)
  \/ AddSnapshotter \/ Respond

Spec == Init /\ [][Next]_vars

-----------------------------------------------------------------------------
(* Properties *)

Quiescent == \A p \in Procs : pc[p] = "idle"

(* Once the goroutines are at rest the snapshot holds what the five caches   *)
(* hold, if they have not overlapped since a rebuild that began alone: a     *)
(* rebuild repairs whatever an overlap before it has left behind.            *)
SoloSnapshotCurrent ==
  Quiescent /\ ~overlapped /\ snapshot.version # 0 => snapshot.resources = cache

(* As long as the goroutines have never overlapped, every snapshot has       *)
(* another version than the one it replaces, the wrap at MaxInt64 included,  *)
(* so an Envoy that waits is always answered.                                *)
VersionMoves ==
  [][~raced' /\ snapshot' # snapshot => snapshot'.version # snapshot.version]_vars

(* What newSnapshotVersion is for: a snapshot with the version Envoy already *)
(* has, which Envoy therefore is never sent, has the contents Envoy has,     *)
(* however many snapshots Envoy has missed; up to the wrap, and as long as   *)
(* the goroutines, which count without synchronisation, have not overlapped. *)
VersionIdentifiesContents ==
  /\ ~raced /\ changes + rebuilds <= MaxInt64
  /\ envoy.version = snapshot.version
  => envoy.resources = snapshot.resources
=============================================================================
