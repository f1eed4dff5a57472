----------------------- MODULE SnapshotHandler_proofs -----------------------
(***************************************************************************)
(* Proofs about the SnapshotHandler for any number of changes and rebuilds  *)
(* and any largest version: what the snapshot holds when the goroutines are *)
(* at rest, and what a version says of the contents that carry it.          *)
(***************************************************************************)
EXTENDS SnapshotHandler, TLAPS

Stages == {"idle", "update", "load", "store", "format", "read", "generate"}
Snapshots == [version : Nat, resources : Contents]

TypeOK ==
  /\ cache \in Contents /\ changes \in Nat /\ rebuilds \in Nat
  /\ pc \in [Procs -> Stages] /\ step \in [Procs -> 1..5]
  /\ loaded \in [Procs -> Nat] /\ version \in [Procs -> Nat]
  /\ resources \in [Procs -> Contents]
  /\ snapshotVersion \in Nat /\ attached \in BOOLEAN
  /\ snapshot \in Snapshots /\ envoy \in Snapshots
  /\ overlapped \in BOOLEAN /\ raced \in BOOLEAN

(* The loops over the five caches start with the first, and only the rebuild *)
(* updates them.                                                             *)
Loops ==
  /\ pc["informer"] # "update"
  /\ \A p \in Procs : pc[p] \notin {"update", "read"} => step[p] = 1

(* The history variables mean what they are called. *)
Alone ==
  /\ overlapped => raced
  /\ ~overlapped => pc["informer"] = "idle" \/ pc["rebuild"] = "idle"

(* A goroutine that is alone has read what the caches hold: nobody changes   *)
(* the caches it has passed.                                                 *)
ReadCurrent ==
  ~overlapped =>
    \A p \in Procs :
      /\ pc[p] = "read" =>
           \A i \in 1..5 : i < step[p] => resources[p][ReadOrder[i]] = cache[ReadOrder[i]]
      /\ pc[p] = "generate" => resources[p] = cache

(* Before there is a snapshotter there is no snapshot. *)
Attached == snapshot.version # 0 => attached

SnapshotInv == Loops /\ Alone /\ ReadCurrent /\ Attached /\ SoloSnapshotCurrent

-----------------------------------------------------------------------------
(* The version counter, as long as the goroutines have not overlapped. The   *)
(* version of the snapshot in place is the counter's, until the next one is  *)
(* stored; the wrap leads from MaxInt64 to 1, which differ.                  *)
CounterInv ==
  ~raced =>
    /\ snapshotVersion <= MaxInt64
    /\ \A p \in Procs :
         /\ pc[p] = "store" =>
              /\ loaded[p] = snapshotVersion /\ snapshotVersion < MaxInt64
              /\ \/ snapshot.version \in {0, snapshotVersion}
                 \/ snapshotVersion = 0 /\ snapshot.version = MaxInt64
         /\ pc[p] = "format" => loaded[p] + 1 = snapshotVersion
         /\ pc[p] \in {"read", "generate"} => version[p] = snapshotVersion
         /\ pc[p] \in {"format", "read", "generate"} =>
              snapshotVersion # 0 /\ snapshotVersion # snapshot.version
    /\ (\A p \in Procs : pc[p] \in {"idle", "update", "load"}) =>
         snapshot.version \in {0, snapshotVersion}

(* Up to the wrap the counter is the number of snapshots begun, so that      *)
(* versions only grow from one snapshot to the next, and to Envoy's.         *)
CountInv ==
  ~raced /\ changes + rebuilds <= MaxInt64 =>
    /\ changes + rebuilds =
         snapshotVersion + (IF \E p \in Procs : pc[p] \in {"update", "load", "store"} THEN 1 ELSE 0)
    /\ snapshot.version <= snapshotVersion
    /\ envoy.version <= snapshot.version
    /\ envoy.version = snapshot.version => envoy.resources = snapshot.resources

-----------------------------------------------------------------------------
(* The five caches: the two orders run over the same ones. *)
LEMMA OrderFacts ==
  /\ Types = {"listener", "secret", "route", "cluster", "endpoints"}
  /\ \A i \in 1..5 : UpdateOrder[i] \in Types /\ ReadOrder[i] \in Types
  /\ \A t \in Types : \E i \in 1..5 : ReadOrder[i] = t
<1>1. /\ DOMAIN UpdateOrder = 1..5
      /\ UpdateOrder[1] = "listener" /\ UpdateOrder[2] = "secret" /\ UpdateOrder[3] = "route"
      /\ UpdateOrder[4] = "cluster" /\ UpdateOrder[5] = "endpoints"
  BY DEF UpdateOrder
<1>2. /\ ReadOrder[1] = "endpoints" /\ ReadOrder[2] = "cluster" /\ ReadOrder[3] = "route"
      /\ ReadOrder[4] = "listener" /\ ReadOrder[5] = "secret"
  BY DEF ReadOrder
<1>3. Types = {UpdateOrder[i] : i \in 1..5}
  BY <1>1 DEF Types, Range
<1>4. Types = {"listener", "secret", "route", "cluster", "endpoints"}
  BY <1>1, <1>3
<1>5. \A i \in 1..5 : i = 1 \/ i = 2 \/ i = 3 \/ i = 4 \/ i = 5
  OBVIOUS
<1>6. \A i \in 1..5 : UpdateOrder[i] \in Types
  BY <1>3
<1>7. \A i \in 1..5 : ReadOrder[i] \in Types
  BY <1>2, <1>4, <1>5
<1>8. \A t \in Types : \E i \in 1..5 : ReadOrder[i] = t
  BY <1>2, <1>4
<1> QED BY <1>4, <1>6, <1>7, <1>8

LEMMA NextType == TypeOK /\ [Next]_vars => TypeOK'
<1> SUFFICES ASSUME TypeOK, [Next]_vars PROVE TypeOK'
  OBVIOUS
<1> USE DEF Procs, Stages, Contents, cacheVars, procVars
<1>1. CASE EndpointsChange
  BY <1>1, OrderFacts DEF EndpointsChange, TypeOK
<1>2. CASE StartRebuild
  BY <1>2 DEF StartRebuild, TypeOK
<1>3. CASE UpdateCache
  <2>1. UpdateOrder[step["rebuild"]] \in Types
    BY OrderFacts DEF TypeOK
  <2> QED BY <1>3, <2>1 DEF UpdateCache, TypeOK
<1>4. ASSUME NEW p \in Procs, GenerateNewSnapshot(p) PROVE TypeOK'
  <2>1. CASE LoadVersion(p)
    BY <2>1 DEF LoadVersion, TypeOK
  <2>2. CASE StoreVersion(p)
    BY <2>2 DEF StoreVersion, TypeOK
  <2>3. CASE FormatVersion(p)
    BY <2>3 DEF FormatVersion, TypeOK
  <2>4. CASE ReadContents(p)
    <3> DEFINE t == ReadOrder[step[p]]
    <3>1. t \in Types
      BY OrderFacts DEF TypeOK
    <3>2. resources' = [resources EXCEPT ![p][t] = cache[t]]
      BY <2>4 DEF ReadContents
    <3>3. resources' \in [Procs -> Contents]
      BY <3>1, <3>2 DEF TypeOK
    <3> QED BY <2>4, <3>3 DEF ReadContents, TypeOK
  <2>5. CASE Generate(p)
    BY <2>5 DEF Generate, TypeOK, Snapshots
  <2> QED BY <1>4, <2>1, <2>2, <2>3, <2>4, <2>5 DEF GenerateNewSnapshot
<1>5. CASE AddSnapshotter
  BY <1>5 DEF AddSnapshotter, TypeOK
<1>6. CASE Respond
  BY <1>6 DEF Respond, TypeOK
<1>7. CASE UNCHANGED vars
  BY <1>7 DEF vars, TypeOK
<1> QED BY <1>1, <1>2, <1>3, <1>4, <1>5, <1>6, <1>7 DEF Next

(* The types of the SnapshotHandler's state. *)
LEMMA SpecType == Spec => []TypeOK
<1>1. Nothing \in Contents
  BY DEF Nothing, Contents
<1>2. Init => TypeOK
  <2> SUFFICES ASSUME Init PROVE TypeOK
    OBVIOUS
  <2>1. snapshot \in Snapshots /\ envoy \in Snapshots
    BY <1>1 DEF Init, Snapshots
  <2>2. attached \in BOOLEAN /\ overlapped \in BOOLEAN /\ raced \in BOOLEAN
    BY DEF Init
  <2>3. pc \in [Procs -> Stages] /\ step \in [Procs -> 1..5] /\ loaded \in [Procs -> Nat]
        /\ version \in [Procs -> Nat] /\ resources \in [Procs -> Contents]
    BY <1>1 DEF Init, Stages
  <2> QED BY <1>1, <2>1, <2>2, <2>3 DEF Init, TypeOK
<1> QED BY <1>2, NextType, PTL DEF Spec

-----------------------------------------------------------------------------
(* What the snapshot holds *)

(* Alone and Loops are preserved by themselves. *)
LEMMA NextAlone == TypeOK /\ Loops /\ Alone /\ [Next]_vars => Loops' /\ Alone'
<1> SUFFICES ASSUME TypeOK, Loops, Alone, [Next]_vars PROVE Loops' /\ Alone'
  OBVIOUS
<1> USE DEF TypeOK, Procs, Loops, Alone, cacheVars, procVars
<1>1. CASE EndpointsChange
  BY <1>1 DEF EndpointsChange
<1>2. CASE StartRebuild
  BY <1>2 DEF StartRebuild
<1>3. CASE UpdateCache
  BY <1>3 DEF UpdateCache
<1>4. ASSUME NEW p \in Procs, GenerateNewSnapshot(p) PROVE Loops' /\ Alone'
  BY <1>4 DEF GenerateNewSnapshot, LoadVersion, StoreVersion, FormatVersion, ReadContents, Generate
<1>5. CASE AddSnapshotter
  BY <1>5 DEF AddSnapshotter
<1>6. CASE Respond
  BY <1>6 DEF Respond
<1>7. CASE UNCHANGED vars
  BY <1>7 DEF vars
<1> QED BY <1>1, <1>2, <1>3, <1>4, <1>5, <1>6, <1>7 DEF Next

LEMMA NextReadCurrent ==
  TypeOK /\ SnapshotInv /\ [Next]_vars => ReadCurrent' /\ Attached' /\ SoloSnapshotCurrent'
<1> SUFFICES ASSUME TypeOK, SnapshotInv, [Next]_vars
             PROVE  ReadCurrent' /\ Attached' /\ SoloSnapshotCurrent'
  OBVIOUS
<1> USE DEF SnapshotInv
<1>0. Loops' /\ Alone'
  BY NextAlone
<1>1. CASE EndpointsChange
  <2>1. pc'["informer"] = "load" /\ (~overlapped' => pc'["rebuild"] = "idle")
    BY <1>1, <1>0 DEF EndpointsChange, TypeOK, Procs, Alone
  <2>2. UNCHANGED <<attached, snapshot>>
    BY <1>1 DEF EndpointsChange
  <2> QED BY <2>1, <2>2 DEF ReadCurrent, Attached, SoloSnapshotCurrent, Quiescent, Procs
<1>2. CASE StartRebuild
  <2>1. pc'["rebuild"] = "update" /\ (~overlapped' => pc'["informer"] = "idle")
    BY <1>2, <1>0 DEF StartRebuild, TypeOK, Procs, Alone
  <2>2. UNCHANGED <<attached, snapshot>>
    BY <1>2 DEF StartRebuild
  <2> QED BY <2>1, <2>2 DEF ReadCurrent, Attached, SoloSnapshotCurrent, Quiescent, Procs
<1>3. CASE UpdateCache
  <2>1. pc["rebuild"] = "update" /\ pc'["rebuild"] \in {"update", "load"}
        /\ pc'["informer"] = pc["informer"]
    BY <1>3 DEF UpdateCache, TypeOK, Procs
  <2>2. UNCHANGED <<attached, snapshot, overlapped>>
    BY <1>3 DEF UpdateCache
  <2>3. ~overlapped' => pc'["informer"] = "idle"
    BY <2>1, <2>2 DEF Alone
  <2> QED BY <2>1, <2>2, <2>3 DEF ReadCurrent, Attached, SoloSnapshotCurrent, Quiescent, Procs
<1>4. ASSUME NEW p \in Procs, GenerateNewSnapshot(p)
      PROVE  ReadCurrent' /\ Attached' /\ SoloSnapshotCurrent'
  <2>1. ~overlapped => \A q \in Procs : q # p => pc[q] = "idle" /\ pc'[q] = "idle"
    BY <1>4 DEF GenerateNewSnapshot, LoadVersion, StoreVersion, FormatVersion, ReadContents,
                Generate, Alone, TypeOK, Procs
  <2>2. UNCHANGED <<cache, overlapped, attached>>
    BY <1>4 DEF GenerateNewSnapshot, LoadVersion, StoreVersion, FormatVersion, ReadContents,
                Generate, cacheVars
  <2>3. ASSUME pc'[p] \in {"store", "format"}, snapshot' = snapshot
        PROVE  ReadCurrent' /\ Attached' /\ SoloSnapshotCurrent'
    BY <2>1, <2>2, <2>3 DEF ReadCurrent, Attached, SoloSnapshotCurrent, Quiescent
  <2>4. CASE LoadVersion(p)
    BY <2>3, <2>4 DEF LoadVersion, TypeOK
  <2>5. CASE StoreVersion(p)
    BY <2>3, <2>5 DEF StoreVersion, TypeOK
  <2>6. CASE FormatVersion(p)
    <3>1. pc'[p] = "read" /\ snapshot' = snapshot /\ step'[p] = 1
      BY <2>6 DEF FormatVersion, TypeOK, Loops
    <3> QED BY <2>1, <2>2, <3>1 DEF ReadCurrent, Attached, SoloSnapshotCurrent, Quiescent
  <2>7. CASE ReadContents(p)
    <3> DEFINE i == step[p]
    <3>1. /\ pc[p] = "read" /\ snapshot' = snapshot /\ i \in 1..5
          /\ pc'[p] = IF i < 5 THEN "read" ELSE "generate"
          /\ step'[p] = IF i < 5 THEN i + 1 ELSE 1
      BY <2>7 DEF ReadContents, TypeOK
    <3>2. /\ resources'[p] = [resources[p] EXCEPT ![ReadOrder[i]] = cache[ReadOrder[i]]]
          /\ resources[p] \in Contents /\ resources'[p] \in Contents
      BY <2>7, NextType DEF ReadContents, TypeOK
    <3>3. ASSUME ~overlapped, NEW j \in 1..5, j <= i
          PROVE  resources'[p][ReadOrder[j]] = cache[ReadOrder[j]]
      <4>1. ReadOrder[i] \in Types /\ ReadOrder[j] \in Types
        BY <3>1, OrderFacts
      <4>2. j < i => resources[p][ReadOrder[j]] = cache[ReadOrder[j]]
        BY <3>1, <3>3 DEF ReadCurrent
      <4>3. j < i \/ j = i
        BY <3>1, <3>3
      <4> QED BY <3>2, <4>1, <4>2, <4>3 DEF Contents
    <3>4. CASE i < 5
      <4>1. pc'[p] = "read" /\ step'[p] = i + 1
        BY <3>1, <3>4
      <4>2. \A j \in 1..5 : j < i + 1 => j <= i
        BY <3>1
      <4> QED BY <2>1, <2>2, <3>1, <3>3, <4>1, <4>2
              DEF ReadCurrent, Attached, SoloSnapshotCurrent, Quiescent
    <3>5. CASE ~(i < 5)
      <4>1. pc'[p] = "generate" /\ \A j \in 1..5 : j <= i
        BY <3>1, <3>5
      <4>2. ~overlapped => resources'[p] = cache
        <5> SUFFICES ASSUME ~overlapped PROVE resources'[p] = cache
          OBVIOUS
        <5>1. \A t \in Types : resources'[p][t] = cache[t]
          BY <3>3, <4>1, OrderFacts
        <5> QED BY <3>2, <5>1 DEF Contents, TypeOK
      <4> QED BY <2>1, <2>2, <3>1, <4>1, <4>2
              DEF ReadCurrent, Attached, SoloSnapshotCurrent, Quiescent
    <3> QED BY <3>4, <3>5
  <2>8. CASE Generate(p)
    <3>1. /\ pc[p] = "generate" /\ pc'[p] = "idle"
          /\ snapshot' = IF attached THEN [version |-> version[p], resources |-> resources[p]]
                         ELSE snapshot
      BY <2>8 DEF Generate, TypeOK
    <3>2. ~overlapped => resources[p] = cache
      BY <3>1 DEF ReadCurrent
    <3>3. ReadCurrent'
      BY <2>1, <2>2, <3>1 DEF ReadCurrent
    <3>4. CASE attached
      <4>1. snapshot'.resources = resources[p]
        BY <3>1, <3>4
      <4> QED BY <2>2, <3>2, <3>3, <3>4, <4>1 DEF Attached, SoloSnapshotCurrent
    <3>5. CASE ~attached
      <4>1. snapshot' = snapshot /\ snapshot.version = 0
        BY <3>1, <3>5 DEF Attached
      <4> QED BY <2>2, <3>3, <4>1 DEF Attached, SoloSnapshotCurrent
    <3> QED BY <3>4, <3>5
  <2> QED BY <1>4, <2>4, <2>5, <2>6, <2>7, <2>8 DEF GenerateNewSnapshot
<1>5. CASE AddSnapshotter
  BY <1>5 DEF AddSnapshotter, procVars, cacheVars, ReadCurrent, Attached, SoloSnapshotCurrent, Quiescent
<1>6. CASE Respond
  BY <1>6 DEF Respond, procVars, cacheVars, ReadCurrent, Attached, SoloSnapshotCurrent, Quiescent
<1>7. CASE UNCHANGED vars
  BY <1>7 DEF vars, procVars, cacheVars, ReadCurrent, Attached, SoloSnapshotCurrent, Quiescent
<1> QED BY <1>1, <1>2, <1>3, <1>4, <1>5, <1>6, <1>7 DEF Next

LEMMA SpecSnapshotInv == Spec => []SnapshotInv
<1>1. Init => SnapshotInv
  <2> SUFFICES ASSUME Init PROVE SnapshotInv
    OBVIOUS
  <2>1. snapshot.version = 0
    BY DEF Init
  <2>2. Loops /\ Alone /\ ReadCurrent
    BY DEF Init, Loops, Alone, ReadCurrent, Procs
  <2> QED BY <2>1, <2>2 DEF SnapshotInv, Attached, SoloSnapshotCurrent
<1>2. TypeOK /\ SnapshotInv /\ [Next]_vars => SnapshotInv'
  BY NextAlone, NextReadCurrent DEF SnapshotInv
<1> QED BY <1>1, <1>2, SpecType, PTL DEF Spec

(* Whenever both goroutines are at rest, and have not overlapped since a      *)
(* rebuild that began alone, the snapshot holds what the caches hold.        *)
THEOREM SoloSnapshotCurrentAlways == Spec => []SoloSnapshotCurrent
<1>1. SnapshotInv => SoloSnapshotCurrent
  BY DEF SnapshotInv
<1> QED BY <1>1, SpecSnapshotInv, PTL

-----------------------------------------------------------------------------
(* What a version says *)

(* A goroutine that has never met the other finds it idle. *)
LEMMA NeverMet ==
  ASSUME Alone, ~raced, NEW p \in Procs, pc[p] # "idle"
  PROVE  \A q \in Procs : q # p => pc[q] = "idle"
  BY DEF Alone, Procs

LEMMA NextCounter == TypeOK /\ Alone /\ Attached /\ CounterInv /\ [Next]_vars => CounterInv'
<1> SUFFICES ASSUME TypeOK, Alone, Attached, CounterInv, [Next]_vars, ~raced'
             PROVE  CounterInv'
  BY DEF CounterInv
<1> USE SnapshotAssumption DEF TypeOK
<1>0. ~raced
  BY DEF Next, EndpointsChange, StartRebuild, UpdateCache, GenerateNewSnapshot, LoadVersion,
         StoreVersion, FormatVersion, ReadContents, Generate, AddSnapshotter, Respond, vars
<1>1. CASE EndpointsChange
  <2>1. pc["informer"] = "idle" /\ pc["rebuild"] = "idle"
    BY <1>1 DEF EndpointsChange
  <2> QED BY <1>0, <1>1, <2>1 DEF EndpointsChange, CounterInv, Procs
<1>2. CASE StartRebuild
  <2>1. pc["informer"] = "idle" /\ pc["rebuild"] = "idle"
    BY <1>2 DEF StartRebuild
  <2> QED BY <1>0, <1>2, <2>1 DEF StartRebuild, CounterInv, Procs
<1>3. CASE UpdateCache
  <2>1. pc["rebuild"] = "update" /\ pc["informer"] = "idle"
    BY <1>0, <1>3, NeverMet DEF UpdateCache, Procs
  <2> QED BY <1>0, <1>3, <2>1 DEF UpdateCache, CounterInv, Procs
<1>4. ASSUME NEW p \in Procs, GenerateNewSnapshot(p) PROVE CounterInv'
  <2>1. \A q \in Procs : q # p => pc[q] = "idle" /\ pc'[q] = "idle"
    <3>1. pc[p] # "idle"
      BY <1>4 DEF GenerateNewSnapshot, LoadVersion, StoreVersion, FormatVersion, ReadContents, Generate
    <3>2. \A q \in Procs : q # p => pc'[q] = pc[q]
      BY <1>4 DEF GenerateNewSnapshot, LoadVersion, StoreVersion, FormatVersion, ReadContents, Generate
    <3> QED BY <1>0, <3>1, <3>2, NeverMet
  <2>2. snapshotVersion <= MaxInt64
    BY <1>0 DEF CounterInv
  <2>3. CASE LoadVersion(p)
    <3>1. /\ pc[p] = "load" /\ pc'[p] = "store" /\ snapshot' = snapshot
          /\ snapshotVersion' = IF snapshotVersion = MaxInt64 THEN 0 ELSE snapshotVersion
          /\ loaded'[p] = snapshotVersion'
      BY <2>3 DEF LoadVersion
    <3>2. snapshot.version \in {0, snapshotVersion}
      BY <1>0, <2>1, <3>1 DEF CounterInv
    <3>3. snapshotVersion' < MaxInt64
      BY <2>2, <3>1
    <3>4. \/ snapshot'.version \in {0, snapshotVersion'}
          \/ snapshotVersion' = 0 /\ snapshot'.version = MaxInt64
      BY <3>1, <3>2
    <3> QED BY <2>1, <3>1, <3>3, <3>4 DEF CounterInv
  <2>4. CASE StoreVersion(p)
    <3>1. /\ pc[p] = "store" /\ pc'[p] = "format" /\ snapshot' = snapshot
          /\ snapshotVersion' = loaded[p] + 1 /\ loaded' = loaded
      BY <2>4 DEF StoreVersion
    <3>2. /\ loaded[p] = snapshotVersion /\ snapshotVersion < MaxInt64
          /\ \/ snapshot.version \in {0, snapshotVersion}
             \/ snapshotVersion = 0 /\ snapshot.version = MaxInt64
      BY <1>0, <3>1 DEF CounterInv
    <3>3. /\ snapshotVersion' <= MaxInt64 /\ snapshotVersion' # 0
          /\ snapshotVersion' # snapshot'.version
      BY <3>1, <3>2
    <3> QED BY <2>1, <3>1, <3>3 DEF CounterInv
  <2>5. CASE FormatVersion(p)
    <3>1. /\ pc[p] = "format" /\ pc'[p] = "read" /\ snapshot' = snapshot
          /\ version'[p] \in {loaded[p] + 1, snapshotVersion}
          /\ snapshotVersion' = snapshotVersion
      BY <2>5 DEF FormatVersion
    <3>2. loaded[p] + 1 = snapshotVersion /\ snapshotVersion # 0 /\ snapshotVersion # snapshot.version
      BY <1>0, <3>1 DEF CounterInv
    <3> QED BY <2>1, <2>2, <3>1, <3>2 DEF CounterInv
  <2>6. CASE ReadContents(p)
    <3>1. /\ pc[p] = "read" /\ pc'[p] \in {"read", "generate"}
          /\ UNCHANGED <<version, snapshot, snapshotVersion>>
      BY <2>6 DEF ReadContents
    <3>2. version[p] = snapshotVersion /\ snapshotVersion # 0 /\ snapshotVersion # snapshot.version
      BY <1>0, <3>1 DEF CounterInv
    <3> QED BY <2>1, <2>2, <3>1, <3>2 DEF CounterInv
  <2>7. CASE Generate(p)
    <3>1. /\ pc[p] = "generate" /\ pc'[p] = "idle" /\ snapshotVersion' = snapshotVersion
          /\ snapshot' = IF attached THEN [version |-> version[p], resources |-> resources[p]]
                         ELSE snapshot
      BY <2>7 DEF Generate
    <3>2. version[p] = snapshotVersion
      BY <1>0, <3>1 DEF CounterInv
    <3>3. snapshot'.version \in {0, snapshotVersion'}
      BY <3>1, <3>2 DEF Attached
    <3> QED BY <2>1, <2>2, <3>1, <3>3 DEF CounterInv
  <2> QED BY <1>4, <2>3, <2>4, <2>5, <2>6, <2>7 DEF GenerateNewSnapshot
<1>5. CASE AddSnapshotter
  BY <1>0, <1>5 DEF AddSnapshotter, procVars, cacheVars, CounterInv
<1>6. CASE Respond
  BY <1>0, <1>6 DEF Respond, procVars, cacheVars, CounterInv
<1>7. CASE UNCHANGED vars
  BY <1>0, <1>7 DEF vars, procVars, cacheVars, CounterInv
<1> QED BY <1>1, <1>2, <1>3, <1>4, <1>5, <1>6, <1>7 DEF Next

LEMMA SpecCounter == Spec => []CounterInv
<1>1. Init => CounterInv
  BY SnapshotAssumption DEF Init, CounterInv
<1>2. TypeOK /\ SnapshotInv /\ CounterInv /\ [Next]_vars => CounterInv'
  BY NextCounter DEF SnapshotInv
<1> QED BY <1>1, <1>2, SpecType, SpecSnapshotInv, PTL DEF Spec

(* As long as the goroutines have not overlapped, a snapshot that replaces   *)
(* another has another version, even where the counter wraps.                *)
THEOREM VersionMovesAlways == Spec => VersionMoves
<1> DEFINE Moves == ~raced' /\ snapshot' # snapshot => snapshot'.version # snapshot.version
<1>1. TypeOK /\ SnapshotInv /\ CounterInv /\ [Next]_vars => [Moves]_vars
  <2> SUFFICES ASSUME TypeOK, CounterInv, Next, ~raced', snapshot' # snapshot
               PROVE  snapshot'.version # snapshot.version
    OBVIOUS
  <2>1. PICK p \in Procs : Generate(p)
    BY DEF Next, EndpointsChange, StartRebuild, UpdateCache, GenerateNewSnapshot, LoadVersion,
           StoreVersion, FormatVersion, ReadContents, AddSnapshotter, Respond
  <2>2. pc[p] = "generate" /\ ~raced
    BY <2>1 DEF Generate
  <2>3. version[p] = snapshotVersion /\ snapshotVersion # snapshot.version
    BY <2>2 DEF CounterInv
  <2>4. snapshot' = [version |-> version[p], resources |-> resources[p]]
    BY <2>1 DEF Generate
  <2> QED BY <2>3, <2>4
<1> QED BY <1>1, SpecType, SpecSnapshotInv, SpecCounter, PTL DEF Spec, VersionMoves

LEMMA NextCount ==
  TypeOK /\ SnapshotInv /\ CounterInv /\ CountInv /\ [Next]_vars => CountInv'
<1> SUFFICES ASSUME TypeOK, Alone, Attached, CounterInv, CountInv, [Next]_vars,
                    ~raced', changes' + rebuilds' <= MaxInt64
             PROVE  CountInv'
  BY DEF CountInv, SnapshotInv
<1> USE SnapshotAssumption DEF TypeOK
<1> DEFINE Begun(q) == pc[q] \in {"update", "load", "store"}
<1>0. ~raced
  BY DEF Next, EndpointsChange, StartRebuild, UpdateCache, GenerateNewSnapshot, LoadVersion,
         StoreVersion, FormatVersion, ReadContents, Generate, AddSnapshotter, Respond, vars
<1>1. changes + rebuilds <= MaxInt64
  BY DEF Next, EndpointsChange, StartRebuild, UpdateCache, GenerateNewSnapshot, LoadVersion,
         StoreVersion, FormatVersion, ReadContents, Generate, AddSnapshotter, Respond, vars, cacheVars
<1>2. /\ changes + rebuilds = snapshotVersion + (IF \E q \in Procs : Begun(q) THEN 1 ELSE 0)
      /\ snapshot.version <= snapshotVersion /\ envoy.version <= snapshot.version
      /\ envoy.version = snapshot.version => envoy.resources = snapshot.resources
  BY <1>0, <1>1 DEF CountInv
<1>3. /\ snapshot.version \in Nat /\ envoy.version \in Nat
  BY DEF Snapshots
<1>4. ASSUME UNCHANGED <<changes, rebuilds, snapshotVersion, snapshot, envoy>>,
             (\E q \in Procs : Begun(q)') <=> (\E q \in Procs : Begun(q))
      PROVE  CountInv'
  BY <1>2, <1>4 DEF CountInv
<1>5. ASSUME UNCHANGED <<snapshotVersion, snapshot, envoy>>,
             changes' + rebuilds' = changes + rebuilds + 1,
             \E q \in Procs : Begun(q)', ~(\E q \in Procs : Begun(q))
      PROVE  CountInv'
  BY <1>2, <1>5 DEF CountInv
<1>6. CASE EndpointsChange
  <2>1. pc["informer"] = "idle" /\ pc["rebuild"] = "idle" /\ pc'["informer"] = "load"
    BY <1>6 DEF EndpointsChange, Procs
  <2>2. changes' + rebuilds' = changes + rebuilds + 1
    BY <1>6 DEF EndpointsChange
  <2> QED BY <1>5, <1>6, <2>1, <2>2 DEF EndpointsChange, Procs
<1>7. CASE StartRebuild
  <2>1. pc["informer"] = "idle" /\ pc["rebuild"] = "idle" /\ pc'["rebuild"] = "update"
    BY <1>7 DEF StartRebuild, Procs
  <2>2. changes' + rebuilds' = changes + rebuilds + 1
    BY <1>7 DEF StartRebuild
  <2> QED BY <1>5, <1>7, <2>1, <2>2 DEF StartRebuild, Procs
<1>8. CASE UpdateCache
  <2>1. Begun("rebuild") /\ Begun("rebuild")'
    BY <1>8 DEF UpdateCache, Procs
  <2> QED BY <1>4, <1>8, <2>1 DEF UpdateCache, Procs
<1>9. ASSUME NEW p \in Procs, GenerateNewSnapshot(p) PROVE CountInv'
  <2>1. \A q \in Procs : q # p => pc[q] = "idle" /\ pc'[q] = "idle"
    <3>1. pc[p] # "idle"
      BY <1>9 DEF GenerateNewSnapshot, LoadVersion, StoreVersion, FormatVersion, ReadContents, Generate
    <3>2. \A q \in Procs : q # p => pc'[q] = pc[q]
      BY <1>9 DEF GenerateNewSnapshot, LoadVersion, StoreVersion, FormatVersion, ReadContents, Generate
    <3> QED BY <1>0, <3>1, <3>2, NeverMet
  <2>2. /\ (\E q \in Procs : Begun(q)) <=> Begun(p)
        /\ (\E q \in Procs : Begun(q)') <=> Begun(p)'
    BY <2>1
  <2>3. CASE LoadVersion(p)
    <3>1. Begun(p) /\ Begun(p)'
      BY <2>3 DEF LoadVersion
    <3>2. snapshotVersion # MaxInt64
      BY <1>1, <1>2, <2>2, <3>1
    <3> QED BY <1>4, <2>2, <2>3, <3>1, <3>2 DEF LoadVersion, cacheVars
  <2>4. CASE StoreVersion(p)
    <3>1. Begun(p) /\ ~Begun(p)' /\ snapshotVersion' = loaded[p] + 1
      BY <2>4 DEF StoreVersion
    <3>2. loaded[p] = snapshotVersion
      BY <1>0, <2>4 DEF StoreVersion, CounterInv
    <3>3. UNCHANGED <<changes, rebuilds, snapshot, envoy>>
      BY <2>4 DEF StoreVersion, cacheVars
    <3> QED BY <1>2, <1>3, <2>2, <3>1, <3>2, <3>3 DEF CountInv
  <2>5. CASE FormatVersion(p)
    <3>1. ~Begun(p) /\ ~Begun(p)'
      BY <2>5 DEF FormatVersion
    <3> QED BY <1>4, <2>2, <2>5, <3>1 DEF FormatVersion, cacheVars
  <2>6. CASE ReadContents(p)
    <3>1. ~Begun(p) /\ ~Begun(p)'
      BY <2>6 DEF ReadContents
    <3> QED BY <1>4, <2>2, <2>6, <3>1 DEF ReadContents, cacheVars
  <2>7. CASE Generate(p)
    <3>1. /\ ~Begun(p) /\ ~Begun(p)'
          /\ UNCHANGED <<changes, rebuilds, snapshotVersion, envoy>>
          /\ snapshot' = IF attached THEN [version |-> version[p], resources |-> resources[p]]
                         ELSE snapshot
      BY <2>7 DEF Generate, cacheVars
    <3>2. CASE ~attached
      BY <1>4, <2>2, <3>1, <3>2
    <3>3. CASE attached
      <4>1. version[p] = snapshotVersion /\ snapshotVersion # snapshot.version
        BY <1>0, <2>7 DEF Generate, CounterInv
      <4>2. snapshot'.version = snapshotVersion
        BY <3>1, <3>3, <4>1
      <4>3. envoy.version < snapshot'.version
        BY <1>2, <1>3, <4>1, <4>2
      <4> QED BY <1>2, <1>3, <2>2, <3>1, <4>2, <4>3 DEF CountInv
    <3> QED BY <3>2, <3>3
  <2> QED BY <1>9, <2>3, <2>4, <2>5, <2>6, <2>7 DEF GenerateNewSnapshot
<1>10. CASE AddSnapshotter
  BY <1>4, <1>10 DEF AddSnapshotter, procVars, cacheVars
<1>11. CASE Respond
  <2>1. envoy' = snapshot /\ UNCHANGED <<changes, rebuilds, pc, snapshotVersion, snapshot>>
    BY <1>11 DEF Respond, procVars, cacheVars
  <2> QED BY <1>2, <1>3, <2>1 DEF CountInv
<1>12. CASE UNCHANGED vars
  BY <1>4, <1>12 DEF vars, procVars, cacheVars
<1> QED BY <1>6, <1>7, <1>8, <1>9, <1>10, <1>11, <1>12 DEF Next

(* Until the counter wraps, and as long as the goroutines have not            *)
(* overlapped, Envoy has the contents of the snapshot whose version it has.  *)
THEOREM VersionIdentifiesContentsAlways == Spec => []VersionIdentifiesContents
<1>1. Init => CountInv
  BY DEF Init, CountInv
<1>2. CountInv => VersionIdentifiesContents
  BY DEF CountInv, VersionIdentifiesContents
<1> QED BY <1>1, <1>2, NextCount, SpecType, SpecSnapshotInv, SpecCounter, PTL DEF Spec
=============================================================================
