------------------------ MODULE SesameServer_proofs -------------------------
(***************************************************************************)
(* Proofs about SesameServer for every set of streams and names, any number *)
(* of updates and any number of goroutines that notify after unlocking; and *)
(* about EndpointsTranslator, one of the caches it serves, for every set of *)
(* Services and clusters and any number of events and rebuilds.             *)
(***************************************************************************)
EXTENDS SesameServer, EndpointsTranslator, TLAPS

-----------------------------------------------------------------------------
(* Streams *)

(* The protocol between a stream and its Cond: a channel is registered at   *)
(* most once, never with a value still in it, and only while its stream     *)
(* waits in select (or has left).                                           *)
ChannelInv ==
  \A s \in Streams :
    /\ waiters[s] <= 1
    /\ ch[s] = Empty \/ waiters[s] = 0
    /\ pc[s] \in {"new", "recv", "respond"} => waiters[s] = 0 /\ ch[s] = Empty
    /\ pc[s] = "select" => waiters[s] = 1 \/ ch[s] # Empty

(* How a stream's last, its channel and its latest response are ordered. *)
VersionInv ==
  \A s \in Streams :
    /\ last[s] <= condLast
    /\ pc[s] = "new" => last[s] = -1
    /\ pc[s] \in {"new", "recv", "select"} => version[s] = last[s]
    /\ pc[s] = "respond" => version[s] < last[s]
    /\ pc[s] = "select" /\ ch[s] # Empty => last[s] < ch[s]
    /\ ch[s] <= condLast

(* What a stream sent is current, or something is still going to tell it.   *)
FreshInv ==
  \A s \in Streams :
    /\ pc[s] = "recv" => \/ version[s] >= 0 /\ resources[s] = View(names[s])
                         \/ owed > 0
                         \/ last[s] < condLast
    /\ pc[s] = "select" /\ ch[s] = Empty =>
         version[s] >= 0 /\ (owed > 0 \/ resources[s] = View(names[s]))

IInv == TypeOK /\ NeverWedged /\ ChannelInv /\ VersionInv /\ FreshInv

-----------------------------------------------------------------------------
LEMMA InitIInv == Init => IInv
  BY ServerAssumption DEF Init, IInv, TypeOK, CondTypeOK, CondInit, NeverWedged, ChannelInv,
     VersionInv, FreshInv, Streams, Values, Empty

(* View is a total map from names to values, whatever the cache holds. *)
LEMMA ViewType ==
  ASSUME contents \in [Names -> Values], NEW ns
  PROVE  View(ns) \in [Names -> Values]
  BY DEF View, Values

(* SetContents keeps the types of the cache. *)
LEMMA SetContentsType ==
  ASSUME TypeOK, NEW changed, NEW removed, SetContents(changed, removed)
  PROVE  contents' \in [Names -> Values] /\ updates' \in Nat
  BY DEF TypeOK, SetContents, Values

(* With every channel registered at most once and empty while registered,   *)
(* an unconditional Notify reaches every waiter and blocks on none.         *)
LEMMA NotifyAll ==
  ASSUME TypeOK, ChannelInv, Notify({})
  PROVE  /\ mu' = "free"
         /\ condLast' = condLast + 1
         /\ hints' = hints
         /\ ch' = [c \in Chans |-> IF waiters[c] > 0 THEN condLast + 1 ELSE ch[c]]
         /\ waiters' = [c \in Chans |-> IF waiters[c] > 0 THEN 0 ELSE waiters[c]]
<1>1. \A c \in Interested({}) : ch[c] = Empty /\ waiters[c] = 1
  BY DEF TypeOK, CondTypeOK, ChannelInv, Interested, Streams
<1>2. \A c \in Chans : c \in Interested({}) <=> waiters[c] > 0
  BY DEF Interested
<1> QED BY <1>1, <1>2 DEF Notify

(* A channel that is empty and unregistered takes Register's send. *)
LEMMA RegisterEmpty ==
  ASSUME NEW s \in Streams, TypeOK, ChannelInv, NeverWedged, pc[s] = "recv",
         Register(s, last[s], names[s])
  PROVE  /\ mu' = "free"
         /\ condLast' = condLast
         /\ hints' = [hints EXCEPT ![s] = names[s]]
         /\ \/ /\ last[s] < condLast
               /\ ch' = [ch EXCEPT ![s] = condLast]
               /\ waiters' = waiters
            \/ /\ ~(last[s] < condLast)
               /\ waiters' = [waiters EXCEPT ![s] = 1]
               /\ ch' = ch
<1>1. ch[s] = Empty /\ waiters[s] = 0
  BY DEF ChannelInv
<1> QED BY <1>1 DEF Register, NeverWedged, TypeOK, CondTypeOK, Streams

-----------------------------------------------------------------------------
LEMMA NextIInv == IInv /\ [Next]_vars => IInv'
<1> SUFFICES ASSUME IInv, [Next]_vars PROVE IInv'
  OBVIOUS
<1> USE DEF Streams
<1>1. ASSUME NEW changed \in SUBSET Names, NEW removed \in SUBSET changed,
             Update(changed, removed)
      PROVE  IInv'
  <2>1. contents' \in [Names -> Values] /\ updates' \in Nat
    BY <1>1, SetContentsType DEF IInv, Update
  <2>2. /\ mu' = "free" /\ condLast' = condLast + 1 /\ hints' = hints
        /\ ch' = [c \in Chans |-> IF waiters[c] > 0 THEN condLast + 1 ELSE ch[c]]
        /\ waiters' = [c \in Chans |-> IF waiters[c] > 0 THEN 0 ELSE waiters[c]]
    BY <1>1, NotifyAll DEF IInv, Update
  <2>3. UNCHANGED <<notifies, owed, pc, names, last, version, resources>>
    BY <1>1 DEF Update, streamVars
  <2>4. TypeOK'
    BY <2>1, <2>2, <2>3 DEF IInv, TypeOK, CondTypeOK
  <2>5. ChannelInv'
    BY <2>2, <2>3 DEF IInv, TypeOK, CondTypeOK, ChannelInv, Empty
  <2>6. VersionInv'
    BY <2>2, <2>3 DEF IInv, TypeOK, CondTypeOK, ChannelInv, VersionInv, Empty
  <2>7. FreshInv'
    BY <2>2, <2>3 DEF IInv, TypeOK, CondTypeOK, ChannelInv, VersionInv, FreshInv, Empty
  <2> QED BY <2>2, <2>4, <2>5, <2>6, <2>7 DEF IInv, NeverWedged
<1>2. ASSUME NEW changed \in SUBSET Names, NEW removed \in SUBSET changed,
             SetEntries(changed, removed)
      PROVE  IInv'
  <2>1. contents' \in [Names -> Values] /\ updates' \in Nat
    BY <1>2, SetContentsType DEF IInv, SetEntries
  <2>2. owed' = owed + 1 /\ owed' \in 0..Notifiers /\ owed' > 0
    BY <1>2, ServerAssumption DEF SetEntries, IInv, TypeOK
  <2>3. UNCHANGED <<notifies, condLast, waiters, hints, ch, mu, pc, names, last, version,
                    resources>>
    BY <1>2 DEF SetEntries, streamVars, condVars
  <2>4. TypeOK'
    BY <2>1, <2>2, <2>3 DEF IInv, TypeOK, CondTypeOK
  <2>5. ChannelInv' /\ VersionInv'
    BY <2>3 DEF IInv, ChannelInv, VersionInv
  <2>6. FreshInv'
    BY <2>2, <2>3 DEF IInv, FreshInv
  <2> QED BY <2>3, <2>4, <2>5, <2>6 DEF IInv, NeverWedged
<1>3. ASSUME NotifyEntries PROVE IInv'
  <2>1. /\ mu' = "free" /\ condLast' = condLast + 1 /\ hints' = hints
        /\ ch' = [c \in Chans |-> IF waiters[c] > 0 THEN condLast + 1 ELSE ch[c]]
        /\ waiters' = [c \in Chans |-> IF waiters[c] > 0 THEN 0 ELSE waiters[c]]
    BY <1>3, NotifyAll DEF IInv, NotifyEntries
  <2>2. UNCHANGED <<notifies, contents, updates, pc, names, last, version, resources>>
    BY <1>3 DEF NotifyEntries, streamVars
  <2>3. owed' \in 0..Notifiers
    BY <1>3, ServerAssumption DEF NotifyEntries, IInv, TypeOK
  <2>4. TypeOK'
    BY <2>1, <2>2, <2>3 DEF IInv, TypeOK, CondTypeOK
  <2>5. ChannelInv'
    BY <2>1, <2>2 DEF IInv, TypeOK, CondTypeOK, ChannelInv, Empty
  <2>6. VersionInv'
    BY <2>1, <2>2 DEF IInv, TypeOK, CondTypeOK, ChannelInv, VersionInv, Empty
  <2>7. FreshInv'
    BY <2>1, <2>2 DEF IInv, TypeOK, CondTypeOK, ChannelInv, VersionInv, FreshInv, Empty
  <2> QED BY <2>1, <2>4, <2>5, <2>6, <2>7 DEF IInv, NeverWedged
<1>4. ASSUME NEW s \in Streams, Open(s) PROVE IInv'
  <2>1. PICK ns \in SUBSET Names : names' = [names EXCEPT ![s] = ns]
    BY <1>4 DEF Open
  <2>2. /\ pc[s] = "new" /\ pc' = [pc EXCEPT ![s] = "recv"]
        /\ UNCHANGED <<condLast, waiters, hints, ch, mu, notifies, contents, updates, owed,
                       last, version, resources>>
    BY <1>4 DEF Open, condVars, cacheVars
  <2>3. TypeOK'
    BY <2>1, <2>2 DEF IInv, TypeOK, CondTypeOK
  <2>4. ChannelInv' /\ VersionInv'
    BY <2>2 DEF IInv, TypeOK, ChannelInv, VersionInv
  <2>5. FreshInv'
    BY <2>1, <2>2 DEF IInv, TypeOK, CondTypeOK, VersionInv, FreshInv, View
  <2> QED BY <2>2, <2>3, <2>4, <2>5 DEF IInv, NeverWedged
<1>5. ASSUME NEW s \in Streams, RecvRequest(s) PROVE IInv'
  <2>1. /\ pc[s] = "recv" /\ pc' = [pc EXCEPT ![s] = "select"]
        /\ UNCHANGED <<notifies, contents, updates, owed, names, last, version, resources>>
    BY <1>5 DEF RecvRequest, cacheVars
  <2>2. /\ mu' = "free"
        /\ condLast' = condLast
        /\ hints' = [hints EXCEPT ![s] = names[s]]
        /\ \/ /\ last[s] < condLast
              /\ ch' = [ch EXCEPT ![s] = condLast]
              /\ waiters' = waiters
           \/ /\ ~(last[s] < condLast)
              /\ waiters' = [waiters EXCEPT ![s] = 1]
              /\ ch' = ch
    BY <1>5, RegisterEmpty DEF IInv, RecvRequest
  <2>3. TypeOK'
    BY <2>1, <2>2 DEF IInv, TypeOK, CondTypeOK
  <2>4. ChannelInv'
    BY <2>1, <2>2 DEF IInv, TypeOK, CondTypeOK, ChannelInv, Empty
  <2>5. VersionInv'
    BY <2>1, <2>2 DEF IInv, TypeOK, CondTypeOK, ChannelInv, VersionInv, Empty
  <2>6. FreshInv'
    BY <2>1, <2>2 DEF IInv, TypeOK, CondTypeOK, ChannelInv, VersionInv, FreshInv, View, Empty
  <2> QED BY <2>2, <2>3, <2>4, <2>5, <2>6 DEF IInv, NeverWedged
<1>6. ASSUME NEW s \in Streams, Notified(s) PROVE IInv'
  <2>1. /\ pc[s] = "select" /\ pc' = [pc EXCEPT ![s] = "respond"]
        /\ ch[s] # Empty /\ ch' = [ch EXCEPT ![s] = Empty]
        /\ last' = [last EXCEPT ![s] = ch[s]]
        /\ UNCHANGED <<condLast, waiters, hints, mu, notifies, contents, updates, owed,
                       names, version, resources>>
    BY <1>6 DEF Notified, Receive, cacheVars
  <2>2. TypeOK'
    BY <2>1 DEF IInv, TypeOK, CondTypeOK
  <2>3. ChannelInv'
    BY <2>1 DEF IInv, TypeOK, CondTypeOK, ChannelInv
  <2>4. VersionInv'
    BY <2>1 DEF IInv, TypeOK, CondTypeOK, VersionInv, Empty
  <2>5. FreshInv'
    BY <2>1 DEF IInv, TypeOK, CondTypeOK, FreshInv, View
  <2> QED BY <2>1, <2>2, <2>3, <2>4, <2>5 DEF IInv, NeverWedged
<1>7. ASSUME NEW s \in Streams, SendResponse(s) PROVE IInv'
  <2>1. /\ pc[s] = "respond" /\ pc' = [pc EXCEPT ![s] = "recv"]
        /\ version' = [version EXCEPT ![s] = last[s]]
        /\ resources' = [resources EXCEPT ![s] = View(names[s])]
        /\ UNCHANGED <<condLast, waiters, hints, ch, mu, notifies, contents, updates, owed,
                       names, last>>
    BY <1>7 DEF SendResponse, condVars, cacheVars
  <2>2. View(names[s]) \in [Names -> Values]
    BY ViewType DEF IInv, TypeOK
  <2>3. TypeOK'
    BY <2>1, <2>2 DEF IInv, TypeOK, CondTypeOK
  <2>4. ChannelInv' /\ VersionInv'
    BY <2>1 DEF IInv, TypeOK, CondTypeOK, ChannelInv, VersionInv
  <2>5. \A t \in Streams : View(names[t])' = View(names[t])
    BY <2>1 DEF View
  <2>6. FreshInv'
    BY <2>1, <2>5 DEF IInv, TypeOK, CondTypeOK, VersionInv, FreshInv
  <2> QED BY <2>1, <2>3, <2>4, <2>6 DEF IInv, NeverWedged
<1>8. ASSUME NEW s \in Streams, Terminate(s) PROVE IInv'
  <2>1. /\ pc' = [pc EXCEPT ![s] = "done"]
        /\ UNCHANGED <<condLast, waiters, hints, ch, mu, notifies, contents, updates, owed,
                       names, last, version, resources>>
    BY <1>8 DEF Terminate, condVars, cacheVars
  <2>2. TypeOK'
    BY <2>1 DEF IInv, TypeOK, CondTypeOK
  <2>3. ChannelInv' /\ VersionInv'
    BY <2>1 DEF IInv, TypeOK, ChannelInv, VersionInv
  <2>4. FreshInv'
    BY <2>1 DEF IInv, TypeOK, FreshInv, View
  <2> QED BY <2>1, <2>2, <2>3, <2>4 DEF IInv, NeverWedged
<1>9. CASE UNCHANGED vars
  BY <1>9 DEF vars, condVars, cacheVars, streamVars, IInv, TypeOK, CondTypeOK,
     NeverWedged, ChannelInv, VersionInv, FreshInv, View
<1> QED BY <1>1, <1>2, <1>3, <1>4, <1>5, <1>6, <1>7, <1>8, <1>9 DEF Next, Stream

LEMMA SpecIInv == Spec => []IInv
  BY InitIInv, NextIInv, PTL DEF Spec

(* Every variable of the server keeps its type. *)
THEOREM TypeCorrect == Spec => []TypeOK
<1>1. IInv => TypeOK
  BY DEF IInv
<1> QED BY SpecIInv, <1>1, PTL

(* No send on a waiter's channel ever blocks while the Cond is locked. *)
THEOREM CondNeverWedges == Spec => []NeverWedged
<1>1. IInv => NeverWedged
  BY DEF IInv
<1> QED BY SpecIInv, <1>1, PTL

(* A stream at rest has sent the newest contents, however updates, late     *)
(* notifications and other streams interleave with it.                      *)
THEOREM IdleStreamsAreFresh == Spec => []IdleIsFresh
<1>1. IInv => IdleIsFresh
  BY DEF IInv, FreshInv, IdleIsFresh, TypeOK
<1> QED BY SpecIInv, <1>1, PTL

(* Versions only go up on a stream. *)
THEOREM StreamVersionsIncrease == Spec => VersionsIncrease
<1> DEFINE Grows(s) == version'[s] # version[s] \/ resources'[s] # resources[s]
                          => version'[s] > version[s]
<1>1. IInv /\ [Next]_vars => [\A s \in Streams : Grows(s)]_vars
  <2> SUFFICES ASSUME IInv, Next, NEW s \in Streams PROVE Grows(s)
    OBVIOUS
  <2>1. CASE UNCHANGED <<version, resources>>
    BY <2>1
  <2>2. ASSUME NEW t \in Streams, SendResponse(t) PROVE Grows(s)
    BY <2>2 DEF SendResponse, IInv, TypeOK, VersionInv, Streams
  <2> QED BY <2>1, <2>2 DEF Next, Stream, Update, SetEntries, NotifyEntries, Open,
             RecvRequest, Notified, Terminate, streamVars
<1> QED BY SpecIInv, <1>1, PTL DEF Spec, VersionsIncrease

-----------------------------------------------------------------------------
(* The EndpointsTranslator *)

(* A change that nobody has announced is about to be announced. *)
NotifyInv ==
  /\ unnotified \in BOOLEAN
  /\ unnotified => informer = "notify" \/ rebuild = "notify"

(* The entries cover the clusters in use and are current outside cs. *)
ExactBut(cs) ==
  /\ entries = [c \in InUse |-> entries[c]]
  /\ \A c \in InUse \ cs : entries[c] = LoadAssignment(c)

(* Without an overlap at most one handler is under way, and what is not yet *)
(* in the entries is in the stale list or in that handler's hands.          *)
ExactInv ==
  ~overlapped =>
    /\ informer = "idle" \/ rebuild = "idle"
    /\ rebuild = "idle" /\ informer \in {"idle", "notify", "refresh"}
         => stale = {} /\ entries = Expected
    /\ informer = "recalculate" => stale \subseteq InUse /\ ExactBut(stale)
    /\ informer = "merge" =>
         /\ stale = {}
         /\ \E cs \in SUBSET InUse :
              merging = [c \in cs |-> LoadAssignment(c)] /\ ExactBut(cs)
    /\ rebuild = "recalculate" => stale = InUse
    /\ rebuild = "set" => stale = {} /\ setting = Expected
    /\ rebuild = "notify" => stale = {} /\ entries = Expected

ControlInv ==
  /\ informer \in {"idle", "recalculate", "merge", "notify", "refresh"}
  /\ rebuild \in {"idle", "recalculate", "set", "notify"}
  /\ overlapped \in BOOLEAN
  /\ services \in [Clusters -> SUBSET Services]

EndpointsInv == ControlInv /\ NotifyInv /\ ExactInv

-----------------------------------------------------------------------------
LEMMA EndpointsInvInit == EndpointsInit => EndpointsInv
  BY DEF EndpointsInit, EndpointsInv, ControlInv, NotifyInv, ExactInv, Expected, InUse, NoEntries

(* Every handler of the informer that stores an object. *)
LEMMA StorePreserves ==
  ASSUME EndpointsInv, Event, NEW s \in Services, NEW ep, Store(s, ep)
  PROVE  EndpointsInv'
<1>1. ControlInv'
  BY DEF EndpointsInv, ControlInv, Event, Store, rebuildVars
<1>2. NotifyInv'
  BY DEF EndpointsInv, NotifyInv, Event, Store, rebuildVars
<1>3. ExactInv'
  <2> SUFFICES ASSUME ~overlapped' PROVE ExactInv'
    BY DEF ExactInv
  <2>1. rebuild = "idle" /\ informer = "idle" /\ ~overlapped
    BY <1>1 DEF Event, EndpointsInv, ControlInv
  <2>2. stale = {} /\ entries = Expected
    BY <2>1 DEF EndpointsInv, ExactInv
  <2>3. stale' = Affected(s) /\ Affected(s) \subseteq InUse
    BY <2>2 DEF Store, Affected, InUse, EndpointsInv, ControlInv
  <2>4. InUse' = InUse /\ entries' = entries /\ rebuild' = "idle" /\ services' = services
    BY <2>1 DEF Event, InUse, rebuildVars
  <2>5. \A c \in InUse \ Affected(s) : LoadAssignment(c)' = LoadAssignment(c)
    <3> SUFFICES ASSUME NEW c \in InUse \ Affected(s) PROVE LoadAssignment(c)' = LoadAssignment(c)
      OBVIOUS
    <3>1. \A t \in services[c] : t # s
      BY DEF Affected, InUse
    <3>2. \A t \in services[c] : endpoints'[t] = endpoints[t]
      BY <3>1 DEF Store
    <3> QED BY <3>2, <2>4 DEF LoadAssignment, InUse
  <2>6. CASE Affected(s) = {}
    <3>1. informer' = "idle" /\ stale' = {}
      BY <2>6, <2>3 DEF Store
    <3>2. Expected' = Expected
      BY <2>4, <2>5, <2>6 DEF Expected
    <3> QED BY <3>1, <3>2, <2>2, <2>4 DEF ExactInv
  <2>7. CASE Affected(s) # {}
    <3>1. informer' = "recalculate"
      BY <2>7 DEF Store
    <3>2. ExactBut(stale)'
      BY <2>2, <2>3, <2>4, <2>5 DEF ExactBut, Expected
    <3> QED BY <3>1, <3>2, <2>3, <2>4 DEF ExactInv
  <2> QED BY <2>6, <2>7
<1> QED BY <1>1, <1>2, <1>3 DEF EndpointsInv

LEMMA EndpointsInvNext == EndpointsInv /\ [EndpointsNext]_endpointsVars => EndpointsInv'
<1> SUFFICES ASSUME EndpointsInv, [EndpointsNext]_endpointsVars PROVE EndpointsInv'
  OBVIOUS
<1>1. ASSUME NEW s \in Services, OnAdd(s) PROVE EndpointsInv'
  BY <1>1, StorePreserves DEF OnAdd
<1>2. ASSUME NEW s \in Services, OnUpdate(s) PROVE EndpointsInv'
  <2>1. CASE \E ep \in NewObjects : Store(s, ep)
    BY <1>2, <2>1, StorePreserves DEF OnUpdate
  <2>2. CASE Event /\ UNCHANGED <<endpoints, stale, informer>>
    <3>1. ControlInv' /\ NotifyInv'
      BY <2>2 DEF EndpointsInv, ControlInv, NotifyInv, Event, rebuildVars
    <3>2. ExactInv'
      <4> SUFFICES ASSUME ~overlapped' PROVE ExactInv'
        BY DEF ExactInv
      <4>1. rebuild' = "idle" /\ informer' = "idle" /\ ~overlapped
        BY <2>2, <3>1 DEF Event, EndpointsInv, ControlInv, rebuildVars
      <4>2. stale = {} /\ entries = Expected
        BY <2>2, <4>1 DEF EndpointsInv, ExactInv, Event, rebuildVars
      <4>3. Expected' = Expected /\ entries' = entries
        BY <2>2 DEF Event, Expected, InUse, LoadAssignment
      <4> QED BY <2>2, <4>1, <4>2, <4>3 DEF ExactInv
    <3> QED BY <3>1, <3>2 DEF EndpointsInv
  <2> QED BY <1>2, <2>1, <2>2 DEF OnUpdate
<1>3. ASSUME NEW s \in Services, OnDelete(s) PROVE EndpointsInv'
  BY <1>3, StorePreserves DEF OnDelete
<1>4. ASSUME InformerRecalculate PROVE EndpointsInv'
  <2> USE <1>4 DEF InformerRecalculate, rebuildVars
  <2>1. ControlInv' /\ NotifyInv'
    BY DEF EndpointsInv, ControlInv, NotifyInv
  <2>2. ExactInv'
    <3> SUFFICES ASSUME ~overlapped' PROVE ExactInv'
      BY DEF ExactInv
    <3>1. rebuild = "idle" /\ stale \subseteq InUse /\ ExactBut(stale)
      BY DEF EndpointsInv, ExactInv
    <3>2. /\ InUse' = InUse /\ Expected' = Expected
          /\ \A cs : ExactBut(cs)' = ExactBut(cs)
          /\ \A c : LoadAssignment(c)' = LoadAssignment(c)
      BY DEF InUse, Expected, ExactBut, LoadAssignment
    <3>3. merging' = [c \in stale |-> LoadAssignment(c)']
      BY <3>2 DEF Recalculated
    <3> QED BY <3>1, <3>2, <3>3 DEF ExactInv
  <2> QED BY <2>1, <2>2 DEF EndpointsInv
<1>5. ASSUME Merge PROVE EndpointsInv'
  <2> USE <1>5 DEF Merge, rebuildVars, translatorVars
  <2>1. ControlInv' /\ NotifyInv'
    BY DEF EndpointsInv, ControlInv, NotifyInv
  <2>2. ExactInv'
    <3> SUFFICES ASSUME ~overlapped' PROVE ExactInv'
      BY DEF ExactInv
    <3>1. PICK cs \in SUBSET InUse :
             merging = [c \in cs |-> LoadAssignment(c)] /\ ExactBut(cs)
      BY DEF EndpointsInv, ExactInv
    <3>2. rebuild' = "idle" /\ stale' = {}
      BY DEF EndpointsInv, ExactInv
    <3>3. Merged(merging) = Expected
      <4>1. DOMAIN entries = InUse
        BY <3>1 DEF ExactBut
      <4>2. DOMAIN entries \union DOMAIN merging = InUse
        BY <3>1, <4>1
      <4>3. \A c \in InUse : (IF c \in DOMAIN merging THEN merging[c] ELSE entries[c])
                               = LoadAssignment(c)
        BY <3>1 DEF ExactBut
      <4> QED BY <4>2, <4>3 DEF Merged, Expected
    <3>4. Expected' = Expected
      BY DEF Expected, InUse, LoadAssignment
    <3> QED BY <3>2, <3>3, <3>4 DEF ExactInv
  <2> QED BY <2>1, <2>2 DEF EndpointsInv
<1>6. ASSUME InformerNotify PROVE EndpointsInv'
  <2> USE <1>6 DEF InformerNotify, rebuildVars, translatorVars
  <2>1. ControlInv' /\ NotifyInv'
    BY DEF EndpointsInv, ControlInv, NotifyInv
  <2>2. ExactInv'
    <3>1. Expected' = Expected
      BY DEF Expected, InUse, LoadAssignment
    <3> QED BY <3>1, <2>1 DEF EndpointsInv, ControlInv, ExactInv
  <2> QED BY <2>1, <2>2 DEF EndpointsInv
<1>12. ASSUME Refresh PROVE EndpointsInv'
  <2> USE <1>12 DEF Refresh, rebuildVars, translatorVars
  <2>1. ControlInv' /\ NotifyInv'
    BY DEF EndpointsInv, ControlInv, NotifyInv
  <2>2. ExactInv'
    <3>1. Expected' = Expected
      BY DEF Expected, InUse, LoadAssignment
    <3> QED BY <3>1, <2>1 DEF EndpointsInv, ControlInv, ExactInv
  <2> QED BY <2>1, <2>2 DEF EndpointsInv
<1>7. ASSUME NEW new \in [Clusters -> SUBSET Services], SetClusters(new) PROVE EndpointsInv'
  <2> USE <1>7 DEF SetClusters, informerVars
  <2>1. ControlInv' /\ NotifyInv'
    BY DEF EndpointsInv, ControlInv, NotifyInv
  <2>2. ExactInv'
    BY <2>1 DEF EndpointsInv, ControlInv, ExactInv, InUse
  <2> QED BY <2>1, <2>2 DEF EndpointsInv
<1>8. ASSUME RebuildRecalculate PROVE EndpointsInv'
  <2> USE <1>8 DEF RebuildRecalculate, informerVars
  <2>1. ControlInv' /\ NotifyInv'
    BY DEF EndpointsInv, ControlInv, NotifyInv
  <2>2. ExactInv'
    <3> SUFFICES ASSUME ~overlapped' PROVE ExactInv'
      BY DEF ExactInv
    <3>1. informer' = "idle" /\ stale = InUse
      BY DEF EndpointsInv, ExactInv
    <3>2. setting' = Expected /\ Expected' = Expected
      BY <3>1 DEF Recalculated, Expected, InUse, LoadAssignment
    <3> QED BY <3>1, <3>2 DEF ExactInv
  <2> QED BY <2>1, <2>2 DEF EndpointsInv
<1>9. ASSUME SetIfChanged PROVE EndpointsInv'
  <2> USE <1>9 DEF SetIfChanged, informerVars, translatorVars
  <2>1. ControlInv' /\ NotifyInv'
    BY DEF EndpointsInv, ControlInv, NotifyInv
  <2>2. ExactInv'
    <3> SUFFICES ASSUME ~overlapped' PROVE ExactInv'
      BY DEF ExactInv
    <3>1. informer' = "idle" /\ stale' = {} /\ setting = Expected
      BY DEF EndpointsInv, ExactInv
    <3>2. entries' = Expected /\ Expected' = Expected
      BY <3>1 DEF Expected, InUse, LoadAssignment
    <3> QED BY <3>1, <3>2 DEF ExactInv
  <2> QED BY <2>1, <2>2 DEF EndpointsInv
<1>10. ASSUME RebuildNotify PROVE EndpointsInv'
  <2> USE <1>10 DEF RebuildNotify, informerVars, translatorVars
  <2>1. ControlInv' /\ NotifyInv'
    BY DEF EndpointsInv, ControlInv, NotifyInv
  <2>2. ExactInv'
    <3>1. Expected' = Expected
      BY DEF Expected, InUse, LoadAssignment
    <3> QED BY <3>1, <2>1 DEF EndpointsInv, ControlInv, ExactInv
  <2> QED BY <2>1, <2>2 DEF EndpointsInv
<1>11. CASE UNCHANGED endpointsVars
  <2> USE <1>11 DEF endpointsVars, translatorVars, informerVars, rebuildVars
  <2>1. ControlInv' /\ NotifyInv'
    BY DEF EndpointsInv, ControlInv, NotifyInv
  <2>2. /\ InUse' = InUse /\ Expected' = Expected
        /\ \A cs : ExactBut(cs)' = ExactBut(cs)
        /\ \A c : LoadAssignment(c)' = LoadAssignment(c)
    BY DEF InUse, Expected, ExactBut, LoadAssignment
  <2>3. ExactInv'
    BY <2>2 DEF EndpointsInv, ExactInv
  <2> QED BY <2>1, <2>3 DEF EndpointsInv
<1> QED
  BY <1>1, <1>2, <1>3, <1>4, <1>5, <1>6, <1>7, <1>8, <1>9, <1>10, <1>11, <1>12
     DEF EndpointsNext, Informer, OnChange

LEMMA EndpointsInvHolds == EndpointsSpec => []EndpointsInv
  BY EndpointsInvInit, EndpointsInvNext, PTL DEF EndpointsSpec

(* Handlers that do not overlap leave exactly the right load assignments.   *)
THEOREM EntriesExactAlways == EndpointsSpec => []EntriesExact
<1>1. EndpointsInv => EntriesExact
  BY DEF EndpointsInv, ControlInv, ExactInv, EntriesExact, Quiescent
<1> QED BY EndpointsInvHolds, <1>1, PTL

(* Every change of the entries is announced, overlap or not. *)
THEOREM ChangesNotifiedAlways == EndpointsSpec => []ChangesNotified
<1>1. EndpointsInv => ChangesNotified
  BY DEF EndpointsInv, NotifyInv, ChangesNotified, Quiescent
<1> QED BY EndpointsInvHolds, <1>1, PTL
=============================================================================
