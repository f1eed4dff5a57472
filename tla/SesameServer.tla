---------------------------- MODULE SesameServer ----------------------------
(***************************************************************************)
(* One resource type served by the built-in xDS server: the resource cache  *)
(* (internal/xdscache/v3), its Cond, and the streams of SesameServer.stream *)
(* (internal/xds/v3/sesame.go). Resource types share nothing, so one type   *)
(* stands for all five.                                                     *)
(*                                                                         *)
(* Listener, secret, route and cluster caches notify while they hold the    *)
(* cache mutex (Update); the EndpointsTranslator replaces its entries,      *)
(* unlocks, and notifies afterwards (SetEntries, then NotifyEntries).       *)
(* A stream is a gRPC call of one Envoy subscription: its resource names    *)
(* stay the same, and Envoy answers every response with an ACK or a NACK,   *)
(* which the server treats alike.                                           *)
(***************************************************************************)
EXTENDS Cond

CONSTANTS
  MaxUpdates,  (* bound: how often the cache's contents change             *)
  Notifiers,   (* how many goroutines may be between SetEntries and        *)
               (* NotifyEntries                                            *)
  Absent       (* the value of a resource the cache does not hold          *)

ASSUME ServerAssumption ==
  /\ MaxUpdates \in Nat
  /\ Notifiers \in Nat
  /\ Absent \notin Nat

Streams == Chans

VARIABLES
  notifies,  (* where this cache notifies: "locked" (Update) or "unlocked"      *)
             (* (EndpointsTranslator); never changes                          *)
  contents,  (* the cache: contents[n] is the update that set n, or Absent    *)
  updates,   (* how many times the contents have been replaced                *)
  owed,      (* how many goroutines have set the entries and not yet notified *)
  pc,        (* where the goroutine of each stream is                         *)
  names,     (* the ResourceNames of the stream's requests, {} for "all"      *)
  last,      (* the stream's local variable last                              *)
  version,   (* the VersionInfo of the latest response, -1 before the first   *)
  resources  (* the resources of the latest response                          *)

cacheVars == <<notifies, contents, updates, owed>>
streamVars == <<pc, names, last, version, resources>>
vars == <<condVars, cacheVars, streamVars>>

Values == Nat \union {Absent}

(* What Contents (no names) or Query returns for a set of resource names. *)
View(ns) == [n \in Names |-> IF ns = {} \/ n \in ns THEN contents[n] ELSE Absent]

TypeOK ==
  /\ CondTypeOK
  /\ notifies \in {"locked", "unlocked"}
  /\ contents \in [Names -> Values]
  /\ updates \in Nat
  /\ owed \in 0..Notifiers
  /\ pc \in [Streams -> {"new", "recv", "select", "respond", "done"}]
  /\ names \in [Streams -> SUBSET Names]
  /\ last \in [Streams -> Nat \union {-1}]
  /\ version \in [Streams -> Nat \union {-1}]
  /\ resources \in [Streams -> [Names -> Values]]

Init ==
  /\ CondInit
  /\ notifies \in {"locked", "unlocked"}
  /\ contents = [n \in Names |-> Absent]
  /\ updates = 0
  /\ owed = 0
  /\ pc = [s \in Streams |-> "new"]
  /\ names = [s \in Streams |-> {}]
  /\ last = [s \in Streams |-> -1]
  /\ version = [s \in Streams |-> -1]
  /\ resources = [s \in Streams |-> [n \in Names |-> Absent]]

-----------------------------------------------------------------------------
(* The cache *)

(* New contents: the changed names get a new value, or are removed. *)
SetContents(changed, removed) ==
  /\ updates < MaxUpdates
  /\ updates' = updates + 1
  /\ contents' = [n \in Names |-> CASE n \in removed -> Absent
                                    [] n \in changed \ removed -> updates + 1
                                    [] OTHER -> contents[n]]

(* Update of the listener, secret, route and cluster caches. *)
Update(changed, removed) ==
  /\ notifies = "locked"
  /\ SetContents(changed, removed)
  /\ Notify({})
  /\ UNCHANGED <<notifies, owed, streamVars>>

(* EndpointsTranslator: "e.entries = entries" or Merge, under e.mu ... *)
SetEntries(changed, removed) ==
  /\ notifies = "unlocked"
  /\ owed < Notifiers
  /\ SetContents(changed, removed)
  /\ owed' = owed + 1
  /\ UNCHANGED <<notifies, condVars, streamVars>>

(* A variant of the step below that notifies without "if changed". *)
NotifyUnchanged ==
  /\ Notify({})
  /\ owed' = owed - 1
  /\ UNCHANGED <<notifies, contents, updates, streamVars>>

(* ... and e.Notify() after the unlock. *)
NotifyEntries ==
  /\ owed > 0
  /\ Notify({})
  /\ owed' = owed - 1
  /\ UNCHANGED <<notifies, contents, updates, streamVars>>

-----------------------------------------------------------------------------
(* The streams *)

(* A new gRPC stream subscribes to a set of names; ch and last are fresh. *)
Open(s) ==
  /\ pc[s] = "new"
  /\ \E ns \in SUBSET Names : names' = [names EXCEPT ![s] = ns]
  /\ pc' = [pc EXCEPT ![s] = "recv"]
  /\ UNCHANGED <<condVars, cacheVars, last, version, resources>>

(* st.Recv returns a request for a type the server has: register and wait. *)
RecvRequest(s) ==
  /\ pc[s] = "recv"
  /\ Register(s, last[s], names[s])
  /\ pc' = [pc EXCEPT ![s] = "select"]
  /\ UNCHANGED <<cacheVars, names, last, version, resources>>

(* select: case last = <-ch. *)
Notified(s) ==
  /\ pc[s] = "select"
  /\ Receive(s)
  /\ last' = [last EXCEPT ![s] = ch[s]]
  /\ pc' = [pc EXCEPT ![s] = "respond"]
  /\ UNCHANGED <<cacheVars, names, version, resources>>

(* Contents or Query, under the cache mutex, and st.Send. A cache that is   *)
(* wedged in Update also keeps its own mutex.                               *)
SendResponse(s) ==
  /\ pc[s] = "respond"
  /\ notifies = "locked" => mu = "free"
  /\ version' = [version EXCEPT ![s] = last[s]]
  /\ resources' = [resources EXCEPT ![s] = View(names[s])]
  /\ pc' = [pc EXCEPT ![s] = "recv"]
  /\ UNCHANGED <<condVars, cacheVars, names, last>>

(* The stream returns: Recv or Send failed, the type URL is not registered, *)
(* or the context is done. Its channel stays in the waiter list.            *)
Terminate(s) ==
  /\ pc[s] \in {"recv", "select", "respond"}
  /\ pc' = [pc EXCEPT ![s] = "done"]
  /\ UNCHANGED <<condVars, cacheVars, names, last, version, resources>>

-----------------------------------------------------------------------------
Stream(s) == RecvRequest(s) \/ Notified(s) \/ SendResponse(s)

Next ==
  \/ \E changed \in SUBSET Names : \E removed \in SUBSET changed :
       Update(changed, removed) \/ SetEntries(changed, removed)
  \/ NotifyEntries
  \/ \E s \in Streams : Open(s) \/ Stream(s) \/ Terminate(s)

Spec == Init /\ [][Next]_vars

(* Goroutines that can run do run, and Envoy answers every response; no     *)
(* update, subscription or disconnection is ever obliged to happen.         *)
Fairness ==
  /\ \A s \in Streams : WF_vars(Stream(s))
  /\ WF_vars(NotifyEntries)

FairSpec == Spec /\ Fairness

-----------------------------------------------------------------------------
(* Properties *)

(* No send of Register or Notify finds its channel full: "Sends by the       *)
(* broadcaster to ch must not block". A blocked send would hold the mutex of *)
(* the Cond, and with it the cache, the DAG rebuilds and every other stream. *)
NeverWedged == mu = "free"

(* A stream that waits in select with an empty channel has told Envoy the    *)
(* newest contents of the cache, unless a goroutine still owes a Notify: no  *)
(* interleaving of an update with a stream between its read of the cache and *)
(* its next Register loses the update.                                       *)
IdleIsFresh ==
  \A s \in Streams :
    pc[s] = "select" /\ ch[s] = Empty /\ owed = 0
      => version[s] >= 0 /\ resources[s] = View(names[s])

(* Every response carries a version above that of the response before it on  *)
(* the stream, so Envoy never takes new resources for ones it has seen.      *)
VersionsIncrease ==
  [][\A s \in Streams : version'[s] # version[s] \/ resources'[s] # resources[s]
                          => version'[s] > version[s]]_vars

(* Under fair scheduling every stream that stays connected ends up with the  *)
(* final contents of the cache.                                              *)
EventuallyFresh ==
  \A s \in Streams :
    <>[](pc[s] \in {"new", "done"} \/ resources[s] = View(names[s]))
=============================================================================
