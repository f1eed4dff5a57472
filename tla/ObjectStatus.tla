---------------------------- MODULE ObjectStatus ----------------------------
(***************************************************************************)
(* How the status of an object gets to the API server. Two writers share    *)
(* the channel of the StatusUpdateHandler (internal/k8s/status.go): every   *)
(* rebuild of the DAG sends the object's condition, and the load balancer   *)
(* status writer (cmd/sesame/ingressstatus.go, internal/k8s/                *)
(* statusaddress.go) sends the address of the Envoy Service. The handler    *)
(* reads objects from the informer's store, which lags behind the API       *)
(* server, and writes them back under optimistic concurrency control.       *)
(*                                                                         *)
(* One object, of one of the four kinds that are treated differently. While *)
(* this replica is not the leader another one writes the object's status.   *)
(***************************************************************************)
EXTENDS Integers, Sequences

CONSTANTS
  Scenarios,   (* what a behaviour may be about: see Scenario below         *)
  Addresses,   (* addresses the load balancer can have                      *)
  None,        (* no address; no update in hand                             *)
  QueueCap,    (* the capacity of the status update channel                 *)
  Attempts     (* tries of retry.RetryOnConflict                            *)

(* A scenario is a kind of object and the bounds: changes of the object's    *)
(* spec, changes of other objects that decide its condition, changes of the  *)
(* load balancer's address, and writes that fail other than by a conflict.   *)
Scenario == [kind : {"httpproxy", "gateway", "httproute", "extension"},
             edits : Nat, changes : Nat, moves : Nat, failures : Nat]

ASSUME StatusAssumption ==
  /\ Scenarios \subseteq Scenario
  /\ QueueCap \in Nat \ {0} /\ Attempts \in Nat \ {0}

VARIABLES
  api,      (* the object at the API server                                *)
  watch,    (* its versions the informer has not seen yet                  *)
  cached,   (* the version in the informer's store                         *)
  valid,    (* would a DAG built now find the object valid?                *)
  dirty,    (* has an event asked for a rebuild?                           *)
  queue,    (* updateChannel                                               *)
  job,      (* the update the handler applies, or None                     *)
  tries,    (* how often it has been tried                                 *)
  base,     (* the version it read, or None before Get                     *)
  outdated, (* has the object changed since that version?                  *)
  elected,  (* is this replica the leader?                                 *)
  svc,      (* the load balancer's address, or None                        *)
  moved,    (* its values the watcher has not seen yet                     *)
  lbStatus, (* the channel from the watcher to the writer                  *)
  lb,       (* StatusAddressUpdater.LBStatus                               *)
  sending,  (* the address the writer's OnAdd is to send, or None          *)
  notes,    (* versions for which the informer is to call OnAdd, OnUpdate  *)
  held,     (* the address that call is to send, or None                   *)
  done      (* the scenario, and how many edits, changes, moves and        *)
            (* failures there have been                                    *)

apiVars == <<api, watch, cached>>
dagVars == <<valid, dirty>>
jobVars == <<job, tries, base, outdated>>
lbVars == <<svc, moved, lbStatus, lb, sending>>
noteVars == <<notes, held>>
statusVars == <<apiVars, dagVars, queue, jobVars, elected, lbVars, noteVars, done>>

kind == done.scenario.kind

(* A variant that knows HTTPProxy objects only. *)
ComparableProxies == kind = "httpproxy"

(* isStatusEqual compares the objects of some kinds only. *)
Comparable == kind \in {"httpproxy", "gateway"}

(* Mutators that compare with the condition on the object. Those of the     *)
(* Gateway API compare with ExistingConditions, a map of empty conditions.  *)
KeepsNewer == kind \in {"httpproxy", "extension"}

(* Kinds for which a change of the status alone makes onUpdate, or the      *)
(* controller's OnAdd, ask for a rebuild.                                   *)
StatusRebuilds == kind # "httpproxy"

(* A condition tells the verdict on one generation of the spec, and when.   *)
Conditions == [valid : BOOLEAN, gen : 0..done.scenario.edits, stamp : 0..1]

StatusInit ==
  /\ api = [gen |-> 0, cond |-> [valid |-> TRUE, gen |-> 0, stamp |-> 0], addr |-> None]
  /\ watch = <<>> /\ cached = api
  /\ valid = TRUE /\ dirty = FALSE
  /\ queue = <<>>
  /\ job = None /\ tries = 0 /\ base = None /\ outdated = FALSE
  /\ elected = FALSE
  /\ svc = None /\ moved = <<>> /\ lbStatus = <<>> /\ lb = None /\ sending = None
  /\ notes = <<>> /\ held = None
  /\ \E s \in Scenarios :
       done = [scenario |-> s, edits |-> 0, changes |-> 0, moves |-> 0, failures |-> 0]

Once(what) == done[what] < done.scenario[what] /\ done' = [done EXCEPT ![what] = @ + 1]

(* The API server stores a version; storing the same again changes nothing. *)
Write(version) ==
  /\ api' = version
  /\ watch' = IF version = api THEN watch ELSE Append(watch, version)

-----------------------------------------------------------------------------
(* The cluster *)

Edit ==
  /\ Once("edits")
  /\ Write([api EXCEPT !.gen = @ + 1])
  /\ outdated' = TRUE
  /\ UNCHANGED <<cached, dagVars, queue, job, tries, base, elected, lbVars, noteVars>>

(* Another object changes, a Service for instance. *)
Change ==
  /\ Once("changes")
  /\ valid' = ~valid /\ dirty' = TRUE
  /\ UNCHANGED <<apiVars, queue, jobVars, elected, lbVars, noteVars>>

Move(a) ==
  /\ Once("moves")
  /\ a # svc
  /\ svc' = a /\ moved' = Append(moved, a)
  /\ UNCHANGED <<apiVars, dagVars, queue, jobVars, elected, lbStatus, lb, sending, noteVars>>

(* The replica that is the leader writes the object's condition. *)
OtherLeader ==
  /\ ~elected
  /\ LET version == [api EXCEPT !.cond.valid = valid, !.cond.gen = api.gen]
     IN version # api /\ Write(version)
  /\ UNCHANGED <<cached, dagVars, queue, jobVars, elected, lbVars, noteVars, done>>

(* The writer's Start adds an event handler, which is called for the object.*)
Elect ==
  /\ ~elected /\ elected' = TRUE
  /\ notes' = Append(notes, cached)
  /\ UNCHANGED <<apiVars, dagVars, queue, jobVars, lbVars, held, done>>

(* The informer takes a version into its store, and calls its handlers.     *)
Observe ==
  /\ watch # <<>>
  /\ cached' = Head(watch) /\ watch' = Tail(watch)
  /\ dirty' = (dirty \/ StatusRebuilds \/ Head(watch).gen # cached.gen)
  /\ notes' = IF elected THEN Append(notes, Head(watch)) ELSE notes
  /\ UNCHANGED <<api, valid, queue, jobVars, elected, lbVars, held, done>>

-----------------------------------------------------------------------------
(* Updates and how they are applied *)

(* StatusUpdateWriter.Send blocks while the channel is full. *)
SendCondition(c) == Len(queue) < QueueCap /\ queue' = Append(queue, [cond |-> c])

SendAddress(a) == Len(queue) < QueueCap /\ queue' = Append(queue, [addr |-> a])

(* EventHandler.rebuildDAG; the clock may or may not have moved on. *)
Rebuild ==
  /\ dirty /\ dirty' = FALSE
  /\ \E stamp \in 0..1 : SendCondition([valid |-> valid, gen |-> cached.gen, stamp |-> stamp])
  /\ UNCHANGED <<apiVars, valid, jobVars, elected, lbVars, noteVars, done>>

Take ==
  /\ elected /\ job = None /\ queue # <<>>
  /\ job' = Head(queue) /\ queue' = Tail(queue)
  /\ tries' = 0
  /\ UNCHANGED <<apiVars, dagVars, base, outdated, elected, lbVars, noteVars, done>>

Finish == job' = None /\ base' = None /\ outdated' = FALSE /\ UNCHANGED tries

(* A variant that takes no account of the generation. *)
MutateUnconditionally(update, version) ==
  IF "addr" \in DOMAIN update
  THEN [version EXCEPT !.addr = update.addr]
  ELSE [version EXCEPT !.cond = update.cond]

(* The mutators. *)
Mutate(update, version) ==
  IF "addr" \in DOMAIN update
  THEN [version EXCEPT !.addr = update.addr]
  ELSE IF KeepsNewer /\ version.cond.gen > update.cond.gen
  THEN version
  ELSE [version EXCEPT !.cond = update.cond]

(* isStatusEqual, which ignores the time of a condition. *)
IsStatusEqual(v, w) ==
  /\ Comparable
  /\ v.addr = w.addr
  /\ v.cond.valid = w.cond.valid /\ v.cond.gen = w.cond.gen

(* apply reads the object from the informer's store. *)
GetObject ==
  /\ job # None /\ base = None
  /\ IF IsStatusEqual(cached, Mutate(job, cached))
     THEN Finish
     ELSE /\ base' = cached /\ outdated' = (watch # <<>>)
          /\ UNCHANGED <<job, tries>>
  /\ UNCHANGED <<apiVars, dagVars, queue, elected, lbVars, noteVars, done>>

(* A variant in which the API server takes any version. *)
UpdateUnchecked ==
  /\ job # None /\ base # None
  /\ Write([Mutate(job, base) EXCEPT !.gen = api.gen])
  /\ Finish
  /\ UNCHANGED <<cached, dagVars, queue, elected, lbVars, noteVars, done>>

Update ==
  /\ job # None /\ base # None /\ ~outdated
  /\ Write(Mutate(job, base))
  /\ Finish
  /\ UNCHANGED <<cached, dagVars, queue, elected, lbVars, noteVars, done>>

(* RetryOnConflict gives up after some tries. *)
Conflict ==
  /\ job # None /\ base # None /\ outdated
  /\ tries' = tries + 1
  /\ base' = None /\ outdated' = FALSE
  /\ job' = IF tries + 1 = Attempts THEN None ELSE job
  /\ UNCHANGED <<apiVars, dagVars, queue, elected, lbVars, noteVars, done>>

(* Any other error is not retried. *)
Failure ==
  /\ job # None
  /\ Once("failures")
  /\ Finish
  /\ UNCHANGED <<apiVars, dagVars, queue, elected, lbVars, noteVars>>

-----------------------------------------------------------------------------
(* The address *)

(* ServiceStatusLoadBalancerWatcher.notify. *)
Notify ==
  /\ moved # <<>> /\ lbStatus = <<>>
  /\ lbStatus' = <<Head(moved)>> /\ moved' = Tail(moved)
  /\ UNCHANGED <<apiVars, dagVars, queue, jobVars, elected, svc, lb, sending, noteVars, done>>

(* What OnAdd will send for a version, given the address it has read. *)
ToSend(address, version) ==
  IF kind = "httpproxy" \/ (kind = "gateway" /\ version.cond.valid)
  THEN address ELSE None

(* The writer sets the address and calls OnAdd for what the store lists. *)
Receive ==
  /\ elected /\ sending = None /\ lbStatus # <<>>
  /\ lb' = Head(lbStatus) /\ lbStatus' = <<>>
  /\ sending' = ToSend(lb', cached)
  /\ UNCHANGED <<apiVars, dagVars, queue, jobVars, elected, svc, moved, noteVars, done>>

WriterSend ==
  /\ sending # None /\ SendAddress(sending) /\ sending' = None
  /\ UNCHANGED <<apiVars, dagVars, jobVars, elected, svc, moved, lbStatus, lb, noteVars, done>>

(* A variant that takes OnUpdate for a change of the spec only. *)
OnAddIgnoresUpdates ==
  /\ notes # <<>> /\ held = None /\ notes' = Tail(notes)
  /\ held' = None
  /\ UNCHANGED <<apiVars, dagVars, queue, jobVars, elected, lbVars, done>>

(* The informer's goroutine in OnAdd or OnUpdate: the address is read under *)
(* the mutex and sent without it.                                           *)
OnAdd ==
  /\ notes # <<>> /\ held = None
  /\ notes' = Tail(notes)
  /\ held' = ToSend(lb, Head(notes))
  /\ UNCHANGED <<apiVars, dagVars, queue, jobVars, elected, lbVars, done>>

InformerSend ==
  /\ held # None /\ SendAddress(held) /\ held' = None
  /\ UNCHANGED <<apiVars, dagVars, jobVars, elected, lbVars, notes, done>>

-----------------------------------------------------------------------------
Program ==
  \/ Elect \/ Observe \/ Rebuild \/ Take \/ GetObject \/ Update \/ Conflict
  \/ Notify \/ Receive \/ WriterSend \/ OnAdd \/ InformerSend

StatusNext ==
  \/ Edit \/ Change \/ OtherLeader \/ Failure
  \/ \E a \in Addresses \union {None} : Move(a)
  \/ Program

(* Every goroutine runs on, the informer catches up and this replica becomes*)
(* the leader at some time. Senders wait for a channel in turn, so none is   *)
(* passed over for ever.                                                     *)
Fairness ==
  /\ WF_statusVars(Elect) /\ WF_statusVars(Observe) /\ SF_statusVars(Rebuild) /\ WF_statusVars(Take)
  /\ WF_statusVars(GetObject) /\ WF_statusVars(Update \/ Conflict)
  /\ WF_statusVars(Notify) /\ WF_statusVars(Receive) /\ SF_statusVars(WriterSend)
  /\ WF_statusVars(OnAdd) /\ SF_statusVars(InformerSend)

StatusSpec == StatusInit /\ [][StatusNext]_statusVars
FairSpec == StatusSpec /\ Fairness

-----------------------------------------------------------------------------
(* Properties *)

(* The two writers replace the whole status, but neither undoes what the    *)
(* other has written: the address changes only to the address of the update *)
(* in hand, the condition only to its condition, however stale the object   *)
(* was that apply had read from the store.                                  *)
FieldsKept ==
  [][elected =>
       /\ api'.addr # api.addr => "addr" \in DOMAIN job /\ api'.addr = job.addr
       /\ api'.cond # api.cond => "cond" \in DOMAIN job /\ api'.cond = job.cond]_statusVars

(* The generation an HTTPProxy's condition was observed at never goes back,  *)
(* not even when a new leader works off what it had queued before its        *)
(* election and the previous leader has written newer conditions.            *)
ProxyGenerationsKept ==
  [][kind = "httpproxy" => api'.cond.gen >= api.cond.gen]_statusVars

(* Once the load balancer keeps its address it ends up in the status, though *)
(* the informer's goroutine may send an address after a newer one has been   *)
(* sent, and an update may be dropped as a no-op or after conflicts.         *)
AddressConverges ==
  <>[](lb # None /\ (kind = "gateway" => api.cond.valid) /\ done.failures = 0
         => api.addr = lb)

(* The condition of a Gateway ends up as the last rebuild has found it:      *)
(* rebuildDAG "updates the status on objects".                               *)
ConditionConverges ==
  <>[](kind = "gateway" /\ done.failures = 0 => api.cond.valid = valid)

(* Both fields end up right, though one writer's update may be retried,     *)
(* dropped as a no-op or applied late, over what the other one wrote.       *)
StatusesConverge == AddressConverges /\ ConditionConverges

(* Writing a status does not set off rebuilds and writes without end.        *)
Settles == <>[](~dirty /\ queue = <<>> /\ job = None)
=============================================================================
