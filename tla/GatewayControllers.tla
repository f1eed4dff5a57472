------------------------- MODULE GatewayControllers -------------------------
(***************************************************************************)
(* The controllers for GatewayClasses and Gateways (internal/controller/    *)
(* gatewayclass.go, gateway.go). Among the classes that name this           *)
(* controller the oldest is accepted; among its Gateways the oldest is      *)
(* given to the DAG and the others are told that they are not scheduled.    *)
(* Each controller has watches whose predicates drop events, a work queue,  *)
(* and a Reconcile that looks at everything anew. Predicates and Reconcile  *)
(* read the manager's client when they run, which may be long after the     *)
(* event. The EventHandler rebuilds the DAG and reports on its Gateway.     *)
(* Status updates of all of them go through one channel, and every status   *)
(* that is written is an event again. The replica is the leader.            *)
(*                                                                         *)
(* Names are numbers, for the alphabetical order that breaks ties.          *)
(***************************************************************************)
EXTENDS Integers, Sequences, FiniteSets, FiniteSetsExt

CONSTANTS
  Classes,  (* names of GatewayClasses that name this controller       *)
  Gateways, (* names of Gateways                                       *)
  Absent,   (* no such object                                          *)
  Patient,  (* does whoever deletes a class wait until the controllers *)
            (* have dealt with the deletion of its Gateways, and its   *)
            (* status updates have been written?                       *)
  QueueCap, (* the capacity of the status update channel               *)
  MaxOps    (* bound: objects created and deleted                      *)

ASSUME ControllersAssumption ==
  /\ Classes \subseteq Nat /\ Gateways \subseteq Nat
  /\ IsFiniteSet(Classes) /\ IsFiniteSet(Gateways)
  /\ Classes \cap Gateways = {} /\ Absent \notin Classes \union Gateways
  /\ Absent \notin [stamp : Nat, conds : SUBSET {"accepted", "rejected"}]
  /\ Absent \notin [stamp : Nat, class : Classes, conds : SUBSET {"notscheduled", "ready"}]
  /\ Patient \in BOOLEAN
  /\ QueueCap \in Nat /\ QueueCap >= Cardinality(Classes)
  /\ QueueCap >= Cardinality(Gateways)
  /\ MaxOps \in Nat

VARIABLES
  classes,     (* the GatewayClasses: created when, with what conditions *)
  gateways,    (* the Gateways: created when, of which class, conditions *)
  ops,
  pace,        (* seconds between two creations: objects may be of one   *)
               (* age, or of different ages; never changes               *)
  mapEvents,   (* classes with an event for the gateway controller       *)
  gwEvents,    (* Gateways with an event, and the class they name        *)
  classQueue, gwQueue,  (* the controllers' work queues                  *)
  dagClass, dagGateway, (* what the cache of the EventHandler holds      *)
  dirty,       (* is the DAG to be rebuilt?                              *)
  reporting,   (* the Gateway whose status rebuildDAG is about to send   *)
  updates      (* the status channel: a name and its new condition       *)

objectVars == <<classes, gateways, ops, pace>>
eventVars == <<mapEvents, gwEvents>>
queueVars == <<classQueue, gwQueue>>
dagVars == <<dagClass, dagGateway, dirty, reporting>>
vars == <<objectVars, eventVars, queueVars, dagVars, updates>>

Existing(f) == {x \in DOMAIN f : f[x] # Absent}

(* The oldest of some objects, the first by name if created together. *)
OldestOf(xs, f) ==
  CHOOSE x \in xs : \A y \in xs :
    f[x].stamp < f[y].stamp \/ (f[x].stamp = f[y].stamp /\ x <= y)

Init ==
  /\ classes = [c \in Classes |-> Absent] /\ gateways = [g \in Gateways |-> Absent]
  /\ ops = 0 /\ pace \in 0..1
  /\ mapEvents = {} /\ gwEvents = {}
  /\ classQueue = {} /\ gwQueue = {}
  /\ dagClass = Absent /\ dagGateway = Absent /\ dirty = FALSE /\ reporting = Absent
  /\ updates = <<>>

-----------------------------------------------------------------------------
(* The cluster *)

(* The creation time of a new object. Only the order of the existing ones   *)
(* counts.                                                                  *)
NewStamp(f) ==
  pace * (1 + Max({0} \union {f[x].stamp : x \in Existing(f)}))

(* An event of a class: gatewayClassReconciler.hasMatchingController lets it *)
(* pass to the class controller.                                            *)
ClassEvent(c) ==
  classQueue' = classQueue \union {c} /\ mapEvents' = mapEvents \union {c}

CreateClass(c) ==
  /\ ops < MaxOps /\ ops' = ops + 1
  /\ classes[c] = Absent
  /\ classes' = [classes EXCEPT ![c] = [stamp |-> NewStamp(classes), conds |-> {}]]
  /\ ClassEvent(c)
  /\ UNCHANGED <<gateways, pace, gwEvents, gwQueue, dagVars, updates>>

DeleteClass(c) ==
  /\ ops < MaxOps /\ ops' = ops + 1
  /\ classes[c] # Absent
  /\ Patient => /\ \A g \in Existing(gateways) : gateways[g].class # c
                /\ \A e \in gwEvents : e[2] # c
                /\ gwQueue = {}
                /\ \A i \in DOMAIN updates : updates[i][1] # c
  /\ classes' = [classes EXCEPT ![c] = Absent]
  /\ ClassEvent(c)
  /\ UNCHANGED <<gateways, pace, gwEvents, gwQueue, dagVars, updates>>

CreateGateway(g, c) ==
  /\ ops < MaxOps /\ ops' = ops + 1
  /\ gateways[g] = Absent
  /\ gateways' = [gateways EXCEPT ![g] = [stamp |-> NewStamp(gateways), class |-> c, conds |-> {}]]
  /\ gwEvents' = gwEvents \union {<<g, c>>}
  /\ UNCHANGED <<classes, pace, mapEvents, queueVars, dagVars, updates>>

DeleteGateway(g) ==
  /\ ops < MaxOps /\ ops' = ops + 1
  /\ gateways[g] # Absent
  /\ gateways' = [gateways EXCEPT ![g] = Absent]
  /\ gwEvents' = gwEvents \union {<<g, gateways[g].class>>}
  /\ UNCHANGED <<classes, pace, mapEvents, queueVars, dagVars, updates>>

-----------------------------------------------------------------------------
(* The watches of the gateway controller *)

(* gatewayClassHasMatchingController and mapGatewayClassToGateways. *)
MapGatewayClassToGateways(c) ==
  /\ c \in mapEvents /\ mapEvents' = mapEvents \ {c}
  /\ gwQueue' = gwQueue \union {g \in Existing(gateways) : gateways[g].class = c}
  /\ UNCHANGED <<objectVars, gwEvents, classQueue, dagVars, updates>>

(* hasMatchingController: is the class of the Gateway there now? *)
HasMatchingController(c) == classes[c] # Absent

WatchGateway(e) ==
  /\ e \in gwEvents /\ gwEvents' = gwEvents \ {e}
  /\ gwQueue' = IF HasMatchingController(e[2]) THEN gwQueue \union {e[1]} ELSE gwQueue
  /\ UNCHANGED <<objectVars, mapEvents, classQueue, dagVars, updates>>

-----------------------------------------------------------------------------
(* Reconcile *)

(* All orders of the members of a set: objects are listed in any order. *)
Orders(xs) ==
  {u \in [1..Cardinality(xs) -> xs] : {u[i] : i \in DOMAIN u} = xs}

(* The updates that give each of some objects a condition. *)
Told(order, cond) == [i \in DOMAIN order |-> <<order[i], cond>>]

(* Send waits while the channel is full. *)
Send(sent) == Len(updates \o sent) <= QueueCap /\ updates' = updates \o sent

(* gatewayClassReconciler.Reconcile: first the classes that are not accepted. *)
ReconcileClass(c) ==
  /\ c \in classQueue /\ classQueue' = classQueue \ {c}
  /\ dirty' = TRUE
  /\ IF Existing(classes) = {}
     THEN dagClass' = Absent /\ UNCHANGED updates
     ELSE LET accepted == OldestOf(Existing(classes), classes)
          IN /\ \E order \in Orders(Existing(classes) \ {accepted}) :
                  Send(Told(order, "rejected") \o <<<<accepted, "accepted">>>>)
             /\ dagClass' = accepted
  /\ UNCHANGED <<objectVars, eventVars, gwQueue, dagGateway, reporting>>

Accepted == {c \in Existing(classes) : "accepted" \in classes[c].conds}
GatewaysOf(c) == {g \in Existing(gateways) : gateways[g].class = c}

(* gatewayReconciler.Reconcile. The first accepted class of the list counts, *)
(* should there be two.                                                      *)
ReconcileGateway(g) ==
  /\ g \in gwQueue /\ gwQueue' = gwQueue \ {g}
  /\ dirty' = TRUE
  /\ \/ /\ Accepted = {} \/ \E c \in Accepted : GatewaysOf(c) = {}
        /\ dagGateway' = Absent /\ UNCHANGED updates
     \/ \E c \in Accepted :
          /\ GatewaysOf(c) # {}
          /\ LET oldest == OldestOf(GatewaysOf(c), gateways)
             IN /\ \E order \in Orders(GatewaysOf(c) \ {oldest}) :
                     Send(Told(order, "notscheduled"))
                /\ dagGateway' = oldest
  /\ UNCHANGED <<objectVars, eventVars, classQueue, dagClass, reporting>>

-----------------------------------------------------------------------------
(* The DAG and the status updates *)

(* rebuildDAG: GatewayAPIProcessor.Run needs both objects ... *)
RebuildDAG ==
  /\ dirty /\ reporting = Absent
  /\ dirty' = FALSE
  /\ reporting' = IF dagClass # Absent THEN dagGateway ELSE Absent
  /\ UNCHANGED <<objectVars, eventVars, queueVars, dagClass, dagGateway, updates>>

(* ... and reports whether the Gateway is ready; either way is "ready" here. *)
SendStatus ==
  /\ reporting # Absent /\ reporting' = Absent
  /\ Send(<<<<reporting, "ready">>>>)
  /\ UNCHANGED <<objectVars, eventVars, queueVars, dagClass, dagGateway, dirty>>

(* A variant in which the DAG's mutator leaves other conditions alone. *)
MutateKeeps(conds, cond) ==
  IF cond \in {"accepted", "rejected"} THEN {cond} ELSE conds \union {cond}

(* The mutators. The DAG's replaces all conditions of a Gateway,            *)
(* setGatewayNotScheduled adds one, and SetGatewayClassAccepted sets one.   *)
Mutate(conds, cond) == IF cond = "notscheduled" THEN conds \union {cond} ELSE {cond}

(* A variant that writes every update. *)
ApplyUpdateAlways ==
  /\ updates # <<>> /\ updates' = Tail(updates)
  /\ LET x == Head(updates)[1]
         cond == Head(updates)[2]
     IN \/ /\ x \in Existing(classes)
           /\ classes' = [classes EXCEPT ![x].conds = Mutate(@, cond)]
           /\ ClassEvent(x) /\ UNCHANGED <<gateways, gwEvents>>
        \/ /\ x \in Existing(gateways)
           /\ gateways' = [gateways EXCEPT ![x].conds = Mutate(@, cond)]
           /\ gwEvents' = gwEvents \union {<<x, gateways[x].class>>}
           /\ UNCHANGED <<classes, mapEvents, classQueue>>
        \/ /\ x \notin Existing(classes) \union Existing(gateways)
           /\ UNCHANGED <<classes, gateways, eventVars, classQueue>>
  /\ UNCHANGED <<ops, pace, gwQueue, dagVars>>

(* StatusUpdateHandler.apply: a write, and with it an event, only if the    *)
(* object exists and its status differs.                                    *)
ApplyUpdate ==
  /\ updates # <<>> /\ updates' = Tail(updates)
  /\ LET x == Head(updates)[1]
         cond == Head(updates)[2]
         Differs(f) == x \in Existing(f) /\ Mutate(f[x].conds, cond) # f[x].conds
     IN \/ /\ Differs(classes)
           /\ classes' = [classes EXCEPT ![x].conds = Mutate(@, cond)]
           /\ ClassEvent(x) /\ UNCHANGED <<gateways, gwEvents>>
        \/ /\ Differs(gateways)
           /\ gateways' = [gateways EXCEPT ![x].conds = Mutate(@, cond)]
           /\ gwEvents' = gwEvents \union {<<x, gateways[x].class>>}
           /\ UNCHANGED <<classes, mapEvents, classQueue>>
        \/ /\ ~Differs(classes) /\ ~Differs(gateways)
           /\ UNCHANGED <<classes, gateways, eventVars, classQueue>>
  /\ UNCHANGED <<ops, pace, gwQueue, dagVars>>

-----------------------------------------------------------------------------
Program ==
  \/ \E c \in Classes : MapGatewayClassToGateways(c) \/ ReconcileClass(c)
  \/ \E e \in gwEvents : WatchGateway(e)
  \/ \E g \in Gateways : ReconcileGateway(g)
  \/ RebuildDAG \/ SendStatus \/ ApplyUpdate

Next ==
  \/ \E c \in Classes : CreateClass(c) \/ DeleteClass(c)
  \/ \E g \in Gateways : DeleteGateway(g) \/ \E c \in Classes : CreateGateway(g, c)
  \/ Program

(* The controllers, the EventHandler and the status writer work as long as  *)
(* there is something to do.                                                *)
Spec == Init /\ [][Next]_vars /\ WF_vars(Program)

-----------------------------------------------------------------------------
(* Properties *)

Quiet ==
  /\ mapEvents = {} /\ gwEvents = {} /\ classQueue = {} /\ gwQueue = {}
  /\ ~dirty /\ reporting = Absent /\ updates = <<>>

(* When the controllers are done the oldest class is accepted, no other is,  *)
(* and it is the one the DAG has, in whatever order classes came and went.   *)
OneClassAccepted ==
  Quiet => IF Existing(classes) = {} THEN dagClass = Absent
           ELSE LET oldest == OldestOf(Existing(classes), classes)
                IN Accepted = {oldest} /\ dagClass = oldest

(* When the controllers are done the DAG has the oldest Gateway of the       *)
(* accepted class: Reconcile "passes the oldest such Gateway to the DAG".    *)
OldestGatewayInDAG ==
  Quiet => \/ Accepted = {} /\ dagGateway = Absent
           \/ \E c \in Accepted :
                dagGateway = IF GatewaysOf(c) = {} THEN Absent
                             ELSE OldestOf(GatewaysOf(c), gateways)

(* When the controllers are done, the Gateways of the accepted class that    *)
(* are not in the DAG say that they are not scheduled, and the one that is   *)
(* does not: the two writers of a Gateway's conditions, of which one replaces*)
(* all that the other wrote, come to agree.                                  *)
OthersNotScheduled ==
  Quiet => \A c \in Accepted : \A g \in GatewaysOf(c) :
             ("notscheduled" \in gateways[g].conds) = (g # dagGateway)

(* Whenever the controllers are done what they have left is right: classes, *)
(* the DAG's Gateway and the conditions of the others (the three parts above).*)
QuietIsRight == OneClassAccepted /\ OldestGatewayInDAG /\ OthersNotScheduled

(* Status writes are events, events are reconciled, and Reconcile writes     *)
(* statuses: the circle comes to an end.                                     *)
ControllersSettle == <>[]Quiet
=============================================================================
