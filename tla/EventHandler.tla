---------------------------- MODULE EventHandler ----------------------------
(***************************************************************************)
(* The EventHandler (internal/sesame/handler.go): the goroutine that owns   *)
(* the KubernetesCache, batches changes with the hold-off timer, rebuilds   *)
(* the DAG and queues the status updates of every rebuild; together with    *)
(* the goroutine that writes the queued updates once this replica is the    *)
(* leader (internal/k8s/status.go) and the leadership notifier.             *)
(*                                                                         *)
(* Informers hand their events over on an unbuffered channel. Time is       *)
(* discrete. A timer that has expired is served before the clock moves on,  *)
(* but Go's select may take any number of waiting events first.             *)
(***************************************************************************)
EXTENDS Integers, Sequences

CONSTANTS
  Objects,         (* the objects whose status every DAG reports            *)
  HoldoffDelay,    (* ticks of the hold-off timer                           *)
  HoldoffMaxDelay, (* ticks after which the timer is not set again          *)
  QueueCap,        (* the capacity of the status update channel             *)
  MaxEvents,       (* bound: events the informers deliver                   *)
  MaxFailures      (* bound: status updates the API server refuses          *)

ASSUME HandlerAssumption ==
  /\ HoldoffDelay \in Nat \ {0} /\ HoldoffMaxDelay \in Nat
  /\ QueueCap \in Nat \ {0}
  /\ MaxEvents \in Nat /\ MaxFailures \in Nat

VARIABLES
  events,      (* events the informers have had so far                        *)
  offered,     (* events whose informer waits to send on e.update             *)
  changes,     (* changes of the KubernetesCache that call for a rebuild      *)
  built,       (* the value of changes in the DAG last given to the observers *)
  pc,          (* "select", or "send" while rebuildDAG sends status updates   *)
  outstanding, (* events received but not yet included in a DAG rebuild       *)
  timer,       (* ticks until the channel "pending" is ready, or Off          *)
  since,       (* ticks since lastDAGRebuild, counted up to the maximum + 1   *)
  age,         (* history: ticks since the oldest outstanding event came      *)
  unsent,      (* objects of this DAG whose status update is still to be sent *)
  queue,       (* updateChannel: pairs of an object and its DAG               *)
  status,      (* the status of each object: the DAG it was written from      *)
  failures,    (* status updates refused                                      *)
  elected,     (* has this replica become the leader?                         *)
  announcing   (* does OnElectedLeader's goroutine wait to send?              *)

vars == <<events, offered, changes, built, pc, outstanding, timer, since, age,
          unsent, queue, status, failures, elected, announcing>>
timeVars == <<timer, since, age>>
statusVars == <<unsent, queue, status, failures>>
leaderVars == <<elected, announcing>>

Off == -1
Oldest == HoldoffMaxDelay + HoldoffDelay

Init ==
  /\ events = 0 /\ offered = 0
  /\ changes = 0 /\ built = 0
  /\ pc = "select" /\ outstanding = 0
  /\ timer = Off /\ since = 0 /\ age = 0
  /\ unsent = {} /\ queue = <<>> /\ status = [o \in Objects |-> 0] /\ failures = 0
  /\ elected = FALSE /\ announcing = FALSE

-----------------------------------------------------------------------------
(* Informers, leader election and the clock *)

(* An informer has an event and waits to send it. *)
Offer ==
  /\ events < MaxEvents
  /\ events' = events + 1 /\ offered' = offered + 1
  /\ UNCHANGED <<changes, built, pc, outstanding, timeVars, statusVars, leaderVars>>

(* The manager starts the runnables that need leadership: the status writer *)
(* and the Notifier, whose goroutine calls OnElectedLeader.                 *)
Elect ==
  /\ ~elected
  /\ elected' = TRUE /\ announcing' = TRUE
  /\ UNCHANGED <<events, offered, changes, built, pc, outstanding, timeVars, statusVars>>

Tick ==
  /\ ~(pc = "select" /\ timer = 0)
  /\ timer' = IF timer > 0 THEN timer - 1 ELSE timer
  /\ since' = IF since <= HoldoffMaxDelay THEN since + 1 ELSE since
  /\ age' = IF outstanding > 0 /\ age <= Oldest THEN age + 1 ELSE age
  /\ UNCHANGED <<events, offered, changes, built, pc, outstanding, statusVars, leaderVars>>

-----------------------------------------------------------------------------
(* The loop of Start *)

(* A variant that keeps waiting on the channel of the timer it has stopped. *)
ScheduleOnStoppedTimer ==
  /\ outstanding' = outstanding + 1
  /\ timer' = IF outstanding > 0 THEN Off ELSE HoldoffDelay
  /\ UNCHANGED since
  /\ age' = IF outstanding = 0 THEN 0 ELSE age

(* A variant without the test of the maximum delay. *)
ScheduleWithoutMax ==
  /\ outstanding' = outstanding + 1
  /\ timer' = HoldoffDelay
  /\ UNCHANGED since
  /\ age' = IF outstanding = 0 THEN 0 ELSE age

(* onUpdate returned true: count the event and set the timer anew. *)
Schedule ==
  /\ outstanding' = outstanding + 1
  /\ timer' = IF since > HoldoffMaxDelay THEN 0 ELSE HoldoffDelay
  /\ UNCHANGED since
  /\ age' = IF outstanding = 0 THEN 0 ELSE age

(* case op := <-e.update: an event that changes what the DAG is built from, *)
(* or one that is skipped (nothing but the status has changed, or the cache *)
(* is not interested).                                                      *)
Accept(rebuild) ==
  /\ pc = "select"
  /\ offered > 0 /\ offered' = offered - 1
  /\ IF rebuild
     THEN changes' = changes + 1 /\ Schedule
     ELSE UNCHANGED <<changes, outstanding, timeVars>>
  /\ UNCHANGED <<events, built, pc, statusVars, leaderVars>>

(* The same case, for the value true that OnElectedLeader sends. *)
AcceptLeader ==
  /\ pc = "select"
  /\ announcing /\ announcing' = FALSE
  /\ Schedule
  /\ UNCHANGED <<events, offered, changes, built, pc, statusVars, elected>>

(* case <-pending: rebuildDAG builds, notifies the observers and begins to  *)
(* send the status updates, in the order of a map iteration.                *)
Rebuild ==
  /\ pc = "select" /\ timer = 0
  /\ outstanding' = 0 /\ timer' = Off /\ age' = 0
  /\ built' = changes
  /\ unsent' = Objects
  /\ pc' = "send"
  /\ UNCHANGED <<events, offered, changes, since, queue, status, failures, leaderVars>>

(* A variant of Send that drops the update when the channel is full. *)
SendOrDrop(o) ==
  /\ pc = "send" /\ o \in unsent
  /\ queue' = IF Len(queue) < QueueCap THEN Append(queue, <<o, built>>) ELSE queue
  /\ unsent' = unsent \ {o}
  /\ UNCHANGED <<events, offered, changes, built, pc, outstanding, timeVars,
                 status, failures, leaderVars>>

(* statusUpdater.Send, which waits while the channel is full. *)
Send(o) ==
  /\ pc = "send" /\ o \in unsent
  /\ Len(queue) < QueueCap
  /\ queue' = Append(queue, <<o, built>>)
  /\ unsent' = unsent \ {o}
  /\ UNCHANGED <<events, offered, changes, built, pc, outstanding, timeVars,
                 status, failures, leaderVars>>

(* rebuildDAG returns; lastDAGRebuild = time.Now(). *)
Rebuilt ==
  /\ pc = "send" /\ unsent = {}
  /\ pc' = "select" /\ since' = 0
  /\ UNCHANGED <<events, offered, changes, built, outstanding, timer, age,
                 statusVars, leaderVars>>

-----------------------------------------------------------------------------
(* StatusUpdateHandler.Start on the leader: apply the next update. *)
Apply ==
  /\ elected /\ queue # <<>>
  /\ queue' = Tail(queue)
  /\ status' = [status EXCEPT ![Head(queue)[1]] = Head(queue)[2]]
  /\ UNCHANGED <<events, offered, changes, built, pc, outstanding, timeVars,
                 unsent, failures, leaderVars>>

(* apply gives up: "unable to update status". *)
ApplyFails ==
  /\ elected /\ queue # <<>> /\ failures < MaxFailures
  /\ queue' = Tail(queue)
  /\ failures' = failures + 1
  /\ UNCHANGED <<events, offered, changes, built, pc, outstanding, timeVars,
                 unsent, status, leaderVars>>

-----------------------------------------------------------------------------
Handler == \/ \E rebuild \in BOOLEAN : Accept(rebuild)
           \/ AcceptLeader \/ Rebuild \/ (\E o \in Objects : Send(o)) \/ Rebuilt

Next == Offer \/ Elect \/ Tick \/ Handler \/ Apply \/ ApplyFails

Spec == Init /\ [][Next]_vars

(* The loop never stops while it can run, the clock goes on, and a leader's *)
(* status writer serves its queue. Events end, so weak fairness is enough   *)
(* for select to take the timer.                                            *)
ReplicaSpec == Spec /\ WF_vars(Handler) /\ WF_vars(Tick) /\ WF_vars(Apply)

(* A replica that becomes the leader. *)
LeaderSpec == ReplicaSpec /\ WF_vars(Elect)

-----------------------------------------------------------------------------
(* Properties *)

(* At select, an event that calls for a rebuild is in the DAG or the timer   *)
(* is running: batching never forgets a change.                              *)
NoneForgotten ==
  pc = "select" =>
    /\ outstanding = 0 => built = changes
    /\ outstanding > 0 => timer # Off

(* However long events keep arriving, none waits for its rebuild longer than *)
(* the two hold-off delays together, although each event sets the timer anew.*)
HoldoffBounded == age <= Oldest

(* On a replica that becomes the leader every event gets into a DAG, and     *)
(* every object ends up with the status of the last one unless the API server *)
(* has refused an update: OnElectedLeader is there "to ensure resource        *)
(* statuses are not stale".                                                  *)
StatusConverges ==
  <>[](/\ offered = 0 /\ built = changes
       /\ failures = 0 => \A o \in Objects : status[o] = changes)

(* What Sequence's comment says of every event: it may be "processed         *)
(* immediately, or delayed by a holdoff timer. In each case a non blocking   *)
(* send to the sequence channel will be made once the resource update is     *)
(* received". So every event an informer has is received and gets into a DAG,*)
(* on every replica.                                                         *)
EventsProcessed == <>[](offered = 0 /\ built = changes)
=============================================================================
