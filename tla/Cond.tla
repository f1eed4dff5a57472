-------------------------------- MODULE Cond --------------------------------
(***************************************************************************)
(* The condition variable every xDS cache embeds (internal/sesame/cond.go): *)
(* waiters hand it a channel of capacity 1, and Notify, holding the mutex,  *)
(* sends its counter on the channel of every interested waiter.             *)
(*                                                                         *)
(* Register and Notify run under c.mu, so each is one step. A send on a     *)
(* full channel would never return: the mutex would stay locked for good.   *)
(* That outcome is kept in the model as mu = "wedged".                      *)
(***************************************************************************)
EXTENDS Integers

CONSTANTS
  Chans,   (* the waiters' channels, each made with capacity 1 *)
  Names    (* resource names: the hints of Register and Notify  *)

VARIABLES
  condLast,  (* Cond.last: how often Notify has been called          *)
  waiters,   (* waiters[c]: how many entries of Cond.waiters hold c  *)
  hints,     (* hints[c]: the hints c is registered with             *)
  ch,        (* ch[c]: the value buffered in channel c, or Empty     *)
  mu         (* "free", or "wedged" by a send that blocks for ever   *)

condVars == <<condLast, waiters, hints, ch, mu>>

(* No value of last is negative once it has been sent on a channel. *)
Empty == -1

CondTypeOK ==
  /\ condLast \in Nat
  /\ waiters \in [Chans -> Nat]
  /\ hints \in [Chans -> SUBSET Names]
  /\ ch \in [Chans -> Nat \union {Empty}]
  /\ mu \in {"free", "wedged"}

CondInit ==
  /\ condLast = 0
  /\ waiters = [c \in Chans |-> 0]
  /\ hints = [c \in Chans |-> {}]
  /\ ch = [c \in Chans |-> Empty]
  /\ mu = "free"

-----------------------------------------------------------------------------
(* Register, as a variant without the return after the immediate send. *)
RegisterKeepsWaiter(c, last, names) ==
  /\ mu = "free"
  /\ hints' = [hints EXCEPT ![c] = names]
  /\ waiters' = [waiters EXCEPT ![c] = @ + 1]
  /\ ch' = [ch EXCEPT ![c] = IF last < condLast THEN condLast ELSE @]
  /\ UNCHANGED <<condLast, mu>>

(* Register, as a variant that compares with <= and so repeats a version. *)
RegisterAtOrBelow(c, last, names) ==
  /\ mu = "free"
  /\ hints' = [hints EXCEPT ![c] = names]
  /\ IF last <= condLast
     THEN ch' = [ch EXCEPT ![c] = condLast] /\ UNCHANGED waiters
     ELSE waiters' = [waiters EXCEPT ![c] = @ + 1] /\ UNCHANGED ch
  /\ UNCHANGED <<condLast, mu>>

(* Register, as a variant that ignores the notifications already missed. *)
RegisterForgetsMissed(c, last, names) ==
  /\ mu = "free"
  /\ hints' = [hints EXCEPT ![c] = names]
  /\ IF last < 0
     THEN ch' = [ch EXCEPT ![c] = condLast] /\ UNCHANGED waiters
     ELSE waiters' = [waiters EXCEPT ![c] = @ + 1] /\ UNCHANGED ch
  /\ UNCHANGED <<condLast, mu>>

(* Register: a caller that has missed a notification is answered at once. *)
Register(c, last, names) ==
  /\ mu = "free"
  /\ hints' = [hints EXCEPT ![c] = names]
  /\ IF last < condLast
     THEN /\ IF ch[c] = Empty
             THEN ch' = [ch EXCEPT ![c] = condLast] /\ UNCHANGED mu
             ELSE mu' = "wedged" /\ UNCHANGED ch
          /\ UNCHANGED waiters
     ELSE /\ waiters' = [waiters EXCEPT ![c] = @ + 1]
          /\ UNCHANGED <<ch, mu>>
  /\ UNCHANGED condLast

(* The channels a Notify with these hints sends on: every waiter if there   *)
(* are no hints, else the waiters that registered one of them.              *)
Interested(notified) ==
  {c \in Chans : waiters[c] > 0 /\ (notified = {} \/ notified \cap hints[c] # {})}

(* Notify: one send per entry of the waiter list, all under the mutex.      *)
Notify(notified) ==
  /\ mu = "free"
  /\ condLast' = condLast + 1
  /\ IF \A c \in Interested(notified) : ch[c] = Empty /\ waiters[c] = 1
     THEN /\ ch' = [c \in Chans |->
                      IF c \in Interested(notified) THEN condLast + 1 ELSE ch[c]]
          /\ waiters' = [c \in Chans |->
                      IF c \in Interested(notified) THEN 0 ELSE waiters[c]]
          /\ UNCHANGED mu
     ELSE mu' = "wedged" /\ UNCHANGED <<ch, waiters>>
  /\ UNCHANGED hints

(* The receive of select's "case last = <-ch". *)
Receive(c) ==
  /\ ch[c] # Empty
  /\ ch' = [ch EXCEPT ![c] = Empty]
  /\ UNCHANGED <<condLast, waiters, hints, mu>>
=============================================================================
