--------------------- MODULE GatewayControllers_proofs ----------------------
(***************************************************************************)
(* Proofs about the controllers for any classes and Gateways, any capacity  *)
(* of the status channel and any number of creations and deletions: what    *)
(* they have left when there is nothing more to do is right.                *)
(***************************************************************************)
EXTENDS GatewayControllers, FiniteSetTheorems, WellFoundedInduction, TLAPS

ClassObjects == [stamp : Nat, conds : SUBSET {"accepted", "rejected"}]
GatewayObjects == [stamp : Nat, class : Classes, conds : SUBSET {"notscheduled", "ready"}]
StatusUpdates == (Classes \X {"accepted", "rejected"}) \union (Gateways \X {"notscheduled", "ready"})

TypeOK ==
  /\ classes \in [Classes -> ClassObjects \union {Absent}]
  /\ gateways \in [Gateways -> GatewayObjects \union {Absent}]
  /\ pace \in 0..1
  /\ mapEvents \subseteq Classes /\ gwEvents \subseteq Gateways \X Classes
  /\ classQueue \subseteq Classes /\ gwQueue \subseteq Gateways
  /\ dagClass \in Classes \union {Absent}
  /\ dagGateway \in Gateways \union {Absent} /\ reporting \in Gateways \union {Absent}
  /\ dirty \in BOOLEAN
  /\ updates \in Seq(StatusUpdates)

(* No creation time is beyond all bounds, so that a new one can be found.    *)
Bounded(f) == \E n \in Nat : \A x \in Existing(f) : f[x].stamp <= n
Stamped == Bounded(classes) /\ Bounded(gateways)

-----------------------------------------------------------------------------
(* Classes *)

(* What a class will say once the updates on their way are written: the      *)
(* last one for it counts.                                                   *)
WillBe(c, cond) ==
  \/ \E i \in 1..Len(updates) :
       /\ updates[i] = <<c, cond>>
       /\ \A k \in 1..Len(updates) : k > i /\ updates[k][1] = c => updates[k][2] = cond
  \/ classes[c].conds = {cond} /\ \A k \in 1..Len(updates) : updates[k][1] # c

Verdict(c) == IF c = OldestOf(Existing(classes), classes) THEN "accepted" ELSE "rejected"

(* Whoever makes a difference to the choice of a class has also put one into *)
(* the work queue.                                                           *)
ClassInv ==
  classQueue = {} =>
    /\ dagClass = IF Existing(classes) = {} THEN Absent ELSE OldestOf(Existing(classes), classes)
    /\ \A c \in Existing(classes) : WillBe(c, Verdict(c))

(* Is a class not accepted when the i-th update is written? *)
NotAcceptedAt(i, d) ==
  \/ \E j \in 1..(i - 1) : /\ updates[j] = <<d, "rejected">>
                           /\ \A k \in (j + 1)..(i - 1) : updates[k] # <<d, "accepted">>
  \/ /\ "accepted" \notin classes[d].conds
     /\ \A k \in 1..(i - 1) : updates[k] # <<d, "accepted">>

(* No two classes are accepted at any time: Reconcile rejects the others     *)
(* first, and no update for a deleted class is left for a new one of its name.*)
OneAccepted == \A c, d \in Accepted : c = d
RejectedFirst ==
  \A i \in 1..Len(updates) : \A c \in Classes : \A d \in Existing(classes) :
    updates[i] = <<c, "accepted">> /\ d # c => NotAcceptedAt(i, d)
NoneForAbsent ==
  \A c \in Classes : classes[c] = Absent => \A i \in 1..Len(updates) : updates[i][1] # c

OneInv == OneAccepted /\ RejectedFirst /\ NoneForAbsent

-----------------------------------------------------------------------------
(* Gateways *)

(* Will the gateway controller reconcile? Events of classes that are not     *)
(* there do not count, as they are dropped.                                  *)
Pending ==
  \/ gwQueue # {}
  \/ \E e \in gwEvents : classes[e[2]] # Absent
  \/ \E c \in mapEvents : classes[c] # Absent /\ GatewaysOf(c) # {}

ChosenOf(c) == IF GatewaysOf(c) = {} THEN Absent ELSE OldestOf(GatewaysOf(c), gateways)

GatewayRight ==
  \/ Accepted = {} /\ dagGateway = Absent
  \/ \E c \in Accepted : dagGateway = ChosenOf(c)

(* The other Gateways have been told, or are about to be. An update of the   *)
(* DAG that comes after it undoes that, but is then a write, and so an event.*)
IsTold(g) ==
  \/ "notscheduled" \in gateways[g].conds
  \/ \E i \in 1..Len(updates) : updates[i] = <<g, "notscheduled">>
OthersTold ==
  \A c \in Accepted : \A g \in GatewaysOf(c) : g # dagGateway => IsTold(g)

(* What the updates on their way leave does not say that g is not scheduled. *)
WillBeScheduled(g) ==
  \/ \E i \in 1..Len(updates) :
       /\ updates[i] = <<g, "ready">>
       /\ \A k \in 1..Len(updates) : k > i => updates[k] # <<g, "notscheduled">>
  \/ /\ "notscheduled" \notin gateways[g].conds
     /\ \A k \in 1..Len(updates) : updates[k] # <<g, "notscheduled">>

(* The one in the DAG is about to be reported on, or has been last.          *)
ChosenReported ==
  \A c \in Accepted : \A g \in GatewaysOf(c) :
    g = dagGateway => dirty \/ reporting = g \/ classQueue # {} \/ WillBeScheduled(g)

GatewayInv == ~Pending => GatewayRight /\ OthersTold /\ ChosenReported

-----------------------------------------------------------------------------
(* Least and greatest *)

(* A set of natural numbers has a least member. *)
LEMMA LeastNat ==
  ASSUME NEW T, T \subseteq Nat, T # {}
  PROVE  \E x \in T : \A y \in T : x <= y
<1> DEFINE R == OpToRel(<, Nat)
<1>1. \E x \in T : \A y \in T : ~(<<y, x>> \in R)
  <2> HIDE DEF R
  <2>1. IsWellFoundedOn(R, Nat)
    BY NatLessThanWellFounded DEF R
  <2> QED BY <2>1, WFMin
<1>2. \A x, y \in Nat : <<y, x>> \in R <=> y < x
  BY DEF OpToRel
<1> HIDE DEF R
<1>3. \A x, y \in Nat : ~(y < x) => x <= y
  OBVIOUS
<1> QED BY <1>1, <1>2, <1>3

Older(x, y, f) == f[x].stamp < f[y].stamp \/ (f[x].stamp = f[y].stamp /\ x <= y)

(* The oldest of some objects is one of them. *)
LEMMA OldestFacts ==
  ASSUME NEW xs, NEW f, xs \subseteq Nat, xs # {}, \A x \in xs : f[x].stamp \in Nat
  PROVE  OldestOf(xs, f) \in xs /\ \A y \in xs : Older(OldestOf(xs, f), y, f)
<1>1. PICK m \in {f[x].stamp : x \in xs} : \A n \in {f[x].stamp : x \in xs} : m <= n
  <2> DEFINE T == {f[x].stamp : x \in xs}
  <2>1. T \subseteq Nat /\ T # {}
    OBVIOUS
  <2> HIDE DEF T
  <2>2. \E m \in T : \A n \in T : m <= n
    BY <2>1, LeastNat
  <2> QED BY <2>2 DEF T
<1>2. PICK x \in {z \in xs : f[z].stamp = m} : \A y \in {z \in xs : f[z].stamp = m} : x <= y
  <2> DEFINE T == {z \in xs : f[z].stamp = m}
  <2>1. T \subseteq Nat /\ T # {}
    BY <1>1
  <2> HIDE DEF T
  <2>2. \E x \in T : \A y \in T : x <= y
    BY <2>1, LeastNat
  <2> QED BY <2>2 DEF T
<1>3. \A y \in xs : Older(x, y, f)
  <2> SUFFICES ASSUME NEW y \in xs PROVE Older(x, y, f)
    OBVIOUS
  <2>1. f[x].stamp = m /\ m <= f[y].stamp /\ m \in Nat /\ f[y].stamp \in Nat
    BY <1>1, <1>2
  <2>2. f[y].stamp = m => x <= y
    BY <1>2
  <2> QED BY <2>1, <2>2 DEF Older
<1> QED BY <1>2, <1>3 DEF OldestOf, Older

(* Which is the oldest depends on the creation times only. *)
LEMMA OldestSame ==
  ASSUME NEW xs, NEW f, NEW h, xs \subseteq Nat, xs # {},
         \A x \in xs : f[x].stamp \in Nat /\ h[x].stamp = f[x].stamp
  PROVE  OldestOf(xs, h) = OldestOf(xs, f)
<1> DEFINE a == OldestOf(xs, f)
           b == OldestOf(xs, h)
<1>1. a \in xs /\ Older(a, b, f) /\ b \in xs /\ Older(b, a, h)
  BY OldestFacts
<1> HIDE DEF a, b
<1>2. a \in Nat /\ b \in Nat /\ f[a].stamp \in Nat /\ f[b].stamp \in Nat
      /\ h[a].stamp = f[a].stamp /\ h[b].stamp = f[b].stamp
  BY <1>1
<1>3. a = b
  BY <1>1, <1>2 DEF Older
<1> QED BY <1>3 DEF a, b

(* A new object can be given a creation time. *)
LEMMA NewStampType ==
  ASSUME NEW f, Bounded(f), \A x \in Existing(f) : f[x].stamp \in Nat, pace \in 0..1
  PROVE  NewStamp(f) \in Nat
<1> DEFINE S == {0} \union {f[x].stamp : x \in Existing(f)}
           T == {n \in Nat : \A y \in S : y <= n}
<1>1. S \subseteq Nat /\ 0 \in S
  OBVIOUS
<1>2. T \subseteq Nat /\ T # {}
  <2>1. PICK n \in Nat : \A x \in Existing(f) : f[x].stamp <= n
    BY DEF Bounded
  <2>2. n \in T
    BY <2>1
  <2> QED BY <2>2
<1>3. PICK m \in T : \A n \in T : m <= n
  <2> HIDE DEF T
  <2> QED BY <1>2, LeastNat
<1>4. m \in Nat /\ \A y \in S : y <= m
  BY <1>3
<1>5. m \in S
  <2>1. CASE m = 0
    BY <2>1
  <2>2. CASE m # 0
    <3>1. m - 1 \in Nat /\ ~(m <= m - 1)
      BY <1>4, <2>2
    <3>2. m - 1 \notin T
      BY <1>3, <3>1
    <3>3. PICK y \in S : ~(y <= m - 1)
      BY <3>1, <3>2
    <3>4. y = m
      BY <1>1, <1>4, <3>1, <3>3
    <3> QED BY <3>3, <3>4
  <2> QED BY <2>1, <2>2
<1> HIDE DEF S, T
<1>6. Max(S) \in S
  <2>1. m \in S /\ \A y \in S : m >= y
    BY <1>1, <1>4, <1>5
  <2> QED BY <2>1 DEF Max
<1>7. NewStamp(f) = pace * (1 + Max(S))
  BY DEF NewStamp, S
<1>8. Max(S) \in Nat
  BY <1>1, <1>6
<1>9. CASE pace = 0
  BY <1>7, <1>8, <1>9
<1>10. CASE pace = 1
  BY <1>7, <1>8, <1>10
<1> QED BY <1>9, <1>10

-----------------------------------------------------------------------------
(* Types *)

LEMMA ExistingFacts ==
  ASSUME TypeOK
  PROVE  /\ Existing(classes) \subseteq Classes /\ Existing(classes) \subseteq Nat
         /\ \A c \in Existing(classes) : classes[c] \in ClassObjects /\ classes[c].stamp \in Nat
         /\ Existing(gateways) \subseteq Gateways /\ Existing(gateways) \subseteq Nat
         /\ \A g \in Existing(gateways) : /\ gateways[g] \in GatewayObjects
                                          /\ gateways[g].stamp \in Nat /\ gateways[g].class \in Classes
         /\ \A c \in Classes : classes[c] # Absent => c \in Existing(classes)
         /\ \A g \in Gateways : gateways[g] # Absent => g \in Existing(gateways)
<1>1. /\ Existing(classes) = {c \in Classes : classes[c] # Absent}
      /\ Existing(gateways) = {g \in Gateways : gateways[g] # Absent}
  BY DEF Existing, TypeOK
<1>2. \A c \in Existing(classes) : classes[c] \in ClassObjects
  BY <1>1 DEF TypeOK
<1>3. \A g \in Existing(gateways) : gateways[g] \in GatewayObjects
  BY <1>1 DEF TypeOK
<1> QED BY <1>1, <1>2, <1>3, ControllersAssumption DEF ClassObjects, GatewayObjects

(* Names of classes are not names of Gateways. *)
LEMMA UpdateFacts ==
  ASSUME TypeOK, NEW i \in 1..Len(updates)
  PROVE  \/ /\ updates[i][1] \in Classes /\ updates[i][2] \in {"accepted", "rejected"}
            /\ updates[i][1] \notin Gateways
         \/ /\ updates[i][1] \in Gateways /\ updates[i][2] \in {"notscheduled", "ready"}
            /\ updates[i][1] \notin Classes
<1>1. updates[i] \in StatusUpdates
  BY DEF TypeOK
<1> QED BY <1>1, ControllersAssumption DEF StatusUpdates

(* What the status writer does with the first update: it sets the conditions *)
(* of the object, if it is there, and makes an event of a difference.        *)
LEMMA ApplyFacts ==
  ASSUME TypeOK, ApplyUpdate
  PROVE  /\ Len(updates) > 0 /\ 1 \in 1..Len(updates)
         /\ Len(updates') = Len(updates) - 1 /\ updates' = Tail(updates)
         /\ \A i \in 1..Len(updates') : updates'[i] = updates[i + 1] /\ i + 1 \in 1..Len(updates)
         /\ UNCHANGED <<ops, pace, gwQueue, dagClass, dagGateway, dirty, reporting>>
<1>1. updates # <<>> /\ updates' = Tail(updates) /\ UNCHANGED <<ops, pace, gwQueue, dagVars>>
  BY DEF ApplyUpdate
<1>2. updates \in Seq(StatusUpdates) /\ Len(updates) \in Nat /\ Len(updates) > 0
  BY <1>1 DEF TypeOK
<1>3. Len(updates') = Len(updates) - 1
  BY <1>1, <1>2
<1>4. \A i \in 1..Len(updates') : updates'[i] = updates[i + 1] /\ i + 1 \in 1..Len(updates)
  BY <1>1, <1>2, <1>3
<1> QED BY <1>1, <1>2, <1>3, <1>4 DEF dagVars

LEMMA ApplyToClass ==
  ASSUME TypeOK, ApplyUpdate, updates[1][1] \in Classes
  PROVE  LET x == updates[1][1]
             cond == updates[1][2]
         IN  /\ UNCHANGED <<gateways, gwEvents>>
             /\ \/ /\ x \in Existing(classes) /\ classes[x].conds # {cond}
                   /\ classes' = [classes EXCEPT ![x].conds = {cond}]
                   /\ classQueue' = classQueue \union {x} /\ mapEvents' = mapEvents \union {x}
                \/ /\ x \in Existing(classes) => classes[x].conds = {cond}
                   /\ UNCHANGED <<classes, classQueue, mapEvents>>
<1> DEFINE x == updates[1][1]
           cond == updates[1][2]
           Differs(f) == x \in Existing(f) /\ Mutate(f[x].conds, cond) # f[x].conds
<1>1. Len(updates) > 0 /\ 1 \in 1..Len(updates) /\ Head(updates) = updates[1]
  BY ApplyFacts DEF TypeOK
<1>2. cond \in {"accepted", "rejected"} /\ x \notin Existing(gateways)
  BY <1>1, UpdateFacts, ExistingFacts
<1>3. \A conds : Mutate(conds, cond) = {cond}
  BY <1>2 DEF Mutate
<1>4. \/ /\ Differs(classes)
         /\ classes' = [classes EXCEPT ![x].conds = {cond}]
         /\ ClassEvent(x) /\ UNCHANGED <<gateways, gwEvents>>
      \/ ~Differs(classes) /\ UNCHANGED <<classes, gateways, eventVars, classQueue>>
  BY <1>1, <1>2, <1>3 DEF ApplyUpdate
<1> QED BY <1>3, <1>4 DEF ClassEvent, eventVars

LEMMA ApplyToGateway ==
  ASSUME TypeOK, ApplyUpdate, updates[1][1] \in Gateways
  PROVE  LET x == updates[1][1]
             new == Mutate(gateways[x].conds, updates[1][2])
         IN  /\ UNCHANGED <<classes, classQueue, mapEvents>>
             /\ \/ /\ x \in Existing(gateways) /\ gateways[x].conds # new
                   /\ gateways' = [gateways EXCEPT ![x].conds = new]
                   /\ gwEvents' = gwEvents \union {<<x, gateways[x].class>>}
                \/ /\ x \in Existing(gateways) => gateways[x].conds = new
                   /\ UNCHANGED <<gateways, gwEvents>>
<1> DEFINE x == updates[1][1]
           new == Mutate(gateways[x].conds, updates[1][2])
<1>1. Len(updates) > 0 /\ 1 \in 1..Len(updates) /\ Head(updates) = updates[1]
  BY ApplyFacts DEF TypeOK
<1>2. x \notin Existing(classes)
  BY <1>1, UpdateFacts, ExistingFacts
<1> QED BY <1>1, <1>2 DEF ApplyUpdate, eventVars

(* A sequence of updates that tells each of some objects the same. *)
Tells(t, xs, cond) ==
  /\ t \in Seq(xs \X {cond})
  /\ \A i \in 1..Len(t) : t[i][1] \in xs /\ t[i] = <<t[i][1], cond>>
  /\ \A x \in xs : \E i \in 1..Len(t) : t[i] = <<x, cond>>

LEMMA ToldFacts ==
  ASSUME NEW xs, IsFiniteSet(xs), NEW order \in Orders(xs), NEW cond
  PROVE  Tells(Told(order, cond), xs, cond)
<1> DEFINE t == Told(order, cond)
           n == Cardinality(xs)
<1>1. n \in Nat
  BY FS_CardinalityType
<1>2. order \in [1..n -> xs] /\ {order[i] : i \in DOMAIN order} = xs
  BY DEF Orders
<1>3. t = [i \in 1..n |-> <<order[i], cond>>]
  BY <1>2 DEF Told
<1> HIDE DEF n, t
<1>4. t \in Seq(xs \X {cond}) /\ Len(t) = n
  BY <1>1, <1>2, <1>3
<1>5. \A i \in 1..n : t[i] = <<order[i], cond>> /\ order[i] \in xs
  BY <1>2, <1>3
<1>6. \A x \in xs : \E i \in 1..n : t[i] = <<x, cond>>
  BY <1>2, <1>5
<1>7. Tells(t, xs, cond)
  BY <1>4, <1>5, <1>6 DEF Tells
<1> QED BY <1>7 DEF t

(* What is sent comes after what is on its way. *)
LEMMA SendFacts ==
  ASSUME TypeOK, NEW sent \in Seq(StatusUpdates), Send(sent)
  PROVE  /\ updates' \in Seq(StatusUpdates) /\ Len(updates') = Len(updates) + Len(sent)
         /\ \A i \in 1..Len(updates) : updates'[i] = updates[i] /\ i \in 1..Len(updates')
         /\ \A i \in 1..Len(sent) : /\ updates'[Len(updates) + i] = sent[i]
                                    /\ Len(updates) + i \in 1..Len(updates')
         /\ \A i \in 1..Len(updates') :
              i \in 1..Len(updates) \/ (i - Len(updates) \in 1..Len(sent) /\ updates'[i] = sent[i - Len(updates)])
<1>1. updates' = updates \o sent /\ updates \in Seq(StatusUpdates)
  BY DEF Send, TypeOK
<1>2. Len(updates) \in Nat /\ Len(sent) \in Nat
  BY <1>1
<1>3. updates' \in Seq(StatusUpdates) /\ Len(updates') = Len(updates) + Len(sent)
  BY <1>1
<1>4. \A i \in 1..Len(updates) : updates'[i] = updates[i]
  BY <1>1
<1>5. \A i \in 1..Len(sent) : updates'[Len(updates) + i] = sent[i]
  BY <1>1
<1>6. ASSUME NEW i \in 1..Len(updates'), i \notin 1..Len(updates)
      PROVE  i - Len(updates) \in 1..Len(sent) /\ updates'[i] = sent[i - Len(updates)]
  <2>1. i - Len(updates) \in 1..Len(sent) /\ i = Len(updates) + (i - Len(updates))
    BY <1>2, <1>3, <1>6
  <2> QED BY <1>5, <2>1
<1> QED BY <1>2, <1>3, <1>4, <1>5, <1>6

(* What the class controller sends: rejections, then the acceptance. *)
LEMMA ReconcileClassFacts ==
  ASSUME TypeOK, NEW c \in Classes, ReconcileClass(c), Existing(classes) # {}
  PROVE  LET oldest == OldestOf(Existing(classes), classes)
         IN \E sent \in Seq(StatusUpdates) :
              /\ Send(sent) /\ dagClass' = oldest /\ oldest \in Existing(classes)
              /\ Len(sent) \in Nat \ {0} /\ sent[Len(sent)] = <<oldest, "accepted">>
              /\ \A i \in 1..(Len(sent) - 1) : /\ sent[i][1] \in Existing(classes) \ {oldest}
                                               /\ sent[i] = <<sent[i][1], "rejected">>
              /\ \A d \in Existing(classes) \ {oldest} :
                   \E i \in 1..(Len(sent) - 1) : sent[i] = <<d, "rejected">>
<1> DEFINE oldest == OldestOf(Existing(classes), classes)
           others == Existing(classes) \ {oldest}
<1>1. oldest \in Existing(classes) /\ oldest \in Classes /\ others \subseteq Classes
  BY ExistingFacts, OldestFacts
<1>2. IsFiniteSet(others)
  BY <1>1, ControllersAssumption, FS_Subset
<1>3. PICK order \in Orders(others) : Send(Told(order, "rejected") \o <<<<oldest, "accepted">>>>)
  BY DEF ReconcileClass
<1>4. dagClass' = oldest /\ order \in Orders(others)
  BY DEF ReconcileClass
<1> DEFINE told == Told(order, "rejected")
           sent == told \o <<<<oldest, "accepted">>>>
<1> HIDE DEF oldest, others
<1>5. Tells(told, others, "rejected")
  BY <1>2, <1>4, ToldFacts
<1>6. Send(sent)
  BY <1>3
<1> HIDE DEF told
<1>7. told \in Seq(StatusUpdates) /\ <<<<oldest, "accepted">>>> \in Seq(StatusUpdates)
  <2>1. others \X {"rejected"} \subseteq StatusUpdates
    BY <1>1 DEF StatusUpdates
  <2>2. <<oldest, "accepted">> \in StatusUpdates
    BY <1>1 DEF StatusUpdates
  <2> QED BY <1>5, <2>1, <2>2 DEF Tells
<1>8. /\ sent \in Seq(StatusUpdates) /\ Len(sent) = Len(told) + 1 /\ Len(told) \in Nat
      /\ sent[Len(told) + 1] = <<oldest, "accepted">>
      /\ \A i \in 1..Len(told) : sent[i] = told[i]
  BY <1>7
<1> HIDE DEF sent
<1>9. Len(sent) \in Nat \ {0} /\ Len(sent) - 1 = Len(told) /\ sent[Len(sent)] = <<oldest, "accepted">>
  BY <1>8
<1>10. /\ \A i \in 1..(Len(sent) - 1) : sent[i][1] \in others /\ sent[i] = <<sent[i][1], "rejected">>
       /\ \A d \in others : \E i \in 1..(Len(sent) - 1) : sent[i] = <<d, "rejected">>
  BY <1>5, <1>8, <1>9 DEF Tells
<1> QED BY <1>1, <1>4, <1>6, <1>8, <1>9, <1>10 DEF oldest, others

(* What the gateway controller sends. *)
LEMMA ReconcileGatewayFacts ==
  ASSUME TypeOK, NEW g \in Gateways, ReconcileGateway(g)
  PROVE  \/ /\ Accepted = {} \/ \E c \in Accepted : GatewaysOf(c) = {}
            /\ dagGateway' = Absent /\ UNCHANGED updates
         \/ \E c \in Accepted : \E sent \in Seq(StatusUpdates) :
              /\ GatewaysOf(c) # {} /\ Send(sent)
              /\ dagGateway' = OldestOf(GatewaysOf(c), gateways) /\ dagGateway' \in GatewaysOf(c)
              /\ \A i \in 1..Len(sent) : /\ sent[i][1] \in GatewaysOf(c) \ {dagGateway'}
                                         /\ sent[i] = <<sent[i][1], "notscheduled">>
              /\ \A h \in GatewaysOf(c) \ {dagGateway'} :
                   \E i \in 1..Len(sent) : sent[i] = <<h, "notscheduled">>
<1>1. CASE /\ Accepted = {} \/ \E c \in Accepted : GatewaysOf(c) = {}
           /\ dagGateway' = Absent /\ UNCHANGED updates
  BY <1>1
<1>2. ASSUME NEW c \in Accepted, GatewaysOf(c) # {},
             NEW order \in Orders(GatewaysOf(c) \ {OldestOf(GatewaysOf(c), gateways)}),
             Send(Told(order, "notscheduled")),
             dagGateway' = OldestOf(GatewaysOf(c), gateways)
      PROVE  \E sent \in Seq(StatusUpdates) :
              /\ Send(sent) /\ dagGateway' \in GatewaysOf(c)
              /\ \A i \in 1..Len(sent) : /\ sent[i][1] \in GatewaysOf(c) \ {dagGateway'}
                                         /\ sent[i] = <<sent[i][1], "notscheduled">>
              /\ \A h \in GatewaysOf(c) \ {dagGateway'} :
                   \E i \in 1..Len(sent) : sent[i] = <<h, "notscheduled">>
  <2> DEFINE others == GatewaysOf(c) \ {OldestOf(GatewaysOf(c), gateways)}
             sent == Told(order, "notscheduled")
  <2>1. GatewaysOf(c) \subseteq Existing(gateways)
    BY DEF GatewaysOf
  <2>2. dagGateway' \in GatewaysOf(c) /\ others \subseteq Gateways
    BY <1>2, <2>1, ExistingFacts, OldestFacts
  <2>3. IsFiniteSet(others) /\ order \in Orders(others)
    BY <1>2, <2>2, ControllersAssumption, FS_Subset
  <2> HIDE DEF others
  <2>4. Tells(sent, others, "notscheduled")
    BY <2>3, ToldFacts
  <2>5. Send(sent)
    BY <1>2
  <2> HIDE DEF sent
  <2>6. sent \in Seq(StatusUpdates)
    <3>1. others \X {"notscheduled"} \subseteq StatusUpdates
      BY <2>2 DEF StatusUpdates
    <3> QED BY <2>4, <3>1 DEF Tells
  <2> QED BY <1>2, <2>2, <2>4, <2>5, <2>6 DEF others, Tells
<1> QED BY <1>1, <1>2 DEF ReconcileGateway

(* Writing a status changes the conditions of one object and nothing else.   *)
LEMMA ApplyKeeps ==
  ASSUME TypeOK, ApplyUpdate
  PROVE  LET x == updates[1][1]
             cond == updates[1][2]
         IN /\ classes' \in [Classes -> ClassObjects \union {Absent}]
            /\ gateways' \in [Gateways -> GatewayObjects \union {Absent}]
            /\ Existing(classes') = Existing(classes) /\ Existing(gateways') = Existing(gateways)
            /\ \A c \in Existing(classes) :
                 /\ classes'[c].stamp = classes[c].stamp
                 /\ c = x => classes'[c].conds = {cond}
                 /\ c # x => classes'[c] = classes[c]
            /\ \A g \in Existing(gateways) :
                 /\ gateways'[g].stamp = gateways[g].stamp /\ gateways'[g].class = gateways[g].class
                 /\ g = x => gateways'[g].conds = Mutate(gateways[g].conds, cond)
                 /\ g # x => gateways'[g] = gateways[g]
<1> DEFINE x == updates[1][1]
           cond == updates[1][2]
<1>0. 1 \in 1..Len(updates)
  BY ApplyFacts
<1>1. CASE x \in Classes
  <2>1. cond \in {"accepted", "rejected"} /\ x \notin Gateways
    BY <1>0, <1>1, UpdateFacts, ControllersAssumption
  <2>2. gateways' = gateways /\ \A g \in Existing(gateways) : g # x
    BY <1>1, <2>1, ApplyToClass, ExistingFacts
  <2>3. CASE /\ x \in Existing(classes) /\ classes[x].conds # {cond}
             /\ classes' = [classes EXCEPT ![x].conds = {cond}]
    <3>1. classes[x] \in ClassObjects /\ DOMAIN classes = Classes
      BY <2>3, ExistingFacts DEF TypeOK
    <3>2. classes' = [classes EXCEPT ![x] = [classes[x] EXCEPT !.conds = {cond}]]
      BY <2>3, <3>1
    <3>3. /\ [classes[x] EXCEPT !.conds = {cond}] \in ClassObjects
          /\ [classes[x] EXCEPT !.conds = {cond}].stamp = classes[x].stamp
          /\ [classes[x] EXCEPT !.conds = {cond}].conds = {cond}
      BY <2>1, <3>1 DEF ClassObjects
    <3> DEFINE new == [classes[x] EXCEPT !.conds = {cond}]
    <3> HIDE DEF new
    <3>4. classes' = [classes EXCEPT ![x] = new] /\ new \in ClassObjects /\ new # Absent
      BY <3>2, <3>3, ControllersAssumption DEF new, ClassObjects
    <3>5. classes' \in [Classes -> ClassObjects \union {Absent}]
      BY <3>4, <1>1 DEF TypeOK
    <3>6. Existing(classes') = Existing(classes)
      BY <2>3, <3>1, <3>4, <3>5 DEF Existing, TypeOK
    <3>7. \A c \in Existing(classes) : IF c = x THEN classes'[c] = new ELSE classes'[c] = classes[c]
      BY <3>4, ExistingFacts DEF TypeOK
    <3> QED BY <2>2, <3>3, <3>5, <3>6, <3>7 DEF TypeOK, new
  <2>4. CASE /\ x \in Existing(classes) => classes[x].conds = {cond}
             /\ classes' = classes
    BY <2>2, <2>4 DEF TypeOK
  <2> QED BY <1>1, <2>3, <2>4, ApplyToClass
<1>2. CASE x \in Gateways
  <2>1. cond \in {"notscheduled", "ready"} /\ x \notin Classes
    BY <1>0, <1>2, UpdateFacts, ControllersAssumption
  <2>2. classes' = classes /\ \A c \in Existing(classes) : c # x
    BY <1>2, <2>1, ApplyToGateway, ExistingFacts
  <2> DEFINE conds == Mutate(gateways[x].conds, cond)
  <2>3. CASE /\ x \in Existing(gateways)
             /\ gateways' = [gateways EXCEPT ![x].conds = conds]
    <3>1. gateways[x] \in GatewayObjects /\ DOMAIN gateways = Gateways
      BY <2>3, ExistingFacts DEF TypeOK
    <3>2. gateways' = [gateways EXCEPT ![x] = [gateways[x] EXCEPT !.conds = conds]]
      BY <2>3, <3>1
    <3>3. conds \in SUBSET {"notscheduled", "ready"}
      BY <2>1, <3>1 DEF Mutate, GatewayObjects
    <3>4. /\ [gateways[x] EXCEPT !.conds = conds] \in GatewayObjects
          /\ [gateways[x] EXCEPT !.conds = conds].stamp = gateways[x].stamp
          /\ [gateways[x] EXCEPT !.conds = conds].class = gateways[x].class
          /\ [gateways[x] EXCEPT !.conds = conds].conds = conds
      BY <3>1, <3>3 DEF GatewayObjects
    <3> DEFINE new == [gateways[x] EXCEPT !.conds = conds]
    <3> HIDE DEF new
    <3>5. gateways' = [gateways EXCEPT ![x] = new] /\ new \in GatewayObjects /\ new # Absent
      BY <3>2, <3>4, ControllersAssumption DEF new, GatewayObjects
    <3>6. gateways' \in [Gateways -> GatewayObjects \union {Absent}]
      BY <3>5, <1>2 DEF TypeOK
    <3>7. Existing(gateways') = Existing(gateways)
      BY <2>3, <3>1, <3>5, <3>6 DEF Existing, TypeOK
    <3>8. \A g \in Existing(gateways) : IF g = x THEN gateways'[g] = new ELSE gateways'[g] = gateways[g]
      BY <3>5, ExistingFacts DEF TypeOK
    <3> QED BY <2>2, <3>4, <3>6, <3>7, <3>8 DEF TypeOK, new
  <2>4. CASE /\ x \in Existing(gateways) => gateways[x].conds = conds
             /\ gateways' = gateways
    BY <2>2, <2>4 DEF TypeOK
  <2> QED BY <1>2, <2>3, <2>4, ApplyToGateway
<1> QED BY <1>0, <1>1, <1>2, UpdateFacts

(* Creating and deleting *)
LEMMA CreateClassFacts ==
  ASSUME TypeOK, Stamped, NEW c \in Classes, CreateClass(c)
  PROVE  \E new \in ClassObjects :
           /\ new.conds = {} /\ new # Absent /\ classes' = [classes EXCEPT ![c] = new]
           /\ Existing(classes') = Existing(classes) \union {c} /\ c \notin Existing(classes)
<1> DEFINE new == [stamp |-> NewStamp(classes), conds |-> {}]
<1>1. NewStamp(classes) \in Nat
  BY NewStampType, ExistingFacts DEF Stamped, TypeOK
<1>2. new \in ClassObjects /\ new.conds = {}
  BY <1>1 DEF ClassObjects
<1>3. new # Absent
  BY <1>2, ControllersAssumption DEF ClassObjects
<1>4. classes[c] = Absent /\ classes' = [classes EXCEPT ![c] = new]
  BY DEF CreateClass
<1> HIDE DEF new
<1>5. DOMAIN classes = Classes /\ DOMAIN classes' = Classes
  BY <1>4 DEF TypeOK
<1>6. Existing(classes') = Existing(classes) \union {c} /\ c \notin Existing(classes)
  BY <1>3, <1>4, <1>5 DEF Existing
<1> QED BY <1>2, <1>3, <1>4, <1>6

LEMMA CreateGatewayFacts ==
  ASSUME TypeOK, Stamped, NEW g \in Gateways, NEW c \in Classes, CreateGateway(g, c)
  PROVE  \E new \in GatewayObjects :
           /\ new.class = c /\ new # Absent /\ gateways' = [gateways EXCEPT ![g] = new]
           /\ Existing(gateways') = Existing(gateways) \union {g} /\ g \notin Existing(gateways)
<1> DEFINE new == [stamp |-> NewStamp(gateways), class |-> c, conds |-> {}]
<1>1. NewStamp(gateways) \in Nat
  BY NewStampType, ExistingFacts DEF Stamped, TypeOK
<1>2. new \in GatewayObjects /\ new.class = c
  BY <1>1 DEF GatewayObjects
<1>3. new # Absent
  BY <1>2, ControllersAssumption DEF GatewayObjects
<1>4. gateways[g] = Absent /\ gateways' = [gateways EXCEPT ![g] = new]
  BY DEF CreateGateway
<1> HIDE DEF new
<1>5. DOMAIN gateways = Gateways /\ DOMAIN gateways' = Gateways
  BY <1>4 DEF TypeOK
<1>6. Existing(gateways') = Existing(gateways) \union {g} /\ g \notin Existing(gateways)
  BY <1>3, <1>4, <1>5 DEF Existing
<1> QED BY <1>2, <1>3, <1>4, <1>6

LEMMA DeleteFacts ==
  ASSUME TypeOK
  PROVE  /\ \A c \in Classes : DeleteClass(c) => Existing(classes') = Existing(classes) \ {c}
         /\ \A g \in Gateways : DeleteGateway(g) => Existing(gateways') = Existing(gateways) \ {g}
<1>1. ASSUME NEW c \in Classes, DeleteClass(c) PROVE Existing(classes') = Existing(classes) \ {c}
  <2>1. classes' = [classes EXCEPT ![c] = Absent] /\ DOMAIN classes = Classes
    BY <1>1 DEF DeleteClass, TypeOK
  <2> QED BY <2>1 DEF Existing
<1>2. ASSUME NEW g \in Gateways, DeleteGateway(g) PROVE Existing(gateways') = Existing(gateways) \ {g}
  <2>1. gateways' = [gateways EXCEPT ![g] = Absent] /\ DOMAIN gateways = Gateways
    BY <1>2 DEF DeleteGateway, TypeOK
  <2> QED BY <2>1 DEF Existing
<1> QED BY <1>1, <1>2

LEMMA NextType == TypeOK /\ Stamped /\ [Next]_vars => TypeOK'
<1> SUFFICES ASSUME TypeOK, Stamped, [Next]_vars PROVE TypeOK'
  OBVIOUS
<1> USE DEF objectVars, eventVars, queueVars, dagVars
<1>1. ASSUME NEW c \in Classes, CreateClass(c) PROVE TypeOK'
  <2>1. classes' \in [Classes -> ClassObjects \union {Absent}]
    BY <1>1, CreateClassFacts DEF TypeOK
  <2> QED BY <1>1, <2>1 DEF CreateClass, ClassEvent, TypeOK
<1>2. ASSUME NEW c \in Classes, DeleteClass(c) PROVE TypeOK'
  BY <1>2 DEF DeleteClass, ClassEvent, TypeOK
<1>3. ASSUME NEW g \in Gateways, NEW c \in Classes, CreateGateway(g, c) PROVE TypeOK'
  <2>1. gateways' \in [Gateways -> GatewayObjects \union {Absent}]
    BY <1>3, CreateGatewayFacts DEF TypeOK
  <2>2. gwEvents' \subseteq Gateways \X Classes
    BY <1>3 DEF CreateGateway, TypeOK
  <2> QED BY <1>3, <2>1, <2>2 DEF CreateGateway, TypeOK
<1>4. ASSUME NEW g \in Gateways, DeleteGateway(g) PROVE TypeOK'
  <2>1. gateways[g].class \in Classes
    BY <1>4, ExistingFacts DEF DeleteGateway
  <2>2. gateways' \in [Gateways -> GatewayObjects \union {Absent}]
    BY <1>4 DEF DeleteGateway, TypeOK
  <2>3. gwEvents' \subseteq Gateways \X Classes
    BY <1>4, <2>1 DEF DeleteGateway, TypeOK
  <2> QED BY <1>4, <2>2, <2>3 DEF DeleteGateway, TypeOK
<1>5. ASSUME NEW c \in Classes, MapGatewayClassToGateways(c) PROVE TypeOK'
  BY <1>5, ExistingFacts DEF MapGatewayClassToGateways, TypeOK
<1>6. ASSUME NEW c \in Classes, ReconcileClass(c) PROVE TypeOK'
  <2>1. CASE Existing(classes) = {}
    BY <1>6, <2>1 DEF ReconcileClass, TypeOK
  <2>2. CASE Existing(classes) # {}
    <3>1. /\ updates' \in Seq(StatusUpdates) /\ dagClass' \in Classes
      BY <1>6, <2>2, ReconcileClassFacts, SendFacts, ExistingFacts
    <3> QED BY <1>6, <3>1 DEF ReconcileClass, TypeOK
  <2> QED BY <2>1, <2>2
<1>7. ASSUME NEW e \in gwEvents, WatchGateway(e) PROVE TypeOK'
  <2>1. e[1] \in Gateways
    BY <1>7 DEF TypeOK
  <2> QED BY <1>7, <2>1 DEF WatchGateway, TypeOK
<1>8. ASSUME NEW g \in Gateways, ReconcileGateway(g) PROVE TypeOK'
  <2>1. \A c : GatewaysOf(c) \subseteq Gateways
    BY ExistingFacts DEF GatewaysOf
  <2>2. updates' \in Seq(StatusUpdates) /\ dagGateway' \in Gateways \union {Absent}
    BY <1>8, <2>1, ReconcileGatewayFacts, SendFacts DEF TypeOK
  <2> QED BY <1>8, <2>2 DEF ReconcileGateway, TypeOK
<1>9. CASE RebuildDAG
  BY <1>9 DEF RebuildDAG, TypeOK
<1>10. CASE SendStatus
  <2>1. <<<<reporting, "ready">>>> \in Seq(StatusUpdates)
    BY <1>10 DEF SendStatus, TypeOK, StatusUpdates
  <2>2. updates' \in Seq(StatusUpdates)
    BY <1>10, <2>1, SendFacts DEF SendStatus
  <2> QED BY <1>10, <2>2 DEF SendStatus, TypeOK
<1>11. CASE ApplyUpdate
  <2>1. /\ classes' \in [Classes -> ClassObjects \union {Absent}]
        /\ gateways' \in [Gateways -> GatewayObjects \union {Absent}]
    BY <1>11, ApplyKeeps
  <2>2. updates' \in Seq(StatusUpdates) /\ UNCHANGED <<pace, gwQueue, dagVars>>
    <3>1. updates # <<>> /\ updates' = Tail(updates) /\ UNCHANGED <<pace, gwQueue, dagVars>>
      BY <1>11 DEF ApplyUpdate
    <3> QED BY <3>1 DEF TypeOK
  <2>3. mapEvents' \subseteq Classes /\ classQueue' \subseteq Classes /\ gwEvents' \subseteq Gateways \X Classes
    <3>0. 1 \in 1..Len(updates)
      BY <1>11, ApplyFacts
    <3>1. CASE updates[1][1] \in Classes
      BY <1>11, <3>1, ApplyToClass DEF TypeOK
    <3>2. CASE updates[1][1] \in Gateways
      <4>1. updates[1][1] \in Existing(gateways) =>
               <<updates[1][1], gateways[updates[1][1]].class>> \in Gateways \X Classes
        BY <3>2, ExistingFacts
      <4> QED BY <1>11, <3>2, <4>1, ApplyToGateway DEF TypeOK
    <3> QED BY <3>0, <3>1, <3>2, UpdateFacts
  <2> QED BY <2>1, <2>2, <2>3 DEF TypeOK
<1>12. CASE UNCHANGED vars
  BY <1>12 DEF vars, TypeOK
<1> QED BY <1>1, <1>2, <1>3, <1>4, <1>5, <1>6, <1>7, <1>8, <1>9, <1>10, <1>11, <1>12 DEF Next, Program

LEMMA NextStamped == TypeOK /\ Stamped /\ [Next]_vars => Stamped'
<1> SUFFICES ASSUME TypeOK, Stamped, [Next]_vars PROVE Stamped'
  OBVIOUS
<1> USE DEF objectVars, eventVars, queueVars, dagVars
<1>0. TypeOK'
  BY NextType
<1>1. ASSUME UNCHANGED <<classes, gateways>> PROVE Stamped'
  BY <1>1 DEF Stamped, Bounded, Existing
<1>2. PICK n \in Nat : \A c \in Existing(classes) : classes[c].stamp <= n
  BY DEF Stamped, Bounded
<1>3. PICK m \in Nat : \A g \in Existing(gateways) : gateways[g].stamp <= m
  BY DEF Stamped, Bounded
<1>4. ASSUME NEW c \in Classes, CreateClass(c) PROVE Stamped'
  <2>1. PICK new \in ClassObjects :
          /\ classes' = [classes EXCEPT ![c] = new]
          /\ Existing(classes') = Existing(classes) \union {c}
    BY <1>4, CreateClassFacts
  <2>2. new.stamp \in Nat /\ gateways' = gateways
    BY <1>4 DEF ClassObjects, CreateClass
  <2>3. n + new.stamp \in Nat
    BY <2>2
  <2>4. \A d \in Existing(classes') : classes'[d].stamp <= n + new.stamp
    <3> SUFFICES ASSUME NEW d \in Existing(classes') PROVE classes'[d].stamp <= n + new.stamp
      OBVIOUS
    <3>1. CASE d = c
      BY <2>1, <2>2, <3>1 DEF TypeOK
    <3>2. CASE d # c
      <4>1. d \in Existing(classes) /\ classes'[d] = classes[d] /\ classes[d].stamp \in Nat
        BY <2>1, <3>2, ExistingFacts DEF TypeOK
      <4> QED BY <1>2, <2>2, <4>1
    <3> QED BY <3>1, <3>2
  <2>5. Bounded(classes')
    BY <2>3, <2>4 DEF Bounded
  <2> QED BY <2>2, <2>5 DEF Stamped
<1>5. ASSUME NEW g \in Gateways, NEW c \in Classes, CreateGateway(g, c) PROVE Stamped'
  <2>1. PICK new \in GatewayObjects :
          /\ gateways' = [gateways EXCEPT ![g] = new]
          /\ Existing(gateways') = Existing(gateways) \union {g}
    BY <1>5, CreateGatewayFacts
  <2>2. new.stamp \in Nat /\ classes' = classes
    BY <1>5 DEF GatewayObjects, CreateGateway
  <2>3. m + new.stamp \in Nat
    BY <2>2
  <2>4. \A d \in Existing(gateways') : gateways'[d].stamp <= m + new.stamp
    <3> SUFFICES ASSUME NEW d \in Existing(gateways') PROVE gateways'[d].stamp <= m + new.stamp
      OBVIOUS
    <3>1. CASE d = g
      BY <2>1, <2>2, <3>1 DEF TypeOK
    <3>2. CASE d # g
      <4>1. d \in Existing(gateways) /\ gateways'[d] = gateways[d] /\ gateways[d].stamp \in Nat
        BY <2>1, <3>2, ExistingFacts DEF TypeOK
      <4> QED BY <1>3, <2>2, <4>1
    <3> QED BY <3>1, <3>2
  <2>5. Bounded(gateways')
    BY <2>3, <2>4 DEF Bounded
  <2> QED BY <2>2, <2>5 DEF Stamped
<1>6. ASSUME NEW c \in Classes, DeleteClass(c) PROVE Stamped'
  <2>1. \A d \in Existing(classes') : d \in Existing(classes) /\ classes'[d] = classes[d]
    BY <1>6, DeleteFacts, ExistingFacts DEF DeleteClass, TypeOK
  <2>2. gateways' = gateways
    BY <1>6 DEF DeleteClass
  <2> QED BY <1>2, <2>1, <2>2 DEF Stamped, Bounded
<1>7. ASSUME NEW g \in Gateways, DeleteGateway(g) PROVE Stamped'
  <2>1. \A d \in Existing(gateways') : d \in Existing(gateways) /\ gateways'[d] = gateways[d]
    BY <1>7, DeleteFacts, ExistingFacts DEF DeleteGateway, TypeOK
  <2>2. classes' = classes
    BY <1>7 DEF DeleteGateway
  <2> QED BY <1>3, <2>1, <2>2 DEF Stamped, Bounded
<1>8. CASE ApplyUpdate
  <2>1. /\ \A c \in Existing(classes') : classes'[c].stamp <= n
        /\ \A g \in Existing(gateways') : gateways'[g].stamp <= m
    BY <1>2, <1>3, <1>8, ApplyKeeps
  <2> QED BY <2>1 DEF Stamped, Bounded
<1>9. CASE \/ \E c \in Classes : MapGatewayClassToGateways(c) \/ ReconcileClass(c)
           \/ \E e \in gwEvents : WatchGateway(e)
           \/ \E g \in Gateways : ReconcileGateway(g)
           \/ RebuildDAG \/ SendStatus \/ UNCHANGED vars
  BY <1>1, <1>9 DEF MapGatewayClassToGateways, ReconcileClass, WatchGateway, ReconcileGateway,
                    RebuildDAG, SendStatus, vars
<1> QED BY <1>4, <1>5, <1>6, <1>7, <1>8, <1>9 DEF Next, Program

(* The types of the controllers' state. *)
LEMMA SpecType == Spec => [](TypeOK /\ Stamped)
<1>1. Init => TypeOK /\ Stamped
  <2> SUFFICES ASSUME Init PROVE TypeOK /\ Stamped
    OBVIOUS
  <2>1. Existing(classes) = {} /\ Existing(gateways) = {}
    BY DEF Init, Existing
  <2>2. Stamped
    BY <2>1 DEF Stamped, Bounded
  <2>3. dirty \in BOOLEAN
    BY DEF Init
  <2>4. updates \in Seq(StatusUpdates)
    BY DEF Init
  <2> QED BY <2>2, <2>3, <2>4 DEF Init, TypeOK
<1> QED BY <1>1, NextType, NextStamped, PTL DEF Spec

-----------------------------------------------------------------------------
(* What a class will say *)

(* An update is a name and a condition. *)
LEMMA UpdatePair ==
  ASSUME TypeOK, NEW i \in 1..Len(updates)
  PROVE  updates[i] = <<updates[i][1], updates[i][2]>>
<1>1. updates[i] \in StatusUpdates
  BY DEF TypeOK
<1> QED BY <1>1 DEF StatusUpdates

(* Updates for others do not change what a class will say. *)
LEMMA WillBeOthers ==
  ASSUME TypeOK, UNCHANGED classes, NEW sent \in Seq(StatusUpdates), Send(sent),
         NEW c, NEW cond, WillBe(c, cond), \A i \in 1..Len(sent) : sent[i][1] # c
  PROVE  WillBe(c, cond)'
<1>1. \A k \in 1..Len(updates') : updates'[k][1] = c => k \in 1..Len(updates) /\ updates'[k] = updates[k]
  BY SendFacts
<1>2. \A k \in 1..Len(updates) : k \in 1..Len(updates') /\ updates'[k] = updates[k]
  BY SendFacts
<1>3. CASE \E i \in 1..Len(updates) :
             /\ updates[i] = <<c, cond>>
             /\ \A k \in 1..Len(updates) : k > i /\ updates[k][1] = c => updates[k][2] = cond
  BY <1>1, <1>2, <1>3 DEF WillBe
<1>4. CASE classes[c].conds = {cond} /\ \A k \in 1..Len(updates) : updates[k][1] # c
  BY <1>1, <1>4 DEF WillBe
<1> QED BY <1>3, <1>4 DEF WillBe

(* The last updates count. *)
LEMMA WillBeSent ==
  ASSUME TypeOK, NEW sent \in Seq(StatusUpdates), Send(sent), NEW c, NEW cond,
         NEW n \in 1..Len(sent), sent[n] = <<c, cond>>,
         \A i \in 1..Len(sent) : sent[i][1] = c => sent[i][2] = cond
  PROVE  WillBe(c, cond)'
<1> DEFINE m == Len(updates) + n
<1>1. m \in 1..Len(updates') /\ updates'[m] = <<c, cond>>
  BY SendFacts
<1>2. Len(updates) \in Nat
  BY DEF TypeOK
<1>3. ASSUME NEW k \in 1..Len(updates'), k > m, updates'[k][1] = c
      PROVE  updates'[k][2] = cond
  <2>1. k \notin 1..Len(updates)
    BY <1>2, <1>3
  <2>2. k - Len(updates) \in 1..Len(sent) /\ updates'[k] = sent[k - Len(updates)]
    BY <2>1, SendFacts
  <2> QED BY <1>3, <2>2
<1> QED BY <1>1, <1>3 DEF WillBe

(* Writing an update leaves what a class will say. *)
LEMMA WillBeApplied ==
  ASSUME TypeOK, ApplyUpdate, NEW c \in Existing(classes), NEW cond, WillBe(c, cond)
  PROVE  WillBe(c, cond)'
<1> DEFINE x == updates[1][1]
<1>1. \A k \in 1..Len(updates') : updates'[k] = updates[k + 1] /\ k + 1 \in 1..Len(updates)
  BY ApplyFacts
<1>2. Len(updates') = Len(updates) - 1 /\ Len(updates) \in Nat /\ 1 \in 1..Len(updates)
  BY ApplyFacts DEF TypeOK
<1>3. /\ c = x => classes'[c].conds = {updates[1][2]}
      /\ c # x => classes'[c] = classes[c]
  BY ApplyKeeps
<1>4. ASSUME NEW i \in 1..Len(updates), updates[i] = <<c, cond>>,
             \A k \in 1..Len(updates) : k > i /\ updates[k][1] = c => updates[k][2] = cond
      PROVE  WillBe(c, cond)'
  <2>1. CASE i # 1
    <3>1. i - 1 \in 1..Len(updates') /\ (i - 1) + 1 = i
      BY <1>2, <2>1
    <3>2. updates'[i - 1] = <<c, cond>>
      BY <1>1, <1>4, <3>1
    <3>3. ASSUME NEW k \in 1..Len(updates'), k > i - 1, updates'[k][1] = c
          PROVE  updates'[k][2] = cond
      <4>1. k + 1 \in 1..Len(updates) /\ updates'[k] = updates[k + 1] /\ k + 1 > i
        BY <1>1, <1>2, <3>3
      <4> QED BY <1>4, <3>3, <4>1
    <3> QED BY <3>1, <3>2, <3>3 DEF WillBe
  <2>2. CASE i = 1
    <3>1. classes'[c].conds = {cond}
      BY <1>3, <1>4, <2>2
    <3>2. \A k \in 1..Len(updates') : updates'[k][1] = c => updates'[k] = <<c, cond>> /\ updates'[k][2] = cond
      <4> SUFFICES ASSUME NEW k \in 1..Len(updates'), updates'[k][1] = c
                   PROVE  updates'[k] = <<c, cond>> /\ updates'[k][2] = cond
        OBVIOUS
      <4>1. k + 1 \in 1..Len(updates) /\ updates'[k] = updates[k + 1] /\ k + 1 > i
        BY <1>1, <1>2, <2>2
      <4> QED BY <1>4, <4>1, UpdatePair
    <3> QED BY <3>1, <3>2 DEF WillBe
  <2> QED BY <2>1, <2>2
<1>5. CASE classes[c].conds = {cond} /\ \A k \in 1..Len(updates) : updates[k][1] # c
  <2>1. classes'[c].conds = {cond}
    BY <1>2, <1>3, <1>5
  <2>2. \A k \in 1..Len(updates') : updates'[k][1] # c
    BY <1>1, <1>5
  <2> QED BY <2>1, <2>2 DEF WillBe
<1> QED BY <1>4, <1>5 DEF WillBe

(* What the gateway controller and the DAG send is for Gateways. *)
LEMMA SentToGateways ==
  ASSUME TypeOK, \/ \E g \in Gateways : ReconcileGateway(g)
                 \/ SendStatus
  PROVE  /\ UNCHANGED <<classes, gateways, mapEvents, gwEvents, classQueue, dagClass>>
         /\ \/ UNCHANGED updates
            \/ \E sent \in Seq(StatusUpdates) :
                 Send(sent) /\ \A i \in 1..Len(sent) : sent[i][1] \in Gateways
<1>1. ASSUME NEW g \in Gateways, ReconcileGateway(g)
      PROVE  \/ UNCHANGED updates
             \/ \E sent \in Seq(StatusUpdates) :
                  Send(sent) /\ \A i \in 1..Len(sent) : sent[i][1] \in Gateways
  <2>1. \A c : GatewaysOf(c) \subseteq Gateways
    BY ExistingFacts DEF GatewaysOf
  <2> QED BY <1>1, <2>1, ReconcileGatewayFacts
<1>2. ASSUME SendStatus
      PROVE  \E sent \in Seq(StatusUpdates) :
               Send(sent) /\ \A i \in 1..Len(sent) : sent[i][1] \in Gateways
  <2> DEFINE sent == <<<<reporting, "ready">>>>
  <2>1. reporting \in Gateways /\ Send(sent)
    BY <1>2 DEF SendStatus, TypeOK
  <2>2. sent \in Seq(StatusUpdates) /\ \A i \in 1..Len(sent) : sent[i][1] \in Gateways
    BY <2>1 DEF StatusUpdates
  <2> HIDE DEF sent
  <2> QED BY <2>1, <2>2
<1>3. UNCHANGED <<classes, gateways, mapEvents, gwEvents, classQueue, dagClass>>
  BY DEF ReconcileGateway, SendStatus, objectVars, eventVars, queueVars
<1>4. \/ UNCHANGED updates
      \/ \E sent \in Seq(StatusUpdates) :
           Send(sent) /\ \A i \in 1..Len(sent) : sent[i][1] \in Gateways
  BY <1>1, <1>2, Zenon
<1> QED BY <1>3, <1>4, Zenon

LEMMA NextClassInv == TypeOK /\ ClassInv /\ [Next]_vars => ClassInv'
<1> SUFFICES ASSUME TypeOK, ClassInv, [Next]_vars, classQueue' = {} PROVE ClassInv'
  BY DEF ClassInv
<1> USE DEF objectVars, eventVars, queueVars, dagVars
<1> DEFINE oldest == OldestOf(Existing(classes), classes)
<1>1. ASSUME UNCHANGED <<classes, classQueue, dagClass, updates>> PROVE ClassInv'
  <2>1. ASSUME NEW c \in Existing(classes) PROVE WillBe(c, Verdict(c))'
    <3>1. WillBe(c, Verdict(c))
      BY <1>1 DEF ClassInv
    <3>2. Verdict(c)' = Verdict(c)
      BY <1>1 DEF Verdict
    <3> QED BY <1>1, <3>1, <3>2 DEF WillBe
  <2> QED BY <1>1, <2>1 DEF ClassInv
<1>2. ASSUME NEW c \in Classes, CreateClass(c) \/ DeleteClass(c) PROVE FALSE
  BY <1>2 DEF CreateClass, DeleteClass, ClassEvent
<1>3. ASSUME NEW c \in Classes, ReconcileClass(c) PROVE ClassInv'
  <2>1. CASE Existing(classes) = {}
    BY <1>3, <2>1 DEF ReconcileClass, ClassInv
  <2>2. CASE Existing(classes) # {}
    <3>1. PICK sent \in Seq(StatusUpdates) :
            /\ Send(sent) /\ dagClass' = oldest /\ oldest \in Existing(classes)
            /\ Len(sent) \in Nat \ {0} /\ sent[Len(sent)] = <<oldest, "accepted">>
            /\ \A i \in 1..(Len(sent) - 1) : /\ sent[i][1] \in Existing(classes) \ {oldest}
                                             /\ sent[i] = <<sent[i][1], "rejected">>
            /\ \A d \in Existing(classes) \ {oldest} :
                 \E i \in 1..(Len(sent) - 1) : sent[i] = <<d, "rejected">>
      BY <1>3, <2>2, ReconcileClassFacts
    <3>2. classes' = classes
      BY <1>3 DEF ReconcileClass
    <3>3. \A i \in 1..Len(sent) : i = Len(sent) \/ i \in 1..(Len(sent) - 1)
      BY <3>1
    <3>4. WillBe(oldest, "accepted")'
      <4>1. PICK o : o = oldest
        OBVIOUS
      <4>2. Len(sent) \in 1..Len(sent) /\ sent[Len(sent)] = <<o, "accepted">>
        BY <3>1, <4>1
      <4>3. \A i \in 1..Len(sent) : sent[i][1] = o => sent[i][2] = "accepted"
        BY <3>1, <3>3, <4>1
      <4> HIDE DEF oldest
      <4>4. WillBe(o, "accepted")'
        BY <3>1, <4>2, <4>3, WillBeSent
      <4>5. o = oldest'
        BY <3>2, <4>1 DEF oldest
      <4> QED BY <4>4, <4>5 DEF WillBe
    <3>5. ASSUME NEW d \in Existing(classes), d # oldest PROVE WillBe(d, "rejected")'
      <4>1. PICK n \in 1..(Len(sent) - 1) : sent[n] = <<d, "rejected">>
        BY <3>1, <3>5
      <4>2. n \in 1..Len(sent)
        BY <3>1
      <4>3. \A i \in 1..Len(sent) : sent[i][1] = d => sent[i][2] = "rejected"
        BY <3>1, <3>3, <3>5
      <4>4. Send(sent) /\ sent \in Seq(StatusUpdates)
        BY <3>1
      <4> HIDE DEF oldest
      <4> QED BY <4>1, <4>2, <4>3, <4>4, WillBeSent
    <3>6. \A d \in Existing(classes) : WillBe(d, Verdict(d))'
      <4> SUFFICES ASSUME NEW d \in Existing(classes) PROVE WillBe(d, Verdict(d))'
        OBVIOUS
      <4>1. CASE d = oldest
        BY <3>2, <3>4, <4>1 DEF Verdict, WillBe
      <4>2. CASE d # oldest
        BY <3>2, <3>5, <4>2 DEF Verdict, WillBe
      <4> QED BY <4>1, <4>2
    <3> QED BY <2>2, <3>1, <3>2, <3>6 DEF ClassInv
  <2> QED BY <2>1, <2>2
<1>4. CASE (\E g \in Gateways : ReconcileGateway(g)) \/ SendStatus
  <2>1. UNCHANGED <<classes, classQueue, dagClass>>
    BY <1>4, SentToGateways
  <2>2. CASE UNCHANGED updates
    BY <1>1, <2>1, <2>2
  <2>3. ASSUME NEW sent \in Seq(StatusUpdates), Send(sent), \A i \in 1..Len(sent) : sent[i][1] \in Gateways
        PROVE  ClassInv'
    <3>1. \A c \in Existing(classes) : \A i \in 1..Len(sent) : sent[i][1] # c
      BY <2>3, ExistingFacts, ControllersAssumption
    <3>2. ASSUME NEW c \in Existing(classes) PROVE WillBe(c, Verdict(c))'
      <4>1. PICK v : v = Verdict(c)
        OBVIOUS
      <4>2. WillBe(c, v)
        BY <2>1, <4>1 DEF ClassInv
      <4>3. WillBe(c, v)'
        BY <2>1, <2>3, <3>1, <4>2, WillBeOthers
      <4>4. v = Verdict(c)'
        BY <2>1, <4>1 DEF Verdict
      <4> QED BY <4>3, <4>4 DEF WillBe
    <3> QED BY <2>1, <3>2 DEF ClassInv
  <2> QED BY <1>4, <2>2, <2>3, SentToGateways
<1>5. CASE ApplyUpdate
  <2>1. classQueue = {} /\ dagClass' = dagClass
    <3>1. 1 \in 1..Len(updates)
      BY <1>5, ApplyFacts
    <3>2. CASE updates[1][1] \in Classes
      BY <1>5, <3>2, ApplyToClass, ApplyFacts
    <3>3. CASE updates[1][1] \in Gateways
      BY <1>5, <3>3, ApplyToGateway, ApplyFacts
    <3> QED BY <3>1, <3>2, <3>3, UpdateFacts
  <2>2. /\ Existing(classes') = Existing(classes)
        /\ \A c \in Existing(classes) : classes'[c].stamp = classes[c].stamp
    BY <1>5, ApplyKeeps
  <2>3. Existing(classes) # {} => OldestOf(Existing(classes'), classes') = oldest
    <3>1. Existing(classes) \subseteq Nat /\ \A c \in Existing(classes) : classes[c].stamp \in Nat
      BY ExistingFacts
    <3>2. Existing(classes) # {} => OldestOf(Existing(classes), classes') = OldestOf(Existing(classes), classes)
      BY <2>2, <3>1, OldestSame
    <3> QED BY <2>2, <3>2
  <2>4. ASSUME NEW c \in Existing(classes) PROVE WillBe(c, Verdict(c))'
    <3>1. PICK v : v = Verdict(c)
      OBVIOUS
    <3>2. WillBe(c, v)
      BY <2>1, <3>1 DEF ClassInv
    <3>3. WillBe(c, v)'
      BY <1>5, <3>2, WillBeApplied
    <3>4. v = Verdict(c)'
      BY <2>3, <3>1 DEF Verdict
    <3> QED BY <3>3, <3>4 DEF WillBe
  <2> QED BY <2>1, <2>2, <2>3, <2>4 DEF ClassInv
<1>6. CASE \/ \E g \in Gateways : DeleteGateway(g) \/ \E c \in Classes : CreateGateway(g, c)
           \/ \E c \in Classes : MapGatewayClassToGateways(c)
           \/ \E e \in gwEvents : WatchGateway(e)
           \/ RebuildDAG \/ UNCHANGED vars
  BY <1>1, <1>6 DEF DeleteGateway, CreateGateway, MapGatewayClassToGateways, WatchGateway, RebuildDAG, vars
<1> QED BY <1>2, <1>3, <1>4, <1>5, <1>6 DEF Next, Program

(* OneClassAccepted, for any number of classes: when the controllers are     *)
(* done the oldest class is accepted, no other is, and the DAG has it.       *)
THEOREM OneClassAcceptedAlways == Spec => []OneClassAccepted
<1>1. Init => ClassInv
  BY DEF Init, ClassInv, Existing
<1>2. TypeOK /\ ClassInv => OneClassAccepted
  <2> SUFFICES ASSUME TypeOK, ClassInv, Quiet, Existing(classes) # {}
               PROVE  LET oldest == OldestOf(Existing(classes), classes)
                      IN Accepted = {oldest} /\ dagClass = oldest
    BY DEF OneClassAccepted, ClassInv, Quiet
  <2> DEFINE oldest == OldestOf(Existing(classes), classes)
  <2>1. oldest \in Existing(classes)
    BY ExistingFacts, OldestFacts
  <2>2. \A c \in Existing(classes) : classes[c].conds = {Verdict(c)}
    BY DEF ClassInv, WillBe, Quiet
  <2>3. \A c \in Existing(classes) : "accepted" \in classes[c].conds <=> c = oldest
    BY <2>2 DEF Verdict
  <2>4. dagClass = oldest
    BY DEF ClassInv, Quiet
  <2> HIDE DEF oldest
  <2>5. Accepted = {oldest}
    BY <2>1, <2>3 DEF Accepted
  <2> QED BY <2>4, <2>5 DEF oldest
<1> QED BY <1>1, <1>2, SpecType, NextClassInv, PTL DEF Spec

-----------------------------------------------------------------------------
(* One accepted class at a time *)

LEMMA NotAcceptedKept ==
  ASSUME NEW i \in 1..Len(updates), NEW d, NotAcceptedAt(i, d),
         classes'[d] = classes[d] \/ "accepted" \notin classes'[d].conds, Len(updates) \in Nat,
         \A k \in 1..Len(updates) : updates'[k] = updates[k]
  PROVE  NotAcceptedAt(i, d)'
<1>1. \A k \in 1..(i - 1) : updates'[k] = updates[k]
  OBVIOUS
<1>2. \A j \in 1..(i - 1) : \A k \in (j + 1)..(i - 1) : k \in 1..(i - 1)
  OBVIOUS
<1> QED BY <1>1, <1>2 DEF NotAcceptedAt

LEMMA NotAcceptedApplied ==
  ASSUME TypeOK, ApplyUpdate, NEW i \in 1..Len(updates'), NEW d \in Existing(classes), NotAcceptedAt(i + 1, d)
  PROVE  NotAcceptedAt(i, d)'
<1>1. /\ \A k \in 1..Len(updates') : updates'[k] = updates[k + 1] /\ k + 1 \in 1..Len(updates)
      /\ Len(updates') = Len(updates) - 1 /\ Len(updates) \in Nat /\ 1 \in 1..Len(updates)
  BY ApplyFacts DEF TypeOK
<1>2. /\ d = updates[1][1] => classes'[d].conds = {updates[1][2]}
      /\ d # updates[1][1] => classes'[d] = classes[d]
  BY ApplyKeeps
<1>3. \A k \in 1..(i - 1) : updates'[k] = updates[k + 1] /\ k + 1 \in 1..i
  BY <1>1
<1>4. (i + 1) - 1 = i /\ 1 \in 1..i /\ i \in Nat
  BY <1>1
<1>5. ASSUME NEW j \in 1..i, updates[j] = <<d, "rejected">>,
             \A k \in (j + 1)..i : updates[k] # <<d, "accepted">>
      PROVE  NotAcceptedAt(i, d)'
  <2>1. \A k \in 1..(i - 1) : k > j - 1 => updates'[k] # <<d, "accepted">>
    <3> SUFFICES ASSUME NEW k \in 1..(i - 1), k > j - 1 PROVE updates'[k] # <<d, "accepted">>
      OBVIOUS
    <3>1. k + 1 \in (j + 1)..i
      BY <1>4
    <3> QED BY <1>3, <1>5, <3>1
  <2>2. CASE j = 1
    <3>1. "accepted" \notin classes'[d].conds
      BY <1>2, <1>5, <2>2
    <3>2. \A k \in 1..(i - 1) : updates'[k] # <<d, "accepted">>
      BY <2>1, <2>2
    <3> QED BY <3>1, <3>2 DEF NotAcceptedAt
  <2>3. CASE j # 1
    <3>1. j - 1 \in 1..(i - 1) /\ (j - 1) + 1 = j
      BY <1>4, <2>3
    <3>2. updates'[j - 1] = <<d, "rejected">>
      BY <1>3, <1>5, <3>1
    <3>3. \A k \in ((j - 1) + 1)..(i - 1) : k \in 1..(i - 1) /\ k > j - 1
      BY <1>4, <3>1
    <3> QED BY <2>1, <3>1, <3>2, <3>3 DEF NotAcceptedAt
  <2> QED BY <2>2, <2>3
<1>6. CASE /\ "accepted" \notin classes[d].conds
           /\ \A k \in 1..i : updates[k] # <<d, "accepted">>
  <2>1. \A k \in 1..(i - 1) : updates'[k] # <<d, "accepted">>
    BY <1>3, <1>6
  <2>2. updates[1] # <<d, "accepted">> /\ updates[1] = <<updates[1][1], updates[1][2]>>
    BY <1>1, <1>4, <1>6, UpdatePair
  <2>3. "accepted" \notin classes'[d].conds
    BY <1>2, <1>6, <2>2
  <2> QED BY <2>1, <2>3 DEF NotAcceptedAt
<1> QED BY <1>4, <1>5, <1>6 DEF NotAcceptedAt

(* What creating and deleting leaves of the other classes. *)
LEMMA OtherClasses ==
  ASSUME TypeOK, Stamped, NEW c \in Classes, CreateClass(c) \/ DeleteClass(c)
  PROVE  /\ \A d \in Classes : d # c => classes'[d] = classes[d]
         /\ CreateClass(c) => classes[c] = Absent /\ c \in Existing(classes') /\ classes'[c].conds = {}
         /\ DeleteClass(c) => classes[c] # Absent /\ c \notin Existing(classes') /\ classes'[c] = Absent
         /\ \A d \in Existing(classes') : d \in Classes /\ (d # c => d \in Existing(classes))
         /\ \A d \in Existing(classes) : d # c => d \in Existing(classes')
         /\ UNCHANGED <<gateways, gwEvents, gwQueue, dagClass, dagGateway, dirty, reporting, updates>>
<1>1. UNCHANGED <<gateways, gwEvents, gwQueue, dagClass, dagGateway, dirty, reporting, updates>>
  BY DEF CreateClass, DeleteClass, dagVars
<1>2. CASE CreateClass(c)
  <2>1. PICK new \in ClassObjects :
          /\ new.conds = {} /\ new # Absent /\ classes' = [classes EXCEPT ![c] = new]
          /\ Existing(classes') = Existing(classes) \union {c} /\ c \notin Existing(classes)
    BY <1>2, CreateClassFacts
  <2>2. classes[c] = Absent /\ ~DeleteClass(c)
    BY <1>2 DEF CreateClass, DeleteClass
  <2>3. DOMAIN classes = Classes
    BY DEF TypeOK
  <2>4. \A d \in Classes : classes'[d] = IF d = c THEN new ELSE classes[d]
    BY <2>1, <2>3
  <2> QED BY <1>1, <2>1, <2>2, <2>4, ExistingFacts
<1>3. CASE DeleteClass(c)
  <2>1. Existing(classes') = Existing(classes) \ {c}
    BY <1>3, DeleteFacts
  <2>2. classes[c] # Absent /\ ~CreateClass(c) /\ classes' = [classes EXCEPT ![c] = Absent]
    BY <1>3 DEF CreateClass, DeleteClass
  <2>3. DOMAIN classes = Classes
    BY DEF TypeOK
  <2>4. \A d \in Classes : classes'[d] = IF d = c THEN Absent ELSE classes[d]
    BY <2>2, <2>3
  <2> QED BY <1>1, <2>1, <2>2, <2>4, ExistingFacts
<1> QED BY <1>2, <1>3

(* The actions that are no business of the classes. *)
LessThanClasses ==
  \/ \E g \in Gateways : DeleteGateway(g) \/ \E c \in Classes : CreateGateway(g, c)
  \/ \E c \in Classes : MapGatewayClassToGateways(c)
  \/ \E e \in gwEvents : WatchGateway(e)
  \/ RebuildDAG \/ UNCHANGED vars

LEMMA OneInvSame == OneInv /\ UNCHANGED <<classes, updates>> => OneInv'
<1> SUFFICES ASSUME OneInv, UNCHANGED <<classes, updates>> PROVE OneInv'
  OBVIOUS
<1>1. OneAccepted'
  BY DEF OneInv, OneAccepted, Accepted
<1>2. RejectedFirst'
  <2>1. ASSUME NEW i, NEW d, NotAcceptedAt(i, d) PROVE NotAcceptedAt(i, d)'
    BY <2>1 DEF NotAcceptedAt
  <2> QED BY <2>1 DEF OneInv, RejectedFirst
<1>3. NoneForAbsent'
  BY DEF OneInv, NoneForAbsent
<1> QED BY <1>1, <1>2, <1>3 DEF OneInv

LEMMA LessThanClassesSame == LessThanClasses => UNCHANGED <<classes, updates>>
  BY DEF LessThanClasses, DeleteGateway, CreateGateway, MapGatewayClassToGateways, WatchGateway,
         RebuildDAG, vars, objectVars

(* Creating and deleting a class keeps one accepted class at a time, if who  *)
(* deletes is patient.                                                       *)
LEMMA OneInvObjects ==
  ASSUME Patient, TypeOK, Stamped, OneInv, NEW c \in Classes, CreateClass(c) \/ DeleteClass(c)
  PROVE  OneInv'
<1>1. /\ \A d \in Classes : d # c => classes'[d] = classes[d]
      /\ \A d \in Existing(classes') : d \in Classes /\ (d # c => d \in Existing(classes))
      /\ updates' = updates /\ Len(updates) \in Nat
  BY OtherClasses DEF TypeOK
<1>2. c \in Existing(classes') => classes'[c].conds = {} /\ classes[c] = Absent
  BY OtherClasses
<1>3. OneAccepted'
  <2>1. \A d \in Accepted' : d \in Accepted
    BY <1>1, <1>2 DEF Accepted
  <2> QED BY <2>1 DEF OneInv, OneAccepted
<1>4. RejectedFirst'
  <2> SUFFICES ASSUME NEW i \in 1..Len(updates), NEW b \in Classes, NEW d \in Existing(classes'),
                      updates[i] = <<b, "accepted">>, d # b
               PROVE  NotAcceptedAt(i, d)'
    BY <1>1 DEF RejectedFirst
  <2>1. CASE d # c
    <3>1. d \in Existing(classes) /\ classes'[d] = classes[d]
      BY <1>1, <2>1
    <3>2. NotAcceptedAt(i, d)
      BY <3>1 DEF OneInv, RejectedFirst
    <3> QED BY <1>1, <3>1, <3>2, NotAcceptedKept
  <2>2. CASE d = c
    <3>1. \A k \in 1..Len(updates) : updates[k][1] # d
      BY <1>2, <2>2 DEF OneInv, NoneForAbsent
    <3>2. \A k \in 1..(i - 1) : updates'[k] # <<d, "accepted">>
      BY <1>1, <3>1
    <3> QED BY <1>2, <2>2, <3>2 DEF NotAcceptedAt
  <2> QED BY <2>1, <2>2
<1>5. NoneForAbsent'
  <2> SUFFICES ASSUME NEW d \in Classes, classes'[d] = Absent, NEW i \in 1..Len(updates)
               PROVE  updates[i][1] # d
    BY <1>1 DEF NoneForAbsent
  <2>1. CASE d # c
    BY <1>1, <2>1 DEF OneInv, NoneForAbsent
  <2>2. CASE d = c
    <3>1. ~CreateClass(c)
      BY <2>2, OtherClasses DEF Existing
    <3>2. DeleteClass(c) /\ DOMAIN updates = 1..Len(updates)
      BY <3>1 DEF TypeOK
    <3> QED BY <2>2, <3>2 DEF DeleteClass
  <2> QED BY <2>1, <2>2
<1> QED BY <1>3, <1>4, <1>5 DEF OneInv

(* So does sending updates, if no class that is not there is told anything   *)
(* and the others are rejected before one is accepted.                       *)
Addressed(sent) ==
  \A i \in 1..Len(sent) : sent[i][1] \in Classes => sent[i][1] \in Existing(classes)
RejectsOthers(sent) ==
  \A i \in 1..Len(sent) : \A c \in Classes : \A d \in Existing(classes) :
    sent[i] = <<c, "accepted">> /\ d # c =>
      \E j \in 1..(i - 1) : /\ sent[j] = <<d, "rejected">>
                            /\ \A k \in (j + 1)..(i - 1) : sent[k] # <<d, "accepted">>

LEMMA OneInvSend ==
  ASSUME TypeOK, OneInv, UNCHANGED classes, NEW sent \in Seq(StatusUpdates), Send(sent),
         Addressed(sent), RejectsOthers(sent)
  PROVE  OneInv'
<1> DEFINE n == Len(updates)
<1>1. /\ n \in Nat /\ Len(sent) \in Nat /\ Len(updates') = n + Len(sent)
      /\ \A i \in 1..n : updates'[i] = updates[i] /\ i \in 1..Len(updates')
      /\ \A i \in 1..Len(sent) : updates'[n + i] = sent[i] /\ n + i \in 1..Len(updates')
      /\ \A i \in 1..Len(updates') : i \in 1..n \/ (i - n \in 1..Len(sent) /\ updates'[i] = sent[i - n])
  BY SendFacts DEF TypeOK
<1>2. OneAccepted'
  BY DEF OneInv, OneAccepted, Accepted
<1>3. RejectedFirst'
  <2> SUFFICES ASSUME NEW i \in 1..Len(updates'), NEW c \in Classes, NEW d \in Existing(classes),
                      updates'[i] = <<c, "accepted">>, d # c
               PROVE  NotAcceptedAt(i, d)'
    BY DEF RejectedFirst
  <2>1. CASE i \in 1..n
    <3>1. NotAcceptedAt(i, d)
      BY <1>1, <2>1 DEF OneInv, RejectedFirst
    <3> QED BY <1>1, <2>1, <3>1, NotAcceptedKept
  <2>2. CASE i \notin 1..n
    <3>1. i - n \in 1..Len(sent) /\ sent[i - n] = <<c, "accepted">>
      BY <1>1, <2>2
    <3>2. PICK j \in 1..(i - n - 1) :
            /\ sent[j] = <<d, "rejected">>
            /\ \A k \in (j + 1)..(i - n - 1) : sent[k] # <<d, "accepted">>
      BY <3>1 DEF RejectsOthers
    <3> HIDE DEF n
    <3>3. n + j \in 1..(i - 1) /\ j \in 1..Len(sent)
      BY <1>1, <3>1
    <3>4. updates'[n + j] = <<d, "rejected">>
      BY <1>1, <3>2, <3>3
    <3>5. ASSUME NEW k \in (n + j + 1)..(i - 1) PROVE updates'[k] # <<d, "accepted">>
      <4>1. k - n \in (j + 1)..(i - n - 1) /\ k - n \in 1..Len(sent) /\ n + (k - n) = k
        BY <1>1, <3>1, <3>3
      <4>2. updates'[k] = sent[k - n]
        BY <1>1, <4>1
      <4> QED BY <3>2, <4>1, <4>2
    <3> QED BY <3>3, <3>4, <3>5 DEF NotAcceptedAt
  <2> QED BY <2>1, <2>2
<1>4. NoneForAbsent'
  <2>1. \A c \in Existing(classes) : classes[c] # Absent
    BY DEF Existing
  <2> QED BY <1>1, <2>1 DEF OneInv, NoneForAbsent, Addressed
<1> QED BY <1>2, <1>3, <1>4 DEF OneInv

(* And so does writing one. *)
LEMMA OneInvApply ==
  ASSUME TypeOK, OneInv, ApplyUpdate
  PROVE  OneInv'
<1> DEFINE x == updates[1][1]
           cond == updates[1][2]
<1>1. /\ \A k \in 1..Len(updates') : updates'[k] = updates[k + 1] /\ k + 1 \in 1..Len(updates)
      /\ 1 \in 1..Len(updates) /\ updates[1] = <<x, cond>>
  BY ApplyFacts, UpdatePair
<1>2. /\ Existing(classes') = Existing(classes)
      /\ \A c \in Existing(classes) : /\ c = x => classes'[c].conds = {cond}
                                      /\ c # x => classes'[c] = classes[c]
  BY ApplyKeeps
<1>3. OneAccepted'
  <2>1. CASE cond = "accepted" /\ x \in Existing(classes)
    <3>1. \A d \in Existing(classes) : d # x => NotAcceptedAt(1, d)
      BY <1>1, <2>1, ExistingFacts DEF OneInv, RejectedFirst
    <3>2. \A d \in Existing(classes) : d # x => "accepted" \notin classes[d].conds
      BY <3>1 DEF NotAcceptedAt
    <3>3. \A d \in Accepted' : d = x
      BY <1>2, <3>2 DEF Accepted
    <3> QED BY <3>3 DEF OneAccepted
  <2>2. CASE ~(cond = "accepted" /\ x \in Existing(classes))
    <3>1. \A d \in Accepted' : d \in Accepted
      BY <1>2, <2>2 DEF Accepted
    <3> QED BY <3>1 DEF OneInv, OneAccepted
  <2> QED BY <2>1, <2>2
<1>4. RejectedFirst'
  <2> SUFFICES ASSUME NEW i \in 1..Len(updates'), NEW c \in Classes, NEW d \in Existing(classes),
                      updates'[i] = <<c, "accepted">>, d # c
               PROVE  NotAcceptedAt(i, d)'
    BY <1>2 DEF RejectedFirst
  <2>1. NotAcceptedAt(i + 1, d)
    BY <1>1 DEF OneInv, RejectedFirst
  <2> QED BY <2>1, NotAcceptedApplied
<1>5. NoneForAbsent'
  <2>1. \A c \in Classes : classes'[c] = Absent => classes[c] = Absent
    <3> SUFFICES ASSUME NEW c \in Classes, classes'[c] = Absent, classes[c] # Absent PROVE FALSE
      OBVIOUS
    <3>1. c \in Existing(classes')
      BY <1>2, ExistingFacts
    <3> QED BY <3>1 DEF Existing
  <2> QED BY <1>1, <2>1 DEF OneInv, NoneForAbsent
<1> QED BY <1>3, <1>4, <1>5 DEF OneInv

LEMMA NextOneInv ==
  ASSUME Patient PROVE TypeOK /\ Stamped /\ OneInv /\ [Next]_vars => OneInv'
<1> SUFFICES ASSUME TypeOK, Stamped, OneInv, [Next]_vars PROVE OneInv'
  OBVIOUS
<1>1. ASSUME NEW c \in Classes, CreateClass(c) \/ DeleteClass(c) PROVE OneInv'
  BY <1>1, OneInvObjects
<1>2. CASE LessThanClasses
  BY <1>2, LessThanClassesSame, OneInvSame
<1>3. ASSUME NEW c \in Classes, ReconcileClass(c) PROVE OneInv'
  <2>0. classes' = classes
    BY <1>3 DEF ReconcileClass, objectVars
  <2>1. CASE Existing(classes) = {}
    <3>1. updates' = updates
      BY <1>3, <2>1 DEF ReconcileClass
    <3> QED BY <2>0, <3>1, OneInvSame
  <2>2. CASE Existing(classes) # {}
    <3> DEFINE oldest == OldestOf(Existing(classes), classes)
    <3>1. PICK sent \in Seq(StatusUpdates) :
            /\ Send(sent) /\ dagClass' = oldest /\ oldest \in Existing(classes)
            /\ Len(sent) \in Nat \ {0} /\ sent[Len(sent)] = <<oldest, "accepted">>
            /\ \A i \in 1..(Len(sent) - 1) : /\ sent[i][1] \in Existing(classes) \ {oldest}
                                             /\ sent[i] = <<sent[i][1], "rejected">>
            /\ \A d \in Existing(classes) \ {oldest} :
                 \E i \in 1..(Len(sent) - 1) : sent[i] = <<d, "rejected">>
      BY <1>3, <2>2, ReconcileClassFacts
    <3> HIDE DEF oldest
    <3>2. \A i \in 1..Len(sent) : i = Len(sent) \/ i \in 1..(Len(sent) - 1)
      BY <3>1
    <3>3. \A i \in 1..Len(sent) : sent[i][1] \in Existing(classes)
      BY <3>1, <3>2
    <3>4. ASSUME NEW i \in 1..Len(sent), NEW b \in Classes, NEW d \in Existing(classes),
                 sent[i] = <<b, "accepted">>, d # b
          PROVE  \E j \in 1..(i - 1) : /\ sent[j] = <<d, "rejected">>
                                       /\ \A k \in (j + 1)..(i - 1) : sent[k] # <<d, "accepted">>
      <4>1. i \notin 1..(Len(sent) - 1)
        <5> SUFFICES ASSUME i \in 1..(Len(sent) - 1) PROVE FALSE
          OBVIOUS
        <5>1. sent[i] = <<sent[i][1], "rejected">>
          BY <3>1
        <5> QED BY <3>4, <5>1
      <4>2. i = Len(sent)
        BY <3>2, <4>1
      <4>3. b = oldest
        BY <3>1, <3>4, <4>2
      <4>4. PICK j \in 1..(i - 1) : sent[j] = <<d, "rejected">>
        BY <3>1, <3>4, <4>2, <4>3
      <4>5. \A k \in 1..(i - 1) : sent[k] # <<d, "accepted">>
        <5> SUFFICES ASSUME NEW k \in 1..(i - 1), sent[k] = <<d, "accepted">> PROVE FALSE
          OBVIOUS
        <5>1. sent[k] = <<sent[k][1], "rejected">>
          BY <3>1, <4>2
        <5> QED BY <5>1
      <4>6. \A k \in (j + 1)..(i - 1) : k \in 1..(i - 1)
        BY <4>2, <3>1
      <4> QED BY <4>4, <4>5, <4>6
    <3>5. Addressed(sent) /\ RejectsOthers(sent)
      BY <3>3, <3>4 DEF Addressed, RejectsOthers
    <3> QED BY <2>0, <3>1, <3>5, OneInvSend
  <2> QED BY <2>1, <2>2
<1>4. CASE (\E g \in Gateways : ReconcileGateway(g)) \/ SendStatus
  <2>1. classes' = classes
    BY <1>4, SentToGateways
  <2>2. CASE UNCHANGED updates
    BY <2>1, <2>2, OneInvSame
  <2>3. ASSUME NEW sent \in Seq(StatusUpdates), Send(sent), \A i \in 1..Len(sent) : sent[i][1] \in Gateways
        PROVE  OneInv'
    <3>1. \A i \in 1..Len(sent) : sent[i][1] \notin Classes
      BY <2>3, ControllersAssumption
    <3>2. \A i \in 1..Len(sent) : \A c \in Classes : sent[i] # <<c, "accepted">>
      BY <3>1
    <3>3. Addressed(sent) /\ RejectsOthers(sent)
      BY <3>1, <3>2 DEF Addressed, RejectsOthers
    <3> QED BY <2>1, <2>3, <3>3, OneInvSend
  <2> QED BY <1>4, <2>2, <2>3, SentToGateways
<1>5. CASE ApplyUpdate
  BY <1>5, OneInvApply
<1> QED BY <1>1, <1>2, <1>3, <1>4, <1>5 DEF Next, Program, LessThanClasses

-----------------------------------------------------------------------------
(* The Gateway in the DAG *)

(* Updates are added at the end ... *)
LEMMA ToldSend ==
  ASSUME TypeOK, UNCHANGED gateways, NEW sent \in Seq(StatusUpdates), Send(sent), NEW g, IsTold(g)
  PROVE  IsTold(g)'
<1>1. \A k \in 1..Len(updates) : k \in 1..Len(updates') /\ updates'[k] = updates[k]
  BY SendFacts
<1> QED BY <1>1 DEF IsTold

LEMMA ScheduledSend ==
  ASSUME TypeOK, UNCHANGED gateways, NEW sent \in Seq(StatusUpdates), Send(sent), NEW g,
         WillBeScheduled(g), \A i \in 1..Len(sent) : sent[i] # <<g, "notscheduled">>
  PROVE  WillBeScheduled(g)'
<1>1. \A k \in 1..Len(updates) : k \in 1..Len(updates') /\ updates'[k] = updates[k]
  BY SendFacts
<1>2. \A k \in 1..Len(updates') : updates'[k] = <<g, "notscheduled">> =>
         k \in 1..Len(updates) /\ updates'[k] = updates[k]
  BY SendFacts
<1>3. ASSUME NEW i \in 1..Len(updates), updates[i] = <<g, "ready">>,
             \A k \in 1..Len(updates) : k > i => updates[k] # <<g, "notscheduled">>
      PROVE  WillBeScheduled(g)'
  BY <1>1, <1>2, <1>3 DEF WillBeScheduled
<1>4. CASE /\ "notscheduled" \notin gateways[g].conds
           /\ \A k \in 1..Len(updates) : updates[k] # <<g, "notscheduled">>
  BY <1>2, <1>4 DEF WillBeScheduled
<1> QED BY <1>3, <1>4 DEF WillBeScheduled

(* ... and written from the front. *)
LEMMA ToldApplied ==
  ASSUME TypeOK, ApplyUpdate, NEW g \in Existing(gateways), IsTold(g),
         updates[1] = <<g, "ready">> => gateways[g].conds = {"ready"}
  PROVE  IsTold(g)'
<1>1. /\ Len(updates') = Len(updates) - 1 /\ Len(updates) \in Nat /\ 1 \in 1..Len(updates)
      /\ \A k \in 1..Len(updates') : updates'[k] = updates[k + 1]
  BY ApplyFacts DEF TypeOK
<1>2. /\ g = updates[1][1] => gateways'[g].conds = Mutate(gateways[g].conds, updates[1][2])
      /\ g # updates[1][1] => gateways'[g] = gateways[g]
  BY ApplyKeeps
<1>3. ASSUME NEW i \in 1..Len(updates), updates[i] = <<g, "notscheduled">> PROVE IsTold(g)'
  <2>1. CASE i = 1
    <3>1. gateways'[g].conds = gateways[g].conds \union {"notscheduled"}
      BY <1>2, <1>3, <2>1 DEF Mutate
    <3> QED BY <3>1 DEF IsTold
  <2>2. CASE i # 1
    <3>1. i - 1 \in 1..Len(updates') /\ (i - 1) + 1 = i
      BY <1>1, <2>2
    <3>2. updates'[i - 1] = updates[i]
      BY <1>1, <3>1
    <3> QED BY <1>3, <3>1, <3>2 DEF IsTold
  <2> QED BY <2>1, <2>2
<1>4. CASE "notscheduled" \in gateways[g].conds
  <2>1. updates[1] = <<updates[1][1], updates[1][2]>>
    BY <1>1, UpdatePair
  <2>2. g = updates[1][1] => updates[1][2] \in {"notscheduled", "ready"}
    BY <1>1, UpdateFacts, ExistingFacts, ControllersAssumption
  <2>3. g = updates[1][1] => updates[1][2] = "notscheduled"
    BY <1>4, <2>1, <2>2
  <2>4. "notscheduled" \in gateways'[g].conds
    BY <1>2, <1>4, <2>3 DEF Mutate
  <2> QED BY <2>4 DEF IsTold
<1> QED BY <1>3, <1>4 DEF IsTold

LEMMA ScheduledApplied ==
  ASSUME TypeOK, ApplyUpdate, NEW g \in Existing(gateways), WillBeScheduled(g)
  PROVE  WillBeScheduled(g)'
<1>1. /\ Len(updates') = Len(updates) - 1 /\ Len(updates) \in Nat /\ 1 \in 1..Len(updates)
      /\ \A k \in 1..Len(updates') : updates'[k] = updates[k + 1] /\ k + 1 \in 1..Len(updates)
  BY ApplyFacts DEF TypeOK
<1>2. /\ g = updates[1][1] => gateways'[g].conds = Mutate(gateways[g].conds, updates[1][2])
      /\ g # updates[1][1] => gateways'[g] = gateways[g]
  BY ApplyKeeps
<1>3. ASSUME NEW i \in 1..Len(updates), updates[i] = <<g, "ready">>,
             \A k \in 1..Len(updates) : k > i => updates[k] # <<g, "notscheduled">>
      PROVE  WillBeScheduled(g)'
  <2>1. \A k \in 1..Len(updates') : k > i - 1 => updates'[k] # <<g, "notscheduled">>
    <3> SUFFICES ASSUME NEW k \in 1..Len(updates'), k > i - 1 PROVE updates'[k] # <<g, "notscheduled">>
      OBVIOUS
    <3>1. k + 1 \in 1..Len(updates) /\ k + 1 > i /\ updates'[k] = updates[k + 1]
      BY <1>1
    <3> QED BY <1>3, <3>1
  <2>2. CASE i = 1
    <3>1. gateways'[g].conds = {"ready"}
      BY <1>2, <1>3, <2>2 DEF Mutate
    <3>2. \A k \in 1..Len(updates') : updates'[k] # <<g, "notscheduled">>
      BY <1>1, <2>1, <2>2
    <3> QED BY <3>1, <3>2 DEF WillBeScheduled
  <2>3. CASE i # 1
    <3>1. i - 1 \in 1..Len(updates') /\ (i - 1) + 1 = i
      BY <1>1, <2>3
    <3>2. updates'[i - 1] = <<g, "ready">>
      BY <1>1, <1>3, <3>1
    <3> QED BY <2>1, <3>1, <3>2 DEF WillBeScheduled
  <2> QED BY <2>2, <2>3
<1>4. CASE /\ "notscheduled" \notin gateways[g].conds
           /\ \A k \in 1..Len(updates) : updates[k] # <<g, "notscheduled">>
  <2>1. \A k \in 1..Len(updates') : updates'[k] # <<g, "notscheduled">>
    BY <1>1, <1>4
  <2>2. updates[1] = <<updates[1][1], updates[1][2]>>
    BY <1>1, UpdatePair
  <2>3. g = updates[1][1] => updates[1][2] = "ready"
    BY <1>1, <1>4, <2>2, UpdateFacts, ExistingFacts, ControllersAssumption
  <2>4. "notscheduled" \notin gateways'[g].conds
    BY <1>2, <1>4, <2>3 DEF Mutate
  <2> QED BY <2>1, <2>4 DEF WillBeScheduled
<1> QED BY <1>3, <1>4 DEF WillBeScheduled

(* A step that leaves the accepted class and its Gateways as they are. *)
SameGateways ==
  /\ Accepted' = Accepted /\ dagGateway' = dagGateway
  /\ \A c \in Accepted : /\ GatewaysOf(c)' = GatewaysOf(c)
                         /\ \A g \in GatewaysOf(c) : /\ gateways'[g].stamp = gateways[g].stamp
                                                     /\ IsTold(g) => IsTold(g)'

LEMMA GatewaysOfFacts ==
  ASSUME TypeOK
  PROVE  /\ \A c : GatewaysOf(c) \subseteq Existing(gateways) /\ GatewaysOf(c) \subseteq Nat
         /\ \A c : \A g \in GatewaysOf(c) : g \in Gateways /\ gateways[g].stamp \in Nat /\ gateways[g].class = c
         /\ Accepted \subseteq Existing(classes) /\ Accepted \subseteq Classes
  BY ExistingFacts DEF GatewaysOf, Accepted

LEMMA RightKept ==
  ASSUME TypeOK, SameGateways, GatewayRight, OthersTold
  PROVE  GatewayRight' /\ OthersTold'
<1>1. \A c \in Accepted : ChosenOf(c)' = ChosenOf(c)
  <2> SUFFICES ASSUME NEW c \in Accepted PROVE ChosenOf(c)' = ChosenOf(c)
    OBVIOUS
  <2>1. GatewaysOf(c)' = GatewaysOf(c) /\ \A g \in GatewaysOf(c) : gateways'[g].stamp = gateways[g].stamp
    BY DEF SameGateways
  <2>2. GatewaysOf(c) # {} => OldestOf(GatewaysOf(c), gateways') = OldestOf(GatewaysOf(c), gateways)
    BY <2>1, GatewaysOfFacts, OldestSame
  <2> QED BY <2>1, <2>2 DEF ChosenOf
<1>2. GatewayRight'
  BY <1>1 DEF SameGateways, GatewayRight
<1>3. OthersTold'
  BY DEF SameGateways, OthersTold
<1> QED BY <1>2, <1>3

(* A deletion or creation of a class: without Gateways it makes no           *)
(* difference, and with Gateways they are reconciled.                        *)
LEMMA GatewayInvClasses ==
  ASSUME Patient, TypeOK, Stamped, OneInv, GatewayInv, NEW c \in Classes, CreateClass(c) \/ DeleteClass(c)
  PROVE  GatewayInv'
<1> SUFFICES ASSUME ~Pending' PROVE GatewayRight' /\ OthersTold' /\ ChosenReported'
  BY DEF GatewayInv
<1>1. /\ \A d \in Classes : d # c => classes'[d] = classes[d]
      /\ CreateClass(c) => classes[c] = Absent /\ c \in Existing(classes') /\ classes'[c].conds = {}
      /\ DeleteClass(c) => classes[c] # Absent /\ c \notin Existing(classes') /\ classes'[c] = Absent
      /\ \A d \in Existing(classes') : d \in Classes /\ (d # c => d \in Existing(classes))
      /\ \A d \in Existing(classes) : d # c => d \in Existing(classes')
  BY OtherClasses
<1>2. UNCHANGED <<gateways, gwEvents, gwQueue, dagClass, dagGateway, dirty, reporting, updates>>
  BY OtherClasses
<1>3. classQueue' # {} /\ mapEvents' = mapEvents \union {c}
  BY DEF CreateClass, DeleteClass, ClassEvent
<1>4. DeleteClass(c) => GatewaysOf(c) = {} /\ \A e \in gwEvents : e[2] # c
  BY DEF DeleteClass, GatewaysOf
<1>5. \A d : GatewaysOf(d)' = GatewaysOf(d)
  BY <1>2 DEF GatewaysOf
<1>6. ~Pending
  <2>1. gwQueue = {}
    BY <1>2 DEF Pending
  <2>2. ASSUME NEW e \in gwEvents, classes[e[2]] # Absent PROVE FALSE
    <3>1. e[2] \in Classes
      BY DEF TypeOK
    <3>2. e[2] # c
      BY <1>1, <1>4, <2>2
    <3> QED BY <1>1, <1>2, <2>2, <3>1, <3>2 DEF Pending
  <2>3. ASSUME NEW d \in mapEvents, classes[d] # Absent, GatewaysOf(d) # {} PROVE FALSE
    <3>1. d \in Classes
      BY DEF TypeOK
    <3>2. d # c
      BY <1>1, <1>4, <2>3
    <3> QED BY <1>1, <1>3, <1>5, <2>3, <3>1, <3>2 DEF Pending
  <2> QED BY <2>1, <2>2, <2>3 DEF Pending
<1>7. GatewayRight /\ OthersTold
  BY <1>6 DEF GatewayInv
<1>8. Accepted' = Accepted \ {c}
  <2>1. \A d \in Accepted' : d \in Accepted \ {c}
    BY <1>1 DEF Accepted
  <2>2. \A d \in Accepted \ {c} : d \in Accepted'
    BY <1>1, GatewaysOfFacts DEF Accepted
  <2> QED BY <2>1, <2>2
<1>9. \A d \in Accepted : GatewaysOf(d) # {} /\ d = c => FALSE
  <2>1. c \in Accepted => classes[c] # Absent
    BY DEF Accepted, Existing
  <2> QED BY <1>1, <1>4, <2>1
<1>10. GatewayRight'
  <2>1. \A d : ChosenOf(d)' = ChosenOf(d)
    BY <1>2, <1>5 DEF ChosenOf
  <2>2. CASE c \notin Accepted
    BY <1>2, <1>7, <1>8, <2>1, <2>2 DEF GatewayRight
  <2>3. CASE c \in Accepted
    <3>1. Accepted = {c} /\ GatewaysOf(c) = {}
      BY <1>9, <2>3 DEF OneInv, OneAccepted
    <3>2. dagGateway = Absent
      BY <1>7, <3>1 DEF GatewayRight, ChosenOf
    <3> QED BY <1>2, <1>8, <3>1, <3>2 DEF GatewayRight
  <2> QED BY <2>2, <2>3
<1>11. OthersTold'
  <2>1. \A g : IsTold(g)' <=> IsTold(g)
    BY <1>2 DEF IsTold
  <2> QED BY <1>2, <1>5, <1>7, <1>8, <2>1 DEF OthersTold
<1>12. ChosenReported'
  BY <1>3 DEF ChosenReported
<1> QED BY <1>10, <1>11, <1>12

(* A step that leaves the Gateways of the accepted class, and what is said   *)
(* of them, when the gateway controller has nothing to do before it either.  *)
LEMMA ReportedKept ==
  ASSUME TypeOK, GatewayInv, ~Pending, SameGateways, UNCHANGED <<dirty, reporting, classQueue>>,
         \A c \in Accepted : \A g \in GatewaysOf(c) : WillBeScheduled(g) => WillBeScheduled(g)'
  PROVE  GatewayInv'
<1>1. GatewayRight /\ OthersTold /\ ChosenReported
  BY DEF GatewayInv
<1>2. GatewayRight' /\ OthersTold'
  BY <1>1, RightKept
<1>3. ChosenReported'
  BY <1>1 DEF ChosenReported, SameGateways
<1> QED BY <1>2, <1>3 DEF GatewayInv

(* A Gateway comes or goes: of a class that is there it is an event. *)
LEMMA GatewayInvObjects ==
  ASSUME TypeOK, Stamped, GatewayInv, NEW g \in Gateways,
         DeleteGateway(g) \/ \E c \in Classes : CreateGateway(g, c)
  PROVE  GatewayInv'
<1> SUFFICES ASSUME ~Pending' PROVE GatewayInv'
  BY DEF GatewayInv
<1>1. UNCHANGED <<classes, mapEvents, classQueue, gwQueue, dagGateway, dirty, reporting, updates>>
  BY DEF DeleteGateway, CreateGateway, queueVars, dagVars
<1>2. PICK c \in Classes : /\ gwEvents' = gwEvents \union {<<g, c>>}
                           /\ g \in Existing(gateways) => gateways[g].class = c
                           /\ g \in Existing(gateways') => gateways'[g].class = c
                           /\ \A h \in Gateways : h # g => gateways'[h] = gateways[h]
                           /\ \A h \in Gateways : h # g => (h \in Existing(gateways') <=> h \in Existing(gateways))
  <2>1. CASE DeleteGateway(g)
    <3> DEFINE c == gateways[g].class
    <3>1. c \in Classes /\ gwEvents' = gwEvents \union {<<g, c>>}
      BY <2>1, ExistingFacts DEF DeleteGateway
    <3>2. gateways' = [gateways EXCEPT ![g] = Absent] /\ DOMAIN gateways = Gateways
      BY <2>1 DEF DeleteGateway, TypeOK
    <3>3. Existing(gateways') = Existing(gateways) \ {g}
      BY <2>1, DeleteFacts
    <3> QED BY <3>1, <3>2, <3>3
  <2>2. ASSUME NEW c \in Classes, CreateGateway(g, c)
        PROVE  /\ gwEvents' = gwEvents \union {<<g, c>>}
               /\ g \in Existing(gateways) => gateways[g].class = c
               /\ g \in Existing(gateways') => gateways'[g].class = c
               /\ \A h \in Gateways : h # g => gateways'[h] = gateways[h]
               /\ \A h \in Gateways : h # g => (h \in Existing(gateways') <=> h \in Existing(gateways))
    <3>1. PICK new \in GatewayObjects :
             /\ new.class = c /\ new # Absent /\ gateways' = [gateways EXCEPT ![g] = new]
             /\ Existing(gateways') = Existing(gateways) \union {g} /\ g \notin Existing(gateways)
      BY <2>2, CreateGatewayFacts
    <3>2. DOMAIN gateways = Gateways /\ gwEvents' = gwEvents \union {<<g, c>>}
      BY <2>2 DEF TypeOK, CreateGateway
    <3> QED BY <3>1, <3>2
  <2> QED BY <2>1, <2>2
<1>3. classes[c] = Absent
  <2>1. \A e \in gwEvents' : classes[e[2]] = Absent
    BY <1>1 DEF Pending
  <2>2. <<g, c>> \in gwEvents' /\ <<g, c>>[2] = c
    BY <1>2
  <2> QED BY <2>1, <2>2
<1>4. \A d \in Classes : classes[d] # Absent => GatewaysOf(d)' = GatewaysOf(d) /\ g \notin GatewaysOf(d)
  <2> SUFFICES ASSUME NEW d \in Classes, classes[d] # Absent
               PROVE  GatewaysOf(d)' = GatewaysOf(d) /\ g \notin GatewaysOf(d)
    OBVIOUS
  <2>1. TypeOK'
    BY NextType DEF Next
  <2>2. Existing(gateways) \subseteq Gateways /\ Existing(gateways') \subseteq Gateways
    BY <2>1 DEF Existing, TypeOK
  <2>3. g \notin GatewaysOf(d) /\ g \notin GatewaysOf(d)'
    BY <1>2, <1>3 DEF GatewaysOf
  <2>4. \A h \in Gateways : h # g => (h \in GatewaysOf(d)' <=> h \in GatewaysOf(d))
    BY <1>2 DEF GatewaysOf
  <2> QED BY <2>2, <2>3, <2>4 DEF GatewaysOf
<1>5. ~Pending
  <2>1. \A d \in mapEvents : d \in Classes
    BY DEF TypeOK
  <2> QED BY <1>1, <1>2, <1>4, <2>1 DEF Pending
<1>6. \A d \in Accepted : d \in Classes /\ classes[d] # Absent
  BY GatewaysOfFacts DEF Accepted, Existing
<1>7. \A d \in Accepted : \A h \in GatewaysOf(d) : gateways'[h] = gateways[h]
  BY <1>2, <1>4, <1>6, GatewaysOfFacts
<1>8. SameGateways
  <2>1. Accepted' = Accepted
    BY <1>1 DEF Accepted
  <2>2. \A d \in Accepted : \A h \in GatewaysOf(d) : IsTold(h) => IsTold(h)'
    BY <1>1, <1>7 DEF IsTold
  <2> QED BY <1>1, <1>4, <1>6, <1>7, <2>1, <2>2 DEF SameGateways
<1>9. \A d \in Accepted : \A h \in GatewaysOf(d) : WillBeScheduled(h) => WillBeScheduled(h)'
  BY <1>1, <1>7 DEF WillBeScheduled
<1> QED BY <1>1, <1>5, <1>8, <1>9, ReportedKept

(* The watches drop no event that counts. *)
LEMMA GatewayInvWatches ==
  ASSUME TypeOK, GatewayInv, \/ \E c \in Classes : MapGatewayClassToGateways(c)
                             \/ \E e \in gwEvents : WatchGateway(e)
                             \/ UNCHANGED vars
  PROVE  GatewayInv'
<1> SUFFICES ASSUME ~Pending' PROVE GatewayInv'
  BY DEF GatewayInv
<1>1. UNCHANGED <<classes, gateways, classQueue, dagGateway, dirty, reporting, updates>>
  BY DEF MapGatewayClassToGateways, WatchGateway, objectVars, queueVars, dagVars, vars
<1>2. ~Pending
  <2>1. ASSUME NEW c \in Classes, MapGatewayClassToGateways(c) PROVE ~Pending
    <3>1. gwQueue = {} /\ GatewaysOf(c) = {} /\ gwEvents' = gwEvents /\ mapEvents' = mapEvents \ {c}
      BY <2>1 DEF MapGatewayClassToGateways, Pending, GatewaysOf
    <3> QED BY <1>1, <3>1 DEF Pending, GatewaysOf
  <2>2. ASSUME NEW e \in gwEvents, WatchGateway(e) PROVE ~Pending
    <3>1. gwQueue = {} /\ classes[e[2]] = Absent /\ gwEvents' = gwEvents \ {e} /\ mapEvents' = mapEvents
      BY <2>2 DEF WatchGateway, Pending, HasMatchingController
    <3> QED BY <1>1, <3>1 DEF Pending, GatewaysOf
  <2>3. CASE UNCHANGED vars
    BY <2>3 DEF vars, objectVars, eventVars, queueVars, Pending, GatewaysOf
  <2> QED BY <2>1, <2>2, <2>3
<1>3. SameGateways
  BY <1>1 DEF SameGateways, Accepted, GatewaysOf, IsTold
<1>4. \A d \in Accepted : \A h \in GatewaysOf(d) : WillBeScheduled(h) => WillBeScheduled(h)'
  BY <1>1 DEF WillBeScheduled
<1> QED BY <1>1, <1>2, <1>3, <1>4, ReportedKept

(* The class controller leaves the Gateways, and has the DAG rebuilt. *)
LEMMA GatewayInvReconcileClass ==
  ASSUME TypeOK, GatewayInv, NEW c \in Classes, ReconcileClass(c)
  PROVE  GatewayInv'
<1> SUFFICES ASSUME ~Pending' PROVE GatewayInv'
  BY DEF GatewayInv
<1>1. UNCHANGED <<classes, gateways, mapEvents, gwEvents, gwQueue, dagGateway>> /\ dirty'
  BY DEF ReconcileClass, objectVars, eventVars
<1>2. ~Pending
  BY <1>1 DEF Pending, GatewaysOf
<1>3. \A g : IsTold(g) => IsTold(g)'
  <2>1. CASE Existing(classes) = {}
    <3>1. updates' = updates
      BY <2>1 DEF ReconcileClass
    <3> QED BY <1>1, <3>1 DEF IsTold
  <2>2. CASE Existing(classes) # {}
    <3>1. PICK sent \in Seq(StatusUpdates) : Send(sent)
      BY <2>2, ReconcileClassFacts
    <3> QED BY <1>1, <3>1, ToldSend
  <2> QED BY <2>1, <2>2
<1>4. SameGateways
  BY <1>1, <1>3 DEF SameGateways, Accepted, GatewaysOf
<1>5. GatewayRight' /\ OthersTold'
  BY <1>2, <1>4, RightKept DEF GatewayInv
<1>6. ChosenReported'
  BY <1>1 DEF ChosenReported
<1> QED BY <1>5, <1>6 DEF GatewayInv

(* The gateway controller chooses anew and tells the others. *)
LEMMA GatewayInvReconcileGateway ==
  ASSUME TypeOK, OneInv, NEW g \in Gateways, ReconcileGateway(g)
  PROVE  GatewayInv'
<1>1. UNCHANGED <<classes, gateways>> /\ dirty'
  BY DEF ReconcileGateway, objectVars
<1>2. Accepted' = Accepted /\ \A c : GatewaysOf(c)' = GatewaysOf(c)
  BY <1>1 DEF Accepted, GatewaysOf
<1>3. \A c : ChosenOf(c)' = ChosenOf(c)
  BY <1>1, <1>2 DEF ChosenOf
<1>4. GatewayRight' /\ OthersTold'
  <2>1. CASE Accepted = {} /\ dagGateway' = Absent
    BY <1>2, <2>1 DEF GatewayRight, OthersTold
  <2>2. ASSUME NEW c \in Accepted, GatewaysOf(c) = {}, dagGateway' = Absent
        PROVE  GatewayRight' /\ OthersTold'
    <3>1. GatewayRight'
      BY <1>2, <1>3, <2>2 DEF GatewayRight, ChosenOf
    <3>2. \A d \in Accepted : GatewaysOf(d) = {}
      BY <2>2 DEF OneInv, OneAccepted
    <3> QED BY <1>2, <3>1, <3>2 DEF OthersTold
  <2>3. ASSUME NEW c \in Accepted, NEW sent \in Seq(StatusUpdates),
               GatewaysOf(c) # {}, Send(sent), dagGateway' = OldestOf(GatewaysOf(c), gateways),
               \A h \in GatewaysOf(c) \ {dagGateway'} :
                 \E i \in 1..Len(sent) : sent[i] = <<h, "notscheduled">>
        PROVE  GatewayRight' /\ OthersTold'
    <3>1. GatewayRight'
      BY <1>2, <1>3, <2>3 DEF GatewayRight, ChosenOf
    <3>2. ASSUME NEW h \in GatewaysOf(c), h # dagGateway' PROVE IsTold(h)'
      <4>1. PICK i \in 1..Len(sent) : sent[i] = <<h, "notscheduled">>
        BY <2>3, <3>2
      <4>2. updates'[Len(updates) + i] = <<h, "notscheduled">> /\ Len(updates) + i \in 1..Len(updates')
        BY <2>3, <4>1, SendFacts
      <4> QED BY <4>2 DEF IsTold
    <3>3. \A d \in Accepted : d = c
      BY DEF OneInv, OneAccepted
    <3>4. OthersTold'
      BY <1>2, <3>2, <3>3 DEF OthersTold
    <3> QED BY <3>1, <3>4
  <2> QED BY <2>1, <2>2, <2>3, ReconcileGatewayFacts
<1>5. ChosenReported'
  BY <1>1 DEF ChosenReported
<1> QED BY <1>4, <1>5 DEF GatewayInv

(* The DAG is rebuilt with the Gateway it has, if it has a class, and if it  *)
(* has none while there are classes one is about to be reconciled.           *)
LEMMA GatewayInvRebuild ==
  ASSUME TypeOK, ClassInv, GatewayInv, RebuildDAG
  PROVE  GatewayInv'
<1> SUFFICES ASSUME ~Pending' PROVE GatewayInv'
  BY DEF GatewayInv
<1>1. UNCHANGED <<classes, gateways, mapEvents, gwEvents, classQueue, gwQueue, dagClass, dagGateway, updates>>
  BY DEF RebuildDAG, objectVars, eventVars, queueVars
<1>2. ~Pending
  BY <1>1 DEF Pending, GatewaysOf
<1>3. SameGateways
  BY <1>1 DEF SameGateways, Accepted, GatewaysOf, IsTold
<1>4. GatewayRight' /\ OthersTold'
  BY <1>2, <1>3, RightKept DEF GatewayInv
<1>5. ASSUME NEW c \in Accepted, classQueue = {} PROVE dagClass # Absent
  <2>1. Existing(classes) # {} /\ Existing(classes) \subseteq Classes
    BY GatewaysOfFacts, ExistingFacts
  <2>2. OldestOf(Existing(classes), classes) \in Existing(classes)
    BY <2>1, ExistingFacts, OldestFacts
  <2>3. dagClass = OldestOf(Existing(classes), classes)
    BY <1>5, <2>1 DEF ClassInv
  <2> QED BY <2>1, <2>2, <2>3, ControllersAssumption
<1>6. dagClass # Absent => reporting' = dagGateway
  BY DEF RebuildDAG
<1>7. ChosenReported'
  BY <1>1, <1>3, <1>5, <1>6 DEF ChosenReported, SameGateways
<1> QED BY <1>4, <1>7 DEF GatewayInv

(* The status of the DAG's Gateway is sent last. *)
LEMMA GatewayInvSendStatus ==
  ASSUME TypeOK, GatewayInv, SendStatus
  PROVE  GatewayInv'
<1> SUFFICES ASSUME ~Pending' PROVE GatewayInv'
  BY DEF GatewayInv
<1>1. UNCHANGED <<classes, gateways, mapEvents, gwEvents, classQueue, gwQueue, dagGateway, dirty>>
  BY DEF SendStatus, objectVars, eventVars, queueVars
<1>2. ~Pending
  BY <1>1 DEF Pending, GatewaysOf
<1> DEFINE sent == <<<<reporting, "ready">>>>
<1>3. reporting \in Gateways /\ Send(sent)
  BY DEF SendStatus, TypeOK
<1>4. sent \in Seq(StatusUpdates) /\ Len(sent) = 1 /\ sent[1] = <<reporting, "ready">>
  BY <1>3 DEF StatusUpdates
<1> HIDE DEF sent
<1>5. SameGateways
  <2>1. \A g : IsTold(g) => IsTold(g)'
    BY <1>1, <1>3, <1>4, ToldSend
  <2> QED BY <1>1, <2>1 DEF SameGateways, Accepted, GatewaysOf
<1>6. GatewayRight' /\ OthersTold'
  BY <1>2, <1>5, RightKept DEF GatewayInv
<1>7. \A g : WillBeScheduled(g) => WillBeScheduled(g)'
  <2>1. \A g : \A i \in 1..Len(sent) : sent[i] # <<g, "notscheduled">>
    BY <1>4
  <2> QED BY <1>1, <1>3, <1>4, <2>1, ScheduledSend
<1>8. ASSUME NEW g, g = reporting PROVE WillBeScheduled(g)'
  <2> DEFINE n == Len(updates) + 1
  <2>1. 1 \in 1..Len(sent) /\ Len(updates) \in Nat
    BY <1>4 DEF TypeOK
  <2>2. updates'[n] = <<g, "ready">> /\ n \in 1..Len(updates') /\ Len(updates') = n
    BY <1>3, <1>4, <1>8, <2>1, SendFacts
  <2>3. \A k \in 1..Len(updates') : ~(k > n)
    BY <2>1, <2>2
  <2> QED BY <2>2, <2>3 DEF WillBeScheduled
<1>9. ChosenReported'
  <2>1. ChosenReported
    BY <1>2 DEF GatewayInv
  <2> QED BY <1>1, <1>5, <1>7, <1>8, <2>1 DEF ChosenReported, SameGateways
<1> QED BY <1>6, <1>9 DEF GatewayInv

(* Accepting or rejecting a class makes the controller reconcile its         *)
(* Gateways; if it has none there is none in the DAG either.                 *)
LEMMA GatewayInvApplyClass ==
  ASSUME TypeOK, OneInv, GatewayInv, ApplyUpdate, updates[1][1] \in Classes
  PROVE  GatewayInv'
<1> SUFFICES ASSUME ~Pending' PROVE GatewayInv'
  BY DEF GatewayInv
<1> DEFINE x == updates[1][1]
           cond == updates[1][2]
<1>1. UNCHANGED <<gateways, gwEvents, gwQueue, dagGateway, dirty, reporting>>
  BY ApplyToClass, ApplyFacts
<1>2. /\ Existing(classes') = Existing(classes)
      /\ \A c \in Existing(classes) : /\ c = x => classes'[c].conds = {cond}
                                      /\ c # x => classes'[c] = classes[c]
  BY ApplyKeeps
<1>3. \A c \in Classes : classes[c] # Absent => classes'[c] # Absent
  BY <1>2, ExistingFacts DEF Existing
<1>4. \A c : GatewaysOf(c)' = GatewaysOf(c)
  BY <1>1 DEF GatewaysOf
<1>5. ~Pending
  <2>1. mapEvents \subseteq mapEvents'
    BY ApplyToClass
  <2>2. \A e \in gwEvents : e[2] \in Classes
    BY DEF TypeOK
  <2>3. mapEvents \subseteq Classes
    BY DEF TypeOK
  <2> QED BY <1>1, <1>3, <1>4, <2>1, <2>2, <2>3 DEF Pending
<1>6. GatewayRight /\ OthersTold
  BY <1>5 DEF GatewayInv
<1>7. 1 \in 1..Len(updates) /\ updates[1] = <<x, cond>> /\ cond \in {"accepted", "rejected"}
  BY ApplyFacts, UpdatePair, UpdateFacts, ControllersAssumption
<1>8. \A g \in Existing(gateways) : g # x
  BY ExistingFacts, ControllersAssumption
<1>9. \A g \in Existing(gateways) : IsTold(g) => IsTold(g)'
  BY <1>7, <1>8, ToldApplied
<1>10. ASSUME UNCHANGED <<classes, classQueue>> PROVE GatewayInv'
  <2>1. SameGateways
    BY <1>1, <1>4, <1>9, <1>10, GatewaysOfFacts DEF SameGateways, Accepted
  <2>2. \A c \in Accepted : \A g \in GatewaysOf(c) : WillBeScheduled(g) => WillBeScheduled(g)'
    BY GatewaysOfFacts, ScheduledApplied
  <2> QED BY <1>1, <1>5, <1>10, <2>1, <2>2, ReportedKept
<1>11. ASSUME x \in Existing(classes), classQueue' = classQueue \union {x}, mapEvents' = mapEvents \union {x}
       PROVE  GatewayInv'
  <2>1. GatewaysOf(x) = {}
    <3>1. classes'[x] # Absent /\ x \in mapEvents'
      BY <1>2, <1>11 DEF Existing
    <3> QED BY <1>4, <3>1 DEF Pending
  <2>2. x \in Accepted => dagGateway = Absent
    BY <1>6, <2>1 DEF OneInv, OneAccepted, GatewayRight, ChosenOf
  <2>3. Accepted' \subseteq Accepted \union {x} /\ Accepted \subseteq Accepted' \union {x}
    BY <1>2 DEF Accepted
  <2>4. \A c : ChosenOf(c)' = ChosenOf(c)
    BY <1>1, <1>4 DEF ChosenOf
  <2> HIDE DEF x
  <2>5. GatewayRight'
    <3>1. CASE cond = "accepted"
      <4>1. x \in Accepted'
        BY <1>2, <1>11, <3>1 DEF Accepted
      <4>2. \A d \in Accepted : d = x
        <5> SUFFICES ASSUME NEW d \in Accepted, d # x PROVE FALSE
          OBVIOUS
        <5>1. NotAcceptedAt(1, d)
          BY <1>7, <3>1, GatewaysOfFacts DEF OneInv, RejectedFirst, x
        <5> QED BY <5>1 DEF NotAcceptedAt, Accepted
      <4>3. dagGateway = Absent
        BY <1>6, <2>2, <4>2 DEF GatewayRight
      <4> QED BY <1>1, <2>1, <2>4, <4>1, <4>3 DEF GatewayRight, ChosenOf
    <3>2. CASE cond = "rejected"
      <4>1. x \notin Accepted'
        BY <1>2, <3>2 DEF Accepted
      <4>2. CASE x \in Accepted
        <5>1. Accepted = {x}
          BY <4>2 DEF OneInv, OneAccepted
        <5>2. Accepted' = {}
          BY <2>3, <4>1, <5>1
        <5> QED BY <1>1, <2>2, <4>2, <5>2 DEF GatewayRight
      <4>3. CASE x \notin Accepted
        <5>1. Accepted' = Accepted
          BY <2>3, <4>1, <4>3
        <5> QED BY <1>1, <1>6, <2>4, <5>1 DEF GatewayRight
      <4> QED BY <4>2, <4>3
    <3> QED BY <1>7, <3>1, <3>2
  <2>6. OthersTold'
    <3> SUFFICES ASSUME NEW c \in Accepted', NEW g \in GatewaysOf(c), g # dagGateway PROVE IsTold(g)'
      BY <1>1, <1>4 DEF OthersTold
    <3>1. c \in Accepted
      BY <2>1, <2>3
    <3>2. g \in Existing(gateways) /\ IsTold(g)
      BY <1>6, <3>1 DEF OthersTold, GatewaysOf
    <3> QED BY <1>9, <3>2
  <2>7. ChosenReported'
    BY <1>11 DEF ChosenReported
  <2> QED BY <2>5, <2>6, <2>7 DEF GatewayInv
<1> QED BY <1>10, <1>11, ApplyToClass

(* A condition of a Gateway of the accepted class that changes is an event. *)
LEMMA GatewayInvApplyGateway ==
  ASSUME TypeOK, GatewayInv, ApplyUpdate, updates[1][1] \in Gateways
  PROVE  GatewayInv'
<1> SUFFICES ASSUME ~Pending' PROVE GatewayInv'
  BY DEF GatewayInv
<1> DEFINE x == updates[1][1]
           new == Mutate(gateways[x].conds, updates[1][2])
<1>1. UNCHANGED <<classes, classQueue, mapEvents, gwQueue, dagGateway, dirty, reporting>>
  BY ApplyToGateway, ApplyFacts
<1>2. /\ Existing(gateways') = Existing(gateways)
      /\ \A g \in Existing(gateways) :
           gateways'[g].stamp = gateways[g].stamp /\ gateways'[g].class = gateways[g].class
  BY ApplyKeeps
<1>3. Accepted' = Accepted /\ \A c : GatewaysOf(c)' = GatewaysOf(c)
  BY <1>1, <1>2 DEF Accepted, GatewaysOf
<1>4. gwEvents \subseteq gwEvents'
  BY ApplyToGateway
<1>5. ~Pending
  BY <1>1, <1>3, <1>4 DEF Pending
<1>6. ASSUME NEW c \in Accepted, x \in GatewaysOf(c) PROVE gateways[x].conds = new
  <2>1. x \in Existing(gateways) /\ gateways[x].class = c /\ classes[c] # Absent
    BY <1>6 DEF GatewaysOf, Accepted, Existing
  <2>2. <<x, c>> \notin gwEvents'
    <3>1. \A e \in gwEvents' : classes[e[2]] = Absent
      BY <1>1 DEF Pending
    <3> QED BY <2>1, <3>1
  <2> QED BY <2>1, <2>2, ApplyToGateway
<1>7. SameGateways
  <2>1. ASSUME NEW c \in Accepted, NEW g \in GatewaysOf(c), IsTold(g) PROVE IsTold(g)'
    <3>1. g \in Existing(gateways)
      BY GatewaysOfFacts
    <3>2. updates[1] = <<g, "ready">> => gateways[g].conds = {"ready"}
      BY <1>6 DEF Mutate
    <3> QED BY <2>1, <3>1, <3>2, ToldApplied
  <2>2. \A c \in Accepted : \A g \in GatewaysOf(c) : gateways'[g].stamp = gateways[g].stamp
    BY <1>2, GatewaysOfFacts
  <2> QED BY <1>1, <1>3, <2>1, <2>2 DEF SameGateways
<1>8. \A c \in Accepted : \A g \in GatewaysOf(c) : WillBeScheduled(g) => WillBeScheduled(g)'
  BY GatewaysOfFacts, ScheduledApplied
<1> QED BY <1>1, <1>5, <1>7, <1>8, ReportedKept

LEMMA NextGatewayInv ==
  ASSUME Patient
  PROVE  TypeOK /\ Stamped /\ ClassInv /\ OneInv /\ GatewayInv /\ [Next]_vars => GatewayInv'
<1> SUFFICES ASSUME TypeOK, Stamped, ClassInv, OneInv, GatewayInv, [Next]_vars PROVE GatewayInv'
  OBVIOUS
<1>1. ASSUME NEW c \in Classes, CreateClass(c) \/ DeleteClass(c) PROVE GatewayInv'
  BY <1>1, GatewayInvClasses
<1>2. ASSUME NEW g \in Gateways, DeleteGateway(g) \/ \E c \in Classes : CreateGateway(g, c) PROVE GatewayInv'
  BY <1>2, GatewayInvObjects
<1>3. CASE \/ \E c \in Classes : MapGatewayClassToGateways(c)
           \/ \E e \in gwEvents : WatchGateway(e)
           \/ UNCHANGED vars
  BY <1>3, GatewayInvWatches
<1>4. ASSUME NEW c \in Classes, ReconcileClass(c) PROVE GatewayInv'
  BY <1>4, GatewayInvReconcileClass
<1>5. ASSUME NEW g \in Gateways, ReconcileGateway(g) PROVE GatewayInv'
  BY <1>5, GatewayInvReconcileGateway
<1>6. CASE RebuildDAG
  BY <1>6, GatewayInvRebuild
<1>7. CASE SendStatus
  BY <1>7, GatewayInvSendStatus
<1>8. CASE ApplyUpdate
  <2>1. 1 \in 1..Len(updates)
    BY <1>8, ApplyFacts
  <2> QED BY <1>8, <2>1, UpdateFacts, GatewayInvApplyClass, GatewayInvApplyGateway
<1> QED BY <1>1, <1>2, <1>3, <1>4, <1>5, <1>6, <1>7, <1>8 DEF Next, Program

(* QuietIsRight, for any classes and Gateways, any capacity of the channel   *)
(* and any number of creations and deletions, if who deletes a class has     *)
(* waited for the deletion of its Gateways: the oldest class is accepted,    *)
(* the DAG has its oldest Gateway, and the others, and only they, say that   *)
(* they are not scheduled.                                                   *)
THEOREM QuietIsRightAlways == ASSUME Patient PROVE Spec => []QuietIsRight
<1>1. Init => OneInv /\ GatewayInv
  <2> SUFFICES ASSUME Init PROVE OneInv /\ GatewayInv
    OBVIOUS
  <2>1. Accepted = {} /\ Len(updates) = 0
    BY DEF Init, Accepted, Existing
  <2>2. OneInv
    BY <2>1 DEF OneInv, OneAccepted, RejectedFirst, NoneForAbsent
  <2>3. GatewayInv
    BY <2>1 DEF GatewayInv, GatewayRight, OthersTold, ChosenReported, Init
  <2> QED BY <2>2, <2>3
<1>2. Spec => [](ClassInv /\ OneInv /\ GatewayInv)
  <2>1. Init => ClassInv
    BY DEF Init, ClassInv, Existing
  <2>2. TypeOK /\ Stamped /\ OneInv /\ [Next]_vars => OneInv'
    BY NextOneInv
  <2>3. TypeOK /\ Stamped /\ ClassInv /\ OneInv /\ GatewayInv /\ [Next]_vars => GatewayInv'
    BY NextGatewayInv
  <2> QED BY <1>1, <2>1, <2>2, <2>3, SpecType, NextClassInv, PTL DEF Spec
<1>3. TypeOK /\ OneInv /\ GatewayInv => OldestGatewayInDAG /\ OthersNotScheduled
  <2> SUFFICES ASSUME TypeOK, OneInv, GatewayInv, Quiet PROVE OldestGatewayInDAG /\ OthersNotScheduled
    BY DEF OldestGatewayInDAG, OthersNotScheduled
  <2>1. Len(updates) = 0 /\ ~dirty /\ reporting = Absent /\ classQueue = {}
    BY DEF Quiet
  <2>2. GatewayRight /\ OthersTold /\ ChosenReported
    BY DEF Quiet, Pending, GatewayInv
  <2>3. OldestGatewayInDAG
    BY <2>2 DEF OldestGatewayInDAG, GatewayRight, ChosenOf
  <2>4. ASSUME NEW c \in Accepted, NEW g \in GatewaysOf(c)
        PROVE  ("notscheduled" \in gateways[g].conds) = (g # dagGateway)
    <3>1. g # Absent
      BY GatewaysOfFacts, ControllersAssumption
    <3>2. g # dagGateway => "notscheduled" \in gateways[g].conds
      BY <2>1, <2>2 DEF OthersTold, IsTold
    <3>3. g = dagGateway => "notscheduled" \notin gateways[g].conds
      BY <2>1, <2>2, <3>1 DEF ChosenReported, WillBeScheduled
    <3> QED BY <3>2, <3>3
  <2> QED BY <2>3, <2>4 DEF OthersNotScheduled
<1> QED BY <1>2, <1>3, OneClassAcceptedAlways, SpecType, PTL DEF QuietIsRight

=============================================================================
