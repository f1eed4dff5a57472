------------------------------- MODULE Loops --------------------------------
(***************************************************************************)
(* Loops and recursion, for proofs. The processors go through lists in      *)
(* loops, which the modules write as folds, and follow includes by          *)
(* recursion, which they write as recursive functions. Here is what both    *)
(* can be relied on for, whatever Step, what one pass or one call does, and *)
(* Inv, what is to be shown of the result. A module of proofs instantiates  *)
(* this module for each of its loops; p, q, r and s are what a pass depends *)
(* on besides the result so far and the element. As all that is defined     *)
(* here comes with each instance, a loop is written out, as the definition  *)
(* of FoldLeft has it.                                                      *)
(***************************************************************************)
EXTENDS Integers, Sequences, WellFoundedInduction, TLAPS

CONSTANTS
  Step(_, _, _, _, _, _),
  Inv(_, _, _, _, _)

(* A set of natural numbers that is not empty has a least element: what the *)
(* inductions below, over the passes of a loop and the depth of calls, rest *)
(* on.                                                                      *)
LEMMA LeastNat ==
  ASSUME NEW T, T \subseteq Nat, T # {}
  PROVE  \E x \in T : \A y \in T : x <= y
<1> DEFINE R == OpToRel(<, Nat)
<1>1. \E x \in T : \A y \in T : ~(<<y, x>> \in R)
  <2> HIDE DEF R
  <2>1. IsWellFoundedOn(R, Nat)
    BY NatLessThanWellFounded DEF R
  <2> QED BY <2>1, WFMin
<1>2. \A x, y \in Nat : <<y, x>> \in R <=> y < x
  BY DEF OpToRel
<1> HIDE DEF R
<1>3. \A x, y \in Nat : ~(y < x) => x <= y
  OBVIOUS
<1> QED BY <1>1, <1>2, <1>3

(* Induction over the natural numbers, for sets: over the number of passes  *)
(* a loop has done.                                                         *)
LEMMA SetInduction ==
  ASSUME NEW T, 0 \in T, \A n \in Nat : n \in T => n + 1 \in T
  PROVE  Nat \subseteq T
<1> SUFFICES ASSUME Nat \ T # {} PROVE FALSE
  OBVIOUS
<1> DEFINE U == Nat \ T
<1>1. PICK m \in U : \A y \in U : m <= y
  <2>1. U \subseteq Nat /\ U # {}
    OBVIOUS
  <2> HIDE DEF U
  <2> QED BY <2>1, LeastNat
<1>2. m # 0 /\ m - 1 \in Nat /\ m - 1 \notin U
  BY <1>1
<1> QED BY <1>1, <1>2

(* Induction over lists: what holds for the empty list and, if it holds for *)
(* a list, holds for it with one element more, holds for all lists.         *)
LEMMA ListInduction ==
  ASSUME NEW A, NEW T, <<>> \in T, \A seq \in Seq(A) : \A x \in A : seq \in T => Append(seq, x) \in T
  PROVE  Seq(A) \subseteq T
<1> DEFINE U == {n \in Nat : \A seq \in Seq(A) : Len(seq) = n => seq \in T}
<1>1. 0 \in U
  <2>1. \A seq \in Seq(A) : Len(seq) = 0 => seq = <<>>
    OBVIOUS
  <2> QED BY <2>1
<1>2. ASSUME NEW n \in Nat, n \in U PROVE n + 1 \in U
  <2>1. ASSUME NEW seq \in Seq(A), Len(seq) = n + 1 PROVE seq \in T
    <3> DEFINE front == SubSeq(seq, 1, n)
               x == seq[n + 1]
    <3>1. front \in Seq(A) /\ Len(front) = n /\ x \in A
      BY <2>1
    <3>2. seq = Append(front, x)
      BY <2>1
    <3>3. front \in T
      BY <1>2, <3>1
    <3> HIDE DEF front, x
    <3> QED BY <3>1, <3>2, <3>3
  <2> QED BY <2>1
<1>3. Nat \subseteq U
  <2> HIDE DEF U
  <2> QED BY <1>1, <1>2, SetInduction
<1>4. \A seq \in Seq(A) : Len(seq) \in Nat
  OBVIOUS
<1> QED BY <1>3, <1>4

(* Induction over the size: what holds for a call if it holds for the calls *)
(* of smaller size, as those a visit to a proxy makes, holds for all.       *)
LEMMA SizeInduction ==
  ASSUME NEW V, NEW size \in [V -> Nat], NEW T,
         \A v \in V : (\A w \in V : size[w] < size[v] => w \in T) => v \in T
  PROVE  V \subseteq T
<1> SUFFICES ASSUME V \ T # {} PROVE FALSE
  OBVIOUS
<1> DEFINE U == {size[v] : v \in V \ T}
<1>1. PICK m \in U : \A y \in U : m <= y
  <2>1. U \subseteq Nat /\ U # {}
    OBVIOUS
  <2> HIDE DEF U
  <2> QED BY <2>1, LeastNat
<1>2. PICK v \in V \ T : size[v] = m
  BY <1>1
<1>3. \A w \in V : size[w] < size[v] => w \in T
  <2> SUFFICES ASSUME NEW w \in V, w \notin T, size[w] < size[v] PROVE FALSE
    OBVIOUS
  <2>1. size[w] \in U
    OBVIOUS
  <2>2. m <= size[w] /\ m \in Nat /\ size[w] \in Nat
    BY <1>1, <2>1
  <2> QED BY <2>2, <1>2
<1> QED BY <1>2, <1>3

-----------------------------------------------------------------------------
(* Loops: the pass for the last of the positions D comes after those for    *)
(* the others.                                                              *)
Last(D) == CHOOSE x \in D : \A y \in D : x >= y

Loop(p, q, r, s, base, seq) ==
  LET iter[D \in SUBSET DOMAIN seq] ==
        IF D = {} THEN base ELSE LET x == Last(D) IN Step(p, q, r, s, iter[D \ {x}], seq[x])
  IN  iter[DOMAIN seq]

(* A set of positions in a list that is not empty has a last one.           *)
LEMMA LastFacts ==
  ASSUME NEW n \in Nat, NEW D, D \subseteq 1..n, D # {}
  PROVE  Last(D) \in D /\ \A y \in D : y <= Last(D)
<1> DEFINE T == {k \in Nat : \A y \in D : y <= k}
<1>1. PICK m \in T : \A k \in T : m <= k
  <2>1. n \in T /\ T \subseteq Nat
    OBVIOUS
  <2> HIDE DEF T
  <2> QED BY <2>1, LeastNat
<1>2. m # 0
  <2>1. PICK y \in D : y \in 1..n
    OBVIOUS
  <2> QED BY <1>1, <2>1
<1>3. m - 1 \notin T
  BY <1>1, <1>2
<1>4. PICK y \in D : ~(y <= m - 1)
  BY <1>1, <1>2, <1>3
<1>5. y = m /\ \A z \in D : y >= z
  BY <1>1, <1>4
<1> QED BY <1>5 DEF Last

(* How far a loop has come after the passes for the positions D: up to the  *)
(* last of them. What is done before the pass for the last is less far.     *)
Far(seq) == [D \in SUBSET DOMAIN seq |-> IF D = {} THEN 0 ELSE Last(D)]

LEMMA FarFacts ==
  ASSUME NEW A, NEW seq \in Seq(A)
  PROVE  /\ Far(seq) \in [SUBSET DOMAIN seq -> Nat]
         /\ \A D \in SUBSET DOMAIN seq :
              /\ D # {} => /\ Last(D) \in DOMAIN seq /\ D \ {Last(D)} \in SUBSET DOMAIN seq
                           /\ Far(seq)[D \ {Last(D)}] < Far(seq)[D]
              /\ Far(seq)[D] <= Len(seq)
              /\ Far(seq)[D] <= 0 => D = {}
<1> DEFINE n == Len(seq)
<1>1. DOMAIN seq = 1..n /\ n \in Nat
  OBVIOUS
<1> HIDE DEF n
<1>2. \A D \in SUBSET DOMAIN seq : D # {} => Last(D) \in D /\ Last(D) \in 1..n /\ \A y \in D : y <= Last(D)
  BY <1>1, LastFacts
<1>3. \A D \in SUBSET DOMAIN seq : Far(seq)[D] = IF D = {} THEN 0 ELSE Last(D)
  BY DEF Far
<1>4. Far(seq) \in [SUBSET DOMAIN seq -> Nat]
  BY <1>2 DEF Far
<1>5. ASSUME NEW D \in SUBSET DOMAIN seq, D # {}
      PROVE  Last(D) \in DOMAIN seq /\ D \ {Last(D)} \in SUBSET DOMAIN seq /\ Far(seq)[D \ {Last(D)}] < Far(seq)[D]
  <2> DEFINE E == D \ {Last(D)}
  <2>1. Far(seq)[D] = Last(D) /\ Last(D) \in 1..n
    BY <1>2, <1>3, <1>5
  <2>2. E \in SUBSET DOMAIN seq /\ (E # {} => Last(E) \in D /\ Last(E) # Last(D))
    <3>1. E \in SUBSET DOMAIN seq
      OBVIOUS
    <3>2. E # {} => Last(E) \in E
      BY <1>2, <3>1
    <3> QED BY <3>1, <3>2
  <2>3. E # {} => Last(E) <= Last(D) /\ Last(E) \in 1..n
    BY <1>2, <1>5, <2>2
  <2>4. Far(seq)[E] = IF E = {} THEN 0 ELSE Last(E)
    BY <1>3, <2>2
  <2> HIDE DEF E
  <2>5. Far(seq)[E] < Far(seq)[D]
    BY <2>1, <2>2, <2>3, <2>4
  <2> QED BY <1>1, <2>1, <2>2, <2>5 DEF E
<1>6. \A D \in SUBSET DOMAIN seq : Far(seq)[D] <= n /\ (Far(seq)[D] <= 0 => D = {})
  BY <1>1, <1>2, <1>3
<1> QED BY <1>4, <1>5, <1>6 DEF n

(* Induction over the passes: what holds before the first one and, if it    *)
(* holds before a pass, holds after it, holds after all of them.            *)
LEMMA PassesInduction ==
  ASSUME NEW A, NEW seq \in Seq(A), NEW T,
         {} \in T,
         \A D \in SUBSET DOMAIN seq :
           (D # {} /\ Last(D) \in DOMAIN seq /\ D \ {Last(D)} \in T) => D \in T
  PROVE  SUBSET DOMAIN seq \subseteq T
<1> DEFINE V == SUBSET DOMAIN seq
           far == Far(seq)
<1>1. far \in [V -> Nat]
  BY FarFacts
<1>2. ASSUME NEW D \in V, \A E \in V : far[E] < far[D] => E \in T PROVE D \in T
  <2>1. CASE D = {}
    BY <2>1
  <2>2. CASE D # {}
    <3>1. Last(D) \in DOMAIN seq /\ D \ {Last(D)} \in T
      BY <1>2, <2>2, FarFacts
    <3> QED BY <2>2, <3>1
  <2> QED BY <2>1, <2>2
<1> HIDE DEF V, far
<1>3. V \subseteq T
  BY <1>1, <1>2, SizeInduction
<1> QED BY <1>3 DEF V

(* The values of a loop after the passes for the positions in D. *)
Iterates(p, q, r, s, base, seq, iter) ==
  /\ Loop(p, q, r, s, base, seq) = iter[DOMAIN seq]
  /\ \A D \in SUBSET DOMAIN seq :
       iter[D] = IF D = {} THEN base ELSE Step(p, q, r, s, iter[D \ {Last(D)}], seq[Last(D)])

(* A loop has such values: the recursive function in the definition of      *)
(* Loop exists.                                                             *)
LEMMA LoopIter ==
  ASSUME NEW p, NEW q, NEW r, NEW s, NEW base, NEW A, NEW seq \in Seq(A)
  PROVE  \E iter : Iterates(p, q, r, s, base, seq, iter)
<1> DEFINE S == DOMAIN seq
           far == Far(seq)
           Body(g, D) == IF D = {} THEN base ELSE Step(p, q, r, s, g[D \ {Last(D)}], seq[Last(D)])
           Solves(g) == g = [D \in SUBSET S |-> Body(g, D)]
           Upto(n) == {D \in SUBSET S : far[D] <= n}
           Solved(n) == \E g : \A D \in Upto(n) : g[D] = Body(g, D)
           Good == {n \in Nat : Solved(n)}
<1>1. Len(seq) \in Nat
  OBVIOUS
<1>2. \A D \in SUBSET S : far[D] \in Nat /\ far[D] <= Len(seq) /\ (far[D] <= 0 => D = {})
  BY FarFacts
<1>4. \A D \in SUBSET S : D # {} => D \ {Last(D)} \in SUBSET S /\ far[D \ {Last(D)}] < far[D]
  BY FarFacts
<1> HIDE DEF S, far
<1>5. 0 \in Good
  <2> DEFINE g == [D \in SUBSET S |-> base]
  <2>1. \A D \in Upto(0) : D = {}
    BY <1>2
  <2>2. \A D \in Upto(0) : g[D] = Body(g, D)
    BY <2>1
  <2> QED BY <2>2
<1>6. ASSUME NEW n \in Nat, n \in Good PROVE n + 1 \in Good
  <2>1. PICK g : \A D \in Upto(n) : g[D] = Body(g, D)
    BY <1>6
  <2> DEFINE h == [D \in SUBSET S |-> IF far[D] <= n THEN g[D] ELSE Body(g, D)]
  <2>2. ASSUME NEW D \in Upto(n + 1) PROVE h[D] = Body(h, D)
    <3>1. CASE D = {}
      BY <1>2, <2>1, <3>1
    <3>2. CASE D # {}
      <4>1. D \ {Last(D)} \in SUBSET S /\ far[D \ {Last(D)}] < far[D] /\ far[D] \in Nat /\ far[D \ {Last(D)}] \in Nat
        BY <1>2, <1>4, <3>2
      <4>2. far[D \ {Last(D)}] <= n
        BY <2>2, <4>1
      <4>3. h[D \ {Last(D)}] = g[D \ {Last(D)}]
        BY <4>1, <4>2
      <4>4. h[D] = Body(g, D)
        BY <2>1, <2>2
      <4> QED BY <3>2, <4>3, <4>4
    <3> QED BY <3>1, <3>2
  <2>3. Solved(n + 1)
    <3> HIDE DEF h, Body, Upto
    <3> QED BY <2>2
  <2> HIDE DEF Solved
  <2> QED BY <2>3
<1>7. Len(seq) \in Good
  <2>1. Nat \subseteq Good
    <3> HIDE DEF Good
    <3> QED BY <1>5, <1>6, SetInduction
  <2> HIDE DEF Good
  <2> QED BY <2>1, <1>1
<1>8. PICK g : \A D \in SUBSET S : g[D] = Body(g, D)
  <2>1. \A D \in SUBSET S : D \in Upto(Len(seq))
    BY <1>2
  <2> QED BY <1>7, <2>1
<1> DEFINE f == [D \in SUBSET S |-> g[D]]
<1>9. Solves(f)
  <2>1. ASSUME NEW D \in SUBSET S PROVE f[D] = Body(f, D)
    BY <1>4, <1>8
  <2> QED BY <2>1
<1> DEFINE iter == CHOOSE i : Solves(i)
<1>10. Solves(iter)
  <2> HIDE DEF Solves, f
  <2> QED BY <1>9
<1>11. \A D \in SUBSET S : iter[D] = Body(iter, D)
  <2> HIDE DEF iter, Body
  <2> QED BY <1>10
<1>12. Loop(p, q, r, s, base, seq) = iter[S]
  BY DEF Loop, S
<1> HIDE DEF iter
<1>13. Iterates(p, q, r, s, base, seq, iter)
  BY <1>11, <1>12 DEF S, Iterates
<1> QED BY <1>13

(* What holds before a loop of a processor, and is kept by each of its      *)
(* passes, holds after it.                                                  *)
THEOREM LoopKeeps ==
  ASSUME NEW p, NEW q, NEW r, NEW s, NEW base, NEW A, NEW seq \in Seq(A),
         Inv(p, q, r, s, base),
         \A acc : \A i \in DOMAIN seq : Inv(p, q, r, s, acc) => Inv(p, q, r, s, Step(p, q, r, s, acc, seq[i]))
  PROVE  Inv(p, q, r, s, Loop(p, q, r, s, base, seq))
<1> DEFINE S == DOMAIN seq
<1>1. PICK iter : Iterates(p, q, r, s, base, seq, iter)
  BY LoopIter
<1> DEFINE T == {D \in SUBSET S : Inv(p, q, r, s, iter[D])}
<1>2. {} \in T
  BY <1>1 DEF Iterates
<1>3. SUBSET S \subseteq T
  <2>1. ASSUME NEW D \in SUBSET S, D # {}, Last(D) \in S, D \ {Last(D)} \in T PROVE D \in T
    <3>1. iter[D] = Step(p, q, r, s, iter[D \ {Last(D)}], seq[Last(D)])
      BY <1>1, <2>1 DEF Iterates
    <3> QED BY <2>1, <3>1
  <2> HIDE DEF T
  <2> QED BY <1>2, <2>1, PassesInduction
<1>4. Loop(p, q, r, s, base, seq) = iter[S]
  BY <1>1 DEF Iterates
<1> QED BY <1>3, <1>4

(* What the pass for one of the elements brings about, and the passes do    *)
(* not undo, holds after the loop.                                          *)
THEOREM LoopReaches ==
  ASSUME NEW p, NEW q, NEW r, NEW s, NEW t, NEW base, NEW A, NEW seq \in Seq(A), NEW k \in DOMAIN seq,
         Inv(p, q, r, s, base),
         \A acc : \A i \in DOMAIN seq : Inv(p, q, r, s, acc) => Inv(p, q, r, s, Step(p, q, r, s, acc, seq[i])),
         \A acc : Inv(p, q, r, s, acc) => Inv(p, q, r, t, Step(p, q, r, s, acc, seq[k])),
         \A acc : \A i \in DOMAIN seq : Inv(p, q, r, t, acc) => Inv(p, q, r, t, Step(p, q, r, s, acc, seq[i]))
  PROVE  Inv(p, q, r, t, Loop(p, q, r, s, base, seq))
<1> DEFINE S == DOMAIN seq
<1>1. PICK iter : Iterates(p, q, r, s, base, seq, iter)
  BY LoopIter
<1> DEFINE T == {D \in SUBSET S : Inv(p, q, r, s, iter[D]) /\ (k \in D => Inv(p, q, r, t, iter[D]))}
<1>2. {} \in T
  BY <1>1 DEF Iterates
<1>3. SUBSET S \subseteq T
  <2>1. ASSUME NEW D \in SUBSET S, D # {}, Last(D) \in S, D \ {Last(D)} \in T PROVE D \in T
    <3> DEFINE x == Last(D)
               E == D \ {x}
    <3>1. iter[D] = Step(p, q, r, s, iter[E], seq[x])
      BY <1>1, <2>1 DEF Iterates
    <3>2. x \in S /\ E \in T /\ (k \in D => k = x \/ k \in E)
      BY <2>1
    <3> HIDE DEF x, E
    <3>3. Inv(p, q, r, s, iter[D])
      BY <3>1, <3>2
    <3>4. k \in D => Inv(p, q, r, t, iter[D])
      BY <3>1, <3>2
    <3> QED BY <3>3, <3>4
  <2> HIDE DEF T
  <2> QED BY <1>2, <2>1, PassesInduction
<1>4. Loop(p, q, r, s, base, seq) = iter[S]
  BY <1>1 DEF Iterates
<1> QED BY <1>3, <1>4

(* Two loops whose passes do the same have the same result. *)
LEMMA LoopSame ==
  ASSUME NEW p, NEW q, NEW r, NEW s, NEW p2, NEW q2, NEW r2, NEW s2, NEW base, NEW A, NEW seq \in Seq(A),
         \A acc : \A i \in DOMAIN seq : Step(p, q, r, s, acc, seq[i]) = Step(p2, q2, r2, s2, acc, seq[i])
  PROVE  Loop(p, q, r, s, base, seq) = Loop(p2, q2, r2, s2, base, seq)
<1> DEFINE S == DOMAIN seq
<1>1. PICK f : Iterates(p, q, r, s, base, seq, f)
  BY LoopIter
<1>2. PICK g : Iterates(p2, q2, r2, s2, base, seq, g)
  BY LoopIter
<1> DEFINE T == {D \in SUBSET S : f[D] = g[D]}
<1>3. {} \in T
  BY <1>1, <1>2 DEF Iterates
<1>4. SUBSET S \subseteq T
  <2>1. ASSUME NEW D \in SUBSET S, D # {}, Last(D) \in S, D \ {Last(D)} \in T PROVE D \in T
    <3>1. /\ f[D] = Step(p, q, r, s, f[D \ {Last(D)}], seq[Last(D)])
          /\ g[D] = Step(p2, q2, r2, s2, g[D \ {Last(D)}], seq[Last(D)])
      BY <1>1, <1>2, <2>1 DEF Iterates
    <3> QED BY <2>1, <3>1
  <2> HIDE DEF T
  <2> QED BY <1>3, <2>1, PassesInduction
<1>5. Loop(p, q, r, s, base, seq) = f[S] /\ Loop(p2, q2, r2, s2, base, seq) = g[S]
  BY <1>1, <1>2 DEF Iterates
<1> QED BY <1>4, <1>5

(* A loop over nothing does nothing. *)
LEMMA LoopEmpty ==
  ASSUME NEW p, NEW q, NEW r, NEW s, NEW base
  PROVE  Loop(p, q, r, s, base, <<>>) = base
<1> DEFINE none == <<>>
<1>1. none \in Seq({}) /\ DOMAIN none = {}
  OBVIOUS
<1> HIDE DEF none
<1>2. PICK iter : Iterates(p, q, r, s, base, none, iter)
  BY <1>1, LoopIter
<1>3. Loop(p, q, r, s, base, none) = base
  BY <1>1, <1>2 DEF Iterates
<1> QED BY <1>3 DEF none

(* A loop over one element more does one pass more: the last one. *)
LEMMA LoopAppend ==
  ASSUME NEW p, NEW q, NEW r, NEW s, NEW base, NEW A, NEW seq \in Seq(A), NEW x \in A
  PROVE  Loop(p, q, r, s, base, Append(seq, x)) = Step(p, q, r, s, Loop(p, q, r, s, base, seq), x)
<1> DEFINE S == DOMAIN seq
           n == Len(seq)
           more == Append(seq, x)
           All == DOMAIN more
<1>1. n \in Nat /\ S = 1..n /\ more \in Seq(A) /\ All = 1..(n + 1) /\ more[n + 1] = x /\ \A i \in S : more[i] = seq[i]
  OBVIOUS
<1> HIDE DEF more, n
<1>2. PICK f : Iterates(p, q, r, s, base, seq, f)
  BY LoopIter
<1>3. PICK g : Iterates(p, q, r, s, base, more, g)
  BY <1>1, LoopIter
<1> DEFINE T == {D \in SUBSET S : f[D] = g[D]}
<1>4. {} \in T
  BY <1>2, <1>3 DEF Iterates
<1>5. SUBSET S \subseteq T
  <2>1. ASSUME NEW D \in SUBSET S, D # {}, Last(D) \in S, D \ {Last(D)} \in T PROVE D \in T
    <3>1. D \in SUBSET All
      BY <1>1
    <3>2. f[D] = Step(p, q, r, s, f[D \ {Last(D)}], seq[Last(D)]) /\ g[D] = Step(p, q, r, s, g[D \ {Last(D)}], more[Last(D)])
      BY <1>2, <1>3, <2>1, <3>1 DEF Iterates
    <3> QED BY <1>1, <2>1, <3>2
  <2> HIDE DEF T
  <2> QED BY <1>4, <2>1, PassesInduction
<1>6. Last(All) = n + 1 /\ All \ {n + 1} = S /\ All # {}
  <2>1. All # {} /\ n + 1 \in Nat
    BY <1>1
  <2>2. Last(All) \in All /\ \A y \in All : y <= Last(All)
    BY <1>1, <2>1, LastFacts
  <2> QED BY <1>1, <2>1, <2>2
<1>7. g[All] = Step(p, q, r, s, g[S], x)
  BY <1>1, <1>3, <1>6 DEF Iterates
<1>8. Loop(p, q, r, s, base, seq) = f[S] /\ Loop(p, q, r, s, base, more) = g[All]
  BY <1>2, <1>3 DEF Iterates
<1> QED BY <1>5, <1>7, <1>8 DEF more

-----------------------------------------------------------------------------
(* Recursion: the values of a function may be defined by others of its      *)
(* values, if these are for arguments of smaller size.                      *)
Recursive(p, q, r, s, V) == CHOOSE f : f = [v \in V |-> Step(p, q, r, s, f, v)]

(* If no call needs the result of one that is not smaller, as no visit to a *)
(* proxy does because of the check for include cycles, the recursive        *)
(* function satisfies its equation.                                         *)
THEOREM RecursionSolves ==
  ASSUME NEW p, NEW q, NEW r, NEW s, NEW V, NEW n \in Nat, NEW size \in [V -> 0..n],
         \A g, h : \A v \in V :
           (\A w \in V : size[w] < size[v] => g[w] = h[w]) => Step(p, q, r, s, g, v) = Step(p, q, r, s, h, v)
  PROVE  Recursive(p, q, r, s, V) = [v \in V |-> Step(p, q, r, s, Recursive(p, q, r, s, V), v)]
<1> DEFINE Solves(g) == g = [v \in V |-> Step(p, q, r, s, g, v)]
           Upto(m) == {v \in V : size[v] <= m}
           Solved(m) == \E g : \A v \in Upto(m) : g[v] = Step(p, q, r, s, g, v)
           Good == {m \in Nat : Solved(m)}
<1>1. 0 \in Good
  <2> DEFINE z == [v \in V |-> p]
             g == [v \in V |-> Step(p, q, r, s, z, v)]
  <2>1. ASSUME NEW v \in Upto(0) PROVE g[v] = Step(p, q, r, s, g, v)
    <3>1. \A w \in V : size[w] < size[v] => g[w] = z[w]
      OBVIOUS
    <3>2. g[v] = Step(p, q, r, s, z, v)
      OBVIOUS
    <3> HIDE DEF g, z
    <3> QED BY <3>1, <3>2
  <2>2. Solved(0)
    <3> HIDE DEF g, Upto
    <3> QED BY <2>1
  <2> QED BY <2>2
<1>2. ASSUME NEW m \in Nat, m \in Good PROVE m + 1 \in Good
  <2>1. PICK g : \A v \in Upto(m) : g[v] = Step(p, q, r, s, g, v)
    BY <1>2
  <2> DEFINE h == [v \in V |-> Step(p, q, r, s, g, v)]
  <2>2. \A v \in Upto(m) : h[v] = g[v]
    BY <2>1
  <2>3. ASSUME NEW v \in Upto(m + 1) PROVE h[v] = Step(p, q, r, s, h, v)
    <3>1. \A w \in V : size[w] < size[v] => w \in Upto(m)
      OBVIOUS
    <3>2. \A w \in V : size[w] < size[v] => g[w] = h[w]
      BY <2>2, <3>1
    <3>3. h[v] = Step(p, q, r, s, g, v) /\ v \in V
      OBVIOUS
    <3> HIDE DEF h
    <3> QED BY <3>2, <3>3
  <2>4. Solved(m + 1)
    <3> HIDE DEF h, Upto
    <3> QED BY <2>3
  <2> HIDE DEF Solved
  <2> QED BY <2>4
<1>3. Solved(n)
  <2>1. Nat \subseteq Good
    <3> HIDE DEF Good
    <3> QED BY <1>1, <1>2, SetInduction
  <2> QED BY <2>1
<1>4. PICK g : \A v \in V : g[v] = Step(p, q, r, s, g, v)
  <2>1. V \subseteq Upto(n)
    OBVIOUS
  <2> QED BY <1>3, <2>1
<1> DEFINE f == [v \in V |-> g[v]]
<1>5. Solves(f)
  <2>1. ASSUME NEW v \in V PROVE f[v] = Step(p, q, r, s, f, v)
    <3>1. \A w \in V : g[w] = f[w]
      OBVIOUS
    <3>2. Step(p, q, r, s, g, v) = Step(p, q, r, s, f, v)
      <4> HIDE DEF f
      <4> QED BY <3>1
    <3> QED BY <1>4, <3>2
  <2>2. f = [v \in V |-> f[v]]
    OBVIOUS
  <2> HIDE DEF f
  <2> QED BY <2>1, <2>2
<1>6. Recursive(p, q, r, s, V) = CHOOSE h : Solves(h)
  BY DEF Recursive
<1>7. Solves(Recursive(p, q, r, s, V))
  <2> HIDE DEF Solves, f
  <2> QED BY <1>5, <1>6
<1> QED BY <1>7
=============================================================================
