---------------------------- MODULE NumberProofs ----------------------------
(***************************************************************************)
(* What the other proofs need of numbers: least and greatest elements,     *)
(* induction over an interval, for a set of numbers, and functions that    *)
(* are defined by recursion over an interval.                              *)
(***************************************************************************)
EXTENDS Integers, TLAPS, WellFoundedInduction

\* Every set of natural numbers has a least element.
LEMMA Least ==
  ASSUME NEW S \in SUBSET Nat, S # {}
  PROVE  \E a \in S : \A b \in S : a <= b
<1>1. PICK R : R = OpToRel(<, Nat)
  OBVIOUS
<1>2. IsWellFoundedOn(R, Nat)
  BY <1>1, NatLessThanWellFounded
<1>3. PICK a \in S : \A b \in S : ~ (<<b, a>> \in R)
  BY <1>2, WFMin
<1>4. \A b \in S : <<b, a>> \in R <=> b < a
  BY <1>1 DEF OpToRel
<1>5. \A b \in S : ~(b < a)
  BY <1>3, <1>4, Zenon
<1>6. \A b \in S : b \in Nat /\ a \in Nat
  OBVIOUS
<1> QED
  BY <1>5, <1>6

\* And, if it is bounded, a greatest.
LEMMA Greatest ==
  ASSUME NEW n \in Nat, NEW S \in SUBSET (0..n), S # {}
  PROVE  \E a \in S : \A b \in S : b <= a
<1>1. PICK T : T = {n - x : x \in S}
  OBVIOUS
<1>2. T \in SUBSET Nat /\ T # {}
  <2>1. PICK x : x \in S
    OBVIOUS
  <2>2. n - x \in T
    BY <1>1, <2>1
  <2> QED
    BY <1>1, <2>2
<1>3. PICK t \in T : \A u \in T : t <= u
  BY <1>2, Least
<1>4. PICK a \in S : t = n - a
  BY <1>1
<1>5. ASSUME NEW b \in S PROVE b <= a
  <2>1. n - b \in T
    BY <1>1
  <2>2. t <= n - b
    BY <1>3, <2>1
  <2> QED
    BY <1>4, <2>2
<1> QED
  BY <1>5

\* What holds at the start of an interval and goes on from each number to the next holds
\* in all of it.
LEMMA IntervalInduction ==
  ASSUME NEW m \in Nat, NEW n \in Nat, NEW P, m \in P,
         \A i \in (m + 1)..n : i - 1 \in P => i \in P
  PROVE  m..n \subseteq P
<1> SUFFICES ASSUME (m..n) \ P # {} PROVE FALSE
  OBVIOUS
<1>1. PICK bad : bad = (m..n) \ P
  OBVIOUS
<1>2. bad \in SUBSET Nat /\ bad # {}
  BY <1>1
<1>3. PICK i : i \in bad /\ \A j \in bad : i <= j
  BY <1>2, Least
<1>4. i \in (m + 1)..n /\ i - 1 \in m..n /\ ~(i <= i - 1)
  BY <1>1, <1>3
<1>5. i - 1 \in P
  BY <1>1, <1>3, <1>4
<1> QED
  BY <1>1, <1>3, <1>4, <1>5

\* The function f on m..n starts with c and goes on in the steps of the function F.
Recursive(f, m, n, V, c, F) ==
  f \in [m..n -> V] /\ f[m] = c /\ \A i \in (m + 1)..n : f[i] = F[<<i, f[i - 1]>>]

\* There is such a function.
LEMMA RecursionExists ==
  ASSUME NEW m \in Nat, NEW n \in Nat, m <= n, NEW V, NEW c \in V, NEW F \in [(m..n) \X V -> V]
  PROVE  \E f : Recursive(f, m, n, V, c, F)
<1> DEFINE Upto(l, f) == /\ f \in [m..l -> V] /\ f[m] = c
                         /\ \A i \in (m + 1)..l : f[i] = F[<<i, f[i - 1]>>]
           P == {l \in m..n : \E f : Upto(l, f)}
<1>1. m \in P
  <2>1. Upto(m, [i \in m..m |-> c])
    OBVIOUS
  <2>2. m \in m..n
    OBVIOUS
  <2> HIDE DEF Upto
  <2> QED
    BY <2>1, <2>2
<1>2. ASSUME NEW l \in (m + 1)..n, l - 1 \in P PROVE l \in P
  <2>1. PICK f : Upto(l - 1, f)
    BY <1>2
  <2>2. PICK v : v = F[<<l, f[l - 1]>>]
    OBVIOUS
  <2>3. PICK g : g = [i \in m..l |-> IF i = l THEN v ELSE f[i]]
    OBVIOUS
  <2>4. /\ l \in Nat /\ l - 1 \in m..(l - 1) /\ l \in m..n
        /\ \A i \in m..l : i # l => i \in m..(l - 1)
        /\ m # l /\ m \in m..(l - 1) /\ m \in m..l /\ l \in m..l
    OBVIOUS
  <2>5. v \in V
    <3>1. f[l - 1] \in V
      BY <2>1, <2>4
    <3>2. <<l, f[l - 1]>> \in (m..n) \X V
      BY <2>4, <3>1
    <3> QED
      BY <2>2, <3>2
  <2>6. \A i \in m..l : i # l => f[i] \in V
    BY <2>1, <2>4
  <2>7. g \in [m..l -> V] /\ g[m] = c
    BY <2>1, <2>3, <2>4, <2>5, <2>6
  <2>8. ASSUME NEW i \in (m + 1)..l PROVE g[i] = F[<<i, g[i - 1]>>]
    <3>1. i \in m..l /\ i - 1 \in m..l /\ i - 1 # l
      BY <2>4
    <3>2. g[i - 1] = f[i - 1]
      BY <2>3, <3>1
    <3>3. CASE i = l
      BY <2>2, <2>3, <3>1, <3>2, <3>3
    <3>4. CASE i # l
      <4>1. i \in (m + 1)..(l - 1)
        BY <2>4, <3>4
      <4> QED
        BY <2>1, <2>3, <3>1, <3>2, <3>4, <4>1
    <3> QED
      BY <3>3, <3>4
  <2>9. Upto(l, g)
    BY <2>7, <2>8
  <2> HIDE DEF Upto
  <2> QED
    BY <2>4, <2>9
<1>3. n \in P
  <2> HIDE DEF P
  <2>1. m..n \subseteq P
    BY <1>1, <1>2, IntervalInduction
  <2> QED
    BY <2>1
<1> QED
  BY <1>3 DEF Recursive
=============================================================================
