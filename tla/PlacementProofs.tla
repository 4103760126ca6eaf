-------------------------- MODULE PlacementProofs --------------------------
(***************************************************************************)
(* What the queue operations of Pcb do to the set of the pcbs on a queue,  *)
(* that every function of the kernel keeps the types of the process table  *)
(* and of the queues, and that no pcb is ever lost or on two queues:       *)
(* PlacedOnce, and NeverCorrupt as long as no process receives from any    *)
(* process, for tables of every size and every workload.                   *)
(***************************************************************************)
EXTENDS Kernel, TLAPS, FiniteSetTheorems, SequenceTheorems

-----------------------------------------------------------------------------
(***************************************************************************)
(* Queues                                                                  *)
(***************************************************************************)

\* The positions of a finite set of positions can be counted off: there is a
\* j-th one for every j up to their number, and each of them is one of those.
LEMMA NthProperties ==
  ASSUME NEW n \in Nat, NEW I \in SUBSET (0..n)
  PROVE  /\ IsFiniteSet(I)
         /\ Cardinality(I) \in Nat
         /\ \A j \in 1..Cardinality(I) : Nth(I, j) \in I
         /\ \A j \in 1..Cardinality(I) : Cardinality({m \in I : m <= Nth(I, j)}) = j
         /\ \A j, l \in 1..Cardinality(I) : Nth(I, j) = Nth(I, l) => j = l
         /\ \A i \in I : \E j \in 1..Cardinality(I) : i = Nth(I, j)
<1> DEFINE Upto(i) == {m \in I : m <= i}
           rank == [i \in I |-> Cardinality(Upto(i))]
           C == Cardinality(I)
<1>1. IsFiniteSet(I) /\ C \in Nat
  <2>1. IsFiniteSet(0..n)
    BY FS_Interval
  <2>2. IsFiniteSet(I)
    BY <2>1, FS_Subset
  <2> QED
    BY <2>2, FS_CardinalityType
<1>2. ASSUME NEW i \in I
      PROVE  IsFiniteSet(Upto(i)) /\ rank[i] \in 1..C
  <2>1. Upto(i) \in SUBSET I
    OBVIOUS
  <2>2. IsFiniteSet(Upto(i)) /\ Cardinality(Upto(i)) <= C /\ Cardinality(Upto(i)) \in Nat
    BY <1>1, <2>1, FS_Subset, FS_CardinalityType
  <2>3. i \in Upto(i)
    OBVIOUS
  <2>4. Cardinality(Upto(i)) # 0
    BY <2>2, <2>3, FS_EmptySet
  <2> QED
    BY <1>1, <2>2, <2>4
<1>3. ASSUME NEW i \in I, NEW k \in I, i < k
      PROVE  rank[i] # rank[k]
  <2>1. Upto(i) \in SUBSET Upto(k)
    <3>1. ASSUME NEW m \in Upto(i) PROVE m \in Upto(k)
      <4>1. m \in Int /\ i \in Int /\ k \in Int /\ m <= i
        OBVIOUS
      <4>2. m <= k
        BY <1>3, <4>1
      <4> QED
        BY <4>2
    <3> QED
      BY <3>1
  <2>2. k \in Upto(k) /\ k \notin Upto(i)
    BY <1>3
  <2> QED
    BY <1>2, <2>1, <2>2, FS_Subset
<1>4. ASSUME NEW i \in I, NEW k \in I, i # k
      PROVE  rank[i] # rank[k]
  BY <1>3, <1>4
<1>5. ASSUME NEW j \in 1..C
      PROVE  \E i \in I : rank[i] = j
  <2> SUFFICES ASSUME \A i \in I : rank[i] # j
               PROVE  FALSE
    OBVIOUS
  <2>1. rank \in [I -> (1..C) \ {j}]
    BY <1>2
  <2>2. IsFiniteSet(1..C) /\ Cardinality(1..C) = C
    BY <1>1, FS_Interval
  <2>3. /\ IsFiniteSet((1..C) \ {j})
        /\ Cardinality((1..C) \ {j}) = C - 1
    BY <2>2, FS_RemoveElement, ZenonT(40)
  <2> DEFINE others == (1..C) \ {j}
  <2>4. \E x, y \in I : x # y /\ rank[x] = rank[y]
    <3>1. rank \in [I -> others] /\ IsFiniteSet(others) /\ IsFiniteSet(I)
      BY <1>1, <2>1, <2>3
    <3>2. Cardinality(others) < Cardinality(I)
      BY <1>1, <2>3
    <3> HIDE DEF rank, others
    <3> QED
      BY <3>1, <3>2, FS_PigeonHole
  <2> QED
    BY <1>4, <2>4
<1>6. ASSUME NEW j \in 1..C
      PROVE  Nth(I, j) \in I /\ rank[Nth(I, j)] = j
  <2>1. \E i \in I : Cardinality(Upto(i)) = j
    BY <1>5
  <2> QED
    BY <2>1 DEF Nth
<1>7. ASSUME NEW i \in I
      PROVE  i = Nth(I, rank[i])
  BY <1>2, <1>4, <1>6
<1> QED
  BY <1>1, <1>2, <1>6, <1>7

\* A set of positions that is not empty has a least and a greatest element.
LEMMA LeastAndGreatest ==
  ASSUME NEW n \in Nat, NEW I \in SUBSET (0..n), I # {}
  PROVE  /\ \E i \in I : \A m \in I : i <= m
         /\ \E i \in I : \A m \in I : m <= i
<1> DEFINE C == Cardinality(I)
           Upto(i) == {m \in I : m <= i}
<1>1. /\ IsFiniteSet(I)
      /\ C \in Nat
      /\ \A j \in 1..C : Nth(I, j) \in I /\ Cardinality(Upto(Nth(I, j))) = j
  BY NthProperties
<1>2. C # 0
  BY <1>1, FS_EmptySet
<1>3. 1 \in 1..C /\ C \in 1..C
  BY <1>1, <1>2
<1>4. \A i : Upto(i) \in SUBSET I /\ IsFiniteSet(Upto(i))
  <2>1. \A i : Upto(i) \in SUBSET I
    OBVIOUS
  <2> QED
    BY <1>1, <2>1, FS_Subset
<1>5. \E i \in I : \A m \in I : i <= m
  <2> DEFINE a == Nth(I, 1)
  <2>1. a \in I /\ Cardinality(Upto(a)) = 1
    BY <1>1, <1>3
  <2> HIDE DEF a
  <2>2. PICK x : Upto(a) = {x}
    BY <1>4, <2>1, FS_Singleton
  <2>3. a \in Upto(a)
    BY <2>1
  <2>4. ASSUME NEW m \in I, ~(a <= m) PROVE FALSE
    <3>1. m <= a /\ m # a
      BY <2>1, <2>4
    <3>2. m \in Upto(a)
      BY <3>1
    <3> QED
      BY <2>2, <2>3, <3>1, <3>2
  <2> QED
    BY <2>1, <2>4
<1>6. \E i \in I : \A m \in I : m <= i
  <2> DEFINE b == Nth(I, C)
  <2>1. b \in I /\ Cardinality(Upto(b)) = C
    BY <1>1, <1>3
  <2> HIDE DEF b
  <2>2. Upto(b) = I
    <3> DEFINE U == Upto(b)
    <3>1. U \in SUBSET I /\ Cardinality(U) = Cardinality(I)
      BY <1>4, <2>1
    <3> HIDE DEF U
    <3>2. U = I
      BY <1>1, <3>1, FS_Subset
    <3> QED
      BY <3>2 DEF U
  <2> QED
    BY <2>1, <2>2
<1> QED
  BY <1>5, <1>6

\* Induction over the positions of a queue, for a set of positions.
LEMMA PositionInduction ==
  ASSUME NEW n \in Nat, NEW P, 0 \in P,
         \A i \in 1..n : i - 1 \in P => i \in P
  PROVE  0..n \subseteq P
<1> DEFINE bad == (0..n) \ P
<1> SUFFICES ASSUME bad # {} PROVE FALSE
  OBVIOUS
<1>1. PICK i \in bad : \A m \in bad : i <= m
  BY LeastAndGreatest
<1>2. i \in 1..n /\ i - 1 \in 0..n /\ ~(i <= i - 1)
  OBVIOUS
<1>3. i - 1 \in P
  BY <1>1, <1>2
<1> QED
  BY <1>2, <1>3

\* A queue is a function from its positions, and its pcbs are its values.
LEMMA ElemsProperties ==
  ASSUME NEW S, NEW q \in Seq(S)
  PROVE  /\ Len(q) \in Nat
         /\ DOMAIN q = 1..Len(q)
         /\ \A i \in 1..Len(q) : q[i] \in S
         /\ Elems(q) \subseteq S
         /\ \A x : x \in Elems(q) <=> \E i \in 1..Len(q) : q[i] = x
<1>1. Len(q) \in Nat /\ DOMAIN q = 1..Len(q) /\ \A i \in 1..Len(q) : q[i] \in S
  BY LenProperties
<1> QED
  BY <1>1 DEF Elems

\* Keep returns the entries that are in T, each once if the queue has each once.
LEMMA KeepProperties ==
  ASSUME NEW S, NEW q \in Seq(S), NEW T
  PROVE  /\ Keep(q, T) \in Seq(S)
         /\ Elems(Keep(q, T)) = Elems(q) \cap T
         /\ NoRepeats(q) => NoRepeats(Keep(q, T))
<1> DEFINE I == Positions(q, T)
           C == Cardinality(I)
           r == Keep(q, T)
<1>1. Len(q) \in Nat /\ DOMAIN q = 1..Len(q) /\ \A i \in 1..Len(q) : q[i] \in S
  BY ElemsProperties
<1>2. I \in SUBSET (0..Len(q)) /\ I \subseteq 1..Len(q) /\ \A i \in 1..Len(q) : i \in I <=> q[i] \in T
  BY <1>1 DEF Positions
<1>3. /\ C \in Nat
      /\ \A j \in 1..C : Nth(I, j) \in I
      /\ \A j, l \in 1..C : Nth(I, j) = Nth(I, l) => j = l
      /\ \A i \in I : \E j \in 1..C : i = Nth(I, j)
  BY <1>1, <1>2, NthProperties, ZenonT(40)
<1> HIDE DEF I
<1>4. r = [j \in 1..C |-> q[Nth(I, j)]]
  BY DEF Keep, I
<1>5. \A j \in 1..C : r[j] = q[Nth(I, j)] /\ r[j] \in S
  BY <1>1, <1>2, <1>3, <1>4
<1>6. r \in Seq(S) /\ DOMAIN r = 1..C
  <2>1. r \in [1..C -> S]
    BY <1>4, <1>5
  <2> QED
    BY <1>3, <1>4, <2>1, SeqDef
<1>7. Elems(r) = Elems(q) \cap T
  <2>1. ASSUME NEW x \in Elems(r) PROVE x \in Elems(q) \cap T
    <3> HIDE DEF r
    <3>1. PICK j \in 1..C : r[j] = x
      BY <1>6 DEF Elems
    <3>2. Nth(I, j) \in 1..Len(q) /\ Nth(I, j) \in I /\ q[Nth(I, j)] = x
      BY <1>2, <1>3, <1>5, <3>1
    <3> QED
      BY <1>1, <1>2, <3>2 DEF Elems
  <2>2. ASSUME NEW x \in Elems(q) \cap T PROVE x \in Elems(r)
    <3>1. PICK i \in 1..Len(q) : q[i] = x
      BY <1>1 DEF Elems
    <3>2. i \in I
      BY <1>2, <3>1
    <3>3. PICK j \in 1..C : i = Nth(I, j)
      BY <1>3, <3>2
    <3> QED
      BY <1>5, <1>6, <3>1, <3>3 DEF Elems
  <2> QED
    BY <2>1, <2>2
<1>8. ASSUME NoRepeats(q) PROVE NoRepeats(r)
  <2> HIDE DEF r
  <2>1. ASSUME NEW j \in 1..C, NEW l \in 1..C, r[j] = r[l]
        PROVE  j = l
    <3>1. Nth(I, j) \in 1..Len(q) /\ Nth(I, l) \in 1..Len(q)
      BY <1>2, <1>3
    <3>2. Nth(I, j) = Nth(I, l)
      BY <1>1, <1>5, <1>8, <2>1, <3>1 DEF NoRepeats
    <3> QED
      BY <1>3, <3>2
  <2> QED
    BY <1>6, <2>1 DEF NoRepeats
<1> QED
  BY <1>6, <1>7, <1>8 DEF r

\* Taking an entry off a queue leaves all others on it.
LEMMA RemoveProperties ==
  ASSUME NEW S, NEW q \in Seq(S), NEW p
  PROVE  /\ pcb_remove(q, p) \in Seq(S)
         /\ Elems(pcb_remove(q, p)) = Elems(q) \ {p}
         /\ NoRepeats(q) => NoRepeats(pcb_remove(q, p))
<1>1. Elems(q) \cap (Elems(q) \ {p}) = Elems(q) \ {p}
  OBVIOUS
<1> QED
  BY <1>1, KeepProperties DEF pcb_remove

\* Two queues one behind the other.
LEMMA JoinProperties ==
  ASSUME NEW S, NEW q \in Seq(S), NEW r \in Seq(S)
  PROVE  /\ q \o r \in Seq(S)
         /\ Elems(q \o r) = Elems(q) \cup Elems(r)
         /\ NoRepeats(q) /\ NoRepeats(r) /\ Elems(q) \cap Elems(r) = {}
              => NoRepeats(q \o r)
<1> DEFINE t == q \o r
           m == Len(q)
           n == Len(r)
<1>1. /\ m \in Nat /\ DOMAIN q = 1..m
      /\ n \in Nat /\ DOMAIN r = 1..n
      /\ \A x : x \in Elems(q) <=> \E i \in 1..m : q[i] = x
      /\ \A x : x \in Elems(r) <=> \E i \in 1..n : r[i] = x
  BY ElemsProperties
<1>2. /\ t \in Seq(S)
      /\ Len(t) = m + n
      /\ \A i \in 1..(m + n) : t[i] = IF i <= m THEN q[i] ELSE r[i - m]
  BY ConcatProperties
<1>3. DOMAIN t = 1..(m + n) /\ \A x : x \in Elems(t) <=> \E i \in 1..(m + n) : t[i] = x
  BY <1>2, ElemsProperties
<1> HIDE DEF t, m, n
<1>4. Elems(t) = Elems(q) \cup Elems(r)
  <2>1. ASSUME NEW x \in Elems(t) PROVE x \in Elems(q) \cup Elems(r)
    <3>1. PICK i \in 1..(m + n) : t[i] = x
      BY <1>3
    <3>2. CASE i <= m
      BY <1>1, <1>2, <3>1, <3>2
    <3>3. CASE ~(i <= m)
      <4>1. i - m \in 1..n /\ r[i - m] = x
        BY <1>1, <1>2, <3>1, <3>3
      <4> QED
        BY <1>1, <4>1
    <3> QED
      BY <3>2, <3>3
  <2>2. ASSUME NEW x \in Elems(q) PROVE x \in Elems(t)
    <3>1. PICK i \in 1..m : q[i] = x
      BY <1>1
    <3>2. i \in 1..(m + n) /\ t[i] = x
      BY <1>1, <1>2, <3>1
    <3> QED
      BY <1>3, <3>2
  <2>3. ASSUME NEW x \in Elems(r) PROVE x \in Elems(t)
    <3>1. PICK i \in 1..n : r[i] = x
      BY <1>1
    <3>2. m + i \in 1..(m + n) /\ ~(m + i <= m) /\ (m + i) - m = i
      BY <1>1
    <3>3. t[m + i] = x
      BY <1>2, <3>1, <3>2
    <3> QED
      BY <1>3, <3>2, <3>3
  <2> QED
    BY <2>1, <2>2, <2>3
<1>5. ASSUME NoRepeats(q), NoRepeats(r), Elems(q) \cap Elems(r) = {}
      PROVE  NoRepeats(t)
  <2>1. ASSUME NEW i \in 1..(m + n), NEW j \in 1..(m + n), t[i] = t[j], i <= j
        PROVE  i = j
    <3>1. CASE j <= m
      <4>1. i \in 1..m /\ j \in 1..m /\ q[i] = q[j]
        BY <1>1, <1>2, <2>1, <3>1
      <4> QED
        BY <1>1, <1>5, <4>1 DEF NoRepeats
    <3>2. CASE ~(i <= m)
      <4>1. i - m \in 1..n /\ j - m \in 1..n /\ r[i - m] = r[j - m]
        BY <1>1, <1>2, <2>1, <3>2
      <4>2. i - m = j - m
        BY <1>1, <1>5, <4>1 DEF NoRepeats
      <4> QED
        BY <1>1, <4>2
    <3>3. CASE i <= m /\ ~(j <= m)
      <4>1. i \in 1..m /\ j - m \in 1..n /\ q[i] = r[j - m]
        BY <1>1, <1>2, <2>1, <3>3
      <4>2. q[i] \in Elems(q) /\ q[i] \in Elems(r)
        BY <1>1, <4>1
      <4> QED
        BY <1>5, <4>2
    <3> QED
      BY <1>1, <2>1, <3>1, <3>2, <3>3
  <2>2. ASSUME NEW i \in 1..(m + n), NEW j \in 1..(m + n), t[i] = t[j]
        PROVE  i = j
    <3>1. i <= j \/ j <= i
      BY <1>1
    <3> QED
      BY <2>1, <2>2, <3>1
  <2> QED
    BY <1>3, <2>2 DEF NoRepeats
<1> QED
  BY <1>2, <1>4, <1>5 DEF t

\* A new entry at the end of a queue.
LEMMA AppendEntry ==
  ASSUME NEW S, NEW q \in Seq(S), NEW p \in S
  PROVE  /\ Append(q, p) \in Seq(S)
         /\ Elems(Append(q, p)) = Elems(q) \cup {p}
         /\ NoRepeats(q) /\ p \notin Elems(q) => NoRepeats(Append(q, p))
<1>1. <<p>> \in Seq(S) /\ Len(<<p>>) = 1 /\ <<p>>[1] = p /\ DOMAIN <<p>> = 1..1
  OBVIOUS
<1>2. Elems(<<p>>) = {p}
  BY <1>1 DEF Elems
<1>3. NoRepeats(<<p>>)
  BY <1>1 DEF NoRepeats
<1>4. Append(q, p) = q \o <<p>>
  BY AppendIsConcat
<1> DEFINE r == <<p>>
<1>5. Append(q, p) = q \o r /\ r \in Seq(S) /\ Elems(r) = {p} /\ NoRepeats(r)
  BY <1>1, <1>2, <1>3, <1>4
<1> HIDE DEF r
<1>6. /\ q \o r \in Seq(S)
      /\ Elems(q \o r) = Elems(q) \cup Elems(r)
      /\ NoRepeats(q) /\ NoRepeats(r) /\ Elems(q) \cap Elems(r) = {} => NoRepeats(q \o r)
  BY <1>5, JoinProperties
<1> QED
  BY <1>5, <1>6

\* A part of a queue.
LEMMA PartProperties ==
  ASSUME NEW S, NEW q \in Seq(S), NEW a \in 1..(Len(q) + 1), NEW b \in 0..Len(q)
  PROVE  /\ SubSeq(q, a, b) \in Seq(S)
         /\ \A x : x \in Elems(SubSeq(q, a, b)) <=> \E i \in a..b : q[i] = x
         /\ NoRepeats(q) => NoRepeats(SubSeq(q, a, b))
<1> DEFINE r == SubSeq(q, a, b)
           n == IF a <= b THEN b - a + 1 ELSE 0
<1>1. Len(q) \in Nat /\ DOMAIN q = 1..Len(q) /\ \A i \in 1..Len(q) : q[i] \in S
  BY ElemsProperties
<1>2. a \in Int /\ b \in Int /\ \A i \in a..b : i \in 1..Len(q) /\ q[i] \in S
  BY <1>1
<1>3. r \in Seq(S) /\ Len(r) = n /\ \A i \in 1..(b - a + 1) : r[i] = q[a + i - 1]
  BY <1>2, SubSeqProperties
<1>4. DOMAIN r = 1..n /\ \A x : x \in Elems(r) <=> \E i \in 1..n : r[i] = x
  BY <1>3, ElemsProperties
<1>5. /\ n \in Nat
      /\ \A i \in 1..n : /\ i \in 1..(b - a + 1)
                          /\ a + i - 1 \in a..b
                          /\ a + i - 1 \in 1..Len(q)
      /\ \A i \in a..b : i - a + 1 \in 1..n /\ a + (i - a + 1) - 1 = i
  BY <1>1, <1>2
<1> HIDE DEF r, n
<1>6. ASSUME NEW x PROVE x \in Elems(r) <=> \E i \in a..b : q[i] = x
  <2>1. ASSUME x \in Elems(r) PROVE \E i \in a..b : q[i] = x
    BY <1>3, <1>4, <1>5, <2>1
  <2>2. ASSUME NEW i \in a..b, q[i] = x PROVE x \in Elems(r)
    <3>1. i - a + 1 \in 1..n /\ r[i - a + 1] = q[i]
      BY <1>3, <1>5
    <3> QED
      BY <1>4, <2>2, <3>1
  <2> QED
    BY <2>1, <2>2
<1>7. ASSUME NoRepeats(q) PROVE NoRepeats(r)
  <2>1. ASSUME NEW i \in 1..n, NEW j \in 1..n, r[i] = r[j] PROVE i = j
    <3>1. q[a + i - 1] = q[a + j - 1]
      BY <1>3, <1>5, <2>1
    <3>2. a + i - 1 = a + j - 1
      BY <1>1, <1>5, <1>7, <3>1 DEF NoRepeats
    <3> QED
      BY <1>2, <1>5, <3>2
  <2> QED
    BY <1>4, <2>1 DEF NoRepeats
<1> QED
  BY <1>3, <1>6, <1>7 DEF r

\* Polling a queue takes its first entry off it.
LEMMA PollProperties ==
  ASSUME NEW S, NEW q \in Seq(S), q # << >>
  PROVE  /\ Head(q) \in S
         /\ Head(q) \in Elems(q)
         /\ Tail(q) \in Seq(S)
         /\ Elems(q) = {Head(q)} \cup Elems(Tail(q))
         /\ NoRepeats(q) => NoRepeats(Tail(q)) /\ Head(q) \notin Elems(Tail(q))
<1>1. /\ Len(q) \in Nat \ {0}
      /\ DOMAIN q = 1..Len(q)
      /\ \A i \in 1..Len(q) : q[i] \in S
      /\ \A x : x \in Elems(q) <=> \E i \in 1..Len(q) : q[i] = x
  BY ElemsProperties, EmptySeq
<1>2. Head(q) = q[1] /\ 1 \in 1..Len(q)
  BY <1>1
<1>3. Tail(q) = SubSeq(q, 2, Len(q)) /\ 2 \in 1..(Len(q) + 1) /\ Len(q) \in 0..Len(q)
  BY <1>1, TailIsSubSeq
<1>4. /\ Tail(q) \in Seq(S)
      /\ \A x : x \in Elems(Tail(q)) <=> \E i \in 2..Len(q) : q[i] = x
      /\ NoRepeats(q) => NoRepeats(Tail(q))
  <2> DEFINE r == SubSeq(q, 2, Len(q))
  <2>1. /\ r \in Seq(S)
        /\ \A x : x \in Elems(r) <=> \E i \in 2..Len(q) : q[i] = x
        /\ NoRepeats(q) => NoRepeats(r)
    BY <1>3, PartProperties
  <2>2. Tail(q) = r
    BY <1>3
  <2> HIDE DEF r
  <2> QED
    BY <2>1, <2>2
<1>5. \A i \in 1..Len(q) : i = 1 \/ i \in 2..Len(q)
  BY <1>1
<1>6. \A i \in 2..Len(q) : i \in 1..Len(q) /\ i # 1
  BY <1>1
<1>7. Elems(q) = {Head(q)} \cup Elems(Tail(q))
  BY <1>1, <1>2, <1>4, <1>5, <1>6
<1>8. NoRepeats(q) => Head(q) \notin Elems(Tail(q))
  BY <1>1, <1>2, <1>4, <1>6 DEF NoRepeats
<1> QED
  BY <1>1, <1>2, <1>4, <1>7, <1>8

\* The queue without entries.
LEMMA EmptyQueue ==
  ASSUME NEW S
  PROVE  /\ << >> \in Seq(S) /\ Elems(<< >>) = {} /\ NoRepeats(<< >>)
         /\ \A q \in Seq(S) : Elems(q) = {} <=> q = << >>
<1>1. << >> \in Seq(S) /\ DOMAIN << >> = {} 
  OBVIOUS
<1>2. ASSUME NEW q \in Seq(S), q # << >> PROVE Elems(q) # {}
  BY <1>2, PollProperties
<1>3. Elems(<< >>) = {} /\ NoRepeats(<< >>)
  BY <1>1 DEF Elems, NoRepeats
<1> QED
  BY <1>1, <1>2, <1>3

\* A new entry in the middle of a queue, as the sleep queue has it.
LEMMA InsertProperties ==
  ASSUME NEW S, NEW q \in Seq(S), NEW n \in 0..Len(q), NEW p \in S, NEW r,
         r = [i \in 1..(Len(q) + 1) |->
                IF i <= n THEN q[i] ELSE IF i = n + 1 THEN p ELSE q[i - 1]]
  PROVE  /\ r \in Seq(S)
         /\ Elems(r) = Elems(q) \cup {p}
         /\ NoRepeats(q) /\ p \notin Elems(q) => NoRepeats(r)
<1> DEFINE m == Len(q)
<1>1. /\ m \in Nat /\ n \in Nat /\ n <= m
      /\ DOMAIN q = 1..m
      /\ \A i \in 1..m : q[i] \in S
      /\ \A x : x \in Elems(q) <=> \E i \in 1..m : q[i] = x
  BY ElemsProperties
<1>2. \A i \in 1..(m + 1) :
        /\ i <= n => i \in 1..m /\ r[i] = q[i]
        /\ i = n + 1 => r[i] = p
        /\ ~(i <= n) /\ i # n + 1 => i - 1 \in 1..m /\ r[i] = q[i - 1]
  BY <1>1
<1>3. DOMAIN r = 1..(m + 1) /\ m + 1 \in Nat
  BY <1>1
<1>4. r \in Seq(S)
  <2>1. \A i \in 1..(m + 1) : r[i] \in S
    BY <1>1, <1>2
  <2>2. r \in [1..(m + 1) -> S]
    BY <2>1
  <2> QED
    BY <1>3, <2>2, SeqDef
<1> HIDE DEF m
<1>5. \A x : x \in Elems(r) <=> \E i \in 1..(m + 1) : r[i] = x
  BY <1>3 DEF Elems
<1>6. Elems(r) = Elems(q) \cup {p}
  <2>1. ASSUME NEW x \in Elems(r) PROVE x \in Elems(q) \cup {p}
    BY <1>1, <1>2, <1>5
  <2>2. p \in Elems(r)
    <3>1. n + 1 \in 1..(m + 1)
      BY <1>1
    <3> QED
      BY <1>2, <1>5, <3>1
  <2>3. ASSUME NEW x \in Elems(q) PROVE x \in Elems(r)
    <3>1. PICK i \in 1..m : q[i] = x
      BY <1>1
    <3>2. CASE i <= n
      <4>1. i \in 1..(m + 1) /\ r[i] = x
        BY <1>1, <1>2, <3>1, <3>2
      <4> QED
        BY <1>5, <4>1
    <3>3. CASE ~(i <= n)
      <4>1. /\ i + 1 \in 1..(m + 1)
            /\ ~(i + 1 <= n) /\ i + 1 # n + 1
            /\ (i + 1) - 1 = i
        BY <1>1, <3>3
      <4>2. r[i + 1] = x
        BY <1>2, <3>1, <4>1
      <4> QED
        BY <1>5, <4>1, <4>2
    <3> QED
      BY <3>2, <3>3
  <2> QED
    BY <2>1, <2>2, <2>3
<1>7. ASSUME NoRepeats(q), p \notin Elems(q) PROVE NoRepeats(r)
  <2> DEFINE old(i) == IF i <= n THEN i ELSE i - 1
  <2>1. ASSUME NEW i \in 1..(m + 1), NEW j \in 1..(m + 1), r[i] = r[j] PROVE i = j
    <3>1. \A a \in 1..(m + 1) : a # n + 1 => old(a) \in 1..m /\ r[a] = q[old(a)]
      BY <1>1, <1>2
    <3>2. \A a \in 1..(m + 1) : a # n + 1 => r[a] # p
      BY <1>1, <1>7, <3>1
    <3>3. CASE i = n + 1 \/ j = n + 1
      BY <1>2, <2>1, <3>2, <3>3
    <3>4. CASE i # n + 1 /\ j # n + 1
      <4>1. old(i) \in 1..m /\ old(j) \in 1..m /\ q[old(i)] = q[old(j)]
        BY <2>1, <3>1, <3>4
      <4> HIDE DEF old
      <4>2. old(i) = old(j)
        BY <1>1, <1>7, <4>1 DEF NoRepeats
      <4> QED
        BY <1>1, <3>4, <4>2 DEF old
    <3> QED
      BY <3>3, <3>4
  <2> QED
    BY <1>3, <2>1, ZenonT(40) DEF NoRepeats
<1> QED
  BY <1>4, <1>6, <1>7

-----------------------------------------------------------------------------
(***************************************************************************)
(* Types                                                                   *)
(***************************************************************************)

\* A pid stays one when its slot is used again.
LEMMA NextPidType ==
  ASSUME NEW pid \in 1..PID_MAX
  PROVE  NextPid(pid) \in 1..PID_MAX
<1>1. PID_MAX \in Nat \ {0} /\ pid + PCB_TABLE_SIZE - 1 \in Int
  BY TableAssumption
<1>2. (pid + PCB_TABLE_SIZE - 1) % PID_MAX \in 0..(PID_MAX - 1)
  BY <1>1
<1> QED
  BY <1>1, <1>2 DEF NextPid

\* The initial table and queues.
LEMMA InitpcbType == initpcb \in KernelStates
<1>1. PCB_TABLE_SIZE \in Nat /\ PID_MAX \in Nat /\ Slots \subseteq 1..PID_MAX
  <2>1. PICK m \in 1..PID_MAX : PID_MAX = m * PCB_TABLE_SIZE
    BY TableAssumption
  <2>2. PCB_TABLE_SIZE <= m * PCB_TABLE_SIZE
    BY TableAssumption
  <2> QED
    BY <2>1, <2>2, TableAssumption DEF Slots
<1>2. [s \in Slots |-> s] \in Seq(Slots)
  <2>1. [s \in Slots |-> s] \in [1..PCB_TABLE_SIZE -> Slots]
    BY DEF Slots
  <2> QED
    BY <1>1, <2>1, SeqDef
<1>3. << >> \in Seq(Slots) /\ << >> \in Seq(Frames)
  OBVIOUS
<1>4. 0 \in 0..PID_MAX
  BY <1>1
<1> QED
  BY <1>1, <1>2, <1>3, <1>4
  DEF initpcb, KernelStates, ProcStates, BlockedStatuses, Handlers, Halts, IDLE

\* Offering a pcb to a queue.
LEMMA AddTypes ==
  ASSUME NEW k \in KernelStates, NEW p \in Slots
  PROVE  /\ add_pcb_to_ready_queue(k, p) \in KernelStates
         /\ add_pcb_to_blocked_queue(k, p) \in KernelStates
         /\ add_pcb_to_stopped_queue(k, p) \in KernelStates
<1>1. /\ Append(k.ready_queue, p) \in Seq(Slots)
      /\ Append(k.blocked_queue, p) \in Seq(Slots)
      /\ Append(k.stopped_queue, p) \in Seq(Slots)
  BY AppendEntry DEF KernelStates
<1>2. [k EXCEPT !.halt = "corrupt"] \in KernelStates
  BY DEF KernelStates, Halts
<1>3. add_pcb_to_ready_queue(k, p) \in KernelStates
  BY <1>1, <1>2 DEF add_pcb_to_ready_queue, Offered, KernelStates, ProcStates, BlockedStatuses
<1>4. add_pcb_to_blocked_queue(k, p) \in KernelStates
  BY <1>1, <1>2 DEF add_pcb_to_blocked_queue, Offered, KernelStates, ProcStates
<1>5. NextPid(k.pid[p]) \in 1..PID_MAX
  BY NextPidType DEF KernelStates
<1>6. add_pcb_to_stopped_queue(k, p) \in KernelStates
  BY <1>1, <1>2, <1>5 DEF add_pcb_to_stopped_queue, Offered, KernelStates, ProcStates
<1> QED
  BY <1>3, <1>4, <1>6

\* Taking a pcb off a queue.
LEMMA RemoveTypes ==
  ASSUME NEW k \in KernelStates, NEW p
  PROVE  /\ remove_pcb_from_ready_queue(k, p) \in KernelStates
         /\ remove_pcb_from_blocked_queue(k, p) \in KernelStates
         /\ remove_pcb_from_sleep_queue(k, p) \in KernelStates
<1>1. /\ pcb_remove(k.ready_queue, p) \in Seq(Slots)
      /\ pcb_remove(k.blocked_queue, p) \in Seq(Slots)
      /\ pcb_remove(k.sleep_queue, p) \in Seq(Slots)
  BY RemoveProperties DEF KernelStates
<1> QED
  BY <1>1 DEF remove_pcb_from_ready_queue, remove_pcb_from_blocked_queue,
              remove_pcb_from_sleep_queue, KernelStates

\* Releasing the processes that wait for a pid.
LEMMA UnblockType ==
  ASSUME NEW k \in KernelStates, NEW id
  PROVE  unblock_pcb_waiting_for_pid(k, id) \in KernelStates
<1> DEFINE hit == {p \in Elems(k.blocked_queue) : k.blocked_id[p] = id}
<1>1. k.blocked_queue \in Seq(Slots) /\ k.ready_queue \in Seq(Slots)
  BY DEF KernelStates
<1>2. Keep(k.blocked_queue, Slots \ hit) \in Seq(Slots)
  BY <1>1, KeepProperties
<1>3. k.ready_queue \o Keep(k.blocked_queue, hit) \in Seq(Slots)
  BY <1>1, KeepProperties, JoinProperties
<1>4. /\ [p \in Slots |-> IF p \in hit THEN 0 ELSE k.blocked_id[p]] \in [Slots -> 0..PID_MAX]
      /\ [p \in Slots |-> IF p \in hit THEN "NONE" ELSE k.blocked_status[p]]
           \in [Slots -> BlockedStatuses]
      /\ [p \in Slots |-> IF p \in hit THEN "READY" ELSE k.state[p]] \in [Slots -> ProcStates]
  BY TableAssumption DEF KernelStates, BlockedStatuses, ProcStates
<1> HIDE DEF hit
<1> QED
  BY <1>2, <1>3, <1>4 DEF unblock_pcb_waiting_for_pid, KernelStates, hit

\* The choice of the next process.
LEMMA GetNextType ==
  ASSUME NEW k \in KernelStates
  PROVE  get_next_pcb(k) \in KernelStates
<1>1. k.ready_queue # << >> => Head(k.ready_queue) \in Slots /\ Tail(k.ready_queue) \in Seq(Slots)
  BY PollProperties DEF KernelStates
<1> QED
  BY <1>1 DEF get_next_pcb, KernelStates, ProcStates

\* The process a pid leads to.
LEMMA PidToPcbType ==
  ASSUME NEW k \in KernelStates, NEW pid \in Int
  PROVE  pid_to_pcb(k, pid) \in Slots \cup {NULL}
<1>1. PCB_TABLE_SIZE \in Nat \ {0}
  BY TableAssumption
<1>2. (pid - 1) % PCB_TABLE_SIZE \in 0..(PCB_TABLE_SIZE - 1)
  BY <1>1
<1>3. ((pid - 1) % PCB_TABLE_SIZE) + 1 \in Slots
  BY <1>1, <1>2 DEF Slots
<1> QED
  BY <1>3 DEF pid_to_pcb

\* The end of a process.
LEMMA CleanupType ==
  ASSUME NEW k \in KernelStates, NEW p \in Slots
  PROVE  cleanup_pcb(k, p) \in KernelStates
<1> DEFINE k1 == remove_pcb_from_ready_queue(k, p)
           k2 == remove_pcb_from_blocked_queue(k1, p)
           k3 == remove_pcb_from_sleep_queue(k2, p)
           k4 == unblock_pcb_waiting_for_pid(k3, k3.pid[p])
           k5 == add_pcb_to_stopped_queue(k4, p)
<1>1. k3 \in KernelStates
  BY RemoveTypes
<1>2. k5 \in KernelStates
  BY <1>1, UnblockType, AddTypes
<1> DEFINE junk == [g \in Signals |-> "junk"]
<1>3. junk \in [Signals -> Handlers] /\ << >> \in Seq(Frames)
  BY DEF Handlers
<1>4. cleanup_pcb(k, p) = [k5 EXCEPT !.frames[p] = << >>, !.signal_table[p] = junk]
  BY DEF cleanup_pcb
<1> HIDE DEF k5, junk
<1> DEFINE fr == [k5.frames EXCEPT ![p] = << >>]
           ta == [k5.signal_table EXCEPT ![p] = junk]
<1>5. fr \in [Slots -> Seq(Frames)]
  BY <1>2, <1>3 DEF KernelStates
<1>6. ta \in [Slots -> [Signals -> Handlers]]
  BY <1>2, <1>3 DEF KernelStates
<1>7. cleanup_pcb(k, p) = [k5 EXCEPT !.frames = fr, !.signal_table = ta]
  BY <1>2, <1>4 DEF KernelStates
<1> HIDE DEF fr, ta
<1> QED
  BY <1>2, <1>5, <1>6, <1>7 DEF KernelStates

\* A pid can be waited for.
LEMMA PidType ==
  ASSUME NEW k \in KernelStates, NEW s \in Slots
  PROVE  k.pid[s] \in 0..PID_MAX /\ k.pid[s] # 0
<1>1. k.pid[s] \in 1..PID_MAX
  BY DEF KernelStates
<1> QED
  BY <1>1, TableAssumption

\* Storing a result.
LEMMA SetRetType ==
  ASSUME NEW k \in KernelStates, NEW p \in Slots, NEW value \in Int
  PROVE  SetRet(k, p, value) \in KernelStates
BY DEF SetRet, KernelStates

\* Blocking the caller.
LEMMA BlockType ==
  ASSUME NEW k \in KernelStates, NEW p \in Slots, NEW status \in BlockedStatuses,
         NEW id \in 0..PID_MAX
  PROVE  Block(k, p, status, id) \in KernelStates
<1>1. [k EXCEPT !.blocked_status[p] = status, !.blocked_id[p] = id] \in KernelStates
  BY DEF KernelStates
<1> QED
  BY <1>1, AddTypes DEF Block

\* The results of send() and recv().
Results == [kern : KernelStates, blocked : BOOLEAN, ret : Int]

\* Completing the call of a blocked process.
LEMMA CompleteType ==
  ASSUME NEW k \in KernelStates, NEW p \in Slots, NEW junk \in Junk
  PROVE  Complete(k, p, junk) \in Results
<1> DEFINE n == TransferLength(k, p, junk)
           k1 == add_pcb_to_ready_queue(k, p)
<1>1. n \in Int
  BY DEF TransferLength, Junk, WILD
<1>2. k1 \in KernelStates
  BY AddTypes
<1>3. 0 \in 0..PID_MAX
  BY TableAssumption
<1> HIDE DEF n, k1
<1>4. [k1 EXCEPT !.blocked_id[p] = 0, !.ret[p] = n] \in KernelStates
  BY <1>1, <1>2, <1>3 DEF KernelStates
<1>5. [k EXCEPT !.halt = "wild"] \in KernelStates
  BY DEF KernelStates, Halts
<1>6. Complete(k, p, junk) = IF n = WILD THEN Done([k EXCEPT !.halt = "wild"], n)
                             ELSE Done([k1 EXCEPT !.blocked_id[p] = 0, !.ret[p] = n], n)
  BY DEF Complete, n, k1
<1> QED
  BY <1>1, <1>4, <1>5, <1>6 DEF Done, Results

\* The first entry of a queue in a set, if there is one.
LEMMA FirstInType ==
  ASSUME NEW q \in Seq(Slots), NEW T
  PROVE  /\ FirstIn(q, T) \in (Elems(q) \cap T) \cup {NULL}
         /\ Elems(q) \cap T = {} => FirstIn(q, T) = NULL
<1> DEFINE hits == Keep(q, T)
<1>1. hits \in Seq(Slots) /\ Elems(hits) = Elems(q) \cap T
  BY KeepProperties
<1>2. Elems(hits) = {} <=> hits = << >>
  BY <1>1, EmptyQueue
<1>3. hits # << >> => hits[1] \in Elems(hits)
  <2>1. hits # << >> => Head(hits) \in Elems(hits)
    BY <1>1, PollProperties
  <2> QED
    BY <1>1, <2>1
<1> QED
  BY <1>1, <1>2, <1>3 DEF FirstIn

\* Slots are not the null pointer.
LEMMA SlotsNotNull == NULL \notin Slots /\ IDLE \notin Slots /\ Slots \subseteq Nat
BY TableAssumption DEF Slots, NULL, IDLE

\* Sending.
LEMMA SendType ==
  ASSUME NEW k \in KernelStates, NEW curr \in Slots, NEW dest \in Slots, NEW junk \in Junk
  PROVE  send(k, curr, dest, junk) \in Results
<1> DEFINE any    == peek_any_receiver(k)
           exists == dest \in Elems(k.blocked_queue)
           target == IF exists THEN dest ELSE any
           k1     == IF exists THEN remove_pcb_from_blocked_queue(k, dest) ELSE k
           k2     == add_pcb_to_blocked_queue(k1, target)
<1>1. any \in Slots \cup {NULL}
  BY FirstInType DEF peek_any_receiver, KernelStates
<1>2. \A kk \in KernelStates, s \in Slots : kk.pid[s] \in 0..PID_MAX
  BY PidType
<1>3. k1 \in KernelStates
  BY RemoveTypes
<1> HIDE DEF any, k1
<1>4. "SEND" \in BlockedStatuses /\ SYSPID_DNE \in Int
  BY DEF BlockedStatuses, SYSPID_DNE
<1>5. Blocked(Block(k, curr, "SEND", k.pid[dest])) \in Results
  BY <1>2, <1>4, BlockType DEF Blocked, Results
<1>6. ASSUME target \in Slots
      PROVE  /\ Blocked(Block(k2, curr, "SEND", k2.pid[target])) \in Results
             /\ Complete(k1, target, junk) \in Results
  <2>1. k2 \in KernelStates
    BY <1>3, <1>6, AddTypes
  <2>2. k2.pid[target] \in 0..PID_MAX
    BY <1>2, <1>6, <2>1
  <2> HIDE DEF k2
  <2>3. Blocked(Block(k2, curr, "SEND", k2.pid[target])) \in Results
    BY <1>4, <2>1, <2>2, BlockType DEF Blocked, Results
  <2> QED
    BY <1>3, <1>6, <2>3, CompleteType
<1>7. exists \/ any # NULL => target \in Slots
  BY <1>1
<1> QED
  BY <1>5, <1>6, <1>7 DEF send, any, k1

\* Receiving.
LEMMA RecvType ==
  ASSUME NEW k \in KernelStates, NEW from \in Slots \cup {NULL}, NEW curr \in Slots,
         NEW junk \in Junk
  PROVE  recv(k, from, curr, junk) \in Results
<1> DEFINE exists == from # NULL
           source == IF exists THEN from ELSE peek_next_sender(k)
           k1     == remove_pcb_from_blocked_queue(k, source)
           k2     == add_pcb_to_blocked_queue(k1, source)
           id     == IF exists THEN k.pid[from] ELSE 0
<1>1. source \in Slots \cup {NULL}
  BY FirstInType DEF peek_next_sender, KernelStates
<1>2. \A kk \in KernelStates, s \in Slots : kk.pid[s] \in 0..PID_MAX
  BY PidType
<1>3. k1 \in KernelStates
  BY RemoveTypes
<1>4. "RECEIVE" \in BlockedStatuses /\ SYSPID_DNE \in Int /\ 0 \in 0..PID_MAX
  BY TableAssumption DEF BlockedStatuses, SYSPID_DNE
<1>5. Blocked(Block(k, curr, "RECEIVE", id)) \in Results
  <2>1. id \in 0..PID_MAX
    BY <1>2, <1>4
  <2> QED
    BY <1>4, <2>1, BlockType DEF Blocked, Results
<1> HIDE DEF k1, source
<1>6. ASSUME source \in Slots
      PROVE  /\ Blocked(Block(k2, curr, "RECEIVE", k2.pid[source])) \in Results
             /\ Complete(k1, source, junk) \in Results
  <2>1. k2 \in KernelStates
    BY <1>3, <1>6, AddTypes
  <2>2. k2.pid[source] \in 0..PID_MAX
    BY <1>2, <1>6, <2>1
  <2> HIDE DEF k2
  <2>3. Blocked(Block(k2, curr, "RECEIVE", k2.pid[source])) \in Results
    BY <1>4, <2>1, <2>2, BlockType DEF Blocked, Results
  <2> QED
    BY <1>3, <1>6, <2>3, CompleteType
<1> QED
  BY <1>1, <1>5, <1>6 DEF recv, source, k1

\* The recursive definition of Left is sound: there is one function from the
\* positions of the sleep queue to the ticks that are left behind them.
LEMMA LeftProperties ==
  ASSUME NEW k \in KernelStates, NEW ticks \in Int
  PROVE  /\ Left(k, ticks) \in [0..Len(k.sleep_queue) -> Int]
         /\ Left(k, ticks)[0] = ticks
         /\ \A i \in 1..Len(k.sleep_queue) :
              Left(k, ticks)[i] = Left(k, ticks)[i - 1] - k.ret[k.sleep_queue[i]]
<1> DEFINE q == k.sleep_queue
           n == Len(q)
           d(i) == k.ret[q[i]]
           Def(g) == [i \in 0..n |-> IF i = 0 THEN ticks ELSE g[i - 1] - k.ret[q[i]]]
           Upto(m, g) == /\ g \in [0..m -> Int]
                         /\ g[0] = ticks
                         /\ \A i \in 1..m : g[i] = g[i - 1] - d(i)
           P == {m \in 0..n : \E g : Upto(m, g)}
<1>1. q \in Seq(Slots) /\ k.ret \in [Slots -> Int]
  BY DEF KernelStates
<1>2. n \in Nat /\ \A i \in 1..n : q[i] \in Slots
  BY <1>1, ElemsProperties
<1>3. \A i \in 1..n : d(i) \in Int
  BY <1>1, <1>2
<1> HIDE DEF n, d
<1>4. 0 \in P
  <2> DEFINE g == [i \in 0..0 |-> ticks]
  <2>1. Upto(0, g)
    OBVIOUS
  <2>2. 0 \in 0..n
    BY <1>2
  <2> HIDE DEF Upto, g
  <2> QED
    BY <2>1, <2>2
<1>5. ASSUME NEW m \in 1..n, m - 1 \in P PROVE m \in P
  <2>1. PICK g : Upto(m - 1, g)
    BY <1>5
  <2> DEFINE h == [i \in 0..m |-> IF i = m THEN g[m - 1] - d(m) ELSE g[i]]
  <2>2. m \in Nat /\ m # 0 /\ m - 1 \in 0..(m - 1) /\ d(m) \in Int
    BY <1>2, <1>3
  <2>3. \A i \in 0..m : i # m => i \in 0..(m - 1)
    BY <2>2
  <2>4. h \in [0..m -> Int]
    BY <2>1, <2>2, <2>3
  <2>5. h[0] = ticks
    BY <2>1, <2>2
  <2>6. ASSUME NEW i \in 1..m PROVE h[i] = h[i - 1] - d(i)
    <3>1. i - 1 \in 0..m /\ i - 1 # m /\ i \in 0..m
      BY <2>2
    <3>2. h[i - 1] = g[i - 1]
      BY <3>1
    <3>3. CASE i = m
      BY <3>1, <3>2, <3>3
    <3>4. CASE i # m
      <4>1. i \in 1..(m - 1)
        BY <2>2, <3>4
      <4> QED
        BY <2>1, <3>1, <3>2, <3>4, <4>1
    <3> QED
      BY <3>3, <3>4
  <2>7. Upto(m, h)
    <3> HIDE DEF h
    <3> QED
      BY <2>4, <2>5, <2>6
  <2>8. m \in 0..n
    BY <1>2
  <2> HIDE DEF Upto, h
  <2> QED
    BY <2>7, <2>8
<1>6. 0..n \subseteq P
  <2> HIDE DEF P
  <2> QED
    BY <1>2, <1>4, <1>5, PositionInduction
<1>7. PICK g : Upto(n, g)
  <2> HIDE DEF Upto
  <2>1. n \in 0..n
    BY <1>2
  <2>2. n \in P
    BY <1>6, <2>1
  <2> QED
    BY <2>2 DEF P
<1>8. g = Def(g)
  <2>1. \A i \in 0..n : i # 0 => i \in 1..n
    BY <1>2
  <2>2. \A i \in 0..n : g[i] = IF i = 0 THEN ticks ELSE g[i - 1] - k.ret[q[i]]
    BY <1>7, <2>1 DEF d
  <2>3. g = [i \in 0..n |-> g[i]]
    BY <1>7
  <2> QED
    BY <2>2, <2>3
<1>9. Left(k, ticks) = CHOOSE f : f = Def(f)
  BY DEF Left, n
<1>10. Left(k, ticks) = Def(Left(k, ticks))
  <2> DEFINE Q(f) == f = Def(f)
  <2>1. Q(g)
    BY <1>8
  <2>2. Left(k, ticks) = CHOOSE f : Q(f)
    BY <1>9
  <2> HIDE DEF Q
  <2>3. Q(Left(k, ticks))
    BY <2>1, <2>2
  <2> QED
    BY <2>3 DEF Q
<1> DEFINE left == Left(k, ticks)
<1>11. /\ left = [i \in 0..n |-> left[i]]
       /\ \A i \in 0..n : left[i] = IF i = 0 THEN ticks ELSE left[i - 1] - k.ret[q[i]]
  BY <1>10
<1> HIDE DEF left
<1>12. 0 \in 0..n /\ left[0] = ticks
  <2>1. 0 \in 0..n
    BY <1>2
  <2>2. left[0] = IF 0 = 0 THEN ticks ELSE left[0 - 1] - k.ret[q[0]]
    BY <1>11, <2>1
  <2> QED
    BY <2>1, <2>2
<1>13. \A i \in 0..n : left[i] \in Int
  <2> DEFINE I == {i \in 0..n : left[i] \in Int}
  <2>1. 0 \in I
    BY <1>12
  <2>2. ASSUME NEW i \in 1..n, i - 1 \in I PROVE i \in I
    <3>1. i \in 0..n /\ i # 0 /\ k.ret[q[i]] \in Int
      BY <1>2, <1>3 DEF d
    <3>2. left[i] = left[i - 1] - k.ret[q[i]]
      BY <1>11, <3>1
    <3> QED
      BY <2>2, <3>1, <3>2
  <2>3. 0..n \subseteq I
    <3> HIDE DEF I
    <3> QED
      BY <1>2, <2>1, <2>2, PositionInduction
  <2> QED
    BY <2>3
<1>14. \A i \in 1..n : left[i] = left[i - 1] - k.ret[q[i]]
  <2>1. \A i \in 1..n : i \in 0..n /\ i # 0
    BY <1>2
  <2> QED
    BY <1>11, <2>1
<1> QED
  BY <1>11, <1>12, <1>13, <1>14 DEF left, n

\* The walk over the sleep queue stops in it or at its end.
LEMMA BehindType ==
  ASSUME NEW k \in KernelStates, NEW ticks \in Int
  PROVE  Behind(k, ticks) \in 0..Len(k.sleep_queue)
<1> DEFINE q == k.sleep_queue
           stops == {i \in 0..Len(q) :
                       i = Len(q) \/ k.ret[q[i + 1]] >= Left(k, ticks)[i]}
<1>1. Len(q) \in Nat
  BY ElemsProperties DEF KernelStates
<1>2. stops \in SUBSET (0..Len(q)) /\ Len(q) \in stops
  BY <1>1
<1>3. Behind(k, ticks) = CHOOSE i \in stops : \A j \in stops : i <= j
  BY DEF Behind
<1> HIDE DEF stops
<1>4. \E i \in stops : \A j \in stops : i <= j
  BY <1>1, <1>2, LeastAndGreatest
<1>5. Behind(k, ticks) \in stops
  BY <1>3, <1>4
<1> QED
  BY <1>2, <1>5

\* The walk of add_pcb_to_sleep_queue() adds the entry and no other.
LEMMA InsertAtProperties ==
  ASSUME NEW S, NEW q \in Seq(S), NEW n \in 0..Len(q), NEW p \in S
  PROVE  /\ InsertAt(q, n, p) \in Seq(S)
         /\ Elems(InsertAt(q, n, p)) = Elems(q) \cup {p}
         /\ NoRepeats(q) /\ p \notin Elems(q) => NoRepeats(InsertAt(q, n, p))
<1>1. PICK r : r = InsertAt(q, n, p)
  OBVIOUS
<1>2. r = [i \in 1..(Len(q) + 1) |->
             IF i <= n THEN q[i] ELSE IF i = n + 1 THEN p ELSE q[i - 1]]
  BY <1>1 DEF InsertAt
<1>3. /\ r \in Seq(S)
      /\ Elems(r) = Elems(q) \cup {p}
      /\ NoRepeats(q) /\ p \notin Elems(q) => NoRepeats(r)
  BY <1>2, InsertProperties, SMTT(40)
<1> QED
  BY <1>1, <1>3

\* Going to sleep.
LEMMA SleepType ==
  ASSUME NEW k \in KernelStates, NEW p \in Slots, NEW ticks \in Int
  PROVE  add_pcb_to_sleep_queue(k, p, ticks) \in KernelStates
<1> DEFINE q     == k.sleep_queue
           n     == Behind(k, ticks)
           delta == Left(k, ticks)[n]
           ret1  == [k.ret EXCEPT ![p] = delta]
           ret2  == IF n = Len(q) THEN ret1 ELSE [ret1 EXCEPT ![q[n + 1]] = @ - delta]
           k1    == [k EXCEPT !.state[p] = "BLOCKED",
                              !.blocked_status[p] = "SLEEP",
                              !.sleep_queue = InsertAt(q, n, p),
                              !.ret = ret2]
<1>1. q \in Seq(Slots) /\ Len(q) \in Nat /\ \A i \in 1..Len(q) : q[i] \in Slots
  BY ElemsProperties DEF KernelStates
<1>2. n \in 0..Len(q)
  BY BehindType
<1>3. delta \in Int
  BY <1>2, LeftProperties
<1>4. InsertAt(q, n, p) \in Seq(Slots)
  BY <1>1, <1>2, InsertAtProperties
<1>5. add_pcb_to_sleep_queue(k, p, ticks) = Offered(k, p, k1)
  BY DEF add_pcb_to_sleep_queue
<1> HIDE DEF n, delta
<1>6. ret1 \in [Slots -> Int]
  BY <1>3 DEF KernelStates
<1> HIDE DEF ret1
<1>7. ret2 \in [Slots -> Int]
  <2>1. CASE n = Len(q)
    BY <1>6, <2>1
  <2>2. CASE n # Len(q)
    <3>1. n + 1 \in 1..Len(q)
      BY <1>1, <1>2, <2>2
    <3>2. q[n + 1] \in Slots
      BY <1>1, <3>1
    <3> QED
      BY <1>3, <1>6, <2>2, <3>2
  <2> QED
    BY <2>1, <2>2
<1> HIDE DEF ret2
<1>8. k1 \in KernelStates
  BY <1>4, <1>7 DEF KernelStates, ProcStates, BlockedStatuses
<1>9. [k EXCEPT !.halt = "corrupt"] \in KernelStates
  BY DEF KernelStates, Halts
<1> HIDE DEF k1
<1> QED
  BY <1>5, <1>8, <1>9 DEF Offered

\* The entries that are due are entries of the queue.
LEMMA DueType ==
  ASSUME NEW k \in KernelStates
  PROVE  Due(k) \in 0..Len(k.sleep_queue)
<1> DEFINE q == k.sleep_queue
           due == {n \in 0..Len(q) : \A i \in 1..n : k.ret[q[i]] <= 0}
<1>1. Len(q) \in Nat
  BY ElemsProperties DEF KernelStates
<1>2. due \in SUBSET (0..Len(q)) /\ 0 \in due
  BY <1>1
<1>3. Due(k) = CHOOSE n \in due : \A m \in due : m <= n
  BY DEF Due
<1> HIDE DEF due
<1>4. \E n \in due : \A m \in due : m <= n
  BY <1>1, <1>2, LeastAndGreatest
<1>5. Due(k) \in due
  BY <1>3, <1>4
<1> QED
  BY <1>2, <1>5

\* Waking the first entries of the sleep queue.
LEMMA WakeFirstType ==
  ASSUME NEW k \in KernelStates, NEW n \in 0..Len(k.sleep_queue)
  PROVE  WakeFirst(k, n) \in KernelStates
<1> DEFINE q     == k.sleep_queue
           woken == Elems(SubSeq(q, 1, n))
           st    == [p \in Slots |-> IF p \in woken THEN "READY" ELSE k.state[p]]
           bs    == [p \in Slots |-> IF p \in woken THEN "NONE" ELSE k.blocked_status[p]]
<1>1. q \in Seq(Slots) /\ k.ready_queue \in Seq(Slots) /\ Len(q) \in Nat
  BY ElemsProperties DEF KernelStates
<1>2. SubSeq(q, 1, n) \in Seq(Slots) /\ SubSeq(q, n + 1, Len(q)) \in Seq(Slots)
  <2>1. 1 \in 1..(Len(q) + 1) /\ n + 1 \in 1..(Len(q) + 1) /\ Len(q) \in 0..Len(q)
    BY <1>1
  <2> QED
    BY <1>1, <2>1, PartProperties
<1>3. k.ready_queue \o SubSeq(q, 1, n) \in Seq(Slots)
  BY <1>1, <1>2, JoinProperties
<1>4. st \in [Slots -> ProcStates] /\ bs \in [Slots -> BlockedStatuses]
  BY DEF KernelStates, ProcStates, BlockedStatuses
<1>5. WakeFirst(k, n) = [k EXCEPT !.sleep_queue = SubSeq(q, n + 1, Len(q)),
                                  !.ready_queue = k.ready_queue \o SubSeq(q, 1, n),
                                  !.state = st,
                                  !.blocked_status = bs]
  BY DEF WakeFirst, KernelStates
<1> HIDE DEF st, bs
<1> QED
  BY <1>2, <1>3, <1>4, <1>5 DEF KernelStates

\* A clock tick.
LEMMA TickType ==
  ASSUME NEW k \in KernelStates
  PROVE  tick(k) \in KernelStates
<1> DEFINE head == Head(k.sleep_queue)
           k1 == [k EXCEPT !.ret[head] = @ - 1]
<1>1. CASE k.sleep_queue = << >>
  BY <1>1 DEF tick
<1>2. CASE k.sleep_queue # << >>
  <2>1. head \in Slots
    BY <1>2, PollProperties DEF KernelStates
  <2>2. tick(k) = WakeFirst(k1, Due(k1))
    BY <1>2 DEF tick
  <2> HIDE DEF head
  <2>3. k1 \in KernelStates
    <3>1. [k.ret EXCEPT ![head] = @ - 1] \in [Slots -> Int]
      BY <2>1 DEF KernelStates
    <3> QED
      BY <3>1 DEF KernelStates
  <2> HIDE DEF k1
  <2>4. Due(k1) \in 0..Len(k1.sleep_queue)
    BY <2>3, DueType
  <2> QED
    BY <2>2, <2>3, <2>4, WakeFirstType
<1> QED
  BY <1>1, <1>2

\* The greatest signal of a mask that has one.
LEMMA HighestType ==
  ASSUME NEW mask \in SUBSET Signals, mask # {}
  PROVE  Highest(mask) \in mask /\ \A h \in mask : h <= Highest(mask)
<1>1. SIGNAL_TABLE_SIZE - 1 \in Nat /\ mask \in SUBSET (0..(SIGNAL_TABLE_SIZE - 1))
  BY SignalAssumption DEF Signals
<1>2. \E g \in mask : \A h \in mask : h <= g
  BY <1>1, LeastAndGreatest
<1> QED
  BY <1>2 DEF Highest

\* Starting a handler.
LEMMA SignalType ==
  ASSUME NEW k \in KernelStates, NEW p \in Slots, NEW g \in Signals
  PROVE  signal(k, p, g) \in KernelStates
<1> DEFINE handler == k.signal_table[p][g]
           frame == [sig |-> g, handler |-> handler, ret |-> k.ret[p]]
           en == [k.signals_enabled EXCEPT ![p] = @ \cup {g}]
           fr == [k.frames EXCEPT ![p] = Append(@, frame)]
           ha == IF handler \in {"NULL", "junk"} THEN "wild" ELSE k.halt
<1>1. handler \in Handlers /\ k.ret[p] \in Int /\ k.frames[p] \in Seq(Frames)
  BY DEF KernelStates
<1> HIDE DEF handler
<1>2. frame \in Frames
  BY <1>1 DEF Frames
<1> HIDE DEF frame
<1>3. Append(k.frames[p], frame) \in Seq(Frames)
  BY <1>1, <1>2
<1>4. en \in [Slots -> SUBSET Signals]
  BY DEF KernelStates
<1>5. fr \in [Slots -> Seq(Frames)]
  BY <1>3 DEF KernelStates
<1>6. ha \in Halts
  BY DEF KernelStates, Halts
<1>7. signal(k, p, g) = [k EXCEPT !.signals_enabled = en, !.frames = fr, !.halt = ha]
  BY DEF signal, KernelStates, frame, handler
<1> HIDE DEF en, fr, ha
<1> QED
  BY <1>4, <1>5, <1>6, <1>7 DEF KernelStates

\* Delivering a signal.
LEMMA DeliverType ==
  ASSUME NEW k \in KernelStates, NEW p \in Slots
  PROVE  deliver_highest_priority_signal(k, p) \in KernelStates
<1> DEFINE pending == k.signals_pending[p]
           g == Highest(pending)
           k1 == [k EXCEPT !.signals_pending[p] = @ \ {g}]
<1>1. CASE ~Exceeds(pending, k.signals_enabled[p])
  BY <1>1 DEF deliver_highest_priority_signal
<1>2. CASE Exceeds(pending, k.signals_enabled[p])
  <2>1. pending # {}
    BY <1>2 DEF Exceeds
  <2>2. pending \in SUBSET Signals
    BY DEF KernelStates
  <2>3. g \in Signals
    BY <2>1, <2>2, HighestType
  <2>4. deliver_highest_priority_signal(k, p) = signal(k1, p, g)
    BY <1>2 DEF deliver_highest_priority_signal
  <2> HIDE DEF g
  <2>5. k1 \in KernelStates
    BY DEF KernelStates
  <2> QED
    BY <2>3, <2>4, <2>5, SignalType
<1> QED
  BY <1>1, <1>2

\* Sending a signal.
LEMMA SetSignalType ==
  ASSUME NEW k \in KernelStates, NEW p \in Slots, NEW g \in Signals
  PROVE  set_pcb_signal(k, p, g) \in KernelStates
<1> DEFINE k1 == [k EXCEPT !.signals_pending[p] = @ \cup {g}]
<1>1. k1 \in KernelStates
  BY DEF KernelStates
<1> HIDE DEF k1
<1>2. wake(k1, p) \in KernelStates
  BY <1>1, RemoveTypes, AddTypes DEF wake
<1>3. SetRet(k1, p, BLOCKED_PROC_SIGNALED) \in KernelStates
  BY <1>1, SetRetType DEF BLOCKED_PROC_SIGNALED
<1>4. add_pcb_to_ready_queue(
        remove_pcb_from_blocked_queue(SetRet(k1, p, BLOCKED_PROC_SIGNALED), p), p) \in KernelStates
  BY <1>3, RemoveTypes, AddTypes
<1>5. add_pcb_to_ready_queue(remove_pcb_from_blocked_queue(k1, p), p) \in KernelStates
  BY <1>1, RemoveTypes, AddTypes
<1>6. [k1 EXCEPT !.halt = "assert"] \in KernelStates
  BY <1>1 DEF KernelStates, Halts
<1> QED
  BY <1>1, <1>2, <1>4, <1>5, <1>6 DEF set_pcb_signal, k1

\* Creating a process.
LEMMA CreateType ==
  ASSUME NEW k \in KernelStates, k.stopped_queue # << >>, NEW table \in NewTables
  PROVE  create(k, table) \in KernelStates
<1> DEFINE p == Head(k.stopped_queue)
           k1 == [k EXCEPT !.stopped_queue = Tail(@),
                           !.signal_table[p] = table,
                           !.signals_enabled[p] = {},
                           !.frames[p] = << >>]
<1>1. p \in Slots /\ Tail(k.stopped_queue) \in Seq(Slots)
  BY PollProperties DEF KernelStates
<1>2. table \in [Signals -> Handlers]
  BY WorkloadAssumption DEF NewTables, Handlers
<1>3. create(k, table) = add_pcb_to_ready_queue(k1, p)
  BY DEF create
<1> HIDE DEF p
<1>4. /\ [k.signal_table EXCEPT ![p] = table] \in [Slots -> [Signals -> Handlers]]
      /\ [k.signals_enabled EXCEPT ![p] = {}] \in [Slots -> SUBSET Signals]
      /\ [k.frames EXCEPT ![p] = << >>] \in [Slots -> Seq(Frames)]
  <2>1. << >> \in Seq(Frames)
    OBVIOUS
  <2>2. [k.signal_table EXCEPT ![p] = table] \in [Slots -> [Signals -> Handlers]]
    BY <1>1, <1>2 DEF KernelStates
  <2>3. [k.signals_enabled EXCEPT ![p] = {}] \in [Slots -> SUBSET Signals]
    BY <1>1 DEF KernelStates
  <2>4. [k.frames EXCEPT ![p] = << >>] \in [Slots -> Seq(Frames)]
    BY <1>1, <2>1 DEF KernelStates
  <2> QED
    BY <2>2, <2>3, <2>4
<1>5. k1 \in KernelStates
  BY <1>1, <1>4 DEF KernelStates
<1> HIDE DEF k1
<1> QED
  BY <1>1, <1>3, <1>5, AddTypes

\* Going back to user mode.
LEMMA ResumeType ==
  ASSUME NEW k \in KernelStates
  PROVE  Resume(k) \in KernelStates
<1>1. k.process # IDLE => k.process \in Slots
  BY DEF KernelStates
<1> QED
  BY <1>1, DeliverType DEF Resume

\* The number of entries of the process status table.
LEMMA StatusType ==
  ASSUME NEW k \in KernelStates
  PROVE  fill_processStatus(k) \in Int
<1> DEFINE T == {s \in Slots : k.state[s] # "STOPPED"}
<1>1. PCB_TABLE_SIZE \in Nat /\ T \in SUBSET (0..PCB_TABLE_SIZE)
  BY TableAssumption DEF Slots
<1> HIDE DEF T
<1>2. Cardinality(T) \in Nat
  BY <1>1, NthProperties
<1> QED
  BY <1>2 DEF fill_processStatus, T

\* The pids that processes use are integers from 0 to PID_MAX.
LEMMA PidArgsType ==
  ASSUME TypeOK
  PROVE  PidArgs \subseteq 0..PID_MAX
<1>1. kern \in KernelStates
  BY DEF TypeOK
<1>2. \A s \in Slots : kern.pid[s] \in 0..PID_MAX
  BY <1>1, PidType
<1>3. 0 \in 0..PID_MAX /\ 1..PID_MAX \subseteq 0..PID_MAX
  BY TableAssumption
<1> QED
  BY <1>2, <1>3 DEF PidArgs

\* The process table and the queues have their types when the system starts.
LEMMA InitType == Init => TypeOK
<1> SUFFICES ASSUME NEW table \in NewTables,
                    kern = Resume(get_next_pcb(create(initpcb, table)))
             PROVE  kern \in KernelStates
  BY DEF Init, TypeOK
<1>1. initpcb \in KernelStates
  BY InitpcbType
<1>2. initpcb.stopped_queue # << >>
  <2>1. 1 \in DOMAIN initpcb.stopped_queue
    BY TableAssumption DEF initpcb, Slots
  <2> QED
    BY <2>1
<1>3. create(initpcb, table) \in KernelStates
  BY <1>1, <1>2, CreateType
<1> QED
  BY <1>3, GetNextType, ResumeType

\* Every step of the kernel keeps them.
LEMMA NextType == TypeOK /\ [Next]_kern => TypeOK'
<1> SUFFICES ASSUME kern \in KernelStates, [Next]_kern
             PROVE  kern' \in KernelStates
  BY DEF TypeOK
<1>1. ASSUME NEW k \in KernelStates, Continue(k) PROVE kern' \in KernelStates
  BY <1>1, ResumeType DEF Continue
<1>2. ASSUME NEW k \in KernelStates, Switch(k) PROVE kern' \in KernelStates
  BY <1>1, <1>2, GetNextType DEF Switch
<1>3. proc # IDLE => proc \in Slots
  BY DEF proc, KernelStates
<1>4. ASSUME proc \in Slots, NEW value \in Int, Return(value) PROVE kern' \in KernelStates
  BY <1>1, <1>4, SetRetType DEF Return
<1>5. ASSUME proc \in Slots, NEW r \in Results, Transfer(r) PROVE kern' \in KernelStates
  <2>1. r.kern \in KernelStates /\ r.ret \in Int
    BY DEF Results
  <2>2. (IF r.blocked THEN get_next_pcb(r.kern) ELSE r.kern) \in KernelStates
    BY <2>1, GetNextType
  <2> QED
    BY <1>1, <1>5, <2>1, <2>2, SetRetType DEF Transfer
<1>6. PidArgs \subseteq 0..PID_MAX /\ 0..PID_MAX \subseteq Int
  BY PidArgsType, TableAssumption DEF TypeOK
<1>7. ASSUME NEW pid \in PidArgs PROVE pid_to_pcb(kern, pid) \in Slots \cup {NULL}
  BY <1>6, PidToPcbType
<1>8. CASE Create
  <2>1. proc \in Slots
    BY <1>3, <1>8 DEF Create, Request
  <2>2. CASE Return(CREATE_FAILURE)
    BY <1>4, <2>1, <2>2 DEF CREATE_FAILURE
  <2>3. ASSUME kern.stopped_queue # << >>, NEW table \in NewTables,
               Continue(SetRet(create(kern, table), proc, kern.pid[Head(kern.stopped_queue)]))
        PROVE  kern' \in KernelStates
    <3>1. create(kern, table) \in KernelStates
      BY <2>3, CreateType
    <3>2. kern.pid[Head(kern.stopped_queue)] \in Int
      <4>1. Head(kern.stopped_queue) \in Slots
        BY <2>3, PollProperties DEF KernelStates
      <4> QED
        BY <4>1 DEF KernelStates
    <3> QED
      BY <1>1, <2>1, <2>3, <3>1, <3>2, SetRetType
  <2> QED
    BY <1>8, <2>2, <2>3 DEF Create
<1>9. CASE Yield
  <2>1. proc \in Slots
    BY <1>3, <1>9 DEF Yield, Request
  <2>2. add_pcb_to_ready_queue(SetRet(kern, proc, SYSCALL_YIELD), proc) \in KernelStates
    BY <2>1, SetRetType, AddTypes DEF SYSCALL_YIELD
  <2> QED
    BY <1>2, <1>9, <2>2 DEF Yield
<1>10. CASE Stop
  <2>1. proc \in Slots
    BY <1>3, <1>10 DEF Stop, Request, InSysstop
  <2>2. cleanup_pcb(SetRet(kern, proc, SYSCALL_STOP), proc) \in KernelStates
    BY <2>1, SetRetType, CleanupType DEF SYSCALL_STOP
  <2> QED
    BY <1>2, <1>10, <2>2 DEF Stop
<1>11. CASE GetPid
  <2>1. proc \in Slots /\ Return(kern.pid[proc])
    BY <1>3, <1>11 DEF GetPid, Request
  <2>2. kern.pid[proc] \in Int
    BY <1>6, <2>1, PidType
  <2> QED
    BY <1>4, <2>1, <2>2
<1>12. CASE Puts
  BY <1>3, <1>4, <1>12 DEF Puts, Request
<1>13. CASE Kill
  <2>1. proc \in Slots
    BY <1>3, <1>13 DEF Kill, Request
  <2>2. SYSKILL_TARGET_DNE \in Int /\ SYSKILL_SIG_INVALID \in Int
    BY DEF SYSKILL_TARGET_DNE, SYSKILL_SIG_INVALID
  <2>3. ASSUME NEW target \in Slots, NEW g \in Signals,
               Continue(SetRet(set_pcb_signal(kern, target, g), proc, 0))
        PROVE  kern' \in KernelStates
    BY <1>1, <2>1, <2>3, SetSignalType, SetRetType
  <2> QED
    BY <1>4, <1>7, <1>13, <2>1, <2>2, <2>3 DEF Kill
<1>14. CASE Wait
  <2>1. proc \in Slots
    BY <1>3, <1>14 DEF Wait, Request
  <2>2. "WAITING" \in BlockedStatuses /\ SYSPID_DNE \in Int
    BY DEF BlockedStatuses, SYSPID_DNE
  <2>3. ASSUME NEW pid \in PidArgs PROVE SetRet(Block(kern, proc, "WAITING", pid), proc, 0) \in KernelStates
    BY <1>6, <2>1, <2>2, BlockType, SetRetType
  <2> QED
    BY <1>2, <1>4, <1>14, <2>1, <2>2, <2>3 DEF Wait
<1>15. CASE Send
  <2>1. proc \in Slots
    BY <1>3, <1>15 DEF Send, Request
  <2>2. SYSPID_DNE \in Int /\ SYSPID_SELF \in Int /\ SYSERR_OTHER \in Int
    BY DEF SYSPID_DNE, SYSPID_SELF, SYSERR_OTHER
  <2>3. ASSUME NEW dest \in Slots, NEW junk \in Junk PROVE send(kern, proc, dest, junk) \in Results
    BY <2>1, SendType
  <2> QED
    BY <1>4, <1>5, <1>7, <1>15, <2>1, <2>2, <2>3 DEF Send
<1>16. CASE Recv
  <2>1. proc \in Slots
    BY <1>3, <1>16 DEF Recv, Request
  <2>2. SYSPID_DNE \in Int /\ SYSPID_SELF \in Int /\ SYSERR_OTHER \in Int
    BY DEF SYSPID_DNE, SYSPID_SELF, SYSERR_OTHER
  <2>3. ASSUME NEW from \in Slots \cup {NULL}, NEW junk \in Junk PROVE recv(kern, from, proc, junk) \in Results
    BY <2>1, RecvType
  <2> QED
    BY <1>4, <1>5, <1>7, <1>16, <2>1, <2>2, <2>3 DEF Recv
<1>17. CASE Sleep
  <2>1. proc \in Slots
    BY <1>3, <1>17 DEF Sleep, Request
  <2>2. ASSUME NEW ms \in SleepMs PROVE Ticks(ms) \in Int
    BY WorkloadAssumption DEF Ticks, MS_PER_CLOCK_TICK
  <2>3. ASSUME NEW ms \in SleepMs PROVE sleep(kern, proc, ms) \in KernelStates
    BY <2>1, <2>2, SleepType DEF sleep
  <2> QED
    BY <1>2, <1>17, <2>3 DEF Sleep
<1>18. CASE CpuTimes
  <2>1. proc \in Slots
    BY <1>3, <1>18 DEF CpuTimes, Request
  <2>2. fill_processStatus(kern) \in Int
    BY StatusType
  <2> QED
    BY <1>4, <1>18, <2>1, <2>2 DEF CpuTimes
<1>19. CASE SigHandler
  <2>1. proc \in Slots
    BY <1>3, <1>19 DEF SigHandler, Request
  <2>2. INVALID_SIGNAL \in Int /\ SYSHANDLER_INVALID \in Int /\ SYSERR_OTHER \in Int
    BY DEF INVALID_SIGNAL, SYSHANDLER_INVALID, SYSERR_OTHER
  <2>3. ASSUME NEW g \in Signals, NEW new \in {"NULL", "handler"}
        PROVE  SetRet([kern EXCEPT !.signal_table[proc][g] = new], proc, 0) \in KernelStates
    <3>1. new \in Handlers
      BY DEF Handlers
    <3>2. [kern EXCEPT !.signal_table[proc][g] = new] \in KernelStates
      BY <2>1, <3>1 DEF KernelStates
    <3> QED
      BY <2>1, <3>2, SetRetType
  <2> QED
    BY <1>1, <1>4, <1>19, <2>1, <2>2, <2>3 DEF SigHandler
<1>20. CASE SigReturn
  <2> DEFINE f == kern.frames[proc]
             top == f[Len(f)]
             k0 == SetRet(kern, proc, top.ret)
             k1 == [k0 EXCEPT !.frames[proc] = SubSeq(@, 1, Len(@) - 1)]
             enabled == kern.signals_enabled[proc]
             k2 == [k1 EXCEPT !.signals_enabled[proc] = @ \ {Highest(enabled)}]
  <2>1. proc \in Slots /\ f # << >>
    BY <1>3, <1>20 DEF SigReturn, Request
  <2>2. f \in Seq(Frames) /\ Len(f) \in Nat \ {0} /\ \A i \in 1..Len(f) : f[i] \in Frames
    BY <2>1, EmptySeq, ElemsProperties DEF KernelStates
  <2>3. top.ret \in Int
    <3>1. Len(f) \in 1..Len(f)
      BY <2>2
    <3>2. top \in Frames
      BY <2>2, <3>1
    <3> QED
      BY <3>2 DEF Frames
  <2>4. k0 \in KernelStates /\ k0.frames = kern.frames
    BY <2>1, <2>3, SetRetType DEF SetRet, KernelStates
  <2>5. SubSeq(f, 1, Len(f) - 1) \in Seq(Frames)
    <3>1. 1 \in 1..(Len(f) + 1) /\ Len(f) - 1 \in 0..Len(f)
      BY <2>2
    <3> QED
      BY <2>2, <3>1, PartProperties
  <2>6. k1 \in KernelStates
    <3> HIDE DEF k0, f
    <3>1. k0.frames[proc] = f
      BY <2>4 DEF f
    <3>2. [k0.frames EXCEPT ![proc] = SubSeq(f, 1, Len(f) - 1)] \in [Slots -> Seq(Frames)]
      BY <2>1, <2>4, <2>5 DEF KernelStates
    <3> QED
      BY <2>4, <3>1, <3>2 DEF KernelStates
  <2> HIDE DEF k1
  <2>7. k2 \in KernelStates /\ [k1 EXCEPT !.halt = "spin"] \in KernelStates
    <3> DEFINE h == {Highest(enabled)}
    <3> HIDE DEF h
    <3>1. [k1 EXCEPT !.signals_enabled[proc] = @ \ h] \in KernelStates
      BY <2>1, <2>6 DEF KernelStates
    <3> QED
      BY <2>6, <3>1 DEF KernelStates, Halts, h
  <2>8. cleanup_pcb(SetRet(kern, proc, SYSCALL_SIGRETURN), proc) \in KernelStates
    BY <2>1, SetRetType, CleanupType DEF SYSCALL_SIGRETURN
  <2>9. \/ Switch(cleanup_pcb(SetRet(kern, proc, SYSCALL_SIGRETURN), proc))
        \/ kern' = [k1 EXCEPT !.halt = "spin"]
        \/ Continue(k2)
    BY <1>20 DEF SigReturn, k1
  <2> QED
    BY <1>1, <1>2, <2>7, <2>8, <2>9
<1>21. CASE DeviceCall
  <2>1. proc \in Slots
    BY <1>3, <1>21 DEF DeviceCall, Request
  <2> QED
    BY <1>4, <1>21, <2>1 DEF DeviceCall, SYSERR
<1>22. CASE Read
  <2>1. proc \in Slots
    BY <1>3, <1>22 DEF Read, Request
  <2>2. [kern EXCEPT !.state[proc] = "BLOCKED",
                     !.blocked_status[proc] = "DEVICE",
                     !.ret[proc] = BLOCKERR] \in KernelStates
    <3>1. "BLOCKED" \in ProcStates /\ "DEVICE" \in BlockedStatuses /\ BLOCKERR \in Int
      BY DEF ProcStates, BlockedStatuses, BLOCKERR
    <3> QED
      BY <2>1, <3>1 DEF KernelStates
  <2>3. [kern EXCEPT !.halt = "assert"] \in KernelStates
    BY DEF KernelStates, Halts
  <2> QED
    BY <1>2, <1>4, <1>22, <2>1, <2>2, <2>3 DEF Read, SYSERR
<1>27. CASE Write
  <2>1. proc \in Slots
    BY <1>3, <1>27 DEF Write, Request
  <2>2. [kern EXCEPT !.halt = "assert"] \in KernelStates
    BY DEF KernelStates, Halts
  <2> QED
    BY <1>4, <1>27, <2>1, <2>2 DEF Write, SYSERR
<1>23. Interrupted \in KernelStates
  BY <1>3, SetRetType DEF Interrupted, USER_EAX
<1>24. CASE KeyboardInt
  <2>1. PICK done \in SUBSET OnDevice(kern), count \in {0, 1} :
          Continue([Interrupted EXCEPT
            !.ready_queue = @ \o Keep(TaskOrder, done),
            !.state = [s \in Slots |-> IF s \in done THEN "READY" ELSE @[s]],
            !.blocked_status = [s \in Slots |-> IF s \in done THEN "NONE" ELSE @[s]],
            !.ret = [s \in Slots |-> IF s \in done THEN count ELSE @[s]]])
    BY <1>24 DEF KeyboardInt
  <2> DEFINE k == Interrupted
             rq == k.ready_queue \o Keep(TaskOrder, done)
             st == [s \in Slots |-> IF s \in done THEN "READY" ELSE k.state[s]]
             bs == [s \in Slots |-> IF s \in done THEN "NONE" ELSE k.blocked_status[s]]
             re == [s \in Slots |-> IF s \in done THEN count ELSE k.ret[s]]
             k1 == [k EXCEPT !.ready_queue = rq, !.state = st,
                             !.blocked_status = bs, !.ret = re]
  <2>2. Continue(k1)
    BY <1>23, <2>1 DEF KernelStates
  <2>3. TaskOrder \in Seq(Slots)
    <3>1. TaskOrder \in [1..PCB_TABLE_SIZE -> Slots] /\ PCB_TABLE_SIZE \in Nat
      BY TableAssumption DEF TaskOrder, Slots
    <3> QED
      BY <3>1, SeqDef
  <2>4. rq \in Seq(Slots)
    BY <1>23, <2>3, KeepProperties, JoinProperties DEF KernelStates
  <2>5. /\ st \in [Slots -> ProcStates]
        /\ bs \in [Slots -> BlockedStatuses]
        /\ re \in [Slots -> Int]
    <3> HIDE DEF k
    <3>1. /\ k.state \in [Slots -> ProcStates]
          /\ k.blocked_status \in [Slots -> BlockedStatuses]
          /\ k.ret \in [Slots -> Int]
      BY <1>23 DEF KernelStates, k
    <3> QED
      BY <3>1 DEF ProcStates, BlockedStatuses
  <2>6. k1 \in KernelStates
    <3> HIDE DEF rq, st, bs, re
    <3> QED
      BY <1>23, <2>4, <2>5 DEF KernelStates
  <2> HIDE DEF k1
  <2> QED
    BY <1>1, <2>2, <2>6
<1>25. CASE TimerInt
  <2>1. tick(Interrupted) \in KernelStates
    BY <1>23, TickType
  <2>2. (IF proc = IDLE THEN tick(Interrupted)
         ELSE add_pcb_to_ready_queue(tick(Interrupted), proc)) \in KernelStates
    BY <1>3, <2>1, AddTypes
  <2> QED
    BY <1>2, <1>25, <2>2 DEF TimerInt
<1>26. CASE Halted \/ UNCHANGED kern
  BY <1>26 DEF Halted
<1> QED
  BY <1>8, <1>9, <1>10, <1>11, <1>12, <1>13, <1>14, <1>15, <1>16, <1>17, <1>18, <1>19,
     <1>20, <1>21, <1>22, <1>27, <1>24, <1>25, <1>26 DEF Next

\* Whatever the processes do, and whatever the sizes of the tables, every field
\* of every pcb and every queue of c/pcb.c and c/sleep.c has its type: no queue
\* links anything but pcbs, pids stay in 1..PID_MAX when they wrap around, and
\* the running process is a pcb or the idle process.
THEOREM TypeCorrect == Spec => []TypeOK
BY InitType, NextType, PTL DEF Spec

-----------------------------------------------------------------------------
(***************************************************************************)
(* Places.  The invariant follows a pcb through the middle of a handler:   *)
(* the pcbs of a set H are in the handler's hands, on no queue.  Each      *)
(* operator of the process table takes a pcb into H or out of it.          *)
(***************************************************************************)

\* Placed, with the queues as the sets of their entries: ready, blocked,
\* sleeping and stopped.
Where(R, B, S, T, st, bs, H) ==
  /\ \A s \in Slots \ H :
       /\ s \in R <=> st[s] = "READY"
       /\ s \in T <=> st[s] = "STOPPED"
       /\ s \in B <=> st[s] = "BLOCKED" /\ bs[s] \in {"SEND", "RECEIVE", "WAITING"}
       /\ s \in S <=> st[s] = "BLOCKED" /\ bs[s] = "SLEEP"
       /\ st[s] # "RUNNING"
       /\ bs[s] = "NONE" <=> st[s] # "BLOCKED"
  /\ \A s \in H : s \notin R /\ s \notin B /\ s \notin S /\ s \notin T

\* The state between two calls of a handler.  If no process receives from any
\* process, a blocked process waits for a pid (no process has pid 0), so
\* peek_any_receiver() finds none.
Good(k, H) ==
  /\ k \in KernelStates
  /\ H \subseteq Slots
  /\ Placed(k, H)
  /\ ~AnyReceive => \A s \in Elems(k.blocked_queue) : k.blocked_id[s] # 0

\* The pcbs in hand are as they were.
Held(k, k1, H) ==
  \A s \in H : k1.state[s] = k.state[s] /\ k1.blocked_status[s] = k.blocked_status[s]

\* A step of a handler that neither takes a pcb nor gives one back.
Kept(k, k1, H) ==
  Good(k1, H) /\ k1.halt = k.halt /\ k1.process = k.process /\ Held(k, k1, H)

\* Placed depends on the queues only through their entries.
LEMMA PlacedWhere ==
  ASSUME NEW k, NEW H
  PROVE  Placed(k, H) <=>
           /\ NoRepeats(k.ready_queue) /\ NoRepeats(k.blocked_queue)
           /\ NoRepeats(k.sleep_queue) /\ NoRepeats(k.stopped_queue)
           /\ Where(Elems(k.ready_queue), Elems(k.blocked_queue), Elems(k.sleep_queue),
                    Elems(k.stopped_queue), k.state, k.blocked_status, H)
BY DEF Placed, Where, Linked

\* What does not touch a queue, nor the state and what blocks it of a pcb that
\* is not in hand, keeps all in place.
LEMMA GoodKept ==
  ASSUME NEW k, NEW H, Good(k, H), NEW k1 \in KernelStates,
         k1.ready_queue = k.ready_queue, k1.blocked_queue = k.blocked_queue,
         k1.sleep_queue = k.sleep_queue, k1.stopped_queue = k.stopped_queue,
         \A s \in Slots \ H : /\ k1.state[s] = k.state[s]
                              /\ k1.blocked_status[s] = k.blocked_status[s],
         \A s \in Elems(k.blocked_queue) : k1.blocked_id[s] = k.blocked_id[s]
  PROVE  Good(k1, H)
<1>1. Placed(k1, H)
  BY PlacedWhere DEF Good, Where
<1> QED
  BY <1>1 DEF Good

\* add_pcb_to_ready_queue() puts a pcb in hand on the ready queue.
LEMMA AddReady ==
  ASSUME NEW k, NEW H, Good(k, H), NEW p \in H
  PROVE  /\ Good(add_pcb_to_ready_queue(k, p), H \ {p})
         /\ add_pcb_to_ready_queue(k, p).halt = k.halt
         /\ add_pcb_to_ready_queue(k, p).process = k.process
         /\ add_pcb_to_ready_queue(k, p).state = [k.state EXCEPT ![p] = "READY"]
         /\ add_pcb_to_ready_queue(k, p).blocked_status = [k.blocked_status EXCEPT ![p] = "NONE"]
         /\ add_pcb_to_ready_queue(k, p).blocked_queue = k.blocked_queue
<1> DEFINE k1 == add_pcb_to_ready_queue(k, p)
<1>1. k \in KernelStates /\ p \in Slots /\ ~Linked(k, p)
  BY DEF Good, Placed
<1>2. /\ k1.ready_queue = Append(k.ready_queue, p)
      /\ k1.blocked_queue = k.blocked_queue
      /\ k1.sleep_queue = k.sleep_queue
      /\ k1.stopped_queue = k.stopped_queue
      /\ k1.state = [k.state EXCEPT ![p] = "READY"]
      /\ k1.blocked_status = [k.blocked_status EXCEPT ![p] = "NONE"]
      /\ k1.blocked_id = k.blocked_id
      /\ k1.halt = k.halt
      /\ k1.process = k.process
  BY <1>1 DEF add_pcb_to_ready_queue, Offered, KernelStates
<1>3. k1 \in KernelStates
  BY <1>1, AddTypes
<1>4. k.ready_queue \in Seq(Slots)
  BY <1>1 DEF KernelStates
<1>5. /\ Elems(k1.ready_queue) = Elems(k.ready_queue) \cup {p}
      /\ NoRepeats(k.ready_queue) => NoRepeats(k1.ready_queue)
  BY <1>1, <1>2, <1>4, AppendEntry DEF Linked
<1>6. k.state \in [Slots -> ProcStates] /\ k.blocked_status \in [Slots -> BlockedStatuses]
  BY <1>1 DEF KernelStates
<1> HIDE DEF k1
<1>7. Where(Elems(k1.ready_queue), Elems(k1.blocked_queue), Elems(k1.sleep_queue),
            Elems(k1.stopped_queue), k1.state, k1.blocked_status, H \ {p})
  <2>1. Where(Elems(k.ready_queue), Elems(k.blocked_queue), Elems(k.sleep_queue),
              Elems(k.stopped_queue), k.state, k.blocked_status, H)
    BY PlacedWhere DEF Good
  <2>2. ASSUME NEW s \in Slots
        PROVE  /\ k1.state[s] = IF s = p THEN "READY" ELSE k.state[s]
               /\ k1.blocked_status[s] = IF s = p THEN "NONE" ELSE k.blocked_status[s]
    BY <1>1, <1>2, <1>6
  <2> QED
    BY <1>1, <1>2, <1>5, <2>1, <2>2 DEF Where
<1> QED
  <2>1. Placed(k1, H \ {p})
    BY <1>2, <1>5, <1>7, PlacedWhere DEF Good
  <2> QED
    BY <1>2, <1>3, <2>1 DEF Good, k1

\* The same, for a pcb that a handler has taken off another queue.
LEMMA MoveReady ==
  ASSUME NEW k, NEW H, NEW p, p \in Slots, p \notin H, Good(k, H \cup {p})
  PROVE  LET k1 == add_pcb_to_ready_queue(k, p)
         IN  /\ Good(k1, H)
             /\ k1.halt = k.halt /\ k1.process = k.process
             /\ k1.blocked_queue = k.blocked_queue
             /\ Held(k, k1, H)
<1> DEFINE k1 == add_pcb_to_ready_queue(k, p)
<1>1. p \in H \cup {p}
  OBVIOUS
<1>2. /\ Good(k1, (H \cup {p}) \ {p})
      /\ k1.halt = k.halt /\ k1.process = k.process
      /\ k1.state = [k.state EXCEPT ![p] = "READY"]
      /\ k1.blocked_status = [k.blocked_status EXCEPT ![p] = "NONE"]
      /\ k1.blocked_queue = k.blocked_queue
  BY <1>1, AddReady
<1>3. (H \cup {p}) \ {p} = H
  OBVIOUS
<1>4. /\ k.state \in [Slots -> ProcStates] /\ k.blocked_status \in [Slots -> BlockedStatuses]
      /\ H \subseteq Slots
  BY DEF Good, KernelStates
<1> HIDE DEF k1
<1>5. Held(k, k1, H)
  BY <1>2, <1>4 DEF Held
<1> QED
  BY <1>2, <1>3, <1>5 DEF k1

\* add_pcb_to_blocked_queue() puts a pcb in hand, whose reason is set, on the
\* blocked queue.
LEMMA AddBlocked ==
  ASSUME NEW k, NEW H, Good(k, H), NEW p \in H,
         k.blocked_status[p] \in {"SEND", "RECEIVE", "WAITING"},
         ~AnyReceive => k.blocked_id[p] # 0
  PROVE  /\ Good(add_pcb_to_blocked_queue(k, p), H \ {p})
         /\ add_pcb_to_blocked_queue(k, p).halt = k.halt
         /\ add_pcb_to_blocked_queue(k, p).process = k.process
         /\ add_pcb_to_blocked_queue(k, p).pid = k.pid
<1> DEFINE k1 == add_pcb_to_blocked_queue(k, p)
<1>1. k \in KernelStates /\ p \in Slots /\ ~Linked(k, p)
  BY DEF Good, Placed
<1>2. /\ k1.ready_queue = k.ready_queue
      /\ k1.blocked_queue = Append(k.blocked_queue, p)
      /\ k1.sleep_queue = k.sleep_queue
      /\ k1.stopped_queue = k.stopped_queue
      /\ k1.state = [k.state EXCEPT ![p] = "BLOCKED"]
      /\ k1.blocked_status = k.blocked_status
      /\ k1.blocked_id = k.blocked_id
      /\ k1.halt = k.halt
      /\ k1.process = k.process
      /\ k1.pid = k.pid
  BY <1>1 DEF add_pcb_to_blocked_queue, Offered, KernelStates
<1>3. k1 \in KernelStates
  BY <1>1, AddTypes
<1>4. k.blocked_queue \in Seq(Slots)
  BY <1>1 DEF KernelStates
<1>5. /\ Elems(k1.blocked_queue) = Elems(k.blocked_queue) \cup {p}
      /\ NoRepeats(k.blocked_queue) => NoRepeats(k1.blocked_queue)
  BY <1>1, <1>2, <1>4, AppendEntry DEF Linked
<1>6. k.state \in [Slots -> ProcStates]
  BY <1>1 DEF KernelStates
<1> HIDE DEF k1
<1>7. Where(Elems(k1.ready_queue), Elems(k1.blocked_queue), Elems(k1.sleep_queue),
            Elems(k1.stopped_queue), k1.state, k1.blocked_status, H \ {p})
  <2>1. Where(Elems(k.ready_queue), Elems(k.blocked_queue), Elems(k.sleep_queue),
              Elems(k.stopped_queue), k.state, k.blocked_status, H)
    BY PlacedWhere DEF Good
  <2>2. ASSUME NEW s \in Slots PROVE k1.state[s] = IF s = p THEN "BLOCKED" ELSE k.state[s]
    BY <1>1, <1>2, <1>6
  <2> QED
    BY <1>1, <1>2, <1>5, <2>1, <2>2 DEF Where
<1> QED
  <2>1. Placed(k1, H \ {p})
    BY <1>2, <1>5, <1>7, PlacedWhere DEF Good
  <2>2. ~AnyReceive => \A s \in Elems(k1.blocked_queue) : k1.blocked_id[s] # 0
    BY <1>2, <1>5 DEF Good
  <2> QED
    BY <1>2, <1>3, <2>1, <2>2 DEF Good, k1

\* Block() sets the reason and blocks the pcb in hand.
LEMMA BlockGood ==
  ASSUME NEW k, NEW H, Good(k, H), NEW p \in H,
         NEW status \in {"SEND", "RECEIVE", "WAITING"}, NEW id \in 0..PID_MAX,
         ~AnyReceive => id # 0
  PROVE  /\ Good(Block(k, p, status, id), H \ {p})
         /\ Block(k, p, status, id).halt = k.halt
         /\ Block(k, p, status, id).process = k.process
<1> DEFINE k0 == [k EXCEPT !.blocked_status[p] = status, !.blocked_id[p] = id]
<1>1. k \in KernelStates /\ p \in Slots /\ status \in BlockedStatuses
  BY DEF Good, BlockedStatuses
<1>2. k0 \in KernelStates
  BY <1>1 DEF KernelStates
<1>3. /\ k0.ready_queue = k.ready_queue /\ k0.blocked_queue = k.blocked_queue
      /\ k0.sleep_queue = k.sleep_queue /\ k0.stopped_queue = k.stopped_queue
      /\ k0.halt = k.halt /\ k0.process = k.process
      /\ k0.state = k.state
      /\ \A s \in Slots \ H : /\ k0.blocked_status[s] = k.blocked_status[s]
                              /\ k0.blocked_id[s] = k.blocked_id[s]
      /\ k0.blocked_status[p] = status /\ k0.blocked_id[p] = id
  BY <1>1 DEF KernelStates
<1> HIDE DEF k0
<1>4. Good(k0, H)
  <2>1. Elems(k.blocked_queue) \subseteq Slots \ H
    BY <1>1, ElemsProperties DEF Good, Placed, Linked, KernelStates
  <2> QED
    BY <1>2, <1>3, <2>1, GoodKept
<1>5. Block(k, p, status, id) = add_pcb_to_blocked_queue(k0, p)
  BY DEF Block, k0
<1> QED
  BY <1>3, <1>4, <1>5, AddBlocked

\* remove_pcb_from_blocked_queue() takes a pcb into the handler's hands.
LEMMA RemoveBlocked ==
  ASSUME NEW k, NEW H, Good(k, H), NEW p \in Elems(k.blocked_queue)
  PROVE  LET k1 == remove_pcb_from_blocked_queue(k, p)
         IN  /\ Good(k1, H \cup {p})
             /\ k1.halt = k.halt /\ k1.process = k.process /\ k1.pid = k.pid
             /\ k1.blocked_id = k.blocked_id /\ k1.blocked_status = k.blocked_status
             /\ k1.state = k.state
             /\ p \in Slots /\ p \notin H
             /\ k.blocked_status[p] \in {"SEND", "RECEIVE", "WAITING"}
             /\ ~AnyReceive => k.blocked_id[p] # 0
<1> DEFINE k1 == remove_pcb_from_blocked_queue(k, p)
<1>1. k \in KernelStates /\ k.blocked_queue \in Seq(Slots)
  BY DEF Good, KernelStates
<1>2. p \in Slots \ H
  BY <1>1, ElemsProperties DEF Good, Placed, Linked
<1>3. /\ k1.ready_queue = k.ready_queue
      /\ k1.blocked_queue = pcb_remove(k.blocked_queue, p)
      /\ k1.sleep_queue = k.sleep_queue
      /\ k1.stopped_queue = k.stopped_queue
      /\ k1.state = k.state
      /\ k1.blocked_status = k.blocked_status
      /\ k1.blocked_id = k.blocked_id
      /\ k1.halt = k.halt /\ k1.process = k.process /\ k1.pid = k.pid
  BY <1>1 DEF remove_pcb_from_blocked_queue, KernelStates
<1>4. k1 \in KernelStates
  BY <1>1, RemoveTypes
<1>5. /\ Elems(k1.blocked_queue) = Elems(k.blocked_queue) \ {p}
      /\ NoRepeats(k.blocked_queue) => NoRepeats(k1.blocked_queue)
  BY <1>1, <1>3, RemoveProperties
<1> HIDE DEF k1
<1>6. Where(Elems(k.ready_queue), Elems(k.blocked_queue), Elems(k.sleep_queue),
            Elems(k.stopped_queue), k.state, k.blocked_status, H)
  BY PlacedWhere DEF Good
<1>7. Where(Elems(k1.ready_queue), Elems(k1.blocked_queue), Elems(k1.sleep_queue),
            Elems(k1.stopped_queue), k1.state, k1.blocked_status, H \cup {p})
  BY <1>2, <1>3, <1>5, <1>6 DEF Where
<1>8. Good(k1, H \cup {p})
  <2>1. Placed(k1, H \cup {p})
    BY <1>3, <1>5, <1>7, PlacedWhere DEF Good
  <2> QED
    BY <1>2, <1>3, <1>4, <1>5, <2>1 DEF Good
<1>9. /\ k.blocked_status[p] \in {"SEND", "RECEIVE", "WAITING"}
      /\ ~AnyReceive => k.blocked_id[p] # 0
  BY <1>2, <1>6 DEF Where, Good
<1> QED
  BY <1>2, <1>3, <1>8, <1>9 DEF k1

\* unblock_pcb_waiting_for_pid() moves what waits for the pid to the ready queue.
LEMMA UnblockGood ==
  ASSUME NEW k, NEW H, Good(k, H), NEW id
  PROVE  LET k1 == unblock_pcb_waiting_for_pid(k, id)
         IN  /\ Good(k1, H)
             /\ k1.halt = k.halt /\ k1.process = k.process
             /\ Held(k, k1, H)
<1> DEFINE k1 == unblock_pcb_waiting_for_pid(k, id)
           hit == {p \in Elems(k.blocked_queue) : k.blocked_id[p] = id}
<1>1. k \in KernelStates /\ k.blocked_queue \in Seq(Slots) /\ k.ready_queue \in Seq(Slots)
  BY DEF Good, KernelStates
<1>2. hit \subseteq Slots \ H /\ Elems(k.blocked_queue) \subseteq Slots
  BY <1>1, ElemsProperties DEF Good, Placed, Linked
<1>3. /\ k1.ready_queue = k.ready_queue \o Keep(k.blocked_queue, hit)
      /\ k1.blocked_queue = Keep(k.blocked_queue, Slots \ hit)
      /\ k1.sleep_queue = k.sleep_queue
      /\ k1.stopped_queue = k.stopped_queue
      /\ k1.state = [p \in Slots |-> IF p \in hit THEN "READY" ELSE k.state[p]]
      /\ k1.blocked_status = [p \in Slots |-> IF p \in hit THEN "NONE" ELSE k.blocked_status[p]]
      /\ k1.blocked_id = [p \in Slots |-> IF p \in hit THEN 0 ELSE k.blocked_id[p]]
      /\ k1.halt = k.halt /\ k1.process = k.process
  BY <1>1 DEF unblock_pcb_waiting_for_pid, KernelStates
<1>4. k1 \in KernelStates
  BY <1>1, UnblockType
<1> HIDE DEF k1, hit
<1>5. /\ Keep(k.blocked_queue, hit) \in Seq(Slots)
      /\ Elems(Keep(k.blocked_queue, hit)) = Elems(k.blocked_queue) \cap hit
      /\ NoRepeats(k.blocked_queue) => NoRepeats(Keep(k.blocked_queue, hit))
      /\ Elems(k1.blocked_queue) = Elems(k.blocked_queue) \cap (Slots \ hit)
      /\ NoRepeats(k.blocked_queue) => NoRepeats(k1.blocked_queue)
  BY <1>1, <1>3, KeepProperties
<1>6. Elems(k.blocked_queue) \cap hit = hit
  BY DEF hit
<1>7. Where(Elems(k.ready_queue), Elems(k.blocked_queue), Elems(k.sleep_queue),
            Elems(k.stopped_queue), k.state, k.blocked_status, H)
  BY PlacedWhere DEF Good
<1>8. Elems(k.ready_queue) \cap hit = {}
  BY <1>2, <1>6, <1>7 DEF Where
<1>9. /\ Elems(k1.ready_queue) = Elems(k.ready_queue) \cup hit
      /\ NoRepeats(k.ready_queue) /\ NoRepeats(k.blocked_queue) => NoRepeats(k1.ready_queue)
  BY <1>1, <1>3, <1>5, <1>6, <1>8, JoinProperties
<1>10. Where(Elems(k1.ready_queue), Elems(k1.blocked_queue), Elems(k1.sleep_queue),
             Elems(k1.stopped_queue), k1.state, k1.blocked_status, H)
  <2>1. ASSUME NEW s \in Slots
        PROVE  /\ k1.state[s] = IF s \in hit THEN "READY" ELSE k.state[s]
               /\ k1.blocked_status[s] = IF s \in hit THEN "NONE" ELSE k.blocked_status[s]
               /\ s \in Elems(k1.blocked_queue) <=> s \in Elems(k.blocked_queue) /\ s \notin hit
               /\ s \in Elems(k1.ready_queue) <=> s \in Elems(k.ready_queue) \/ s \in hit
    BY <1>3, <1>5, <1>9
  <2>2. \A s \in hit : s \in Elems(k.blocked_queue) /\ s \notin H
    BY <1>2, <1>6
  <2>3. H \subseteq Slots
    BY DEF Good
  <2>4. ASSUME NEW s \in Slots \ H
        PROVE  /\ s \in Elems(k1.ready_queue) <=> k1.state[s] = "READY"
               /\ s \in Elems(k1.stopped_queue) <=> k1.state[s] = "STOPPED"
               /\ s \in Elems(k1.blocked_queue)
                    <=> /\ k1.state[s] = "BLOCKED"
                        /\ k1.blocked_status[s] \in {"SEND", "RECEIVE", "WAITING"}
               /\ s \in Elems(k1.sleep_queue)
                    <=> k1.state[s] = "BLOCKED" /\ k1.blocked_status[s] = "SLEEP"
               /\ k1.state[s] # "RUNNING"
               /\ k1.blocked_status[s] = "NONE" <=> k1.state[s] # "BLOCKED"
    <3>1. CASE s \in hit
      BY <1>3, <1>7, <2>1, <2>2, <3>1 DEF Where
    <3>2. CASE s \notin hit
      BY <1>3, <1>7, <2>1, <3>2, ZenonT(40) DEF Where
    <3> QED
      BY <3>1, <3>2
  <2>5. ASSUME NEW s \in H
        PROVE  /\ s \notin Elems(k1.ready_queue) /\ s \notin Elems(k1.blocked_queue)
               /\ s \notin Elems(k1.sleep_queue) /\ s \notin Elems(k1.stopped_queue)
    BY <1>3, <1>7, <2>1, <2>2, <2>3 DEF Where
  <2> QED
    BY <2>4, <2>5 DEF Where
<1>11. Good(k1, H)
  <2>1. Placed(k1, H)
    BY <1>3, <1>5, <1>9, <1>10, PlacedWhere DEF Good
  <2>2. ~AnyReceive => \A s \in Elems(k1.blocked_queue) : k1.blocked_id[s] # 0
    BY <1>3, <1>5 DEF Good
  <2> QED
    BY <1>4, <2>1, <2>2 DEF Good
<1>12. Held(k, k1, H)
  BY <1>2, <1>3 DEF Good, Held
<1> QED
  BY <1>3, <1>11, <1>12 DEF k1

\* add_pcb_to_stopped_queue() puts a pcb in hand, that is blocked on nothing, on
\* the stopped queue.
LEMMA AddStopped ==
  ASSUME NEW k, NEW H, Good(k, H), NEW p \in H, k.blocked_status[p] = "NONE"
  PROVE  /\ Good(add_pcb_to_stopped_queue(k, p), H \ {p})
         /\ add_pcb_to_stopped_queue(k, p).halt = k.halt
<1> DEFINE k1 == add_pcb_to_stopped_queue(k, p)
<1>1. k \in KernelStates /\ p \in Slots /\ ~Linked(k, p)
  BY DEF Good, Placed
<1>2. /\ k1.ready_queue = k.ready_queue
      /\ k1.blocked_queue = k.blocked_queue
      /\ k1.sleep_queue = k.sleep_queue
      /\ k1.stopped_queue = Append(k.stopped_queue, p)
      /\ k1.state = [k.state EXCEPT ![p] = "STOPPED"]
      /\ k1.blocked_status = k.blocked_status
      /\ k1.blocked_id = k.blocked_id
      /\ k1.halt = k.halt
  BY <1>1 DEF add_pcb_to_stopped_queue, Offered, KernelStates
<1>3. k1 \in KernelStates
  BY <1>1, AddTypes
<1>4. k.stopped_queue \in Seq(Slots) /\ k.state \in [Slots -> ProcStates]
  BY <1>1 DEF KernelStates
<1>5. /\ Elems(k1.stopped_queue) = Elems(k.stopped_queue) \cup {p}
      /\ NoRepeats(k.stopped_queue) => NoRepeats(k1.stopped_queue)
  BY <1>1, <1>2, <1>4, AppendEntry DEF Linked
<1> HIDE DEF k1
<1>6. Where(Elems(k1.ready_queue), Elems(k1.blocked_queue), Elems(k1.sleep_queue),
            Elems(k1.stopped_queue), k1.state, k1.blocked_status, H \ {p})
  <2>1. Where(Elems(k.ready_queue), Elems(k.blocked_queue), Elems(k.sleep_queue),
              Elems(k.stopped_queue), k.state, k.blocked_status, H)
    BY PlacedWhere DEF Good
  <2>2. ASSUME NEW s \in Slots PROVE k1.state[s] = IF s = p THEN "STOPPED" ELSE k.state[s]
    BY <1>1, <1>2, <1>4
  <2> QED
    BY <1>1, <1>2, <1>5, <2>1, <2>2 DEF Where
<1> QED
  <2>1. Placed(k1, H \ {p})
    BY <1>2, <1>5, <1>6, PlacedWhere DEF Good
  <2> QED
    BY <1>2, <1>3, <2>1 DEF Good, k1

\* A pcb in hand is on no queue, so removing it from one changes nothing.
LEMMA RemoveHeld ==
  ASSUME NEW k, NEW H, Good(k, H), NEW p \in H,
         NEW k1 \in {remove_pcb_from_ready_queue(k, p), remove_pcb_from_blocked_queue(k, p),
                     remove_pcb_from_sleep_queue(k, p)}
  PROVE  /\ Good(k1, H)
         /\ k1.halt = k.halt /\ k1.process = k.process /\ k1.pid = k.pid
         /\ k1.state = k.state /\ k1.blocked_status = k.blocked_status
<1>1. k \in KernelStates /\ ~Linked(k, p)
  BY DEF Good, Placed
<1>2. /\ k.ready_queue \in Seq(Slots) /\ k.blocked_queue \in Seq(Slots)
      /\ k.sleep_queue \in Seq(Slots)
  BY <1>1 DEF KernelStates
<1>3. /\ k1.ready_queue \in {k.ready_queue, pcb_remove(k.ready_queue, p)}
      /\ k1.blocked_queue \in {k.blocked_queue, pcb_remove(k.blocked_queue, p)}
      /\ k1.sleep_queue \in {k.sleep_queue, pcb_remove(k.sleep_queue, p)}
      /\ k1.stopped_queue = k.stopped_queue
      /\ k1.state = k.state
      /\ k1.blocked_status = k.blocked_status
      /\ k1.blocked_id = k.blocked_id
      /\ k1.halt = k.halt /\ k1.process = k.process /\ k1.pid = k.pid
  BY <1>1 DEF remove_pcb_from_ready_queue, remove_pcb_from_blocked_queue,
              remove_pcb_from_sleep_queue, KernelStates
<1>4. k1 \in KernelStates
  BY <1>1, RemoveTypes
<1>5. ASSUME NEW q \in Seq(Slots), p \notin Elems(q), NEW r \in {q, pcb_remove(q, p)}
      PROVE  Elems(r) = Elems(q) /\ (NoRepeats(q) => NoRepeats(r))
  <2>1. /\ Elems(pcb_remove(q, p)) = Elems(q) \ {p}
        /\ NoRepeats(q) => NoRepeats(pcb_remove(q, p))
    BY RemoveProperties
  <2>2. Elems(q) \ {p} = Elems(q)
    BY <1>5
  <2> QED
    BY <1>5, <2>1, <2>2
<1>6. /\ Elems(k1.ready_queue) = Elems(k.ready_queue)
      /\ Elems(k1.blocked_queue) = Elems(k.blocked_queue)
      /\ Elems(k1.sleep_queue) = Elems(k.sleep_queue)
      /\ NoRepeats(k.ready_queue) => NoRepeats(k1.ready_queue)
      /\ NoRepeats(k.blocked_queue) => NoRepeats(k1.blocked_queue)
      /\ NoRepeats(k.sleep_queue) => NoRepeats(k1.sleep_queue)
  BY <1>1, <1>2, <1>3, <1>5 DEF Linked
<1>7. Placed(k1, H)
  BY <1>3, <1>6, PlacedWhere DEF Good
<1> QED
  BY <1>3, <1>4, <1>6, <1>7 DEF Good

\* cleanup_pcb() moves the process in hand, which runs, to the stopped queue.
LEMMA CleanupGood ==
  ASSUME NEW k, NEW H, Good(k, H), NEW p \in H, k.blocked_status[p] = "NONE"
  PROVE  Good(cleanup_pcb(k, p), H \ {p}) /\ cleanup_pcb(k, p).halt = k.halt
<1> DEFINE k1 == remove_pcb_from_ready_queue(k, p)
           k2 == remove_pcb_from_blocked_queue(k1, p)
           k3 == remove_pcb_from_sleep_queue(k2, p)
           k4 == unblock_pcb_waiting_for_pid(k3, k3.pid[p])
           k5 == add_pcb_to_stopped_queue(k4, p)
           k6 == [k5 EXCEPT !.frames[p] = << >>, !.signal_table[p] = [g \in Signals |-> "junk"]]
<1>1. Good(k1, H) /\ k1.halt = k.halt /\ k1.blocked_status = k.blocked_status
  BY RemoveHeld
<1> HIDE DEF k1
<1>2. Good(k2, H) /\ k2.halt = k.halt /\ k2.blocked_status = k.blocked_status
  BY <1>1, RemoveHeld
<1> HIDE DEF k2
<1>3. Good(k3, H) /\ k3.halt = k.halt /\ k3.blocked_status = k.blocked_status
  BY <1>2, RemoveHeld
<1> HIDE DEF k3
<1>4. Good(k4, H) /\ k4.halt = k.halt /\ k4.blocked_status[p] = "NONE"
  BY <1>3, UnblockGood DEF Held
<1> HIDE DEF k4
<1>5. Good(k5, H \ {p}) /\ k5.halt = k.halt
  BY <1>4, AddStopped
<1>6. k \in KernelStates /\ p \in Slots
  BY DEF Good
<1>7. cleanup_pcb(k, p) = k6
  BY DEF cleanup_pcb, k1, k2, k3, k4
<1>8. k6 \in KernelStates
  BY <1>6, <1>7, CleanupType
<1> HIDE DEF k5
<1>9. /\ k6.ready_queue = k5.ready_queue /\ k6.blocked_queue = k5.blocked_queue
      /\ k6.sleep_queue = k5.sleep_queue /\ k6.stopped_queue = k5.stopped_queue
      /\ k6.state = k5.state /\ k6.blocked_status = k5.blocked_status
      /\ k6.blocked_id = k5.blocked_id /\ k6.halt = k5.halt
  BY <1>5 DEF Good, KernelStates
<1> HIDE DEF k6
<1>10. Good(k6, H \ {p})
  BY <1>5, <1>8, <1>9, GoodKept
<1> QED
  BY <1>5, <1>7, <1>9, <1>10

\* What a state of the running system promises: a kernel that runs has all in
\* place, with the process that runs in hand.
Safe(k) ==
  /\ k \in KernelStates
  /\ ~AnyReceive => k.halt # "corrupt"
  /\ k.halt = "no" =>
       /\ Good(k, {k.process} \ {IDLE})
       /\ k.process # IDLE => /\ k.state[k.process] = "RUNNING"
                              /\ k.blocked_status[k.process] = "NONE"

\* get_next_pcb() takes the first ready process in hand.
LEMMA GetNextSafe ==
  ASSUME NEW k, Good(k, {}), ~AnyReceive => k.halt # "corrupt"
  PROVE  Safe(get_next_pcb(k))
<1> DEFINE k1 == get_next_pcb(k)
<1>1. k \in KernelStates /\ k.ready_queue \in Seq(Slots)
  BY DEF Good, KernelStates
<1>2. k1 \in KernelStates
  BY <1>1, GetNextType
<1>3. k1.halt = k.halt
  BY <1>1 DEF get_next_pcb, KernelStates
<1>4. CASE k.ready_queue = << >>
  <2>1. k1 = [k EXCEPT !.process = IDLE]
    BY <1>4 DEF get_next_pcb
  <2>2. /\ k1.process = IDLE
        /\ k1.ready_queue = k.ready_queue /\ k1.blocked_queue = k.blocked_queue
        /\ k1.sleep_queue = k.sleep_queue /\ k1.stopped_queue = k.stopped_queue
        /\ k1.state = k.state /\ k1.blocked_status = k.blocked_status
        /\ k1.blocked_id = k.blocked_id
    BY <1>1, <2>1 DEF KernelStates
  <2> HIDE DEF k1
  <2>3. Good(k1, {})
    BY <1>2, <2>2, GoodKept
  <2>4. {k1.process} \ {IDLE} = {}
    BY <2>2
  <2> QED
    BY <1>2, <1>3, <2>2, <2>3, <2>4 DEF Safe, k1
<1>5. CASE k.ready_queue # << >>
  <2> DEFINE p == Head(k.ready_queue)
  <2>1. /\ p \in Slots
        /\ Elems(k.ready_queue) = {p} \cup Elems(Tail(k.ready_queue))
        /\ NoRepeats(k.ready_queue)
             => NoRepeats(Tail(k.ready_queue)) /\ p \notin Elems(Tail(k.ready_queue))
    BY <1>1, <1>5, PollProperties
  <2>2. /\ k1.process = p
        /\ k1.ready_queue = Tail(k.ready_queue)
        /\ k1.blocked_queue = k.blocked_queue
        /\ k1.sleep_queue = k.sleep_queue
        /\ k1.stopped_queue = k.stopped_queue
        /\ k1.state = [k.state EXCEPT ![p] = "RUNNING"]
        /\ k1.blocked_status = k.blocked_status
        /\ k1.blocked_id = k.blocked_id
    BY <1>1, <1>5 DEF get_next_pcb, KernelStates
  <2>3. k.state \in [Slots -> ProcStates]
    BY <1>1 DEF KernelStates
  <2>4. p # IDLE
    BY <2>1, SlotsNotNull
  <2> HIDE DEF k1, p
  <2>5. Where(Elems(k.ready_queue), Elems(k.blocked_queue), Elems(k.sleep_queue),
              Elems(k.stopped_queue), k.state, k.blocked_status, {})
    BY PlacedWhere DEF Good
  <2>6. k1.state[p] = "RUNNING" /\ k1.blocked_status[p] = "NONE" /\ k.state[p] = "READY"
    BY <2>1, <2>2, <2>3, <2>5 DEF Where
  <2>7. NoRepeats(k.ready_queue)
    BY PlacedWhere DEF Good
  <2>8. Where(Elems(k1.ready_queue), Elems(k1.blocked_queue), Elems(k1.sleep_queue),
              Elems(k1.stopped_queue), k1.state, k1.blocked_status, {p})
    <3>1. ASSUME NEW s \in Slots, s # p
          PROVE  /\ k1.state[s] = k.state[s]
                 /\ s \in Elems(k1.ready_queue) <=> s \in Elems(k.ready_queue)
      BY <2>1, <2>2, <2>3, <3>1
    <3>2. /\ p \notin Elems(k1.ready_queue) /\ p \notin Elems(k1.blocked_queue)
          /\ p \notin Elems(k1.sleep_queue) /\ p \notin Elems(k1.stopped_queue)
      BY <2>1, <2>2, <2>5, <2>6, <2>7 DEF Where
    <3> QED
      BY <2>2, <2>5, <3>1, <3>2 DEF Where
  <2>9. Placed(k1, {p})
    BY <2>1, <2>2, <2>7, <2>8, PlacedWhere DEF Good
  <2>10. Good(k1, {p})
    BY <1>2, <2>1, <2>2, <2>9 DEF Good
  <2>11. {k1.process} \ {IDLE} = {p}
    BY <2>2, <2>4
  <2> QED
    BY <1>2, <1>3, <2>2, <2>6, <2>10, <2>11 DEF Safe, k1
<1> QED
  BY <1>4, <1>5

\* Waking the first n sleepers moves them to the ready queue.
LEMMA WakeFirstGood ==
  ASSUME NEW k, NEW H, Good(k, H), NEW n \in 0..Len(k.sleep_queue)
  PROVE  LET k1 == WakeFirst(k, n)
         IN  /\ Good(k1, H)
             /\ k1.halt = k.halt /\ k1.process = k.process
             /\ Held(k, k1, H)
<1> DEFINE k1 == WakeFirst(k, n)
           q == k.sleep_queue
           first == SubSeq(q, 1, n)
           rest == SubSeq(q, n + 1, Len(q))
           woken == Elems(first)
<1>1. k \in KernelStates /\ q \in Seq(Slots) /\ k.ready_queue \in Seq(Slots)
  BY DEF Good, KernelStates
<1>2. /\ Len(q) \in Nat /\ n \in Nat /\ n <= Len(q)
      /\ 1 \in 1..(Len(q) + 1) /\ n + 1 \in 1..(Len(q) + 1) /\ Len(q) \in 0..Len(q)
      /\ \A x : x \in Elems(q) <=> \E i \in 1..Len(q) : q[i] = x
      /\ DOMAIN q = 1..Len(q)
      /\ Elems(q) \subseteq Slots
  BY <1>1, ElemsProperties
<1>3. /\ first \in Seq(Slots) /\ rest \in Seq(Slots)
      /\ \A x : x \in Elems(first) <=> \E i \in 1..n : q[i] = x
      /\ \A x : x \in Elems(rest) <=> \E i \in (n + 1)..Len(q) : q[i] = x
      /\ NoRepeats(q) => NoRepeats(first) /\ NoRepeats(rest)
  BY <1>1, <1>2, PartProperties
<1>4. NoRepeats(q) /\ NoRepeats(k.ready_queue)
  BY PlacedWhere DEF Good
<1>5. \A x : x \in Elems(q) <=> x \in woken \/ x \in Elems(rest)
  BY <1>2, <1>3
<1>6. \A x : ~(x \in woken /\ x \in Elems(rest))
  <2> SUFFICES ASSUME NEW i \in 1..n, NEW j \in (n + 1)..Len(q), q[i] = q[j] PROVE FALSE
    BY <1>3
  <2>1. i \in DOMAIN q /\ j \in DOMAIN q /\ i # j
    BY <1>2
  <2> QED
    BY <1>4, <2>1 DEF NoRepeats
<1>7. /\ k1.ready_queue = k.ready_queue \o first
      /\ k1.sleep_queue = rest
      /\ k1.blocked_queue = k.blocked_queue
      /\ k1.stopped_queue = k.stopped_queue
      /\ k1.state = [p \in Slots |-> IF p \in woken THEN "READY" ELSE k.state[p]]
      /\ k1.blocked_status = [p \in Slots |-> IF p \in woken THEN "NONE" ELSE k.blocked_status[p]]
      /\ k1.blocked_id = k.blocked_id
      /\ k1.halt = k.halt /\ k1.process = k.process
  BY <1>1 DEF WakeFirst, KernelStates
<1>8. k1 \in KernelStates
  BY <1>1, WakeFirstType
<1> HIDE DEF k1, q, first, rest, woken
<1>9. Where(Elems(k.ready_queue), Elems(k.blocked_queue), Elems(q),
            Elems(k.stopped_queue), k.state, k.blocked_status, H)
  BY PlacedWhere DEF Good, q
<1>10. woken \subseteq Slots \ H /\ Elems(k.ready_queue) \cap woken = {}
  BY <1>2, <1>5, <1>9 DEF Where
<1>11. Elems(k1.ready_queue) = Elems(k.ready_queue) \cup woken /\ NoRepeats(k1.ready_queue)
  BY <1>1, <1>3, <1>4, <1>7, <1>10, JoinProperties DEF woken
<1>12. Where(Elems(k1.ready_queue), Elems(k1.blocked_queue), Elems(k1.sleep_queue),
             Elems(k1.stopped_queue), k1.state, k1.blocked_status, H)
  <2>1. ASSUME NEW s \in Slots
        PROVE  /\ k1.state[s] = IF s \in woken THEN "READY" ELSE k.state[s]
               /\ k1.blocked_status[s] = IF s \in woken THEN "NONE" ELSE k.blocked_status[s]
               /\ s \in Elems(k1.sleep_queue) <=> s \in Elems(q) /\ s \notin woken
               /\ s \in Elems(k1.ready_queue) <=> s \in Elems(k.ready_queue) \/ s \in woken
    BY <1>5, <1>6, <1>7, <1>11
  <2>2. \A s \in woken : s \in Elems(q) /\ s \notin H
    BY <1>5, <1>10
  <2>3. H \subseteq Slots
    BY DEF Good
  <2>4. ASSUME NEW s \in Slots \ H
        PROVE  /\ s \in Elems(k1.ready_queue) <=> k1.state[s] = "READY"
               /\ s \in Elems(k1.stopped_queue) <=> k1.state[s] = "STOPPED"
               /\ s \in Elems(k1.blocked_queue)
                    <=> /\ k1.state[s] = "BLOCKED"
                        /\ k1.blocked_status[s] \in {"SEND", "RECEIVE", "WAITING"}
               /\ s \in Elems(k1.sleep_queue)
                    <=> k1.state[s] = "BLOCKED" /\ k1.blocked_status[s] = "SLEEP"
               /\ k1.state[s] # "RUNNING"
               /\ k1.blocked_status[s] = "NONE" <=> k1.state[s] # "BLOCKED"
    <3>1. CASE s \in woken
      BY <1>7, <1>9, <2>1, <2>2, <3>1 DEF Where
    <3>2. CASE s \notin woken
      BY <1>7, <1>9, <2>1, <3>2 DEF Where
    <3> QED
      BY <3>1, <3>2
  <2>5. ASSUME NEW s \in H
        PROVE  /\ s \notin Elems(k1.ready_queue) /\ s \notin Elems(k1.blocked_queue)
               /\ s \notin Elems(k1.sleep_queue) /\ s \notin Elems(k1.stopped_queue)
    BY <1>7, <1>9, <2>1, <2>2, <2>3 DEF Where
  <2> QED
    BY <2>4, <2>5 DEF Where
<1>13. Good(k1, H)
  <2>1. Placed(k1, H)
    BY <1>3, <1>4, <1>7, <1>11, <1>12, PlacedWhere DEF Good
  <2> QED
    BY <1>7, <1>8, <2>1 DEF Good
<1>14. Held(k, k1, H)
  BY <1>7, <1>10 DEF Good, Held
<1> QED
  BY <1>7, <1>13, <1>14 DEF k1

\* A clock tick keeps what is in hand and moves those that wake up.
LEMMA TickGood ==
  ASSUME NEW k, NEW H, Good(k, H)
  PROVE  LET k1 == tick(k)
         IN  /\ Good(k1, H)
             /\ k1.halt = k.halt /\ k1.process = k.process
             /\ Held(k, k1, H)
<1> DEFINE head == Head(k.sleep_queue)
           k1 == [k EXCEPT !.ret[head] = @ - 1]
<1>1. k \in KernelStates
  BY DEF Good
<1>2. CASE k.sleep_queue = << >>
  BY <1>2 DEF tick, Held
<1>3. CASE k.sleep_queue # << >>
  <2>1. head \in Slots
    BY <1>1, <1>3, PollProperties DEF KernelStates
  <2>3. tick(k) = WakeFirst(k1, Due(k1))
    BY <1>3 DEF tick
  <2> HIDE DEF head
  <2>2. /\ k1 \in KernelStates
        /\ k1.ready_queue = k.ready_queue /\ k1.blocked_queue = k.blocked_queue
        /\ k1.sleep_queue = k.sleep_queue /\ k1.stopped_queue = k.stopped_queue
        /\ k1.state = k.state /\ k1.blocked_status = k.blocked_status
        /\ k1.blocked_id = k.blocked_id
        /\ k1.halt = k.halt /\ k1.process = k.process
    <3>1. k.ret[head] - 1 \in Int
      BY <1>1, <2>1 DEF KernelStates
    <3>2. [k.ret EXCEPT ![head] = k.ret[head] - 1] \in [Slots -> Int]
      BY <1>1, <2>1, <3>1 DEF KernelStates
    <3> QED
      BY <1>1, <3>2 DEF KernelStates
  <2> HIDE DEF k1
  <2>4. Good(k1, H)
    BY <2>2, GoodKept
  <2>5. Due(k1) \in 0..Len(k1.sleep_queue)
    BY <2>2, DueType
  <2> QED
    BY <2>2, <2>3, <2>4, <2>5, WakeFirstGood DEF Held
<1> QED
  BY <1>2, <1>3

\* add_pcb_to_sleep_queue() puts the pcb in hand to sleep.
LEMMA SleepGood ==
  ASSUME NEW k, NEW H, Good(k, H), NEW p \in H, NEW ticks \in Int
  PROVE  /\ Good(add_pcb_to_sleep_queue(k, p, ticks), H \ {p})
         /\ add_pcb_to_sleep_queue(k, p, ticks).halt = k.halt
<1> DEFINE k1 == add_pcb_to_sleep_queue(k, p, ticks)
           n == Behind(k, ticks)
<1>1. /\ k \in KernelStates /\ p \in Slots /\ ~Linked(k, p)
      /\ k.sleep_queue \in Seq(Slots)
  BY DEF Good, Placed, KernelStates
<1>2. n \in 0..Len(k.sleep_queue)
  BY <1>1, BehindType
<1> HIDE DEF n
<1>3. /\ k1.ready_queue = k.ready_queue
      /\ k1.blocked_queue = k.blocked_queue
      /\ k1.sleep_queue = InsertAt(k.sleep_queue, n, p)
      /\ k1.stopped_queue = k.stopped_queue
      /\ k1.state = [k.state EXCEPT ![p] = "BLOCKED"]
      /\ k1.blocked_status = [k.blocked_status EXCEPT ![p] = "SLEEP"]
      /\ k1.blocked_id = k.blocked_id
      /\ k1.halt = k.halt
  BY <1>1 DEF add_pcb_to_sleep_queue, Offered, KernelStates, n
<1>4. k1 \in KernelStates
  BY <1>1, SleepType
<1>5. /\ Elems(k1.sleep_queue) = Elems(k.sleep_queue) \cup {p}
      /\ NoRepeats(k.sleep_queue) => NoRepeats(k1.sleep_queue)
  <2>1. p \notin Elems(k.sleep_queue)
    BY <1>1 DEF Linked
  <2>2. /\ Elems(InsertAt(k.sleep_queue, n, p)) = Elems(k.sleep_queue) \cup {p}
        /\ NoRepeats(k.sleep_queue) /\ p \notin Elems(k.sleep_queue)
             => NoRepeats(InsertAt(k.sleep_queue, n, p))
    BY <1>1, <1>2, InsertAtProperties
  <2> QED
    BY <1>3, <2>1, <2>2
<1>6. k.state \in [Slots -> ProcStates] /\ k.blocked_status \in [Slots -> BlockedStatuses]
  BY <1>1 DEF KernelStates
<1> HIDE DEF k1
<1>7. Where(Elems(k1.ready_queue), Elems(k1.blocked_queue), Elems(k1.sleep_queue),
            Elems(k1.stopped_queue), k1.state, k1.blocked_status, H \ {p})
  <2>1. Where(Elems(k.ready_queue), Elems(k.blocked_queue), Elems(k.sleep_queue),
              Elems(k.stopped_queue), k.state, k.blocked_status, H)
    BY PlacedWhere DEF Good
  <2>2. ASSUME NEW s \in Slots
        PROVE  /\ k1.state[s] = IF s = p THEN "BLOCKED" ELSE k.state[s]
               /\ k1.blocked_status[s] = IF s = p THEN "SLEEP" ELSE k.blocked_status[s]
    BY <1>1, <1>3, <1>6
  <2> QED
    BY <1>1, <1>3, <1>5, <2>1, <2>2 DEF Where
<1> QED
  <2>1. Placed(k1, H \ {p})
    BY <1>3, <1>5, <1>7, PlacedWhere DEF Good
  <2> QED
    BY <1>3, <1>4, <2>1 DEF Good, k1

\* wake() moves a sleeper to the ready queue.
LEMMA WakeGood ==
  ASSUME NEW k, NEW H, Good(k, H), NEW p \in Elems(k.sleep_queue)
  PROVE  /\ Good(wake(k, p), H)
         /\ wake(k, p).halt = k.halt /\ wake(k, p).process = k.process
         /\ p \in Slots \ H
         /\ Held(k, wake(k, p), H)
<1>0. PICK k0 : k0 = remove_pcb_from_sleep_queue(k, p)
  OBVIOUS
<1>1. k \in KernelStates /\ k.sleep_queue \in Seq(Slots)
  BY DEF Good, KernelStates
<1>2. p \in Slots \ H
  BY <1>1, ElemsProperties DEF Good, Placed, Linked
<1>3. /\ k0.ready_queue = k.ready_queue
      /\ k0.blocked_queue = k.blocked_queue
      /\ k0.sleep_queue = pcb_remove(k.sleep_queue, p)
      /\ k0.stopped_queue = k.stopped_queue
      /\ k0.state = k.state
      /\ k0.blocked_status = k.blocked_status
      /\ k0.blocked_id = k.blocked_id
      /\ k0.halt = k.halt /\ k0.process = k.process
  BY <1>0, <1>1 DEF remove_pcb_from_sleep_queue, KernelStates
<1>4. k0 \in KernelStates
  BY <1>0, <1>1, RemoveTypes
<1>5. /\ Elems(k0.sleep_queue) = Elems(k.sleep_queue) \ {p}
      /\ NoRepeats(k.sleep_queue) => NoRepeats(k0.sleep_queue)
  BY <1>1, <1>3, RemoveProperties
<1>6. wake(k, p) = add_pcb_to_ready_queue(k0, p)
  BY <1>0 DEF wake
<1>7. Where(Elems(k0.ready_queue), Elems(k0.blocked_queue), Elems(k0.sleep_queue),
            Elems(k0.stopped_queue), k0.state, k0.blocked_status, H \cup {p})
  <2>1. Where(Elems(k.ready_queue), Elems(k.blocked_queue), Elems(k.sleep_queue),
              Elems(k.stopped_queue), k.state, k.blocked_status, H)
    BY PlacedWhere DEF Good
  <2> QED
    BY <1>2, <1>3, <1>5, <2>1 DEF Where
<1>8. Good(k0, H \cup {p})
  <2>1. Placed(k0, H \cup {p})
    BY <1>3, <1>5, <1>7, PlacedWhere DEF Good
  <2> QED
    BY <1>2, <1>3, <1>4, <2>1 DEF Good
<1>9. LET k2 == add_pcb_to_ready_queue(k0, p)
      IN  /\ Good(k2, H)
          /\ k2.halt = k0.halt /\ k2.process = k0.process
          /\ Held(k0, k2, H)
  <2>1. p \in Slots /\ p \notin H
    BY <1>2
  <2> QED
    BY <1>8, <2>1, MoveReady
<1> QED
  BY <1>2, <1>3, <1>6, <1>9 DEF Held

\* create() moves a stopped pcb to the ready queue.
LEMMA CreateGood ==
  ASSUME NEW k, NEW H, Good(k, H), k.stopped_queue # << >>, NEW table \in NewTables
  PROVE  LET k1 == create(k, table)
         IN  /\ Good(k1, H)
             /\ k1.halt = k.halt /\ k1.process = k.process
             /\ Held(k, k1, H)
<1>0. PICK p : p = Head(k.stopped_queue)
  OBVIOUS
<1> DEFINE k0 == [k EXCEPT !.stopped_queue = Tail(@), !.signal_table[p] = table,
                          !.signals_enabled[p] = {}, !.frames[p] = << >>]
<1>1. k \in KernelStates /\ k.stopped_queue \in Seq(Slots)
  BY DEF Good, KernelStates
<1>2. /\ p \in Slots /\ p \in Elems(k.stopped_queue)
      /\ Tail(k.stopped_queue) \in Seq(Slots)
      /\ Elems(k.stopped_queue) = {p} \cup Elems(Tail(k.stopped_queue))
      /\ NoRepeats(k.stopped_queue)
           => NoRepeats(Tail(k.stopped_queue)) /\ p \notin Elems(Tail(k.stopped_queue))
  BY <1>0, <1>1, PollProperties
<1>3. p \notin H
  BY <1>2 DEF Good, Placed, Linked
<1>4. create(k, table) = add_pcb_to_ready_queue(k0, p)
  BY <1>0 DEF create
<1>5. k0 \in KernelStates
  <2>1. table \in [Signals -> Handlers]
    BY WorkloadAssumption DEF NewTables, Handlers
  <2>2. << >> \in Seq(Frames)
    BY EmptyQueue
  <2> DEFINE tq == Tail(k.stopped_queue)
             e == << >>
  <2> HIDE DEF tq, e
  <2>3. tq \in Seq(Slots) /\ e \in Seq(Frames)
    BY <1>2, <2>2 DEF tq, e
  <2>4. [k EXCEPT !.stopped_queue = tq, !.signal_table[p] = table,
                  !.signals_enabled[p] = {}, !.frames[p] = e] \in KernelStates
    BY <1>1, <1>2, <2>1, <2>3 DEF KernelStates
  <2> QED
    BY <2>4 DEF tq, e
<1>6. /\ k0.ready_queue = k.ready_queue
      /\ k0.blocked_queue = k.blocked_queue
      /\ k0.sleep_queue = k.sleep_queue
      /\ k0.stopped_queue = Tail(k.stopped_queue)
      /\ k0.state = k.state
      /\ k0.blocked_status = k.blocked_status
      /\ k0.blocked_id = k.blocked_id
      /\ k0.halt = k.halt /\ k0.process = k.process
  BY <1>1 DEF KernelStates
<1> HIDE DEF k0
<1>7. Where(Elems(k0.ready_queue), Elems(k0.blocked_queue), Elems(k0.sleep_queue),
            Elems(k0.stopped_queue), k0.state, k0.blocked_status, H \cup {p})
  <2>1. /\ Where(Elems(k.ready_queue), Elems(k.blocked_queue), Elems(k.sleep_queue),
                 Elems(k.stopped_queue), k.state, k.blocked_status, H)
        /\ NoRepeats(k.stopped_queue)
    BY PlacedWhere DEF Good
  <2>2. p \notin Elems(k0.stopped_queue)
    BY <1>2, <1>6, <2>1
  <2>3. \A s : s # p => (s \in Elems(k0.stopped_queue) <=> s \in Elems(k.stopped_queue))
    BY <1>2, <1>6
  <2>4. p \notin Elems(k.ready_queue) /\ p \notin Elems(k.blocked_queue) /\ p \notin Elems(k.sleep_queue)
    BY <1>2, <1>3, <2>1 DEF Where
  <2> QED
    BY <1>2, <1>3, <1>6, <2>1, <2>2, <2>3, <2>4 DEF Where
<1>8. Good(k0, H \cup {p})
  <2>1. Placed(k0, H \cup {p})
    BY <1>2, <1>6, <1>7, PlacedWhere DEF Good
  <2> QED
    BY <1>2, <1>5, <1>6, <2>1 DEF Good
<1>9. LET k2 == add_pcb_to_ready_queue(k0, p)
      IN  /\ Good(k2, H)
          /\ k2.halt = k0.halt /\ k2.process = k0.process
          /\ Held(k0, k2, H)
  <2>1. p \in Slots /\ p \notin H
    BY <1>2, <1>3
  <2> QED
    BY <1>8, <2>1, MoveReady
<1> QED
  BY <1>4, <1>6, <1>9 DEF Held

\* The result of a call changes no queue.
LEMMA SetRetGood ==
  ASSUME NEW k, NEW H, Good(k, H), NEW p \in Slots, NEW value \in Int
  PROVE  LET k1 == SetRet(k, p, value)
         IN  /\ Kept(k, k1, H)
             /\ k1.state = k.state /\ k1.blocked_status = k.blocked_status
             /\ k1.pid = k.pid
             /\ k1.stopped_queue = k.stopped_queue /\ k1.blocked_queue = k.blocked_queue
<1>0. PICK k1 : k1 = SetRet(k, p, value)
  OBVIOUS
<1>1. k \in KernelStates
  BY DEF Good
<1>2. /\ k1.ready_queue = k.ready_queue /\ k1.blocked_queue = k.blocked_queue
      /\ k1.sleep_queue = k.sleep_queue /\ k1.stopped_queue = k.stopped_queue
      /\ k1.state = k.state /\ k1.blocked_status = k.blocked_status
      /\ k1.blocked_id = k.blocked_id /\ k1.pid = k.pid
      /\ k1.halt = k.halt /\ k1.process = k.process
  BY <1>0, <1>1 DEF SetRet, KernelStates
<1>3. k1 \in KernelStates
  BY <1>0, <1>1, SetRetType
<1>4. Good(k1, H)
  BY <1>2, <1>3, GoodKept
<1>5. Held(k, k1, H)
  BY <1>2 DEF Held
<1> QED
  BY <1>0, <1>2, <1>4, <1>5 DEF Kept

\* A blocked process is made ready, out of its call.
LEMMA ReleaseGood ==
  ASSUME NEW k, NEW H, Good(k, H), NEW p \in Elems(k.blocked_queue)
  PROVE  Kept(k, add_pcb_to_ready_queue(remove_pcb_from_blocked_queue(k, p), p), H)
<1>0. PICK k0 : k0 = remove_pcb_from_blocked_queue(k, p)
  OBVIOUS
<1>1. /\ Good(k0, H \cup {p})
      /\ k0.halt = k.halt /\ k0.process = k.process
      /\ k0.blocked_status = k.blocked_status /\ k0.state = k.state
      /\ p \in Slots /\ p \notin H
  BY <1>0, RemoveBlocked
<1>2. PICK k1 : k1 = add_pcb_to_ready_queue(k0, p)
  OBVIOUS
<1>3. Good(k1, H) /\ k1.halt = k0.halt /\ k1.process = k0.process /\ Held(k0, k1, H)
  BY <1>1, <1>2, MoveReady
<1> QED
  BY <1>0, <1>1, <1>2, <1>3 DEF Kept, Held

\* set_pcb_signal() fails its ASSERT, or takes a blocked process out of its call
\* and nothing else.
LEMMA SetSignalGood ==
  ASSUME NEW k, NEW H, Good(k, H), NEW p \in Slots, NEW g \in Signals,
         p \in H => k.state[p] # "BLOCKED"
  PROVE  \/ set_pcb_signal(k, p, g).halt = "assert"
         \/ Kept(k, set_pcb_signal(k, p, g), H)
<1>0. PICK k0 : k0 = [k EXCEPT !.signals_pending[p] = @ \cup {g}]
  OBVIOUS
<1>1. k \in KernelStates
  BY DEF Good
<1>2. /\ k0 \in KernelStates
      /\ k0.ready_queue = k.ready_queue /\ k0.blocked_queue = k.blocked_queue
      /\ k0.sleep_queue = k.sleep_queue /\ k0.stopped_queue = k.stopped_queue
      /\ k0.state = k.state /\ k0.blocked_status = k.blocked_status
      /\ k0.blocked_id = k.blocked_id
      /\ k0.halt = k.halt /\ k0.process = k.process
  BY <1>0, <1>1 DEF KernelStates
<1>3. Good(k0, H) /\ Kept(k, k0, H)
  <2>1. Good(k0, H)
    BY <1>2, GoodKept
  <2> QED
    BY <1>2, <2>1 DEF Kept, Held
<1>4. CASE k.signal_table[p][g] = "NULL"
  BY <1>4 DEF set_pcb_signal, Kept, Held
<1>5. CASE k.signal_table[p][g] # "NULL" /\ k.state[p] # "BLOCKED"
  BY <1>0, <1>3, <1>5 DEF set_pcb_signal
<1>6. CASE k.signal_table[p][g] # "NULL" /\ k.state[p] = "BLOCKED"
  <2>1. p \in Slots \ H
    BY <1>6
  <2>2. Where(Elems(k.ready_queue), Elems(k.blocked_queue), Elems(k.sleep_queue),
              Elems(k.stopped_queue), k.state, k.blocked_status, H)
    BY PlacedWhere DEF Good
  <2>3. CASE k.blocked_status[p] = "SLEEP"
    <3>1. p \in Elems(k0.sleep_queue)
      BY <1>2, <1>6, <2>1, <2>2, <2>3 DEF Where
    <3>2. Kept(k0, wake(k0, p), H)
      BY <1>3, <3>1, WakeGood DEF Kept
    <3>3. set_pcb_signal(k, p, g) = wake(k0, p)
      BY <1>0, <1>6, <2>3 DEF set_pcb_signal
    <3> QED
      BY <1>2, <3>2, <3>3 DEF Kept, Held
  <2>4. CASE k.blocked_status[p] \in {"SEND", "RECEIVE"}
    <3>0. PICK k2 : k2 = SetRet(k0, p, BLOCKED_PROC_SIGNALED)
      OBVIOUS
    <3>1. /\ Kept(k0, k2, H)
          /\ k2.blocked_queue = k0.blocked_queue
      BY <1>3, <3>0, SetRetGood DEF BLOCKED_PROC_SIGNALED
    <3>2. p \in Elems(k2.blocked_queue)
      BY <1>2, <1>6, <2>1, <2>2, <2>4, <3>1 DEF Where
    <3>3. Kept(k2, add_pcb_to_ready_queue(remove_pcb_from_blocked_queue(k2, p), p), H)
      BY <3>1, <3>2, ReleaseGood DEF Kept
    <3>4. set_pcb_signal(k, p, g) = add_pcb_to_ready_queue(remove_pcb_from_blocked_queue(k2, p), p)
      BY <1>0, <1>6, <2>4, <3>0 DEF set_pcb_signal
    <3> QED
      BY <1>2, <3>1, <3>3, <3>4 DEF Kept, Held
  <2>5. CASE k.blocked_status[p] = "WAITING"
    <3>1. p \in Elems(k0.blocked_queue)
      BY <1>2, <1>6, <2>1, <2>2, <2>5 DEF Where
    <3>2. Kept(k0, add_pcb_to_ready_queue(remove_pcb_from_blocked_queue(k0, p), p), H)
      BY <1>3, <3>1, ReleaseGood
    <3>3. set_pcb_signal(k, p, g) = add_pcb_to_ready_queue(remove_pcb_from_blocked_queue(k0, p), p)
      BY <1>0, <1>6, <2>5 DEF set_pcb_signal
    <3> QED
      BY <1>2, <3>2, <3>3 DEF Kept, Held
  <2>6. CASE k.blocked_status[p] \notin {"SLEEP", "SEND", "RECEIVE", "WAITING"}
    <3>1. set_pcb_signal(k, p, g) = [k0 EXCEPT !.halt = "assert"]
      BY <1>0, <1>6, <2>6 DEF set_pcb_signal
    <3>2. [k0 EXCEPT !.halt = "assert"].halt = "assert"
      BY <1>2 DEF KernelStates
    <3> QED
      BY <3>1, <3>2
  <2> QED
    BY <2>3, <2>4, <2>5, <2>6
<1> QED
  BY <1>4, <1>5, <1>6

\* What contextswitch() does for a signal leaves all pcbs where they are.
LEMMA ResumeSafe ==
  ASSUME NEW k, Safe(k)
  PROVE  Safe(Resume(k))
<1>1. CASE k.halt # "no" \/ k.process = IDLE \/ k.signals_pending[k.process] = {}
           \/ ~Exceeds(k.signals_pending[k.process], k.signals_enabled[k.process])
  BY <1>1 DEF Resume, deliver_highest_priority_signal
<1>2. CASE /\ k.halt = "no" /\ k.process # IDLE /\ k.signals_pending[k.process] # {}
           /\ Exceeds(k.signals_pending[k.process], k.signals_enabled[k.process])
  <2>0. PICK p, g, k0, k1 :
          /\ p = k.process
          /\ g = Highest(k.signals_pending[p])
          /\ k0 = [k EXCEPT !.signals_pending[p] = @ \ {g}]
          /\ k1 = signal(k0, p, g)
    OBVIOUS
  <2>1. Resume(k) = k1
    BY <1>2, <2>0 DEF Resume, deliver_highest_priority_signal
  <2>2. k \in KernelStates /\ Good(k, {p} \ {IDLE}) /\ p \in Slots
    BY <1>2, <2>0 DEF Safe, KernelStates
  <2>3. k1 \in KernelStates
    BY <2>1, <2>2, ResumeType
  <2>4. /\ k1.ready_queue = k.ready_queue /\ k1.blocked_queue = k.blocked_queue
        /\ k1.sleep_queue = k.sleep_queue /\ k1.stopped_queue = k.stopped_queue
        /\ k1.state = k.state /\ k1.blocked_status = k.blocked_status
        /\ k1.blocked_id = k.blocked_id
        /\ k1.process = k.process /\ k1.halt \in {k.halt, "wild"}
    BY <2>0, <2>2 DEF signal, KernelStates
  <2>5. Good(k1, {p} \ {IDLE})
    BY <2>2, <2>3, <2>4, GoodKept
  <2> QED
    BY <1>2, <2>0, <2>1, <2>3, <2>4, <2>5 DEF Safe
<1> QED
  BY <1>1, <1>2

\* send() and recv() poll a blocked process that waits for another one and offer
\* it back.
LEMMA PutBackGood ==
  ASSUME NEW k, NEW H, Good(k, H), NEW p \in Elems(k.blocked_queue)
  PROVE  LET k1 == add_pcb_to_blocked_queue(remove_pcb_from_blocked_queue(k, p), p)
         IN  Good(k1, H) /\ k1.halt = k.halt /\ k1.process = k.process
<1>0. PICK k0, k1 : /\ k0 = remove_pcb_from_blocked_queue(k, p)
                    /\ k1 = add_pcb_to_blocked_queue(k0, p)
  OBVIOUS
<1>1. /\ Good(k0, H \cup {p})
      /\ k0.halt = k.halt /\ k0.process = k.process
      /\ k0.blocked_status[p] \in {"SEND", "RECEIVE", "WAITING"}
      /\ ~AnyReceive => k0.blocked_id[p] # 0
      /\ p \notin H
  BY <1>0, RemoveBlocked
<1>2. p \in H \cup {p} /\ (H \cup {p}) \ {p} = H
  BY <1>1
<1>3. /\ Good(k1, (H \cup {p}) \ {p})
      /\ k1.halt = k0.halt /\ k1.process = k0.process
  BY <1>0, <1>1, <1>2, AddBlocked
<1> QED
  BY <1>0, <1>1, <1>2, <1>3

\* A transfer goes through a garbage pointer, or makes the partner ready.
LEMMA CompleteGood ==
  ASSUME NEW k, NEW H, Good(k, H), NEW p \in Elems(k.blocked_queue), NEW junk \in Junk
  PROVE  LET r == Complete(remove_pcb_from_blocked_queue(k, p), p, junk)
         IN  ~r.blocked /\ (r.kern.halt = "wild" \/ Kept(k, r.kern, H))
<1>0. PICK k0, n, r : /\ k0 = remove_pcb_from_blocked_queue(k, p)
                      /\ n = TransferLength(k0, p, junk)
                      /\ r = Complete(k0, p, junk)
  OBVIOUS
<1>1. /\ Good(k0, H \cup {p})
      /\ k0.halt = k.halt /\ k0.process = k.process
      /\ k0.blocked_status = k.blocked_status /\ k0.state = k.state
      /\ p \in Slots /\ p \notin H
  BY <1>0, RemoveBlocked
<1>2. k0 \in KernelStates /\ n \in Int
  BY <1>0, <1>1 DEF Good, TransferLength, Junk, WILD
<1>3. CASE n = WILD
  <2>1. r = Done([k0 EXCEPT !.halt = "wild"], n)
    BY <1>0, <1>3 DEF Complete
  <2>2. [k0 EXCEPT !.halt = "wild"].halt = "wild"
    BY <1>2 DEF KernelStates
  <2>3. ~r.blocked /\ r.kern.halt = "wild"
    BY <2>1, <2>2 DEF Done
  <2> QED
    BY <1>0, <2>3
<1>4. CASE n # WILD
  <2>0. PICK k1, k2 : /\ k1 = add_pcb_to_ready_queue(k0, p)
                      /\ k2 = [k1 EXCEPT !.blocked_id[p] = 0, !.ret[p] = n]
    OBVIOUS
  <2>1. /\ Good(k1, H) /\ k1.halt = k0.halt /\ k1.process = k0.process
        /\ Held(k0, k1, H) /\ k1.blocked_queue = k0.blocked_queue
    BY <1>1, <2>0, MoveReady
  <2>2. k1 \in KernelStates
    BY <2>1 DEF Good
  <2>3. 0 \in 0..PID_MAX
    BY TableAssumption
  <2>4. /\ k2 \in KernelStates
        /\ k2.ready_queue = k1.ready_queue /\ k2.blocked_queue = k1.blocked_queue
        /\ k2.sleep_queue = k1.sleep_queue /\ k2.stopped_queue = k1.stopped_queue
        /\ k2.state = k1.state /\ k2.blocked_status = k1.blocked_status
        /\ k2.blocked_id = [k1.blocked_id EXCEPT ![p] = 0]
        /\ k2.halt = k1.halt /\ k2.process = k1.process
    BY <1>1, <1>2, <2>0, <2>2, <2>3 DEF KernelStates
  <2>5. p \notin Elems(k1.blocked_queue)
    BY <1>1, <2>1 DEF Good, Placed, Linked
  <2>6. \A s \in Elems(k1.blocked_queue) : k2.blocked_id[s] = k1.blocked_id[s]
    <3>1. Elems(k1.blocked_queue) \subseteq Slots
      BY <2>2, ElemsProperties DEF KernelStates
    <3>2. k1.blocked_id \in [Slots -> 0..PID_MAX]
      BY <2>2 DEF KernelStates
    <3> QED
      BY <2>4, <2>5, <3>1, <3>2
  <2>7. Good(k2, H)
    BY <2>1, <2>4, <2>6, GoodKept
  <2>8. ~r.blocked /\ r.kern = k2
    BY <1>0, <1>4, <2>0 DEF Complete, Done
  <2>9. Kept(k, k2, H)
    BY <1>1, <2>1, <2>4, <2>7 DEF Kept, Held
  <2> QED
    BY <1>0, <2>8, <2>9
<1> QED
  BY <1>3, <1>4

\* What send() or recv() hands to the dispatcher: the caller is blocked, or the
\* transfer took place.  A receiver from any process makes send() offer a linked
\* pcb to the blocked queue.
Answered(k, r, curr) ==
  IF r.blocked THEN \/ Good(r.kern, {}) /\ r.kern.halt = k.halt
                    \/ AnyReceive /\ r.kern.halt = "corrupt"
  ELSE r.kern.halt = "wild" \/ Kept(k, r.kern, {curr})

\* Blocks the caller for a process.
LEMMA BlockAnswer ==
  ASSUME NEW k, NEW k1, NEW curr, Good(k1, {curr}), k1.halt = k.halt, NEW p \in Slots,
         NEW status \in {"SEND", "RECEIVE", "WAITING"}
  PROVE  Answered(k, Blocked(Block(k1, curr, status, k1.pid[p])), curr)
<1>1. k1 \in KernelStates /\ curr \in {curr} /\ {curr} \ {curr} = {}
  BY DEF Good
<1>2. k1.pid[p] \in 0..PID_MAX /\ (~AnyReceive => k1.pid[p] # 0)
  BY <1>1, PidType
<1>3. PICK id \in 0..PID_MAX : id = k1.pid[p] /\ (~AnyReceive => id # 0)
  BY <1>2
<1>4. PICK H : H = {curr}
  OBVIOUS
<1>5. Good(k1, H) /\ curr \in H
  BY <1>4
<1>6. /\ Good(Block(k1, curr, status, id), H \ {curr})
      /\ Block(k1, curr, status, id).halt = k1.halt
  <2>1. ~AnyReceive => id # 0
    BY <1>3
  <2> QED
    BY <1>5, <2>1, BlockGood
<1> QED
  BY <1>1, <1>3, <1>4, <1>6 DEF Answered, Blocked

\* A corrupt queue stays one when the caller is blocked.
LEMMA BlockCorrupt ==
  ASSUME NEW k \in KernelStates, k.halt = "corrupt", NEW p \in Slots,
         NEW status \in BlockedStatuses, NEW id \in 0..PID_MAX
  PROVE  Block(k, p, status, id).halt = "corrupt"
<1> DEFINE k0 == [k EXCEPT !.blocked_status[p] = status, !.blocked_id[p] = id]
<1>1. k0 \in KernelStates /\ k0.halt = "corrupt"
  BY DEF KernelStates
<1>2. Block(k, p, status, id) = add_pcb_to_blocked_queue(k0, p)
  BY DEF Block
<1> HIDE DEF k0
<1> QED
  BY <1>1, <1>2 DEF add_pcb_to_blocked_queue, Offered, KernelStates

\* send() answers the dispatcher with every pcb in its place.
LEMMA SendGood ==
  ASSUME NEW k, NEW curr, Good(k, {curr}), NEW dest \in Slots, NEW junk \in Junk
  PROVE  Answered(k, send(k, curr, dest, junk), curr)
<1>0. PICK any : any = peek_any_receiver(k)
  OBVIOUS
<1>1. /\ any # NULL => any \in Elems(k.blocked_queue) /\ any \in Slots /\ k.blocked_id[any] = 0
      /\ ~AnyReceive => any = NULL
  <2>1. k.blocked_queue \in Seq(Slots)
    BY DEF Good, KernelStates
  <2>2. ~AnyReceive => Elems(k.blocked_queue) \cap {p \in Slots : k.blocked_id[p] = 0} = {}
    BY DEF Good
  <2> QED
    BY <1>0, <2>1, <2>2, FirstInType DEF peek_any_receiver
<1>2. CASE dest \notin Elems(k.blocked_queue)
  <2>1. CASE any = NULL
    <3>1. send(k, curr, dest, junk) = Blocked(Block(k, curr, "SEND", k.pid[dest]))
      BY <1>0, <1>2, <2>1 DEF send
    <3> QED
      BY <3>1, BlockAnswer
  <2>2. CASE any # NULL
    <3>0. PICK k2 : k2 = add_pcb_to_blocked_queue(k, any)
      OBVIOUS
    <3>1. k \in KernelStates /\ curr \in Slots
      BY DEF Good
    <3>2. k.blocked_id[any] # k.pid[curr]
      BY <1>1, <2>2, <3>1, PidType
    <3>3. send(k, curr, dest, junk) = Blocked(Block(k2, curr, "SEND", k2.pid[any]))
      BY <1>0, <1>2, <2>2, <3>0, <3>2 DEF send
    <3>4. k2 = [k EXCEPT !.halt = "corrupt"]
      BY <1>1, <2>2, <3>0 DEF add_pcb_to_blocked_queue, Offered, Linked
    <3>5. k2 \in KernelStates /\ k2.halt = "corrupt"
      BY <3>1, <3>4 DEF KernelStates, Halts
    <3>6. k2.pid[any] \in 0..PID_MAX
      BY <1>1, <2>2, <3>5, PidType
    <3>7. Block(k2, curr, "SEND", k2.pid[any]).halt = "corrupt"
      BY <3>1, <3>5, <3>6, BlockCorrupt DEF BlockedStatuses
    <3> QED
      BY <1>1, <2>2, <3>3, <3>7 DEF Answered, Blocked
  <2> QED
    BY <2>1, <2>2
<1>3. CASE dest \in Elems(k.blocked_queue)
  <2>0. PICK k1, k2 : /\ k1 = remove_pcb_from_blocked_queue(k, dest)
                      /\ k2 = add_pcb_to_blocked_queue(k1, dest)
    OBVIOUS
  <2>1. send(k, curr, dest, junk) =
          IF k1.blocked_id[dest] # k1.pid[curr]
          THEN Blocked(Block(k2, curr, "SEND", k2.pid[dest]))
          ELSE Complete(k1, dest, junk)
    BY <1>3, <2>0 DEF send
  <2>2. Good(k2, {curr}) /\ k2.halt = k.halt
    BY <1>3, <2>0, PutBackGood
  <2>3. Answered(k, Blocked(Block(k2, curr, "SEND", k2.pid[dest])), curr)
    BY <2>2, BlockAnswer
  <2>4. Answered(k, Complete(k1, dest, junk), curr)
    BY <1>3, <2>0, CompleteGood DEF Answered
  <2> QED
    BY <2>1, <2>3, <2>4
<1> QED
  BY <1>2, <1>3

\* recv() does, from one process or from any.
LEMMA RecvGood ==
  ASSUME NEW k, NEW curr, Good(k, {curr}), NEW from \in Slots \cup {NULL}, NEW junk \in Junk,
         from = NULL => AnyReceive
  PROVE  Answered(k, recv(k, from, curr, junk), curr)
<1>0. PICK any : any = peek_next_sender(k)
  OBVIOUS
<1>1. k.blocked_queue \in Seq(Slots) /\ Elems(k.blocked_queue) \subseteq Slots
  BY ElemsProperties DEF Good, KernelStates
<1>2. CASE from = NULL
  <2>1. any \in Elems(k.blocked_queue) \cup {NULL}
    BY <1>0, <1>1, FirstInType DEF peek_next_sender
  <2>2. CASE any = NULL
    <3>1. recv(k, from, curr, junk) = Blocked(Block(k, curr, "RECEIVE", 0))
      BY <1>0, <1>2, <2>2 DEF recv
    <3>2. /\ 0 \in 0..PID_MAX /\ curr \in {curr} /\ {curr} \ {curr} = {}
          /\ ~AnyReceive => 0 # 0
          /\ "RECEIVE" \in {"SEND", "RECEIVE", "WAITING"}
      BY <1>2, TableAssumption
    <3>3. Good(Block(k, curr, "RECEIVE", 0), {}) /\ Block(k, curr, "RECEIVE", 0).halt = k.halt
      <4>1. PICK status \in {"SEND", "RECEIVE", "WAITING"}, id \in 0..PID_MAX :
              status = "RECEIVE" /\ id = 0 /\ (~AnyReceive => id # 0)
        BY <3>2
      <4>2. PICK H : H = {curr}
        OBVIOUS
      <4>3. Good(k, H) /\ curr \in H
        BY <4>2
      <4>4. Good(Block(k, curr, status, id), H \ {curr}) /\ Block(k, curr, status, id).halt = k.halt
        BY <4>1, <4>3, BlockGood
      <4> QED
        BY <3>2, <4>1, <4>2, <4>4
    <3> QED
      BY <3>1, <3>3 DEF Answered, Blocked
  <2>3. CASE any # NULL
    <3>1. recv(k, from, curr, junk) = Complete(remove_pcb_from_blocked_queue(k, any), any, junk)
      BY <1>0, <1>2, <2>1, <2>3 DEF recv
    <3> QED
      BY <2>1, <2>3, <3>1, CompleteGood DEF Answered
  <2> QED
    BY <2>2, <2>3
<1>4. CASE from # NULL /\ from \notin Elems(k.blocked_queue)
  <2>1. recv(k, from, curr, junk) = Blocked(Block(k, curr, "RECEIVE", k.pid[from]))
    BY <1>4 DEF recv
  <2> QED
    BY <1>4, <2>1, BlockAnswer
<1>3. CASE from # NULL /\ from \in Elems(k.blocked_queue)
  <2>0. PICK k1, k2 : /\ k1 = remove_pcb_from_blocked_queue(k, from)
                      /\ k2 = add_pcb_to_blocked_queue(k1, from)
    OBVIOUS
  <2>1. recv(k, from, curr, junk) =
          IF k1.blocked_id[from] # k1.pid[curr]
          THEN Blocked(Block(k2, curr, "RECEIVE", k2.pid[from]))
          ELSE Complete(k1, from, junk)
    BY <1>3, <2>0 DEF recv
  <2>2. Good(k2, {curr}) /\ k2.halt = k.halt
    BY <1>3, <2>0, PutBackGood
  <2>3. Answered(k, Blocked(Block(k2, curr, "RECEIVE", k2.pid[from])), curr)
    BY <1>3, <2>2, BlockAnswer
  <2>4. Answered(k, Complete(k1, from, junk), curr)
    BY <1>3, <2>0, CompleteGood DEF Answered
  <2> QED
    BY <2>1, <2>3, <2>4
<1> QED
  BY <1>2, <1>3, <1>4

\* A call that returns at once leaves the caller running.
LEMMA StaySafe ==
  ASSUME NEW k, Safe(k), k.halt = "no", k.process # IDLE, NEW k1, Kept(k, k1, {k.process})
  PROVE  Safe(k1)
<1>1. /\ k1 \in KernelStates /\ k1.halt = "no" /\ k1.process = k.process
      /\ Good(k1, {k.process})
  BY DEF Kept, Good
<1>2. {k1.process} \ {IDLE} = {k.process}
  BY <1>1
<1>3. k1.state[k.process] = "RUNNING" /\ k1.blocked_status[k.process] = "NONE"
  BY DEF Kept, Held, Safe
<1> QED
  BY <1>1, <1>2, <1>3 DEF Safe

\* Storing a result in a pcb moves none.
LEMMA SetRetSafe ==
  ASSUME NEW k, Safe(k), NEW p \in Slots, NEW value \in Int
  PROVE  Safe(SetRet(k, p, value))
<1>0. PICK k1 : k1 = SetRet(k, p, value)
  OBVIOUS
<1>1. k \in KernelStates
  BY DEF Safe
<1>2. /\ k1 \in KernelStates
      /\ k1.halt = k.halt /\ k1.process = k.process
      /\ k1.state = k.state /\ k1.blocked_status = k.blocked_status
  BY <1>0, <1>1, SetRetType DEF SetRet, KernelStates
<1>3. k.halt = "no" => Good(k1, {k.process} \ {IDLE})
  BY <1>0, SetRetGood DEF Safe, Kept
<1> QED
  BY <1>0, <1>2, <1>3 DEF Safe

\* The dispatcher stores the result of send() and recv() and resumes the caller
\* or the next process.
LEMMA AnswerSafe ==
  ASSUME NEW k, Safe(k), k.halt = "no", k.process # IDLE, NEW r \in Results,
         Answered(k, r, k.process)
  PROVE  Safe(SetRet(IF r.blocked THEN get_next_pcb(r.kern) ELSE r.kern, k.process, r.ret))
<1>1. k.process \in Slots /\ r.ret \in Int /\ r.kern \in KernelStates
  BY DEF Safe, KernelStates, Results
<1>2. CASE r.blocked
  <2>1. Safe(get_next_pcb(r.kern))
    <3>1. CASE AnyReceive /\ r.kern.halt = "corrupt"
      <4>1. get_next_pcb(r.kern) \in KernelStates /\ get_next_pcb(r.kern).halt = "corrupt"
        BY <1>1, <3>1, GetNextType DEF get_next_pcb, KernelStates
      <4> QED
        BY <3>1, <4>1 DEF Safe
    <3>2. CASE Good(r.kern, {}) /\ r.kern.halt = k.halt
      BY <3>2, GetNextSafe
    <3> QED
      BY <1>2, <3>1, <3>2 DEF Answered
  <2> QED
    BY <1>1, <1>2, <2>1, SetRetSafe
<1>3. CASE ~r.blocked
  <2>1. CASE r.kern.halt = "wild"
    <3>1. Safe(r.kern)
      BY <1>1, <2>1 DEF Safe
    <3> QED
      BY <1>1, <1>3, <3>1, SetRetSafe
  <2>2. CASE Kept(k, r.kern, {k.process})
    BY <1>1, <1>3, <2>2, StaySafe, SetRetSafe
  <2> QED
    BY <1>3, <2>1, <2>2 DEF Answered
<1> QED
  BY <1>2, <1>3

\* A process that reads from the keyboard is on no queue while it waits.
LEMMA ReadGood ==
  ASSUME NEW k, NEW p, Good(k, {p})
  PROVE  LET k1 == [k EXCEPT !.state[p] = "BLOCKED",
                             !.blocked_status[p] = "DEVICE",
                             !.ret[p] = BLOCKERR]
         IN  Good(k1, {}) /\ k1.halt = k.halt
<1>0. PICK k1 : k1 = [k EXCEPT !.state[p] = "BLOCKED",
                               !.blocked_status[p] = "DEVICE",
                               !.ret[p] = BLOCKERR]
  OBVIOUS
<1>1. k \in KernelStates /\ p \in Slots
  BY DEF Good
<1>2. "BLOCKED" \in ProcStates /\ "DEVICE" \in BlockedStatuses /\ BLOCKERR \in Int
  BY DEF ProcStates, BlockedStatuses, BLOCKERR
<1>3. /\ k1 \in KernelStates
      /\ k1.ready_queue = k.ready_queue /\ k1.blocked_queue = k.blocked_queue
      /\ k1.sleep_queue = k.sleep_queue /\ k1.stopped_queue = k.stopped_queue
      /\ k1.state = [k.state EXCEPT ![p] = "BLOCKED"]
      /\ k1.blocked_status = [k.blocked_status EXCEPT ![p] = "DEVICE"]
      /\ k1.blocked_id = k.blocked_id
      /\ k1.halt = k.halt
  BY <1>0, <1>1, <1>2 DEF KernelStates
<1>4. k.state \in [Slots -> ProcStates] /\ k.blocked_status \in [Slots -> BlockedStatuses]
  BY <1>1 DEF KernelStates
<1>5. Where(Elems(k.ready_queue), Elems(k.blocked_queue), Elems(k.sleep_queue),
            Elems(k.stopped_queue), k.state, k.blocked_status, {p})
  BY PlacedWhere DEF Good
<1>6. ASSUME NEW s \in Slots
      PROVE  /\ k1.state[s] = IF s = p THEN "BLOCKED" ELSE k.state[s]
             /\ k1.blocked_status[s] = IF s = p THEN "DEVICE" ELSE k.blocked_status[s]
  BY <1>1, <1>3, <1>4
<1>7. Where(Elems(k1.ready_queue), Elems(k1.blocked_queue), Elems(k1.sleep_queue),
            Elems(k1.stopped_queue), k1.state, k1.blocked_status, {})
  BY <1>1, <1>3, <1>5, <1>6 DEF Where
<1>8. Placed(k1, {})
  BY <1>3, <1>7, PlacedWhere DEF Good
<1> QED
  BY <1>0, <1>3, <1>8 DEF Good

\* The keyboard driver looks at each slot once.
LEMMA TaskOrderProperties ==
  TaskOrder \in Seq(Slots) /\ NoRepeats(TaskOrder) /\ Elems(TaskOrder) = Slots
<1>1. PCB_TABLE_SIZE \in Nat \ {0}
  BY TableAssumption
<1>2. TaskOrder \in [1..PCB_TABLE_SIZE -> Slots] /\ DOMAIN TaskOrder = Slots
  BY <1>1 DEF TaskOrder, Slots
<1>3. TaskOrder \in Seq(Slots)
  BY <1>1, <1>2, SeqDef
<1>4. NoRepeats(TaskOrder)
  BY <1>1 DEF NoRepeats, TaskOrder, Slots
<1>5. ASSUME NEW s \in Slots PROVE s \in Elems(TaskOrder)
  <2>1. PICK i : i = IF s = PCB_TABLE_SIZE THEN 1 ELSE s + 1
    OBVIOUS
  <2>2. i \in Slots /\ TaskOrder[i] = s
    BY <1>1, <2>1 DEF TaskOrder, Slots
  <2> QED
    BY <1>2, <2>2 DEF Elems
<1> QED
  BY <1>2, <1>3, <1>4, <1>5 DEF Elems

\* The reads that the keyboard driver completes make their processes ready.
LEMMA KeyboardGood ==
  ASSUME NEW k, NEW H, Good(k, H), \A s \in H : k.state[s] # "BLOCKED",
         NEW done \in SUBSET OnDevice(k), NEW re \in [Slots -> Int]
  PROVE  Kept(k, [k EXCEPT
                    !.ready_queue = k.ready_queue \o Keep(TaskOrder, done),
                    !.state = [s \in Slots |-> IF s \in done THEN "READY" ELSE k.state[s]],
                    !.blocked_status = [s \in Slots |->
                                          IF s \in done THEN "NONE" ELSE k.blocked_status[s]],
                    !.ret = re], H)
<1>0. PICK rq, st, bs, k1 :
        /\ rq = k.ready_queue \o Keep(TaskOrder, done)
        /\ st = [s \in Slots |-> IF s \in done THEN "READY" ELSE k.state[s]]
        /\ bs = [s \in Slots |-> IF s \in done THEN "NONE" ELSE k.blocked_status[s]]
        /\ k1 = [k EXCEPT !.ready_queue = rq, !.state = st, !.blocked_status = bs, !.ret = re]
  OBVIOUS
<1>1. /\ k \in KernelStates /\ H \subseteq Slots /\ k.ready_queue \in Seq(Slots)
      /\ k.state \in [Slots -> ProcStates] /\ k.blocked_status \in [Slots -> BlockedStatuses]
  BY DEF Good, KernelStates
<1>2. done \subseteq Slots
      /\ \A s \in done : s \notin H /\ k.state[s] = "BLOCKED" /\ k.blocked_status[s] = "DEVICE"
  BY DEF OnDevice
<1>3. Where(Elems(k.ready_queue), Elems(k.blocked_queue), Elems(k.sleep_queue),
            Elems(k.stopped_queue), k.state, k.blocked_status, H)
  BY PlacedWhere DEF Good
<1>4. PICK woken : woken = Keep(TaskOrder, done)
  OBVIOUS
<1>5. woken \in Seq(Slots) /\ Elems(woken) = done /\ NoRepeats(woken)
  <2>1. /\ Keep(TaskOrder, done) \in Seq(Slots)
        /\ Elems(Keep(TaskOrder, done)) = Elems(TaskOrder) \cap done
        /\ NoRepeats(TaskOrder) => NoRepeats(Keep(TaskOrder, done))
    BY TaskOrderProperties, KeepProperties
  <2> QED
    BY <1>2, <1>4, <2>1, TaskOrderProperties
<1>6. done \cap Elems(k.ready_queue) = {}
  BY <1>2, <1>3 DEF Where
<1>7. /\ rq \in Seq(Slots) /\ Elems(rq) = Elems(k.ready_queue) \cup done
      /\ NoRepeats(k.ready_queue) => NoRepeats(rq)
  BY <1>0, <1>1, <1>4, <1>5, <1>6, JoinProperties
<1>8. st \in [Slots -> ProcStates] /\ bs \in [Slots -> BlockedStatuses]
  BY <1>0, <1>1 DEF ProcStates, BlockedStatuses
<1>9. /\ k1 \in KernelStates
      /\ k1.ready_queue = rq /\ k1.blocked_queue = k.blocked_queue
      /\ k1.sleep_queue = k.sleep_queue /\ k1.stopped_queue = k.stopped_queue
      /\ k1.state = st /\ k1.blocked_status = bs
      /\ k1.blocked_id = k.blocked_id
      /\ k1.halt = k.halt /\ k1.process = k.process
  <2>1. k1 = [k EXCEPT !.ready_queue = rq, !.state = st, !.blocked_status = bs, !.ret = re]
    BY <1>0
  <2> QED
    BY <1>1, <1>7, <1>8, <2>1 DEF KernelStates
<1>10. ASSUME NEW s \in Slots
       PROVE  /\ st[s] = IF s \in done THEN "READY" ELSE k.state[s]
              /\ bs[s] = IF s \in done THEN "NONE" ELSE k.blocked_status[s]
  BY <1>0
<1>11. Where(Elems(rq), Elems(k.blocked_queue), Elems(k.sleep_queue),
             Elems(k.stopped_queue), st, bs, H)
  <2>1. ASSUME NEW s \in Slots \ H
        PROVE  /\ s \in Elems(rq) <=> st[s] = "READY"
               /\ s \in Elems(k.stopped_queue) <=> st[s] = "STOPPED"
               /\ s \in Elems(k.blocked_queue)
                    <=> st[s] = "BLOCKED" /\ bs[s] \in {"SEND", "RECEIVE", "WAITING"}
               /\ s \in Elems(k.sleep_queue) <=> st[s] = "BLOCKED" /\ bs[s] = "SLEEP"
               /\ st[s] # "RUNNING"
               /\ bs[s] = "NONE" <=> st[s] # "BLOCKED"
    <3>1. CASE s \in done
      BY <1>2, <1>3, <1>7, <1>10, <3>1 DEF Where
    <3>2. CASE s \notin done
      BY <1>3, <1>7, <1>10, <3>2 DEF Where
    <3> QED
      BY <3>1, <3>2
  <2>2. ASSUME NEW s \in H
        PROVE  /\ s \notin Elems(rq) /\ s \notin Elems(k.blocked_queue)
               /\ s \notin Elems(k.sleep_queue) /\ s \notin Elems(k.stopped_queue)
    BY <1>2, <1>3, <1>7 DEF Where
  <2> QED
    BY <2>1, <2>2 DEF Where
<1>12. Good(k1, H)
  <2>1. Placed(k1, H)
    BY <1>7, <1>9, <1>11, PlacedWhere DEF Good
  <2> QED
    BY <1>9, <2>1 DEF Good
<1>13. Held(k, k1, H)
  BY <1>1, <1>2, <1>9, <1>10 DEF Held
<1> QED
  BY <1>0, <1>9, <1>12, <1>13 DEF Kept

\* The state in which the dispatcher starts.
LEMMA InitSafe == Init => Safe(kern)
<1> SUFFICES ASSUME NEW table \in NewTables,
                    kern = Resume(get_next_pcb(create(initpcb, table)))
             PROVE  Safe(kern)
  BY DEF Init
<1>0. PICK k0, all : k0 = initpcb /\ all = [s \in Slots |-> s]
  OBVIOUS
<1>1. k0 \in KernelStates /\ k0.halt = "no"
  BY <1>0, InitpcbType DEF initpcb
<1>2. /\ k0.ready_queue = << >> /\ k0.blocked_queue = << >> /\ k0.sleep_queue = << >>
      /\ k0.stopped_queue = all
      /\ \A s \in Slots : k0.state[s] = "STOPPED" /\ k0.blocked_status[s] = "NONE"
  BY <1>0 DEF initpcb
<1>3. Elems(all) = Slots /\ NoRepeats(all)
  BY <1>0 DEF Elems, NoRepeats
<1>4. Elems(<< >>) = {} /\ NoRepeats(<< >>)
  BY EmptyQueue
<1>5. Where({}, {}, {}, Slots, k0.state, k0.blocked_status, {})
  BY <1>2 DEF Where
<1>6. Good(k0, {})
  <2>1. Placed(k0, {})
    BY <1>2, <1>3, <1>4, <1>5, PlacedWhere
  <2> QED
    BY <1>1, <1>2, <1>4, <2>1 DEF Good
<1>7. k0.stopped_queue # << >>
  <2>1. 1 \in Slots
    BY TableAssumption DEF Slots
  <2> QED
    BY <1>2, <1>3, <1>4, <2>1
<1>8. Good(create(k0, table), {}) /\ create(k0, table).halt = "no"
  BY <1>1, <1>6, <1>7, CreateGood
<1> QED
  BY <1>0, <1>8, GetNextSafe, ResumeSafe

\* Each step of the dispatcher keeps all pcbs in place.
LEMMA NextSafe == Safe(kern) /\ [Next]_kern => Safe(kern')
<1> SUFFICES ASSUME Safe(kern), [Next]_kern
             PROVE  Safe(kern')
  OBVIOUS
<1>0. kern \in KernelStates /\ TypeOK
  BY DEF Safe, TypeOK
<1>1. ASSUME NEW k, Safe(k), Continue(k) PROVE Safe(kern')
  BY <1>1, ResumeSafe DEF Continue
<1>2. ASSUME NEW k, Good(k, {}), k.halt = "no", Switch(k) PROVE Safe(kern')
  BY <1>1, <1>2, GetNextSafe DEF Switch
<1>3. ASSUME kern.halt = "no", proc # IDLE
      PROVE  /\ proc \in Slots /\ Good(kern, {proc}) /\ proc = kern.process
             /\ kern.state[proc] = "RUNNING" /\ kern.blocked_status[proc] = "NONE"
  <2>1. {proc} \ {IDLE} = {proc}
    BY <1>3
  <2> QED
    BY <1>0, <1>3, <2>1 DEF Safe, proc, KernelStates
<1>4. ASSUME NEW call, Request(call) PROVE kern.halt = "no" /\ proc # IDLE
  BY <1>4 DEF Request
<1>5. ASSUME proc \in Slots, NEW value \in Int, Return(value) PROVE Safe(kern')
  BY <1>1, <1>5, SetRetSafe DEF Return
<1>6. ASSUME kern.halt = "no", proc # IDLE, NEW k, Kept(kern, k, {proc}) PROVE Safe(k)
  BY <1>3, <1>6, StaySafe
<1>7. ASSUME kern.halt = "no", proc # IDLE, NEW r \in Results, Answered(kern, r, proc), Transfer(r)
      PROVE  Safe(kern')
  <2>1. Safe(SetRet(IF r.blocked THEN get_next_pcb(r.kern) ELSE r.kern, proc, r.ret))
    BY <1>3, <1>7, AnswerSafe
  <2> QED
    BY <1>1, <1>7, <2>1 DEF Transfer
<1>8. PidArgs \subseteq 0..PID_MAX /\ 0..PID_MAX \subseteq Int
  BY <1>0, PidArgsType, TableAssumption
<1>9. ASSUME NEW pid \in PidArgs
      PROVE  /\ pid_to_pcb(kern, pid) \in Slots \cup {NULL}
             /\ pid_to_pcb(kern, pid) # NULL => pid # 0
  BY <1>0, <1>8, PidToPcbType DEF pid_to_pcb
<1>10. ASSUME kern.halt = "no", proc # IDLE, NEW value \in Int
       PROVE  /\ Good(SetRet(kern, proc, value), {proc})
              /\ SetRet(kern, proc, value).halt = "no"
              /\ SetRet(kern, proc, value).blocked_status[proc] = "NONE"
  BY <1>3, <1>10, SetRetGood DEF Kept
<1>11. {proc} \ {proc} = {} /\ proc \in {proc}
  OBVIOUS
<1>12. CASE Create
  <2>1. kern.halt = "no" /\ proc # IDLE /\ proc \in Slots
    BY <1>3, <1>4, <1>12 DEF Create
  <2>2. CASE Return(CREATE_FAILURE)
    BY <1>5, <2>1, <2>2 DEF CREATE_FAILURE
  <2>3. ASSUME kern.stopped_queue # << >>, NEW table \in NewTables,
               Continue(SetRet(create(kern, table), proc, kern.pid[Head(kern.stopped_queue)]))
        PROVE  Safe(kern')
    <3>1. Kept(kern, create(kern, table), {proc})
      BY <1>3, <2>1, <2>3, CreateGood DEF Kept
    <3>2. kern.pid[Head(kern.stopped_queue)] \in Int
      <4>1. Head(kern.stopped_queue) \in Slots
        BY <1>0, <2>3, PollProperties DEF KernelStates
      <4> QED
        BY <1>0, <4>1 DEF KernelStates
    <3>3. Safe(create(kern, table))
      BY <1>6, <2>1, <3>1
    <3> QED
      BY <1>1, <2>1, <2>3, <3>2, <3>3, SetRetSafe
  <2> QED
    BY <1>12, <2>2, <2>3 DEF Create
<1>13. CASE Yield
  <2>1. kern.halt = "no" /\ proc # IDLE
    BY <1>4, <1>13 DEF Yield
  <2>2. PICK k : k = SetRet(kern, proc, SYSCALL_YIELD)
    OBVIOUS
  <2>3. Good(k, {proc}) /\ k.halt = "no"
    BY <1>10, <2>1, <2>2 DEF SYSCALL_YIELD
  <2>4. /\ Good(add_pcb_to_ready_queue(k, proc), {proc} \ {proc})
        /\ add_pcb_to_ready_queue(k, proc).halt = "no"
    BY <1>11, <2>3, AddReady
  <2> QED
    BY <1>2, <1>11, <1>13, <2>2, <2>4 DEF Yield
<1>14. ASSUME kern.halt = "no", proc # IDLE, NEW value \in Int,
              Switch(cleanup_pcb(SetRet(kern, proc, value), proc))
       PROVE  Safe(kern')
  <2>1. PICK k : k = SetRet(kern, proc, value)
    OBVIOUS
  <2>2. Good(k, {proc}) /\ k.halt = "no" /\ k.blocked_status[proc] = "NONE"
    BY <1>10, <1>14, <2>1
  <2>3. Good(cleanup_pcb(k, proc), {}) /\ cleanup_pcb(k, proc).halt = "no"
    BY <1>11, <2>2, CleanupGood
  <2> QED
    BY <1>2, <1>14, <2>1, <2>3
<1>15. CASE Stop
  <2>1. kern.halt = "no" /\ proc # IDLE
    BY <1>4, <1>15 DEF Stop, InSysstop
  <2> QED
    BY <1>14, <1>15, <2>1 DEF Stop, SYSCALL_STOP
<1>16. CASE GetPid
  <2>1. proc \in Slots /\ Return(kern.pid[proc])
    BY <1>3, <1>4, <1>16 DEF GetPid
  <2>2. kern.pid[proc] \in Int
    BY <1>0, <1>8, <2>1, PidType
  <2> QED
    BY <1>5, <2>1, <2>2
<1>17. CASE Puts
  BY <1>3, <1>4, <1>5, <1>17 DEF Puts
<1>18. CASE Kill
  <2>1. kern.halt = "no" /\ proc # IDLE /\ proc \in Slots
    BY <1>3, <1>4, <1>18 DEF Kill
  <2>2. SYSKILL_TARGET_DNE \in Int /\ SYSKILL_SIG_INVALID \in Int
    BY DEF SYSKILL_TARGET_DNE, SYSKILL_SIG_INVALID
  <2>3. ASSUME NEW target \in Slots, NEW g \in Signals,
               Continue(SetRet(set_pcb_signal(kern, target, g), proc, 0))
        PROVE  Safe(kern')
    <3>1. PICK k : k = set_pcb_signal(kern, target, g)
      OBVIOUS
    <3>2. k.halt = "assert" \/ Kept(kern, k, {proc})
      BY <1>3, <2>1, <3>1, SetSignalGood
    <3>3. Safe(k)
      <4>1. CASE k.halt = "assert"
        BY <1>0, <3>1, <4>1, SetSignalType DEF Safe
      <4> QED
        BY <1>6, <2>1, <3>2, <4>1
    <3> QED
      BY <1>1, <2>1, <2>3, <3>1, <3>3, SetRetSafe
  <2> QED
    BY <1>5, <1>9, <1>18, <2>1, <2>2, <2>3 DEF Kill
<1>19. CASE Wait
  <2>1. kern.halt = "no" /\ proc # IDLE /\ proc \in Slots
    BY <1>3, <1>4, <1>19 DEF Wait
  <2>2. ASSUME NEW pid \in PidArgs, pid # 0, Switch(SetRet(Block(kern, proc, "WAITING", pid), proc, 0))
        PROVE  Safe(kern')
    <3>1. PICK k : k = Block(kern, proc, "WAITING", pid)
      OBVIOUS
    <3>2. Good(k, {}) /\ k.halt = "no"
      <4>1. pid \in 0..PID_MAX /\ (~AnyReceive => pid # 0)
        BY <1>8, <2>2
      <4>2. "WAITING" \in {"SEND", "RECEIVE", "WAITING"}
        OBVIOUS
      <4>3. Good(kern, {proc}) /\ proc \in {proc} /\ {proc} \ {proc} = {}
        BY <1>3, <2>1
      <4>4. /\ Good(Block(kern, proc, "WAITING", pid), {proc} \ {proc})
            /\ Block(kern, proc, "WAITING", pid).halt = kern.halt
        BY <4>1, <4>2, <4>3, BlockGood
      <4> QED
        BY <2>1, <3>1, <4>3, <4>4
    <3>3. Good(SetRet(k, proc, 0), {}) /\ SetRet(k, proc, 0).halt = "no"
      BY <2>1, <3>2, SetRetGood DEF Kept
    <3> QED
      BY <1>2, <2>2, <3>1, <3>3
  <2> QED
    BY <1>5, <1>9, <1>19, <2>1, <2>2 DEF Wait, SYSPID_DNE
<1>20. CASE Send
  <2>1. kern.halt = "no" /\ proc # IDLE /\ proc \in Slots
    BY <1>3, <1>4, <1>20 DEF Send
  <2>2. SYSPID_DNE \in Int /\ SYSPID_SELF \in Int /\ SYSERR_OTHER \in Int
    BY DEF SYSPID_DNE, SYSPID_SELF, SYSERR_OTHER
  <2>3. ASSUME NEW dest \in Slots, NEW junk \in Junk, Transfer(send(kern, proc, dest, junk))
        PROVE  Safe(kern')
    <3>1. send(kern, proc, dest, junk) \in Results
      BY <1>0, <2>1, SendType
    <3>2. Answered(kern, send(kern, proc, dest, junk), proc)
      BY <1>3, <2>1, SendGood
    <3> QED
      BY <1>7, <2>1, <2>3, <3>1, <3>2
  <2> QED
    BY <1>5, <1>9, <1>20, <2>1, <2>2, <2>3 DEF Send
<1>21. CASE Recv
  <2>1. kern.halt = "no" /\ proc # IDLE /\ proc \in Slots
    BY <1>3, <1>4, <1>21 DEF Recv
  <2>2. SYSPID_DNE \in Int /\ SYSPID_SELF \in Int /\ SYSERR_OTHER \in Int
    BY DEF SYSPID_DNE, SYSPID_SELF, SYSERR_OTHER
  <2>3. ASSUME NEW from \in Slots \cup {NULL}, NEW junk \in Junk,
               from = NULL => AnyReceive, Transfer(recv(kern, from, proc, junk))
        PROVE  Safe(kern')
    <3>1. recv(kern, from, proc, junk) \in Results
      BY <1>0, <2>1, RecvType
    <3>2. Answered(kern, recv(kern, from, proc, junk), proc)
      BY <1>3, <2>1, <2>3, RecvGood
    <3> QED
      BY <1>7, <2>1, <2>3, <3>1, <3>2
  <2> QED
    BY <1>5, <1>9, <1>21, <2>1, <2>2, <2>3 DEF Recv
<1>22. CASE Sleep
  <2>1. kern.halt = "no" /\ proc # IDLE
    BY <1>4, <1>22 DEF Sleep
  <2>2. ASSUME NEW ms \in SleepMs PROVE Ticks(ms) \in Int
    BY WorkloadAssumption DEF Ticks, MS_PER_CLOCK_TICK
  <2>3. ASSUME NEW ms \in SleepMs
        PROVE  Good(sleep(kern, proc, ms), {}) /\ sleep(kern, proc, ms).halt = "no"
    <3>1. PICK ticks \in Int : ticks = Ticks(ms)
      BY <2>2
    <3>2. /\ Good(add_pcb_to_sleep_queue(kern, proc, ticks), {proc} \ {proc})
          /\ add_pcb_to_sleep_queue(kern, proc, ticks).halt = kern.halt
      BY <1>3, <1>11, <2>1, SleepGood
    <3> QED
      BY <1>11, <2>1, <3>1, <3>2 DEF sleep
  <2> QED
    BY <1>2, <1>22, <2>3 DEF Sleep
<1>23. CASE CpuTimes
  <2>1. proc \in Slots
    BY <1>3, <1>4, <1>23 DEF CpuTimes
  <2>2. fill_processStatus(kern) \in Int
    BY <1>0, StatusType
  <2> QED
    BY <1>5, <1>23, <2>1, <2>2 DEF CpuTimes
<1>24. ASSUME kern.halt = "no", proc # IDLE, NEW k \in KernelStates,
              k.ready_queue = kern.ready_queue, k.blocked_queue = kern.blocked_queue,
              k.sleep_queue = kern.sleep_queue, k.stopped_queue = kern.stopped_queue,
              k.state = kern.state, k.blocked_status = kern.blocked_status,
              k.blocked_id = kern.blocked_id,
              k.halt = kern.halt, k.process = kern.process
       PROVE  Safe(k)
  <2>1. Good(k, {proc})
    BY <1>3, <1>24, GoodKept
  <2>2. Kept(kern, k, {proc})
    BY <1>24, <2>1 DEF Kept, Held
  <2> QED
    BY <1>6, <1>24, <2>2
<1>25. CASE SigHandler
  <2>1. kern.halt = "no" /\ proc # IDLE /\ proc \in Slots
    BY <1>3, <1>4, <1>25 DEF SigHandler
  <2>2. INVALID_SIGNAL \in Int /\ SYSHANDLER_INVALID \in Int /\ SYSERR_OTHER \in Int
    BY DEF INVALID_SIGNAL, SYSHANDLER_INVALID, SYSERR_OTHER
  <2>3. ASSUME NEW g \in Signals, NEW new \in {"NULL", "handler"},
               Continue(SetRet([kern EXCEPT !.signal_table[proc][g] = new], proc, 0))
        PROVE  Safe(kern')
    <3>1. PICK k : k = [kern EXCEPT !.signal_table[proc][g] = new]
      OBVIOUS
    <3>2. new \in Handlers
      BY DEF Handlers
    <3>3. /\ k \in KernelStates
          /\ k.ready_queue = kern.ready_queue /\ k.blocked_queue = kern.blocked_queue
          /\ k.sleep_queue = kern.sleep_queue /\ k.stopped_queue = kern.stopped_queue
          /\ k.state = kern.state /\ k.blocked_status = kern.blocked_status
          /\ k.blocked_id = kern.blocked_id
          /\ k.halt = kern.halt /\ k.process = kern.process
      BY <1>0, <2>1, <3>1, <3>2 DEF KernelStates
    <3>4. Safe(k)
      BY <1>24, <2>1, <3>3
    <3> QED
      BY <1>1, <2>1, <2>3, <3>1, <3>4, SetRetSafe
  <2> QED
    BY <1>5, <1>25, <2>1, <2>2, <2>3 DEF SigHandler
<1>26. CASE SigReturn
  <2>1. kern.halt = "no" /\ proc # IDLE /\ proc \in Slots /\ kern.frames[proc] # << >>
    BY <1>3, <1>4, <1>26 DEF SigReturn
  <2>2. PICK f, enabled, k0, k1, k2 :
          /\ f = kern.frames[proc]
          /\ enabled = kern.signals_enabled[proc]
          /\ k0 = SetRet(kern, proc, f[Len(f)].ret)
          /\ k1 = [k0 EXCEPT !.frames[proc] = SubSeq(@, 1, Len(@) - 1)]
          /\ k2 = [k1 EXCEPT !.signals_enabled[proc] = @ \ {Highest(enabled)}]
    OBVIOUS
  <2>3. \/ Switch(cleanup_pcb(SetRet(kern, proc, SYSCALL_SIGRETURN), proc))
        \/ kern' = [k1 EXCEPT !.halt = "spin"]
        \/ Continue(k2)
    BY <1>26, <2>2 DEF SigReturn
  <2>4. f \in Seq(Frames) /\ Len(f) \in Nat \ {0} /\ \A i \in 1..Len(f) : f[i] \in Frames
    <3>1. f \in Seq(Frames) /\ f # << >>
      BY <1>0, <2>1, <2>2 DEF KernelStates
    <3> QED
      BY <3>1, EmptySeq, ElemsProperties
  <2>5. f[Len(f)].ret \in Int
    <3>1. Len(f) \in 1..Len(f)
      BY <2>4
    <3>2. f[Len(f)] \in Frames
      BY <2>4, <3>1
    <3> QED
      BY <3>2 DEF Frames
  <2>6. SubSeq(f, 1, Len(f) - 1) \in Seq(Frames)
    <3>1. 1 \in 1..(Len(f) + 1) /\ Len(f) - 1 \in 0..Len(f)
      BY <2>4
    <3> QED
      BY <2>4, <3>1, PartProperties
  <2>7. /\ k0 \in KernelStates /\ k0.frames[proc] = f
        /\ k0.ready_queue = kern.ready_queue /\ k0.blocked_queue = kern.blocked_queue
        /\ k0.sleep_queue = kern.sleep_queue /\ k0.stopped_queue = kern.stopped_queue
        /\ k0.state = kern.state /\ k0.blocked_status = kern.blocked_status
        /\ k0.blocked_id = kern.blocked_id
        /\ k0.halt = kern.halt /\ k0.process = kern.process
    BY <1>0, <2>1, <2>2, <2>5, SetRetType DEF SetRet, KernelStates
  <2>8. /\ k1 \in KernelStates
        /\ k1.ready_queue = k0.ready_queue /\ k1.blocked_queue = k0.blocked_queue
        /\ k1.sleep_queue = k0.sleep_queue /\ k1.stopped_queue = k0.stopped_queue
        /\ k1.state = k0.state /\ k1.blocked_status = k0.blocked_status
        /\ k1.blocked_id = k0.blocked_id
        /\ k1.halt = k0.halt /\ k1.process = k0.process
    <3>1. PICK fs : fs = [k0.frames EXCEPT ![proc] = SubSeq(f, 1, Len(f) - 1)]
      OBVIOUS
    <3>2. fs \in [Slots -> Seq(Frames)]
      BY <2>1, <2>6, <2>7, <3>1 DEF KernelStates
    <3>3. k1 = [k0 EXCEPT !.frames = fs]
      BY <2>2, <2>7, <3>1 DEF KernelStates
    <3> QED
      BY <2>7, <3>2, <3>3 DEF KernelStates
  <2>9. CASE kern' = [k1 EXCEPT !.halt = "spin"]
    <3>1. kern' \in KernelStates /\ kern'.halt = "spin"
      BY <2>8, <2>9 DEF KernelStates, Halts
    <3> QED
      BY <3>1 DEF Safe
  <2>10. CASE Continue(k2)
    <3>1. PICK es : es = [k1.signals_enabled EXCEPT ![proc] = @ \ {Highest(enabled)}]
      OBVIOUS
    <3>2. es \in [Slots -> SUBSET Signals]
      BY <2>1, <2>8, <3>1 DEF KernelStates
    <3>3. k2 = [k1 EXCEPT !.signals_enabled = es]
      BY <2>2, <2>8, <3>1 DEF KernelStates
    <3>4. /\ k2 \in KernelStates
          /\ k2.ready_queue = k1.ready_queue /\ k2.blocked_queue = k1.blocked_queue
          /\ k2.sleep_queue = k1.sleep_queue /\ k2.stopped_queue = k1.stopped_queue
          /\ k2.state = k1.state /\ k2.blocked_status = k1.blocked_status
          /\ k2.blocked_id = k1.blocked_id
          /\ k2.halt = k1.halt /\ k2.process = k1.process
      BY <2>8, <3>2, <3>3 DEF KernelStates
    <3>5. Safe(k2)
      BY <1>24, <2>1, <2>7, <2>8, <3>4
    <3> QED
      BY <1>1, <2>10, <3>5
  <2> QED
    BY <1>14, <2>1, <2>3, <2>9, <2>10 DEF SYSCALL_SIGRETURN
<1>27. CASE DeviceCall
  <2>1. proc \in Slots
    BY <1>3, <1>4, <1>27 DEF DeviceCall
  <2> QED
    BY <1>5, <1>27, <2>1 DEF DeviceCall, SYSERR
<1>28. ASSUME kern' = [kern EXCEPT !.halt = "assert"] PROVE Safe(kern')
  <2>1. kern' \in KernelStates /\ kern'.halt = "assert"
    BY <1>0, <1>28 DEF KernelStates, Halts
  <2> QED
    BY <2>1 DEF Safe
<1>29. CASE Write
  <2>1. proc \in Slots
    BY <1>3, <1>4, <1>29 DEF Write
  <2> QED
    BY <1>5, <1>28, <1>29, <2>1 DEF Write, SYSERR
<1>30. CASE Read
  <2>1. kern.halt = "no" /\ proc # IDLE /\ proc \in Slots
    BY <1>3, <1>4, <1>30 DEF Read
  <2>2. PICK k : k = [kern EXCEPT !.state[proc] = "BLOCKED",
                                  !.blocked_status[proc] = "DEVICE",
                                  !.ret[proc] = BLOCKERR]
    OBVIOUS
  <2>3. Good(k, {}) /\ k.halt = "no"
    BY <1>3, <2>1, <2>2, ReadGood
  <2>4. \/ \E result \in {SYSERR, 0, 1} : Return(result)
        \/ Switch(k)
        \/ kern' = [kern EXCEPT !.halt = "assert"]
    BY <1>30, <2>2 DEF Read
  <2>5. {SYSERR, 0, 1} \subseteq Int
    BY DEF SYSERR
  <2> QED
    BY <1>2, <1>5, <1>28, <2>1, <2>3, <2>4, <2>5
<1>31. ASSUME kern.halt = "no"
       PROVE  /\ Good(Interrupted, {proc} \ {IDLE}) /\ Safe(Interrupted)
              /\ Interrupted.halt = "no" /\ Interrupted.process = proc
              /\ proc # IDLE => Interrupted.state[proc] = "RUNNING"
  <2>1. CASE proc = IDLE
    BY <1>31, <2>1 DEF Interrupted, Safe, proc
  <2>2. CASE proc # IDLE
    <3>1. Interrupted = SetRet(kern, proc, USER_EAX) /\ USER_EAX \in Int
      BY <2>2 DEF Interrupted, USER_EAX
    <3>2. {proc} \ {IDLE} = {proc}
      BY <2>2
    <3>3. /\ Kept(kern, Interrupted, {proc}) /\ Interrupted.state = kern.state
          /\ Safe(Interrupted)
      BY <1>3, <1>31, <2>2, <3>1, SetRetGood, SetRetSafe
    <3> QED
      BY <1>3, <1>31, <2>2, <3>2, <3>3 DEF Kept
  <2> QED
    BY <2>1, <2>2
<1>32. CASE KeyboardInt
  <2>0. PICK k : k = Interrupted
    OBVIOUS
  <2>1. PICK done \in SUBSET OnDevice(kern), count \in {0, 1} :
          Continue([k EXCEPT
            !.ready_queue = @ \o Keep(TaskOrder, done),
            !.state = [s \in Slots |-> IF s \in done THEN "READY" ELSE @[s]],
            !.blocked_status = [s \in Slots |-> IF s \in done THEN "NONE" ELSE @[s]],
            !.ret = [s \in Slots |-> IF s \in done THEN count ELSE @[s]]])
    BY <1>32, <2>0 DEF KeyboardInt
  <2>2. kern.halt = "no"
    BY <1>32 DEF KeyboardInt
  <2>3. /\ Good(k, {proc} \ {IDLE}) /\ Safe(k) /\ k.halt = "no" /\ k.process = proc
        /\ \A s \in {proc} \ {IDLE} : k.state[s] # "BLOCKED"
    BY <1>31, <2>0, <2>2
  <2>4. k \in KernelStates /\ k.ret \in [Slots -> Int]
    BY <2>3 DEF Safe, KernelStates
  <2>5. done \in SUBSET OnDevice(k)
    BY <1>0, <1>3, <2>0, <2>2 DEF OnDevice, Interrupted, SetRet, KernelStates
  <2>6. PICK re, k1 :
          /\ re = [s \in Slots |-> IF s \in done THEN count ELSE k.ret[s]]
          /\ k1 = [k EXCEPT
                    !.ready_queue = k.ready_queue \o Keep(TaskOrder, done),
                    !.state = [s \in Slots |-> IF s \in done THEN "READY" ELSE k.state[s]],
                    !.blocked_status = [s \in Slots |->
                                          IF s \in done THEN "NONE" ELSE k.blocked_status[s]],
                    !.ret = re]
    OBVIOUS
  <2>7. Continue(k1)
    BY <2>1, <2>4, <2>6 DEF KernelStates
  <2>8. re \in [Slots -> Int]
    BY <2>4, <2>6
  <2>9. Kept(k, k1, {proc} \ {IDLE})
    BY <2>3, <2>5, <2>6, <2>8, KeyboardGood
  <2>10. Safe(k1)
    BY <2>3, <2>9 DEF Safe, Kept, Held, Good
  <2> QED
    BY <1>1, <2>7, <2>10
<1>33. CASE TimerInt
  <2>0. PICK k, k1 : k = Interrupted /\ k1 = tick(k)
    OBVIOUS
  <2>1. kern.halt = "no" /\ Switch(IF proc = IDLE THEN k1 ELSE add_pcb_to_ready_queue(k1, proc))
    BY <1>33, <2>0 DEF TimerInt
  <2>2. Good(k1, {proc} \ {IDLE}) /\ k1.halt = "no"
    BY <1>31, <2>0, <2>1, TickGood
  <2>3. CASE proc = IDLE
    <3>1. {proc} \ {IDLE} = {}
      BY <2>3
    <3> QED
      BY <1>2, <2>1, <2>2, <2>3, <3>1
  <2>4. CASE proc # IDLE
    <3>1. {proc} \ {IDLE} = {proc}
      BY <2>4
    <3>2. Good(k1, {proc})
      BY <2>2, <3>1
    <3>3. /\ Good(add_pcb_to_ready_queue(k1, proc), {proc} \ {proc})
          /\ add_pcb_to_ready_queue(k1, proc).halt = "no"
      BY <1>11, <2>2, <3>2, AddReady
    <3> QED
      BY <1>2, <1>11, <2>1, <2>4, <3>3
  <2> QED
    BY <2>3, <2>4
<1>34. CASE Halted \/ UNCHANGED kern
  BY <1>34 DEF Halted
<1> QED
  BY <1>12, <1>13, <1>15, <1>16, <1>17, <1>18, <1>19, <1>20, <1>21, <1>22, <1>23, <1>25,
     <1>26, <1>27, <1>29, <1>30, <1>32, <1>33, <1>34 DEF Next

IInv == Safe(kern)

\* In every state, for tables of every size and whatever the processes do, each pcb
\* is on exactly the queue of c/pcb.c or c/sleep.c that its state names, once, and
\* the process that runs is on none.
THEOREM AllPlaced == Spec => []PlacedOnce
<1>1. Init => IInv
  BY InitSafe DEF IInv
<1>2. IInv /\ [Next]_kern => IInv'
  BY NextSafe DEF IInv
<1>3. IInv => PlacedOnce
  BY DEF IInv, Safe, Good, PlacedOnce, Runs, proc
<1> QED
  BY <1>1, <1>2, <1>3, PTL DEF Spec

\* As long as no process receives from any process, no handler offers a pcb to a
\* queue while a list of c/pcbqueue.c still links it, so that no list is ever cut
\* short.
THEOREM NoCorruption == ~AnyReceive => (Spec => []NeverCorrupt)
<1> SUFFICES ASSUME ~AnyReceive PROVE Spec => []NeverCorrupt
  OBVIOUS
<1>1. Init => IInv
  BY InitSafe DEF IInv
<1>2. IInv /\ [Next]_kern => IInv'
  BY NextSafe DEF IInv
<1>3. IInv => NeverCorrupt
  BY DEF IInv, Safe, NeverCorrupt
<1> QED
  BY <1>1, <1>2, <1>3, PTL DEF Spec
=============================================================================
