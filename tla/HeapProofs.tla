----------------------------- MODULE HeapProofs -----------------------------
(***************************************************************************)
(* Theorems about the memory manager of c/mem.c and those who hold its     *)
(* blocks, for memories, blocks and process tables of every size.          *)
(***************************************************************************)
EXTENDS Stacks, NumberProofs

-----------------------------------------------------------------------------
(***************************************************************************)
(* Numbers.                                                                *)
(***************************************************************************)

\* The number is a whole number of paragraphs.
Aligned(n) == n \in Int /\ n % PARAGRAPH_SIZE = 0

\* So it is a multiple of the size of one.
LEMMA AlignedMultiple ==
  ASSUME NEW n \in Int
  PROVE  Aligned(n) <=> \E q \in Int : n = PARAGRAPH_SIZE * q
<1>1. PICK P \in Nat \ {0} : P = PARAGRAPH_SIZE
  BY AlignmentAssumption
<1>2. PICK d \in Int, e \in 0..(P - 1) : n = P * d + e /\ e = n % P
  <2>1. n % P \in 0..(P - 1) /\ n \div P \in Int /\ n = P * (n \div P) + (n % P)
    OBVIOUS
  <2> QED
    BY <2>1
<1>3. ASSUME NEW q \in Int, n = P * q PROVE e = 0
  <2>1. PICK c \in Int : c = q - d
    OBVIOUS
  <2>2. P * c = e
    <3>1. PICK x \in Int, y \in Int : x = P * q /\ y = P * d
      OBVIOUS
    <3>2. P * (q - d) = x - y
      BY <3>1
    <3>3. n = x /\ n = y + e
      BY <1>2, <1>3, <3>1
    <3> QED
      BY <2>1, <3>2, <3>3
  <2>3. CASE c >= 1
    <3>1. P * c >= P
      BY <2>3
    <3> QED
      BY <2>2, <3>1
  <2>4. CASE c <= 0
    <3>1. P * c <= 0
      BY <2>4
    <3> QED
      BY <2>2, <3>1
  <2> QED
    BY <2>3, <2>4
<1>4. ASSUME e = 0 PROVE n = P * d
  BY <1>2, <1>4
<1> QED
  BY <1>1, <1>2, <1>3, <1>4 DEF Aligned

\* Sums and differences of whole paragraphs are whole paragraphs.
LEMMA AlignedSum ==
  ASSUME NEW a, NEW b, Aligned(a), Aligned(b)
  PROVE  Aligned(a + b) /\ Aligned(a - b)
<1>1. PICK P \in Int : P = PARAGRAPH_SIZE
  BY AlignmentAssumption
<1>2. a \in Int /\ b \in Int
  BY DEF Aligned
<1>3. PICK q \in Int : a = P * q
  BY <1>1, <1>2, AlignedMultiple
<1>4. PICK r \in Int : b = P * r
  BY <1>1, <1>2, AlignedMultiple
<1>5. a + b = P * (q + r) /\ a - b = P * (q - r)
  BY <1>3, <1>4
<1>6. a + b \in Int /\ a - b \in Int /\ q + r \in Int /\ q - r \in Int
  BY <1>2
<1> QED
  BY <1>1, <1>5, <1>6, AlignedMultiple

\* align_to_paragraph() rounds up to a whole paragraph.
LEMMA AlignProperties ==
  ASSUME NEW n \in Nat
  PROVE  /\ align_to_paragraph(n) \in Nat /\ Aligned(align_to_paragraph(n))
         /\ n <= align_to_paragraph(n) /\ align_to_paragraph(n) <= n + PARAGRAPH_SIZE
<1>1. PICK P \in Nat \ {0} : P = PARAGRAPH_SIZE
  BY AlignmentAssumption
<1>2. CASE n % P = 0
  BY <1>1, <1>2 DEF align_to_paragraph, Aligned
<1>3. CASE n % P # 0
  <2>1. PICK m \in Nat : m = n + P
    BY <1>1
  <2>2. PICK d \in Int, e \in 0..(P - 1) : m = P * d + e /\ d = m \div P
    <3>1. m % P \in 0..(P - 1) /\ m \div P \in Int /\ m = P * (m \div P) + (m % P)
      BY <2>1
    <3> QED
      BY <3>1
  <2>3. PICK r \in Int : r = P * d
    BY <2>2
  <2>4. align_to_paragraph(n) = r
    <3>1. align_to_paragraph(n) = (m \div P) * P
      BY <1>1, <1>3, <2>1 DEF align_to_paragraph
    <3> QED
      BY <2>2, <2>3, <3>1
  <2>5. r = m - e
    BY <2>2, <2>3
  <2>6. r \in Nat /\ n <= r /\ r <= n + P
    BY <2>1, <2>5
  <2>7. Aligned(r)
    BY <1>1, <2>2, <2>3, AlignedMultiple
  <2> QED
    BY <1>1, <2>4, <2>6, <2>7
<1> QED
  BY <1>2, <1>3

\* The bounds of the memory that is managed.
LEMMA Layout ==
  /\ {memstart, memend, HOLESTART, HOLEEND, HEADER, maxaddr, freemem, KERNEL_STACK} \subseteq Nat
  /\ Aligned(memstart) /\ Aligned(memend) /\ Aligned(HOLESTART) /\ Aligned(HOLEEND)
  /\ Aligned(HEADER)
  /\ 0 < freemem /\ freemem <= memstart /\ memstart < HOLESTART
  /\ HOLESTART < HOLEEND /\ HOLEEND < memend /\ memend <= maxaddr /\ 0 < HEADER
<1>1. /\ {freemem, maxaddr, KERNEL_STACK, HOLESTART, HOLEEND, HEADER} \subseteq Nat
      /\ Aligned(HOLESTART) /\ Aligned(HOLEEND) /\ Aligned(HEADER)
      /\ 0 < freemem /\ HOLESTART < HOLEEND /\ 0 < HEADER
  BY AlignmentAssumption, LayoutAssumption DEF Aligned
<1>2. /\ memstart \in Nat /\ Aligned(memstart)
      /\ freemem <= memstart /\ memstart <= freemem + PARAGRAPH_SIZE
  BY <1>1, AlignProperties DEF memstart
<1>3. memstart < HOLESTART
  BY <1>1, <1>2, AlignmentAssumption, LayoutAssumption
<1>4. PICK P \in Nat \ {0} : P = PARAGRAPH_SIZE
  BY AlignmentAssumption
<1>5. PICK m \in Nat : m = maxaddr - HOLEEND /\ m > P
  <2>1. HOLEEND + P + HEADER < maxaddr
    BY <1>4, LayoutAssumption
  <2> QED
    BY <1>1, <1>4, <2>1
<1>6. PICK d \in Int, e \in 0..(P - 1) : m = P * d + e /\ d = m \div P
  <2>1. m % P \in 0..(P - 1) /\ m \div P \in Int /\ m = P * (m \div P) + (m % P)
    BY <1>5
  <2> QED
    BY <2>1
<1>7. PICK r \in Int : r = P * d
  BY <1>6
<1>8. memend = HOLEEND + r
  <2>1. memend = HOLEEND + (m \div P) * P
    BY <1>4, <1>5 DEF memend
  <2> QED
    BY <1>6, <1>7, <2>1
<1>9. r > 0 /\ r <= m /\ Aligned(r)
  BY <1>4, <1>5, <1>6, <1>7, AlignedMultiple
<1>10. Aligned(memend)
  BY <1>1, <1>8, <1>9, AlignedSum
<1> QED
  BY <1>1, <1>2, <1>3, <1>5, <1>7, <1>8, <1>9, <1>10

\* What an address is.
LEMMA AddrsProperties ==
  /\ Addrs \subseteq 1..memend /\ memend \in Nat
  /\ \A a \in Int : a \in Addrs <=>
       /\ Aligned(a) /\ memstart <= a /\ a < memend
       /\ a < HOLESTART \/ a >= HOLEEND
  /\ memstart \in Addrs /\ HOLEEND \in Addrs
<1>1. \A a \in Int : a \in Addrs <=>
        /\ Aligned(a) /\ memstart <= a /\ a < memend
        /\ a < HOLESTART \/ a >= HOLEEND
  BY Layout DEF Addrs, Aligned
<1>2. Addrs \subseteq 1..memend
  BY Layout DEF Addrs
<1> QED
  BY <1>1, <1>2, Layout

\* Addresses are numbers, and NULL is none of them.
LEMMA AddrsNumbers ==
  /\ memend \in Nat
  /\ \A a \in Addrs : a \in Int /\ a \in 0..memend /\ a # NULL /\ a > 0
<1>1. \A a \in 1..memend : a \in Int /\ a \in 0..memend /\ a # NULL /\ a > 0
  BY AddrsProperties DEF NULL
<1> QED
  BY <1>1, AddrsProperties

-----------------------------------------------------------------------------
(***************************************************************************)
(* The list of the free blocks.                                            *)
(***************************************************************************)

\* The address a is the first in S, or NULL if there is none.
First(a, S) == IF S = {} THEN a = NULL ELSE a \in S /\ \A b \in S : a <= b

Above(F, a) == {b \in F : b > a}

\* The list that starts at first links the blocks in F, in the order of their addresses
\* and both ways.
Chain(first, h, F) ==
  /\ First(first, F)
  /\ \A a \in F : /\ First(h[a].next, Above(F, a))
                  /\ h[a].next # NULL => h[h[a].next].prev = a
  /\ first # NULL => h[first].prev = NULL

\* First, with quantifiers.
LEMMA FirstProperties ==
  ASSUME NEW S \in SUBSET Addrs, NEW a
  PROVE  First(a, S) <=> \/ a = NULL /\ S = {}
                         \/ a \in S /\ \A b \in S : a <= b
<1>1. NULL \notin S
  BY AddrsNumbers
<1> QED
  BY <1>1 DEF First

\* The successor of a block.
LEMMA ChainNext ==
  ASSUME NEW F \in SUBSET Addrs, NEW first, NEW h, Chain(first, h, F), NEW a \in F
  PROVE  /\ h[a].next \in F \cup {NULL}
         /\ h[a].next # NULL => h[a].next > a /\ h[h[a].next].prev = a
         /\ \A b \in F : b <= a \/ (h[a].next # NULL /\ h[a].next <= b)
<1>1. Above(F, a) \in SUBSET Addrs
  BY DEF Above
<1>2. \A x \in F : x \in Int
  BY AddrsNumbers
<1>3. First(h[a].next, Above(F, a)) /\ (h[a].next # NULL => h[h[a].next].prev = a)
  BY DEF Chain
<1>4. \/ h[a].next = NULL /\ Above(F, a) = {}
      \/ h[a].next \in Above(F, a) /\ \A b \in Above(F, a) : h[a].next <= b
  BY <1>1, <1>3, FirstProperties
<1>5. NULL \notin F
  BY AddrsNumbers
<1> QED
  BY <1>2, <1>3, <1>4, <1>5 DEF Above

\* The predecessor of a block.
LEMMA ChainPrev ==
  ASSUME NEW F \in SUBSET Addrs, NEW first, NEW h, Chain(first, h, F), NEW a \in F
  PROVE  \/ h[a].prev = NULL /\ first = a
         \/ h[a].prev \in F /\ h[a].prev < a /\ h[h[a].prev].next = a
<1>0. (\A x \in F : x \in Int) /\ NULL \notin F
  BY AddrsNumbers
<1>1. first \in F /\ \A b \in F : first <= b
  BY FirstProperties DEF Chain
<1>2. CASE first = a
  BY <1>0, <1>1, <1>2 DEF Chain
<1>3. CASE first # a
  <2>1. PICK S : S = {b \in F : b < a}
    OBVIOUS
  <2>2. first \in S
    BY <1>0, <1>1, <1>3, <2>1
  <2>3. S \in SUBSET (0..memend) /\ memend \in Nat /\ S # {}
    BY <2>1, <2>2, AddrsNumbers
  <2>4. PICK b \in S : \A c \in S : c <= b
    BY <2>3, Greatest
  <2>5. b \in F /\ b < a
    BY <2>1
  <2>6. /\ h[b].next # NULL /\ h[b].next <= a /\ h[b].next > b /\ h[b].next \in F
        /\ h[h[b].next].prev = b
    BY <1>0, <2>5, ChainNext, SMTT(40)
  <2>7. h[b].next = a
    <3>1. SUFFICES ASSUME h[b].next < a PROVE FALSE
      BY <1>0, <2>6
    <3>2. h[b].next \in S
      BY <2>1, <2>6, <3>1
    <3> QED
      BY <1>0, <2>4, <2>5, <2>6, <3>2
  <2> QED
    BY <2>5, <2>6, <2>7
<1> QED
  BY <1>2, <1>3

\* The links of the blocks in F from h to h1, but for the next of p and the prev of n.
Relinked(h, h1, F, p, n) ==
  /\ \A a \in F \ {p} : h1[a].next = h[a].next
  /\ \A a \in F \ {n} : h1[a].prev = h[a].prev

\* The block node is linked between p and n, which are neighbours.
Enters(first, h, F, node, p, n, first1, h1) ==
  /\ p = NULL => n = first /\ first1 = node
  /\ p # NULL => p \in F /\ p < node /\ n = h[p].next /\ first1 = first
  /\ n # NULL => node < n
  /\ Relinked(h, h1, F, p, n)
  /\ h1[node].prev = p /\ h1[node].next = n
  /\ p # NULL => h1[p].next = node
  /\ n # NULL => h1[n].prev = node

\* It enters the list.
LEMMA ChainInsert ==
  ASSUME NEW F \in SUBSET Addrs, NEW first, NEW h, Chain(first, h, F),
         NEW node \in Addrs \ F, NEW p, NEW n, NEW first1, NEW h1,
         Enters(first, h, F, node, p, n, first1, h1)
  PROVE  Chain(first1, h1, F \cup {node})
<1> SUFFICES ASSUME p = NULL => n = first,
                    p # NULL => p \in F /\ p < node /\ n = h[p].next,
                    n # NULL => node < n,
                    Relinked(h, h1, F, p, n),
                    h1[node].prev = p, h1[node].next = n,
                    p # NULL => h1[p].next = node,
                    n # NULL => h1[n].prev = node,
                    p = NULL => first1 = node,
                    p # NULL => first1 = first
             PROVE  Chain(first1, h1, F \cup {node})
  BY DEF Enters
<1>0. PICK G : G = F \cup {node}
  OBVIOUS
<1>1. /\ \A x \in F : x \in Int
      /\ node \in Int /\ NULL \notin F /\ node # NULL /\ G \in SUBSET Addrs
  BY <1>0, AddrsNumbers
<1>2. \/ first = NULL /\ F = {}
      \/ first \in F /\ \A b \in F : first <= b
  BY FirstProperties DEF Chain
<1>3. n \in F \cup {NULL} /\ \A b \in F : (p # NULL /\ b <= p) \/ (n # NULL /\ n <= b)
  <2>1. CASE p = NULL
    BY <1>1, <1>2, <2>1
  <2>2. CASE p # NULL
    <3>1. p \in F /\ n = h[p].next
      BY <2>2
    <3> QED
      BY <1>1, <2>2, <3>1, ChainNext
  <2> QED
    BY <2>1, <2>2
<1>9. /\ p # NULL => p \in F /\ p \in Int /\ p < node
      /\ n # NULL => n \in F /\ n \in Int /\ node < n
  BY <1>1, <1>3
<1>4. First(n, Above(G, node))
  <2>1. Above(G, node) \in SUBSET Addrs
    BY <1>1 DEF Above
  <2>2. CASE n = NULL
    <3>1. ASSUME NEW b \in F PROVE ~(b > node)
      BY <1>1, <1>3, <1>9, <2>2
    <3>2. ~(node > node)
      BY <1>1
    <3>3. Above(G, node) = {}
      BY <1>0, <3>1, <3>2 DEF Above
    <3> QED
      BY <2>1, <2>2, <3>3, FirstProperties
  <2>3. CASE n # NULL
    <3>1. n \in Above(G, node) /\ \A b \in Above(G, node) : n <= b
      BY <1>0, <1>1, <1>3, <1>9, <2>3 DEF Above
    <3> QED
      BY <2>1, <3>1, FirstProperties
  <2> QED
    BY <2>2, <2>3
<1>5. ASSUME NEW a \in F
      PROVE  /\ First(h1[a].next, Above(G, a))
             /\ h1[a].next # NULL => h1[h1[a].next].prev = a
  <2>1. Above(G, a) \in SUBSET Addrs
    BY <1>1 DEF Above
  <2>2. CASE a = p
    <3>1. h1[a].next = node /\ a < node
      BY <1>1, <1>5, <2>2
    <3>2. \A b \in Above(G, a) : node <= b
      BY <1>0, <1>1, <1>3, <1>9, <2>2 DEF Above
    <3>3. node \in Above(G, a)
      BY <1>0, <1>1, <3>1 DEF Above
    <3>4. First(node, Above(G, a))
      BY <2>1, <3>2, <3>3, FirstProperties
    <3> QED
      BY <2>2, <3>1, <3>4
  <2>3. CASE a # p
    <3>1. h1[a].next = h[a].next
      BY <2>3 DEF Relinked
    <3>2. /\ h[a].next \in F \cup {NULL}
          /\ h[a].next # NULL => h[a].next > a /\ h[h[a].next].prev = a
          /\ \A b \in F : b <= a \/ (h[a].next # NULL /\ h[a].next <= b)
      BY ChainNext
    <3>3. CASE p # NULL /\ a <= p
      <4>1. a < p /\ p \in F /\ p < node
        BY <1>1, <1>9, <2>3, <3>3
      <4>2. h[a].next # NULL /\ h[a].next <= p /\ h[a].next \in F
        BY <1>1, <3>2, <4>1
      <4>3. h[a].next \in Above(G, a) /\ \A b \in Above(G, a) : h[a].next <= b
        <5>1. h[a].next \in Int /\ h[a].next > a /\ h[a].next <= p
          BY <1>1, <3>2, <4>2
        <5>2. ASSUME NEW b \in F, b > a PROVE h[a].next <= b
          BY <1>1, <3>2, <5>2
        <5>3. h[a].next <= node
          BY <1>1, <1>9, <4>1, <5>1
        <5> QED
          BY <1>0, <4>2, <5>1, <5>2, <5>3 DEF Above
      <4>4. First(h[a].next, Above(G, a))
        BY <2>1, <4>3, FirstProperties
      <4>5. h[a].next # n
        <5>1. n = NULL \/ n > node
          BY <1>1
        <5> QED
          BY <1>1, <1>3, <1>9, <4>1, <4>2, <5>1
      <4>6. h1[h[a].next].prev = a
        BY <3>2, <4>2, <4>5 DEF Relinked
      <4> QED
        BY <3>1, <4>4, <4>6
    <3>4. CASE n # NULL /\ n <= a
      <4>1. node < a
        BY <1>1, <1>3, <1>9, <3>4
      <4>2. Above(G, a) = Above(F, a)
        BY <1>0, <1>1, <4>1 DEF Above
      <4>3. First(h[a].next, Above(F, a))
        BY DEF Chain
      <4>4. h[a].next # NULL => h[a].next # n
        BY <1>1, <1>3, <1>9, <3>2, <3>4
      <4>5. h[a].next # NULL => h1[h[a].next].prev = a
        BY <3>2, <4>4 DEF Relinked
      <4> QED
        BY <3>1, <4>2, <4>3, <4>5
    <3> QED
      BY <1>3, <3>3, <3>4
  <2> QED
    BY <2>2, <2>3
<1>6. n # NULL => h1[n].prev = node
  OBVIOUS
<1>7. CASE p = NULL
  <2>1. node \in G /\ \A b \in G : node <= b
    BY <1>0, <1>1, <1>3, <1>9, <1>7
  <2>2. First(node, G)
    BY <1>1, <2>1, FirstProperties
  <2>3. Chain(node, h1, G)
    BY <1>0, <1>4, <1>5, <1>6, <1>7, <2>2 DEF Chain
  <2> QED
    BY <1>0, <1>7, <2>3
<1>8. CASE p # NULL
  <2>1. first \in F /\ first <= p
    BY <1>2, <1>8
  <2>2. first \in G /\ \A b \in G : first <= b
    BY <1>0, <1>1, <1>2, <1>8, <1>9, <2>1
  <2>3. First(first, G)
    BY <1>1, <2>2, FirstProperties
  <2>4. h1[first].prev = NULL
    <3>1. first # n
      <4>1. n = NULL \/ n > p
        BY <1>1, <1>8, <1>9
      <4> QED
        BY <1>1, <1>3, <1>9, <1>8, <2>1, <4>1
    <3>2. h[first].prev = NULL
      BY <1>1, <1>0, <2>1 DEF Chain
    <3> QED
      BY <2>1, <3>1, <3>2 DEF Relinked
  <2>5. Chain(first, h1, G)
    BY <1>0, <1>4, <1>5, <1>6, <2>3, <2>4 DEF Chain
  <2> QED
    BY <1>0, <1>8, <2>5
<1> QED
  BY <1>7, <1>8

\* The neighbours p and n of the block a are linked to each other.
Leaves(first, h, F, a, p, n, first1, h1) ==
  /\ p = h[a].prev /\ n = h[a].next
  /\ Relinked(h, h1, F \ {a}, p, n)
  /\ p # NULL => h1[p].next = n /\ first1 = first
  /\ p = NULL => first1 = n
  /\ n # NULL => h1[n].prev = p

\* It leaves the list.
LEMMA ChainRemove ==
  ASSUME NEW F \in SUBSET Addrs, NEW first, NEW h, Chain(first, h, F), NEW a \in F,
         NEW p, NEW n, NEW first1, NEW h1, Leaves(first, h, F, a, p, n, first1, h1)
  PROVE  Chain(first1, h1, F \ {a})
<1>9. \/ h[a].prev = NULL /\ first = a
      \/ h[a].prev \in F /\ h[a].prev < a /\ h[h[a].prev].next = a
  BY ChainPrev
<1> SUFFICES ASSUME p = h[a].prev, n = h[a].next,
                    Relinked(h, h1, F \ {a}, p, n),
                    p # NULL => h1[p].next = n,
                    n # NULL => h1[n].prev = p,
                    p # NULL => first1 = first,
                    p = NULL => first1 = n
             PROVE  Chain(first1, h1, F \ {a})
  BY DEF Leaves
<1>0. PICK G : G = F \ {a}
  OBVIOUS
<1>1. (\A x \in F : x \in Int) /\ NULL \notin F /\ G \in SUBSET Addrs
  BY <1>0, AddrsNumbers
<1>2. first \in F /\ \A b \in F : first <= b
  BY FirstProperties DEF Chain
<1>3. /\ n \in F \cup {NULL}
      /\ n # NULL => n > a
      /\ \A b \in F : b <= a \/ (n # NULL /\ n <= b)
  BY ChainNext
<1>4. \/ p = NULL /\ first = a
      \/ p \in F /\ p < a /\ h[p].next = a
  BY <1>9
<1>5. p # NULL => \A b \in F : b <= p \/ a <= b
  <2>1. SUFFICES ASSUME p # NULL, NEW b \in F PROVE b <= p \/ a <= b
    OBVIOUS
  <2>2. p \in F /\ h[p].next = a
    BY <1>4, <2>1
  <2>3. b <= p \/ h[p].next <= b
    BY <2>2, ChainNext, SMTT(40)
  <2> QED
    BY <2>2, <2>3
<1>6. ASSUME NEW c \in G
      PROVE  /\ First(h1[c].next, Above(G, c))
             /\ h1[c].next # NULL => h1[h1[c].next].prev = c
  <2>1. Above(G, c) \in SUBSET Addrs /\ c \in F /\ c # a
    BY <1>0, <1>1 DEF Above
  <2>2. CASE c = p
    <3>1. h1[c].next = n
      BY <1>1, <2>1, <2>2
    <3>2. \/ n = NULL /\ Above(G, c) = {}
          \/ n \in Above(G, c) /\ \A b \in Above(G, c) : n <= b
      <4>1. \A b \in Above(G, c) : b \in F /\ b > p /\ b # a
        BY <1>0, <2>2 DEF Above
      <4>2. \A b \in Above(G, c) : n # NULL /\ n <= b
        BY <1>1, <1>3, <1>4, <1>5, <2>1, <2>2, <4>1
      <4>3. n # NULL => n \in Above(G, c)
        BY <1>0, <1>1, <1>3, <1>4, <2>1, <2>2 DEF Above
      <4> QED
        BY <4>2, <4>3
    <3>3. First(n, Above(G, c))
      BY <2>1, <3>2, FirstProperties
    <3> QED
      BY <2>2, <3>1, <3>3
  <2>3. CASE c # p
    <3>1. h1[c].next = h[c].next
      BY <1>0, <2>3 DEF Relinked
    <3>2. /\ h[c].next \in F \cup {NULL}
          /\ h[c].next # NULL => h[c].next > c /\ h[h[c].next].prev = c
          /\ \A b \in F : b <= c \/ (h[c].next # NULL /\ h[c].next <= b)
      BY <2>1, ChainNext
    <3>3. h[c].next # a
      BY <1>1, <2>3, <3>2
    <3>4. \/ h[c].next = NULL /\ Above(G, c) = {}
          \/ h[c].next \in Above(G, c) /\ \A b \in Above(G, c) : h[c].next <= b
      BY <1>0, <1>1, <2>1, <3>2, <3>3 DEF Above
    <3>5. First(h[c].next, Above(G, c))
      BY <2>1, <3>4, FirstProperties
    <3>6. h[c].next # NULL => h[c].next # n
      <4>1. n # NULL => h[n].prev = a
        BY DEF Chain
      <4> QED
        BY <2>1, <3>2, <4>1
    <3>7. h[c].next # NULL => h1[h[c].next].prev = c
      BY <1>0, <3>2, <3>3, <3>6 DEF Relinked
    <3> QED
      BY <3>1, <3>5, <3>7
  <2> QED
    BY <2>2, <2>3
<1>7. CASE p = NULL
  <2>1. first = a
    BY <1>1, <1>4, <1>7
  <2>2. \/ n = NULL /\ G = {}
        \/ n \in G /\ \A b \in G : n <= b
    BY <1>0, <1>1, <1>2, <1>3, <2>1
  <2>3. First(n, G)
    BY <1>1, <2>2, FirstProperties
  <2>4. Chain(n, h1, G)
    BY <1>6, <1>7, <2>3 DEF Chain
  <2> QED
    BY <1>0, <1>7, <2>4
<1>8. CASE p # NULL
  <2>1. p \in F /\ p < a /\ first <= p
    BY <1>2, <1>4, <1>8
  <2>2. first \in G /\ \A b \in G : first <= b
    BY <1>0, <1>1, <1>2, <2>1
  <2>3. First(first, G)
    BY <1>1, <2>2, FirstProperties
  <2>4. h1[first].prev = NULL
    <3>1. first # n
      BY <1>1, <1>2, <1>3, <2>1
    <3>2. h[first].prev = NULL
      BY <1>1, <1>2 DEF Chain
    <3> QED
      BY <1>0, <2>2, <3>1, <3>2 DEF Relinked
  <2>5. Chain(first, h1, G)
    BY <1>6, <2>3, <2>4 DEF Chain
  <2> QED
    BY <1>0, <1>8, <2>5
<1> QED
  BY <1>7, <1>8

-----------------------------------------------------------------------------
(***************************************************************************)
(* The blocks.                                                             *)
(***************************************************************************)

\* The blocks, by the addresses of their headers, and where a block ends.
Blocks(h) == {a \in Addrs : h[a].size > 0}
End(h, a) == a + h[a].size

\* The region of the address a ends here.
Limit(a) == IF a < HOLESTART THEN HOLESTART ELSE memend

\* The block a ends where the next block, or its region, does, and there is none in it.
FitsIn(h, a) ==
  /\ (End(h, a) \in Blocks(h) /\ End(h, a) < Limit(a)) \/ End(h, a) = Limit(a)
  /\ \A b \in Blocks(h) : b <= a \/ End(h, a) <= b

\* Sizes are numbers and the blocks cover both regions.
Tiling(h) ==
  /\ \A a \in Addrs : h[a].size \in Nat
  /\ memstart \in Blocks(h) /\ HOLEEND \in Blocks(h)
  /\ \A a \in Blocks(h) : FitsIn(h, a)

\* Where regions end.
LEMMA LimitProperties ==
  ASSUME NEW a \in Addrs
  PROVE  /\ Limit(a) \in Int /\ Aligned(Limit(a)) /\ a < Limit(a) /\ Limit(a) \notin Addrs
         /\ Limit(a) <= memend
         /\ a < HOLESTART => Limit(a) <= HOLESTART
         /\ a >= HOLEEND \/ a < HOLESTART
         /\ \A b \in Int : Aligned(b) /\ a <= b /\ b < Limit(a) => b \in Addrs
         /\ \A b \in Addrs : a <= b /\ b < Limit(a) => Limit(b) = Limit(a)
<1>1. a \in Int /\ memstart <= a /\ a < memend /\ (a < HOLESTART \/ a >= HOLEEND)
  BY AddrsNumbers, AddrsProperties
<1>2. \A b \in Addrs : b \in Int /\ (b < HOLESTART \/ b >= HOLEEND)
  BY AddrsNumbers, AddrsProperties
<1>3. CASE a < HOLESTART
  <2>1. Limit(a) = HOLESTART
    BY <1>3 DEF Limit
  <2>2. \A b \in Int : Aligned(b) /\ a <= b /\ b < HOLESTART => b \in Addrs
    BY <1>1, Layout, AddrsProperties
  <2>3. HOLESTART \notin Addrs
    BY <1>2, Layout
  <2>4. \A b \in Addrs : a <= b /\ b < HOLESTART => Limit(b) = HOLESTART
    BY DEF Limit
  <2> QED
    BY <1>1, <1>3, <2>1, <2>2, <2>3, <2>4, Layout
<1>4. CASE ~(a < HOLESTART)
  <2>1. Limit(a) = memend /\ a >= HOLEEND
    BY <1>1, <1>4 DEF Limit
  <2>2. \A b \in Int : Aligned(b) /\ a <= b /\ b < memend => b \in Addrs
    BY <1>1, <2>1, Layout, AddrsProperties
  <2>3. memend \notin Addrs
    BY AddrsProperties, Layout
  <2>4. \A b \in Addrs : a <= b /\ b < memend => Limit(b) = memend
    <3>1. SUFFICES ASSUME NEW b \in Addrs, a <= b PROVE ~(b < HOLESTART)
      BY DEF Limit
    <3> QED
      BY <1>1, <1>2, <2>1, <3>1, Layout
  <2> QED
    BY <1>1, <1>4, <2>1, <2>2, <2>3, <2>4, Layout
<1> QED
  BY <1>3, <1>4

\* What a block is.
LEMMA BlockProperties ==
  ASSUME NEW h, Tiling(h), NEW a \in Blocks(h)
  PROVE  /\ a \in Addrs /\ a \in Int /\ h[a].size \in Nat /\ h[a].size > 0
         /\ End(h, a) \in Int /\ a < End(h, a) /\ End(h, a) <= Limit(a)
         /\ Aligned(a) /\ Aligned(End(h, a)) /\ Aligned(h[a].size)
         /\ \A b \in Blocks(h) : b <= a \/ End(h, a) <= b
<1>1. a \in Addrs /\ a \in Int /\ h[a].size \in Nat /\ h[a].size > 0 /\ Aligned(a)
  BY AddrsNumbers, AddrsProperties DEF Blocks, Tiling
<1>2. FitsIn(h, a)
  BY DEF Tiling
<1>3. Limit(a) \in Int /\ Aligned(Limit(a))
  BY <1>1, LimitProperties
<1>4. End(h, a) \in Int /\ a < End(h, a) /\ h[a].size = End(h, a) - a
  BY <1>1 DEF End
<1>5. Aligned(End(h, a)) /\ End(h, a) <= Limit(a)
  <2>1. CASE End(h, a) \in Blocks(h) /\ End(h, a) < Limit(a)
    <3>1. End(h, a) \in Addrs
      BY <2>1 DEF Blocks
    <3> QED
      BY <1>3, <1>4, <2>1, <3>1, AddrsProperties
  <2>2. CASE End(h, a) = Limit(a)
    BY <1>3, <2>2
  <2> QED
    BY <1>2, <2>1, <2>2 DEF FitsIn
<1>6. Aligned(h[a].size)
  BY <1>1, <1>4, <1>5, AlignedSum
<1> QED
  BY <1>1, <1>2, <1>4, <1>5, <1>6 DEF FitsIn

\* The block a is cut into one of need bytes and what is left over.
LEMMA SplitTiling ==
  ASSUME NEW h, Tiling(h), NEW a \in Blocks(h),
         NEW need, Aligned(need), 0 < need, need < h[a].size, NEW c, c = a + need, NEW h1,
         h1[a].size = need, h1[c].size = h[a].size - need,
         \A b \in Addrs \ {a, c} : h1[b].size = h[b].size
  PROVE  /\ c \in Addrs /\ c \notin Blocks(h) /\ Limit(c) = Limit(a)
         /\ Blocks(h1) = Blocks(h) \cup {c} /\ End(h1, a) = c /\ End(h1, c) = End(h, a)
         /\ Tiling(h1)
<1>1. /\ a \in Addrs /\ a \in Int /\ h[a].size \in Nat /\ h[a].size > 0
      /\ End(h, a) \in Int /\ a < End(h, a) /\ End(h, a) <= Limit(a)
      /\ Aligned(a) /\ Aligned(h[a].size)
      /\ \A b \in Blocks(h) : b <= a \/ End(h, a) <= b
  BY BlockProperties
<1>2. need \in Int /\ c \in Int /\ a < c /\ c < End(h, a) /\ Aligned(c)
  <2>1. need \in Int
    BY DEF Aligned
  <2>2. Aligned(a + need)
    BY <1>1, AlignedSum
  <2> QED
    BY <1>1, <2>1, <2>2 DEF End
<1>3. Limit(a) \in Int /\ c \in Addrs /\ Limit(c) = Limit(a)
  BY <1>1, <1>2, LimitProperties
<1>4. c \notin Blocks(h)
  BY <1>1, <1>2
<1>5. ASSUME NEW b \in Addrs PROVE h1[b].size \in Nat /\ (b # a /\ b # c => h1[b].size = h[b].size)
  <2>1. h[a].size - need \in Nat /\ need \in Nat
    BY <1>1, <1>2
  <2>2. h[b].size \in Nat
    BY DEF Tiling
  <2> QED
    BY <2>1, <2>2
<1>6. Blocks(h1) = Blocks(h) \cup {c}
  <2>1. h1[c].size > 0 /\ h1[a].size > 0
    BY <1>1, <1>2
  <2> QED
    BY <1>1, <1>3, <1>5, <2>1 DEF Blocks
<1>7. End(h1, a) = c /\ End(h1, c) = End(h, a)
  BY <1>1, <1>2 DEF End
<1>8. FitsIn(h, a)
  BY DEF Tiling
<1>9. FitsIn(h1, a)
  <2>1. \A b \in Blocks(h1) : b <= a \/ c <= b
    BY <1>1, <1>2, <1>6, AddrsNumbers DEF Blocks
  <2>2. c \in Blocks(h1) /\ c < Limit(a)
    BY <1>1, <1>2, <1>3, <1>6
  <2> QED
    BY <1>7, <2>1, <2>2 DEF FitsIn
<1>10. FitsIn(h1, c)
  <2>1. \A b \in Blocks(h1) : b <= c \/ End(h, a) <= b
    BY <1>1, <1>2, <1>6, AddrsNumbers DEF Blocks
  <2>2. (End(h, a) \in Blocks(h1) /\ End(h, a) < Limit(c)) \/ End(h, a) = Limit(c)
    BY <1>3, <1>6, <1>8 DEF FitsIn
  <2> QED
    BY <1>7, <2>1, <2>2 DEF FitsIn
<1>11. ASSUME NEW b \in Blocks(h), b # a PROVE FitsIn(h1, b)
  <2>1. FitsIn(h, b) /\ b # c /\ b \in Addrs
    BY <1>4, <1>11 DEF Tiling, Blocks
  <2>2. End(h1, b) = End(h, b)
    BY <1>5, <1>11, <2>1 DEF End
  <2>3. b \in Int /\ End(h, b) \in Int /\ b < End(h, b)
    BY BlockProperties
  <2>4. c <= b \/ End(h, b) <= c
    <3>1. CASE b < a
      <4>1. End(h, b) <= a
        BY <1>1, <2>1, <2>3, <3>1 DEF FitsIn
      <4> QED
        BY <1>1, <1>2, <2>3, <4>1
    <3>2. CASE a < b
      BY <1>1, <1>2, <2>3, <3>2
    <3> QED
      BY <1>1, <1>11, <2>3, <3>1, <3>2
  <2>5. \A d \in Blocks(h1) : d <= b \/ End(h, b) <= d
    BY <1>6, <2>1, <2>4 DEF FitsIn
  <2> QED
    BY <1>6, <2>1, <2>2, <2>5 DEF FitsIn
<1>12. Tiling(h1)
  <2>1. memstart \in Blocks(h1) /\ HOLEEND \in Blocks(h1)
    BY <1>6 DEF Tiling
  <2> QED
    BY <1>5, <1>6, <1>9, <1>10, <1>11, <2>1 DEF Tiling
<1> QED
  BY <1>3, <1>4, <1>6, <1>7, <1>12

\* The blocks a and c, which are neighbours, become one.
LEMMA MergeTiling ==
  ASSUME NEW h, Tiling(h), NEW a \in Blocks(h), NEW c \in Blocks(h), End(h, a) = c, NEW h1,
         h1[a].size = h[a].size + h[c].size, h1[c].size = 0,
         \A b \in Addrs \ {a, c} : h1[b].size = h[b].size
  PROVE  /\ Blocks(h1) = Blocks(h) \ {c} /\ End(h1, a) = End(h, c)
         /\ Tiling(h1)
<1>1. /\ a \in Addrs /\ a \in Int /\ h[a].size \in Nat /\ h[a].size > 0
      /\ a < c /\ c <= Limit(a)
      /\ \A b \in Blocks(h) : b <= a \/ c <= b
  BY BlockProperties
<1>2. /\ c \in Addrs /\ c \in Int /\ h[c].size \in Nat /\ h[c].size > 0
      /\ End(h, c) \in Int /\ c < End(h, c)
      /\ \A b \in Blocks(h) : b <= c \/ End(h, c) <= b
  BY BlockProperties
<1>3. Limit(c) = Limit(a)
  BY <1>1, <1>2, LimitProperties
<1>4. ASSUME NEW b \in Addrs PROVE h1[b].size \in Nat /\ (b # a /\ b # c => h1[b].size = h[b].size)
  <2>1. h[a].size + h[c].size \in Nat /\ 0 \in Nat
    BY <1>1, <1>2
  <2>2. h[b].size \in Nat
    BY DEF Tiling
  <2> QED
    BY <2>1, <2>2
<1>5. Blocks(h1) = Blocks(h) \ {c}
  <2>1. h1[a].size > 0 /\ ~(h1[c].size > 0)
    BY <1>1, <1>2
  <2> QED
    BY <1>1, <1>2, <1>4, <2>1 DEF Blocks
<1>6. End(h1, a) = End(h, c)
  BY <1>1, <1>2 DEF End
<1>7. FitsIn(h, c)
  BY DEF Tiling
<1>8. FitsIn(h1, a)
  <2>1. \A b \in Blocks(h1) : b <= a \/ End(h, c) <= b
    <3>1. SUFFICES ASSUME NEW b \in Blocks(h), b # c, ~(b <= a) PROVE End(h, c) <= b
      BY <1>5
    <3>2. b \in Int
      BY AddrsNumbers DEF Blocks
    <3>3. c <= b
      BY <1>1, <3>1
    <3>4. ~(b <= c)
      BY <1>2, <3>1, <3>2, <3>3
    <3> QED
      BY <1>2, <3>4
  <2>2. (End(h, c) \in Blocks(h1) /\ End(h, c) < Limit(a)) \/ End(h, c) = Limit(a)
    BY <1>2, <1>3, <1>5, <1>7 DEF FitsIn
  <2> QED
    BY <1>6, <2>1, <2>2 DEF FitsIn
<1>9. ASSUME NEW b \in Blocks(h), b # a, b # c PROVE FitsIn(h1, b)
  <2>1. FitsIn(h, b) /\ b \in Addrs
    BY DEF Tiling, Blocks
  <2>2. End(h1, b) = End(h, b)
    BY <1>4, <1>9, <2>1 DEF End
  <2>3. b \in Int /\ End(h, b) \in Int /\ b < End(h, b)
    BY BlockProperties
  <2>4. End(h, b) # c
    <3>1. SUFFICES ASSUME End(h, b) = c PROVE FALSE
      OBVIOUS
    <3>2. a <= b
      BY <1>1, <1>2, <2>1, <3>1 DEF FitsIn
    <3>3. b <= a \/ c <= b
      BY <1>1
    <3> QED
      BY <1>1, <1>2, <1>9, <2>3, <3>1, <3>2, <3>3
  <2> QED
    BY <1>5, <2>1, <2>2, <2>4 DEF FitsIn
<1>10. Tiling(h1)
  <2>1. memstart # c /\ HOLEEND # c
    <3>1. memstart <= a
      BY <1>1, AddrsProperties
    <3>2. a < HOLESTART => c <= HOLESTART
      BY <1>1 DEF Limit
    <3>3. a < HOLESTART \/ a >= HOLEEND
      BY <1>1, LimitProperties
    <3> QED
      BY <1>1, <1>2, <3>1, <3>2, <3>3, Layout
  <2>2. memstart \in Blocks(h1) /\ HOLEEND \in Blocks(h1)
    BY <1>5, <2>1 DEF Tiling
  <2> QED
    BY <1>4, <1>5, <1>8, <1>9, <2>2 DEF Tiling
<1> QED
  BY <1>5, <1>6, <1>10

-----------------------------------------------------------------------------
(***************************************************************************)
(* What the steps of kmalloc() and kfree() do to the headers.              *)
(***************************************************************************)

HeaderMaps == [Addrs -> Headers]
Links == Addrs \cup {NULL}

\* The fields of a header.
LEMMA HeaderFields ==
  ASSUME NEW h \in HeaderMaps, NEW a \in Addrs
  PROVE  /\ h[a] \in Headers
         /\ h[a].size \in Nat /\ h[a].sanity_check \in Nat
         /\ h[a].prev \in Links /\ h[a].next \in Links
<1>1. h[a] \in Headers
  BY DEF HeaderMaps
<1> QED
  BY <1>1 DEF Headers, Links

\* From h to h1 the header at a keeps its size and check, and its links unless it is that
\* of p, whose next is x then, or of n, whose prev is y.
LinkSet(h, h1, p, x, n, y, a) ==
  /\ h1[a].size = h[a].size /\ h1[a].sanity_check = h[a].sanity_check
  /\ a = p => h1[a].next = x
  /\ a # p => h1[a].next = h[a].next
  /\ a = n => h1[a].prev = y
  /\ a # n => h1[a].prev = h[a].prev

\* For all headers.
LinksSet(h, h1, p, x, n, y) ==
  h1 \in HeaderMaps /\ \A a \in Addrs : LinkSet(h, h1, p, x, n, y, a)

\* A link is set in one header.
LEMMA SetNext ==
  ASSUME NEW h \in HeaderMaps, NEW p \in Addrs, NEW x \in Links
  PROVE  LinksSet(h, [h EXCEPT ![p].next = x], p, x, NULL, NULL)
<1>1. PICK r, h1 : r = [h[p] EXCEPT !.next = x] /\ h1 = [h EXCEPT ![p] = r]
  OBVIOUS
<1>2. [h EXCEPT ![p].next = x] = h1
  BY <1>1
<1>3. /\ r \in Headers /\ r.size = h[p].size /\ r.sanity_check = h[p].sanity_check
      /\ r.next = x /\ r.prev = h[p].prev
  BY <1>1, HeaderFields DEF Headers, Links
<1>4. h1 \in HeaderMaps /\ h1[p] = r /\ \A a \in Addrs \ {p} : h1[a] = h[a]
  BY <1>1, <1>3 DEF HeaderMaps
<1>5. \A a \in Addrs : a # NULL
  BY AddrsNumbers
<1> QED
  BY <1>2, <1>3, <1>4, <1>5 DEF LinksSet, LinkSet

\* The same for the link back.
LEMMA SetPrev ==
  ASSUME NEW h \in HeaderMaps, NEW n \in Addrs, NEW y \in Links
  PROVE  LinksSet(h, [h EXCEPT ![n].prev = y], NULL, NULL, n, y)
<1>1. PICK r, h1 : r = [h[n] EXCEPT !.prev = y] /\ h1 = [h EXCEPT ![n] = r]
  OBVIOUS
<1>2. [h EXCEPT ![n].prev = y] = h1
  BY <1>1
<1>3. /\ r \in Headers /\ r.size = h[n].size /\ r.sanity_check = h[n].sanity_check
      /\ r.prev = y /\ r.next = h[n].next
  BY <1>1, HeaderFields DEF Headers, Links
<1>4. h1 \in HeaderMaps /\ h1[n] = r /\ \A a \in Addrs \ {n} : h1[a] = h[a]
  BY <1>1, <1>3 DEF HeaderMaps
<1>5. \A a \in Addrs : a # NULL
  BY AddrsNumbers
<1> QED
  BY <1>2, <1>3, <1>4, <1>5 DEF LinksSet, LinkSet

\* From h to h2 a next and a prev are set where there is a header.
BothSet(h, h1, h2, p, x, n, y) ==
  /\ h1 = (IF p # NULL THEN [h EXCEPT ![p].next = x] ELSE h)
  /\ h2 = (IF n # NULL THEN [h1 EXCEPT ![n].prev = y] ELSE h1)

\* So these two links are all that changes.
LEMMA SetBoth ==
  ASSUME NEW h \in HeaderMaps, NEW p \in Links, NEW x \in Links, NEW n \in Links, NEW y \in Links,
         NEW h1, NEW h2, BothSet(h, h1, h2, p, x, n, y)
  PROVE  LinksSet(h, h2, p, x, n, y)
<1>1. \A a \in Addrs : a # NULL
  BY AddrsNumbers
<1>2. LinksSet(h, h1, p, x, NULL, NULL)
  <2>1. CASE p # NULL
    <3>1. p \in Addrs
      BY <2>1 DEF Links
    <3> QED
      BY <2>1, <3>1, SetNext DEF BothSet
  <2>2. CASE p = NULL
    BY <1>1, <2>2 DEF LinksSet, LinkSet, BothSet
  <2> QED
    BY <2>1, <2>2
<1>3. h1 \in HeaderMaps
  BY <1>2 DEF LinksSet, LinkSet
<1>4. LinksSet(h1, h2, NULL, NULL, n, y)
  <2>1. CASE n # NULL
    <3>1. n \in Addrs
      BY <2>1 DEF Links
    <3> QED
      BY <1>3, <2>1, <3>1, SetPrev DEF BothSet
  <2>2. CASE n = NULL
    BY <1>1, <1>3, <2>2 DEF LinksSet, LinkSet, BothSet
  <2> QED
    BY <2>1, <2>2
<1>5. ASSUME NEW a \in Addrs PROVE LinkSet(h, h2, p, x, n, y, a)
  <2>1. LinkSet(h, h1, p, x, NULL, NULL, a) /\ LinkSet(h1, h2, NULL, NULL, n, y, a) /\ a # NULL
    BY <1>1, <1>2, <1>4 DEF LinksSet
  <2> QED
    BY <2>1 DEF LinkSet
<1> QED
  BY <1>4, <1>5 DEF LinksSet

\* Unlink() joins the neighbours of the block.
LEMMA UnlinkEffect ==
  ASSUME NEW h \in HeaderMaps, NEW a \in Addrs
  PROVE  LinksSet(h, Unlink(h, a), h[a].prev, h[a].next, h[a].next, h[a].prev)
<1>1. h[a].prev \in Links /\ h[a].next \in Links
  BY HeaderFields
<1>2. PICK p, n : p = h[a].prev /\ n = h[a].next
  OBVIOUS
<1>3. PICK h1 : h1 = (IF p # NULL THEN [h EXCEPT ![p].next = n] ELSE h)
  OBVIOUS
<1>4. PICK h2 : h2 = (IF n # NULL THEN [h1 EXCEPT ![n].prev = p] ELSE h1)
  OBVIOUS
<1>5. Unlink(h, a) = h2
  BY <1>2, <1>3, <1>4 DEF Unlink
<1>6. LinksSet(h, h2, p, n, n, p)
  <2>1. p \in Links /\ n \in Links
    BY <1>1, <1>2
  <2>2. BothSet(h, h1, h2, p, n, n, p)
    BY <1>3, <1>4 DEF BothSet
  <2> QED
    BY <2>1, <2>2, SetBoth
<1> QED
  BY <1>2, <1>5, <1>6

\* The header of the block a that is claimed has the size need and passes the check.
Claimed(h, h1, a, need, b) ==
  /\ b = a => h1[b].size = need /\ h1[b].sanity_check = a + HEADER
  /\ b # a => h1[b].size = h[b].size /\ h1[b].sanity_check = h[b].sanity_check
  /\ h1[b].next = h[b].next /\ h1[b].prev = h[b].prev

\* A block that Claim() marks as taken.
LEMMA ClaimEffect ==
  ASSUME NEW h \in HeaderMaps, NEW a \in Addrs, NEW need \in Nat,
         NEW h1, h1 = Claim(h, a, need)
  PROVE  h1 \in HeaderMaps /\ \A b \in Addrs : Claimed(h, h1, a, need, b)
<1>1. PICK r : r = [h[a] EXCEPT !.size = need, !.sanity_check = a + HEADER]
  OBVIOUS
<1>2. h1 = [h EXCEPT ![a] = r]
  BY <1>1 DEF Claim, HeaderMaps
<1>3. a + HEADER \in Nat
  BY AddrsNumbers, Layout
<1>4. /\ r \in Headers /\ r.size = need /\ r.sanity_check = a + HEADER
      /\ r.next = h[a].next /\ r.prev = h[a].prev
  BY <1>1, <1>3, HeaderFields DEF Headers, Links
<1>5. h1 \in HeaderMaps /\ \A b \in Addrs : h1[b] = IF b = a THEN r ELSE h[b]
  BY <1>2, <1>4 DEF HeaderMaps
<1> QED
  BY <1>4, <1>5 DEF Claimed

\* Split() links what is left over behind the block.
LEMMA SplitEffect ==
  ASSUME NEW h \in HeaderMaps, NEW a \in Addrs, NEW need \in Nat, need < h[a].size,
         NEW c \in Addrs, c = a + need, c # a, h[a].next # c
  PROVE  LET h1 == Split(h, a, need)
         IN  /\ h1 \in HeaderMaps
             /\ h1[c].size = h[a].size - need /\ h1[c].prev = a /\ h1[c].next = h[a].next
             /\ \A b \in Addrs \ {c} : h1[b].size = h[b].size
             /\ \A b \in Addrs : h1[b].sanity_check = h[b].sanity_check
             /\ \A b \in Addrs \ {c} : h1[b].next = IF b = a THEN c ELSE h[b].next
             /\ \A b \in Addrs \ {c} : h1[b].prev = IF b = h[a].next THEN c ELSE h[b].prev
<1> PICK n, r, g, g1 :
      /\ n = h[a].next
      /\ r = [h[c] EXCEPT !.size = h[a].size - need, !.prev = a, !.next = n]
      /\ g = [h EXCEPT ![c] = r]
      /\ g1 = [g EXCEPT ![a].next = c]
  OBVIOUS
<1>0. PICK h1 : h1 = (IF n # NULL THEN [g1 EXCEPT ![n].prev = c] ELSE g1)
  BY ZenonT(40)
<1>1. Split(h, a, need) = h1
  BY <1>0, HeaderFields DEF Split, HeaderMaps
<1>2. /\ h[a].size - need \in Nat /\ n \in Links /\ a \in Links /\ c \in Links
      /\ h[a].size # need
  BY <1>0, HeaderFields DEF Links
<1>3. /\ r \in Headers /\ r.size = h[a].size - need /\ r.sanity_check = h[c].sanity_check
      /\ r.next = n /\ r.prev = a
  <2>1. PICK v \in Nat : v = h[a].size - need
    BY <1>2
  <2>2. r = [h[c] EXCEPT !.size = v, !.prev = a, !.next = n]
    BY <1>0, <2>1
  <2> QED
    BY <1>2, <2>1, <2>2, HeaderFields, ZenonT(40) DEF Headers, Links
<1>4. g \in HeaderMaps /\ g[c] = r /\ \A b \in Addrs \ {c} : g[b] = h[b]
  BY <1>0, <1>3 DEF HeaderMaps
<1>5. LinksSet(g, h1, a, c, n, c)
  <2>1. a # NULL
    BY AddrsNumbers
  <2>2. g1 = (IF a # NULL THEN [g EXCEPT ![a].next = c] ELSE g)
    BY <2>1
  <2>3. BothSet(g, g1, h1, a, c, n, c)
    BY <1>0, <2>2 DEF BothSet
  <2> QED
    BY <1>2, <1>4, <2>3, SetBoth
<1>6. c # n
  BY <1>0
<1>7. h1 \in HeaderMaps /\ \A b \in Addrs : LinkSet(g, h1, a, c, n, c, b)
  BY <1>5 DEF LinksSet
<1>8. h1[c].size = h[a].size - need /\ h1[c].prev = a /\ h1[c].next = n
      /\ h1[c].sanity_check = h[c].sanity_check
  <2>1. LinkSet(g, h1, a, c, n, c, c)
    BY <1>7
  <2> QED
    BY <1>3, <1>4, <1>6, <2>1, ZenonT(40) DEF LinkSet
<1>9. ASSUME NEW b \in Addrs \ {c}
      PROVE  /\ h1[b].size = h[b].size /\ h1[b].sanity_check = h[b].sanity_check
             /\ h1[b].next = IF b = a THEN c ELSE h[b].next
             /\ h1[b].prev = IF b = n THEN c ELSE h[b].prev
  <2>1. LinkSet(g, h1, a, c, n, c, b) /\ g[b] = h[b]
    BY <1>4, <1>7
  <2> QED
    BY <2>1 DEF LinkSet
<1> QED
  BY <1>1, <1>7, <1>8, <1>9

\* The header of the node a is linked with p and n.
Inserted(h, h1, p, a, n, b) ==
  /\ h1[b].size = h[b].size /\ h1[b].sanity_check = h[b].sanity_check
  /\ b = a => h1[b].prev = p /\ h1[b].next = n
  /\ b # a /\ b = p => h1[b].next = a
  /\ b # a /\ b # p => h1[b].next = h[b].next
  /\ b # a /\ b = n => h1[b].prev = a
  /\ b # a /\ b # n => h1[b].prev = h[b].prev

\* Insert() does so.
LEMMA InsertEffect ==
  ASSUME NEW h \in HeaderMaps, NEW p \in Links, NEW a \in Addrs, NEW n \in Links,
         a # p, a # n
  PROVE  /\ Insert(h, p, a, n) \in HeaderMaps
         /\ \A b \in Addrs : Inserted(h, Insert(h, p, a, n), p, a, n, b)
<1> PICK g1 : g1 = (IF p # NULL THEN [h EXCEPT ![p].next = a] ELSE h)
  OBVIOUS
<1> PICK g2 : g2 = (IF n # NULL THEN [g1 EXCEPT ![n].prev = a] ELSE g1)
  OBVIOUS
<1>0. PICK g3, h1 : g3 = [g2 EXCEPT ![a].prev = p] /\ h1 = [g3 EXCEPT ![a].next = n]
  OBVIOUS
<1>1. a \in Links
  BY DEF Links
<1>2. LinksSet(h, g2, p, a, n, a)
  <2>1. BothSet(h, g1, g2, p, a, n, a)
    BY DEF BothSet
  <2> QED
    BY <1>1, <2>1, SetBoth
<1>3. g2 \in HeaderMaps
  BY <1>2 DEF LinksSet, LinkSet
<1>4. LinksSet(g2, g3, NULL, NULL, a, p)
  BY <1>0, <1>3, SetPrev
<1>5. g3 \in HeaderMaps
  BY <1>4 DEF LinksSet, LinkSet
<1>6. LinksSet(g3, h1, a, n, NULL, NULL)
  <2>1. LinksSet(g3, [g3 EXCEPT ![a].next = n], a, n, NULL, NULL)
    BY <1>5, SetNext
  <2> QED
    BY <1>0, <2>1
<1>7. Insert(h, p, a, n) = h1
  BY <1>0, <1>3 DEF Insert, HeaderMaps
<1>8. \A b \in Addrs : b # NULL
  BY AddrsNumbers
<1>9. ASSUME NEW b \in Addrs
      PROVE  Inserted(h, h1, p, a, n, b)
  <2>1. /\ LinkSet(h, g2, p, a, n, a, b) /\ LinkSet(g2, g3, NULL, NULL, a, p, b)
        /\ LinkSet(g3, h1, a, n, NULL, NULL, b) /\ b # NULL
    BY <1>2, <1>4, <1>6, <1>8 DEF LinksSet
  <2> QED
    BY <2>1 DEF LinkSet, Inserted
<1>10. h1 \in HeaderMaps
  BY <1>6 DEF LinksSet
<1> QED
  BY <1>7, <1>9, <1>10

\* The blocks a and c have become one.
Merged(h, h1, a, c) ==
  /\ h1[a].size = h[a].size + h[c].size /\ h1[c].size = 0 /\ h1[a].next = h[c].next
  /\ \A b \in Addrs \ {a, c} : h1[b].size = h[b].size /\ h1[b].next = h[b].next
  /\ \A b \in Addrs \ {c} :
       /\ h1[b].sanity_check = h[b].sanity_check
       /\ b = h[c].next => h1[b].prev = a
       /\ b # h[c].next => h1[b].prev = h[b].prev

\* coalesce_blocks() of two blocks that touch.
LEMMA CoalesceEffect ==
  ASSUME NEW h \in HeaderMaps, NEW a \in Addrs, NEW c \in Addrs, a < c, End(h, a) = c,
         h[c].next # a, h[c].next # c
  PROVE  /\ coalesce_blocks(h, a, c) \in HeaderMaps
         /\ Merged(h, coalesce_blocks(h, a, c), a, c)
<1>20. PICK n, r, v, g, g1 :
      /\ n = h[c].next /\ v = c + h[c].size - a
      /\ r = [h[a] EXCEPT !.size = v, !.next = n]
      /\ g = [h EXCEPT ![a] = r]
      /\ g1 = [g EXCEPT ![c] = NoHeader]
  OBVIOUS
<1>0. PICK h1 : h1 = (IF n = NULL THEN g1 ELSE [g1 EXCEPT ![n].prev = a])
  BY ZenonT(40)
<1>1. /\ a \in Int /\ c \in Int /\ a # NULL /\ c # NULL /\ a # c
      /\ h[a].size \in Nat /\ h[c].size \in Nat /\ c = a + h[a].size
      /\ n \in Links /\ a \in Links
  BY <1>0, <1>20, AddrsNumbers, HeaderFields DEF Links, End
<1>2. v = h[a].size + h[c].size /\ v \in Nat
  <2>1. PICK x \in Nat, y \in Nat : x = h[a].size /\ y = h[c].size
    BY <1>1
  <2>2. v = c + y - a /\ c = a + x
    BY <1>1, <1>20, <2>1
  <2>3. v = x + y /\ v \in Nat
    BY <1>1, <2>1, <2>2
  <2> QED
    BY <2>1, <2>3
<1>3. coalesce_blocks(h, a, c) = h1
  <2>1. ~(a + h[a].size < c)
    BY <1>1
  <2> QED
    BY <1>0, <1>20, <1>1, <2>1 DEF coalesce_blocks, HeaderMaps
<1>4. /\ r \in Headers /\ r.size = v /\ r.sanity_check = h[a].sanity_check
      /\ r.next = n /\ r.prev = h[a].prev
  BY <1>0, <1>20, <1>1, <1>2, HeaderFields DEF Headers, Links
<1>5. NoHeader \in Headers /\ NoHeader.size = 0
  BY DEF NoHeader, Headers, NULL
<1>6. g \in HeaderMaps /\ g[a] = r /\ \A b \in Addrs \ {a} : g[b] = h[b]
  BY <1>0, <1>20, <1>4 DEF HeaderMaps
<1>7. g1 \in HeaderMaps /\ g1[c] = NoHeader /\ \A b \in Addrs \ {c} : g1[b] = g[b]
  BY <1>0, <1>20, <1>5, <1>6 DEF HeaderMaps
<1>8. LinksSet(g1, h1, NULL, NULL, n, a)
  <2>1. CASE n = NULL
    BY <1>0, <1>20, <1>7, <2>1, AddrsNumbers DEF LinksSet, LinkSet
  <2>2. CASE n # NULL
    <3>1. n \in Addrs
      BY <1>1, <2>2 DEF Links
    <3> QED
      BY <1>0, <1>20, <1>1, <1>7, <2>2, <3>1, SetPrev
  <2> QED
    BY <2>1, <2>2
<1>9. \A b \in Addrs : b # NULL
  BY AddrsNumbers
<1>10. /\ h1 \in HeaderMaps
       /\ \A b \in Addrs :
            /\ h1[b].size = g1[b].size /\ h1[b].sanity_check = g1[b].sanity_check
            /\ h1[b].next = g1[b].next
            /\ b = n => h1[b].prev = a
            /\ b # n => h1[b].prev = g1[b].prev
  BY <1>8, <1>9 DEF LinksSet, LinkSet
<1>11. /\ g1[a] = r /\ g1[c].size = 0
       /\ \A b \in Addrs \ {a, c} : g1[b] = h[b]
  BY <1>1, <1>5, <1>6, <1>7
<1>12. \A b \in Addrs \ {c} : g1[b].sanity_check = h[b].sanity_check /\ g1[b].prev = h[b].prev
  BY <1>4, <1>11
<1>13. h1[a].size = h[a].size + h[c].size /\ h1[c].size = 0 /\ h1[a].next = n
  BY <1>2, <1>4, <1>10, <1>11
<1>14. ASSUME NEW b \in Addrs \ {c}
       PROVE  /\ h1[b].sanity_check = h[b].sanity_check
              /\ b = n => h1[b].prev = a
              /\ b # n => h1[b].prev = h[b].prev
  BY <1>10, <1>12
<1>15. ASSUME NEW b \in Addrs \ {a, c}
       PROVE  h1[b].size = h[b].size /\ h1[b].next = h[b].next
  <2>1. g1[b] = h[b] /\ h1[b].size = g1[b].size /\ h1[b].next = g1[b].next
    BY <1>10, <1>11
  <2> QED
    BY <2>1
<1>16. Merged(h, h1, a, c)
  BY <1>13, <1>14, <1>15, <1>20 DEF Merged
<1> QED
  BY <1>3, <1>10, <1>16

-----------------------------------------------------------------------------
(***************************************************************************)
(* The heap.                                                               *)
(***************************************************************************)

\* The blocks in L are taken, the others are on the list that starts at first, and no two
\* neighbours are free, but for a block in M and the one behind it.
Loose(first, h, L, M) ==
  /\ h \in HeaderMaps
  /\ L \subseteq Blocks(h)
  /\ Tiling(h)
  /\ Chain(first, h, Blocks(h) \ L)
  /\ \A a \in Blocks(h) \ (L \cup M) : End(h, a) \notin Blocks(h) \ L
  /\ \A a \in L : h[a].sanity_check = a + HEADER

Heap(first, h, L) == Loose(first, h, L, {})

\* Headers of the same sizes.
LEMMA SameTiling ==
  ASSUME NEW h, NEW h1, \A a \in Addrs : h1[a].size = h[a].size
  PROVE  /\ Blocks(h1) = Blocks(h) /\ (Tiling(h) => Tiling(h1))
         /\ \A a \in Addrs : End(h1, a) = End(h, a)
<1>1. Blocks(h1) = Blocks(h)
  BY DEF Blocks
<1>2. \A a \in Addrs : End(h1, a) = End(h, a)
  BY DEF End
<1>3. \A a \in Blocks(h) : a \in Addrs
  BY DEF Blocks
<1>4. \A a \in Blocks(h) : FitsIn(h, a) => FitsIn(h1, a)
  BY <1>1, <1>2, <1>3 DEF FitsIn
<1> QED
  BY <1>1, <1>2, <1>4 DEF Tiling

\* kmalloc() takes a block that fits exactly.
LEMMA TakeWhole ==
  ASSUME NEW first, NEW h, NEW L, Heap(first, h, L), NEW a \in Blocks(h) \ L,
         NEW need, need = h[a].size, NEW h1, h1 = Claim(Unlink(h, a), a, need),
         NEW first1, h[a].prev # NULL => first1 = first, h[a].prev = NULL => first1 = h[a].next
  PROVE  /\ Heap(first1, h1, L \cup {a})
         /\ \A b \in Addrs : h1[b].size = h[b].size
<1>0. PICK F, u, p, n : /\ F = Blocks(h) \ L /\ u = Unlink(h, a)
                        /\ p = h[a].prev /\ n = h[a].next
  OBVIOUS
<1>1. /\ h \in HeaderMaps /\ Tiling(h) /\ L \subseteq Blocks(h) /\ Chain(first, h, F)
      /\ a \in Addrs /\ need \in Nat /\ p \in Links /\ n \in Links
      /\ F \in SUBSET Addrs /\ a \in F
  BY <1>0, HeaderFields DEF Heap, Loose, Blocks
<1>2. LinksSet(h, u, p, n, n, p)
  BY <1>0, <1>1, UnlinkEffect
<1>3. h1 \in HeaderMaps /\ \A b \in Addrs : Claimed(u, h1, a, need, b)
  <2>1. u \in HeaderMaps
    BY <1>2 DEF LinksSet
  <2>2. h1 = Claim(u, a, need)
    BY <1>0
  <2> QED
    BY <1>1, <2>1, <2>2, ClaimEffect
<1>4. ASSUME NEW b \in Addrs
      PROVE  /\ h1[b].size = h[b].size
             /\ b # a => h1[b].sanity_check = h[b].sanity_check
             /\ b = a => h1[b].sanity_check = a + HEADER
             /\ b = p => h1[b].next = n
             /\ b # p => h1[b].next = h[b].next
             /\ b = n => h1[b].prev = p
             /\ b # n => h1[b].prev = h[b].prev
  <2>1. LinkSet(h, u, p, n, n, p, b)
    BY <1>2 DEF LinksSet
  <2>2. Claimed(u, h1, a, need, b)
    BY <1>3
  <2> QED
    BY <2>1, <2>2 DEF LinkSet, Claimed
<1>5. Blocks(h1) = Blocks(h) /\ Tiling(h1) /\ \A b \in Addrs : End(h1, b) = End(h, b)
  BY <1>1, <1>4, SameTiling
<1>6. Chain(first1, h1, F \ {a})
  <2>1. Relinked(h, h1, F \ {a}, p, n)
    BY <1>1, <1>4 DEF Relinked
  <2>2. (p # NULL => h1[p].next = n) /\ (n # NULL => h1[n].prev = p)
    BY <1>1, <1>4 DEF Links
  <2>3. Leaves(first, h, F, a, p, n, first1, h1)
    BY <1>0, <2>1, <2>2 DEF Leaves
  <2> QED
    BY <1>1, <2>3, ChainRemove
<1>7. Blocks(h1) \ (L \cup {a}) = F \ {a}
  BY <1>0, <1>5
<1>8. \A b \in F \ {a} : End(h1, b) \notin F \ {a}
  BY <1>0, <1>1, <1>5 DEF Heap, Loose
<1>9. \A b \in L \cup {a} : h1[b].sanity_check = b + HEADER
  BY <1>1, <1>4 DEF Heap, Loose, Blocks
<1>10. L \cup {a} \subseteq Blocks(h1)
  BY <1>1, <1>5
<1>11. \A b \in Blocks(h1) \ ((L \cup {a}) \cup {}) : End(h1, b) \notin Blocks(h1) \ (L \cup {a})
  BY <1>7, <1>8
<1>12. Heap(first1, h1, L \cup {a})
  BY <1>3, <1>5, <1>6, <1>7, <1>9, <1>10, <1>11 DEF Heap, Loose
<1> QED
  BY <1>0, <1>4, <1>12

\* The headers and the start of the list after kmalloc() has taken need bytes of a.
Taken(first, h, a, need, g, first1, h1) ==
  /\ g = Split(h, a, need) /\ h1 = Claim(Unlink(g, a), a, need)
  /\ g[a].prev # NULL => first1 = first
  /\ g[a].prev = NULL => first1 = g[a].next

\* The block a of need bytes is held, and the others that are have their sizes.
HeldNow(h, L, a, need, first1, h1) ==
  /\ Heap(first1, h1, L \cup {a})
  /\ h1[a].size = need /\ \A b \in L : h1[b].size = h[b].size

\* kmalloc() takes the first part of a block.
LEMMA TakePart ==
  ASSUME NEW first, NEW h, NEW L, Heap(first, h, L), NEW a \in Blocks(h) \ L,
         NEW need, Aligned(need), 0 < need, need < h[a].size,
         NEW g, NEW first1, NEW h1, Taken(first, h, a, need, g, first1, h1)
  PROVE  HeldNow(h, L, a, need, first1, h1)
<1> SUFFICES ASSUME g = Split(h, a, need), h1 = Claim(Unlink(g, a), a, need),
                    g[a].prev # NULL => first1 = first, g[a].prev = NULL => first1 = g[a].next
             PROVE  /\ Heap(first1, h1, L \cup {a})
                    /\ h1[a].size = need /\ \A b \in L : h1[b].size = h[b].size
  BY DEF Taken, HeldNow
<1>0. PICK F, u, c, n, G : /\ F = Blocks(h) \ L /\ u = Unlink(g, a) /\ c = a + need
                           /\ n = h[a].next /\ G = F \cup {c}
  OBVIOUS
<1>1. /\ h \in HeaderMaps /\ Tiling(h) /\ L \subseteq Blocks(h) /\ Chain(first, h, F)
      /\ a \in Addrs /\ n \in Links /\ F \in SUBSET Addrs /\ a \in F
      /\ \A b \in F : End(h, b) \notin F
  BY <1>0, HeaderFields DEF Heap, Loose, Blocks
<1>2. /\ a \in Int /\ h[a].size \in Nat /\ End(h, a) \in Int /\ need \in Nat
      /\ \A b \in Blocks(h) : b <= a \/ End(h, a) <= b
      /\ Aligned(a) /\ End(h, a) <= Limit(a)
  BY <1>0, BlockProperties, <1>1 DEF Aligned
<1>3. c \in Int /\ a < c /\ c < End(h, a) /\ c # a
  BY <1>0, <1>2 DEF End
<1>4. c \in Addrs /\ c \notin Blocks(h)
  <2>1. Aligned(c)
    BY <1>0, <1>2, AlignedSum
  <2>2. Limit(a) \in Int
    BY <1>1, LimitProperties
  <2>3. c \in Addrs
    BY <1>1, <1>2, <1>3, <2>1, <2>2, LimitProperties
  <2> QED
    BY <1>2, <1>3, <2>3
<1>5. n # NULL => n \in F /\ n \in Int /\ c < n
  <2>1. SUFFICES ASSUME n # NULL PROVE n \in F /\ n \in Int /\ c < n
    OBVIOUS
  <2>2. n \in F /\ n > a
    <3>1. h[a].next \in F \cup {NULL} /\ (h[a].next # NULL => h[a].next > a)
      BY <1>1, ChainNext
    <3> QED
      BY <1>0, <2>1, <3>1
  <2>3. n \in Int /\ n \in Blocks(h)
    BY <1>0, <1>1, <2>2, AddrsNumbers
  <2>4. End(h, a) <= n
    BY <1>2, <2>2, <2>3
  <2> QED
    BY <1>2, <1>3, <2>2, <2>3, <2>4
<1>6. c # n /\ n # a
  <2>1. c # NULL /\ a # NULL
    BY <1>1, <1>4, AddrsNumbers
  <2> QED
    BY <1>2, <1>3, <1>5, <2>1
<1>7. /\ g \in HeaderMaps
      /\ g[c].size = h[a].size - need /\ g[c].prev = a /\ g[c].next = n
      /\ \A b \in Addrs \ {c} : g[b].size = h[b].size
      /\ \A b \in Addrs : g[b].sanity_check = h[b].sanity_check
      /\ \A b \in Addrs \ {c} : g[b].next = IF b = a THEN c ELSE h[b].next
      /\ \A b \in Addrs \ {c} : g[b].prev = IF b = n THEN c ELSE h[b].prev
  BY <1>0, <1>1, <1>2, <1>3, <1>4, <1>6, SplitEffect
<1>8. Chain(first, g, G)
  <2>1. Relinked(h, g, F, a, n)
    BY <1>1, <1>4, <1>7, <1>0 DEF Relinked
  <2>2. g[a].next = c /\ (n # NULL => g[n].prev = c) /\ a # NULL
    BY <1>1, <1>3, <1>5, <1>6, <1>7, AddrsNumbers
  <2>3. c \in Addrs \ F
    BY <1>0, <1>4
  <2>4. Enters(first, h, F, c, a, n, first, g)
    BY <1>0, <1>1, <1>3, <1>5, <1>7, <2>1, <2>2 DEF Enters
  <2> QED
    BY <1>0, <1>1, <2>3, <2>4, ChainInsert
<1>9. PICK p : p = g[a].prev
  OBVIOUS
<1>10. g[a].next = c /\ c \in Links /\ p \in Links /\ c # NULL
  <2>1. c # NULL
    BY <1>4, AddrsNumbers
  <2> QED
    BY <1>1, <1>3, <1>4, <1>7, <1>9, <2>1, HeaderFields DEF Links
<1>11. LinksSet(g, u, p, c, c, p)
  BY <1>0, <1>1, <1>7, <1>9, <1>10, UnlinkEffect
<1>12. h1 \in HeaderMaps /\ \A b \in Addrs : Claimed(u, h1, a, need, b)
  <2>1. u \in HeaderMaps
    BY <1>11 DEF LinksSet
  <2>2. h1 = Claim(u, a, need)
    BY <1>0
  <2> QED
    BY <1>1, <1>2, <2>1, <2>2, ClaimEffect
<1>13. ASSUME NEW b \in Addrs
       PROVE  /\ b # a => h1[b].size = g[b].size
              /\ b = a => h1[b].size = need
              /\ b # a => h1[b].sanity_check = h[b].sanity_check
              /\ b = a => h1[b].sanity_check = a + HEADER
              /\ b = p => h1[b].next = c
              /\ b # p => h1[b].next = g[b].next
              /\ b = c => h1[b].prev = p
              /\ b # c => h1[b].prev = g[b].prev
  <2>1. LinkSet(g, u, p, c, c, p, b) /\ g[b].sanity_check = h[b].sanity_check
    BY <1>7, <1>11 DEF LinksSet
  <2>2. Claimed(u, h1, a, need, b)
    BY <1>12
  <2> QED
    BY <2>1, <2>2 DEF LinkSet, Claimed
<1>14. /\ h1[a].size = need /\ h1[c].size = h[a].size - need
       /\ \A b \in Addrs \ {a, c} : h1[b].size = h[b].size
  BY <1>1, <1>3, <1>4, <1>7, <1>13
<1>15. /\ Blocks(h1) = Blocks(h) \cup {c} /\ End(h1, c) = End(h, a) /\ Tiling(h1)
  BY <1>0, <1>1, <1>14, SplitTiling
<1>16. Chain(first1, h1, G \ {a})
  <2>1. G \in SUBSET Addrs /\ a \in G
    BY <1>0, <1>1, <1>4
  <2>2. Relinked(g, h1, G \ {a}, p, c)
    BY <1>13, <2>1 DEF Relinked
  <2>3. (p # NULL => h1[p].next = c) /\ (c # NULL => h1[c].prev = p)
    BY <1>4, <1>10, <1>13 DEF Links
  <2>4. Leaves(first, g, G, a, p, c, first1, h1)
    BY <1>9, <1>10, <2>2, <2>3 DEF Leaves
  <2> QED
    BY <1>8, <2>1, <2>4, ChainRemove
<1>17. Blocks(h1) \ (L \cup {a}) = G \ {a}
  BY <1>0, <1>1, <1>3, <1>4, <1>15
<1>18. ASSUME NEW b \in G \ {a} PROVE End(h1, b) \notin G \ {a}
  <2>1. CASE b = c
    <3>1. End(h, a) \notin F /\ End(h, a) # c
      BY <1>1, <1>2, <1>3
    <3> QED
      BY <1>0, <1>15, <2>1, <3>1
  <2>2. CASE b # c
    <3>1. b \in F /\ b \in Blocks(h) /\ b \in Addrs
      BY <1>0, <1>1, <1>18, <2>2
    <3>2. /\ b \in Int /\ End(h, b) \in Int /\ b < End(h, b)
          /\ \A d \in Blocks(h) : d <= b \/ End(h, b) <= d
      BY <1>1, <3>1, BlockProperties
    <3>3. End(h1, b) = End(h, b)
      BY <1>14, <1>18, <2>2, <3>1 DEF End
    <3>4. End(h, b) # c
      <4>1. CASE b < a
        <5>1. End(h, b) <= a
          BY <1>0, <1>1, <1>2, <3>2, <4>1
        <5> QED
          BY <1>2, <1>3, <3>2, <5>1
      <4>2. CASE a < b
        BY <1>2, <1>3, <3>1, <3>2, <4>2
      <4> QED
        BY <1>2, <1>18, <3>2, <4>1, <4>2
    <3> QED
      BY <1>0, <1>1, <3>1, <3>3, <3>4
  <2> QED
    BY <2>1, <2>2
<1>19. \A b \in L \cup {a} : h1[b].sanity_check = b + HEADER
  BY <1>1, <1>13 DEF Heap, Loose, Blocks
<1>20. L \cup {a} \subseteq Blocks(h1)
  BY <1>0, <1>1, <1>15
<1>21. \A b \in Blocks(h1) \ ((L \cup {a}) \cup {}) : End(h1, b) \notin Blocks(h1) \ (L \cup {a})
  BY <1>17, <1>18
<1>22. Heap(first1, h1, L \cup {a})
  BY <1>12, <1>15, <1>16, <1>17, <1>19, <1>20, <1>21 DEF Heap, Loose
<1>23. \A b \in L : h1[b].size = h[b].size
  BY <1>0, <1>1, <1>4, <1>14 DEF Blocks
<1> QED
  BY <1>9, <1>10, <1>14, <1>22, <1>23

\* The block a, if there is one, is followed by c on the list, if there is one.
Followed(h, L, M, a, c) ==
  /\ a \in Links /\ c \in Links
  /\ a # NULL => a \in Blocks(h) \ L /\ c = h[a].next /\ (c # NULL => c \notin M)

\* The first is not followed by a free block any more; other blocks stay.
Joined(first, h, h1, L, M, a, c) ==
  /\ Loose(first, h1, L, M \ {a})
  /\ \A b \in L : h1[b].size = h[b].size
  /\ \A b \in Blocks(h) \ (L \cup {a, c}) : b \in Blocks(h1) /\ h1[b].next = h[b].next
  /\ a # NULL => a \in Blocks(h1)

\* coalesce_blocks() of the two: they are one now if they touch.
LEMMA CoalesceHeap ==
  ASSUME NEW first, NEW h, NEW L, NEW M, Loose(first, h, L, M), NEW a, NEW c,
         Followed(h, L, M, a, c)
  PROVE  Joined(first, h, coalesce_blocks(h, a, c), L, M, a, c)
<1> PICK h1 : h1 = coalesce_blocks(h, a, c)
  OBVIOUS
<1>0. PICK F : F = Blocks(h) \ L
  OBVIOUS
<1>1. /\ h \in HeaderMaps /\ Tiling(h) /\ L \subseteq Blocks(h) /\ Chain(first, h, F)
      /\ F \in SUBSET Addrs /\ (\A b \in F \ M : End(h, b) \notin F) /\ NULL \notin F
      /\ \A b \in L : h[b].sanity_check = b + HEADER
  BY <1>0, AddrsNumbers DEF Loose, Blocks
<1>2. ASSUME h1 = h, a # NULL => End(h, a) \notin F
      PROVE  Joined(first, h, h1, L, M, a, c)
  <2>1. ASSUME NEW b \in Blocks(h) \ (L \cup (M \ {a})) PROVE End(h, b) \notin Blocks(h) \ L
    <3>1. b \in F
      BY <1>0
    <3>2. CASE b = a
      BY <1>0, <1>1, <1>2, <3>1, <3>2
    <3>3. CASE b # a
      BY <1>0, <1>1, <3>1, <3>3
    <3> QED
      BY <3>2, <3>3
  <2>2. Loose(first, h, L, M \ {a})
    BY <2>1 DEF Loose
  <2> QED
    BY <1>2, <2>2 DEF Followed, Joined
<1>3. CASE a = NULL
  BY <1>2, <1>3 DEF coalesce_blocks
<1>4. ASSUME a # NULL
      PROVE  /\ a \in F /\ a \in Addrs /\ a \in Int /\ h[a].size \in Nat /\ c = h[a].next
             /\ End(h, a) \in Int /\ a < End(h, a)
             /\ \A b \in Blocks(h) : b <= a \/ End(h, a) <= b
             /\ c \in F \cup {NULL} /\ (c # NULL => c \notin M)
             /\ c # NULL => c > a /\ h[c].prev = a
             /\ \A b \in F : b <= a \/ (c # NULL /\ c <= b)
  <2>1. a \in Blocks(h) /\ a \in F /\ c = h[a].next /\ (c # NULL => c \notin M)
    BY <1>0, <1>4 DEF Followed
  <2>2. /\ h[a].next \in F \cup {NULL}
        /\ h[a].next # NULL => h[a].next > a /\ h[h[a].next].prev = a
        /\ \A b \in F : b <= a \/ (h[a].next # NULL /\ h[a].next <= b)
    BY <1>1, <2>1, ChainNext
  <2>3. /\ a \in Addrs /\ a \in Int /\ h[a].size \in Nat
        /\ End(h, a) \in Int /\ a < End(h, a)
        /\ \A b \in Blocks(h) : b <= a \/ End(h, a) <= b
    BY <1>1, <2>1, BlockProperties
  <2> QED
    BY <2>1, <2>2, <2>3
<1>5. CASE a # NULL /\ c = NULL
  <2>1. End(h, a) \notin F
    BY <1>4, <1>5
  <2> QED
    BY <1>2, <1>5, <2>1 DEF coalesce_blocks
<1>6. CASE a # NULL /\ c # NULL
  <2>1. c \in F /\ c \in Addrs /\ c \in Int /\ c \in Blocks(h)
    BY <1>0, <1>1, <1>4, <1>6, AddrsNumbers
  <2>2. CASE End(h, a) < c
    <3>1. End(h, a) \notin F
      BY <1>4, <1>6, <2>1, <2>2
    <3>2. a + h[a].size < c
      BY <2>2 DEF End
    <3> QED
      BY <1>2, <3>1, <3>2 DEF coalesce_blocks
  <2>3. CASE ~(End(h, a) < c)
    <3>1. End(h, a) = c
      BY <1>4, <1>6, <2>1, <2>3
    <3>2. PICK n : n = h[c].next
      OBVIOUS
    <3>3. /\ n \in F \cup {NULL} /\ (n # NULL => n > c) /\ n # a /\ n # c
      <4>1. h[c].next \in F \cup {NULL} /\ (h[c].next # NULL => h[c].next > c)
        BY <1>1, <2>1, ChainNext
      <4> QED
        BY <1>4, <1>6, <2>1, <3>2, <4>1, AddrsNumbers
    <3>4. h1 \in HeaderMaps /\ Merged(h, h1, a, c)
      BY <1>1, <1>4, <1>6, <2>1, <3>1, <3>2, <3>3, CoalesceEffect
    <3>5. Blocks(h1) = Blocks(h) \ {c} /\ End(h1, a) = End(h, c) /\ Tiling(h1)
      <4>1. /\ h1[a].size = h[a].size + h[c].size /\ h1[c].size = 0
            /\ \A b \in Addrs \ {a, c} : h1[b].size = h[b].size
        BY <3>4 DEF Merged
      <4>2. a \in Blocks(h)
        BY <1>6 DEF Followed
      <4> QED
        BY <1>1, <2>1, <3>1, <4>1, <4>2, MergeTiling
    <3>6. Chain(first, h1, F \ {c})
      <4>1. Relinked(h, h1, F \ {c}, a, n)
        BY <1>1, <3>2, <3>4 DEF Merged, Relinked
      <4>2. h1[a].next = n /\ (n # NULL => h1[n].prev = a)
        BY <1>1, <3>2, <3>3, <3>4 DEF Merged
      <4>3. Leaves(first, h, F, c, a, n, first, h1)
        BY <1>4, <1>6, <3>2, <4>1, <4>2 DEF Leaves
      <4> QED
        BY <1>1, <2>1, <4>3, ChainRemove
    <3>7. Blocks(h1) \ L = F \ {c}
      BY <1>0, <3>5
    <3>8. L \subseteq Blocks(h1)
      BY <1>0, <1>1, <2>1, <3>5
    <3>9. \A b \in L : h1[b].sanity_check = b + HEADER /\ h1[b].size = h[b].size
      <4>1. \A b \in L : b \in Addrs \ {a, c}
        BY <1>0, <1>1, <1>4, <1>6, <2>1 DEF Blocks
      <4> QED
        BY <1>1, <3>4, <4>1 DEF Merged
    <3>10. ASSUME NEW b \in F \ {c}, b \notin M \ {a} PROVE End(h1, b) \notin F \ {c}
      <4>1. CASE b = a
        BY <1>1, <1>4, <1>6, <2>1, <3>5, <4>1
      <4>2. CASE b # a
        <5>1. h1[b].size = h[b].size
          BY <1>1, <3>4, <4>2 DEF Merged
        <5>2. End(h1, b) = End(h, b)
          BY <5>1 DEF End
        <5> QED
          BY <1>1, <3>10, <4>2, <5>2
      <4> QED
        BY <4>1, <4>2
    <3>11. \A b \in Blocks(h1) \ (L \cup (M \ {a})) : End(h1, b) \notin Blocks(h1) \ L
      BY <3>7, <3>10
    <3>12. Loose(first, h1, L, M \ {a})
      BY <3>4, <3>5, <3>6, <3>7, <3>8, <3>9, <3>11 DEF Loose
    <3>13. \A b \in Blocks(h) \ (L \cup {a, c}) : b \in Blocks(h1) /\ h1[b].next = h[b].next
      BY <3>4, <3>5 DEF Merged, Blocks
    <3>14. a \in Blocks(h1)
      BY <1>0, <1>4, <1>6, <2>1, <3>5
    <3> QED
      BY <3>9, <3>12, <3>13, <3>14 DEF Joined
  <2> QED
    BY <2>2, <2>3
<1> QED
  BY <1>3, <1>5, <1>6

\* kfree() found p and n, between which the node belongs.
Place(first, h, L, node, p, n) ==
  /\ p \in Links /\ n \in Links
  /\ p = NULL => n = first
  /\ p # NULL => p \in Blocks(h) \ L /\ p < node /\ n = h[p].next
  /\ n # NULL => node < n

\* The headers and the start of the list after kfree() has put the node there.
Linked(first, h, p, node, n, first1, h1) ==
  /\ h1 = coalesce_blocks(coalesce_blocks(Insert(h, p, node, n), node, n), p, node)
  /\ p = NULL => first1 = node
  /\ p # NULL => first1 = first

\* The node is free, and the blocks that are held have their sizes.
FreeNow(h, L, node, first1, h1) ==
  /\ Heap(first1, h1, L \ {node})
  /\ \A b \in L \ {node} : h1[b].size = h[b].size

\* kfree() links the node and merges it with a neighbour that it touches.
LEMMA FreeHeap ==
  ASSUME NEW first, NEW h, NEW L, Heap(first, h, L), NEW node \in L, NEW p, NEW n,
         Place(first, h, L, node, p, n),
         NEW first1, NEW h1, Linked(first, h, p, node, n, first1, h1)
  PROVE  FreeNow(h, L, node, first1, h1)
<1> SUFFICES ASSUME h1 = coalesce_blocks(coalesce_blocks(Insert(h, p, node, n), node, n), p, node),
                    p = NULL => first1 = node, p # NULL => first1 = first
             PROVE  /\ Heap(first1, h1, L \ {node})
                    /\ \A b \in L \ {node} : h1[b].size = h[b].size
  BY DEF Linked, FreeNow
<1>0. PICK F, g, g1, K : /\ F = Blocks(h) \ L /\ g = Insert(h, p, node, n) /\ K = L \ {node}
                         /\ g1 = coalesce_blocks(g, node, n)
  OBVIOUS
<1>1. /\ h \in HeaderMaps /\ Tiling(h) /\ L \subseteq Blocks(h) /\ Chain(first, h, F)
      /\ F \in SUBSET Addrs /\ (\A b \in F : End(h, b) \notin F) /\ NULL \notin F
      /\ node \in Addrs /\ node \in Int /\ node # NULL /\ node \notin F
      /\ \A b \in L : h[b].sanity_check = b + HEADER /\ b \in Addrs
  BY <1>0, AddrsNumbers DEF Heap, Loose, Blocks
<1>2. /\ p \in Links /\ n \in Links /\ p # node /\ n # node
      /\ p # NULL => p \in F /\ p \in Int /\ p < node /\ n = h[p].next
      /\ n # NULL => node < n /\ n \in Int
  BY <1>0, <1>1, AddrsNumbers DEF Place, Links
<1>3. g \in HeaderMaps /\ \A b \in Addrs : Inserted(h, g, p, node, n, b)
  BY <1>0, <1>1, <1>2, InsertEffect
<1>4. \A b \in Addrs : g[b].size = h[b].size /\ g[b].sanity_check = h[b].sanity_check
  BY <1>3 DEF Inserted
<1>5. Blocks(g) = Blocks(h) /\ Tiling(g) /\ \A b \in Addrs : End(g, b) = End(h, b)
  BY <1>1, <1>4, SameTiling
<1>6. /\ g[node].prev = p /\ g[node].next = n
      /\ p # NULL => g[p].next = node
      /\ n # NULL => g[n].prev = node
  BY <1>1, <1>2, <1>3 DEF Inserted, Links
<1>7. Chain(first1, g, F \cup {node})
  <2>1. Relinked(h, g, F, p, n)
    BY <1>1, <1>3 DEF Relinked, Inserted
  <2>2. Enters(first, h, F, node, p, n, first1, g)
    BY <1>2, <1>6, <2>1 DEF Enters, Place
  <2>3. node \in Addrs \ F
    BY <1>1
  <2> QED
    BY <1>1, <2>2, <2>3, ChainInsert
<1>8. Loose(first1, g, K, {p, node})
  <2>1. Blocks(g) \ K = F \cup {node}
    BY <1>0, <1>1, <1>5
  <2>2. K \subseteq Blocks(g)
    BY <1>0, <1>1, <1>5
  <2>3. ASSUME NEW b \in F, b # p PROVE End(h, b) # node
    <3>1. b \in Blocks(h) /\ b \in Int /\ b \in Addrs
      BY <1>0, <1>1, AddrsNumbers
    <3>2. /\ End(h, b) \in Int /\ b < End(h, b)
          /\ \A d \in Blocks(h) : d <= b \/ End(h, b) <= d
      BY <1>1, <3>1, BlockProperties
    <3>3. (p # NULL /\ b <= p) \/ (n # NULL /\ n <= b)
      <4>1. CASE p = NULL
        <5>1. \/ first = NULL /\ F = {}
              \/ first \in F /\ \A d \in F : first <= d
          BY <1>1, FirstProperties DEF Chain
        <5> QED
          BY <1>1, <4>1, <5>1 DEF Place
      <4>2. CASE p # NULL
        <5>1. p \in F /\ n = h[p].next
          BY <1>2, <4>2
        <5>2. b <= p \/ (h[p].next # NULL /\ h[p].next <= b)
          BY <1>1, <5>1, ChainNext
        <5> QED
          BY <4>2, <5>1, <5>2
      <4> QED
        BY <4>1, <4>2
    <3>4. CASE p # NULL /\ b <= p
      <4>1. p \in Blocks(h) /\ p \in Int /\ p < node
        BY <1>0, <1>2, <3>4
      <4>2. ~(p <= b)
        BY <2>3, <3>1, <3>4, <4>1
      <4>3. End(h, b) <= p
        BY <3>2, <4>1, <4>2
      <4> QED
        BY <1>1, <3>2, <4>1, <4>3
    <3>5. CASE n # NULL /\ n <= b
      BY <1>1, <1>2, <3>1, <3>2, <3>5
    <3> QED
      BY <3>3, <3>4, <3>5
  <2>4. \A b \in Blocks(g) \ (K \cup {p, node}) : End(g, b) \notin Blocks(g) \ K
    <3>1. SUFFICES ASSUME NEW b \in F, b # p PROVE End(g, b) \notin F \cup {node}
      BY <2>1
    <3>2. End(g, b) = End(h, b)
      BY <1>1, <1>5
    <3> QED
      BY <1>1, <2>3, <3>1, <3>2
  <2>5. \A b \in K : g[b].sanity_check = b + HEADER
    BY <1>0, <1>1, <1>4
  <2> QED
    BY <1>3, <1>5, <1>7, <2>1, <2>2, <2>4, <2>5 DEF Loose
<1>9. PICK M : M = {p, node}
  OBVIOUS
<1>10. Joined(first1, g, g1, K, M, node, n)
  <2>1. n # NULL => n # p
    BY <1>1, <1>2
  <2>2. Followed(g, K, M, node, n)
    BY <1>0, <1>1, <1>2, <1>5, <1>6, <1>9, <2>1 DEF Followed, Links
  <2>3. Loose(first1, g, K, M)
    BY <1>8, <1>9
  <2> QED
    BY <1>0, <2>2, <2>3, CoalesceHeap
<1>11. PICK N : N = M \ {node}
  OBVIOUS
<1>12. Joined(first1, g1, h1, K, N, p, node)
  <2>1. Followed(g1, K, N, p, node)
    <3>1. p # NULL => p \in Blocks(g) \ (K \cup {node, n})
      BY <1>0, <1>1, <1>2, <1>5
    <3>2. p # NULL => p \in Blocks(g1) \ K /\ g1[p].next = node
      BY <1>6, <1>10, <3>1 DEF Joined
    <3> QED
      BY <1>1, <1>2, <1>9, <1>11, <3>2 DEF Followed, Links
  <2>2. Loose(first1, g1, K, N)
    BY <1>10, <1>11 DEF Joined
  <2> QED
    BY <1>0, <2>1, <2>2, CoalesceHeap
<1>13. N \ {p} = {}
  BY <1>9, <1>11
<1>14. \A b \in K : h1[b].size = h[b].size
  <2>1. \A b \in K : h1[b].size = g1[b].size /\ g1[b].size = g[b].size /\ b \in Addrs
    BY <1>0, <1>1, <1>10, <1>12 DEF Joined
  <2> QED
    BY <1>4, <2>1
<1>15. Loose(first1, h1, K, {})
  BY <1>12, <1>13 DEF Joined
<1> QED
  BY <1>0, <1>14, <1>15 DEF Heap

-----------------------------------------------------------------------------
(***************************************************************************)
(* The inductive invariant: the heap, the call in progress, and who holds  *)
(* the blocks.                                                             *)
(***************************************************************************)

\* The search of kmalloc(): all blocks that it has passed are too small.
Searching ==
  /\ call \in [op : {"kmalloc"}, need : Nat, curr : Links]
  /\ Aligned(call.need) /\ call.need > 0
  /\ call.curr # NULL => call.curr \in Blocks(hdr) \ live
  /\ \A b \in Blocks(hdr) \ live :
       call.curr = NULL \/ b < call.curr => hdr[b].size < call.need

\* The search of kfree(): the blocks that it has passed lie before the node.
Placing ==
  /\ call \in [op : {"kfree"}, node : Addrs, prev : Links, next : Links]
  /\ call.node \in live
  /\ call.prev = NULL => call.next = free_list
  /\ call.prev # NULL => /\ call.prev \in Blocks(hdr) \ live /\ call.prev < call.node
                         /\ call.next = hdr[call.prev].next

CallInv ==
  \/ call \in [op : {"idle", "return"}, ret : Nat]
  \/ Searching
  \/ Placing

Steps == {"none", "boot", "stack", "table", "free_stack", "free_table"}

\* The call in progress is one that the step of the job makes.
JobInv ==
  /\ job \in [step : Steps, stack : Nat, table : Nat]
  /\ job.step = "none" => job = NoJob /\ call = Idle
  /\ job.step \in {"boot", "stack"} => /\ job.stack = NULL /\ job.table = NULL
                                       /\ call.op \in {"kmalloc", "return"}
  /\ job.step = "table" => /\ job.stack # NULL /\ job.table = NULL
                           /\ call.op \in {"kmalloc", "return"}
  /\ job.step = "free_stack" =>
       /\ job.stack # NULL /\ job.table # NULL
       /\ \/ call.op = "kfree" /\ call.node = job.stack - HEADER
          \/ call.op = "return" /\ call.ret = 1
  /\ job.step = "free_table" =>
       /\ job.stack = NULL /\ job.table # NULL
       /\ \/ call.op = "kfree" /\ call.node = job.table - HEADER
          \/ call.op = "return" /\ call.ret = 1

Fields == {"stack_start", "signal_table"}
PcbTable == [Slots -> [stack_start : Nat, signal_table : Nat]]

\* A pcb is in use with both blocks.
PcbsInv ==
  /\ pcbs \in PcbTable
  /\ \A s \in Slots : pcbs[s] = NoPcb \/ \A k \in Fields : pcbs[s][k] # NULL

\* The pointer v is that of a block in L.
PointsTo(L, v) == v \in Nat /\ v - HEADER \in L

\* The pointers in the pcbs P and the three x, y and z that the job has in hand, as far as
\* they are not NULL, are different and point to blocks in L; all other blocks in L are
\* those with a pointer in B.
Owns(P, x, y, z, B, L) ==
  /\ \A s \in Slots : \A k \in Fields : P[s][k] # NULL => PointsTo(L, P[s][k])
  /\ \A s, t \in Slots : \A j, k \in Fields :
       P[s][j] = P[t][k] /\ P[s][j] # NULL => s = t /\ j = k
  /\ \A v \in {x, y, z} :
       v # NULL => PointsTo(L, v) /\ \A s \in Slots : \A k \in Fields : P[s][k] # v
  /\ (x = y \/ x = z => x = NULL) /\ (y = z => y = NULL)
  /\ \A a \in L : \/ \E s \in Slots : \E k \in Fields : P[s][k] = a + HEADER
                  \/ a + HEADER \in {x, y, z}
                  \/ a + HEADER \in B

\* What the job has in hand: what it frees until that is done, and what it was given.
HandStack == IF job.step = "free_stack" /\ call.op = "return" THEN NULL ELSE job.stack
HandTable == IF job.step = "free_table" /\ call.op = "return" THEN NULL ELSE job.table
HandGiven == IF job.step \in {"boot", "stack", "table"} /\ call.op = "return" THEN call.ret ELSE NULL

\* What is never freed.
Kept == {boot[i] : i \in 1..Len(boot)} \cup lost

\* The kernel starts once.
BootInv ==
  /\ boot \in Seq(Nat) /\ Len(boot) <= Len(BootSizes)
  /\ job.step = "boot" => Len(boot) < Len(BootSizes)

\* What is being looked for was asked for.
NeedInv == call.op = "kmalloc" => call.need \in BlockSizes

IInv ==
  /\ Heap(free_list, hdr, live)
  /\ CallInv
  /\ NeedInv
  /\ JobInv
  /\ PcbsInv
  /\ BootInv /\ lost \subseteq Nat
  /\ Owns(pcbs, HandStack, HandTable, HandGiven, Kept, live)

-----------------------------------------------------------------------------
(***************************************************************************)
(* The steps of the memory manager.                                        *)
(***************************************************************************)

\* The search goes on.
Goes ==
  /\ call.op \in {"kmalloc", "kfree"} /\ call'.op = call.op
  /\ call.op = "kmalloc" => call'.need = call.need
  /\ call.op = "kfree" => call'.node = call.node
  /\ UNCHANGED <<free_list, hdr, live>>

\* kmalloc() returns the block a.
Takes(a) ==
  /\ call.op = "kmalloc" /\ call' = Returns(a + HEADER)
  /\ a \in Addrs \ live /\ live' = live \cup {a}
  /\ a \in Blocks(hdr) /\ call.need <= hdr[a].size
  /\ hdr'[a].size = call.need /\ \A b \in live : hdr'[b].size = hdr[b].size

\* kmalloc() returns NULL.
Fails ==
  /\ call.op = "kmalloc" /\ call' = Returns(NULL)
  /\ \A b \in Blocks(hdr) \ live : hdr[b].size < call.need
  /\ UNCHANGED <<free_list, hdr, live>>

\* kfree() returns.
Frees ==
  /\ call.op = "kfree" /\ call' = Returns(1)
  /\ call.node \in live /\ live' = live \ {call.node}
  /\ \A b \in live' : hdr'[b].size = hdr[b].size

\* Which variants of CallInv hold for which operation.
LEMMA CallCases ==
  ASSUME CallInv
  PROVE  /\ call.op = "kmalloc" => Searching
         /\ call.op = "kfree" => Placing
         /\ call.op \in {"idle", "return"} => call.ret \in Nat
         /\ call.op \in {"idle", "return", "kmalloc", "kfree"}
BY DEF CallInv, Searching, Placing

\* kmalloc() starts with the first free block.
LEMMA SearchStarts ==
  ASSUME Heap(free_list, hdr, live), NEW size \in Nat, size > 0, kmalloc(size)
  PROVE  /\ Heap(free_list, hdr, live)' /\ Searching'
         /\ call'.need = align_to_paragraph(size) + HEADER
         /\ UNCHANGED <<free_list, hdr, live>>
<1>1. PICK need : need = align_to_paragraph(size) + HEADER
  OBVIOUS
<1>2. need \in Nat /\ need > 0 /\ Aligned(need)
  BY <1>1, AlignProperties, AlignedSum, Layout
<1>3. /\ call' = [op |-> "kmalloc", need |-> need, curr |-> free_list]
      /\ free_list' = free_list /\ hdr' = hdr /\ live' = live
  BY <1>1 DEF kmalloc
<1>4. PICK F : F = Blocks(hdr) \ live
  OBVIOUS
<1>5. F \in SUBSET Addrs /\ First(free_list, F) /\ \A b \in F : b \in Int
  BY <1>4, AddrsNumbers DEF Heap, Loose, Chain, Blocks
<1>6. \/ free_list = NULL /\ F = {}
      \/ free_list \in F /\ \A b \in F : free_list <= b
  BY <1>5, FirstProperties
<1>7. Heap(free_list', hdr', live')
  BY <1>3
<1>8. free_list \in Links
  BY <1>5, <1>6 DEF Links
<1>9. \A b \in F : ~(free_list = NULL \/ b < free_list)
  BY <1>5, <1>6, AddrsNumbers
<1>10. Searching'
  <2>1. call' \in [op : {"kmalloc"}, need : Nat, curr : Links]
    BY <1>2, <1>3, <1>8
  <2>2. call'.need = need /\ call'.curr = free_list
    BY <1>3
  <2>3. Blocks(hdr') \ live' = F /\ (free_list # NULL => free_list \in F)
    BY <1>3, <1>4, <1>6
  <2> QED
    BY <1>2, <1>3, <1>9, <2>1, <2>2, <2>3 DEF Searching
<1> QED
  BY <1>1, <1>3, <1>7, <1>10

\* kfree() of a block that is held passes the sanity check and starts before all free blocks.
LEMMA PlacingStarts ==
  ASSUME Heap(free_list, hdr, live), NEW ptr, PointsTo(live, ptr), kfree(ptr)
  PROVE  /\ Heap(free_list, hdr, live)' /\ Placing' /\ call'.node = ptr - HEADER
         /\ call'.op = "kfree" /\ UNCHANGED <<free_list, hdr, live>>
<1>1. PICK a : a = ptr - HEADER
  OBVIOUS
<1>2. a \in live /\ a \in Addrs /\ a + HEADER = ptr /\ hdr[a].sanity_check = ptr
  <2>1. ptr \in Nat /\ HEADER \in Nat /\ a \in live
    BY <1>1, Layout DEF PointsTo
  <2>2. a + HEADER = ptr
    BY <1>1, <2>1
  <2>3. a \in Addrs /\ hdr[a].sanity_check = a + HEADER
    BY <2>1 DEF Heap, Loose, Blocks
  <2> QED
    BY <2>1, <2>2, <2>3
<1>3. /\ call' = [op |-> "kfree", node |-> a, prev |-> NULL, next |-> free_list]
      /\ free_list' = free_list /\ hdr' = hdr /\ live' = live
  BY <1>1, <1>2 DEF kfree
<1>4. free_list \in Links
  <2>1. Blocks(hdr) \ live \in SUBSET Addrs /\ First(free_list, Blocks(hdr) \ live)
    BY DEF Heap, Loose, Chain, Blocks
  <2> QED
    BY <2>1, FirstProperties DEF Links
<1>5. Placing'
  <2>1. call' \in [op : {"kfree"}, node : Addrs, prev : Links, next : Links]
    BY <1>2, <1>3, <1>4 DEF Links
  <2>2. call'.node = a /\ call'.prev = NULL /\ call'.next = free_list
    BY <1>3
  <2> QED
    BY <1>2, <1>3, <2>1, <2>2 DEF Placing
<1>6. Heap(free_list', hdr', live')
  BY <1>3
<1> QED
  BY <1>1, <1>3, <1>5, <1>6

\* kmalloc() passes a block that is too small.
LEMMA SearchGoes ==
  ASSUME Heap(free_list, hdr, live), CallInv, kmalloc_advance
  PROVE  Heap(free_list, hdr, live)' /\ Searching' /\ Goes
<1>1. Searching
  BY CallCases DEF kmalloc_advance
<1>2. PICK F, a, n, need : /\ F = Blocks(hdr) \ live /\ a = call.curr /\ n = hdr[a].next
                           /\ need = call.need
  OBVIOUS
<1>3. /\ F \in SUBSET Addrs /\ Chain(free_list, hdr, F) /\ hdr \in HeaderMaps
      /\ \A b \in F : b \in Int /\ b # NULL /\ hdr[b].size \in Nat
  <2>1. F \in SUBSET Addrs /\ Chain(free_list, hdr, F) /\ hdr \in HeaderMaps
    BY <1>2 DEF Heap, Loose, Blocks
  <2> QED
    BY <2>1, AddrsNumbers, HeaderFields
<1>4. a \in F /\ need \in Nat /\ Aligned(need) /\ need > 0 /\ ~(need <= hdr[a].size)
  BY <1>1, <1>2 DEF kmalloc_advance, BlockFits, Searching
<1>5. \A b \in F : b < a => hdr[b].size < need
  BY <1>1, <1>2 DEF Searching
<1>6. /\ n \in F \cup {NULL}
      /\ \A b \in F : b <= a \/ (n # NULL /\ n <= b)
  <2>1. /\ hdr[a].next \in F \cup {NULL}
        /\ \A b \in F : b <= a \/ (hdr[a].next # NULL /\ hdr[a].next <= b)
    BY <1>3, <1>4, ChainNext
  <2> QED
    BY <1>2, <2>1
<1>7. /\ call' = [call EXCEPT !.curr = n]
      /\ free_list' = free_list /\ hdr' = hdr /\ live' = live
  BY <1>2 DEF kmalloc_advance
<1>8. call \in [op : {"kmalloc"}, need : Nat, curr : Links]
  BY <1>1 DEF Searching
<1>9. /\ call' \in [op : {"kmalloc"}, need : Nat, curr : Links]
      /\ call'.need = need /\ call'.curr = n /\ call'.op = "kmalloc" /\ call.op = "kmalloc"
  BY <1>2, <1>3, <1>6, <1>7, <1>8 DEF Links
<1>10. ASSUME NEW b \in F, n = NULL \/ b < n PROVE hdr[b].size < need
  <2>1. b <= a
    BY <1>3, <1>6, <1>10
  <2>2. CASE b = a
    BY <1>3, <1>4, <2>2
  <2>3. CASE b # a
    BY <1>3, <1>4, <1>5, <2>1, <2>3
  <2> QED
    BY <2>2, <2>3
<1>11. Searching'
  <2>1. Blocks(hdr') \ live' = F
    BY <1>2, <1>7
  <2> QED
    BY <1>4, <1>6, <1>7, <1>9, <1>10, <2>1 DEF Searching
<1>12. Heap(free_list', hdr', live')
  BY <1>7
<1> QED
  BY <1>2, <1>7, <1>9, <1>11, <1>12 DEF Goes

\* kmalloc() takes a block, or a part of it.
LEMMA SearchTakes ==
  ASSUME Heap(free_list, hdr, live), CallInv, kmalloc_take
  PROVE  Heap(free_list, hdr, live)' /\ Takes(call.curr)
<1>1. Searching /\ call.op = "kmalloc"
  BY CallCases DEF kmalloc_take
<1>2. PICK a, g, need : /\ a = call.curr /\ need = call.need /\ g = Split(hdr, a, need)
  OBVIOUS
<1>3. /\ a \in Blocks(hdr) \ live /\ need \in Nat /\ Aligned(need) /\ need > 0
      /\ need <= hdr[a].size
  BY <1>1, <1>2 DEF kmalloc_take, BlockFits, Searching
<1>4. /\ hdr' = Claim(Unlink(g, a), a, need)
      /\ free_list' = IF g[a].prev # NULL THEN free_list ELSE g[a].next
      /\ live' = live \cup {a} /\ call' = Returns(a + HEADER)
  BY <1>2 DEF kmalloc_take
<1>5. (g[a].prev # NULL => free_list' = free_list) /\ (g[a].prev = NULL => free_list' = g[a].next)
  BY <1>4
<1>6. a \in Addrs /\ hdr[a].size \in Nat
  BY <1>3 DEF Heap, Loose, Tiling, Blocks
<1>7. /\ Heap(free_list', hdr', live \cup {a})
      /\ hdr'[a].size = need /\ \A b \in live : hdr'[b].size = hdr[b].size
  <2>1. CASE need = hdr[a].size
    <3>1. g = hdr
      BY <1>2, <2>1 DEF Split
    <3>2. /\ hdr' = Claim(Unlink(hdr, a), a, need)
          /\ hdr[a].prev # NULL => free_list' = free_list
          /\ hdr[a].prev = NULL => free_list' = hdr[a].next
      BY <1>4, <1>5, <3>1
    <3>3. Heap(free_list', hdr', live \cup {a}) /\ \A b \in Addrs : hdr'[b].size = hdr[b].size
      BY <1>3, <2>1, <3>2, TakeWhole
    <3>4. \A b \in live : b \in Addrs
      BY DEF Heap, Loose, Blocks
    <3> QED
      BY <1>6, <2>1, <3>3, <3>4
  <2>2. CASE need < hdr[a].size
    <3>1. Taken(free_list, hdr, a, need, g, free_list', hdr')
      BY <1>2, <1>4, <1>5 DEF Taken
    <3>2. HeldNow(hdr, live, a, need, free_list', hdr')
      BY <1>3, <2>2, <3>1, TakePart
    <3> QED
      BY <3>2 DEF HeldNow
  <2> QED
    BY <1>3, <1>6, <2>1, <2>2
<1>8. Heap(free_list', hdr', live')
  BY <1>4, <1>7
<1>9. Takes(a)
  BY <1>1, <1>2, <1>3, <1>4, <1>6, <1>7 DEF Takes
<1> QED
  BY <1>2, <1>8, <1>9

\* kmalloc() found no block that is large enough.
LEMMA SearchFails ==
  ASSUME Heap(free_list, hdr, live), CallInv, kmalloc_fail
  PROVE  Heap(free_list, hdr, live)' /\ Fails
<1>1. Searching /\ call.op = "kmalloc" /\ call.curr = NULL
  BY CallCases DEF kmalloc_fail
<1>2. free_list' = free_list /\ hdr' = hdr /\ live' = live /\ call' = Returns(NULL)
  BY DEF kmalloc_fail
<1>3. Heap(free_list', hdr', live')
  BY <1>2
<1> QED
  BY <1>1, <1>2, <1>3 DEF Fails, Searching

\* kfree() passes a block before the node.
LEMMA PlacingGoes ==
  ASSUME Heap(free_list, hdr, live), CallInv, kfree_advance
  PROVE  Heap(free_list, hdr, live)' /\ Placing' /\ Goes
<1>1. Placing
  BY CallCases DEF kfree_advance
<1>2. PICK F, a, n : F = Blocks(hdr) \ live /\ a = call.next /\ n = hdr[a].next
  OBVIOUS
<1>3. F \in SUBSET Addrs /\ Chain(free_list, hdr, F) /\ hdr \in HeaderMaps
  BY <1>2 DEF Heap, Loose, Blocks
<1>4. a # NULL /\ a < call.node /\ a \in F
  <2>1. a # NULL /\ a < call.node
    BY <1>2 DEF kfree_advance, Passes
  <2>2. CASE call.prev = NULL
    <3>1. a = free_list /\ First(free_list, F)
      BY <1>1, <1>2, <1>3, <2>2 DEF Placing, Chain
    <3> QED
      BY <1>3, <2>1, <3>1, FirstProperties
  <2>3. CASE call.prev # NULL
    <3>1. call.prev \in F /\ a = hdr[call.prev].next
      BY <1>1, <1>2, <2>3 DEF Placing
    <3>2. hdr[call.prev].next \in F \cup {NULL}
      BY <1>3, <3>1, ChainNext
    <3> QED
      BY <2>1, <3>1, <3>2
  <2> QED
    BY <2>1, <2>2, <2>3
<1>5. n \in Links /\ a \in Links
  BY <1>2, <1>3, <1>4, HeaderFields DEF Links
<1>6. /\ call' = [call EXCEPT !.prev = a, !.next = n]
      /\ free_list' = free_list /\ hdr' = hdr /\ live' = live
  BY <1>2 DEF kfree_advance
<1>7. call \in [op : {"kfree"}, node : Addrs, prev : Links, next : Links] /\ call.node \in live
  BY <1>1 DEF Placing
<1>8. /\ call' \in [op : {"kfree"}, node : Addrs, prev : Links, next : Links]
      /\ call'.node = call.node /\ call'.prev = a /\ call'.next = n
      /\ call'.op = "kfree" /\ call.op = "kfree"
  BY <1>5, <1>6, <1>7
<1>9. Placing'
  BY <1>2, <1>4, <1>6, <1>7, <1>8 DEF Placing
<1>10. Heap(free_list', hdr', live')
  BY <1>6
<1> QED
  BY <1>6, <1>8, <1>9, <1>10 DEF Goes

\* kfree() puts the node on the list.
LEMMA PlacingFrees ==
  ASSUME Heap(free_list, hdr, live), CallInv, kfree_link
  PROVE  Heap(free_list, hdr, live)' /\ Frees
<1>1. Placing /\ call.op = "kfree"
  BY CallCases DEF kfree_link
<1>2. PICK node, p, n : node = call.node /\ p = call.prev /\ n = call.next
  OBVIOUS
<1>3. node \in live /\ node \in Addrs /\ p \in Links /\ n \in Links
  BY <1>1, <1>2 DEF Placing
<1>4. Place(free_list, hdr, live, node, p, n)
  <2>1. n # NULL => node < n
    <3>1. SUFFICES ASSUME n # NULL PROVE node < n
      OBVIOUS
    <3>2. ~(n < node)
      BY <1>2, <3>1 DEF kfree_link, Passes
    <3>3. n \in Addrs /\ n \in Int /\ node \in Int
      BY <1>3, <3>1, AddrsNumbers DEF Links
    <3>4. n \notin live
      <4>1. PICK F : F = Blocks(hdr) \ live
        OBVIOUS
      <4>2. F \in SUBSET Addrs /\ Chain(free_list, hdr, F)
        BY <4>1 DEF Heap, Loose, Blocks
      <4>3. CASE p = NULL
        <5>1. n = free_list /\ First(free_list, F)
          BY <1>1, <1>2, <4>2, <4>3 DEF Placing, Chain
        <5>2. n \in F
          BY <3>1, <4>2, <5>1, FirstProperties
        <5> QED
          BY <4>1, <5>2
      <4>4. CASE p # NULL
        <5>1. p \in F /\ n = hdr[p].next
          BY <1>1, <1>2, <4>1, <4>4 DEF Placing
        <5>2. hdr[p].next \in F \cup {NULL}
          BY <4>2, <5>1, ChainNext
        <5> QED
          BY <3>1, <4>1, <5>1, <5>2
      <4> QED
        BY <4>3, <4>4
    <3> QED
      BY <1>3, <3>2, <3>3, <3>4
  <2> QED
    BY <1>1, <1>2, <1>3, <2>1 DEF Place, Placing
<1>5. /\ hdr' = coalesce_blocks(coalesce_blocks(Insert(hdr, p, node, n), node, n), p, node)
      /\ free_list' = IF p # NULL THEN free_list ELSE node
      /\ live' = live \ {node} /\ call' = Returns(1)
  BY <1>2 DEF kfree_link
<1>6. (p = NULL => free_list' = node) /\ (p # NULL => free_list' = free_list)
  BY <1>5
<1>7. /\ Heap(free_list', hdr', live \ {node})
      /\ \A b \in live \ {node} : hdr'[b].size = hdr[b].size
  <2>1. Linked(free_list, hdr, p, node, n, free_list', hdr')
    BY <1>5, <1>6 DEF Linked
  <2>2. FreeNow(hdr, live, node, free_list', hdr')
    BY <1>3, <1>4, <2>1, FreeHeap
  <2> QED
    BY <2>2 DEF FreeNow
<1>8. Heap(free_list', hdr', live')
  BY <1>5, <1>7
<1> QED
  BY <1>1, <1>2, <1>3, <1>5, <1>7, <1>8 DEF Frees

\* What a step of a call in progress does.
LEMMA RunHeap ==
  ASSUME Heap(free_list, hdr, live), CallInv, Run
  PROVE  /\ Heap(free_list, hdr, live)' /\ CallInv'
         /\ Goes \/ (\E a \in Addrs : Takes(a)) \/ Fails \/ Frees
<1>1. CASE kmalloc_advance
  BY <1>1, SearchGoes DEF CallInv
<1>2. CASE kmalloc_take
  <2>1. Takes(call.curr) /\ Heap(free_list, hdr, live)'
    BY <1>2, SearchTakes
  <2>2. PICK a : a = call.curr /\ Takes(a)
    BY <2>1
  <2>3. a \in Addrs /\ call' = Returns(a + HEADER)
    BY <2>2 DEF Takes
  <2>4. call' \in [op : {"idle", "return"}, ret : Nat]
    BY <2>3, AddrsNumbers, Layout DEF Returns
  <2> QED
    BY <2>1, <2>2, <2>3, <2>4 DEF CallInv
<1>3. CASE kmalloc_fail
  <2>1. Fails /\ Heap(free_list, hdr, live)'
    BY <1>3, SearchFails
  <2>2. call' \in [op : {"idle", "return"}, ret : Nat]
    BY <2>1 DEF Fails, Returns, NULL
  <2> QED
    BY <2>1, <2>2 DEF CallInv
<1>4. CASE kfree_advance
  BY <1>4, PlacingGoes DEF CallInv
<1>5. CASE kfree_link
  <2>1. Frees /\ Heap(free_list, hdr, live)'
    BY <1>5, PlacingFrees
  <2>2. call' \in [op : {"idle", "return"}, ret : Nat]
    BY <2>1 DEF Frees, Returns
  <2> QED
    BY <2>1, <2>2 DEF CallInv
<1> QED
  BY <1>1, <1>2, <1>3, <1>4, <1>5 DEF Run

-----------------------------------------------------------------------------
(***************************************************************************)
(* Who holds the blocks.                                                   *)
(***************************************************************************)

\* The pointer of a block is not NULL.
LEMMA PointersProperties ==
  /\ \A a \in Addrs : a + HEADER \in Nat /\ a + HEADER # NULL /\ (a + HEADER) - HEADER = a
  /\ \A v \in Nat : (v - HEADER) + HEADER = v
<1>1. \A a \in Addrs : a \in Int /\ a > 0
  BY AddrsNumbers
<1>2. HEADER \in Nat
  BY Layout
<1> QED
  BY <1>1, <1>2 DEF NULL

\* It does not matter in which hand a pointer is.
LEMMA OwnsSwap ==
  ASSUME NEW P, NEW x, NEW y, NEW z, NEW B, NEW L, Owns(P, x, y, z, B, L)
  PROVE  Owns(P, y, x, z, B, L) /\ Owns(P, z, y, x, B, L) /\ Owns(P, x, z, y, B, L)
<1>1. {x, y, z} = {y, x, z} /\ {x, y, z} = {z, y, x} /\ {x, y, z} = {x, z, y}
  OBVIOUS
<1> QED
  BY <1>1 DEF Owns

\* A block is given out.
LEMMA OwnsMore ==
  ASSUME NEW P, NEW x, NEW y, NEW B, NEW L \in SUBSET Addrs, Owns(P, x, y, NULL, B, L),
         NEW a \in Addrs \ L
  PROVE  Owns(P, x, y, a + HEADER, B, L \cup {a})
<1>1. a \in Int /\ a > 0 /\ HEADER \in Nat /\ a + HEADER \in Nat /\ (a + HEADER) - HEADER = a
  BY AddrsNumbers, Layout
<1>2. PICK K, v : K = L \cup {a} /\ v = a + HEADER
  OBVIOUS
<1>3. PointsTo(K, v) /\ v # NULL /\ ~PointsTo(L, v)
  BY <1>1, <1>2 DEF PointsTo, NULL
<1>4. \A u : PointsTo(L, u) => PointsTo(K, u) /\ u # v
  BY <1>2, <1>3 DEF PointsTo
<1>5. \A s \in Slots : \A k \in Fields : P[s][k] # NULL => PointsTo(K, P[s][k])
  BY <1>4 DEF Owns
<1>6. \A s \in Slots : \A k \in Fields : P[s][k] # v
  BY <1>3, <1>4 DEF Owns
<1>7. \A u \in {x, y} : u # NULL => PointsTo(L, u) /\ \A s \in Slots : \A k \in Fields : P[s][k] # u
  BY DEF Owns
<1>8. \A u \in {x, y, v} : u # NULL => PointsTo(K, u) /\ \A s \in Slots : \A k \in Fields : P[s][k] # u
  BY <1>3, <1>4, <1>6, <1>7
<1>9. (x = y \/ x = v => x = NULL) /\ (y = v => y = NULL)
  BY <1>3, <1>4, <1>7 DEF Owns
<1>10. \A b \in K : \/ \E s \in Slots : \E k \in Fields : P[s][k] = b + HEADER
                    \/ b + HEADER \in {x, y, v}
                    \/ b + HEADER \in B
  <2>1. ASSUME NEW b \in L
        PROVE  \/ \E s \in Slots : \E k \in Fields : P[s][k] = b + HEADER
               \/ b + HEADER \in {x, y}
               \/ b + HEADER \in B
    <3>1. b + HEADER # NULL
      BY PointersProperties
    <3> QED
      BY <3>1 DEF Owns
  <2> QED
    BY <1>2, <2>1
<1>11. Owns(P, x, y, v, B, K)
  BY <1>5, <1>8, <1>9, <1>10 DEF Owns
<1> QED
  BY <1>2, <1>11

\* A block is given back.
LEMMA OwnsLess ==
  ASSUME NEW P, NEW x, NEW y, NEW z, NEW B, NEW L \in SUBSET Addrs, Owns(P, x, y, z, B, L),
         x # NULL
  PROVE  Owns(P, NULL, y, z, B, L \ {x - HEADER})
<1>1. PICK K, a : K = L \ {a} /\ a = x - HEADER
  OBVIOUS
<1>2. PointsTo(L, x) /\ (\A s \in Slots : \A k \in Fields : P[s][k] # x) /\ a + HEADER = x
  BY <1>1, PointersProperties DEF Owns, PointsTo
<1>3. \A u : PointsTo(L, u) /\ u # x => PointsTo(K, u)
  BY <1>1, <1>2, PointersProperties DEF PointsTo
<1>4. \A s \in Slots : \A k \in Fields : P[s][k] # NULL => PointsTo(K, P[s][k])
  BY <1>2, <1>3 DEF Owns
<1>5. (y # NULL => y # x) /\ (z # NULL => z # x)
  BY DEF Owns
<1>6. \A u \in {NULL, y, z} :
        u # NULL => PointsTo(K, u) /\ \A s \in Slots : \A k \in Fields : P[s][k] # u
  BY <1>3, <1>5 DEF Owns
<1>7. ASSUME NEW b \in K
      PROVE  \/ \E s \in Slots : \E k \in Fields : P[s][k] = b + HEADER
             \/ b + HEADER \in {NULL, y, z}
             \/ b + HEADER \in B
  <2>1. b + HEADER # x
    BY <1>1, PointersProperties
  <2> QED
    BY <1>1, <2>1 DEF Owns
<1>8. Owns(P, NULL, y, z, B, K)
  BY <1>4, <1>6, <1>7 DEF Owns
<1> QED
  BY <1>1, <1>8

\* A pointer is kept for good.
LEMMA OwnsKept ==
  ASSUME NEW P, NEW x, NEW y, NEW z, NEW B, NEW L, Owns(P, x, y, z, B, L),
         NEW C, B \subseteq C, x \in C
  PROVE  Owns(P, NULL, y, z, C, L)
<1>1. \A u \in {NULL, y, z} :
        u # NULL => PointsTo(L, u) /\ \A s \in Slots : \A k \in Fields : P[s][k] # u
  BY DEF Owns
<1>2. ASSUME NEW b \in L
      PROVE  \/ \E s \in Slots : \E k \in Fields : P[s][k] = b + HEADER
             \/ b + HEADER \in {NULL, y, z}
             \/ b + HEADER \in C
  BY DEF Owns
<1> QED
  BY <1>1, <1>2 DEF Owns

\* A pcb takes over the pointers in hand.
LEMMA OwnsCreated ==
  ASSUME NEW P \in PcbTable, NEW x, NEW z, NEW B, NEW L, Owns(P, x, NULL, z, B, L),
         NEW s \in Slots, P[s] = NoPcb, NEW Q,
         Q = [P EXCEPT ![s] = [stack_start |-> x, signal_table |-> z]], x # NULL, z # NULL
  PROVE  Owns(Q, NULL, NULL, NULL, B, L)
<1>1. /\ Q[s].stack_start = x /\ Q[s].signal_table = z /\ x # z
      /\ \A t \in Slots \ {s} : Q[t] = P[t]
      /\ P[s].stack_start = NULL /\ P[s].signal_table = NULL
  BY DEF PcbTable, Owns, NoPcb
<1>2. \A v \in {x, z} : PointsTo(L, v) /\ \A t \in Slots : \A k \in Fields : P[t][k] # v
  BY DEF Owns
<1>3. \A t \in Slots : \A k \in Fields : Q[t][k] # NULL => PointsTo(L, Q[t][k])
  BY <1>1, <1>2 DEF Owns, Fields
<1>4. ASSUME NEW t \in Slots, NEW u \in Slots, NEW j \in Fields, NEW k \in Fields,
             Q[t][j] = Q[u][k], Q[t][j] # NULL
      PROVE  t = u /\ j = k
  <2>1. CASE t = s /\ u = s
    BY <1>1, <1>4, <2>1 DEF Fields
  <2>2. CASE t = s /\ u # s
    BY <1>1, <1>2, <1>4, <2>2 DEF Fields
  <2>3. CASE t # s /\ u = s
    BY <1>1, <1>2, <1>4, <2>3 DEF Fields
  <2>4. CASE t # s /\ u # s
    BY <1>1, <1>4, <2>4 DEF Owns
  <2> QED
    BY <2>1, <2>2, <2>3, <2>4
<1>5. ASSUME NEW b \in L, b + HEADER # NULL
      PROVE  \/ \E t \in Slots : \E k \in Fields : Q[t][k] = b + HEADER
             \/ b + HEADER \in B
  <2>1. CASE b + HEADER \in {x, z}
    BY <1>1, <2>1 DEF Fields
  <2>2. CASE b + HEADER \notin {x, z}
    <3>1. \/ \E t \in Slots : \E k \in Fields : P[t][k] = b + HEADER
          \/ b + HEADER \in B
      BY <1>5, <2>2 DEF Owns
    <3> QED
      BY <1>1, <1>5, <3>1 DEF Fields
  <2> QED
    BY <2>1, <2>2
<1> QED
  BY <1>3, <1>4, <1>5 DEF Owns

\* A job takes over the pointers of a pcb.
LEMMA OwnsCleaned ==
  ASSUME NEW P \in PcbTable, NEW B, NEW L, Owns(P, NULL, NULL, NULL, B, L),
         NEW s \in Slots, NEW Q, Q = [P EXCEPT ![s] = NoPcb]
  PROVE  Owns(Q, P[s].stack_start, P[s].signal_table, NULL, B, L)
<1>1. PICK x, y : x = P[s].stack_start /\ y = P[s].signal_table
  OBVIOUS
<1>2. /\ \A k \in Fields : Q[s][k] = NULL
      /\ \A t \in Slots \ {s} : Q[t] = P[t]
  BY DEF PcbTable, Fields, NoPcb
<1>3. \A t \in Slots : \A k \in Fields : Q[t][k] # NULL => PointsTo(L, Q[t][k])
  BY <1>2 DEF Owns
<1>4. ASSUME NEW t \in Slots, NEW u \in Slots, NEW j \in Fields, NEW k \in Fields,
             Q[t][j] = Q[u][k], Q[t][j] # NULL
      PROVE  t = u /\ j = k
  BY <1>2, <1>4 DEF Owns
<1>5. ASSUME NEW j \in Fields, P[s][j] # NULL
      PROVE  PointsTo(L, P[s][j]) /\ \A t \in Slots : \A k \in Fields : Q[t][k] # P[s][j]
  BY <1>2, <1>5 DEF Owns
<1>6. x = y => x = NULL
  <2>1. "stack_start" \in Fields /\ "signal_table" \in Fields /\ "stack_start" # "signal_table"
    BY DEF Fields
  <2>2. P[s]["stack_start"] = x /\ P[s]["signal_table"] = y
    BY <1>1 DEF PcbTable
  <2> QED
    BY <2>1, <2>2 DEF Owns
<1>7. \A v \in {x, y, NULL} :
        v # NULL => PointsTo(L, v) /\ \A t \in Slots : \A k \in Fields : Q[t][k] # v
  BY <1>1, <1>5 DEF Fields
<1>8. ASSUME NEW b \in L
      PROVE  \/ \E t \in Slots : \E k \in Fields : Q[t][k] = b + HEADER
             \/ b + HEADER \in {x, y, NULL}
             \/ b + HEADER \in B
  <2>1. ASSUME NEW t \in Slots, NEW k \in Fields, P[t][k] = b + HEADER
        PROVE  (\E u \in Slots : \E j \in Fields : Q[u][j] = b + HEADER) \/ b + HEADER \in {x, y}
    <3>1. CASE t = s
      BY <1>1, <2>1, <3>1 DEF Fields
    <3>2. CASE t # s
      BY <1>2, <2>1, <3>2
    <3> QED
      BY <3>1, <3>2
  <2> QED
    BY <2>1 DEF Owns
<1>9. Owns(Q, x, y, NULL, B, L)
  BY <1>3, <1>4, <1>6, <1>7, <1>8 DEF Owns
<1> QED
  BY <1>1, <1>9

-----------------------------------------------------------------------------
(***************************************************************************)
(* The invariant holds.                                                    *)
(***************************************************************************)

\* kmeminit() sets up one free block in each region.
LEMMA InitHeap ==
  ASSUME kmeminit
  PROVE  Heap(free_list, hdr, live)
<1>1. PICK a, c, h : a = memstart /\ c = HOLEEND /\ h = hdr
  OBVIOUS
<1>2. /\ a \in Addrs /\ c \in Addrs /\ a \in Int /\ c \in Int /\ a # c /\ a # NULL /\ c # NULL
      /\ a < HOLESTART /\ HOLESTART < c /\ c < memend
      /\ {HOLESTART, memend} \subseteq Nat
  BY <1>1, Layout, AddrsProperties, AddrsNumbers
<1>3. PICK r, q : /\ r = [NoHeader EXCEPT !.size = HOLESTART - a, !.next = c]
                  /\ q = [NoHeader EXCEPT !.size = memend - c, !.prev = a]
  OBVIOUS
<1>4. /\ r.size = HOLESTART - a /\ r.next = c /\ r.prev = NULL
      /\ q.size = memend - c /\ q.next = NULL /\ q.prev = a
      /\ r.sanity_check = NULL /\ q.sanity_check = NULL
      /\ r = [size |-> r.size, prev |-> r.prev, next |-> r.next, sanity_check |-> r.sanity_check]
      /\ q = [size |-> q.size, prev |-> q.prev, next |-> q.next, sanity_check |-> q.sanity_check]
  BY <1>3 DEF NoHeader
<1>5. r \in Headers /\ q \in Headers /\ NoHeader \in Headers
  <2>1. HOLESTART - a \in Nat /\ memend - c \in Nat /\ NULL \in Nat
    BY <1>2 DEF NULL
  <2>2. r \in Headers
    BY <1>2, <1>4, <2>1 DEF Headers
  <2>3. q \in Headers
    BY <1>2, <1>4, <2>1 DEF Headers
  <2>4. NoHeader \in Headers
    BY <2>1 DEF Headers, NoHeader
  <2> QED
    BY <2>2, <2>3, <2>4
<1>6. /\ h = [b \in Addrs |-> CASE b = a -> r [] b = c -> q [] OTHER -> NoHeader]
      /\ free_list = a /\ live = {}
  BY <1>1, <1>3 DEF kmeminit
<1>7. h[a] = r /\ h[c] = q /\ \A b \in Addrs \ {a, c} : h[b] = NoHeader
  BY <1>2, <1>6
<1>8. h \in HeaderMaps
  <2>1. \A b \in Addrs : (CASE b = a -> r [] b = c -> q [] OTHER -> NoHeader) \in Headers
    BY <1>5
  <2> QED
    BY <1>6, <2>1 DEF HeaderMaps
<1>9. Blocks(h) = {a, c}
  <2>1. h[a].size > 0 /\ h[c].size > 0
    BY <1>2, <1>4, <1>7
  <2>2. \A b \in Addrs \ {a, c} : ~(h[b].size > 0)
    <3>1. NoHeader.size = 0
      BY DEF NoHeader
    <3> QED
      BY <1>7, <3>1
  <2> QED
    BY <1>2, <2>1, <2>2 DEF Blocks
<1>10. End(h, a) = HOLESTART /\ End(h, c) = memend /\ Limit(a) = HOLESTART /\ Limit(c) = memend
  BY <1>2, <1>4, <1>7 DEF End, Limit
<1>11. Tiling(h)
  <2>1. \A b \in Addrs : h[b].size \in Nat
    BY <1>8, HeaderFields
  <2>2. FitsIn(h, a) /\ FitsIn(h, c)
    BY <1>2, <1>9, <1>10 DEF FitsIn
  <2> QED
    BY <1>1, <1>9, <2>1, <2>2 DEF Tiling
<1>12. Chain(a, h, {a, c})
  <2>1. {a, c} \in SUBSET Addrs /\ Above({a, c}, a) = {c} /\ Above({a, c}, c) = {}
    BY <1>2 DEF Above
  <2>2. First(a, {a, c}) /\ First(c, {c}) /\ First(NULL, {})
    BY <1>2 DEF First
  <2>3. h[a].next = c /\ h[a].prev = NULL /\ h[c].next = NULL /\ h[c].prev = a
    BY <1>4, <1>7
  <2> QED
    BY <2>1, <2>2, <2>3 DEF Chain
<1>13. \A b \in {a, c} : End(h, b) \notin {a, c}
  BY <1>2, <1>10
<1>14. Blocks(h) \ {} = {a, c} /\ Blocks(h) \ ({} \cup {}) = {a, c}
  BY <1>9
<1> QED
  BY <1>1, <1>6, <1>8, <1>11, <1>12, <1>13, <1>14 DEF Heap, Loose

\* The invariant holds at the start.
LEMMA InitIInv == Init => IInv
<1> SUFFICES ASSUME Init PROVE IInv
  OBVIOUS
<1>1. Heap(free_list, hdr, live)
  BY InitHeap DEF Init
<1>2. call = Idle /\ job = NoJob /\ boot = <<>> /\ lost = {} /\ live = {}
      /\ pcbs = [s \in Slots |-> NoPcb]
  BY DEF Init, kmeminit
<1>3. CallInv
  BY <1>2 DEF CallInv, Idle
<1>4. JobInv
  BY <1>2 DEF JobInv, NoJob, Steps, NULL
<1>5. \A s \in Slots : \A k \in Fields : pcbs[s][k] = NULL
  BY <1>2 DEF NoPcb, Fields
<1>6. PcbsInv
  <2>1. NoPcb \in [stack_start : Nat, signal_table : Nat]
    BY DEF NoPcb, NULL
  <2> QED
    BY <1>2, <2>1 DEF PcbsInv, PcbTable
<1>7. HandStack = NULL /\ HandTable = NULL /\ HandGiven = NULL
  BY <1>2 DEF HandStack, HandTable, HandGiven, NoJob, Idle
<1>8. Owns(pcbs, NULL, NULL, NULL, Kept, {})
  BY <1>5 DEF Owns
<1>9. BootInv /\ lost \subseteq Nat
  <2>1. Len(BootSizes) \in Nat
    BY ClientAssumption
  <2> QED
    BY <1>2, <2>1 DEF BootInv, NoJob
<1>10. NeedInv
  BY <1>2 DEF NeedInv, Idle
<1> QED
  BY <1>1, <1>2, <1>3, <1>4, <1>6, <1>7, <1>8, <1>9, <1>10 DEF IInv

\* The parts of the invariant that no step of the memory manager is about.
LEMMA RunStep ==
  ASSUME IInv, Run, UNCHANGED <<job, pcbs, boot, lost>>
  PROVE  IInv'
<1>1. /\ Heap(free_list, hdr, live) /\ CallInv /\ NeedInv /\ JobInv /\ PcbsInv
      /\ BootInv /\ boot \in Seq(Nat) /\ lost \subseteq Nat
      /\ Owns(pcbs, HandStack, HandTable, HandGiven, Kept, live)
  BY DEF IInv, BootInv
<1>2. /\ Heap(free_list, hdr, live)' /\ CallInv'
      /\ Goes \/ (\E a \in Addrs : Takes(a)) \/ Fails \/ Frees
  BY <1>1, RunHeap
<1>3. job' = job /\ pcbs' = pcbs /\ boot' = boot /\ lost' = lost /\ Kept' = Kept
  BY DEF Kept
<1>4. PcbsInv' /\ BootInv' /\ lost' \subseteq Nat
  BY <1>1, <1>3 DEF PcbsInv, BootInv
<1>5. live \in SUBSET Addrs
  BY <1>1 DEF Heap, Loose, Blocks
<1>12. NeedInv'
  BY <1>1, <1>2 DEF NeedInv, Goes, Takes, Fails, Frees, Returns
<1>6. SUFFICES JobInv' /\ Owns(pcbs, HandStack', HandTable', HandGiven', Kept, live')
  BY <1>2, <1>3, <1>4, <1>12 DEF IInv
<1>7. job.step \in Steps
  BY <1>1 DEF JobInv
<1>8. CASE Goes
  <2>1. /\ call.op \in {"kmalloc", "kfree"} /\ call'.op = call.op /\ live' = live
        /\ call.op = "kfree" => call'.node = call.node
    BY <1>8 DEF Goes
  <2>2. JobInv'
    BY <1>1, <1>3, <2>1 DEF JobInv, Idle
  <2>3. HandStack' = HandStack /\ HandTable' = HandTable /\ HandGiven' = HandGiven
    BY <1>3, <2>1 DEF HandStack, HandTable, HandGiven
  <2> QED
    BY <1>1, <2>1, <2>2, <2>3
<1>9. ASSUME NEW a \in Addrs, Takes(a)
      PROVE  JobInv' /\ Owns(pcbs, HandStack', HandTable', HandGiven', Kept, live')
  <2>1. /\ call.op = "kmalloc" /\ call'.op = "return" /\ call'.ret = a + HEADER
        /\ a \in Addrs \ live /\ live' = live \cup {a}
    BY <1>9 DEF Takes, Returns
  <2>2. job.step \in {"boot", "stack", "table"}
    BY <1>1, <1>7, <2>1 DEF JobInv, Idle, Steps
  <2>3. JobInv'
    BY <1>1, <1>3, <2>1, <2>2 DEF JobInv
  <2>4. /\ HandStack' = HandStack /\ HandTable' = HandTable
        /\ HandGiven = NULL /\ HandGiven' = a + HEADER
    BY <1>3, <2>1, <2>2 DEF HandStack, HandTable, HandGiven
  <2> QED
    BY <1>1, <1>5, <2>1, <2>3, <2>4, OwnsMore
<1>10. CASE Fails
  <2>1. call.op = "kmalloc" /\ call'.op = "return" /\ call'.ret = NULL /\ live' = live
    BY <1>10 DEF Fails, Returns
  <2>2. job.step \in {"boot", "stack", "table"}
    BY <1>1, <1>7, <2>1 DEF JobInv, Idle, Steps
  <2>3. JobInv'
    BY <1>1, <1>3, <2>1, <2>2 DEF JobInv
  <2>4. HandStack' = HandStack /\ HandTable' = HandTable /\ HandGiven' = HandGiven
    BY <1>3, <2>1, <2>2 DEF HandStack, HandTable, HandGiven
  <2> QED
    BY <1>1, <2>1, <2>3, <2>4
<1>11. CASE Frees
  <2>1. /\ call.op = "kfree" /\ call'.op = "return" /\ call'.ret = 1
        /\ live' = live \ {call.node}
    BY <1>11 DEF Frees, Returns
  <2>2. job.step \in {"free_stack", "free_table"}
    BY <1>1, <1>7, <2>1 DEF JobInv, Idle, Steps
  <2>3. JobInv'
    BY <1>1, <1>3, <2>1, <2>2 DEF JobInv
  <2>4. CASE job.step = "free_stack"
    <3>1. /\ job.stack # NULL /\ call.node = job.stack - HEADER
          /\ HandStack = job.stack /\ HandStack' = NULL
          /\ HandTable' = HandTable /\ HandGiven' = HandGiven
      BY <1>1, <1>3, <2>1, <2>4 DEF JobInv, HandStack, HandTable, HandGiven
    <3> QED
      BY <1>1, <1>5, <2>1, <2>3, <3>1, OwnsLess
  <2>5. CASE job.step = "free_table"
    <3>1. /\ job.table # NULL /\ call.node = job.table - HEADER
          /\ HandTable = job.table /\ HandTable' = NULL
          /\ HandStack' = HandStack /\ HandGiven' = HandGiven
      BY <1>1, <1>3, <2>1, <2>5 DEF JobInv, HandStack, HandTable, HandGiven
    <3>2. Owns(pcbs, HandTable, HandStack, HandGiven, Kept, live)
      BY <1>1, OwnsSwap
    <3>3. Owns(pcbs, NULL, HandStack, HandGiven, Kept, live')
      BY <1>5, <2>1, <3>1, <3>2, OwnsLess
    <3>4. Owns(pcbs, HandStack, NULL, HandGiven, Kept, live')
      BY <3>3, OwnsSwap
    <3> QED
      BY <2>3, <3>1, <3>4
  <2> QED
    BY <2>2, <2>4, <2>5
<1> QED
  BY <1>2, <1>8, <1>9, <1>10, <1>11

\* At rest the job has nothing in hand.
LEMMA RestHands ==
  ASSUME JobInv
  PROVE  job = NoJob => HandStack = NULL /\ HandTable = NULL /\ HandGiven = NULL
BY DEF NoJob, HandStack, HandTable, HandGiven

\* A job that ends leaves the rest as it is.
LEMMA JobEnds ==
  ASSUME IInv, EndJob, pcbs' \in PcbTable,
         \A s \in Slots : pcbs'[s] = NoPcb \/ \A k \in Fields : pcbs'[s][k] # NULL,
         boot' \in Seq(Nat), Len(boot') <= Len(BootSizes), lost' \subseteq Nat,
         Owns(pcbs', NULL, NULL, NULL, Kept', live)
  PROVE  IInv'
<1>1. job' = NoJob /\ call' = Idle /\ free_list' = free_list /\ hdr' = hdr /\ live' = live
  BY DEF EndJob
<1>2. Heap(free_list', hdr', live')
  BY <1>1 DEF IInv
<1>3. CallInv' /\ NeedInv'
  BY <1>1 DEF CallInv, NeedInv, Idle
<1>4. JobInv'
  BY <1>1 DEF JobInv, NoJob, Steps, NULL
<1>5. PcbsInv'
  BY DEF PcbsInv
<1>6. HandStack' = NULL /\ HandTable' = NULL /\ HandGiven' = NULL
  BY <1>1 DEF HandStack, HandTable, HandGiven, NoJob, Idle
<1>7. BootInv'
  BY <1>1 DEF BootInv, NoJob
<1> QED
  BY <1>1, <1>2, <1>3, <1>4, <1>5, <1>6, <1>7 DEF IInv

\* The kernel asks for a block of a size that is one of the requests.
LEMMA JobAsks ==
  ASSUME IInv, NEW size \in Requests, kmalloc(size), UNCHANGED <<pcbs, boot, lost>>,
         job' \in [step : {"boot", "stack", "table"}, stack : Nat, table : {NULL}],
         job'.step = "table" <=> job'.stack # NULL,
         job'.step = "boot" => Len(boot) < Len(BootSizes),
         Owns(pcbs, job'.stack, NULL, NULL, Kept, live)
  PROVE  IInv'
<1>1. size \in Nat /\ size > 0
  <2>1. size \in Nat \ {0}
    BY ClientAssumption DEF Requests, StackSize
  <2> QED
    BY <2>1
<1>2. /\ Heap(free_list, hdr, live)' /\ Searching' /\ live' = live
      /\ call'.need = align_to_paragraph(size) + HEADER
  BY <1>1, SearchStarts DEF IInv
<1>3. CallInv' /\ NeedInv' /\ call'.op = "kmalloc"
  BY <1>2 DEF CallInv, NeedInv, Searching, BlockSizes
<1>4. NULL \in Nat
  BY DEF NULL
<1>5. JobInv'
  BY <1>3, <1>4 DEF JobInv, Steps
<1>6. HandStack' = job'.stack /\ HandTable' = NULL /\ HandGiven' = NULL
  BY <1>3 DEF HandStack, HandTable, HandGiven
<1>7. pcbs' = pcbs /\ boot' = boot /\ lost' = lost /\ Kept' = Kept /\ PcbsInv'
      /\ BootInv' /\ lost' \subseteq Nat
  BY DEF IInv, Kept, PcbsInv, BootInv
<1> QED
  BY <1>2, <1>3, <1>5, <1>6, <1>7 DEF IInv

\* The kernel gives back the block x.
LEMMA JobGivesBack ==
  ASSUME IInv, NEW x, x # NULL, kfree(x), UNCHANGED <<boot, lost>>,
         pcbs' \in PcbTable,
         \A s \in Slots : pcbs'[s] = NoPcb \/ \A k \in Fields : pcbs'[s][k] # NULL,
         job' \in [step : {"free_stack", "free_table"}, stack : Nat, table : Nat],
         job'.step = "free_stack" => job'.stack = x,
         job'.step = "free_table" => job'.stack = NULL /\ job'.table = x,
         job'.table # NULL,
         Owns(pcbs', job'.stack, job'.table, NULL, Kept, live)
  PROVE  IInv'
<1>1. PointsTo(live, x)
  BY DEF Owns
<1>2. /\ Heap(free_list, hdr, live)' /\ Placing' /\ call'.node = x - HEADER
      /\ call'.op = "kfree" /\ live' = live
  BY <1>1, PlacingStarts DEF IInv
<1>3. CallInv' /\ NeedInv'
  BY <1>2 DEF CallInv, NeedInv
<1>4. JobInv'
  BY <1>2 DEF JobInv, Steps
<1>5. HandStack' = job'.stack /\ HandTable' = job'.table /\ HandGiven' = NULL
  BY <1>2 DEF HandStack, HandTable, HandGiven
<1>6. boot' = boot /\ lost' = lost /\ Kept' = Kept /\ PcbsInv'
      /\ BootInv' /\ lost' \subseteq Nat
  BY DEF IInv, Kept, PcbsInv, BootInv
<1> QED
  BY <1>2, <1>3, <1>4, <1>5, <1>6 DEF IInv

\* Every step keeps the invariant.
LEMMA NextIInv == IInv /\ [Next]_vars => IInv'
<1> SUFFICES ASSUME IInv, [Next]_vars PROVE IInv'
  OBVIOUS
<1>1. /\ Heap(free_list, hdr, live) /\ CallInv /\ JobInv /\ PcbsInv
      /\ BootInv /\ boot \in Seq(Nat) /\ lost \subseteq Nat
      /\ Owns(pcbs, HandStack, HandTable, HandGiven, Kept, live)
  BY DEF IInv, BootInv
<1>2. /\ job = NoJob => HandStack = NULL /\ HandTable = NULL /\ HandGiven = NULL
      /\ NoJob.step = "none" /\ NoJob.stack = NULL /\ NoJob.table = NULL /\ NULL \in Nat
  BY <1>1, RestHands DEF NoJob, NULL
<1>3. /\ job \in [step : Steps, stack : Nat, table : Nat]
      /\ pcbs \in PcbTable
      /\ \A s \in Slots : pcbs[s] = NoPcb \/ \A k \in Fields : pcbs[s][k] # NULL
  BY <1>1 DEF JobInv, PcbsInv
<1>4. ASSUME NEW step, Returned(step), step \in {"boot", "stack", "table"}
      PROVE  /\ HandGiven = call.ret /\ HandStack = job.stack /\ HandTable = NULL
             /\ call.ret \in Nat /\ job.table = NULL
             /\ step \in {"boot", "stack"} => job.stack = NULL
             /\ step = "table" => job.stack # NULL
  <2>1. call.op = "return" /\ job.step = step
    BY <1>4 DEF Returned
  <2>2. job.table = NULL /\ (step \in {"boot", "stack"} => job.stack = NULL)
        /\ (step = "table" => job.stack # NULL)
    BY <1>1, <1>4, <2>1 DEF JobInv
  <2>3. HandGiven = call.ret /\ HandStack = job.stack /\ HandTable = NULL
    BY <1>4, <2>1, <2>2 DEF HandGiven, HandStack, HandTable
  <2> QED
    BY <1>1, <2>1, <2>2, <2>3, CallCases
<1>5. Kept' = Kept \/ ~ UNCHANGED <<boot, lost>>
  BY DEF Kept
<1>6. CASE BootAllocate
  <2>1. PICK i : i = Len(boot) + 1
    OBVIOUS
  <2>2. /\ job = NoJob /\ Len(boot) # Len(BootSizes) /\ kmalloc(BootSizes[i])
        /\ job' = [NoJob EXCEPT !.step = "boot"] /\ UNCHANGED <<pcbs, boot, lost>>
    BY <1>6, <2>1 DEF BootAllocate, AtRest, Booted
  <2>3. /\ BootSizes \in Seq(Nat \ {0}) /\ Len(boot) \in Nat /\ Len(BootSizes) \in Nat
        /\ Len(boot) <= Len(BootSizes)
    BY <1>1, ClientAssumption DEF BootInv
  <2>4. Len(boot) < Len(BootSizes) /\ i \in 1..Len(BootSizes)
    BY <2>1, <2>2, <2>3
  <2>5. BootSizes[i] \in Requests
    BY <2>4 DEF Requests
  <2>6. /\ job' \in [step : {"boot", "stack", "table"}, stack : Nat, table : {NULL}]
        /\ job'.step = "boot" /\ job'.stack = NULL
    BY <1>2, <2>2 DEF NoJob
  <2>7. Owns(pcbs, job'.stack, NULL, NULL, Kept, live)
    BY <1>1, <1>2, <2>2, <2>6
  <2> QED
    BY <2>2, <2>4, <2>5, <2>6, <2>7, JobAsks
<1>7. ASSUME NEW stack \in StackSizes, Create(stack) PROVE IInv'
  <2>1. /\ job = NoJob /\ kmalloc(StackSize(stack))
        /\ job' = [NoJob EXCEPT !.step = "stack"] /\ UNCHANGED <<pcbs, boot, lost>>
    BY <1>7 DEF Create, AtRest
  <2>2. StackSize(stack) \in Requests
    BY DEF Requests
  <2>3. /\ job' \in [step : {"boot", "stack", "table"}, stack : Nat, table : {NULL}]
        /\ job'.step = "stack" /\ job'.stack = NULL
    BY <1>2, <2>1 DEF NoJob
  <2>4. Owns(pcbs, job'.stack, NULL, NULL, Kept, live)
    BY <1>1, <1>2, <2>1, <2>3
  <2> QED
    BY <2>1, <2>2, <2>3, <2>4, JobAsks
<1>8. ASSUME NEW s \in Slots, Cleanup(s) PROVE IInv'
  <2>1. PICK x, y : x = pcbs[s].stack_start /\ y = pcbs[s].signal_table
    OBVIOUS
  <2>2. /\ job = NoJob /\ pcbs[s] # NoPcb /\ kfree(x)
        /\ job' = [step |-> "free_stack", stack |-> x, table |-> y]
        /\ UNCHANGED <<boot, lost>> /\ pcbs' = [pcbs EXCEPT ![s] = NoPcb]
    BY <1>8, <2>1 DEF Cleanup, AtRest, StartFree
  <2>3. x \in Nat /\ y \in Nat /\ x # NULL /\ y # NULL
    BY <1>3, <2>1, <2>2 DEF PcbTable, Fields
  <2>4. /\ job' \in [step : {"free_stack", "free_table"}, stack : Nat, table : Nat]
        /\ job'.step = "free_stack" /\ job'.stack = x /\ job'.table = y
    BY <2>2, <2>3
  <2>5. NoPcb \in [stack_start : Nat, signal_table : Nat]
    BY DEF NoPcb, NULL
  <2>6. /\ pcbs' \in PcbTable
        /\ \A t \in Slots : pcbs'[t] = NoPcb \/ \A k \in Fields : pcbs'[t][k] # NULL
    BY <1>3, <2>2, <2>5 DEF PcbTable
  <2>7. Owns(pcbs, NULL, NULL, NULL, Kept, live)
    BY <1>1, <1>2, <2>2
  <2>8. Owns(pcbs', x, y, NULL, Kept, live)
    BY <1>3, <2>1, <2>2, <2>7, OwnsCleaned
  <2>9. Owns(pcbs', job'.stack, job'.table, NULL, Kept, live)
    BY <2>4, <2>8
  <2> QED
    BY <2>2, <2>3, <2>4, <2>6, <2>9, JobGivesBack
<1>9. CASE Run /\ UNCHANGED <<job, pcbs, boot, lost>>
  BY <1>9, RunStep
<1>10. CASE BootAllocated
  <2>1. /\ Returned("boot") /\ boot' = Append(boot, call.ret) /\ EndJob
        /\ pcbs' = pcbs /\ lost' = lost
    BY <1>10 DEF BootAllocated
  <2>2. HandGiven = call.ret /\ HandStack = NULL /\ HandTable = NULL /\ call.ret \in Nat
    BY <1>4, <2>1
  <2>3. boot' \in Seq(Nat) /\ Kept \subseteq Kept' /\ call.ret \in Kept'
    <3>1. /\ boot' \in Seq(Nat) /\ Len(boot') = Len(boot) + 1 /\ Len(boot) \in Nat
          /\ boot'[Len(boot) + 1] = call.ret /\ \A i \in 1..Len(boot) : boot'[i] = boot[i]
      BY <1>1, <2>1, <2>2
    <3>2. 1..Len(boot) \subseteq 1..Len(boot') /\ Len(boot) + 1 \in 1..Len(boot')
      BY <3>1
    <3> QED
      BY <2>1, <3>1, <3>2 DEF Kept
  <2>6. Len(boot') <= Len(BootSizes)
    <3>1. Len(boot) < Len(BootSizes) /\ Len(boot') = Len(boot) + 1 /\ Len(boot) \in Nat
      BY <1>1, <2>1, <2>2 DEF BootInv, Returned
    <3>2. Len(BootSizes) \in Nat
      BY ClientAssumption
    <3> QED
      BY <3>1, <3>2
  <2>4. Owns(pcbs, call.ret, NULL, NULL, Kept, live)
    BY <1>1, <2>2, OwnsSwap
  <2>5. Owns(pcbs', NULL, NULL, NULL, Kept', live)
    BY <2>1, <2>3, <2>4, OwnsKept
  <2> QED
    BY <1>1, <1>3, <2>1, <2>3, <2>5, <2>6, JobEnds DEF BootInv
<1>11. CASE NoStack
  <2>1. Returned("stack") /\ call.ret = NULL /\ EndJob /\ UNCHANGED <<pcbs, boot, lost>>
    BY <1>11 DEF NoStack
  <2>2. HandGiven = NULL /\ HandStack = NULL /\ HandTable = NULL
    BY <1>4, <2>1
  <2>3. Owns(pcbs', NULL, NULL, NULL, Kept', live)
    BY <1>1, <1>5, <2>1, <2>2
  <2> QED
    BY <1>1, <1>3, <2>1, <2>3, JobEnds DEF BootInv
<1>12. CASE AllocateTable
  <2>1. /\ Returned("stack") /\ call.ret # NULL /\ kmalloc(SignalTableBytes)
        /\ job' = [job EXCEPT !.step = "table", !.stack = call.ret]
        /\ UNCHANGED <<pcbs, boot, lost>>
    BY <1>12 DEF AllocateTable
  <2>2. /\ HandGiven = call.ret /\ HandStack = NULL /\ HandTable = NULL
        /\ call.ret \in Nat /\ job.table = NULL
    BY <1>4, <2>1
  <2>3. SignalTableBytes \in Requests
    BY DEF Requests
  <2>4. /\ job' \in [step : {"boot", "stack", "table"}, stack : Nat, table : {NULL}]
        /\ job'.step = "table" /\ job'.stack = call.ret
    BY <1>3, <2>1, <2>2
  <2>5. Owns(pcbs, job'.stack, NULL, NULL, Kept, live)
    BY <1>1, <2>2, <2>4, OwnsSwap
  <2> QED
    BY <2>1, <2>3, <2>4, <2>5, JobAsks
<1>13. CASE NoTable
  <2>1. /\ Returned("table") /\ call.ret = NULL /\ lost' = lost \cup {job.stack} /\ EndJob
        /\ pcbs' = pcbs /\ boot' = boot
    BY <1>13 DEF NoTable
  <2>2. HandGiven = NULL /\ HandStack = job.stack /\ HandTable = NULL
    BY <1>4, <2>1
  <2>3. lost' \subseteq Nat /\ Kept \subseteq Kept' /\ job.stack \in Kept'
    BY <1>1, <1>3, <2>1 DEF Kept
  <2>4. Owns(pcbs, job.stack, NULL, NULL, Kept, live)
    BY <1>1, <2>2
  <2>5. Owns(pcbs', NULL, NULL, NULL, Kept', live)
    BY <2>1, <2>3, <2>4, OwnsKept
  <2> QED
    BY <1>1, <1>3, <2>1, <2>3, <2>5, JobEnds DEF BootInv
<1>14. CASE CreateUndone
  <2>1. /\ Returned("table") /\ call.ret # NULL /\ kfree(job.stack)
        /\ job' = [step |-> "free_stack", stack |-> job.stack, table |-> call.ret]
        /\ UNCHANGED <<pcbs, boot, lost>>
    BY <1>14 DEF CreateUndone, StartFree
  <2>2. /\ HandGiven = call.ret /\ HandStack = job.stack /\ HandTable = NULL
        /\ call.ret \in Nat /\ job.stack # NULL
    BY <1>4, <2>1
  <2>3. /\ job' \in [step : {"free_stack", "free_table"}, stack : Nat, table : Nat]
        /\ job'.step = "free_stack" /\ job'.stack = job.stack /\ job'.table = call.ret
    BY <1>3, <2>1, <2>2
  <2>4. Owns(pcbs, job.stack, call.ret, NULL, Kept, live)
    BY <1>1, <2>2, OwnsSwap
  <2>5. Owns(pcbs', job'.stack, job'.table, NULL, Kept, live)
    BY <2>1, <2>3, <2>4
  <2> QED
    BY <1>3, <2>1, <2>2, <2>3, <2>5, JobGivesBack
<1>15. CASE CreateDone
  <2>1. Returned("table") /\ call.ret # NULL /\ EndJob /\ boot' = boot /\ lost' = lost
    BY <1>15 DEF CreateDone
  <2>2. PICK s \in Slots :
          /\ pcbs[s] = NoPcb
          /\ pcbs' = [pcbs EXCEPT ![s] = [stack_start |-> job.stack, signal_table |-> call.ret]]
    BY <1>15 DEF CreateDone, FreeSlots
  <2>3. /\ HandGiven = call.ret /\ HandStack = job.stack /\ HandTable = NULL
        /\ call.ret \in Nat /\ job.stack # NULL /\ job.stack \in Nat
    BY <1>3, <1>4, <2>1
  <2>4. PICK r : r = [stack_start |-> job.stack, signal_table |-> call.ret]
    OBVIOUS
  <2>5. r \in [stack_start : Nat, signal_table : Nat] /\ \A k \in Fields : r[k] # NULL
    BY <2>1, <2>3, <2>4 DEF Fields
  <2>6. /\ pcbs' \in PcbTable
        /\ \A t \in Slots : pcbs'[t] = NoPcb \/ \A k \in Fields : pcbs'[t][k] # NULL
    BY <1>3, <2>2, <2>4, <2>5 DEF PcbTable
  <2>7. Owns(pcbs, job.stack, NULL, call.ret, Kept, live)
    BY <1>1, <2>3
  <2>8. Owns(pcbs', NULL, NULL, NULL, Kept, live)
    BY <1>3, <2>1, <2>2, <2>3, <2>7, OwnsCreated
  <2>9. Owns(pcbs', NULL, NULL, NULL, Kept', live)
    BY <1>5, <2>1, <2>8
  <2> QED
    BY <1>1, <2>1, <2>6, <2>9, JobEnds DEF BootInv
<1>16. CASE FreeTable
  <2>1. /\ Returned("free_stack") /\ kfree(job.table)
        /\ job' = [job EXCEPT !.step = "free_table", !.stack = NULL]
        /\ UNCHANGED <<pcbs, boot, lost>>
    BY <1>16 DEF FreeTable
  <2>2. /\ call.op = "return" /\ job.step = "free_stack" /\ job.table # NULL /\ job.table \in Nat
    BY <1>1, <1>3, <2>1 DEF Returned, JobInv
  <2>3. HandGiven = NULL /\ HandStack = NULL /\ HandTable = job.table
    BY <2>2 DEF HandStack, HandTable, HandGiven
  <2>4. /\ job' \in [step : {"free_stack", "free_table"}, stack : Nat, table : Nat]
        /\ job'.step = "free_table" /\ job'.stack = NULL /\ job'.table = job.table
    BY <1>2, <1>3, <2>1
  <2>5. Owns(pcbs', job'.stack, job'.table, NULL, Kept, live)
    BY <1>1, <2>1, <2>3, <2>4
  <2> QED
    BY <1>3, <2>1, <2>2, <2>4, <2>5, JobGivesBack
<1>17. CASE TableFreed
  <2>1. Returned("free_table") /\ EndJob /\ UNCHANGED <<pcbs, boot, lost>>
    BY <1>17 DEF TableFreed
  <2>2. HandGiven = NULL /\ HandStack = NULL /\ HandTable = NULL
    BY <1>1, <2>1 DEF Returned, JobInv, HandStack, HandTable, HandGiven
  <2>3. Owns(pcbs', NULL, NULL, NULL, Kept', live)
    BY <1>1, <1>5, <2>1, <2>2
  <2> QED
    BY <1>1, <1>3, <2>1, <2>3, JobEnds DEF BootInv
<1>18. CASE UNCHANGED vars
  <2>1. /\ free_list' = free_list /\ hdr' = hdr /\ call' = call /\ live' = live
        /\ job' = job /\ pcbs' = pcbs /\ boot' = boot /\ lost' = lost
    BY <1>18 DEF vars
  <2> QED
    BY <2>1 DEF IInv, CallInv, Searching, Placing, NeedInv, JobInv, PcbsInv, BootInv, HandStack,
                HandTable, HandGiven, Kept
<1> QED
  BY <1>6, <1>7, <1>8, <1>9, <1>10, <1>11, <1>12, <1>13, <1>14, <1>15, <1>16, <1>17, <1>18
     DEF Next, Continue

\* The invariant always holds.
LEMMA IInvAlways == Spec => []IInv
BY InitIInv, NextIInv, PTL DEF Spec

-----------------------------------------------------------------------------
(***************************************************************************)
(* What follows from it.                                                   *)
(***************************************************************************)

\* The free blocks.
LEMMA FreeBlocks == Free = Blocks(hdr) \ live
BY DEF Free, Blocks, IsHeader

\* All variables have their types.
LEMMA TypesRight ==
  ASSUME IInv
  PROVE  TypeOK
<1>1. Heap(free_list, hdr, live) /\ CallInv /\ JobInv /\ PcbsInv
      /\ boot \in Seq(Nat) /\ lost \subseteq Nat
  BY DEF IInv, BootInv
<1>2. free_list \in Addrs \cup {NULL}
  <2>1. Blocks(hdr) \ live \in SUBSET Addrs /\ First(free_list, Blocks(hdr) \ live)
    BY <1>1 DEF Heap, Loose, Chain, Blocks
  <2> QED
    BY <2>1, FirstProperties
<1>3. hdr \in [Addrs -> Headers] /\ live \subseteq Addrs
  BY <1>1 DEF Heap, Loose, HeaderMaps, Blocks
<1>4. call \in    [op : {"idle", "return"}, ret : Nat]
             \cup [op : {"kmalloc"}, need : Nat, curr : Addrs \cup {NULL}]
             \cup [op : {"kfree"}, node : Addrs, prev : Addrs \cup {NULL}, next : Addrs \cup {NULL}]
  BY <1>1 DEF CallInv, Searching, Placing, Links
<1>5. job.step \in {"none", "boot", "stack", "table", "free_stack", "free_table"}
  BY <1>1 DEF JobInv, Steps
<1>6. pcbs \in [Slots -> [stack_start : Nat, signal_table : Nat]]
  BY <1>1 DEF PcbsInv, PcbTable
<1> QED
  BY <1>1, <1>2, <1>3, <1>4, <1>5, <1>6 DEF TypeOK

\* The blocks tile the memory.
LEMMA TiledRight ==
  ASSUME Tiling(hdr)
  PROVE  Tiled
<1>1. IsHeader(memstart) /\ IsHeader(HOLEEND)
  BY DEF Tiling, Blocks, IsHeader
<1>2. ASSUME NEW a \in Addrs, IsHeader(a), NEW end, end = a + hdr[a].size
      PROVE  /\ \/ end \in Addrs /\ IsHeader(end) /\ (a < HOLESTART => end < HOLESTART)
                \/ end = IF a < HOLESTART THEN HOLESTART ELSE memend
             /\ \A b \in Addrs : a < b /\ b < end => ~ IsHeader(b)
  <2>1. a \in Blocks(hdr) /\ FitsIn(hdr, a) /\ end = End(hdr, a)
    BY <1>2 DEF Tiling, Blocks, IsHeader, End
  <2>2. end \in Int /\ a \in Int
    BY <2>1, BlockProperties
  <2>3. \/ end \in Addrs /\ IsHeader(end) /\ (a < HOLESTART => end < HOLESTART)
        \/ end = IF a < HOLESTART THEN HOLESTART ELSE memend
    BY <2>1 DEF FitsIn, Limit, Blocks, IsHeader
  <2>4. ASSUME NEW b \in Addrs, a < b, b < end PROVE ~ IsHeader(b)
    <3>1. b \in Int
      BY AddrsNumbers
    <3>2. b \in Blocks(hdr) => b <= a \/ end <= b
      BY <2>1 DEF FitsIn
    <3> QED
      BY <2>2, <2>4, <3>1, <3>2 DEF Blocks, IsHeader
  <2> QED
    BY <2>3, <2>4
<1> QED
  BY <1>1, <1>2 DEF Tiled

\* The list links the free blocks.
LEMMA LinkedRight ==
  ASSUME Chain(free_list, hdr, Free)
  PROVE  WellLinked
BY DEF WellLinked, Chain, First, Above

\* The heap is whole between any two steps, for every layout of the memory, every number of
\* processes and all sizes of stacks: the blocks tile both regions, the list links the free
\* ones in the order of their addresses and both ways, and no two neighbours are free.
\* (kmalloc, kfree, coalesce_blocks)
THEOREM HeapWhole == Spec => []HeapInv
<1>1. ASSUME IInv PROVE HeapInv
  <2>1. Heap(free_list, hdr, live)
    BY <1>1 DEF IInv
  <2>2. TypeOK
    BY <1>1, TypesRight
  <2>3. Tiled
    BY <2>1, TiledRight DEF Heap, Loose
  <2>4. WellLinked
    BY <2>1, LinkedRight, FreeBlocks DEF Heap, Loose
  <2>5. Coalesced
    <3>1. \A a \in Blocks(hdr) \ live : End(hdr, a) \notin Blocks(hdr) \ live
      BY <2>1 DEF Heap, Loose
    <3> QED
      BY <3>1, FreeBlocks DEF Coalesced, End
  <2> QED
    BY <2>2, <2>3, <2>4, <2>5 DEF HeapInv
<1> QED
  BY <1>1, IInvAlways, PTL

\* For processes that are created and end in every order: a block that is held has a holder,
\* but for the stack of a create() that found no memory for the signal table, and every
\* kfree() of the kernel succeeds.  (create, cleanup_pcb)
THEOREM NothingElseLost == Spec => []BlocksReturned
<1>1. ASSUME IInv PROVE NoOtherLeak
  <2>1. /\ JobInv /\ live \in SUBSET Addrs
        /\ Owns(pcbs, HandStack, HandTable, HandGiven, Kept, live)
    BY <1>1 DEF IInv, Heap, Loose, Blocks
  <2>2. PICK inHand, owned :
          /\ inHand = IF call.op = "return" /\ job.step \in {"boot", "stack", "table"}
                      THEN {call.ret, job.stack} ELSE {job.stack, job.table}
          /\ owned = UNION {{pcbs[s].stack_start, pcbs[s].signal_table} : s \in Slots}
    OBVIOUS
  <2>3. \A v \in {HandStack, HandTable, HandGiven} : v # NULL => v \in inHand
    <3>1. job.step \in {"boot", "stack", "table"} => job.table = NULL
      BY <2>1 DEF JobInv
    <3> QED
      BY <2>2, <3>1 DEF HandStack, HandTable, HandGiven
  <2>4. \A s \in Slots : \A k \in Fields : pcbs[s][k] \in owned
    BY <2>2 DEF Fields
  <2>5. ASSUME NEW a \in live
        PROVE  a + HEADER \in owned \cup inHand \cup {boot[i] : i \in 1..Len(boot)} \cup lost
    <3>1. a + HEADER # NULL
      BY <2>1, PointersProperties
    <3>2. \/ \E s \in Slots : \E k \in Fields : pcbs[s][k] = a + HEADER
          \/ a + HEADER \in {HandStack, HandTable, HandGiven}
          \/ a + HEADER \in Kept
      BY <2>1 DEF Owns
    <3> QED
      BY <2>3, <2>4, <3>1, <3>2 DEF Kept
  <2>6. {a + HEADER : a \in live}
          \subseteq owned \cup inHand \cup {boot[i] : i \in 1..Len(boot)} \cup lost
    BY <2>5
  <2> QED
    BY <2>2, <2>6 DEF NoOtherLeak
<1>2. ASSUME IInv PROVE FreesSucceed
  BY <1>2 DEF IInv, JobInv, FreesSucceed, Returned
<1>3. IInv => BlocksReturned
  BY <1>1, <1>2 DEF BlocksReturned
<1> QED
  BY <1>3, IInvAlways, PTL

\* verify_sysptr() accepts every part of every block that is held, wherever the hole is and
\* however long the kernel's stack is.  (verify_sysptr)
THEOREM BlocksAccepted == Spec => []BlocksAreValid
<1>1. ASSUME IInv PROVE BlocksAreValid
  <2>1. SUFFICES ASSUME NEW a \in live, NEW p \in (a + HEADER)..(a + hdr[a].size - 1),
                        NEW len \in 1..(a + hdr[a].size - p)
                 PROVE  verify_sysptr(p, len)
    BY DEF BlocksAreValid
  <2>2. a \in Blocks(hdr) /\ Tiling(hdr)
    BY <1>1 DEF IInv, Heap, Loose
  <2>3. PICK end : end = a + hdr[a].size
    OBVIOUS
  <2>4. /\ a \in Addrs /\ a \in Int /\ end \in Int /\ end <= Limit(a) /\ hdr[a].size \in Nat
    BY <2>2, <2>3, BlockProperties DEF End
  <2>5. /\ memstart <= a /\ (a < HOLESTART \/ a >= HOLEEND) /\ Limit(a) \in Int
        /\ (a < HOLESTART => Limit(a) <= HOLESTART) /\ Limit(a) <= memend
    BY <2>4, AddrsProperties, LimitProperties
  <2>6. /\ {memend, HOLESTART, HOLEEND, HEADER, maxaddr, freemem, memstart} \subseteq Nat
        /\ 0 < freemem /\ freemem <= memstart /\ memend <= maxaddr /\ 0 < HEADER
        /\ HOLESTART < HOLEEND
    BY Layout
  <2>7. PICK q : q = p + len - 1
    OBVIOUS
  <2>8. p \in Int /\ len \in Int /\ a < p /\ p <= q /\ q < end /\ q \in Int
    BY <2>3, <2>4, <2>6, <2>7
  <2>9. /\ p > 0 /\ q <= maxaddr /\ ~(p < freemem)
        /\ ~(p >= HOLESTART /\ p < HOLEEND) /\ ~(q >= HOLESTART /\ q < HOLEEND)
    BY <2>4, <2>5, <2>6, <2>8
  <2> QED
    BY <2>7, <2>9 DEF verify_sysptr
<1> QED
  BY <1>1, IInvAlways, PTL

-----------------------------------------------------------------------------
(***************************************************************************)
(* The memory manager implements an allocator without a free list.         *)
(***************************************************************************)

\* The managed memory, and which block an address in it belongs to.
LEMMA MemoryProperties ==
  ASSUME NEW h, Tiling(h), NEW x \in AllMemory
  PROVE  \E c \in Blocks(h) : c <= x /\ x < End(h, c)
<1>1. /\ {memstart, memend, HOLESTART, HOLEEND} \subseteq Nat /\ x \in Int
      /\ memstart <= x /\ x < memend /\ (x < HOLESTART \/ x >= HOLEEND)
      /\ HOLESTART < HOLEEND
  BY Layout DEF AllMemory
<1>2. PICK S : S = {c \in Blocks(h) : c <= x}
  OBVIOUS
<1>3. memstart \in S
  BY <1>1, <1>2 DEF Tiling
<1>4. S \in SUBSET (0..memend) /\ memend \in Nat /\ S # {}
  <2>1. \A c \in S : c \in 0..memend
    BY <1>2, AddrsNumbers DEF Blocks
  <2> QED
    BY <1>1, <1>3, <2>1
<1>5. PICK c \in S : \A b \in S : b <= c
  BY <1>4, Greatest
<1>6. /\ c \in Blocks(h) /\ c <= x /\ c \in Int /\ c \in Addrs
      /\ End(h, c) \in Int /\ c < End(h, c) /\ FitsIn(h, c)
  BY <1>2, BlockProperties DEF Tiling
<1>7. x < End(h, c)
  <2>1. SUFFICES ASSUME End(h, c) <= x PROVE FALSE
    BY <1>1, <1>6
  <2>2. CASE End(h, c) \in Blocks(h)
    <3>1. End(h, c) \in S
      BY <1>2, <2>1, <2>2
    <3> QED
      BY <1>5, <1>6, <3>1
  <2>3. CASE End(h, c) = Limit(c)
    <3>1. CASE c < HOLESTART
      <4>1. HOLESTART <= x
        BY <2>1, <2>3, <3>1 DEF Limit
      <4>2. HOLEEND \in S
        BY <1>1, <1>2, <4>1 DEF Tiling
      <4>3. HOLEEND <= c
        BY <1>5, <4>2
      <4> QED
        BY <1>1, <1>6, <3>1, <4>3
    <3>2. CASE ~(c < HOLESTART)
      BY <1>1, <2>1, <2>3, <3>2 DEF Limit
    <3> QED
      BY <3>1, <3>2
  <2> QED
    BY <1>6, <2>2, <2>3 DEF FitsIn
<1> QED
  BY <1>6, <1>7

\* A block that no block in L overlaps fits into one that is free.
LEMMA FitsFree ==
  ASSUME NEW first, NEW h, NEW L, Heap(first, h, L), NEW x \in AllMemory, NEW n \in Nat, n > 0,
         x..(x + n - 1) \subseteq AllMemory,
         \A a \in L : \A y \in a..(a + h[a].size - 1) : y \notin x..(x + n - 1)
  PROVE  \E c \in Blocks(h) \ L : n <= h[c].size
<1>1. /\ Tiling(h) /\ L \subseteq Blocks(h)
      /\ \A a \in Blocks(h) \ L : End(h, a) \notin Blocks(h) \ L
  BY DEF Heap, Loose
<1>2. PICK c \in Blocks(h) : c <= x /\ x < End(h, c)
  BY <1>1, MemoryProperties
<1>3. /\ c \in Addrs /\ c \in Int /\ h[c].size \in Nat /\ End(h, c) \in Int /\ FitsIn(h, c)
      /\ End(h, c) = c + h[c].size
  BY <1>1, BlockProperties DEF Tiling, End
<1>4. x \in Int /\ \A y \in AllMemory : y # HOLESTART /\ y # memend
  BY Layout DEF AllMemory
<1>5. c \notin L
  <2>1. x \in x..(x + n - 1)
    BY <1>4
  <2>2. x \in c..(c + h[c].size - 1)
    BY <1>2, <1>3, <1>4
  <2> QED
    BY <2>1, <2>2
<1>6. x + n <= End(h, c)
  <2>1. SUFFICES ASSUME End(h, c) < x + n PROVE FALSE
    BY <1>3, <1>4
  <2>2. PICK e : e = End(h, c)
    OBVIOUS
  <2>3. e \in x..(x + n - 1)
    BY <1>2, <1>3, <1>4, <2>1, <2>2
  <2>4. e # Limit(c)
    BY <1>4, <2>3 DEF Limit
  <2>5. e \in Blocks(h)
    BY <1>3, <2>2, <2>4 DEF FitsIn
  <2>6. e \in L
    BY <1>1, <1>5, <2>2, <2>5
  <2>7. e \in Int /\ h[e].size \in Nat /\ h[e].size > 0
    BY <1>1, <2>5, BlockProperties
  <2>8. e \in e..(e + h[e].size - 1)
    BY <2>7
  <2> QED
    BY <2>3, <2>6, <2>8
<1>7. n <= h[c].size
  BY <1>2, <1>3, <1>4, <1>6
<1> QED
  BY <1>5, <1>7

\* The bytes of a block are managed memory.
LEMMA BlockMemory ==
  ASSUME NEW h, Tiling(h), NEW a \in Blocks(h), NEW n \in Nat, n <= h[a].size
  PROVE  /\ a \in AllMemory /\ a..(a + n - 1) \subseteq AllMemory
         /\ \A b \in Blocks(h) \ {a} : \A y \in b..(b + h[b].size - 1) : y \notin a..(a + n - 1)
<1>1. /\ a \in Addrs /\ a \in Int /\ h[a].size \in Nat /\ h[a].size > 0 /\ End(h, a) <= Limit(a)
      /\ End(h, a) = a + h[a].size
      /\ \A b \in Blocks(h) : b <= a \/ End(h, a) <= b
  BY BlockProperties DEF End
<1>2. /\ memstart <= a /\ (a < HOLESTART \/ a >= HOLEEND) /\ Limit(a) \in Int
      /\ (a < HOLESTART => Limit(a) <= HOLESTART) /\ Limit(a) <= memend
  BY <1>1, AddrsProperties, LimitProperties
<1>3. {memend, HOLESTART, HOLEEND, memstart} \subseteq Nat /\ HOLESTART < HOLEEND
  BY Layout
<1>4. ASSUME NEW y \in Int, a <= y, y < a + h[a].size PROVE y \in AllMemory
  BY <1>1, <1>2, <1>3, <1>4 DEF AllMemory
<1>5. a \in AllMemory
  BY <1>1, <1>4
<1>6. \A y \in a..(a + n - 1) : y \in Int /\ a <= y /\ y < a + h[a].size
  BY <1>1
<1>7. ASSUME NEW b \in Blocks(h) \ {a}, NEW y \in b..(b + h[b].size - 1), y \in a..(a + n - 1)
      PROVE  FALSE
  <2>1. /\ b \in Int /\ h[b].size \in Nat /\ End(h, b) = b + h[b].size
        /\ (a <= b \/ End(h, b) <= a)
    BY BlockProperties DEF End
  <2>2. b <= a \/ End(h, a) <= b
    BY <1>1
  <2> QED
    BY <1>1, <1>6, <1>7, <2>1, <2>2
<1> QED
  BY <1>4, <1>5, <1>6, <1>7

\* No block is given out or given back, and none is being looked for.
Quiet ==
  /\ call.op # "kmalloc" /\ call'.op # "kmalloc"
  /\ UNCHANGED <<hdr, live>>

\* A search for a block starts.
Asks ==
  /\ call.op # "kmalloc" /\ call'.op = "kmalloc"
  /\ UNCHANGED <<hdr, live>>

\* What a step does to the memory.
LEMMA StepCases ==
  ASSUME IInv, Next
  PROVE  Quiet \/ Asks \/ Goes \/ (\E a \in Addrs : Takes(a)) \/ Fails \/ Frees
<1>1. ASSUME EndJob, call.op = "return" PROVE Quiet
  BY <1>1 DEF EndJob, Quiet, Idle
<1>2. ASSUME NEW size, kmalloc(size) PROVE Quiet \/ Asks
  BY <1>2 DEF kmalloc, Quiet, Asks, Returns
<1>3. ASSUME NEW ptr, kfree(ptr) PROVE Quiet
  BY <1>3 DEF kfree, Quiet, Returns
<1>4. CASE Run
  BY <1>4, RunHeap DEF IInv
<1>5. CASE BootAllocated \/ NoStack \/ NoTable \/ CreateDone \/ TableFreed
  BY <1>1, <1>5 DEF BootAllocated, NoStack, NoTable, CreateDone, TableFreed, Returned
<1>6. CASE BootAllocate \/ AllocateTable
  BY <1>2, <1>6 DEF BootAllocate, AllocateTable
<1>7. ASSUME NEW stack \in StackSizes, Create(stack) PROVE Quiet \/ Asks
  BY <1>2, <1>7 DEF Create
<1>8. CASE CreateUndone \/ FreeTable
  BY <1>3, <1>8 DEF CreateUndone, StartFree, FreeTable
<1>9. ASSUME NEW s \in Slots, Cleanup(s) PROVE Quiet
  BY <1>3, <1>9 DEF Cleanup, StartFree
<1> QED
  BY <1>4, <1>5, <1>6, <1>7, <1>8, <1>9 DEF Next, Continue

\* kmalloc() returns a block that no other overlaps.
LEMMA TakesGrants ==
  ASSUME IInv, NEW a \in Addrs, Takes(a)
  PROVE  Abstract!Grant
<1>1. Heap(free_list, hdr, live) /\ Searching /\ NeedInv
  BY CallCases DEF IInv, Takes
<1>2. /\ call.op = "kmalloc" /\ call'.op = "return" /\ a \in Blocks(hdr) \ live
      /\ live' = live \cup {a} /\ call.need <= hdr[a].size
      /\ hdr'[a].size = call.need /\ \A b \in live : hdr'[b].size = hdr[b].size
  BY DEF Takes, Returns
<1>3. PICK n, blk : n = call.need /\ blk = [at |-> a, size |-> n]
  OBVIOUS
<1>4. n \in Nat /\ n > 0 /\ n \in BlockSizes /\ Need = n /\ Need' = 0
  BY <1>1, <1>2, <1>3 DEF Searching, NeedInv, Need
<1>5. HeldBlocks' = HeldBlocks \cup {blk}
  BY <1>2, <1>3 DEF HeldBlocks
<1>6. Tiling(hdr) /\ live \subseteq Blocks(hdr)
  BY <1>1 DEF Heap, Loose
<1>7. /\ a \in AllMemory /\ a..(a + n - 1) \subseteq AllMemory
      /\ \A b \in Blocks(hdr) \ {a} : \A y \in b..(b + hdr[b].size - 1) : y \notin a..(a + n - 1)
  BY <1>2, <1>3, <1>4, <1>6, BlockMemory
<1>8. ASSUME NEW c \in HeldBlocks PROVE (a..(a + n - 1)) \cap (c.at..(c.at + c.size - 1)) = {}
  <2>1. PICK b \in live : c = [at |-> b, size |-> hdr[b].size]
    BY DEF HeldBlocks
  <2>2. b \in Blocks(hdr) \ {a}
    BY <1>2, <1>6
  <2> QED
    BY <1>7, <2>1, <2>2
<1>9. blk \in Abstract!Blocks /\ blk.size = n /\ blk.at = a
  BY <1>3, <1>4, <1>7 DEF Abstract!Blocks
<1>10. Abstract!Fits(blk)
  BY <1>7, <1>8, <1>9 DEF Abstract!Fits, Abstract!Bytes
<1> QED
  BY <1>4, <1>5, <1>9, <1>10 DEF Abstract!Grant

\* kmalloc() returns NULL only if no block fits.
LEMMA FailsRefuses ==
  ASSUME IInv, Fails
  PROVE  Abstract!Refuse
<1>1. Heap(free_list, hdr, live) /\ Searching
  BY CallCases DEF IInv, Fails
<1>2. /\ call.op = "kmalloc" /\ call'.op = "return" /\ hdr' = hdr /\ live' = live
      /\ \A b \in Blocks(hdr) \ live : hdr[b].size < call.need
  BY DEF Fails, Returns
<1>3. PICK n : n = call.need /\ n \in Nat /\ n > 0
  BY <1>1 DEF Searching
<1>4. Need = n /\ Need' = 0 /\ HeldBlocks' = HeldBlocks
  BY <1>2, <1>3 DEF Need, HeldBlocks
<1>5. ASSUME NEW blk \in Abstract!Blocks, blk.size = n, Abstract!Fits(blk) PROVE FALSE
  <2>1. PICK x : x = blk.at
    OBVIOUS
  <2>2. x \in AllMemory
    BY <2>1 DEF Abstract!Blocks
  <2>3. x..(x + n - 1) \subseteq AllMemory
    BY <1>5, <2>1 DEF Abstract!Fits, Abstract!Bytes
  <2>4. ASSUME NEW a \in live, NEW y \in a..(a + hdr[a].size - 1) PROVE y \notin x..(x + n - 1)
    <3>1. PICK c : c = [at |-> a, size |-> hdr[a].size]
      OBVIOUS
    <3>2. c \in HeldBlocks /\ c.at = a /\ c.size = hdr[a].size
      BY <3>1 DEF HeldBlocks
    <3> QED
      BY <1>5, <2>1, <3>2 DEF Abstract!Fits, Abstract!Bytes
  <2>5. PICK c \in Blocks(hdr) \ live : n <= hdr[c].size
    BY <1>1, <1>3, <2>2, <2>3, <2>4, FitsFree
  <2>6. hdr[c].size \in Nat
    BY <1>1 DEF Heap, Loose, Tiling, Blocks
  <2> QED
    BY <1>2, <1>3, <2>5, <2>6
<1> QED
  BY <1>3, <1>4, <1>5 DEF Abstract!Refuse

\* kfree() gives one block back.
LEMMA FreesReleases ==
  ASSUME IInv, Frees
  PROVE  Abstract!Release
<1>1. PICK a : a = call.node
  OBVIOUS
<1>2. /\ call.op = "kfree" /\ call'.op = "return" /\ a \in live /\ live' = live \ {a}
      /\ \A b \in live' : hdr'[b].size = hdr[b].size
  BY <1>1 DEF Frees, Returns
<1>3. Need = 0 /\ Need' = 0
  BY <1>2 DEF Need
<1>4. PICK blk : blk = [at |-> a, size |-> hdr[a].size]
  OBVIOUS
<1>5. blk \in HeldBlocks
  BY <1>2, <1>4 DEF HeldBlocks
<1>6. ASSUME NEW b \in live PROVE [at |-> b, size |-> hdr[b].size] = blk <=> b = a
  BY <1>4
<1>7. HeldBlocks' = HeldBlocks \ {blk}
  BY <1>2, <1>6 DEF HeldBlocks
<1> QED
  BY <1>3, <1>5, <1>7 DEF Abstract!Release

\* The memory manager implements the allocator: blocks are disjoint and lie in the managed
\* memory, kmalloc() fails only when no gap is large enough, and kfree() takes back just the
\* block that it is given.  (kmalloc, kfree)
THEOREM Implements == Spec => ImplementsAllocator
<1>1. Init => Abstract!Init
  BY DEF Init, kmeminit, Idle, Abstract!Init, HeldBlocks, Need
<1>2. ASSUME IInv, IInv', [Next]_vars PROVE [Abstract!Next]_<<HeldBlocks, Need>>
  <2>1. CASE UNCHANGED vars
    BY <2>1 DEF vars, HeldBlocks, Need
  <2>2. CASE Quiet
    BY <2>2 DEF Quiet, HeldBlocks, Need
  <2>3. CASE Goes
    BY <2>3 DEF Goes, HeldBlocks, Need
  <2>4. CASE Asks
    <3>1. Need = 0 /\ Need' = call'.need /\ HeldBlocks' = HeldBlocks
      BY <2>4 DEF Asks, HeldBlocks, Need
    <3>2. call'.need \in BlockSizes
      BY <1>2, <2>4 DEF IInv, NeedInv, Asks
    <3> QED
      BY <3>1, <3>2 DEF Abstract!Next, Abstract!Ask
  <2>5. CASE \E a \in Addrs : Takes(a)
    BY <1>2, <2>5, TakesGrants DEF Abstract!Next
  <2>6. CASE Fails
    BY <1>2, <2>6, FailsRefuses DEF Abstract!Next
  <2>7. CASE Frees
    BY <1>2, <2>7, FreesReleases DEF Abstract!Next
  <2> QED
    BY <1>2, <2>1, <2>2, <2>3, <2>4, <2>5, <2>6, <2>7, StepCases
<1>3. IInv /\ IInv' /\ [Next]_vars => [Abstract!Next]_<<HeldBlocks, Need>>
  BY <1>2
<1> QED
  BY <1>1, <1>3, IInvAlways, PTL DEF Spec, ImplementsAllocator, Abstract!Spec
=============================================================================
