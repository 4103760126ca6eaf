----------------------------- MODULE ShellProofs -----------------------------
(***************************************************************************)
(* Theorems about the login, the shell and its commands, for any number of *)
(* processes and any lines that fit their buffers: sessions follow one     *)
(* another, the keyboard's descriptors are counted and nobody signals a    *)
(* reader, passwords are hidden and commands echoed, each command finds    *)
(* its own argument, and lines are taken apart into words.                 *)
(***************************************************************************)
EXTENDS Shell, NumberProofs, FiniteSetTheorems, SequenceTheorems

-----------------------------------------------------------------------------
(***************************************************************************)
(* Numbers.                                                                *)
(***************************************************************************)

\* Every set of natural numbers that is not empty has a first one.
LEMMA FirstProperties ==
  ASSUME NEW S \in SUBSET Nat, S # {}
  PROVE  First(S) \in S /\ \A b \in S : First(S) <= b
BY Least DEF First

-----------------------------------------------------------------------------
(***************************************************************************)
(* Texts.                                                                  *)
(***************************************************************************)

\* A text that leaves room for a NUL in a buffer.
Fits(text) == text \in Seq(Nat) /\ Len(text) < LineSize

\* A buffer is full of characters and ends with a NUL.
LEMMA BufferEnds ==
  ASSUME NEW text, Fits(text)
  PROVE  /\ LineSize \in Nat /\ LineSize >= 1 /\ Len(Buffer(text)) = LineSize
         /\ \A i \in 1..LineSize : Buffer(text)[i] \in Nat
         /\ Buffer(text)[LineSize] = NUL
<1>1. LineSize \in Nat /\ Len(text) \in Nat /\ Len(text) < LineSize
      /\ \A i \in 1..Len(text) : text[i] \in Nat
  BY ShellAssumption, LenProperties DEF Fits
<1>2. PICK b : b = Buffer(text)
  OBVIOUS
<1>3. b = [i \in 1..LineSize |-> IF i <= Len(text) THEN text[i] ELSE NUL]
  BY <1>2 DEF Buffer
<1>4. \A i \in 1..LineSize : b[i] \in Nat
  BY <1>1, <1>3 DEF NUL
<1>5. b \in Seq(Nat) /\ Len(b) = LineSize
  BY <1>1, <1>3, <1>4
<1>6. b[LineSize] = NUL
  BY <1>1, <1>3
<1> QED
  BY <1>1, <1>2, <1>4, <1>5, <1>6

\* The number that atoi() finds in a buffer is a number: the loops of atoi() end at the NUL
\* at the latest.
LEMMA AtoiType ==
  ASSUME NEW text, Fits(text)
  PROVE  atoi(Buffer(text)) \in Int
<1>1. PICK s : s = Buffer(text)
  OBVIOUS
<1>2. PICK l \in Nat : l = LineSize
  BY BufferEnds
<1>3. l >= 1 /\ Len(s) = l /\ s[l] = 0 /\ \A i \in 1..l : s[i] \in Nat
  BY <1>1, <1>2, BufferEnds DEF NUL
<1>4. PICK p : p = First({k \in 1..Len(s) : s[k] \notin {BLANK, TAB}})
  OBVIOUS
<1>5. p \in 1..l
  <2>1. PICK S : S = {k \in 1..Len(s) : s[k] \notin {BLANK, TAB}}
    OBVIOUS
  <2>2. S \in SUBSET Nat /\ l \in S /\ S \subseteq 1..l
    BY <1>3, <2>1 DEF BLANK, TAB
  <2> QED
    BY <1>4, <2>1, <2>2, FirstProperties
<1>6. PICK d : d = IF s[p] \in {MINUS, PLUS} THEN p + 1 ELSE p
  OBVIOUS
<1>7. d \in 1..l
  <2>1. s[p] \in {MINUS, PLUS} => p # l
    BY <1>3 DEF MINUS, PLUS
  <2> QED
    BY <1>5, <1>6, <2>1
<1>8. PICK e : e = First({k \in d..Len(s) : s[k] < ZERO \/ s[k] > ZERO + 9})
  OBVIOUS
<1>9. e \in d..l
  <2>1. PICK S : S = {k \in d..Len(s) : s[k] < ZERO \/ s[k] > ZERO + 9}
    OBVIOUS
  <2>2. S \in SUBSET Nat /\ l \in S /\ S \subseteq d..l
    BY <1>3, <1>7, <2>1 DEF ZERO
  <2> QED
    BY <1>8, <2>1, <2>2, FirstProperties
<1> DEFINE Def(f) == [k \in (d - 1)..(e - 1) |-> IF k = d - 1 THEN 0 ELSE f[k - 1] * 10 + s[k] - ZERO]
           n == CHOOSE f : f = Def(f)
<1>10. \E f \in [(d - 1)..(e - 1) -> Int] : f = Def(f)
  <2>1. d - 1 \in Nat /\ e - 1 \in Nat /\ d - 1 <= e - 1 /\ d \in Nat /\ e \in Nat
    BY <1>7, <1>9
  <2>2. PICK F : F = [x \in ((d - 1)..(e - 1)) \X Int |-> x[2] * 10 + (IF x[1] \in 1..l THEN s[x[1]] ELSE 0) - ZERO]
    OBVIOUS
  <2>3. F \in [((d - 1)..(e - 1)) \X Int -> Int]
    <3>1. ASSUME NEW x \in ((d - 1)..(e - 1)) \X Int
          PROVE  x[2] * 10 + (IF x[1] \in 1..l THEN s[x[1]] ELSE 0) - ZERO \in Int
      <4>1. x[2] \in Int /\ (IF x[1] \in 1..l THEN s[x[1]] ELSE 0) \in Int
        BY <1>3
      <4> QED
        BY <4>1 DEF ZERO
    <3> QED
      BY <2>2, <3>1
  <2>4. PICK f \in [(d - 1)..(e - 1) -> Int] :
          f[d - 1] = 0 /\ \A i \in ((d - 1) + 1)..(e - 1) : f[i] = F[<<i, f[i - 1]>>]
    <3>1. PICK a \in Nat, b \in Nat : a = d - 1 /\ b = e - 1
      BY <2>1
    <3>2. a <= b /\ F \in [(a..b) \X Int -> Int] /\ 0 \in Int
      BY <2>1, <2>3, <3>1
    <3>3. \E f : Recursive(f, a, b, Int, 0, F)
      BY <3>2, RecursionExists
    <3> QED
      BY <3>1, <3>3 DEF Recursive
  <2>5. ASSUME NEW k \in (d - 1)..(e - 1)
        PROVE  f[k] = IF k = d - 1 THEN 0 ELSE f[k - 1] * 10 + s[k] - ZERO
    <3>1. CASE k = d - 1
      BY <2>4, <3>1
    <3>2. CASE k # d - 1
      <4>1. k \in ((d - 1) + 1)..(e - 1) /\ k - 1 \in (d - 1)..(e - 1) /\ k \in 1..l
        BY <1>7, <1>9, <2>1, <3>2
      <4>2. <<k, f[k - 1]>> \in ((d - 1)..(e - 1)) \X Int
        BY <4>1
      <4>3. F[<<k, f[k - 1]>>] = f[k - 1] * 10 + s[k] - ZERO
        BY <2>2, <4>1, <4>2
      <4> QED
        BY <2>4, <3>2, <4>1, <4>3
    <3> QED
      BY <3>1, <3>2
  <2> QED
    BY <2>4, <2>5
<1>11. n = Def(n)
  <2> DEFINE Q(f) == f = Def(f)
  <2>1. \E f : Q(f)
    BY <1>10
  <2>2. n = CHOOSE f : Q(f)
    OBVIOUS
  <2> HIDE DEF Q, n
  <2>3. Q(n)
    BY <2>1, <2>2
  <2> QED
    BY <2>3 DEF Q
<1>12. atoi(s) = IF s[p] = MINUS THEN -n[e - 1] ELSE n[e - 1]
  BY <1>4, <1>6, <1>8 DEF atoi
<1> HIDE DEF n
<1>13. n[e - 1] \in Int
  <2>1. PICK P : P = {k \in (d - 1)..(e - 1) : n[k] \in Int}
    OBVIOUS
  <2>2. d - 1 \in Nat /\ e - 1 \in Nat /\ d - 1 \in (d - 1)..(e - 1) /\ e - 1 \in (d - 1)..(e - 1)
    BY <1>7, <1>9
  <2>3. \A k \in (d - 1)..(e - 1) : n[k] = IF k = d - 1 THEN 0 ELSE n[k - 1] * 10 + s[k] - ZERO
    BY <1>11
  <2>4. d - 1 \in P
    BY <2>1, <2>2, <2>3
  <2>5. ASSUME NEW k \in ((d - 1) + 1)..(e - 1), k - 1 \in P PROVE k \in P
    <3>1. k \in (d - 1)..(e - 1) /\ k # d - 1 /\ k \in 1..l
      BY <1>7, <1>9
    <3>2. n[k] = n[k - 1] * 10 + s[k] - ZERO
      BY <2>3, <3>1
    <3>3. n[k - 1] \in Int /\ s[k] \in Int
      BY <1>3, <2>1, <2>5, <3>1
    <3>4. n[k] \in Int
      BY <3>2, <3>3 DEF ZERO
    <3> QED
      BY <2>1, <3>1, <3>4
  <2>6. (d - 1)..(e - 1) \subseteq P
    BY <2>2, <2>4, <2>5, IntervalInduction
  <2> QED
    BY <2>1, <2>2, <2>6
<1> QED
  BY <1>1, <1>12, <1>13

\* Where a run of characters of S ends: before a character that is not in S, or at the end of
\* the text.
LEMMA PastProperties ==
  ASSUME NEW text \in Seq(Nat), NEW i \in 1..(Len(text) + 1), NEW S
  PROVE  /\ Past(text, i, S) \in i..(Len(text) + 1)
         /\ \A k \in i..(Past(text, i, S) - 1) : text[k] \in S
         /\ Past(text, i, S) = Len(text) + 1 \/ text[Past(text, i, S)] \notin S
<1>1. PICK l \in Nat : l = Len(text)
  BY LenProperties
<1>2. PICK stops, e : stops = {k \in i..(l + 1) : k = l + 1 \/ text[k] \notin S} /\ e = First(stops)
  OBVIOUS
<1>3. stops \in SUBSET Nat /\ l + 1 \in stops
  BY <1>1, <1>2
<1>4. e \in stops /\ \A b \in stops : e <= b
  BY <1>2, <1>3, FirstProperties
<1>5. Past(text, i, S) = e
  BY <1>1, <1>2 DEF Past
<1>6. ASSUME NEW k \in i..(e - 1) PROVE text[k] \in S
  <2>1. e \in Nat /\ e <= l + 1 /\ i \in Nat
    BY <1>1, <1>2, <1>4
  <2>2. k \in i..(l + 1) /\ ~(e <= k) /\ k # l + 1
    BY <1>1, <2>1
  <2>3. k \notin stops
    BY <1>4, <2>2
  <2> QED
    BY <1>2, <2>2, <2>3
<1> QED
  BY <1>1, <1>2, <1>4, <1>5, <1>6

\* A part of a text is a text.
LEMMA PartOfText ==
  ASSUME NEW text \in Seq(Nat), NEW a \in 1..(Len(text) + 1), NEW b \in 0..Len(text), a <= b + 1
  PROVE  /\ SubSeq(text, a, b) \in Seq(Nat)
         /\ Len(SubSeq(text, a, b)) = b - a + 1
         /\ \A i \in 1..(b - a + 1) : SubSeq(text, a, b)[i] = text[a + i - 1]
<1>1. Len(text) \in Nat /\ \A i \in 1..Len(text) : text[i] \in Nat
  BY LenProperties
<1>2. a \in Int /\ b \in Int /\ \A i \in a..b : text[i] \in Nat
  BY <1>1
<1>3. /\ SubSeq(text, a, b) \in Seq(Nat)
      /\ Len(SubSeq(text, a, b)) = IF a <= b THEN b - a + 1 ELSE 0
      /\ \A i \in 1..(b - a + 1) : SubSeq(text, a, b)[i] = text[a + i - 1]
  BY <1>2, SubSeqProperties
<1> QED
  BY <1>2, <1>3

\* The text before the newline is no longer than the whole.
LEMMA FilterType ==
  ASSUME NEW text \in Seq(Nat)
  PROVE  filter_newline(text) \in Seq(Nat) /\ Len(filter_newline(text)) <= Len(text)
<1>1. PICK l \in Nat : l = Len(text)
  BY LenProperties
<1>2. PICK ends : ends = {i \in 1..l : text[i] = EOL}
  OBVIOUS
<1>3. CASE ends = {}
  <2>1. filter_newline(text) = text
    BY <1>1, <1>2, <1>3 DEF filter_newline
  <2> QED
    BY <1>1, <2>1
<1>4. CASE ends # {}
  <2>1. PICK e : e = First(ends)
    OBVIOUS
  <2>2. e \in 1..l
    <3>1. ends \in SUBSET Nat
      BY <1>2
    <3>2. e \in ends
      BY <1>4, <2>1, <3>1, FirstProperties
    <3> QED
      BY <1>2, <3>2
  <2>3. filter_newline(text) = SubSeq(text, 1, e - 1)
    BY <1>1, <1>2, <1>4, <2>1 DEF filter_newline
  <2>4. PICK b : b = e - 1
    OBVIOUS
  <2>5. b \in 0..Len(text) /\ 1 \in 1..(Len(text) + 1) /\ 1 <= b + 1
    BY <1>1, <2>2, <2>4
  <2>6. SubSeq(text, 1, b) \in Seq(Nat) /\ Len(SubSeq(text, 1, b)) = b - 1 + 1
    BY <2>5, PartOfText
  <2> QED
    BY <1>1, <2>2, <2>3, <2>4, <2>5, <2>6
<1> QED
  BY <1>3, <1>4

\* The words of a line: the command ends at e, the argument starts at a and ends at f.
Words(text, e, a, f) ==
  /\ e \in 1..(Len(text) + 1) /\ a \in e..(Len(text) + 1) /\ f \in a..(Len(text) + 1)
  /\ \A k \in 1..(e - 1) : text[k] \notin Separators
  /\ e <= Len(text) => text[e] \in Separators
  /\ \A k \in e..(a - 1) : text[k] \in Separators
  /\ a <= Len(text) => text[a] \notin Separators
  /\ \A k \in a..(f - 1) : text[k] \notin Separators
  /\ f <= Len(text) => text[f] \in Separators

\* get_command() finds the words of every line.
LEMMA CommandWords ==
  ASSUME NEW text \in Seq(Nat)
  PROVE  \E e, a, f :
           /\ Words(text, e, a, f)
           /\ get_command(text).command = SubSeq(text, 1, e - 1)
           /\ get_command(text).arg = SubSeq(text, a, f - 1)
           /\ get_command(text).ampersand <=>
                \E k \in 2..Len(text) : /\ text[k] = AMPERSAND
                                        /\ \A j \in (k + 1)..Len(text) : text[j] = BLANK
<1>1. PICK l \in Nat : l = Len(text)
  BY LenProperties
<1>2. PICK word : word = {text[i] : i \in 1..Len(text)} \ Separators
  OBVIOUS
<1>3. PICK e : e = Past(text, 1, word)
  OBVIOUS
<1>4. PICK a : a = Past(text, e, Separators)
  OBVIOUS
<1>5. PICK f : f = Past(text, a, word)
  OBVIOUS
<1>6. /\ get_command(text).command = SubSeq(text, 1, e - 1)
      /\ get_command(text).arg = SubSeq(text, a, f - 1)
      /\ get_command(text).ampersand =
           (\E k \in 2..Len(text) : /\ text[k] = AMPERSAND
                                    /\ \A j \in (k + 1)..Len(text) : text[j] = BLANK)
  BY <1>2, <1>3, <1>4, <1>5 DEF get_command
<1>7. \A k \in 1..l : text[k] \in word <=> text[k] \notin Separators
  BY <1>1, <1>2
<1>8. /\ e \in 1..(l + 1) /\ \A k \in 1..(e - 1) : text[k] \in word
      /\ e = l + 1 \/ text[e] \notin word
  <2>1. 1 \in 1..(Len(text) + 1)
    BY <1>1
  <2> QED
    BY <1>1, <1>3, <2>1, PastProperties
<1>9. /\ a \in e..(l + 1) /\ \A k \in e..(a - 1) : text[k] \in Separators
      /\ a = l + 1 \/ text[a] \notin Separators
  BY <1>1, <1>4, <1>8, PastProperties
<1>10. /\ f \in a..(l + 1) /\ \A k \in a..(f - 1) : text[k] \in word
       /\ f = l + 1 \/ text[f] \notin word
  <2>1. a \in 1..(Len(text) + 1)
    BY <1>1, <1>8, <1>9
  <2> QED
    BY <1>1, <1>5, <2>1, PastProperties
<1>11. Words(text, e, a, f)
  <2>1. \A k \in 1..(e - 1) : k \in 1..l /\ text[k] \notin Separators
    BY <1>7, <1>8
  <2>2. \A k \in a..(f - 1) : k \in 1..l /\ text[k] \notin Separators
    BY <1>7, <1>8, <1>9, <1>10
  <2>3. e <= l => text[e] \in Separators
    BY <1>7, <1>8
  <2>4. f <= l => text[f] \in Separators
    BY <1>7, <1>8, <1>9, <1>10
  <2>5. a <= l => text[a] \notin Separators
    BY <1>8, <1>9
  <2> QED
    BY <1>1, <1>8, <1>9, <1>10, <2>1, <2>2, <2>3, <2>4, <2>5 DEF Words
<1> QED
  BY <1>6, <1>11

\* What get_command() gives are parts of the line.
LEMMA CommandType ==
  ASSUME NEW text, Fits(text)
  PROVE  /\ Fits(get_command(text).command)
         /\ Fits(get_command(text).arg)
         /\ get_command(text).ampersand \in BOOLEAN
<1>1. text \in Seq(Nat) /\ Len(text) \in Nat /\ Len(text) < LineSize /\ LineSize \in Nat
  BY ShellAssumption, LenProperties DEF Fits
<1>2. PICK e, a, f :
        /\ Words(text, e, a, f)
        /\ get_command(text).command = SubSeq(text, 1, e - 1)
        /\ get_command(text).arg = SubSeq(text, a, f - 1)
  BY <1>1, CommandWords
<1>3. /\ e \in 1..(Len(text) + 1) /\ a \in e..(Len(text) + 1) /\ f \in a..(Len(text) + 1)
  BY <1>2 DEF Words
<1>4. PICK b, c : b = e - 1 /\ c = f - 1
  OBVIOUS
<1>5. /\ 1 \in 1..(Len(text) + 1) /\ b \in 0..Len(text) /\ 1 <= b + 1
      /\ a \in 1..(Len(text) + 1) /\ c \in 0..Len(text) /\ a <= c + 1
  BY <1>1, <1>3, <1>4
<1>6. SubSeq(text, 1, b) \in Seq(Nat) /\ Len(SubSeq(text, 1, b)) = b - 1 + 1
  BY <1>1, <1>5, PartOfText
<1>7. SubSeq(text, a, c) \in Seq(Nat) /\ Len(SubSeq(text, a, c)) = c - a + 1
  BY <1>1, <1>5, PartOfText
<1>8. c - a + 1 < LineSize /\ b - 1 + 1 < LineSize
  BY <1>1, <1>5
<1>9. get_command(text).ampersand \in BOOLEAN
  BY DEF get_command
<1> QED
  BY <1>2, <1>4, <1>6, <1>7, <1>8, <1>9 DEF Fits

\* Every line is taken apart as CommandsParsed says.
LEMMA LinesParsed ==
  ASSUME NEW text \in Seq(Nat)
  PROVE  Parsed(text)
<1>1. PICK l \in Nat : l = Len(text)
  BY LenProperties
<1>2. PICK e, a, f :
        /\ Words(text, e, a, f)
        /\ get_command(text).command = SubSeq(text, 1, e - 1)
        /\ get_command(text).arg = SubSeq(text, a, f - 1)
        /\ get_command(text).ampersand <=>
             \E k \in 2..Len(text) : /\ text[k] = AMPERSAND
                                     /\ \A j \in (k + 1)..Len(text) : text[j] = BLANK
  BY CommandWords
<1>3. PICK cmd, arg : cmd = SubSeq(text, 1, e - 1) /\ arg = SubSeq(text, a, f - 1)
  OBVIOUS
<1>4. /\ e \in 1..(l + 1) /\ a \in e..(l + 1) /\ f \in a..(l + 1)
      /\ \A k \in 1..(e - 1) : text[k] \notin Separators
      /\ e <= l => text[e] \in Separators
      /\ \A k \in e..(a - 1) : text[k] \in Separators
      /\ a <= l => text[a] \notin Separators
      /\ \A k \in a..(f - 1) : text[k] \notin Separators
      /\ f <= l => text[f] \in Separators
  BY <1>1, <1>2 DEF Words
<1>5. Len(cmd) = e - 1 /\ \A i \in 1..(e - 1) : cmd[i] = text[i]
  <2>1. PICK b : b = e - 1
    OBVIOUS
  <2>2. 1 \in 1..(Len(text) + 1) /\ b \in 0..Len(text) /\ 1 <= b + 1 /\ b \in Int
    BY <1>1, <1>4, <2>1
  <2>3. /\ Len(SubSeq(text, 1, b)) = b - 1 + 1
        /\ \A i \in 1..(b - 1 + 1) : SubSeq(text, 1, b)[i] = text[1 + i - 1]
    BY <2>2, PartOfText
  <2>4. \A i \in 1..b : i \in 1..(b - 1 + 1) /\ 1 + i - 1 = i
    BY <2>2
  <2> QED
    BY <1>3, <2>1, <2>2, <2>3, <2>4
<1>6. Len(arg) = f - a /\ \A i \in 1..(f - a) : arg[i] = text[a + i - 1]
  <2>1. PICK b : b = f - 1
    OBVIOUS
  <2>2. a \in 1..(Len(text) + 1) /\ b \in 0..Len(text) /\ a <= b + 1 /\ b - a + 1 = f - a
    BY <1>1, <1>4, <2>1
  <2>3. /\ Len(SubSeq(text, a, b)) = b - a + 1
        /\ \A i \in 1..(b - a + 1) : SubSeq(text, a, b)[i] = text[a + i - 1]
    BY <2>2, PartOfText
  <2> QED
    BY <1>3, <2>1, <2>2, <2>3
<1>7. \A i \in 1..Len(cmd) : cmd[i] \notin Separators
  BY <1>4, <1>5
<1>8. ASSUME NEW i \in 1..Len(arg) PROVE arg[i] \notin Separators
  <2>1. i \in 1..(f - a) /\ a + i - 1 \in a..(f - 1)
    BY <1>4, <1>6
  <2> QED
    BY <1>4, <1>6, <2>1
<1>9. SubSeq(text, 1, Len(cmd)) = cmd /\ Len(cmd) + 1 = e
  BY <1>3, <1>4, <1>5
<1>10. a + Len(arg) - 1 = f - 1 /\ a + Len(arg) = f
  BY <1>4, <1>6
<1>11. e > l \/ text[e] \in Separators
  BY <1>4
<1>12. /\ a \in e..(l + 1) /\ \A k \in e..(a - 1) : text[k] \in Separators
       /\ (a > l \/ text[a] \in Separators) => a > l
       /\ SubSeq(text, a, a + Len(arg) - 1) = arg
       /\ a + Len(arg) > l \/ text[a + Len(arg)] \in Separators
  <2>1. f > l \/ text[f] \in Separators
    BY <1>4
  <2>2. (a > l \/ text[a] \in Separators) => a > l
    BY <1>4
  <2> QED
    BY <1>3, <1>4, <1>10, <2>1, <2>2
<1>13. ASSUME cmd # <<>>
       PROVE  get_command(text).ampersand <=> \E k \in 1..l :
                /\ text[k] = AMPERSAND
                /\ {text[j] : j \in (k + 1)..l} \subseteq {BLANK}
  <2>1. e # 1
    <3>1. SUFFICES ASSUME e = 1 PROVE FALSE
      OBVIOUS
    <3>2. SubSeq(text, 1, 0) = <<>>
      BY SubSeqEmpty
    <3> QED
      BY <1>3, <1>13, <3>1, <3>2
  <2>2. 1 \in 1..(e - 1) /\ l >= 1
    BY <1>4, <2>1
  <2>3. text[1] # AMPERSAND
    BY <1>4, <2>2 DEF Separators
  <2>4. \A k \in 1..l : k = 1 \/ k \in 2..l
    OBVIOUS
  <2>5. \A k \in 2..l : k \in 1..l
    OBVIOUS
  <2>6. \A k \in 1..l : (\A j \in (k + 1)..l : text[j] = BLANK)
                          <=> {text[j] : j \in (k + 1)..l} \subseteq {BLANK}
    OBVIOUS
  <2> QED
    BY <1>1, <1>2, <2>3, <2>4, <2>5, <2>6
<1>14. /\ get_command(text).command = cmd /\ get_command(text).arg = arg
  BY <1>2, <1>3
<1>15. /\ \E i \in (Len(cmd) + 1)..(Len(text) + 1) :
            /\ \A k \in (Len(cmd) + 1)..(i - 1) : text[k] \in Separators
            /\ (i > Len(text) \/ text[i] \in Separators) => i > Len(text)
            /\ SubSeq(text, i, i + Len(arg) - 1) = arg
            /\ i + Len(arg) > Len(text) \/ text[i + Len(arg)] \in Separators
  BY <1>1, <1>9, <1>12
<1>16. Len(cmd) + 1 > Len(text) \/ text[Len(cmd) + 1] \in Separators
  BY <1>1, <1>9, <1>11
<1> QED
  BY <1>1, <1>7, <1>8, <1>9, <1>13, <1>14, <1>15, <1>16 DEF Parsed

-----------------------------------------------------------------------------
(***************************************************************************)
(* The processes.  f and g are values of proc, before and after a step.    *)
(***************************************************************************)

\* One session: root is the first process only, there is one shell at most, and root waits
\* for it.
Session(f) ==
  /\ \A p \in Pids : f[p].prog = "root" => p = ROOT
  /\ \A p, q \in Pids : f[p].prog = "shell" /\ f[q].prog = "shell" => p = q
  /\ \A p \in Pids : f[p].prog = "shell" /\ f[ROOT].prog = "root" =>
       f[ROOT].pc = "wait" /\ f[ROOT].child = p

\* Process p is a command that is not left in the background, and has not come to its end.
InProgress(f, p) == f[p].prog \in {"ps", "a", "k"} /\ f[p].pc # "end"

\* Process s is a shell that waits for p, and that nobody has killed.
Serves(f, s, p) ==
  f[s].prog = "shell" /\ f[s].pc = "wait" /\ f[s].child = p /\ ~ f[s].killed

\* The shell s has left the argument of p where p looks for it; arg is command_arg, and pid
\* is pid_to_kill.
Argument(f, s, p, arg, pid) ==
  /\ f[p].prog = "a" /\ f[p].pc = "start" => arg = s /\ f[s].arg = f[p].arg
  /\ f[p].prog = "k" => pid = atoi(Buffer(f[p].arg))

\* So does the shell of each command in progress.
Attended(f, arg, pid) ==
  \A p \in Pids : InProgress(f, p) => \E s \in Pids : Serves(f, s, p) /\ Argument(f, s, p, arg, pid)

\* Nothing happens to any process but p, which executes its own program.
Moves(f, g, p) ==
  /\ p \in Pids
  /\ \A q \in Pids \ {p} : g[q] = f[q]
  /\ g[p].prog = f[p].prog

\* The first process is a process, and no process is NONE.
LEMMA RootIsPid == ROOT \in Pids /\ NONE \notin Pids
BY ShellAssumption DEF ROOT, NONE, Pids

\* While root does not wait, or waits for nobody, there is no shell, and no command in
\* progress.
LEMMA NoShell ==
  ASSUME NEW f, Session(f), f[ROOT].prog = "root", f[ROOT].pc # "wait" \/ f[ROOT].child = NONE
  PROVE  \A p \in Pids : f[p].prog # "shell"
BY RootIsPid DEF Session

LEMMA NoCommandWithoutShell ==
  ASSUME NEW f, NEW arg, NEW pid, Attended(f, arg, pid), \A p \in Pids : f[p].prog # "shell"
  PROVE  \A p \in Pids : ~ InProgress(f, p)
BY DEF Attended, Serves

\* While a shell does not wait, or waits for nobody, there is no command in progress.
LEMMA NoCommand ==
  ASSUME NEW f, NEW arg, NEW pid, Session(f), Attended(f, arg, pid), NEW s \in Pids,
         f[s].prog = "shell", f[s].pc # "wait" \/ f[s].child = NONE
  PROVE  \A p \in Pids : ~ InProgress(f, p)
BY RootIsPid DEF Session, Attended, Serves

\* A step of root.
LEMMA RootMoves ==
  ASSUME NEW f, NEW g, NEW arg, NEW pid, Session(f), Attended(f, arg, pid), Moves(f, g, ROOT),
         f[ROOT].prog = "root", f[ROOT].pc # "wait" \/ f[ROOT].child = NONE
  PROVE  Session(g) /\ Attended(g, arg, pid)
<1>1. \A p \in Pids : f[p].prog # "shell" /\ ~ InProgress(f, p)
  BY NoShell, NoCommandWithoutShell
<1>2. \A p \in Pids : g[p].prog = f[p].prog
  BY DEF Moves
<1>3. \A p \in Pids : ~ InProgress(g, p)
  BY <1>1 DEF Moves, InProgress
<1> QED
  BY <1>1, <1>2, <1>3 DEF Session, Attended

\* A step of a command.
LEMMA CommandMoves ==
  ASSUME NEW f, NEW g, NEW arg, NEW pid, NEW p, Session(f), Attended(f, arg, pid), Moves(f, g, p),
         f[p].prog \in {"t", "ps", "a", "k"}, f[p].pc # "end", g[p].arg = f[p].arg,
         f[p].prog = "a" => g[p].pc # "start"
  PROVE  Session(g) /\ Attended(g, arg, pid)
<1>1. /\ \A q \in Pids : g[q].prog = f[q].prog /\ g[q].arg = f[q].arg
      /\ \A q \in Pids : q # p => g[q] = f[q]
      /\ p \in Pids
  BY DEF Moves
<1>2. \A s \in Pids : f[s].prog \in {"root", "shell"} => g[s] = f[s]
  BY <1>1
<1>3. Session(g)
  BY <1>1, <1>2, RootIsPid DEF Session
<1>4. ASSUME NEW q \in Pids, InProgress(g, q)
      PROVE  \E s \in Pids : Serves(g, s, q) /\ Argument(g, s, q, arg, pid)
  <2>1. InProgress(f, q)
    BY <1>1, <1>4 DEF InProgress
  <2>2. PICK s \in Pids : Serves(f, s, q) /\ Argument(f, s, q, arg, pid)
    BY <2>1 DEF Attended
  <2>3. Serves(g, s, q)
    BY <1>2, <2>2 DEF Serves
  <2>4. g[q].prog = "a" /\ g[q].pc = "start" => f[q].pc = "start"
    BY <1>1
  <2>5. Argument(g, s, q, arg, pid)
    BY <1>1, <2>2, <2>4 DEF Argument
  <2> QED
    BY <2>3, <2>5
<1> QED
  BY <1>3, <1>4 DEF Attended

\* A step of a shell that waits for nobody.
LEMMA ShellMoves ==
  ASSUME NEW f, NEW g, NEW arg, NEW pid, NEW arg1, NEW pid1, NEW p, Session(f),
         Attended(f, arg, pid), Moves(f, g, p),
         f[p].prog = "shell", f[p].pc # "wait" \/ f[p].child = NONE
  PROVE  Session(g) /\ Attended(g, arg1, pid1)
<1>1. /\ \A q \in Pids : g[q].prog = f[q].prog
      /\ \A q \in Pids : q # p => g[q] = f[q]
      /\ p \in Pids
  BY DEF Moves
<1>2. Session(g)
  <2>1. CASE f[ROOT].prog = "root"
    <3>1. ROOT # p /\ g[ROOT] = f[ROOT]
      BY <1>1, <2>1, RootIsPid
    <3> QED
      BY <1>1, <3>1 DEF Session
  <2>2. CASE f[ROOT].prog # "root"
    BY <1>1, <2>2, RootIsPid DEF Session
  <2> QED
    BY <2>1, <2>2
<1>3. \A q \in Pids : ~ InProgress(f, q)
  BY <1>1, NoCommand
<1>4. \A q \in Pids : ~ InProgress(g, q)
  BY <1>1, <1>3 DEF InProgress
<1> QED
  BY <1>2, <1>4 DEF Attended

\* Root, which has no shell, starts one and waits for it.
LEMMA RootStarts ==
  ASSUME NEW f, NEW g, NEW arg, NEW pid, NEW c \in Pids, Session(f), Attended(f, arg, pid),
         f[ROOT].prog = "root", f[ROOT].pc # "wait", f[c].prog = "none",
         \A q \in Pids \ {ROOT, c} : g[q] = f[q],
         g[ROOT].prog = "root", g[ROOT].pc = "wait", g[ROOT].child = c, g[c].prog = "shell"
  PROVE  Session(g) /\ Attended(g, arg, pid)
<1>1. \A p \in Pids : f[p].prog # "shell" /\ ~ InProgress(f, p)
  BY NoShell, NoCommandWithoutShell
<1>2. \A p \in Pids \ {c} : g[p].prog = f[p].prog
  OBVIOUS
<1>3. Session(g)
  BY <1>1, <1>2 DEF Session
<1>4. ASSUME NEW p \in Pids PROVE ~ InProgress(g, p)
  <2>1. CASE p \in {ROOT, c}
    BY <2>1 DEF InProgress
  <2>2. CASE p \notin {ROOT, c}
    BY <1>1, <2>2 DEF InProgress
  <2> QED
    BY <2>1, <2>2
<1> QED
  BY <1>3, <1>4 DEF Attended

\* The shell p starts the command c and waits for it, unless it is t.
Commands(f, g, p, c, arg, pid) ==
  /\ p \in Pids /\ c \in Pids
  /\ f[p].prog = "shell" /\ f[p].pc # "wait" /\ f[c].prog = "none"
  /\ \A q \in Pids \ {p, c} : g[q] = f[q]
  /\ g[p].prog = "shell" /\ g[p].pc = "wait" /\ ~ g[p].killed
  /\ g[c].prog \in {"t", "ps", "a", "k"} /\ g[c].arg = g[p].arg
  /\ g[c].prog # "t" => g[p].child = c
  /\ g[c].prog = "a" => arg = p
  /\ g[c].prog = "k" => pid = atoi(Buffer(g[p].arg))

LEMMA ShellStarts ==
  ASSUME NEW f, NEW g, NEW arg, NEW pid, NEW arg1, NEW pid1, NEW p, NEW c,
         Session(f), Attended(f, arg, pid), Commands(f, g, p, c, arg1, pid1)
  PROVE  Session(g) /\ Attended(g, arg1, pid1)
<1> USE DEF Commands
<1>1. \A q \in Pids : ~ InProgress(f, q)
  BY NoCommand
<1>2. \A q \in Pids \ {c} : g[q].prog = f[q].prog
  OBVIOUS
<1>3. Session(g)
  <2>1. CASE g[ROOT].prog = "root"
    <3>1. ROOT \notin {p, c} /\ g[ROOT] = f[ROOT]
      BY <2>1, RootIsPid
    <3> QED
      BY <1>2, <3>1 DEF Session
  <2>2. CASE g[ROOT].prog # "root"
    BY <1>2, <2>2, RootIsPid DEF Session
  <2> QED
    BY <2>1, <2>2
<1>4. ASSUME NEW q \in Pids, InProgress(g, q)
      PROVE  \E s \in Pids : Serves(g, s, q) /\ Argument(g, s, q, arg1, pid1)
  <2>1. q = c
    BY <1>1, <1>4 DEF InProgress
  <2>2. g[c].prog # "t"
    BY <1>4, <2>1 DEF InProgress
  <2>3. Serves(g, p, q)
    BY <2>1, <2>2 DEF Serves
  <2>4. Argument(g, p, q, arg1, pid1)
    BY <2>1 DEF Argument
  <2> QED
    BY <2>3, <2>4
<1> QED
  BY <1>3, <1>4 DEF Attended

\* A process ends, at its own end or because it was killed.
LEMMA ProcessEnds ==
  ASSUME NEW f, NEW g, NEW arg, NEW pid, NEW p \in Pids, Session(f), Attended(f, arg, pid),
         f[p].pc = "end" \/ f[p].killed, g[p].prog = "ended",
         \A q \in Pids \ {p} : /\ g[q].prog = f[q].prog /\ g[q].pc = f[q].pc
                               /\ g[q].killed = f[q].killed /\ g[q].arg = f[q].arg
                               /\ f[q].child # p => g[q].child = f[q].child
  PROVE  Session(g) /\ Attended(g, arg, pid)
<1>1. \A q \in Pids : g[q].prog # "ended" => q # p
  OBVIOUS
<1>2. Session(g)
  BY <1>1, RootIsPid DEF Session
<1>3. ASSUME NEW q \in Pids, InProgress(g, q)
      PROVE  \E s \in Pids : Serves(g, s, q) /\ Argument(g, s, q, arg, pid)
  <2>1. q # p
    BY <1>3 DEF InProgress
  <2>2. InProgress(f, q)
    BY <1>3, <2>1 DEF InProgress
  <2>3. PICK s \in Pids : Serves(f, s, q) /\ Argument(f, s, q, arg, pid)
    BY <2>2 DEF Attended
  <2>4. s # p
    BY <2>3 DEF Serves
  <2>5. Serves(g, s, q)
    BY <2>1, <2>3, <2>4 DEF Serves
  <2>6. Argument(g, s, q, arg, pid)
    BY <2>1, <2>3, <2>4 DEF Argument
  <2> QED
    BY <2>5, <2>6
<1> QED
  BY <1>2, <1>3 DEF Attended

\* The command k, while it is in progress, is the only one, and nobody reads: its shell
\* waits for it, and root, if there is root, for the shell.
LEMMA KillerAlone ==
  ASSUME NEW f, NEW arg, NEW pid, NEW p \in Pids, Session(f), Attended(f, arg, pid),
         InProgress(f, p)
  PROVE  /\ \A q \in Pids : InProgress(f, q) => q = p
         /\ \A q \in Pids : f[q].prog \in {"root", "shell"} => f[q].pc = "wait"
<1>1. PICK s \in Pids : Serves(f, s, p)
  BY DEF Attended
<1>2. \A q \in Pids : f[q].prog = "shell" => q = s
  BY <1>1 DEF Serves, Session
<1>3. ASSUME NEW q \in Pids, InProgress(f, q) PROVE q = p
  <2>1. PICK s2 \in Pids : Serves(f, s2, q)
    BY <1>3 DEF Attended
  <2> QED
    BY <1>1, <1>2, <2>1 DEF Serves
<1>4. \A q \in Pids : f[q].prog = "root" => f[q].pc = "wait"
  BY <1>1, RootIsPid DEF Serves, Session
<1> QED
  BY <1>1, <1>2, <1>3, <1>4 DEF Serves

\* It marks another process, or itself, and comes to its end.
LEMMA ProcessKills ==
  ASSUME NEW f, NEW g, NEW arg, NEW pid, NEW p \in Pids, Session(f), Attended(f, arg, pid),
         InProgress(f, p), g[p].pc = "end",
         \A q \in Pids : g[q].prog = f[q].prog /\ g[q].child = f[q].child,
         \A q \in Pids \ {p} : g[q].pc = f[q].pc
  PROVE  Session(g) /\ Attended(g, arg, pid)
<1>1. \A q \in Pids : InProgress(f, q) => q = p
  BY KillerAlone
<1>2. \A q \in Pids : ~ InProgress(g, q)
  BY <1>1 DEF InProgress
<1>3. f[p].prog \notin {"root", "shell"}
  BY DEF InProgress
<1>4. Session(g)
  BY <1>3, RootIsPid DEF Session
<1> QED
  BY <1>2, <1>4 DEF Attended

-----------------------------------------------------------------------------
(***************************************************************************)
(* What the system calls and the library give.                             *)
(***************************************************************************)

\* The places of the programs.
Places == {"none", "start", "user", "ioctl", "pass", "close", "check", "wait", "read", "command",
           "sleep", "kill", "alarm", "end"}

\* Process p goes on to pc, and nothing else changes.
Went(f, g, p, pc) ==
  /\ g \in [Pids -> Processes] /\ Moves(f, g, p)
  /\ g[p].pc = pc /\ g[p].killed = f[p].killed /\ g[p].child = f[p].child /\ g[p].arg = f[p].arg

LEMMA GoesOn ==
  ASSUME proc \in [Pids -> Processes], NEW p \in Pids, NEW pc \in Places
  PROVE  Went(proc, Goes(p, pc), p, pc)
<1>1. PICK r : r = [proc[p] EXCEPT !.pc = pc]
  OBVIOUS
<1>2. proc[p] \in Processes
  OBVIOUS
<1>3. /\ r \in Processes /\ r.pc = pc /\ r.prog = proc[p].prog
      /\ r.killed = proc[p].killed /\ r.child = proc[p].child /\ r.arg = proc[p].arg
  BY <1>1, <1>2 DEF Processes, Places
<1>4. Goes(p, pc) = [proc EXCEPT ![p] = r]
  BY <1>1 DEF Goes
<1> HIDE DEF Processes
<1>5. /\ [proc EXCEPT ![p] = r] \in [Pids -> Processes]
      /\ [proc EXCEPT ![p] = r][p] = r
      /\ \A q \in Pids \ {p} : [proc EXCEPT ![p] = r][q] = proc[q]
  BY <1>3
<1> QED
  BY <1>3, <1>4, <1>5 DEF Went, Moves

\* The next pid is free, or there is none.
LEMMA NextPidProperties ==
  ASSUME proc \in [Pids -> Processes]
  PROVE  NextPid = NONE \/ (NextPid \in Pids /\ proc[NextPid].prog = "none")
<1>1. PICK free : free = {p \in Pids : Is(p, "none")}
  OBVIOUS
<1>2. CASE NextPid = NONE
  BY <1>2
<1>3. CASE NextPid # NONE
  <2>1. free # {} /\ NextPid = CHOOSE p \in free : \A q \in free : p <= q
    BY <1>1, <1>3 DEF NextPid
  <2>2. free \in SUBSET Nat
    BY <1>1, ShellAssumption DEF Pids
  <2>3. First(free) \in free
    BY <2>1, <2>2, FirstProperties
  <2>4. NextPid = First(free)
    BY <2>1 DEF First
  <2> QED
    BY <1>1, <2>3, <2>4 DEF Is
<1> QED
  BY <1>2, <1>3

\* The process that is started, and the one that waits for it.
LEMMA CreateFailed ==
  ASSUME proc \in [Pids -> Processes], NEW p \in Pids, NEW prog, NEW arg, NEW waits \in BOOLEAN,
         NextPid = NONE
  PROVE  /\ syscreate(p, prog, arg, waits) \in [Pids -> Processes]
         /\ Moves(proc, syscreate(p, prog, arg, waits), p)
         /\ syscreate(p, prog, arg, waits)[p].pc = "wait"
<1>1. PICK r : r = [[proc[p] EXCEPT !.pc = "wait"] EXCEPT !.child = NONE]
  OBVIOUS
<1>2. proc[p] \in Processes
  OBVIOUS
<1>3. r \in Processes /\ r.pc = "wait" /\ r.prog = proc[p].prog
  BY <1>1, <1>2 DEF Processes
<1>4. syscreate(p, prog, arg, waits) = [proc EXCEPT ![p] = r]
  BY <1>1 DEF syscreate
<1> HIDE DEF Processes
<1>5. /\ [proc EXCEPT ![p] = r] \in [Pids -> Processes]
      /\ [proc EXCEPT ![p] = r][p] = r
      /\ \A q \in Pids \ {p} : [proc EXCEPT ![p] = r][q] = proc[q]
  BY <1>3
<1> QED
  BY <1>3, <1>4, <1>5 DEF Moves

StartsAndWaits(f, g, p, c, prog, arg, waits) ==
  /\ g \in [Pids -> Processes] /\ c \in Pids /\ c # p /\ f[c].prog = "none"
  /\ \A q \in Pids \ {p, c} : g[q] = f[q]
  /\ g[p].prog = f[p].prog /\ g[p].pc = "wait" /\ g[p].killed = f[p].killed
  /\ waits => g[p].child = c
  /\ g[c] = Started(prog, arg)

LEMMA CreateStarted ==
  ASSUME proc \in [Pids -> Processes], NEW p \in Pids, proc[p].prog # "none",
         NEW prog \in {"shell", "t", "ps", "a", "k"}, NEW arg \in Seq(Nat), NEW waits \in BOOLEAN,
         NEW c, c = NextPid, c # NONE
  PROVE  StartsAndWaits(proc, syscreate(p, prog, arg, waits), p, c, prog, arg, waits)
<1>1. c \in Pids /\ c # p /\ proc[c].prog = "none"
  BY NextPidProperties
<1>2. PICK w : w = IF waits THEN c ELSE NONE
  OBVIOUS
<1>3. PICK r : r = [[proc[p] EXCEPT !.pc = "wait"] EXCEPT !.child = w]
  OBVIOUS
<1>4. proc[p] \in Processes /\ w \in Pids \cup {NONE}
  BY <1>1, <1>2
<1>5. r \in Processes /\ r.pc = "wait" /\ r.prog = proc[p].prog /\ r.killed = proc[p].killed /\ r.child = w
  BY <1>3, <1>4 DEF Processes
<1>6. Started(prog, arg) \in Processes
  BY DEF Started, Free, Processes
<1>7. PICK g : g = syscreate(p, prog, arg, waits)
  OBVIOUS
<1>8. g = [[proc EXCEPT ![p] = r] EXCEPT ![c] = Started(prog, arg)]
  BY <1>2, <1>3, <1>7 DEF syscreate
<1> HIDE DEF Processes
<1>9. g \in [Pids -> Processes] /\ g[p] = r /\ g[c] = Started(prog, arg)
      /\ \A q \in Pids \ {p, c} : g[q] = proc[q]
  BY <1>1, <1>5, <1>6, <1>8
<1> QED
  BY <1>1, <1>2, <1>5, <1>7, <1>9 DEF StartsAndWaits

\* A process that has ended, and the others, which may wait for it no longer.
LEMMA EndProperties ==
  ASSUME proc \in [Pids -> Processes], NEW p \in Pids
  PROVE  /\ End(p) \in [Pids -> Processes] /\ End(p)[p].prog = "ended"
         /\ \A q \in Pids \ {p} :
              /\ End(p)[q].prog = proc[q].prog /\ End(p)[q].pc = proc[q].pc
              /\ End(p)[q].killed = proc[q].killed /\ End(p)[q].arg = proc[q].arg
              /\ proc[q].child # p => End(p)[q].child = proc[q].child
<1>1. Ended \in Processes /\ Ended.prog = "ended"
  <2>1. <<>> \in Seq(Nat)
    OBVIOUS
  <2>2. Free \in Processes
    BY <2>1 DEF Free, Processes
  <2>3. PICK f : f = Free
    OBVIOUS
  <2>4. Ended = [f EXCEPT !.prog = "ended"]
    BY <2>3 DEF Ended
  <2> QED
    BY <2>2, <2>3, <2>4 DEF Processes
<1>2. ASSUME NEW q \in Pids
      PROVE  /\ [proc[q] EXCEPT !.child = NONE] \in Processes
             /\ [proc[q] EXCEPT !.child = NONE].prog = proc[q].prog
             /\ [proc[q] EXCEPT !.child = NONE].pc = proc[q].pc
             /\ [proc[q] EXCEPT !.child = NONE].killed = proc[q].killed
             /\ [proc[q] EXCEPT !.child = NONE].arg = proc[q].arg
  <2>1. proc[q] \in Processes
    BY <1>2
  <2> QED
    BY <2>1 DEF Processes
<1>3. PICK after : after = [q \in Pids |-> [proc[q] EXCEPT !.child = NONE]]
  OBVIOUS
<1>4. End(p) = [q \in Pids |-> IF q = p THEN Ended ELSE IF proc[q].child = p THEN after[q] ELSE proc[q]]
  BY <1>3 DEF End
<1>5. \A q \in Pids : /\ after[q] \in Processes /\ after[q].prog = proc[q].prog /\ after[q].pc = proc[q].pc
                      /\ after[q].killed = proc[q].killed /\ after[q].arg = proc[q].arg
  BY <1>2, <1>3
<1> HIDE DEF Processes
<1> QED
  BY <1>1, <1>4, <1>5

\* What is read fits its buffer, and leaves the echo and the descriptors alone.
LEMMA ReadType ==
  ASSUME NEW texts, texts = Lines \/ texts = Names, NEW r \in Reads(texts),
         kbd \in [refcount : Int, echo : BOOLEAN, done : BOOLEAN]
  PROVE  /\ Fits(filter_newline(r.data))
         /\ r.kbd \in [refcount : Int, echo : BOOLEAN, done : BOOLEAN]
         /\ r.kbd.refcount = kbd.refcount /\ r.kbd.echo = kbd.echo
<1>1. /\ LineSize \in Nat /\ texts \subseteq Seq(Nat \ {NUL, EOL})
      /\ \A text \in texts : Len(text) + 2 <= LineSize
      /\ valid_user \in Seq(Nat \ {NUL, EOL}) /\ Len(valid_user) + 2 <= LineSize
  BY ShellAssumption
<1>2. Len(valid_user) \in Nat
  BY <1>1, LenProperties
<1>3. Fits(<<>>)
  BY <1>1, <1>2 DEF Fits
<1>4. ASSUME NEW text \in texts PROVE Fits(text) /\ Fits(text \o <<EOL>>)
  <2>1. text \in Seq(Nat) /\ Len(text) \in Nat /\ Len(text) + 2 <= LineSize
    <3>1. text \in Seq(Nat \ {NUL, EOL})
      BY <1>1
    <3>2. text \in Seq(Nat)
      BY <3>1
    <3> QED
      BY <1>1, <3>2, LenProperties
  <2>2. <<EOL>> \in Seq(Nat) /\ Len(<<EOL>>) = 1
    BY DEF EOL
  <2>3. text \o <<EOL>> \in Seq(Nat) /\ Len(text \o <<EOL>>) = Len(text) + 1
    BY <2>1, <2>2, ConcatProperties
  <2> QED
    BY <1>1, <2>1, <2>3 DEF Fits
<1>5. /\ Fits(r.data) /\ r.kbd \in [refcount : Int, echo : BOOLEAN, done : BOOLEAN]
      /\ r.kbd.refcount = kbd.refcount /\ r.kbd.echo = kbd.echo
  <2>1. CASE r = [data |-> <<>>, kbd |-> kbd]
    BY <1>3, <2>1
  <2>2. CASE \E text \in texts : r = [data |-> text \o <<EOL>>, kbd |-> kbd]
    BY <1>4, <2>2
  <2>3. CASE \E text \in texts \cup {<<>>} : r = [data |-> text, kbd |-> [kbd EXCEPT !.done = TRUE]]
    <3>1. PICK text \in texts \cup {<<>>} : r = [data |-> text, kbd |-> [kbd EXCEPT !.done = TRUE]]
      BY <2>3
    <3>2. Fits(text)
      BY <1>3, <1>4
    <3>3. PICK k : k = [kbd EXCEPT !.done = TRUE]
      OBVIOUS
    <3>4. /\ k \in [refcount : Int, echo : BOOLEAN, done : BOOLEAN]
          /\ k.refcount = kbd.refcount /\ k.echo = kbd.echo
      BY <3>3
    <3>5. r.data = text /\ r.kbd = k
      BY <3>1, <3>3
    <3> QED
      BY <3>2, <3>4, <3>5
  <2> QED
    BY <2>1, <2>2, <2>3 DEF Reads
<1>6. r.data \in Seq(Nat) /\ Len(r.data) < LineSize
  BY <1>5 DEF Fits
<1>7. /\ filter_newline(r.data) \in Seq(Nat) /\ Len(filter_newline(r.data)) <= Len(r.data)
      /\ Len(filter_newline(r.data)) \in Nat /\ Len(r.data) \in Nat
  BY <1>6, FilterType, LenProperties
<1> QED
  BY <1>1, <1>5, <1>6, <1>7 DEF Fits

\* A text that is equal to a word starts like the word.
LEMMA EqualStarts ==
  ASSUME NEW word \in Seq(Nat), Len(word) >= 1, word[1] # NUL,
         NEW text, Fits(text), Equal(word, text)
  PROVE  Buffer(text)[1] = word[1]
<1>1. /\ LineSize \in Nat /\ LineSize >= 1 /\ Buffer(text)[LineSize] = NUL
      /\ \A i \in 1..LineSize : Buffer(text)[i] \in Nat
  BY BufferEnds
<1>2. PICK s, t : s = Buffer(word) /\ t = Buffer(text)
  OBVIOUS
<1>3. s = [i \in 1..LineSize |-> IF i <= Len(word) THEN word[i] ELSE NUL]
  BY <1>2 DEF Buffer
<1>4. Len(word) \in Nat /\ \A i \in 1..Len(word) : word[i] \in Nat
  BY LenProperties
<1>5. \A i \in 1..LineSize : s[i] \in Nat
  BY <1>3, <1>4 DEF NUL
<1>6. Len(s) = LineSize /\ s[1] = word[1]
  BY <1>1, <1>3, <1>4, <1>5
<1>7. PICK ends : ends = {k \in 1..LineSize : s[k] # t[k] \/ s[k] = NUL}
  OBVIOUS
<1>8. LineSize \in ends /\ ends \in SUBSET Nat
  BY <1>1, <1>2, <1>7
<1>9. PICK i : i = First(ends)
  OBVIOUS
<1>10. i \in ends /\ \A j \in ends : i <= j
  BY <1>8, <1>9, FirstProperties
<1>11. s[i] - t[i] = 0
  BY <1>2, <1>6, <1>7, <1>9 DEF Equal, strcmp
<1>12. s[i] = t[i] /\ s[i] = NUL
  BY <1>1, <1>2, <1>5, <1>7, <1>10, <1>11
<1>13. i # 1
  BY <1>6, <1>12
<1>14. 1 \notin ends
  BY <1>1, <1>7, <1>10, <1>13
<1> QED
  BY <1>1, <1>2, <1>6, <1>7, <1>14

\* A word is one command at most.
LEMMA OneCommand ==
  ASSUME NEW text, Fits(text)
  PROVE  \A v, w \in {T, PS, A, K, EX} : Equal(v, text) /\ Equal(w, text) => v = w
<1>1. /\ T \in Seq(Nat) /\ PS \in Seq(Nat) /\ A \in Seq(Nat) /\ K \in Seq(Nat) /\ EX \in Seq(Nat)
      /\ Len(T) = 1 /\ Len(PS) = 2 /\ Len(A) = 1 /\ Len(K) = 1 /\ Len(EX) = 2
      /\ T[1] = 116 /\ PS[1] = 112 /\ A[1] = 97 /\ K[1] = 107 /\ EX[1] = 101
  BY DEF T, PS, A, K, EX
<1>2. /\ Len(T) >= 1 /\ Len(PS) >= 1 /\ Len(A) >= 1 /\ Len(K) >= 1 /\ Len(EX) >= 1
      /\ T[1] # NUL /\ PS[1] # NUL /\ A[1] # NUL /\ K[1] # NUL /\ EX[1] # NUL
  BY <1>1 DEF NUL
<1>3. Equal(T, text) => Buffer(text)[1] = T[1]
  BY <1>1, <1>2, EqualStarts
<1>4. Equal(PS, text) => Buffer(text)[1] = PS[1]
  BY <1>1, <1>2, EqualStarts
<1>5. Equal(A, text) => Buffer(text)[1] = A[1]
  BY <1>1, <1>2, EqualStarts
<1>6. Equal(K, text) => Buffer(text)[1] = K[1]
  BY <1>1, <1>2, EqualStarts
<1>7. Equal(EX, text) => Buffer(text)[1] = EX[1]
  BY <1>1, <1>2, EqualStarts
<1>8. \A v \in {T, PS, A, K, EX} : Equal(v, text) => Buffer(text)[1] = v[1]
  BY <1>3, <1>4, <1>5, <1>6, <1>7
<1>9. \A v, w \in {T, PS, A, K, EX} : v[1] = w[1] => v = w
  <2>1. T[1] = 116 /\ PS[1] = 112 /\ A[1] = 97 /\ K[1] = 107 /\ EX[1] = 101
    BY <1>1
  <2> QED
    BY <2>1
<1> QED
  BY <1>8, <1>9

-----------------------------------------------------------------------------
(***************************************************************************)
(* The keyboard's descriptors and its echo.                                *)
(***************************************************************************)

\* The process has the keyboard open.
Holds(r) ==
  \/ r.prog = "root" /\ r.pc \in {"user", "ioctl", "pass", "close"}
  \/ r.prog = "shell" /\ r.pc \in {"read", "command", "wait", "close"}
Holders(f) == {p \in Pids : Holds(f[p])}
Gone(f) == {p \in Pids : f[p].prog = "ended"}

\* n is the reference count, and l of those that hold the keyboard are gone.
Counted(f, n, l) ==
  l \in Nat /\ n = Cardinality(Holders(f)) + l /\ l <= Cardinality(Gone(f))

\* The echo is off while root reads the password, and on while the shell has the keyboard
\* open, unless a process was killed that had.
Echoing(f, echo, l) ==
  /\ f[ROOT].prog = "root" /\ f[ROOT].pc = "pass" => ~ echo
  /\ \A p \in Pids : f[p].prog = "shell" /\ Holds(f[p]) /\ l = 0 => echo

LEMMA SetsFinite ==
  ASSUME NEW f
  PROVE  /\ IsFiniteSet(Holders(f)) /\ IsFiniteSet(Gone(f))
         /\ Cardinality(Holders(f)) \in Nat /\ Cardinality(Gone(f)) \in Nat
         /\ Cardinality(Holders(f)) + Cardinality(Gone(f)) <= MaxPid
<1>1. MaxPid \in Nat /\ IsFiniteSet(Pids) /\ Cardinality(Pids) = MaxPid
  BY ShellAssumption, FS_Interval DEF Pids
<1>2. Holders(f) \subseteq Pids /\ Gone(f) \subseteq Pids /\ Holders(f) \cap Gone(f) = {}
  BY DEF Holders, Gone, Holds
<1>3. IsFiniteSet(Holders(f)) /\ IsFiniteSet(Gone(f))
  BY <1>1, <1>2, FS_Subset
<1>4. PICK both : both = Holders(f) \cup Gone(f)
  OBVIOUS
<1>5. both \subseteq Pids
  BY <1>2, <1>4
<1>6. Cardinality(both) <= MaxPid
  BY <1>1, <1>5, FS_Subset
<1>7. Cardinality(Holders(f)) \in Nat /\ Cardinality(Gone(f)) \in Nat
  BY <1>3, FS_CardinalityType
<1>8. Cardinality(both) = Cardinality(Holders(f)) + Cardinality(Gone(f)) - Cardinality(Holders(f) \cap Gone(f))
  BY <1>3, <1>4, FS_Union
<1>9. Cardinality(Holders(f) \cap Gone(f)) = 0
  BY <1>2, FS_EmptySet
<1>10. Cardinality(Holders(f)) + Cardinality(Gone(f)) <= MaxPid
  BY <1>1, <1>6, <1>7, <1>8, <1>9
<1> QED
  BY <1>3, <1>7, <1>10

\* The keyboard is as before for a step in which nobody opens or closes it, or ends with it.
Keeps(f, g) ==
  /\ \A p \in Pids : Holds(g[p]) <=> Holds(f[p])
  /\ \A p \in Pids : Holds(g[p]) => g[p].prog = f[p].prog /\ (g[p].pc = "pass" => f[p].pc = "pass")
  /\ \A p \in Pids : f[p].prog = "ended" => g[p].prog = "ended"

LEMMA CountKept ==
  ASSUME NEW f, NEW g, NEW n, NEW l, Counted(f, n, l),
         \A p \in Pids : Holds(g[p]) <=> Holds(f[p]),
         \A p \in Pids : f[p].prog = "ended" => g[p].prog = "ended"
  PROVE  Counted(g, n, l)
<1>1. Holders(g) = Holders(f) /\ Gone(f) \subseteq Gone(g)
  BY DEF Holders, Gone
<1>2. Cardinality(Gone(f)) <= Cardinality(Gone(g))
  BY <1>1, SetsFinite, FS_Subset
<1>3. Cardinality(Gone(f)) \in Nat /\ Cardinality(Gone(g)) \in Nat
  BY SetsFinite
<1> QED
  BY <1>1, <1>2, <1>3 DEF Counted

LEMMA EchoKept ==
  ASSUME NEW f, NEW g, NEW echo, NEW l, Echoing(f, echo, l), Keeps(f, g)
  PROVE  Echoing(g, echo, l)
<1>1. g[ROOT].prog = "root" /\ g[ROOT].pc = "pass" => Holds(g[ROOT])
  BY DEF Holds
<1>2. \A p \in Pids : g[p].prog = "shell" /\ Holds(g[p]) => f[p].prog = "shell" /\ Holds(f[p])
  BY DEF Keeps
<1>3. g[ROOT].prog = "root" /\ g[ROOT].pc = "pass" => f[ROOT].prog = "root" /\ f[ROOT].pc = "pass"
  BY <1>1, RootIsPid DEF Keeps
<1> QED
  BY <1>2, <1>3 DEF Echoing

\* Process p opens the keyboard.
LEMMA CountOpened ==
  ASSUME NEW f, NEW g, NEW n, NEW l, NEW p, Counted(f, n, l), Moves(f, g, p),
         ~ Holds(f[p]), Holds(g[p])
  PROVE  Counted(g, n + 1, l)
<1>1. p \notin Holders(f) /\ Holders(g) = Holders(f) \cup {p} /\ Gone(g) = Gone(f)
  BY DEF Holders, Gone, Moves
<1>2. Cardinality(Holders(f)) \in Nat /\ Cardinality(Gone(f)) \in Nat /\ IsFiniteSet(Holders(f))
  BY SetsFinite
<1>3. Cardinality(Holders(g)) = Cardinality(Holders(f)) + 1
  BY <1>1, <1>2, FS_AddElement
<1> QED
  BY <1>1, <1>2, <1>3 DEF Counted

\* Process p closes it.
LEMMA CountClosed ==
  ASSUME NEW f, NEW g, NEW n, NEW l, NEW p, Counted(f, n, l), Moves(f, g, p),
         Holds(f[p]), ~ Holds(g[p])
  PROVE  Counted(g, n - 1, l)
<1>1. p \in Holders(f) /\ Holders(g) = Holders(f) \ {p} /\ Gone(g) = Gone(f)
  BY DEF Holders, Gone, Moves
<1>2. Cardinality(Holders(f)) \in Nat /\ Cardinality(Gone(f)) \in Nat /\ IsFiniteSet(Holders(f))
  BY SetsFinite
<1>3. Cardinality(Holders(g)) = Cardinality(Holders(f)) - 1
  BY <1>1, <1>2, FS_RemoveElement
<1> QED
  BY <1>1, <1>2, <1>3 DEF Counted

\* Process p is killed that had it open.
LEMMA CountLeft ==
  ASSUME NEW f, NEW g, NEW n, NEW l, NEW p \in Pids, Counted(f, n, l),
         Holds(f[p]), g[p].prog = "ended",
         \A q \in Pids \ {p} : g[q].prog = f[q].prog /\ g[q].pc = f[q].pc
  PROVE  Counted(g, n, l + 1)
<1>1. ~ Holds(g[p]) /\ f[p].prog # "ended"
  BY DEF Holds
<1>2. \A q \in Pids \ {p} : Holds(g[q]) <=> Holds(f[q])
  BY DEF Holds
<1>3. /\ p \in Holders(f) /\ Holders(g) = Holders(f) \ {p}
      /\ p \notin Gone(f) /\ Gone(g) = Gone(f) \cup {p}
  BY <1>1, <1>2 DEF Holders, Gone
<1>4. /\ Cardinality(Holders(f)) \in Nat /\ Cardinality(Gone(f)) \in Nat
      /\ IsFiniteSet(Holders(f)) /\ IsFiniteSet(Gone(f))
  BY SetsFinite
<1>5. Cardinality(Holders(g)) = Cardinality(Holders(f)) - 1
  BY <1>3, <1>4, FS_RemoveElement
<1>6. Cardinality(Gone(g)) = Cardinality(Gone(f)) + 1
  BY <1>3, <1>4, FS_AddElement
<1> QED
  BY <1>4, <1>5, <1>6 DEF Counted

\* The shell that opens the keyboard is the first to do so, unless one was left open.
LEMMA FirstToOpen ==
  ASSUME NEW f, NEW n, NEW p \in Pids, Session(f), Counted(f, n, 0),
         f[p].prog = "shell", f[p].pc = "start"
  PROVE  n = 0
<1>1. \A q \in Pids : ~ Holds(f[q])
  BY RootIsPid DEF Session, Holds
<1>2. Holders(f) = {}
  BY <1>1 DEF Holders
<1>3. Cardinality({}) = 0
  BY FS_EmptySet
<1> QED
  BY <1>2, <1>3 DEF Counted

Keyboards == [refcount : Int, echo : BOOLEAN, done : BOOLEAN]

LEMMA OpenType ==
  ASSUME NEW k \in Keyboards, k.refcount \in Nat
  PROVE  /\ kbd_open(k) \in Keyboards /\ kbd_open(k).refcount = k.refcount + 1
         /\ k.refcount = 0 => kbd_open(k).echo
<1>1. CASE k.refcount > 0
  <2>1. kbd_open(k) = [k EXCEPT !.refcount = k.refcount + 1]
    BY <1>1 DEF kbd_open
  <2> QED
    BY <1>1, <2>1 DEF Keyboards
<1>2. CASE ~ (k.refcount > 0)
  <2>1. k.refcount = 0 /\ kbd_open(k) = [refcount |-> 1, echo |-> TRUE, done |-> FALSE]
    BY <1>2 DEF kbd_open
  <2> QED
    BY <2>1 DEF Keyboards
<1> QED
  BY <1>1, <1>2

LEMMA CloseType ==
  ASSUME NEW k \in Keyboards
  PROVE  /\ kbd_close(k) \in Keyboards /\ kbd_close(k).refcount = k.refcount - 1
         /\ kbd_close(k).echo = k.echo
BY DEF kbd_close, Keyboards

-----------------------------------------------------------------------------
(***************************************************************************)
(* The invariant.                                                          *)
(***************************************************************************)

\* k, arg, pid and l are values of kbd, command_arg, pid_to_kill and left.
Right(f, k, arg, pid, l) ==
  /\ Session(f) /\ Attended(f, arg, pid)
  /\ Counted(f, k.refcount, l) /\ Echoing(f, k.echo, l)

Typed ==
  /\ proc \in [Pids -> Processes] /\ kbd \in Keyboards
  /\ login \in [user : Seq(Nat), pass : Seq(Nat)]
  /\ Fits(buf) /\ pid_to_kill \in Int /\ command_arg \in Pids \cup {NONE}

IInv == Typed /\ halt = FALSE /\ Right(proc, kbd, command_arg, pid_to_kill, left)

LEMMA CountNatural ==
  ASSUME NEW f, NEW n, NEW l, Counted(f, n, l)
  PROVE  n \in 0..MaxPid /\ l \in 0..MaxPid
<1>1. /\ Cardinality(Holders(f)) \in Nat /\ Cardinality(Gone(f)) \in Nat /\ MaxPid \in Nat
      /\ Cardinality(Holders(f)) + Cardinality(Gone(f)) <= MaxPid
  BY SetsFinite, ShellAssumption
<1> QED
  BY <1>1 DEF Counted

\* A step that leaves the keyboard as it was.
LEMMA KeyboardKept ==
  ASSUME NEW f, NEW g, NEW k, NEW k1, NEW arg, NEW arg1, NEW pid, NEW pid1, NEW l,
         Right(f, k, arg, pid, l), Session(g) /\ Attended(g, arg1, pid1), Keeps(f, g),
         k1.refcount = k.refcount, k1.echo = k.echo
  PROVE  Right(g, k1, arg1, pid1, l)
<1>1. Counted(g, k.refcount, l)
  BY CountKept DEF Right, Keeps
<1>2. Echoing(g, k.echo, l)
  BY EchoKept DEF Right
<1> QED
  BY <1>1, <1>2 DEF Right

LEMMA MoverKeeps ==
  ASSUME NEW f, NEW g, NEW p, Moves(f, g, p), Holds(g[p]) <=> Holds(f[p]), g[p].pc # "pass"
  PROVE  Keeps(f, g)
BY DEF Moves, Keeps

\* Root goes on, and leaves the keyboard as it was.
LEMMA RootGoesOn ==
  ASSUME IInv, At(ROOT, "root", proc[ROOT].pc), proc[ROOT].pc # "wait" \/ proc[ROOT].child = NONE,
         NEW g, NEW pc, Went(proc, g, ROOT, pc), pc # "pass", Holds(g[ROOT]) <=> Holds(proc[ROOT]),
         NEW k, k.refcount = kbd.refcount, k.echo = kbd.echo
  PROVE  g \in [Pids -> Processes] /\ Right(g, k, command_arg, pid_to_kill, left)
<1>1. Moves(proc, g, ROOT) /\ g[ROOT].pc # "pass"
  BY DEF Went
<1>2. Keeps(proc, g)
  BY <1>1, MoverKeeps
<1>3. proc[ROOT].prog = "root" /\ Session(proc) /\ Attended(proc, command_arg, pid_to_kill)
  BY DEF At, Is, IInv, Right
<1>4. Session(g) /\ Attended(g, command_arg, pid_to_kill)
  BY <1>1, <1>3, RootMoves
<1>5. Right(g, k, command_arg, pid_to_kill, left)
  BY <1>2, <1>4, KeyboardKept DEF IInv
<1> QED
  BY <1>5 DEF Went

LEMMA RootReads ==
  ASSUME IInv, RootUser \/ RootPass
  PROVE  IInv'
<1>1. PICK r \in Reads(Names) :
        kbd' = r.kbd /\ (\/ login' = [login EXCEPT !.user = filter_newline(r.data)]
                         \/ login' = [login EXCEPT !.pass = filter_newline(r.data)])
  BY DEF RootUser, RootPass
<1>2. kbd \in [refcount : Int, echo : BOOLEAN, done : BOOLEAN]
  BY DEF IInv, Typed, Keyboards
<1>3. /\ Fits(filter_newline(r.data)) /\ r.kbd \in Keyboards
      /\ r.kbd.refcount = kbd.refcount /\ r.kbd.echo = kbd.echo
  BY <1>2, ReadType DEF Keyboards
<1>4. login' \in [user : Seq(Nat), pass : Seq(Nat)]
  BY <1>1, <1>3 DEF Fits, IInv, Typed
<1>5. ASSUME NEW pc, pc \in {"ioctl", "close"}, proc' = Goes(ROOT, pc),
             At(ROOT, "root", "user") \/ At(ROOT, "root", "pass")
      PROVE  proc' \in [Pids -> Processes] /\ Right(proc', r.kbd, command_arg, pid_to_kill, left)
  <2>1. Went(proc, proc', ROOT, pc)
    BY <1>5, GoesOn, RootIsPid DEF IInv, Typed, Places
  <2>2. At(ROOT, "root", proc[ROOT].pc) /\ proc[ROOT].pc # "wait" /\ pc # "pass"
    BY <1>5 DEF At
  <2>3. Holds(proc'[ROOT]) <=> Holds(proc[ROOT])
    BY <1>5, <2>1 DEF Went, Moves, Holds, At, Is
  <2> QED
    BY <1>3, <2>1, <2>2, <2>3, RootGoesOn
<1>6. proc' \in [Pids -> Processes] /\ Right(proc', kbd', command_arg, pid_to_kill, left)
  BY <1>1, <1>5 DEF RootUser, RootPass
<1> QED
  BY <1>1, <1>3, <1>4, <1>6 DEF IInv, Typed, RootUser, RootPass

\* Root moves, and there is no shell.
LEMMA RootInCharge ==
  ASSUME IInv, proc[ROOT].prog = "root", proc[ROOT].pc # "wait" \/ proc[ROOT].child = NONE,
         NEW g, Moves(proc, g, ROOT)
  PROVE  /\ Session(g) /\ Attended(g, command_arg, pid_to_kill)
         /\ \A p \in Pids : g[p].prog # "shell"
<1>1. Session(proc) /\ Attended(proc, command_arg, pid_to_kill)
  BY DEF IInv, Right
<1>2. \A p \in Pids : proc[p].prog # "shell"
  BY <1>1, NoShell
<1> QED
  BY <1>1, <1>2, RootMoves DEF Moves

LEMMA RootOpens ==
  ASSUME IInv, RootOpen
  PROVE  IInv'
<1>1. Went(proc, proc', ROOT, "user")
  BY GoesOn, RootIsPid DEF IInv, Typed, Places, RootOpen
<1>2. /\ proc[ROOT].prog = "root" /\ proc[ROOT].pc = "start"
      /\ proc'[ROOT].prog = "root" /\ proc'[ROOT].pc = "user" /\ Moves(proc, proc', ROOT)
  BY <1>1 DEF RootOpen, At, Is, Went, Moves
<1>3. /\ Session(proc') /\ Attended(proc', command_arg, pid_to_kill)
      /\ \A p \in Pids : proc'[p].prog # "shell"
  BY <1>2, RootInCharge
<1>4. Counted(proc, kbd.refcount, left) /\ kbd.refcount \in Nat /\ kbd \in Keyboards
  BY CountNatural DEF IInv, Typed, Right
<1>5. Counted(proc', kbd.refcount + 1, left)
  BY <1>2, <1>4, CountOpened DEF Holds
<1>6. kbd' \in Keyboards /\ kbd'.refcount = kbd.refcount + 1
  BY <1>4, OpenType DEF RootOpen
<1>7. Echoing(proc', kbd'.echo, left)
  BY <1>2, <1>3 DEF Echoing
<1>8. login' \in [user : Seq(Nat), pass : Seq(Nat)]
  BY DEF RootOpen
<1> QED
  BY <1>1, <1>3, <1>5, <1>6, <1>7, <1>8 DEF IInv, Typed, Right, RootOpen, Went

LEMMA RootTurnsEchoOff ==
  ASSUME IInv, RootIoctl
  PROVE  IInv'
<1>1. Went(proc, proc', ROOT, "pass")
  BY GoesOn, RootIsPid DEF IInv, Typed, Places, RootIoctl
<1>2. /\ proc[ROOT].prog = "root" /\ proc[ROOT].pc = "ioctl"
      /\ proc'[ROOT].prog = "root" /\ proc'[ROOT].pc = "pass" /\ Moves(proc, proc', ROOT)
  BY <1>1 DEF RootIoctl, At, Is, Went, Moves
<1>3. /\ Session(proc') /\ Attended(proc', command_arg, pid_to_kill)
      /\ \A p \in Pids : proc'[p].prog # "shell"
  BY <1>2, RootInCharge
<1>4. kbd' \in Keyboards /\ kbd'.refcount = kbd.refcount /\ kbd'.echo = FALSE
  BY DEF IInv, Typed, Keyboards, RootIoctl
<1>5. \A p \in Pids : Holds(proc'[p]) <=> Holds(proc[p])
  BY <1>2 DEF Moves, Holds
<1>6. \A p \in Pids : proc'[p].prog = proc[p].prog
  BY <1>2 DEF Moves
<1>7. Counted(proc', kbd.refcount, left)
  BY <1>5, <1>6, CountKept DEF IInv, Right
<1>8. Echoing(proc', kbd'.echo, left)
  BY <1>3, <1>4 DEF Echoing
<1> QED
  BY <1>1, <1>3, <1>4, <1>7, <1>8 DEF IInv, Typed, Right, RootIoctl, Went

LEMMA RootCloses ==
  ASSUME IInv, RootClose
  PROVE  IInv'
<1>1. Went(proc, proc', ROOT, "check")
  BY GoesOn, RootIsPid DEF IInv, Typed, Places, RootClose
<1>2. /\ proc[ROOT].prog = "root" /\ proc[ROOT].pc = "close"
      /\ proc'[ROOT].prog = "root" /\ proc'[ROOT].pc = "check" /\ Moves(proc, proc', ROOT)
  BY <1>1 DEF RootClose, At, Is, Went, Moves
<1>3. /\ Session(proc') /\ Attended(proc', command_arg, pid_to_kill)
      /\ \A p \in Pids : proc'[p].prog # "shell"
  BY <1>2, RootInCharge
<1>4. Counted(proc, kbd.refcount, left) /\ kbd \in Keyboards
  BY DEF IInv, Typed, Right
<1>5. Counted(proc', kbd.refcount - 1, left)
  BY <1>2, <1>4, CountClosed DEF Holds
<1>6. kbd' \in Keyboards /\ kbd'.refcount = kbd.refcount - 1
  BY <1>4, CloseType DEF RootClose
<1>7. Echoing(proc', kbd'.echo, left)
  BY <1>2, <1>3 DEF Echoing
<1> QED
  BY <1>1, <1>3, <1>5, <1>6, <1>7 DEF IInv, Typed, Right, RootClose, Went

LEMMA RootWaits ==
  ASSUME IInv, RootWait \/ (RootCheck /\ proc' = Goes(ROOT, "start"))
  PROVE  IInv'
<1>1. Went(proc, proc', ROOT, "start")
  BY GoesOn, RootIsPid DEF IInv, Typed, Places, RootWait
<1>2. /\ At(ROOT, "root", proc[ROOT].pc) /\ proc[ROOT].pc \in {"check", "wait"}
      /\ proc[ROOT].pc # "wait" \/ proc[ROOT].child = NONE
  BY DEF RootWait, RootCheck, At
<1>3. Holds(proc'[ROOT]) <=> Holds(proc[ROOT])
  BY <1>1, <1>2 DEF Went, Moves, Holds, At, Is
<1>4. proc' \in [Pids -> Processes] /\ Right(proc', kbd, command_arg, pid_to_kill, left)
  BY <1>1, <1>2, <1>3, RootGoesOn
<1> QED
  BY <1>4 DEF IInv, Typed, RootWait, RootCheck

LEMMA RootChecks ==
  ASSUME IInv, RootCheck
  PROVE  IInv'
<1>1. CASE proc' = Goes(ROOT, "start")
  BY <1>1, RootWaits
<1>2. CASE proc' = syscreate(ROOT, "shell", <<>>, TRUE)
  <2>1. /\ proc[ROOT].prog = "root" /\ proc[ROOT].pc = "check" /\ proc \in [Pids -> Processes]
        /\ ROOT \in Pids /\ <<>> \in Seq(Nat)
        /\ Session(proc) /\ Attended(proc, command_arg, pid_to_kill)
    BY RootIsPid DEF RootCheck, At, Is, IInv, Typed, Right
  <2>2. ASSUME NextPid = NONE
        PROVE  /\ proc' \in [Pids -> Processes] /\ Keeps(proc, proc')
               /\ Session(proc') /\ Attended(proc', command_arg, pid_to_kill)
    <3>1. proc' \in [Pids -> Processes] /\ Moves(proc, proc', ROOT) /\ proc'[ROOT].pc = "wait"
      BY <1>2, <2>1, <2>2, CreateFailed
    <3>2. Holds(proc'[ROOT]) <=> Holds(proc[ROOT])
      BY <2>1, <3>1 DEF Moves, Holds
    <3>3. Keeps(proc, proc')
      BY <3>1, <3>2, MoverKeeps
    <3> QED
      BY <2>1, <3>1, <3>3, RootMoves
  <2>3. ASSUME NextPid # NONE
        PROVE  /\ proc' \in [Pids -> Processes] /\ Keeps(proc, proc')
               /\ Session(proc') /\ Attended(proc', command_arg, pid_to_kill)
    <3>1. PICK c : c = NextPid
      OBVIOUS
    <3>2. PICK prog, arg, waits : prog = "shell" /\ arg = <<>> /\ waits = TRUE
      OBVIOUS
    <3>3. /\ proc' \in [Pids -> Processes] /\ c \in Pids /\ c # ROOT /\ proc[c].prog = "none"
          /\ \A q \in Pids \ {ROOT, c} : proc'[q] = proc[q]
          /\ proc'[ROOT].prog = "root" /\ proc'[ROOT].pc = "wait" /\ proc'[ROOT].child = c
          /\ proc'[c] = Started(prog, arg)
      <4>1. /\ prog \in {"shell", "t", "ps", "a", "k"} /\ arg \in Seq(Nat) /\ waits \in BOOLEAN
            /\ proc' = syscreate(ROOT, prog, arg, waits) /\ c # NONE /\ proc[ROOT].prog # "none"
        BY <1>2, <2>1, <2>3, <3>1, <3>2
      <4>2. StartsAndWaits(proc, proc', ROOT, c, prog, arg, waits)
        BY <2>1, <3>1, <4>1, CreateStarted
      <4> QED
        BY <2>1, <3>2, <4>2 DEF StartsAndWaits
    <3>4. proc'[c].prog = "shell" /\ proc'[c].pc = "start"
      BY <3>2, <3>3 DEF Started, Free
    <3>5. Session(proc') /\ Attended(proc', command_arg, pid_to_kill)
      BY <2>1, <3>3, <3>4, RootStarts
    <3>6. Keeps(proc, proc')
      BY <2>1, <3>3, <3>4 DEF Keeps, Holds
    <3> QED
      BY <3>3, <3>5, <3>6
  <2>4. Right(proc', kbd, command_arg, pid_to_kill, left)
    BY <2>2, <2>3, KeyboardKept DEF IInv
  <2> QED
    BY <2>2, <2>3, <2>4 DEF IInv, Typed, RootCheck
<1> QED
  BY <1>1, <1>2 DEF RootCheck

\* The shell goes on, and leaves the keyboard as it was.
LEMMA ShellGoesOn ==
  ASSUME IInv, NEW p \in Pids, proc[p].prog = "shell", proc[p].pc # "wait" \/ proc[p].child = NONE,
         NEW g, Moves(proc, g, p), g[p].pc # "pass", Holds(g[p]) <=> Holds(proc[p]),
         NEW k, k.refcount = kbd.refcount, k.echo = kbd.echo, NEW arg, NEW pid
  PROVE  Right(g, k, arg, pid, left)
<1>1. Keeps(proc, g)
  BY MoverKeeps
<1>2. Session(proc) /\ Attended(proc, command_arg, pid_to_kill)
  BY DEF IInv, Right
<1>3. Session(g) /\ Attended(g, arg, pid)
  BY <1>2, ShellMoves
<1> QED
  BY <1>1, <1>3, KeyboardKept DEF IInv

\* An empty buffer.
LEMMA EmptyFits == Fits(<<>>)
<1>1. LineSize \in Nat /\ valid_user \in Seq(Nat \ {NUL, EOL}) /\ Len(valid_user) + 2 <= LineSize
  BY ShellAssumption
<1>2. Len(valid_user) \in Nat
  BY <1>1, LenProperties
<1> QED
  BY <1>1, <1>2 DEF Fits

LEMMA ShellOpens ==
  ASSUME IInv, NEW p \in Pids, ShellOpen(p)
  PROVE  IInv'
<1>1. Went(proc, proc', p, "read")
  BY GoesOn DEF IInv, Typed, Places, ShellOpen
<1>2. /\ proc[p].prog = "shell" /\ proc[p].pc = "start"
      /\ proc'[p].prog = "shell" /\ proc'[p].pc = "read" /\ Moves(proc, proc', p)
  BY <1>1 DEF ShellOpen, At, Is, Went, Moves
<1>3. Session(proc) /\ Attended(proc, command_arg, pid_to_kill)
  BY DEF IInv, Right
<1>4. Session(proc') /\ Attended(proc', command_arg, pid_to_kill)
  BY <1>2, <1>3, ShellMoves
<1>5. /\ Counted(proc, kbd.refcount, left) /\ kbd.refcount \in Nat /\ kbd \in Keyboards
      /\ left = 0 => kbd.refcount = 0
  BY <1>2, <1>3, CountNatural, FirstToOpen DEF IInv, Typed, Right
<1>6. Counted(proc', kbd.refcount + 1, left)
  BY <1>2, <1>5, CountOpened DEF Holds
<1>7. kbd' \in Keyboards /\ kbd'.refcount = kbd.refcount + 1 /\ (left = 0 => kbd'.echo)
  BY <1>5, OpenType DEF ShellOpen
<1>8. proc'[ROOT].prog = "root" => proc'[ROOT].pc = "wait"
  BY <1>2, <1>4, RootIsPid DEF Session
<1>9. Echoing(proc', kbd'.echo, left)
  BY <1>7, <1>8 DEF Echoing
<1> QED
  BY <1>1, <1>4, <1>6, <1>7, <1>9, EmptyFits DEF IInv, Typed, Right, ShellOpen, Went

LEMMA ShellReads ==
  ASSUME IInv, NEW p \in Pids, ShellRead(p)
  PROVE  IInv'
<1>1. PICK r \in Reads(Lines) :
        /\ kbd' = r.kbd /\ buf' = filter_newline(r.data)
        /\ proc' = Goes(p, IF r.data = <<>> THEN "close" ELSE "command")
  BY DEF ShellRead
<1>2. PICK pc : pc = IF r.data = <<>> THEN "close" ELSE "command"
  OBVIOUS
<1>3. pc \in Places /\ pc \in {"close", "command"}
  BY <1>2 DEF Places
<1>4. Went(proc, proc', p, pc)
  BY <1>1, <1>2, <1>3, GoesOn DEF IInv, Typed
<1>5. kbd \in [refcount : Int, echo : BOOLEAN, done : BOOLEAN]
  BY DEF IInv, Typed, Keyboards
<1>6. /\ Fits(filter_newline(r.data)) /\ r.kbd \in Keyboards
      /\ r.kbd.refcount = kbd.refcount /\ r.kbd.echo = kbd.echo
  BY <1>5, ReadType DEF Keyboards
<1>7. proc[p].prog = "shell" /\ proc[p].pc = "read"
  BY DEF ShellRead, At, Is
<1>8. Moves(proc, proc', p) /\ proc'[p].pc # "pass" /\ (Holds(proc'[p]) <=> Holds(proc[p]))
  BY <1>3, <1>4, <1>7 DEF Went, Moves, Holds
<1>9. Right(proc', r.kbd, command_arg, pid_to_kill, left)
  BY <1>6, <1>7, <1>8, ShellGoesOn
<1> QED
  BY <1>1, <1>4, <1>6, <1>9 DEF IInv, Typed, ShellRead, Went

LEMMA ShellWaits ==
  ASSUME IInv, NEW p \in Pids, ShellWait(p)
  PROVE  IInv'
<1>1. Went(proc, proc', p, "read")
  BY GoesOn DEF IInv, Typed, Places, ShellWait
<1>2. proc[p].prog = "shell" /\ proc[p].pc = "wait" /\ proc[p].child = NONE
  BY DEF ShellWait, At, Is
<1>3. Moves(proc, proc', p) /\ proc'[p].pc # "pass" /\ (Holds(proc'[p]) <=> Holds(proc[p]))
  BY <1>1, <1>2 DEF Went, Moves, Holds
<1>4. Right(proc', kbd, command_arg, pid_to_kill, left)
  BY <1>2, <1>3, ShellGoesOn
<1> QED
  BY <1>1, <1>4 DEF IInv, Typed, ShellWait, Went

LEMMA ShellCloses ==
  ASSUME IInv, NEW p \in Pids, ShellClose(p)
  PROVE  IInv'
<1>1. Went(proc, proc', p, "end")
  BY GoesOn DEF IInv, Typed, Places, ShellClose
<1>2. /\ proc[p].prog = "shell" /\ proc[p].pc = "close"
      /\ proc'[p].prog = "shell" /\ proc'[p].pc = "end" /\ Moves(proc, proc', p)
  BY <1>1 DEF ShellClose, At, Is, Went, Moves
<1>3. Session(proc) /\ Attended(proc, command_arg, pid_to_kill)
  BY DEF IInv, Right
<1>4. Session(proc') /\ Attended(proc', command_arg, pid_to_kill)
  BY <1>2, <1>3, ShellMoves
<1>5. Counted(proc, kbd.refcount, left) /\ kbd \in Keyboards
  BY DEF IInv, Typed, Right
<1>6. Counted(proc', kbd.refcount - 1, left)
  BY <1>2, <1>5, CountClosed DEF Holds
<1>7. kbd' \in Keyboards /\ kbd'.refcount = kbd.refcount - 1
  BY <1>5, CloseType DEF ShellClose
<1>8. proc'[ROOT].prog = "root" => proc'[ROOT].pc = "wait"
  BY <1>2, <1>4, RootIsPid DEF Session
<1>9. \A q \in Pids : proc'[q].prog = "shell" => ~ Holds(proc'[q])
  BY <1>2, <1>4 DEF Session, Holds
<1>10. Echoing(proc', kbd'.echo, left)
  BY <1>8, <1>9 DEF Echoing
<1> QED
  BY <1>1, <1>4, <1>6, <1>7, <1>10, EmptyFits DEF IInv, Typed, Right, ShellClose, Went

\* The array arg of a shell is filled.
LEMMA ArgumentSet ==
  ASSUME NEW h \in [Pids -> Processes], NEW p \in Pids, NEW arg \in Seq(Nat)
  PROVE  /\ [h EXCEPT ![p].arg = arg] \in [Pids -> Processes]
         /\ \A q \in Pids \ {p} : [h EXCEPT ![p].arg = arg][q] = h[q]
         /\ [h EXCEPT ![p].arg = arg][p].prog = h[p].prog
         /\ [h EXCEPT ![p].arg = arg][p].pc = h[p].pc
         /\ [h EXCEPT ![p].arg = arg][p].killed = h[p].killed
         /\ [h EXCEPT ![p].arg = arg][p].child = h[p].child
         /\ [h EXCEPT ![p].arg = arg][p].arg = arg
<1>1. PICK r : r = [h[p] EXCEPT !.arg = arg]
  OBVIOUS
<1>2. h[p] \in Processes
  OBVIOUS
<1>3. /\ r \in Processes /\ r.prog = h[p].prog /\ r.pc = h[p].pc
      /\ r.killed = h[p].killed /\ r.child = h[p].child /\ r.arg = arg
  BY <1>1, <1>2 DEF Processes
<1>4. [h EXCEPT ![p].arg = arg] = [h EXCEPT ![p] = r]
  BY <1>1
<1> HIDE DEF Processes
<1>5. /\ [h EXCEPT ![p] = r] \in [Pids -> Processes]
      /\ [h EXCEPT ![p] = r][p] = r
      /\ \A q \in Pids \ {p} : [h EXCEPT ![p] = r][q] = h[q]
  BY <1>3
<1> QED
  BY <1>3, <1>4, <1>5

\* The shell p takes the line for a command, starts it and waits for it.
TakesLine(f, p, prog, word, waits, arg, pid) ==
  /\ p \in Pids /\ f[p].prog = "shell" /\ f[p].pc = "command" /\ ~ f[p].killed
  /\ prog \in {"t", "ps", "a", "k"} /\ Fits(word)
  /\ waits \in BOOLEAN /\ (prog # "t" => waits = TRUE)
  /\ prog = "a" => arg = p
  /\ prog = "k" => pid = atoi(Buffer(word))

LEMMA CommandStarts ==
  ASSUME IInv, NEW p, NEW prog, NEW word, NEW waits, NEW arg, NEW pid,
         TakesLine(proc, p, prog, word, waits, arg, pid),
         NEW g, g = [syscreate(p, prog, word, waits) EXCEPT ![p].arg = word]
  PROVE  g \in [Pids -> Processes] /\ Right(g, kbd, arg, pid, left)
<1> USE DEF TakesLine
<1>1. PICK h : h = syscreate(p, prog, word, waits)
  OBVIOUS
<1>2. /\ proc \in [Pids -> Processes] /\ word \in Seq(Nat)
      /\ Session(proc) /\ Attended(proc, command_arg, pid_to_kill)
  BY DEF IInv, Typed, Right, Fits
<1>3. CASE NextPid = NONE
  <2>1. h \in [Pids -> Processes] /\ Moves(proc, h, p) /\ h[p].pc = "wait"
    BY <1>1, <1>2, <1>3, CreateFailed
  <2>2. g \in [Pids -> Processes] /\ Moves(proc, g, p) /\ g[p].pc = "wait"
    BY <1>1, <1>2, <2>1, ArgumentSet DEF Moves
  <2>3. Holds(g[p]) <=> Holds(proc[p])
    BY <2>2 DEF Holds, Moves
  <2>4. Right(g, kbd, arg, pid, left)
    BY <2>2, <2>3, ShellGoesOn
  <2> QED
    BY <2>2, <2>4
<1>4. CASE NextPid # NONE
  <2>1. PICK c : c = NextPid
    OBVIOUS
  <2>2. StartsAndWaits(proc, h, p, c, prog, word, waits)
    BY <1>1, <1>2, <1>4, <2>1, CreateStarted
  <2>3. /\ c \in Pids /\ c # p /\ proc[c].prog = "none"
        /\ h \in [Pids -> Processes]
        /\ \A q \in Pids \ {p, c} : h[q] = proc[q]
        /\ h[p].prog = "shell" /\ h[p].pc = "wait" /\ ~ h[p].killed
        /\ waits => h[p].child = c
        /\ h[c] = Started(prog, word)
    BY <2>2 DEF StartsAndWaits
  <2>4. h[c].prog = prog /\ h[c].pc = "start" /\ h[c].arg = word
    BY <2>3 DEF Started, Free
  <2>5. /\ g \in [Pids -> Processes]
        /\ \A q \in Pids \ {p} : g[q] = h[q]
        /\ g[p].prog = "shell" /\ g[p].pc = "wait" /\ ~ g[p].killed /\ g[p].arg = word
        /\ waits => g[p].child = c
    BY <1>1, <1>2, <2>3, ArgumentSet
  <2>6. g[c].prog = prog /\ g[c].pc = "start" /\ g[c].arg = word
    BY <2>3, <2>4, <2>5
  <2>7. \A q \in Pids \ {p, c} : g[q] = proc[q]
    BY <2>3, <2>5
  <2>8. Session(g) /\ Attended(g, arg, pid)
    <3>1. Commands(proc, g, p, c, arg, pid)
      BY <2>3, <2>5, <2>6, <2>7 DEF Commands
    <3> QED
      BY <1>2, <3>1, ShellStarts
  <2>9. Keeps(proc, g)
    BY <2>3, <2>5, <2>6, <2>7 DEF Keeps, Holds
  <2>10. Right(g, kbd, arg, pid, left)
    BY <2>8, <2>9, KeyboardKept DEF IInv
  <2> QED
    BY <2>5, <2>10
<1> QED
  BY <1>3, <1>4

LEMMA ShellCommands ==
  ASSUME IInv, NEW p \in Pids, ShellCommand(p)
  PROVE  IInv'
<1>1. PICK c : c = get_command(buf)
  OBVIOUS
<1>2. Fits(c.command) /\ Fits(c.arg) /\ c.ampersand \in BOOLEAN
  BY <1>1, CommandType DEF IInv, Typed
<1>3. atoi(Buffer(c.arg)) \in Int
  BY <1>2, AtoiType
<1>4. proc[p].prog = "shell" /\ proc[p].pc = "command" /\ ~ proc[p].killed
  BY DEF ShellCommand, At, Is
<1>5. PICK waits : waits = ~ InBackground(c)
  OBVIOUS
<1>6. /\ waits \in BOOLEAN /\ (~ Equal(T, c.command) => waits = TRUE)
  BY <1>5 DEF InBackground
<1>7. PICK procs : procs = [prog \in {"t", "ps", "a", "k"} |->
        [syscreate(p, prog, c.arg, waits) EXCEPT ![p].arg = c.arg]]
  OBVIOUS
<1>8. /\ proc' = CASE Equal(T, c.command)  -> procs["t"]
                   [] Equal(PS, c.command) -> procs["ps"]
                   [] Equal(A, c.command)  -> procs["a"]
                   [] Equal(K, c.command)  -> procs["k"]
                   [] Equal(EX, c.command) -> Goes(p, "close")
                   [] OTHER                -> [Goes(p, "wait") EXCEPT ![p].arg = c.arg]
      /\ command_arg' = IF Equal(A, c.command) THEN p ELSE command_arg
      /\ pid_to_kill' = IF Equal(K, c.command) THEN atoi(Buffer(c.arg)) ELSE pid_to_kill
  BY <1>1, <1>5, <1>7 DEF ShellCommand
<1>9. command_arg' \in Pids \cup {NONE} /\ pid_to_kill' \in Int
  BY <1>3, <1>8 DEF IInv, Typed
<1>10. \A v, w \in {T, PS, A, K, EX} : Equal(v, c.command) /\ Equal(w, c.command) => v = w
  BY <1>2, OneCommand
<1>11. /\ T # PS /\ T # A /\ T # K /\ T # EX /\ PS # A /\ PS # K /\ PS # EX
       /\ A # K /\ A # EX /\ K # EX
  BY DEF T, PS, A, K, EX
<1>12. ASSUME NEW prog \in {"t", "ps", "a", "k"}, proc' = procs[prog], prog # "t" => waits = TRUE,
              prog = "a" => command_arg' = p, prog = "k" => pid_to_kill' = atoi(Buffer(c.arg))
       PROVE  proc' \in [Pids -> Processes] /\ Right(proc', kbd, command_arg', pid_to_kill', left)
  <2>1. proc' = [syscreate(p, prog, c.arg, waits) EXCEPT ![p].arg = c.arg]
    BY <1>7, <1>12
  <2>2. TakesLine(proc, p, prog, c.arg, waits, command_arg', pid_to_kill')
    BY <1>2, <1>4, <1>6, <1>12 DEF TakesLine
  <2> QED
    BY <2>1, <2>2, CommandStarts
<1>13. ASSUME proc' \in [Pids -> Processes], Moves(proc, proc', p), proc'[p].pc \in {"close", "wait"}
       PROVE  Right(proc', kbd, command_arg', pid_to_kill', left)
  <2>1. proc'[p].pc # "pass" /\ (Holds(proc'[p]) <=> Holds(proc[p])) /\ proc[p].pc # "wait"
    BY <1>4, <1>13 DEF Moves, Holds
  <2> QED
    BY <1>4, <1>13, <2>1, ShellGoesOn
<1>14. proc' \in [Pids -> Processes] /\ Right(proc', kbd, command_arg', pid_to_kill', left)
  <2>1. CASE Equal(T, c.command)
    <3>1. ~ Equal(PS, c.command) /\ ~ Equal(A, c.command) /\ ~ Equal(K, c.command) /\ ~ Equal(EX, c.command)
      BY <1>10, <1>11, <2>1
    <3>2. proc' = procs["t"]
      BY <1>8, <2>1, <3>1
    <3> QED
      BY <1>12, <3>2
  <2>2. CASE Equal(PS, c.command)
    <3>1. ~ Equal(T, c.command) /\ ~ Equal(A, c.command) /\ ~ Equal(K, c.command) /\ ~ Equal(EX, c.command)
      BY <1>10, <1>11, <2>2
    <3>2. proc' = procs["ps"]
      BY <1>8, <2>2, <3>1
    <3> QED
      BY <1>6, <1>12, <3>1, <3>2
  <2>3. CASE Equal(A, c.command)
    <3>1. ~ Equal(T, c.command) /\ ~ Equal(PS, c.command) /\ ~ Equal(K, c.command) /\ ~ Equal(EX, c.command)
      BY <1>10, <1>11, <2>3
    <3>2. proc' = procs["a"] /\ command_arg' = p
      BY <1>8, <2>3, <3>1
    <3> QED
      BY <1>6, <1>12, <3>1, <3>2
  <2>4. CASE Equal(K, c.command)
    <3>1. ~ Equal(T, c.command) /\ ~ Equal(PS, c.command) /\ ~ Equal(A, c.command) /\ ~ Equal(EX, c.command)
      BY <1>10, <1>11, <2>4
    <3>2. proc' = procs["k"] /\ pid_to_kill' = atoi(Buffer(c.arg))
      BY <1>8, <2>4, <3>1
    <3> QED
      BY <1>6, <1>12, <3>1, <3>2
  <2>5. CASE Equal(EX, c.command)
    <3>1. ~ Equal(T, c.command) /\ ~ Equal(PS, c.command) /\ ~ Equal(A, c.command) /\ ~ Equal(K, c.command)
      BY <1>10, <1>11, <2>5
    <3>2. proc' = Goes(p, "close")
      BY <1>8, <2>5, <3>1
    <3>3. Went(proc, proc', p, "close")
      BY <3>2, GoesOn DEF IInv, Typed, Places
    <3> QED
      BY <1>13, <3>3 DEF Went
  <2>6. CASE /\ ~ Equal(T, c.command) /\ ~ Equal(PS, c.command) /\ ~ Equal(A, c.command)
             /\ ~ Equal(K, c.command) /\ ~ Equal(EX, c.command)
    <3>1. PICK h : h = Goes(p, "wait")
      OBVIOUS
    <3>2. proc' = [h EXCEPT ![p].arg = c.arg]
      BY <1>8, <2>6, <3>1
    <3>3. Went(proc, h, p, "wait")
      BY <3>1, GoesOn DEF IInv, Typed, Places
    <3>4. h \in [Pids -> Processes] /\ Moves(proc, h, p) /\ h[p].pc = "wait" /\ c.arg \in Seq(Nat)
      BY <1>2, <3>3 DEF Went, Fits
    <3>5. proc' \in [Pids -> Processes] /\ Moves(proc, proc', p) /\ proc'[p].pc = "wait"
      BY <3>2, <3>4, ArgumentSet DEF Moves
    <3> QED
      BY <1>13, <3>5
  <2> QED
    BY <2>1, <2>2, <2>3, <2>4, <2>5, <2>6
<1> QED
  BY <1>9, <1>14, EmptyFits DEF IInv, Typed, ShellCommand

\* A command goes on.
LEMMA CommandGoesOn ==
  ASSUME IInv, NEW p \in Pids, proc[p].prog \in {"t", "ps", "a", "k"}, proc[p].pc # "end",
         NEW pc \in {"start", "sleep", "kill", "alarm", "end"}, proc[p].prog = "a" => pc # "start"
  PROVE  /\ Goes(p, pc) \in [Pids -> Processes]
         /\ Right(Goes(p, pc), kbd, command_arg, pid_to_kill, left)
<1>1. PICK g : g = Goes(p, pc)
  OBVIOUS
<1>2. Went(proc, g, p, pc)
  BY <1>1, GoesOn DEF IInv, Typed, Places
<1>3. Moves(proc, g, p) /\ g[p].arg = proc[p].arg /\ g[p].pc = pc /\ g[p].prog = proc[p].prog
  BY <1>2 DEF Went, Moves
<1>4. Session(proc) /\ Attended(proc, command_arg, pid_to_kill)
  BY DEF IInv, Right
<1>5. Session(g) /\ Attended(g, command_arg, pid_to_kill)
  BY <1>3, <1>4, CommandMoves
<1>6. Keeps(proc, g)
  BY <1>3, MoverKeeps DEF Holds
<1>7. Right(g, kbd, command_arg, pid_to_kill, left)
  BY <1>5, <1>6, KeyboardKept DEF IInv
<1> QED
  BY <1>1, <1>2, <1>7 DEF Went

LEMMA CommandSteps ==
  ASSUME IInv, NEW p \in Pids,
         \/ Ps(p) \/ T_Puts(p) \/ T_Wakes(p) \/ K_Check(p) \/ A_Start(p) \/ A_Wakes(p) \/ A_Handler(p)
  PROVE  IInv'
<1>1. PICK pc \in {"start", "sleep", "kill", "alarm", "end"} :
        proc' = Goes(p, pc) /\ (proc[p].prog = "a" => pc # "start")
  <2>1. CASE Ps(p) \/ T_Puts(p)
    BY <2>1 DEF Ps, T_Puts, At, Is
  <2>2. CASE T_Wakes(p)
    BY <2>2 DEF T_Wakes, At, Is
  <2>3. CASE K_Check(p)
    BY <2>3 DEF K_Check, At, Is
  <2>4. CASE A_Start(p)
    BY <2>4 DEF A_Start, At, Is
  <2>5. CASE A_Wakes(p) \/ A_Handler(p)
    BY <2>5 DEF A_Wakes, A_Handler
  <2> QED
    BY <2>1, <2>2, <2>3, <2>4, <2>5
<1>2. proc[p].prog \in {"t", "ps", "a", "k"} /\ proc[p].pc # "end"
  BY DEF Ps, T_Puts, T_Wakes, K_Check, A_Start, A_Wakes, A_Handler, At, Is
<1>3. /\ proc' \in [Pids -> Processes]
      /\ Right(proc', kbd, command_arg, pid_to_kill, left)
  BY <1>1, <1>2, CommandGoesOn
<1>4. UNCHANGED <<kbd, login, buf, pid_to_kill, command_arg, halt, left>>
  BY DEF Ps, T_Puts, T_Wakes, K_Check, A_Start, A_Wakes, A_Handler
<1> QED
  BY <1>3, <1>4 DEF IInv, Typed

\* k marks no process that reads.
LEMMA CommandKills ==
  ASSUME IInv, NEW p \in Pids, K_Kill(p)
  PROVE  IInv'
<1>1. PICK f : f = Goes(p, "end")
  OBVIOUS
<1>2. Went(proc, f, p, "end")
  BY <1>1, GoesOn DEF IInv, Typed, Places
<1>3. /\ proc[p].prog = "k" /\ proc[p].pc = "kill" /\ InProgress(proc, p)
      /\ Session(proc) /\ Attended(proc, command_arg, pid_to_kill)
  BY DEF K_Kill, At, Is, InProgress, IInv, Right
<1>4. \A q \in Pids : proc[q].prog \in {"root", "shell"} => proc[q].pc = "wait"
  BY <1>3, KillerAlone
<1>5. PICK exists : exists = (pid_to_kill \in Pids /\ Alive(pid_to_kill))
  OBVIOUS
<1>6. ~ (exists /\ IsReading(pid_to_kill))
  BY <1>4, <1>5 DEF IsReading, Is
<1>7. halt' = FALSE
  BY <1>5, <1>6 DEF K_Kill
<1>8. PICK marked : marked = [q \in Pids |-> [f[q] EXCEPT !.killed = TRUE]]
  OBVIOUS
<1>9. proc' = [q \in Pids |-> IF exists /\ q = pid_to_kill THEN marked[q] ELSE f[q]]
  BY <1>1, <1>5, <1>8 DEF K_Kill
<1>10. ASSUME NEW q \in Pids
       PROVE  /\ marked[q] \in Processes /\ marked[q].prog = f[q].prog /\ marked[q].pc = f[q].pc
              /\ marked[q].child = f[q].child
  <2>1. f[q] \in Processes /\ marked[q] = [f[q] EXCEPT !.killed = TRUE]
    BY <1>2, <1>8 DEF Went
  <2> QED
    BY <2>1 DEF Processes
<1>11. /\ \A q \in Pids : f[q] \in Processes
       /\ \A q \in Pids : f[q].prog = proc[q].prog /\ f[q].child = proc[q].child
       /\ \A q \in Pids \ {p} : f[q].pc = proc[q].pc
       /\ f[p].pc = "end"
  BY <1>2 DEF Went, Moves
<1>12. /\ proc' \in [Pids -> Processes] /\ proc'[p].pc = "end"
       /\ \A q \in Pids : proc'[q].prog = proc[q].prog /\ proc'[q].child = proc[q].child
       /\ \A q \in Pids \ {p} : proc'[q].pc = proc[q].pc
  BY <1>9, <1>10, <1>11
<1>13. Session(proc') /\ Attended(proc', command_arg, pid_to_kill)
  BY <1>3, <1>12, ProcessKills
<1>14. Keeps(proc, proc')
  BY <1>3, <1>12 DEF Keeps, Holds
<1>15. Right(proc', kbd, command_arg, pid_to_kill, left)
  BY <1>13, <1>14, KeyboardKept DEF IInv
<1> QED
  BY <1>7, <1>12, <1>15 DEF IInv, Typed, K_Kill

LEMMA ProgramStops ==
  ASSUME IInv, NEW p \in Pids, Stop(p)
  PROVE  IInv'
<1>1. /\ proc' \in [Pids -> Processes] /\ proc'[p].prog = "ended"
      /\ \A q \in Pids \ {p} :
           /\ proc'[q].prog = proc[q].prog /\ proc'[q].pc = proc[q].pc
           /\ proc'[q].killed = proc[q].killed /\ proc'[q].arg = proc[q].arg
           /\ proc[q].child # p => proc'[q].child = proc[q].child
  BY EndProperties DEF Stop, IInv, Typed
<1>2. proc[p].pc = "end" /\ Session(proc) /\ Attended(proc, command_arg, pid_to_kill)
  BY DEF Stop, At, IInv, Right
<1>3. Session(proc') /\ Attended(proc', command_arg, pid_to_kill)
  BY <1>1, <1>2, ProcessEnds
<1>4. Keeps(proc, proc')
  BY <1>1, <1>2 DEF Keeps, Holds
<1>5. Right(proc', kbd, command_arg, pid_to_kill, left)
  BY <1>3, <1>4, KeyboardKept DEF IInv
<1> QED
  BY <1>1, <1>5 DEF IInv, Typed, Stop

LEMMA ProgramKilled ==
  ASSUME IInv, NEW p \in Pids, Killed(p)
  PROVE  IInv'
<1>1. /\ proc' \in [Pids -> Processes] /\ proc'[p].prog = "ended"
      /\ \A q \in Pids \ {p} :
           /\ proc'[q].prog = proc[q].prog /\ proc'[q].pc = proc[q].pc
           /\ proc'[q].killed = proc[q].killed /\ proc'[q].arg = proc[q].arg
           /\ proc[q].child # p => proc'[q].child = proc[q].child
  BY EndProperties DEF Killed, IInv, Typed
<1>2. proc[p].killed /\ Session(proc) /\ Attended(proc, command_arg, pid_to_kill)
  BY DEF Killed, IInv, Right
<1>3. Session(proc') /\ Attended(proc', command_arg, pid_to_kill)
  BY <1>1, <1>2, ProcessEnds
<1>4. Fits(buf')
  BY EmptyFits DEF IInv, Typed, Killed
<1>5. HasKeyboard(p) <=> Holds(proc[p])
  BY DEF HasKeyboard, Holds, Is
<1>6. CASE ~ Holds(proc[p])
  <2>1. Keeps(proc, proc') /\ left' = left
    BY <1>1, <1>5, <1>6 DEF Keeps, Holds, Killed, IInv, Right, Counted
  <2>2. Right(proc', kbd, command_arg, pid_to_kill, left)
    BY <1>3, <2>1, KeyboardKept DEF IInv
  <2> QED
    BY <1>1, <1>4, <2>1, <2>2 DEF IInv, Typed, Killed
<1>7. CASE Holds(proc[p])
  <2>1. left' = left + 1 /\ left \in Nat
    BY <1>5, <1>7 DEF Killed, IInv, Right, Counted
  <2>2. Counted(proc, kbd.refcount, left)
    BY DEF IInv, Right
  <2>3. Counted(proc', kbd.refcount, left + 1)
    BY <1>1, <1>7, <2>2, CountLeft
  <2>4. proc'[ROOT].prog = "root" /\ proc'[ROOT].pc = "pass" => proc[ROOT].prog = "root" /\ proc[ROOT].pc = "pass"
    BY <1>1, RootIsPid
  <2>5. Echoing(proc', kbd.echo, left + 1)
    BY <2>1, <2>4 DEF Echoing, IInv, Right
  <2> QED
    BY <1>1, <1>3, <1>4, <2>1, <2>3, <2>5 DEF IInv, Typed, Right, Killed
<1> QED
  BY <1>6, <1>7

-----------------------------------------------------------------------------
(***************************************************************************)
(* The theorems.                                                           *)
(***************************************************************************)
LEMMA InitRight == Init => IInv
<1> SUFFICES ASSUME Init PROVE IInv
  OBVIOUS
<1>1. <<>> \in Seq(Nat)
  OBVIOUS
<1>2. Free \in Processes /\ Free.prog = "none"
  BY <1>1 DEF Free, Processes
<1>3. PICK e : e = <<>>
  OBVIOUS
<1>4. PICK r : r = Started("root", e)
  OBVIOUS
<1>5. r \in Processes /\ r.prog = "root" /\ r.pc = "start"
  BY <1>1, <1>3, <1>4 DEF Started, Free, Processes
<1>6. proc = [p \in Pids |-> IF p = ROOT THEN r ELSE Free]
  BY <1>3, <1>4 DEF Init
<1>7. /\ proc \in [Pids -> Processes]
      /\ proc[ROOT].prog = "root" /\ proc[ROOT].pc = "start"
      /\ \A p \in Pids \ {ROOT} : proc[p].prog = "none"
  <2> HIDE DEF Processes
  <2> QED
    BY <1>2, <1>5, <1>6, RootIsPid
<1>8. kbd \in Keyboards /\ kbd.refcount = 0 /\ kbd.echo = FALSE
  BY DEF Init, Keyboards
<1>9. Typed
  BY <1>1, <1>7, <1>8, EmptyFits DEF Init, Typed
<1>10. \A p \in Pids : proc[p].prog # "shell" /\ ~ InProgress(proc, p) /\ ~ Holds(proc[p])
  BY <1>7 DEF InProgress, Holds
<1>11. Session(proc) /\ Attended(proc, command_arg, pid_to_kill)
  BY <1>7, <1>10 DEF Session, Attended
<1>12. Holders(proc) = {} /\ Gone(proc) = {}
  BY <1>7, <1>10 DEF Holders, Gone
<1>13. Cardinality(Holders(proc)) = 0 /\ Cardinality(Gone(proc)) = 0 /\ left = 0
  BY <1>12, FS_EmptySet DEF Init
<1>14. Counted(proc, kbd.refcount, left)
  BY <1>8, <1>13 DEF Counted
<1>15. Echoing(proc, kbd.echo, left)
  BY <1>7, <1>10 DEF Echoing
<1> QED
  BY <1>9, <1>11, <1>14, <1>15 DEF IInv, Right, Init

LEMMA NextRight == IInv /\ [Next]_vars => IInv'
<1> SUFFICES ASSUME IInv, [Next]_vars PROVE IInv'
  OBVIOUS
<1>1. CASE Root
  BY <1>1, RootOpens, RootTurnsEchoOff, RootCloses, RootChecks, RootWaits DEF Root
<1>2. CASE Input
  BY <1>2, RootReads, ShellReads DEF Input
<1>3. ASSUME NEW p \in Pids, Program(p) PROVE IInv'
  <2>1. CASE ShellOpen(p) \/ ShellCommand(p) \/ ShellWait(p) \/ ShellClose(p)
    BY <2>1, ShellOpens, ShellCommands, ShellWaits, ShellCloses
  <2>2. CASE \/ Ps(p) \/ T_Puts(p) \/ T_Wakes(p) \/ K_Check(p)
             \/ A_Start(p) \/ A_Wakes(p) \/ A_Handler(p)
    BY <2>2, CommandSteps
  <2>3. CASE K_Kill(p) \/ Stop(p) \/ Killed(p)
    BY <2>3, CommandKills, ProgramStops, ProgramKilled
  <2> QED
    BY <1>3, <2>1, <2>2, <2>3 DEF Program
<1>4. CASE UNCHANGED vars
  BY <1>4 DEF IInv, Typed, vars
<1> QED
  BY <1>1, <1>2, <1>3, <1>4 DEF Next, Idle

\* The invariant holds in every state.
LEMMA InvariantHolds == Spec => []IInv
BY InitRight, NextRight, PTL DEF Spec

\* Sessions follow one another, for any number of processes and whoever is killed when:
\* every variable has its type, kbd_refcount is the number of those that have the keyboard
\* open and of those that were killed with it, k never signals a process that reads, and
\* there is one shell, for which root waits.  (root, shell)
THEOREM Sessions == Spec => []SessionInv
<1>1. IInv => SessionInv
  <2> SUFFICES ASSUME IInv PROVE SessionInv
    OBVIOUS
  <2>1. Counted(proc, kbd.refcount, left) /\ Session(proc)
    BY DEF IInv, Right
  <2>2. kbd.refcount \in 0..MaxPid /\ left \in 0..MaxPid
    BY <2>1, CountNatural
  <2>3. kbd \in [refcount : 0..MaxPid, echo : BOOLEAN, done : BOOLEAN]
    BY <2>2 DEF IInv, Typed, Keyboards
  <2>4. TypeOK
    BY <2>2, <2>3 DEF TypeOK, IInv, Typed, Fits
  <2>5. Holders(proc) = {p \in Pids : HasKeyboard(p)}
    BY DEF Holders, Holds, HasKeyboard, Is
  <2>6. OpensCounted
    BY <2>1, <2>5 DEF OpensCounted, Counted
  <2>7. OneSession
    BY <2>1, RootIsPid DEF OneSession, Session, Is
  <2>8. KillSparesReaders
    BY DEF KillSparesReaders, IInv
  <2> QED
    BY <2>4, <2>6, <2>7, <2>8 DEF SessionInv
<1> QED
  BY <1>1, InvariantHolds, PTL

\* The echo is off for every password and on for every command, though one flag serves all
\* processes: whoever opens the keyboard first turns it on, and only root turns it off.
\* (root, shell)
THEOREM Echo == Spec => []EchoRight
<1>1. IInv => EchoRight
  <2> SUFFICES ASSUME IInv PROVE EchoRight
    OBVIOUS
  <2>1. Echoing(proc, kbd.echo, left)
    BY DEF IInv, Right
  <2>2. PasswordHidden
    BY <2>1 DEF PasswordHidden, Echoing, At, Is
  <2>3. ShellEchoes
    BY <2>1 DEF ShellEchoes, Echoing, Holds, At, Is
  <2> QED
    BY <2>2, <2>3 DEF EchoRight
<1> QED
  BY <1>1, InvariantHolds, PTL

\* Each command finds the argument of its own line, in command_arg or in pid_to_kill: the
\* shell that left it there has not ended, and reads no other line, before the command is
\* done with it.  (shell, command_a, command_k)
THEOREM Arguments == Spec => []ArgumentsIntact
<1>1. IInv => ArgumentsIntact
  <2> SUFFICES ASSUME IInv, NEW p \in Pids
               PROVE  /\ At(p, "a", "start") => Alive(command_arg) /\ proc[command_arg].arg = proc[p].arg
                      /\ At(p, "k", "start") \/ At(p, "k", "kill") => pid_to_kill = atoi(Buffer(proc[p].arg))
    BY DEF ArgumentsIntact
  <2>1. Attended(proc, command_arg, pid_to_kill)
    BY DEF IInv, Right
  <2>2. ASSUME InProgress(proc, p)
        PROVE  \E s \in Pids : Serves(proc, s, p) /\ Argument(proc, s, p, command_arg, pid_to_kill)
    BY <2>1, <2>2 DEF Attended
  <2>3. At(p, "a", "start") => Alive(command_arg) /\ proc[command_arg].arg = proc[p].arg
    BY <2>2 DEF At, Is, InProgress, Serves, Argument, Alive
  <2>4. At(p, "k", "start") \/ At(p, "k", "kill") => pid_to_kill = atoi(Buffer(proc[p].arg))
    BY <2>2 DEF At, Is, InProgress, Argument
  <2> QED
    BY <2>3, <2>4
<1> QED
  BY <1>1, InvariantHolds, PTL

\* Every line is taken apart into its words, whatever is typed and however long it is:
\* get_command() gives the first word and the next, and sees the ampersand that ends the
\* line.  (get_command)
THEOREM CommandLines == Spec => []CommandsParsed
<1>1. IInv => CommandsParsed
  BY LinesParsed DEF CommandsParsed, IInv, Typed, Fits
<1> QED
  BY <1>1, InvariantHolds, PTL

=============================================================================
