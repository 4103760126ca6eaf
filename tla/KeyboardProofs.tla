--------------------------- MODULE KeyboardProofs ---------------------------
(***************************************************************************)
(* The keyboard driver keeps its counts, never writes where nobody reads,  *)
(* and serves every reader, for every number of processes, descriptors and *)
(* type-ahead characters.                                                  *)
(***************************************************************************)
EXTENDS Keyboard, NumberProofs, FiniteSetTheorems

-----------------------------------------------------------------------------
(***************************************************************************)
(* The invariant.  R is the set of processes that are in the middle of a   *)
(* read: their task is set up and they are not blocked yet.                *)
(***************************************************************************)

Opens(d) == {x \in Slots \X FDs : d.fd_table[x[1]][x[2]] # NONE}
Holds(d, s) == \E fd \in FDs : d.fd_table[s][fd] # NONE

\* The counts of the driver are right, and its ASSERT held.
Counted(d) ==
  /\ d.kbd_refcount = Cardinality(Opens(d))
  /\ d.irq <=> d.kbd_refcount > 0 /\ ~d.kbd_done
  /\ ~d.failed

\* A task that waits is one of a process with a descriptor and has room, and
\* while there are interrupts its process is blocked.
Tasks(d, R) ==
  /\ \A s \in Slots : d.waiting_on_read[s] => Holds(d, s) /\ d.buff_count[s] < d.bufflen[s]
  /\ d.irq => \A s \in Slots \ R : d.waiting_on_read[s] => d.state[s] = "blocked"

Sound(d, R) == d \in KbdStates /\ Counted(d) /\ Tasks(d, R)

\* The sets that are counted are finite.
LEMMA SlotsFinite ==
  /\ IsFiniteSet(Slots)
  /\ IsFiniteSet(Slots \X FDs)
  /\ \A S \in SUBSET Slots : IsFiniteSet(S) /\ Cardinality(S) \in Nat
<1>1. 1 \in Int /\ PCB_TABLE_SIZE \in Int /\ 0 \in Int /\ PCB_MAX_FDS - 1 \in Int
  BY DriverAssumption
<1>2. IsFiniteSet(Slots) /\ IsFiniteSet(FDs)
  BY <1>1, FS_Interval DEF Slots, FDs
<1>3. \A S \in SUBSET Slots : IsFiniteSet(S)
  BY <1>2, FS_Subset
<1> QED
  BY <1>2, <1>3, FS_Product, FS_CardinalityType

\* Completing tasks keeps the types, and touches the tasks, their count and the
\* states of their processes only.
LEMMA UnblockFields ==
  ASSUME NEW d \in KbdStates, NEW S \in SUBSET Slots
  PROVE  LET e == keyboard_unblock_proc(d, S)
         IN  /\ e \in KbdStates
             /\ e.fd_table = d.fd_table /\ e.kbd_refcount = d.kbd_refcount /\ e.irq = d.irq
             /\ e.kbd_done = d.kbd_done /\ e.failed = d.failed
             /\ e.buff_count = d.buff_count /\ e.bufflen = d.bufflen
             /\ e.buffer = d.buffer /\ e.head = d.head /\ e.tail = d.tail /\ e.eof = d.eof
             /\ \A s \in Slots :
                  /\ e.waiting_on_read[s] <=> d.waiting_on_read[s] /\ s \notin S
                  /\ e.state[s] = IF s \in S /\ d.state[s] = "blocked" THEN "user" ELSE d.state[s]
<1> DEFINE w == [s \in Slots |-> d.waiting_on_read[s] /\ s \notin S]
           st == [s \in Slots |-> IF s \in S /\ d.state[s] = "blocked" THEN "user" ELSE d.state[s]]
           n == d.kbd_task_refcount - Cardinality(S)
           e == [d EXCEPT !.kbd_task_refcount = n, !.waiting_on_read = w, !.state = st]
<1>1. n \in Int
  BY SlotsFinite DEF KbdStates
<1>2. w \in [Slots -> BOOLEAN]
  BY Zenon
<1>3. st \in [Slots -> {"free", "user", "blocked"}]
  BY DEF KbdStates
<1>4. keyboard_unblock_proc(d, S) = e
  BY DEF keyboard_unblock_proc, KbdStates
<1>5. \A s \in Slots :
        /\ w[s] <=> d.waiting_on_read[s] /\ s \notin S
        /\ st[s] = IF s \in S /\ d.state[s] = "blocked" THEN "user" ELSE d.state[s]
  OBVIOUS
<1> HIDE DEF n, w, st
<1>6. e \in KbdStates
  BY <1>1, <1>2, <1>3 DEF KbdStates
<1>7. /\ e.fd_table = d.fd_table /\ e.kbd_refcount = d.kbd_refcount /\ e.irq = d.irq
      /\ e.kbd_done = d.kbd_done /\ e.failed = d.failed
      /\ e.buff_count = d.buff_count /\ e.bufflen = d.bufflen
      /\ e.buffer = d.buffer /\ e.head = d.head /\ e.tail = d.tail /\ e.eof = d.eof
      /\ e.waiting_on_read = w /\ e.state = st
  BY DEF KbdStates
<1> HIDE DEF e
<1> QED
  BY <1>4, <1>5, <1>6, <1>7

\* A character goes to every task that waits.  The tasks whose buffer is full, or
\* whose line ends, are completed; the end of the input completes them all.
Completes(d, c, s) ==
  /\ d.waiting_on_read[s]
  /\ c = d.eof \/ d.buff_count[s] + 1 = d.bufflen[s] \/ c = "\n"

\* What keyboard_process_char() does to the driver, but for the circular buffer.
CharEffect(d, c, e) ==
  /\ e.fd_table = d.fd_table /\ e.kbd_refcount = d.kbd_refcount /\ e.failed = d.failed
  /\ e.bufflen = d.bufflen /\ e.eof = d.eof
  /\ e.irq <=> d.irq /\ c # d.eof
  /\ e.kbd_done <=> d.kbd_done \/ c = d.eof
  /\ \A s \in Slots :
       /\ e.buff_count[s] = IF d.waiting_on_read[s] /\ c # d.eof
                            THEN d.buff_count[s] + 1 ELSE d.buff_count[s]
       /\ e.waiting_on_read[s] <=> d.waiting_on_read[s] /\ ~Completes(d, c, s)
       /\ e.state[s] = IF Completes(d, c, s) /\ d.state[s] = "blocked"
                       THEN "user" ELSE d.state[s]

\* keyboard_process_char() has that effect.
LEMMA CharFields ==
  ASSUME NEW d \in KbdStates, NEW c
  PROVE  LET e == keyboard_process_char(d, c)
         IN  /\ e \in KbdStates
             /\ CharEffect(d, c, e)
             /\ e.buffer = d.buffer /\ e.head = d.head /\ e.tail = d.tail
<1>1. CASE c = d.eof
  <2> DEFINE d1 == [d EXCEPT !.irq = FALSE, !.kbd_done = TRUE]
  <2>1. keyboard_process_char(d, c) = keyboard_unblock_proc(d1, Waiting(d))
    BY <1>1 DEF keyboard_process_char, keyboard_handle_eof
  <2>2. /\ d1 \in KbdStates /\ ~d1.irq /\ d1.kbd_done
        /\ d1.fd_table = d.fd_table /\ d1.kbd_refcount = d.kbd_refcount
        /\ d1.failed = d.failed /\ d1.bufflen = d.bufflen /\ d1.buff_count = d.buff_count
        /\ d1.buffer = d.buffer /\ d1.head = d.head /\ d1.tail = d.tail /\ d1.eof = d.eof
        /\ d1.waiting_on_read = d.waiting_on_read /\ d1.state = d.state
    BY DEF KbdStates
  <2>3. /\ Waiting(d) \in SUBSET Slots
        /\ \A s \in Slots : s \in Waiting(d) <=> Completes(d, c, s)
    BY <1>1 DEF Waiting, Completes
  <2> HIDE DEF d1
  <2> QED
    BY <1>1, <2>1, <2>2, <2>3, UnblockFields DEF Completes, CharEffect
<1>2. CASE c # d.eof
  <2> DEFINE counts == [s \in Slots |-> IF d.waiting_on_read[s] THEN d.buff_count[s] + 1
                                        ELSE d.buff_count[s]]
             d1 == [d EXCEPT !.buff_count = counts]
             S == {s \in Waiting(d) : d1.buff_count[s] = d1.bufflen[s] \/ c = "\n"}
  <2>1. keyboard_process_char(d, c) = keyboard_unblock_proc(d1, S)
    BY <1>2 DEF keyboard_process_char, KbdStates
  <2>2. counts \in [Slots -> Nat]
    BY DEF KbdStates
  <2>3. \A s \in Slots : counts[s] = IF d.waiting_on_read[s] /\ c # d.eof
                                     THEN d.buff_count[s] + 1 ELSE d.buff_count[s]
    BY <1>2
  <2> HIDE DEF counts
  <2>4. /\ d1 \in KbdStates /\ d1.buff_count = counts
        /\ d1.irq = d.irq /\ d1.kbd_done = d.kbd_done
        /\ d1.fd_table = d.fd_table /\ d1.kbd_refcount = d.kbd_refcount
        /\ d1.failed = d.failed /\ d1.bufflen = d.bufflen
        /\ d1.buffer = d.buffer /\ d1.head = d.head /\ d1.tail = d.tail /\ d1.eof = d.eof
        /\ d1.waiting_on_read = d.waiting_on_read /\ d1.state = d.state
    BY <2>2 DEF KbdStates
  <2> HIDE DEF d1
  <2>5. /\ S \in SUBSET Slots
        /\ \A s \in Slots : s \in S <=> Completes(d, c, s)
    BY <1>2, <2>3, <2>4 DEF Waiting, Completes
  <2> HIDE DEF S
  <2> QED
    BY <1>2, <2>1, <2>3, <2>4, <2>5, UnblockFields DEF CharEffect
<1> QED
  BY <1>1, <1>2

\* A character keeps what was sound.
LEMMA EffectSound ==
  ASSUME NEW d, NEW R, Sound(d, R), NEW c, NEW e \in KbdStates, CharEffect(d, c, e)
  PROVE  Sound(e, R)
<1>1. Counted(e)
  BY DEF Sound, Counted, Opens, CharEffect
<1>2. ASSUME NEW s \in Slots, e.waiting_on_read[s]
      PROVE  Holds(e, s) /\ e.buff_count[s] < e.bufflen[s]
  <2>1. d.waiting_on_read[s] /\ c # d.eof /\ d.buff_count[s] + 1 # d.bufflen[s]
    BY <1>2 DEF Completes, CharEffect
  <2>2. Holds(d, s) /\ d.buff_count[s] < d.bufflen[s]
    BY <2>1 DEF Sound, Tasks
  <2>3. d.buff_count[s] \in Nat /\ d.bufflen[s] \in Nat
    BY DEF Sound, KbdStates
  <2> QED
    BY <2>1, <2>2, <2>3 DEF Holds, CharEffect
<1>3. ASSUME e.irq, NEW s \in Slots \ R, e.waiting_on_read[s]
      PROVE  e.state[s] = "blocked"
  BY <1>3 DEF Sound, Tasks, CharEffect
<1> QED
  BY <1>1, <1>2, <1>3 DEF Sound, Tasks

-----------------------------------------------------------------------------
(***************************************************************************)
(* keyboard_flush_buffer()                                                 *)
(***************************************************************************)

\* One turn of the loop of keyboard_flush_buffer().
Take(e) ==
  IF e.kbd_task_refcount > 0 /\ e.tail # e.head
  THEN [keyboard_process_char(e, e.buffer[e.tail])
          EXCEPT !.buffer[e.tail] = NUL, !.tail = Succ(@)]
  ELSE e

\* What every turn of the loop keeps, the loop keeps.
LEMMA FlushInduction ==
  ASSUME NEW d, NEW I, d \in I, \A e \in I : Take(e) \in I
  PROVE  keyboard_flush_buffer(d) \in I
<1> DEFINE n == KEYBOARD_BUFFER_SIZE
           Def(g) == [i \in 0..n |-> IF i = 0 THEN d ELSE Take(g[i - 1])]
           Upto(m, g) == /\ g \in [0..m -> I]
                         /\ g[0] = d
                         /\ \A i \in 1..m : g[i] = Take(g[i - 1])
           P == {m \in 0..n : \E g : Upto(m, g)}
<1>2. n \in Nat
  BY DriverAssumption
<1> HIDE DEF n
<1>4. 0 \in P
  <2> DEFINE g == [i \in 0..0 |-> d]
  <2>1. Upto(0, g)
    OBVIOUS
  <2>2. 0 \in 0..n
    BY <1>2
  <2> HIDE DEF Upto, g
  <2> QED
    BY <2>1, <2>2
<1>5. ASSUME NEW m \in (0 + 1)..n, m - 1 \in P PROVE m \in P
  <2>1. PICK g : Upto(m - 1, g)
    BY <1>5
  <2> DEFINE h == [i \in 0..m |-> IF i = m THEN Take(g[m - 1]) ELSE g[i]]
  <2>2. m \in Nat /\ m # 0 /\ m - 1 \in 0..(m - 1)
    BY <1>2
  <2>3. \A i \in 0..m : i # m => i \in 0..(m - 1)
    BY <2>2
  <2>4. h \in [0..m -> I]
    BY <2>1, <2>2, <2>3
  <2>5. h[0] = d
    BY <2>1, <2>2
  <2>6. ASSUME NEW i \in 1..m PROVE h[i] = Take(h[i - 1])
    <3>1. i - 1 \in 0..m /\ i - 1 # m /\ i \in 0..m
      BY <2>2
    <3>2. h[i - 1] = g[i - 1]
      BY <3>1
    <3>3. CASE i = m
      BY <3>1, <3>2, <3>3
    <3>4. CASE i # m
      <4>1. i \in 1..(m - 1)
        BY <2>2, <3>4
      <4> QED
        BY <2>1, <3>1, <3>2, <3>4, <4>1
    <3> QED
      BY <3>3, <3>4
  <2>7. Upto(m, h)
    <3> HIDE DEF h
    <3> QED
      BY <2>4, <2>5, <2>6
  <2>8. m \in 0..n
    BY <1>2
  <2> HIDE DEF Upto, h
  <2> QED
    BY <2>7, <2>8
<1>6. 0..n \subseteq P
  <2> HIDE DEF P
  <2> QED
    BY <1>2, <1>4, <1>5, IntervalInduction
<1>7. PICK g : Upto(n, g)
  <2> HIDE DEF Upto
  <2>1. n \in 0..n
    BY <1>2
  <2>2. n \in P
    BY <1>6, <2>1
  <2> QED
    BY <2>2 DEF P
<1>8. g = Def(g)
  <2>1. ASSUME NEW i \in 0..n PROVE g[i] = IF i = 0 THEN d ELSE Take(g[i - 1])
    <3>1. i # 0 => i \in 1..n
      BY <1>2
    <3> QED
      BY <1>7, <3>1
  <2> QED
    BY <1>7, <2>1
<1> DEFINE Q(f) == f = Def(f)
           after == CHOOSE f : Q(f)
<1>9. Q(after)
  <2> HIDE DEF Def
  <2>1. Q(g)
    BY <1>8
  <2> HIDE DEF Q
  <2> QED
    BY <2>1
<1>10. keyboard_flush_buffer(d) = after[n]
  BY DEF keyboard_flush_buffer, Take, n
<1> HIDE DEF after
<1>11. ASSUME NEW i \in 0..n PROVE after[i] = IF i = 0 THEN d ELSE Take(after[i - 1])
  BY <1>9, <1>11
<1> HIDE DEF Q
<1> DEFINE G == {i \in 0..n : after[i] \in I}
<1>12. 0 \in G
  BY <1>2, <1>11
<1>13. ASSUME NEW i \in (0 + 1)..n, i - 1 \in G PROVE i \in G
  BY <1>2, <1>11, <1>13
<1>14. 0..n \subseteq G
  <2> HIDE DEF G
  <2> QED
    BY <1>2, <1>12, <1>13, IntervalInduction
<1> QED
  BY <1>2, <1>10, <1>14
\* A turn of the loop that takes a character.
LEMMA TakeFields ==
  ASSUME NEW e \in KbdStates, e.kbd_task_refcount > 0, e.tail # e.head
  PROVE  LET f == Take(e)
         IN  /\ f \in KbdStates
             /\ CharEffect(e, e.buffer[e.tail], f)
             /\ f.buffer = [e.buffer EXCEPT ![e.tail] = NUL]
             /\ f.head = e.head /\ f.tail = Succ(e.tail)
<1> DEFINE g == keyboard_process_char(e, e.buffer[e.tail])
           b == [e.buffer EXCEPT ![e.tail] = NUL]
           f == [g EXCEPT !.buffer = b, !.tail = Succ(e.tail)]
<1>1. /\ g \in KbdStates /\ CharEffect(e, e.buffer[e.tail], g)
      /\ g.buffer = e.buffer /\ g.head = e.head /\ g.tail = e.tail
  BY CharFields
<1> HIDE DEF g
<1>2. Succ(e.tail) \in 0..(KEYBOARD_BUFFER_SIZE - 1)
  BY DriverAssumption DEF Succ, KbdStates
<1>3. b \in [0..(KEYBOARD_BUFFER_SIZE - 1) -> Chars \cup {NUL}]
  BY DEF KbdStates
<1>4. Take(e) = f
  BY <1>1 DEF Take, g, KbdStates
<1> HIDE DEF b
<1>5. f \in KbdStates /\ f.buffer = b /\ f.head = e.head /\ f.tail = Succ(e.tail)
  BY <1>1, <1>2, <1>3 DEF KbdStates
<1>6. CharEffect(e, e.buffer[e.tail], f)
  BY <1>1 DEF CharEffect, KbdStates
<1> QED
  BY <1>4, <1>5, <1>6 DEF b

\* Who is woken has a character, or the input has ended; counts only grow.
Progress(d, e) ==
  /\ e.bufflen = d.bufflen
  /\ d.kbd_done => e.kbd_done
  /\ \A s \in Slots :
       /\ e.buff_count[s] >= d.buff_count[s]
       /\ \/ e.state[s] = d.state[s]
          \/ /\ d.state[s] = "blocked" /\ e.state[s] = "user"
             /\ e.buff_count[s] >= 1 \/ e.kbd_done

\* One character makes progress.
LEMMA EffectProgress ==
  ASSUME NEW d, NEW e \in KbdStates, NEW f \in KbdStates, NEW c, d \in KbdStates,
         Progress(d, e), CharEffect(e, c, f)
  PROVE  Progress(d, f)
<1>1. f.bufflen = d.bufflen /\ (d.kbd_done => f.kbd_done) /\ (e.kbd_done => f.kbd_done)
  BY DEF Progress, CharEffect
<1>2. ASSUME NEW s \in Slots
      PROVE  /\ f.buff_count[s] >= d.buff_count[s]
             /\ \/ f.state[s] = d.state[s]
                \/ /\ d.state[s] = "blocked" /\ f.state[s] = "user"
                   /\ f.buff_count[s] >= 1 \/ f.kbd_done
  <2>1. /\ d.buff_count[s] \in Nat /\ e.buff_count[s] \in Nat /\ f.buff_count[s] \in Nat
        /\ e.buff_count[s] >= d.buff_count[s] /\ f.buff_count[s] >= e.buff_count[s]
    <3>1. d.buff_count[s] \in Nat /\ e.buff_count[s] \in Nat /\ f.buff_count[s] \in Nat
      BY DEF KbdStates
    <3>2. e.buff_count[s] >= d.buff_count[s]
      BY DEF Progress
    <3>3. f.buff_count[s] \in {e.buff_count[s], e.buff_count[s] + 1}
      BY DEF CharEffect
    <3> QED
      BY <3>1, <3>2, <3>3
  <2>2. CASE f.state[s] = e.state[s]
    BY <1>1, <2>1, <2>2 DEF Progress
  <2>3. CASE f.state[s] # e.state[s]
    <3>1. e.state[s] = "blocked" /\ f.state[s] = "user" /\ Completes(e, c, s)
      BY <2>3 DEF CharEffect
    <3>2. d.state[s] = "blocked"
      BY <3>1 DEF Progress
    <3>3. f.buff_count[s] >= 1 \/ f.kbd_done
      BY <2>1, <3>1 DEF Completes, CharEffect
    <3> QED
      BY <2>1, <3>1, <3>2, <3>3
  <2> QED
    BY <2>2, <2>3
<1> QED
  BY <1>1, <1>2 DEF Progress

\* While no line ends: who is blocked is waited for, and who is in the middle of a
\* read either waits or has what it asked for.
Served(d, R) ==
  /\ \A s \in Slots \ R :
       d.state[s] = "blocked" => d.waiting_on_read[s] /\ ~d.kbd_done
  /\ \A s \in R : d.waiting_on_read[s] \/ d.buff_count[s] = d.bufflen[s] \/ d.kbd_done
  /\ \A i \in 0..(KEYBOARD_BUFFER_SIZE - 1) : d.buffer[i] # "\n"

\* One character leaves nobody behind.
LEMMA EffectServed ==
  ASSUME NEW d \in KbdStates, NEW R \in SUBSET Slots, Served(d, R), NEW c, c # "\n",
         NEW e \in KbdStates, CharEffect(d, c, e),
         \A i \in 0..(KEYBOARD_BUFFER_SIZE - 1) : e.buffer[i] # "\n"
  PROVE  Served(e, R)
<1>1. ASSUME NEW s \in Slots \ R, e.state[s] = "blocked"
      PROVE  e.waiting_on_read[s] /\ ~e.kbd_done
  <2>1. d.state[s] = "blocked" /\ ~Completes(d, c, s)
    BY <1>1 DEF CharEffect
  <2>2. d.waiting_on_read[s] /\ ~d.kbd_done
    BY <2>1 DEF Served
  <2> QED
    BY <2>1, <2>2 DEF CharEffect, Completes
<1>2. ASSUME NEW s \in R
      PROVE  e.waiting_on_read[s] \/ e.buff_count[s] = e.bufflen[s] \/ e.kbd_done
  <2>1. CASE d.waiting_on_read[s] /\ ~Completes(d, c, s)
    BY <2>1 DEF CharEffect
  <2>2. CASE Completes(d, c, s)
    BY <2>2 DEF CharEffect, Completes
  <2>3. CASE ~d.waiting_on_read[s]
    BY <2>3 DEF Served, CharEffect
  <2> QED
    BY <2>1, <2>2, <2>3
<1> QED
  BY <1>1, <1>2 DEF Served
-----------------------------------------------------------------------------
(***************************************************************************)
(* The circular buffer                                                     *)
(***************************************************************************)

\* The number of characters in the circular buffer, and the i-th of them.
Used(d) == (d.head - d.tail) % KEYBOARD_BUFFER_SIZE
At(d, i) == d.buffer[(d.tail + i - 1) % KEYBOARD_BUFFER_SIZE]

\* What is in e is the end of what was in d.
FrontTaken(d, e) ==
  /\ Used(e) <= Used(d)
  /\ \A i \in 1..Used(e) : At(e, i) = At(d, Used(d) - Used(e) + i)

\* A character taken from the front moves the others up.
LEMMA TakeFront ==
  ASSUME NEW d \in KbdStates, NEW e \in KbdStates, d.tail # d.head,
         e.buffer = [d.buffer EXCEPT ![d.tail] = NUL],
         e.head = d.head, e.tail = Succ(d.tail)
  PROVE  /\ Used(e) = Used(d) - 1
         /\ \A i \in 1..Used(e) : At(e, i) = At(d, i + 1)
<1> DEFINE K == KEYBOARD_BUFFER_SIZE
           h == d.head
           t == d.tail
           u == e.tail
<1>1. /\ K \in Nat \ {0} /\ K > 1
      /\ h \in 0..(K - 1) /\ t \in 0..(K - 1) /\ h # t
      /\ d.buffer \in [0..(K - 1) -> Chars \cup {NUL}]
  BY DriverAssumption DEF KbdStates
<1>2. u = (t + 1) % K
  BY DEF Succ
<1> HIDE DEF K, h, t, u
<1>3. u = IF t + 1 = K THEN 0 ELSE t + 1
  BY <1>1, <1>2
<1>4. (h - t) % K = IF h > t THEN h - t ELSE h - t + K
  <2> DEFINE x == h - t
  <2>1. x \in Int /\ -K <= x /\ x < K /\ (h > t <=> x >= 0)
    BY <1>1
  <2> HIDE DEF x
  <2>2. x % K = IF x >= 0 THEN x ELSE x + K
    BY <1>1, <2>1
  <2> QED
    BY <1>1, <2>1, <2>2 DEF x
<1>5. (h - u) % K = IF h >= u THEN h - u ELSE h - u + K
  <2> DEFINE x == h - u
  <2>1. x \in Int /\ -K <= x /\ x < K /\ (h >= u <=> x >= 0)
    BY <1>1, <1>3
  <2> HIDE DEF x
  <2>2. x % K = IF x >= 0 THEN x ELSE x + K
    BY <1>1, <2>1
  <2> QED
    BY <1>1, <2>1, <2>2 DEF x
<1>6. (h - u) % K = ((h - t) % K) - 1
  BY <1>1, <1>3, <1>4, <1>5
<1>7. ASSUME NEW i \in 1..((h - u) % K)
      PROVE  /\ (u + i - 1) % K = (t + (i + 1) - 1) % K
             /\ (u + i - 1) % K \in 0..(K - 1)
             /\ (u + i - 1) % K # t
  <2>1. i \in Nat /\ i >= 1 /\ i + 1 < K
    <3>1. (h - t) % K < K
      BY <1>1, <1>4
    <3>2. (h - u) % K \in Int /\ (h - t) % K \in Int
      BY <1>1, <1>4, <1>6
    <3> QED
      BY <1>1, <1>6, <3>1, <3>2
  <2>2. (t + (i + 1) - 1) % K = IF t + i < K THEN t + i ELSE t + i - K
    <3> DEFINE x == t + (i + 1) - 1
    <3>1. x \in Int /\ 0 <= x /\ x < 2 * K /\ x = t + i
      BY <1>1, <2>1
    <3> HIDE DEF x
    <3>2. x % K = IF x < K THEN x ELSE x - K
      BY <1>1, <3>1
    <3> QED
      BY <1>1, <2>1, <3>1, <3>2 DEF x
  <2>3. (u + i - 1) % K = IF u + i - 1 < K THEN u + i - 1 ELSE u + i - 1 - K
    <3> DEFINE x == u + i - 1
    <3>1. x \in Int /\ 0 <= x /\ x < 2 * K
      BY <1>1, <1>3, <2>1
    <3> HIDE DEF x
    <3>2. x % K = IF x < K THEN x ELSE x - K
      BY <1>1, <3>1
    <3> QED
      BY <1>1, <1>3, <2>1, <3>1, <3>2 DEF x
  <2> QED
    BY <1>1, <1>3, <2>1, <2>2, <2>3
<1>8. Used(d) = (h - t) % K /\ Used(e) = (h - u) % K
  BY DEF Used, h, t, u, K
<1>9. ASSUME NEW i \in 1..Used(e) PROVE At(e, i) = At(d, i + 1)
  <2> DEFINE j == (u + i - 1) % K
  <2>1. j = (t + (i + 1) - 1) % K /\ j \in 0..(K - 1) /\ j # t
    BY <1>7, <1>8, <1>9
  <2>2. At(e, i) = e.buffer[j] /\ At(d, i + 1) = d.buffer[j]
    BY <2>1 DEF At, u, t, K
  <2> HIDE DEF j
  <2> QED
    BY <1>1, <2>1, <2>2 DEF t
<1> QED
  BY <1>6, <1>8, <1>9

\* The size of the contents.
LEMMA UsedType ==
  ASSUME NEW d \in KbdStates
  PROVE  Used(d) \in 0..(KEYBOARD_BUFFER_SIZE - 1)
<1>1. KEYBOARD_BUFFER_SIZE \in Nat \ {0} /\ d.head - d.tail \in Int
  BY DriverAssumption DEF KbdStates
<1> QED
  BY <1>1 DEF Used

\* Taking one more character from the front.
LEMMA FrontStep ==
  ASSUME NEW d \in KbdStates, NEW e \in KbdStates, NEW f \in KbdStates, FrontTaken(d, e),
         Used(f) = Used(e) - 1, \A i \in 1..Used(f) : At(f, i) = At(e, i + 1)
  PROVE  FrontTaken(d, f)
<1>1. Used(d) \in Nat /\ Used(e) \in Nat /\ Used(f) \in Nat
  BY UsedType
<1>2. Used(e) <= Used(d) /\ Used(f) <= Used(d)
  BY <1>1 DEF FrontTaken
<1>3. ASSUME NEW i \in 1..Used(f) PROVE At(f, i) = At(d, Used(d) - Used(f) + i)
  <2>1. i + 1 \in 1..Used(e) /\ Used(d) - Used(e) + (i + 1) = Used(d) - Used(f) + i
    BY <1>1
  <2>2. At(e, i + 1) = At(d, Used(d) - Used(e) + (i + 1))
    BY <2>1 DEF FrontTaken
  <2> QED
    BY <2>1, <2>2
<1> QED
  BY <1>2, <1>3 DEF FrontTaken

\* A state has the front of its own contents.
LEMMA FrontSame ==
  ASSUME NEW d \in KbdStates, NEW e \in KbdStates,
         e.buffer = d.buffer, e.head = d.head, e.tail = d.tail
  PROVE  FrontTaken(d, e)
<1>1. Used(e) = Used(d) /\ Used(d) \in Nat
  BY UsedType DEF Used
<1>2. \A i \in 1..Used(e) : At(e, i) = At(d, Used(d) - Used(e) + i)
  <2>1. \A i \in 1..Used(e) : Used(d) - Used(e) + i = i
    BY <1>1
  <2> QED
    BY <2>1 DEF At
<1> QED
  BY <1>1, <1>2 DEF FrontTaken

\* keyboard_flush_buffer() keeps what was sound, gives characters from the front of
\* the buffer, wakes nobody without reason and leaves nobody behind.
LEMMA FlushFacts ==
  ASSUME NEW d, NEW R \in SUBSET Slots, Sound(d, R)
  PROVE  LET e == keyboard_flush_buffer(d)
         IN  /\ Sound(e, R)
             /\ Progress(d, e)
             /\ FrontTaken(d, e)
             /\ Served(d, R) => Served(e, R)
<1> DEFINE Good(e) == /\ Sound(e, R) /\ Progress(d, e) /\ FrontTaken(d, e)
                      /\ Served(d, R) => Served(e, R)
           I == {e \in KbdStates : Good(e)}
<1>1. d \in KbdStates
  BY DEF Sound
<1>2. d \in I
  <2>1. Progress(d, d)
    BY <1>1 DEF Progress, KbdStates
  <2>2. FrontTaken(d, d)
    BY <1>1, FrontSame
  <2> QED
    BY <1>1, <2>1, <2>2
<1>3. ASSUME NEW e \in I PROVE Take(e) \in I
  <2>1. CASE ~(e.kbd_task_refcount > 0 /\ e.tail # e.head)
    BY <2>1 DEF Take
  <2>2. CASE e.kbd_task_refcount > 0 /\ e.tail # e.head
    <3> DEFINE f == Take(e)
               c == e.buffer[e.tail]
    <3>1. /\ f \in KbdStates /\ CharEffect(e, c, f)
          /\ f.buffer = [e.buffer EXCEPT ![e.tail] = NUL]
          /\ f.head = e.head /\ f.tail = Succ(e.tail)
      BY <2>2, TakeFields
    <3> HIDE DEF f
    <3>2. Sound(f, R)
      BY <3>1, EffectSound
    <3>3. Progress(d, f)
      BY <1>1, <3>1, EffectProgress
    <3>4. FrontTaken(d, f)
      <4>1. Used(f) = Used(e) - 1 /\ \A i \in 1..Used(f) : At(f, i) = At(e, i + 1)
        BY <2>2, <3>1, TakeFront
      <4> QED
        BY <1>1, <3>1, <4>1, FrontStep
    <3>5. ASSUME Served(d, R) PROVE Served(f, R)
      <4>1. Served(e, R)
        BY <3>5
      <4>2. c # "\n"
        BY <4>1 DEF Served, KbdStates
      <4>3. \A i \in 0..(KEYBOARD_BUFFER_SIZE - 1) : f.buffer[i] # "\n"
        BY <3>1, <4>1 DEF Served, KbdStates, NUL
      <4> QED
        BY <3>1, <4>1, <4>2, <4>3, EffectServed
    <3> QED
      BY <3>1, <3>2, <3>3, <3>4, <3>5 DEF f
  <2> QED
    BY <2>1, <2>2
<1>4. keyboard_flush_buffer(d) \in I
  <2> HIDE DEF I
  <2> QED
    BY <1>2, <1>3, FlushInduction
<1> QED
  BY <1>4
-----------------------------------------------------------------------------
(***************************************************************************)
(* The calls and the interrupt                                             *)
(***************************************************************************)

\* A process that wakes has a character or the input has ended.
Wakes(d, e) ==
  \A r \in Slots : d.state[r] = "blocked" /\ e.state[r] = "user" =>
                     e.buff_count[r] # 0 \/ e.kbd_done

\* A call leaves the end of the type-ahead, or none.
Drains(d, e) == FrontTaken(d, e) \/ Used(e) = 0

\* The first free descriptor is a free descriptor.
LEMMA LeastFree ==
  ASSUME NEW F \in SUBSET FDs, F # {}
  PROVE  (CHOOSE i \in F : \A j \in F : i <= j) \in F
<1> DEFINE R == OpToRel(<, Nat)
<1>1. F \subseteq Nat
  BY DEF FDs
<1>2. PICK i \in F : \A m \in F : ~(<<m, i>> \in R)
  <2> HIDE DEF R
  <2> QED
    BY <1>1, NatLessThanWellFounded, WFMin DEF R
<1>3. \A m \in F : ~(m < i)
  BY <1>1, <1>2 DEF OpToRel
<1>4. \A j \in F : i <= j
  BY <1>1, <1>3
<1> QED
  BY <1>4

\* The count of descriptors follows one that is opened, and one that is closed.
LEMMA OpensChange ==
  ASSUME NEW d \in KbdStates, NEW e \in KbdStates, NEW s \in Slots, NEW fd \in FDs,
         NEW v \in Devices \cup {NONE}, e.fd_table = [d.fd_table EXCEPT ![s][fd] = v]
  PROVE  /\ Cardinality(Opens(d)) \in Nat
         /\ d.fd_table[s][fd] = NONE /\ v # NONE => Cardinality(Opens(e)) = Cardinality(Opens(d)) + 1
         /\ d.fd_table[s][fd] # NONE /\ v = NONE => Cardinality(Opens(e)) = Cardinality(Opens(d)) - 1
         /\ \A r \in Slots : r # s => (Holds(e, r) <=> Holds(d, r))
         /\ v # NONE => Holds(e, s) /\ (Holds(d, s) => Holds(e, s))
<1>1. IsFiniteSet(Opens(d))
  BY SlotsFinite, FS_Subset DEF Opens
<1>2. d.fd_table \in [Slots -> [FDs -> Devices \cup {NONE}]]
  BY DEF KbdStates
<1>3. \A r \in Slots, f \in FDs : e.fd_table[r][f] = IF r = s /\ f = fd THEN v ELSE d.fd_table[r][f]
  BY <1>2
<1>4. ASSUME d.fd_table[s][fd] = NONE, v # NONE
      PROVE  Cardinality(Opens(e)) = Cardinality(Opens(d)) + 1
  <2>1. Opens(e) = Opens(d) \cup {<<s, fd>>}
    BY <1>3, <1>4 DEF Opens
  <2>2. <<s, fd>> \notin Opens(d)
    BY <1>4 DEF Opens
  <2> QED
    BY <1>1, <2>1, <2>2, FS_AddElement
<1>5. ASSUME d.fd_table[s][fd] # NONE, v = NONE
      PROVE  Cardinality(Opens(e)) = Cardinality(Opens(d)) - 1
  <2>1. Opens(e) = Opens(d) \ {<<s, fd>>}
    BY <1>3, <1>5 DEF Opens
  <2>2. <<s, fd>> \in Opens(d)
    BY <1>5 DEF Opens
  <2> QED
    BY <1>1, <2>1, <2>2, FS_RemoveElement
<1>6. \A r \in Slots : r # s => (Holds(e, r) <=> Holds(d, r))
  BY <1>3 DEF Holds
<1>7. v # NONE => Holds(e, s)
  BY <1>3 DEF Holds
<1> QED
  BY <1>1, <1>4, <1>5, <1>6, <1>7, FS_CardinalityType

\* While no descriptor is open nobody waits.
LEMMA NobodyWaits ==
  ASSUME NEW d, NEW R, Sound(d, R), d.kbd_refcount = 0
  PROVE  \A s \in Slots : ~d.waiting_on_read[s]
<1>1. IsFiniteSet(Opens(d))
  BY SlotsFinite, FS_Subset DEF Opens
<1>2. Opens(d) = {}
  BY <1>1, FS_EmptySet DEF Sound, Counted
<1>3. ASSUME NEW s \in Slots, NEW fd \in FDs, d.fd_table[s][fd] # NONE PROVE FALSE
  <2>1. <<s, fd>> \in Opens(d)
    BY <1>3 DEF Opens
  <2> QED
    BY <1>2, <2>1
<1> QED
  BY <1>3 DEF Sound, Tasks, Holds

\* sysopen().
LEMMA OpenFacts ==
  ASSUME NEW d, Sound(d, {}), NEW s \in Slots, NEW device_no \in Devices
  PROVE  LET e == di_open(d, s, device_no)
         IN  /\ Sound(e, {})
             /\ Served(d, {}) => Served(e, {})
             /\ Wakes(d, e)
             /\ Drains(d, e)
<1> DEFINE e == di_open(d, s, device_no)
           fd == CHOOSE i \in Free(d, s) : \A j \in Free(d, s) : i <= j
           t == [d.fd_table EXCEPT ![s][fd] = device_no]
           d1 == kbd_open(d, s, device_no)
<1>1. d \in KbdStates
  BY DEF Sound
<1>2. CASE e = d
  BY <1>1, <1>2, FrontSame DEF Wakes, Drains
<1>3. CASE e # d
  <2>1. Free(d, s) # {} /\ e = [d1 EXCEPT !.fd_table[s][fd] = device_no]
    BY <1>3 DEF di_open
  <2>2. fd \in FDs /\ d.fd_table[s][fd] = NONE
    <3>1. Free(d, s) \in SUBSET FDs
      BY DEF Free
    <3>2. fd \in Free(d, s)
      BY <2>1, <3>1, LeastFree
    <3> QED
      BY <3>2 DEF Free
  <2> HIDE DEF fd
  <2>3. t \in [Slots -> [FDs -> Devices \cup {NONE}]]
    BY <1>1, <2>2 DEF KbdStates
  <2>4. device_no # NONE
    BY DEF Devices, NONE
  <2>5. CASE d.kbd_refcount > 0
    <3>1. e = [d EXCEPT !.kbd_refcount = @ + 1, !.fd_table = t]
      BY <1>1, <2>1, <2>5 DEF kbd_open, KbdStates
    <3>2. /\ e \in KbdStates
          /\ e.kbd_refcount = d.kbd_refcount + 1 /\ e.fd_table = t /\ e.irq = d.irq
          /\ e.kbd_done = d.kbd_done /\ e.failed = d.failed /\ e.state = d.state
          /\ e.waiting_on_read = d.waiting_on_read /\ e.bufflen = d.bufflen
          /\ e.buff_count = d.buff_count /\ e.buffer = d.buffer
          /\ e.head = d.head /\ e.tail = d.tail
      <4> DEFINE n == d.kbd_refcount + 1
      <4>1. n \in Nat /\ e = [d EXCEPT !.kbd_refcount = n, !.fd_table = t]
        BY <1>1, <3>1 DEF KbdStates
      <4> HIDE DEF t, e, n
      <4>2. e \in KbdStates
        BY <1>1, <2>3, <4>1 DEF KbdStates
      <4>3. e.kbd_refcount = d.kbd_refcount + 1
        BY <1>1, <4>1 DEF KbdStates, n
      <4> QED
        BY <1>1, <4>1, <4>2, <4>3 DEF KbdStates
    <3> HIDE DEF e
    <3>3. /\ Cardinality(Opens(e)) = Cardinality(Opens(d)) + 1
          /\ \A r \in Slots : Holds(d, r) => Holds(e, r)
      BY <1>1, <2>2, <2>4, <3>2, OpensChange
    <3>4. Counted(e)
      BY <1>1, <2>5, <3>2, <3>3 DEF Sound, Counted, KbdStates
    <3>5. Tasks(e, {})
      BY <3>2, <3>3 DEF Sound, Tasks
    <3>6. Served(d, {}) => Served(e, {})
      BY <3>2 DEF Served
    <3>7. Wakes(d, e) /\ Drains(d, e)
      BY <1>1, <3>2, FrontSame DEF Wakes, Drains
    <3> QED
      BY <3>2, <3>4, <3>5, <3>6, <3>7 DEF Sound, e
  <2>6. CASE ~(d.kbd_refcount > 0)
    <3>1. d.kbd_refcount = 0
      BY <1>1, <2>6 DEF KbdStates
    <3>2. \A r \in Slots : ~d.waiting_on_read[r]
      BY <3>1, NobodyWaits
    <3> DEFINE b == [i \in DOMAIN d.buffer |-> NUL]
    <3>3. b \in [0..(KEYBOARD_BUFFER_SIZE - 1) -> Chars \cup {NUL}]
      BY <1>1 DEF KbdStates
    <3>4. e = [d EXCEPT !.kbd_current_type = device_no, !.kbd_done = FALSE, !.buffer = b,
                        !.head = 0, !.tail = 0, !.keystate = {}, !.eof = KBD_DEFAULT_EOF,
                        !.kbd_refcount = 1, !.failed = d.waiting_on_read[s], !.irq = TRUE,
                        !.fd_table = t]
      BY <1>1, <2>1, <2>6 DEF kbd_open, KbdStates
    <3>5. /\ e \in KbdStates
          /\ e.kbd_refcount = 1 /\ e.fd_table = t /\ e.irq = TRUE
          /\ e.kbd_done = FALSE /\ e.failed = FALSE /\ e.state = d.state
          /\ e.waiting_on_read = d.waiting_on_read /\ e.bufflen = d.bufflen
          /\ e.buff_count = d.buff_count /\ e.buffer = b
          /\ e.head = 0 /\ e.tail = 0
      <4>1. d.waiting_on_read[s] = FALSE
        BY <1>1, <3>2 DEF KbdStates
      <4>2. 0 \in 0..(KEYBOARD_BUFFER_SIZE - 1) /\ {} \in KeyStates /\ KBD_DEFAULT_EOF \in Chars
        BY DriverAssumption DEF KeyStates, KBD_DEFAULT_EOF, Chars
      <4> HIDE DEF t, b, e
      <4>3. e \in KbdStates
        BY <1>1, <2>3, <3>3, <3>4, <4>1, <4>2 DEF KbdStates
      <4> QED
        BY <1>1, <3>4, <4>1, <4>3 DEF KbdStates
    <3> HIDE DEF e
    <3>6. Cardinality(Opens(e)) = Cardinality(Opens(d)) + 1
      BY <1>1, <2>2, <2>4, <3>5, OpensChange
    <3>7. Counted(e)
      <4>1. Cardinality(Opens(d)) = 0
        BY <3>1 DEF Sound, Counted
      <4>2. Cardinality(Opens(e)) = 1
        BY <3>6, <4>1
      <4> QED
        BY <3>5, <4>2 DEF Counted
    <3>8. Tasks(e, {})
      BY <3>2, <3>5 DEF Tasks
    <3>9. Served(d, {}) => Served(e, {})
      BY <1>1, <3>2, <3>5, ZenonT(40) DEF Served, KbdStates, NUL
    <3>10. Wakes(d, e) /\ Used(e) = 0
      BY <3>5, DriverAssumption DEF Wakes, Used
    <3> QED
      BY <3>5, <3>7, <3>8, <3>9, <3>10 DEF Sound, Drains, e
  <2> QED
    BY <2>5, <2>6
<1> QED
  BY <1>2, <1>3

\* sysclose().
LEMMA CloseFacts ==
  ASSUME NEW d, Sound(d, {}), NEW s \in Slots, d.state[s] = "user", NEW fd \in FDs
  PROVE  LET e == di_close(d, s, fd)
         IN  /\ Sound(e, {})
             /\ Served(d, {}) => Served(e, {})
             /\ Wakes(d, e)
             /\ Drains(d, e)
<1> DEFINE e == di_close(d, s, fd)
           t == [d.fd_table EXCEPT ![s][fd] = NONE]
           w == [d.waiting_on_read EXCEPT ![s] = FALSE]
           n == IF d.waiting_on_read[s] THEN d.kbd_task_refcount - 1 ELSE d.kbd_task_refcount
           q == d.irq /\ d.kbd_refcount # 1
<1>1. d \in KbdStates
  BY DEF Sound
<1>2. CASE e = d
  BY <1>1, <1>2, FrontSame DEF Wakes, Drains
<1>3. CASE e # d
  <2>1. d.fd_table[s][fd] # NONE /\ d.kbd_refcount \in Nat \ {0}
    BY <1>1, <1>3 DEF di_close, valid_fd, KbdStates
  <2>2. e = [d EXCEPT !.kbd_refcount = @ - 1, !.irq = q, !.kbd_task_refcount = n,
                      !.waiting_on_read = w, !.fd_table = t]
    BY <1>1, <1>3 DEF di_close, kbd_close, KbdStates
  <2>3. /\ t \in [Slots -> [FDs -> Devices \cup {NONE}]]
        /\ w \in [Slots -> BOOLEAN]
        /\ n \in Int
    BY <1>1 DEF KbdStates
  <2>4. q \in BOOLEAN /\ (q <=> d.irq /\ d.kbd_refcount # 1)
    BY Zenon
  <2> HIDE DEF n, q
  <2>5. /\ e \in KbdStates
        /\ e.kbd_refcount = d.kbd_refcount - 1 /\ e.fd_table = t /\ e.irq = q
        /\ e.kbd_done = d.kbd_done /\ e.failed = d.failed /\ e.state = d.state
        /\ e.waiting_on_read = w /\ e.bufflen = d.bufflen
        /\ e.buff_count = d.buff_count /\ e.buffer = d.buffer
        /\ e.head = d.head /\ e.tail = d.tail
    <3> DEFINE m == d.kbd_refcount - 1
    <3>1. m \in Nat /\ e = [d EXCEPT !.kbd_refcount = m, !.irq = q, !.kbd_task_refcount = n,
                                    !.waiting_on_read = w, !.fd_table = t]
      BY <1>1, <2>1, <2>2 DEF KbdStates
    <3> HIDE DEF t, w, e, m
    <3>2. e \in KbdStates
      BY <1>1, <2>3, <2>4, <3>1 DEF KbdStates
    <3>3. e.kbd_refcount = d.kbd_refcount - 1
      BY <1>1, <3>1 DEF KbdStates, m
    <3> QED
      BY <1>1, <3>1, <3>2, <3>3 DEF KbdStates
  <2> HIDE DEF e
  <2>6. /\ Cardinality(Opens(e)) = Cardinality(Opens(d)) - 1
        /\ \A r \in Slots : r # s => (Holds(e, r) <=> Holds(d, r))
    BY <1>1, <2>1, <2>5, OpensChange
  <2>7. \A r \in Slots : e.waiting_on_read[r] => r # s /\ d.waiting_on_read[r]
    BY <1>1, <2>5 DEF KbdStates
  <2>8. Counted(e)
    BY <1>1, <2>1, <2>4, <2>5, <2>6 DEF Sound, Counted, KbdStates
  <2>9. Tasks(e, {})
    BY <2>4, <2>5, <2>6, <2>7 DEF Sound, Tasks
  <2>10. Served(d, {}) => Served(e, {})
    BY <1>1, <2>5 DEF Served, KbdStates
  <2>11. Wakes(d, e) /\ Drains(d, e)
    BY <1>1, <2>5, FrontSame DEF Wakes, Drains
  <2> QED
    BY <2>5, <2>8, <2>9, <2>10, <2>11 DEF Sound, e
<1> QED
  BY <1>2, <1>3
\* The task of a read is set up and fed.
LEMMA RequestFacts ==
  ASSUME NEW d, Sound(d, {}), NEW s \in Slots, d.state[s] = "user", Holds(d, s),
         NEW len \in Nat \ {0}
  PROVE  LET e == Request(d, s, len)
         IN  /\ Sound(e, {s})
             /\ Served(d, {}) => Served(e, {s})
             /\ Wakes(d, e)
             /\ FrontTaken(d, e)
             /\ e.bufflen[s] = len /\ e.state[s] = "user"
<1> DEFINE n == d.kbd_task_refcount + 1
           cs == [d.buff_count EXCEPT ![s] = 0]
           ls == [d.bufflen EXCEPT ![s] = len]
           w == [d.waiting_on_read EXCEPT ![s] = TRUE]
           d1 == [d EXCEPT !.kbd_task_refcount = n, !.buff_count = cs, !.bufflen = ls,
                           !.waiting_on_read = w]
           e == keyboard_flush_buffer(d1)
<1>1. d \in KbdStates
  BY DEF Sound
<1>2. Request(d, s, len) = e
  BY <1>1 DEF Request, KbdStates
<1>3. /\ n \in Int /\ cs \in [Slots -> Nat] /\ ls \in [Slots -> Nat]
      /\ w \in [Slots -> BOOLEAN]
  BY <1>1 DEF KbdStates
<1>4. \A r \in Slots : /\ cs[r] = IF r = s THEN 0 ELSE d.buff_count[r]
                       /\ ls[r] = IF r = s THEN len ELSE d.bufflen[r]
                       /\ w[r] <=> r = s \/ d.waiting_on_read[r]
  BY <1>1 DEF KbdStates
<1> HIDE DEF n, cs, ls, w
<1>5. d1 \in KbdStates
  BY <1>1, <1>3 DEF KbdStates
<1>6. /\ d1.buff_count = cs /\ d1.bufflen = ls /\ d1.waiting_on_read = w
      /\ d1.fd_table = d.fd_table /\ d1.kbd_refcount = d.kbd_refcount /\ d1.irq = d.irq
      /\ d1.kbd_done = d.kbd_done /\ d1.failed = d.failed /\ d1.state = d.state
      /\ d1.buffer = d.buffer /\ d1.head = d.head /\ d1.tail = d.tail
  BY <1>1 DEF KbdStates
<1> HIDE DEF d1
<1>7. Counted(d1)
  BY <1>6 DEF Sound, Counted, Opens
<1>8. Tasks(d1, {s})
  <2>1. ASSUME NEW r \in Slots, d1.waiting_on_read[r]
        PROVE  Holds(d1, r) /\ d1.buff_count[r] < d1.bufflen[r]
    <3>1. Holds(d1, r) <=> Holds(d, r)
      BY <1>6 DEF Holds
    <3>2. CASE r = s
      BY <1>4, <1>6, <3>1, <3>2
    <3>3. CASE r # s
      BY <1>4, <1>6, <2>1, <3>1, <3>3 DEF Sound, Tasks
    <3> QED
      BY <3>2, <3>3
  <2>2. ASSUME d1.irq, NEW r \in Slots \ {s}, d1.waiting_on_read[r]
        PROVE  d1.state[r] = "blocked"
    BY <1>4, <1>6, <2>2 DEF Sound, Tasks
  <2> QED
    BY <2>1, <2>2 DEF Tasks
<1>9. Sound(d1, {s})
  BY <1>5, <1>7, <1>8 DEF Sound
<1>10. Served(d, {}) => Served(d1, {s})
  BY <1>4, <1>6 DEF Served
<1>11. /\ Sound(e, {s}) /\ Progress(d1, e) /\ FrontTaken(d1, e)
       /\ Served(d1, {s}) => Served(e, {s})
  BY <1>9, FlushFacts
<1> HIDE DEF e
<1>12. FrontTaken(d, e)
  BY <1>6, <1>11 DEF FrontTaken, Used, At
<1>13. Wakes(d, e)
  <2> SUFFICES ASSUME NEW r \in Slots, d.state[r] = "blocked", e.state[r] = "user"
               PROVE  e.buff_count[r] # 0 \/ e.kbd_done
    BY DEF Wakes
  <2>1. e.buff_count[r] >= 1 \/ e.kbd_done
    BY <1>6, <1>11 DEF Progress
  <2> QED
    BY <2>1
<1>14. e.bufflen[s] = len /\ e.state[s] = "user"
  BY <1>4, <1>6, <1>11 DEF Progress
<1> QED
  BY <1>2, <1>10, <1>11, <1>12, <1>13, <1>14

\* sysread().
LEMMA ReadFacts ==
  ASSUME NEW d, Sound(d, {}), NEW s \in Slots, d.state[s] = "user", Holds(d, s),
         NEW len \in Nat \ {0}
  PROVE  LET e == kbd_read(d, s, len)
         IN  /\ Sound(e, {})
             /\ Served(d, {}) => Served(e, {})
             /\ Wakes(d, e)
             /\ Drains(d, e)
             /\ e.state[s] = "user" => e.buff_count[s] # 0 \/ e.kbd_done
<1> DEFINE d1 == Request(d, s, len)
           st == [d1.state EXCEPT ![s] = "blocked"]
           e == [d1 EXCEPT !.state = st]
<1>1. /\ Sound(d1, {s}) /\ Wakes(d, d1) /\ FrontTaken(d, d1)
      /\ Served(d, {}) => Served(d1, {s})
      /\ d1.bufflen[s] = len /\ d1.state[s] = "user"
  BY RequestFacts
<1>2. d1 \in KbdStates
  BY <1>1 DEF Sound
<1> HIDE DEF d1
<1>3. CASE d1.buff_count[s] = len \/ d1.kbd_done
  <2>1. kbd_read(d, s, len) = d1
    BY <1>3 DEF kbd_read, d1
  <2>2. Tasks(d1, {})
    <3>1. ASSUME d1.irq, d1.waiting_on_read[s] PROVE FALSE
      <4>1. ~d1.kbd_done
        BY <1>1, <3>1 DEF Sound, Counted
      <4>2. d1.buff_count[s] < d1.bufflen[s]
        BY <1>1, <3>1 DEF Sound, Tasks
      <4> QED
        BY <1>1, <1>3, <4>1, <4>2
    <3> QED
      BY <1>1, <3>1 DEF Sound, Tasks
  <2>3. Served(d, {}) => Served(d1, {})
    BY <1>1 DEF Served
  <2>4. d1.buff_count[s] # 0 \/ d1.kbd_done
    BY <1>3
  <2> QED
    BY <1>1, <2>1, <2>2, <2>3, <2>4 DEF Sound, Drains
<1>4. CASE ~(d1.buff_count[s] = len \/ d1.kbd_done)
  <2>1. kbd_read(d, s, len) = e
    BY <1>2, <1>4 DEF kbd_read, d1, KbdStates
  <2>2. /\ st \in [Slots -> {"free", "user", "blocked"}]
        /\ \A r \in Slots : st[r] = IF r = s THEN "blocked" ELSE d1.state[r]
    BY <1>2 DEF KbdStates
  <2> HIDE DEF st
  <2>3. e \in KbdStates
    BY <1>2, <2>2 DEF KbdStates
  <2>4. /\ e.state = st
        /\ e.buff_count = d1.buff_count /\ e.bufflen = d1.bufflen
        /\ e.waiting_on_read = d1.waiting_on_read
        /\ e.fd_table = d1.fd_table /\ e.kbd_refcount = d1.kbd_refcount /\ e.irq = d1.irq
        /\ e.kbd_done = d1.kbd_done /\ e.failed = d1.failed
        /\ e.buffer = d1.buffer /\ e.head = d1.head /\ e.tail = d1.tail
    BY <1>2 DEF KbdStates
  <2> HIDE DEF e
  <2>5. Counted(e)
    BY <1>1, <2>4 DEF Sound, Counted, Opens
  <2>6. Tasks(e, {})
    BY <1>1, <2>2, <2>4 DEF Sound, Tasks, Holds
  <2>7. ASSUME Served(d, {}) PROVE Served(e, {})
    <3>1. Served(d1, {s})
      BY <1>1, <2>7
    <3>2. d1.waiting_on_read[s] /\ ~d1.kbd_done
      BY <1>1, <1>4, <3>1 DEF Served
    <3> QED
      BY <2>2, <2>4, <3>1, <3>2 DEF Served
  <2>8. Wakes(d, e)
    BY <1>1, <2>2, <2>4 DEF Wakes
  <2>9. Drains(d, e)
    BY <1>1, <2>4 DEF Drains, FrontTaken, Used, At
  <2>10. e.state[s] # "user"
    BY <2>2, <2>4
  <2> QED
    BY <2>1, <2>3, <2>5, <2>6, <2>7, <2>8, <2>9, <2>10 DEF Sound
<1> QED
  BY <1>3, <1>4
\* What is in e is what was in d, and at most one more character behind it.
Appended(d, e) ==
  /\ Used(e) \in {Used(d), Used(d) + 1}
  /\ \A i \in 1..Used(d) : At(e, i) = At(d, i)

\* A character that no task takes goes behind the others, if there is room.
LEMMA BufferedFacts ==
  ASSUME NEW d, Sound(d, {}), NEW c \in Chars
  PROVE  LET e == Buffered(d, c)
         IN  /\ Sound(e, {})
             /\ c # "\n" /\ Served(d, {}) => Served(e, {})
             /\ Wakes(d, e)
             /\ Appended(d, e)
<1> DEFINE K == KEYBOARD_BUFFER_SIZE
           e == Buffered(d, c)
           b == [d.buffer EXCEPT ![d.head] = c]
           h == d.head
           t == d.tail
           g == Succ(d.head)
<1>1. d \in KbdStates
  BY DEF Sound
<1>2. CASE e = d
  BY <1>1, <1>2, UsedType DEF Wakes, Appended
<1>3. CASE e # d
  <2>1. e = [d EXCEPT !.buffer = b, !.head = g] /\ g # t
    BY <1>1, <1>3 DEF Buffered, KbdStates
  <2>2. /\ K \in Nat \ {0} /\ K > 1 /\ h \in 0..(K - 1) /\ t \in 0..(K - 1)
        /\ d.buffer \in [0..(K - 1) -> Chars \cup {NUL}]
    BY <1>1, DriverAssumption DEF KbdStates
  <2>3. b \in [0..(K - 1) -> Chars \cup {NUL}]
        /\ \A i \in 0..(K - 1) : b[i] = IF i = h THEN c ELSE d.buffer[i]
    BY <2>2
  <2> HIDE DEF K
  <2>4. g = IF h + 1 = K THEN 0 ELSE h + 1
    <3>1. g = (h + 1) % K
      BY DEF Succ, K
    <3> HIDE DEF h, g
    <3> QED
      BY <2>2, <3>1
  <2>5. g \in 0..(K - 1)
    BY <2>2, <2>4
  <2> HIDE DEF b, g
  <2>6. e \in KbdStates
    BY <1>1, <2>1, <2>3, <2>5 DEF KbdStates, K
  <2>7. /\ e.buffer = b /\ e.head = g /\ e.tail = t
        /\ e.buff_count = d.buff_count /\ e.bufflen = d.bufflen
        /\ e.waiting_on_read = d.waiting_on_read /\ e.state = d.state
        /\ e.fd_table = d.fd_table /\ e.kbd_refcount = d.kbd_refcount /\ e.irq = d.irq
        /\ e.kbd_done = d.kbd_done /\ e.failed = d.failed
    BY <1>1, <2>1 DEF KbdStates
  <2> HIDE DEF e
  <2>8. Sound(e, {})
    BY <2>6, <2>7 DEF Sound, Counted, Opens, Tasks, Holds
  <2>9. c # "\n" /\ Served(d, {}) => Served(e, {})
    BY <2>3, <2>7 DEF Served, K
  <2>10. Wakes(d, e)
    BY <2>7 DEF Wakes
  <2>11. Used(d) = (h - t) % K /\ Used(e) = (g - t) % K
    BY <2>7 DEF Used, K
  <2> HIDE DEF h, t
  <2>12. (h - t) % K = IF h >= t THEN h - t ELSE h - t + K
    <3> DEFINE x == h - t
    <3>1. x \in Int /\ -K <= x /\ x < K /\ (h >= t <=> x >= 0)
      BY <2>2
    <3> HIDE DEF x
    <3>2. x % K = IF x >= 0 THEN x ELSE x + K
      BY <2>2, <3>1
    <3> QED
      BY <2>2, <3>1, <3>2 DEF x
  <2>13. (g - t) % K = IF g >= t THEN g - t ELSE g - t + K
    <3> DEFINE x == g - t
    <3>1. x \in Int /\ -K <= x /\ x < K /\ (g >= t <=> x >= 0)
      BY <2>2, <2>5
    <3> HIDE DEF x
    <3>2. x % K = IF x >= 0 THEN x ELSE x + K
      BY <2>2, <3>1
    <3> QED
      BY <2>2, <2>5, <3>1, <3>2 DEF x
  <2>14. Used(e) = Used(d) + 1 /\ Used(d) \in Nat /\ Used(d) < K - 1
    <3> DEFINE m == (h - t) % K
               n == (g - t) % K
    <3>1. /\ m = IF h >= t THEN h - t ELSE h - t + K
          /\ n = IF g >= t THEN g - t ELSE g - t + K
      BY <2>12, <2>13
    <3>2. K \in Nat /\ h \in 0..(K - 1) /\ t \in 0..(K - 1) /\ g # t
      BY <2>1, <2>2
    <3> HIDE DEF m, n
    <3>3. n = m + 1 /\ m \in Nat /\ m < K - 1
      BY <2>4, <3>1, <3>2
    <3> QED
      BY <2>11, <3>3 DEF m, n
  <2>15. ASSUME NEW i \in 1..Used(d) PROVE At(e, i) = At(d, i)
    <3> DEFINE x == t + i - 1
    <3>1. x \in Int /\ 0 <= x /\ x < 2 * K
      BY <2>2, <2>14
    <3>2. /\ t + i - 1 < K => t + i - 1 # h
          /\ t + i - 1 >= K => t + i - 1 - K # h
      BY <2>2, <2>11, <2>12, <2>14
    <3>3. At(e, i) = b[x % K] /\ At(d, i) = d.buffer[x % K]
      BY <2>7 DEF At, t, K
    <3> HIDE DEF x
    <3>4. x % K = IF x < K THEN x ELSE x - K
      <4>1. K \in Nat \ {0}
        BY <2>2
      <4> QED
        BY <3>1, <4>1
    <3>5. x % K \in 0..(K - 1) /\ x % K # h
      BY <2>2, <3>1, <3>2, <3>4 DEF x
    <3> QED
      BY <2>3, <3>3, <3>5
  <2> QED
    BY <2>8, <2>9, <2>10, <2>14, <2>15 DEF Appended, e
<1> QED
  BY <1>2, <1>3

\* The character and the key state of a scan code.
LEMMA KeyTypes ==
  ASSUME NEW keystate \in KeyStates, NEW key, NEW pressed \in BOOLEAN
  PROVE  /\ KeyChar(keystate, key) \in Chars \cup {NUL}
         /\ key # "ENTER" => KeyChar(keystate, key) # "\n"
         /\ KeyState(keystate, key, pressed) \in KeyStates
<1>1. KeyChar(keystate, key) \in Chars \cup {NUL}
  BY DEF KeyChar, Chars, NUL
<1>2. key # "ENTER" => KeyChar(keystate, key) # "\n"
  BY DEF KeyChar, NUL
<1>3. KeyState(keystate, key, pressed) \in KeyStates
  BY DEF KeyState, KeyStates
<1> QED
  BY <1>1, <1>2, <1>3

\* The interrupt handler.
LEMMA IsrFacts ==
  ASSUME NEW d, Sound(d, {}), NEW key, NEW pressed \in BOOLEAN
  PROVE  LET e == keyboard_isr(d, key, pressed)
         IN  /\ Sound(e, {})
             /\ key # "ENTER" /\ Served(d, {}) => Served(e, {})
             /\ Wakes(d, e)
             /\ Appended(d, e)
<1> DEFINE c == IF pressed THEN KeyChar(d.keystate, key) ELSE NUL
           ks == KeyState(d.keystate, key, pressed)
           d1 == [d EXCEPT !.keystate = ks]
           e == keyboard_isr(d, key, pressed)
<1>1. d \in KbdStates
  BY DEF Sound
<1>2. ks \in KeyStates /\ c \in Chars \cup {NUL} /\ (key # "ENTER" => c # "\n")
  BY <1>1, KeyTypes DEF KbdStates, NUL
<1>3. e = IF c = NUL THEN d1
          ELSE IF d1.kbd_task_refcount > 0 THEN keyboard_process_char(d1, c)
          ELSE Buffered(d1, c)
  BY <1>1 DEF keyboard_isr, KbdStates
<1> HIDE DEF c, ks
<1>4. d1 \in KbdStates
  BY <1>1, <1>2 DEF KbdStates
<1>5. /\ d1.buffer = d.buffer /\ d1.head = d.head /\ d1.tail = d.tail
      /\ d1.buff_count = d.buff_count /\ d1.bufflen = d.bufflen
      /\ d1.waiting_on_read = d.waiting_on_read /\ d1.state = d.state
      /\ d1.fd_table = d.fd_table /\ d1.kbd_refcount = d.kbd_refcount /\ d1.irq = d.irq
      /\ d1.kbd_done = d.kbd_done /\ d1.failed = d.failed
  BY <1>1 DEF KbdStates
<1> HIDE DEF d1, e
<1>6. Sound(d1, {}) /\ (Served(d, {}) => Served(d1, {}))
  BY <1>4, <1>5 DEF Sound, Counted, Opens, Tasks, Holds, Served
<1>7. Used(d1) = Used(d) /\ \A i \in 1..Used(d) : At(d1, i) = At(d, i)
  BY <1>5 DEF Used, At
<1>8. CASE e = d1
  BY <1>5, <1>6, <1>7, <1>8, UsedType DEF Wakes, Appended, e
<1>9. CASE c # NUL /\ e = keyboard_process_char(d1, c)
  <2>1. /\ e \in KbdStates /\ CharEffect(d1, c, e)
        /\ e.buffer = d1.buffer /\ e.head = d1.head /\ e.tail = d1.tail
    BY <1>4, <1>9, CharFields
  <2>2. Sound(e, {})
    BY <1>6, <2>1, EffectSound
  <2>3. c # "\n" /\ Served(d, {}) => Served(e, {})
    <3> SUFFICES ASSUME c # "\n", Served(d, {}) PROVE Served(e, {})
      OBVIOUS
    <3>1. Served(d1, {})
      BY <1>6
    <3>2. \A i \in 0..(KEYBOARD_BUFFER_SIZE - 1) : e.buffer[i] # "\n"
      BY <2>1, <3>1 DEF Served
    <3>3. {} \in SUBSET Slots
      OBVIOUS
    <3> QED
      BY <1>4, <2>1, <3>1, <3>2, <3>3, EffectServed
  <2>4. Wakes(d, e)
    <3>1. Progress(d1, d1)
      BY <1>4 DEF Progress, KbdStates
    <3>2. Progress(d1, e)
      BY <1>4, <2>1, <3>1, EffectProgress
    <3>3. ASSUME NEW r \in Slots, d.state[r] = "blocked", e.state[r] = "user"
          PROVE  e.buff_count[r] # 0 \/ e.kbd_done
      <4>1. e.buff_count[r] >= 1 \/ e.kbd_done
        BY <1>5, <3>2, <3>3 DEF Progress
      <4> QED
        BY <4>1
    <3> QED
      BY <3>3 DEF Wakes
  <2>5. Appended(d, e)
    BY <1>7, <2>1 DEF Appended, Used, At
  <2> QED
    BY <1>2, <2>2, <2>3, <2>4, <2>5 DEF e
<1>10. CASE c # NUL /\ e = Buffered(d1, c)
  <2>1. /\ Sound(e, {}) /\ Wakes(d1, e) /\ Appended(d1, e)
        /\ c # "\n" /\ Served(d1, {}) => Served(e, {})
    BY <1>2, <1>6, <1>10, BufferedFacts
  <2>2. Wakes(d, e) /\ Appended(d, e)
    BY <1>5, <1>7, <2>1 DEF Wakes, Appended
  <2> QED
    BY <1>2, <1>6, <2>1, <2>2 DEF e
<1> QED
  BY <1>3, <1>8, <1>9, <1>10
-----------------------------------------------------------------------------
(***************************************************************************)
(* The theorems                                                            *)
(***************************************************************************)

\* The initial state is sound, and nobody is blocked.
LEMMA InitFacts ==
  ASSUME Init
  PROVE  Sound(kbd, {}) /\ Served(kbd, {})
<1>1. /\ 0 \in 0..(KEYBOARD_BUFFER_SIZE - 1) /\ {} \in KeyStates
      /\ NONE \in Devices \cup {NONE}
  BY DriverAssumption DEF KeyStates
<1>2. kbd \in KbdStates
  BY <1>1 DEF Init, kbd_init, KbdStates, Devices
<1>3. Opens(kbd) = {}
  BY DEF Init, kbd_init, Opens
<1>4. Counted(kbd)
  <2>1. Cardinality(Opens(kbd)) = 0
    BY <1>3, FS_EmptySet
  <2> QED
    BY <2>1 DEF Init, kbd_init, Counted
<1>5. Tasks(kbd, {}) /\ Served(kbd, {})
  BY DEF Init, kbd_init, Tasks, Served, NUL
<1> QED
  BY <1>2, <1>4, <1>5 DEF Sound

\* What a step of a process other than a read does: nobody wakes.
LEMMA PlainFacts ==
  ASSUME NEW d, Sound(d, {}), NEW e \in KbdStates, NEW s \in Slots,
         e.buffer = d.buffer, e.head = d.head, e.tail = d.tail,
         e.buff_count = d.buff_count, e.bufflen = d.bufflen,
         e.waiting_on_read = d.waiting_on_read,
         e.fd_table = d.fd_table, e.kbd_refcount = d.kbd_refcount, e.irq = d.irq,
         e.kbd_done = d.kbd_done, e.failed = d.failed,
         d.state[s] # "blocked", e.state[s] # "blocked",
         \A r \in Slots : r # s => e.state[r] = d.state[r]
  PROVE  /\ Sound(e, {})
         /\ Served(d, {}) => Served(e, {})
         /\ Wakes(d, e)
         /\ Drains(d, e)
<1>1. Counted(e)
  BY DEF Sound, Counted, Opens
<1>2. Tasks(e, {})
  BY DEF Sound, Tasks, Holds
<1>3. Served(d, {}) => Served(e, {})
  BY DEF Served
<1>4. Wakes(d, e)
  BY DEF Wakes
<1>5. Drains(d, e)
  BY FrontSame DEF Drains, Sound
<1> QED
  BY <1>1, <1>2, <1>3, <1>4, <1>5 DEF Sound

\* Every step of a process.
LEMMA CallFacts ==
  ASSUME Sound(kbd, {}), NEW s \in Slots,
         Open(s) \/ Close(s) \/ Read(s) \/ Ioctl(s) \/ Fail(s) \/ Stop(s) \/ Create(s)
  PROVE  /\ Sound(kbd', {})
         /\ Served(kbd, {}) => Served(kbd', {})
         /\ Wakes(kbd, kbd')
         /\ Drains(kbd, kbd')
<1>1. kbd \in KbdStates
  BY DEF Sound
<1>2. CASE Open(s)
  BY <1>2, OpenFacts DEF Open
<1>3. CASE Close(s)
  BY <1>3, CloseFacts DEF Close, Calls
<1>4. CASE Read(s)
  <2>1. PICK fd \in FDs, len \in Lengths :
          valid_fd(kbd, s, fd) /\ kbd' = kbd_read(kbd, s, len)
    BY <1>4 DEF Read
  <2>2. Holds(kbd, s) /\ len \in Nat \ {0} /\ kbd.state[s] = "user"
    BY <1>4, <2>1, DriverAssumption DEF Holds, valid_fd, Read, Calls
  <2> QED
    BY <2>1, <2>2, ReadFacts
<1>5. CASE Ioctl(s)
  <2>1. PICK c \in {KBD_DEFAULT_EOF, "d"} : kbd' = [kbd EXCEPT !.eof = c]
    BY <1>5 DEF Ioctl
  <2>2. c \in Chars
    BY <2>1 DEF Chars, KBD_DEFAULT_EOF
  <2>3. kbd' \in KbdStates
    BY <1>1, <2>1, <2>2 DEF KbdStates
  <2> QED
    BY <1>1, <1>5, <2>1, <2>3, PlainFacts DEF KbdStates, Ioctl, Calls
<1>6. CASE Fail(s)
  BY <1>1, <1>6, FrontSame DEF Fail, Wakes, Drains
<1>7. CASE Stop(s)
  <2>1. kbd' \in KbdStates
    BY <1>1, <1>7 DEF KbdStates, Stop
  <2>2. /\ kbd'.buffer = kbd.buffer /\ kbd'.head = kbd.head /\ kbd'.tail = kbd.tail
        /\ kbd'.buff_count = kbd.buff_count /\ kbd'.bufflen = kbd.bufflen
        /\ kbd'.waiting_on_read = kbd.waiting_on_read /\ kbd'.fd_table = kbd.fd_table
        /\ kbd'.kbd_refcount = kbd.kbd_refcount /\ kbd'.irq = kbd.irq
        /\ kbd'.kbd_done = kbd.kbd_done /\ kbd'.failed = kbd.failed
    BY <1>1, <1>7 DEF KbdStates, Stop
  <2>3. /\ kbd.state[s] # "blocked" /\ kbd'.state[s] # "blocked"
        /\ \A r \in Slots : r # s => kbd'.state[r] = kbd.state[r]
    BY <1>1, <1>7 DEF KbdStates, Stop, Calls
  <2> QED
    BY <2>1, <2>2, <2>3, PlainFacts
<1>8. CASE Create(s)
  <2>1. kbd' \in KbdStates
    BY <1>1, <1>8 DEF KbdStates, Create
  <2>2. /\ kbd'.buffer = kbd.buffer /\ kbd'.head = kbd.head /\ kbd'.tail = kbd.tail
        /\ kbd'.buff_count = kbd.buff_count /\ kbd'.bufflen = kbd.bufflen
        /\ kbd'.waiting_on_read = kbd.waiting_on_read /\ kbd'.fd_table = kbd.fd_table
        /\ kbd'.kbd_refcount = kbd.kbd_refcount /\ kbd'.irq = kbd.irq
        /\ kbd'.kbd_done = kbd.kbd_done /\ kbd'.failed = kbd.failed
    BY <1>1, <1>8 DEF KbdStates, Create
  <2>3. /\ kbd.state[s] # "blocked" /\ kbd'.state[s] # "blocked"
        /\ \A r \in Slots : r # s => kbd'.state[r] = kbd.state[r]
    BY <1>1, <1>8 DEF KbdStates, Create
  <2> QED
    BY <2>1, <2>2, <2>3, PlainFacts
<1> QED
  BY <1>2, <1>3, <1>4, <1>5, <1>6, <1>7, <1>8

\* Every keyboard interrupt.
LEMMA InterruptFacts ==
  ASSUME Sound(kbd, {}), KeyboardInt
  PROVE  /\ Sound(kbd', {})
         /\ "ENTER" \notin Keys /\ Served(kbd, {}) => Served(kbd', {})
         /\ Wakes(kbd, kbd')
         /\ Appended(kbd, kbd')
<1>1. PICK key \in Keys, pressed \in BOOLEAN : kbd' = keyboard_isr(kbd, key, pressed)
  BY DEF KeyboardInt
<1> QED
  BY <1>1, IsrFacts

\* Every step keeps the invariant, and a line that does not end leaves nobody
\* behind.
LEMMA StepFacts ==
  ASSUME Sound(kbd, {}), [Next]_kbd
  PROVE  /\ Sound(kbd', {})
         /\ "ENTER" \notin Keys /\ Served(kbd, {}) => Served(kbd', {})
<1>1. CASE \E s \in Slots :
             Open(s) \/ Close(s) \/ Read(s) \/ Ioctl(s) \/ Fail(s) \/ Stop(s) \/ Create(s)
  BY <1>1, CallFacts
<1>2. CASE KeyboardInt
  BY <1>2, InterruptFacts
<1>3. CASE UNCHANGED kbd
  BY <1>3
<1> QED
  BY <1>1, <1>2, <1>3 DEF Next

\* The driver's state is sound whenever the kernel is not in it.
LEMMA AlwaysSound == Spec => []Sound(kbd, {})
<1>1. Init => Sound(kbd, {})
  BY InitFacts
<1>2. Sound(kbd, {}) /\ [Next]_kbd => Sound(kbd, {})'
  BY StepFacts
<1> QED
  BY <1>1, <1>2, PTL DEF Spec

\* kbd_refcount counts the open descriptors, keyboard interrupts are on as long as
\* it should be, and the ASSERT of kbd_open() holds: for any number of processes
\* and descriptors, and whatever keys are pressed.
THEOREM DriverCorrect == Spec => []DriverInv
<1>1. Sound(kbd, {}) => DriverInv
  BY DEF Sound, Counted, Opens, DriverInv, TypeOK, OpenCount, OpenAssertHolds
<1> QED
  BY <1>1, AlwaysSound, PTL

\* No character is written behind the buffer of a read, or for a process that is
\* not in one.
THEOREM WritesContainedCorrect == Spec => []WritesContained
<1>1. Sound(kbd, {}) => WritesContained
  BY DEF Sound, Tasks, WritesContained, NeverOverruns, OnlyReadersWritten, Waiting
<1> QED
  BY <1>1, AlwaysSound, PTL

\* As long as no line ends, every process that is blocked on the keyboard is one
\* that the driver will wake.  (A line that was typed ahead strands its reader.)
THEOREM ReadersServedCorrect ==
  ASSUME "ENTER" \notin Keys
  PROVE  Spec => []ReadersServed
<1> DEFINE Inv == Sound(kbd, {}) /\ Served(kbd, {})
<1>1. Init => Inv
  BY InitFacts
<1>2. Inv /\ [Next]_kbd => Inv'
  BY StepFacts
<1>3. Inv => ReadersServed
  BY DEF Served, ReadersServed
<1> QED
  BY <1>1, <1>2, <1>3, PTL DEF Spec

\* A read that returns no characters, at once or later, means the end of the
\* input.
THEOREM ZeroMeansEofCorrect == Spec => ZeroMeansEof
<1>1. ASSUME Sound(kbd, {}), [Next]_kbd
      PROVE  [\A s \in Slots :
                (kbd.state[s] = "blocked" \/ Read(s)) /\ kbd'.state[s] = "user"
                  /\ kbd'.buff_count[s] = 0 => kbd'.kbd_done]_kbd
  <2>1. CASE UNCHANGED kbd
    BY <2>1
  <2>2. CASE Next
    <3>1. Wakes(kbd, kbd')
      BY <1>1, <2>2, CallFacts, InterruptFacts DEF Next
    <3>2. ASSUME NEW s \in Slots, Read(s)
          PROVE  kbd'.state[s] = "user" => kbd'.buff_count[s] # 0 \/ kbd'.kbd_done
      <4>1. PICK fd \in FDs, len \in Lengths :
              valid_fd(kbd, s, fd) /\ kbd' = kbd_read(kbd, s, len)
        BY <3>2 DEF Read
      <4>2. Holds(kbd, s) /\ len \in Nat \ {0} /\ kbd.state[s] = "user"
        BY <3>2, <4>1, DriverAssumption DEF Holds, valid_fd, Read, Calls
      <4> QED
        BY <1>1, <4>1, <4>2, ReadFacts
    <3> QED
      BY <3>1, <3>2 DEF Wakes
  <2> QED
    BY <1>1, <2>1, <2>2
<1> QED
  BY <1>1, AlwaysSound, PTL DEF Spec, ZeroMeansEof

\* The type-ahead buffer is a queue of any size: interrupts add at its end, reads
\* take from its front.
THEOREM TypeAheadFifoCorrect == Spec => TypeAheadFifo
<1> DEFINE old == Contents(kbd)
           new == Contents(kbd')
           n == Cardinality(DOMAIN old)
           m == Cardinality(DOMAIN new)
           A == /\ KeyboardInt => /\ m \in {n, n + 1}
                                  /\ \A i \in 1..n : new[i] = old[i]
                /\ ~KeyboardInt => \/ m = 0
                                   \/ m <= n /\ \A i \in 1..m : new[i] = old[n - m + i]
<1>1. ASSUME NEW d \in KbdStates
      PROVE  /\ Cardinality(DOMAIN Contents(d)) = Used(d)
             /\ Used(d) \in Nat
             /\ \A i \in 1..Used(d) : Contents(d)[i] = At(d, i)
  <2>1. DOMAIN Contents(d) = 1..Used(d) /\ \A i \in 1..Used(d) : Contents(d)[i] = At(d, i)
    BY DEF Contents, Used, At
  <2>2. Used(d) \in Nat
    BY UsedType
  <2> QED
    BY <2>1, <2>2, FS_Interval
<1>2. ASSUME Sound(kbd, {}), [Next]_kbd PROVE [A]_kbd
  <2>1. CASE UNCHANGED kbd
    BY <2>1
  <2>2. CASE Next
    <3>1. Sound(kbd', {})
      BY <1>2, StepFacts
    <3>2. kbd \in KbdStates /\ kbd' \in KbdStates
      BY <1>2, <3>1 DEF Sound
    <3>3. /\ n = Used(kbd) /\ m = Used(kbd') /\ n \in Nat /\ m \in Nat
          /\ \A i \in 1..n : old[i] = At(kbd, i)
          /\ \A i \in 1..m : new[i] = At(kbd', i)
      BY <1>1, <3>2
    <3> HIDE DEF old, new, n, m
    <3>4. ASSUME KeyboardInt
          PROVE  m \in {n, n + 1} /\ \A i \in 1..n : new[i] = old[i]
      <4>1. Appended(kbd, kbd')
        BY <1>2, <3>4, InterruptFacts
      <4>2. m \in {n, n + 1} /\ \A i \in 1..n : At(kbd', i) = At(kbd, i)
        BY <3>3, <4>1 DEF Appended
      <4> QED
        BY <3>3, <4>2
    <3>5. ASSUME ~KeyboardInt
          PROVE  m = 0 \/ (m <= n /\ \A i \in 1..m : new[i] = old[n - m + i])
      <4>1. Drains(kbd, kbd')
        BY <1>2, <2>2, <3>5, CallFacts DEF Next
      <4>2. CASE m = 0
        BY <4>2
      <4>3. CASE FrontTaken(kbd, kbd')
        <5>1. m <= n /\ \A i \in 1..m : At(kbd', i) = At(kbd, n - m + i)
          BY <3>3, <4>3 DEF FrontTaken
        <5>2. \A i \in 1..m : n - m + i \in 1..n
          BY <3>3, <5>1
        <5> QED
          BY <3>3, <5>1, <5>2
      <4> QED
        BY <3>3, <4>1, <4>2, <4>3 DEF Drains
    <3> QED
      BY <3>4, <3>5
  <2> QED
    BY <1>2, <2>1, <2>2
<1>3. TypeAheadFifo <=> [][A]_kbd
  BY DEF TypeAheadFifo
<1> HIDE DEF A
<1> QED
  BY <1>2, <1>3, AlwaysSound, PTL DEF Spec
=============================================================================
