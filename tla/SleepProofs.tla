---------------------------- MODULE SleepProofs ----------------------------
(***************************************************************************)
(* The sleep device, c/sleep.c, keeps its promise: a sleep that a clock    *)
(* tick ends returns 0, and the delta queue implements one timer per       *)
(* process, for tables of every size and sleeps of every length, as long   *)
(* as no signal takes a sleeper out of the queue and no sleep is of 0 ms.  *)
(*                                                                         *)
(* The invariant is about the deltas: none is negative and that of the     *)
(* head is positive.  Only sleep() and tick() touch them; everything else  *)
(* the kernel does leaves the queue and the deltas alone.                  *)
(***************************************************************************)
EXTENDS PlacementProofs, MCSleep

\* The deltas of a queue: no process waits less than the one before it, and the first
\* one waits.
Deltas(q, ret) ==
  /\ \A i \in 1..Len(q) : ret[q[i]] >= 0
  /\ q # << >> => ret[q[1]] > 0

\* The step leaves the sleepers alone.
Asleep(k, k1) ==
  /\ k1.sleep_queue = k.sleep_queue
  /\ \A s \in Elems(k.sleep_queue) : k1.ret[s] = k.ret[s]

LEMMA AsleepTrans ==
  ASSUME NEW k, NEW k1, NEW k2, Asleep(k, k1), Asleep(k1, k2)
  PROVE  Asleep(k, k2)
BY DEF Asleep

-----------------------------------------------------------------------------
(***************************************************************************)
(* What leaves the sleepers alone                                          *)
(***************************************************************************)

\* The return value of a process that does not sleep.
LEMMA SetRetAsleep ==
  ASSUME NEW k \in KernelStates, NEW p \in Slots, NEW value, p \notin Elems(k.sleep_queue)
  PROVE  Asleep(k, SetRet(k, p, value))
<1>1. Elems(k.sleep_queue) \subseteq Slots
  BY ElemsProperties DEF KernelStates
<1> QED
  BY <1>1 DEF Asleep, SetRet, KernelStates

\* Queues other than the sleep queue.
LEMMA AddAsleep ==
  ASSUME NEW k \in KernelStates, NEW p \in Slots
  PROVE  /\ Asleep(k, add_pcb_to_ready_queue(k, p))
         /\ Asleep(k, add_pcb_to_blocked_queue(k, p))
         /\ Asleep(k, add_pcb_to_stopped_queue(k, p))
         /\ Asleep(k, remove_pcb_from_ready_queue(k, p))
         /\ Asleep(k, remove_pcb_from_blocked_queue(k, p))
BY DEF Asleep, add_pcb_to_ready_queue, add_pcb_to_blocked_queue, add_pcb_to_stopped_queue,
       remove_pcb_from_ready_queue, remove_pcb_from_blocked_queue, Offered, KernelStates

LEMMA UnblockAsleep ==
  ASSUME NEW k \in KernelStates, NEW id
  PROVE  Asleep(k, unblock_pcb_waiting_for_pid(k, id))
BY DEF Asleep, unblock_pcb_waiting_for_pid, KernelStates

LEMMA GetNextAsleep ==
  ASSUME NEW k \in KernelStates
  PROVE  Asleep(k, get_next_pcb(k))
BY DEF Asleep, get_next_pcb, KernelStates

LEMMA ResumeAsleep ==
  ASSUME NEW k \in KernelStates
  PROVE  Asleep(k, Resume(k))
BY DEF Asleep, Resume, deliver_highest_priority_signal, signal, KernelStates

\* Of all positions up to n, the j-th is j.
LEMMA NthOfAll ==
  ASSUME NEW n \in Nat, NEW j \in 1..n
  PROVE  Nth(1..n, j) = j
<1>1. PICK I : I = 1..n
  OBVIOUS
<1>2. I \in SUBSET (0..n) /\ j \in I
  BY <1>1
<1>3. Cardinality(I) = n
  BY <1>1, FS_Interval
<1>4. PICK i \in 1..Cardinality(I) : j = Nth(I, i)
  BY <1>2, NthProperties
<1>5. Cardinality({m \in I : m <= Nth(I, i)}) = i
  BY <1>2, NthProperties
<1>6. {m \in I : m <= Nth(I, i)} = 1..j
  BY <1>1, <1>4
<1>7. Cardinality(1..j) = j
  BY FS_Interval
<1> QED
  BY <1>1, <1>4, <1>5, <1>6, <1>7

\* A list that does not link the entry stays as it is.
LEMMA RemoveNothing ==
  ASSUME NEW S, NEW q \in Seq(S), NEW p, p \notin Elems(q)
  PROVE  pcb_remove(q, p) = q
<1> DEFINE n == Len(q)
           I == 1..n
<1>1. n \in Nat /\ DOMAIN q = I /\ \A x : x \in Elems(q) <=> \E i \in I : q[i] = x
  BY ElemsProperties
<1> HIDE DEF n
<1>2. Positions(q, Elems(q) \ {p}) = I
  BY <1>1 DEF Positions
<1>3. I \in SUBSET (0..n) /\ Cardinality(I) = n
  <2>1. Cardinality(1..n) = n
    BY <1>1, FS_Interval
  <2> QED
    BY <1>1, <2>1
<1>4. ASSUME NEW j \in I PROVE Nth(I, j) = j
  BY <1>1, NthOfAll
<1>5. pcb_remove(q, p) = [j \in I |-> q[Nth(I, j)]]
  BY <1>2, <1>3 DEF pcb_remove, Keep
<1>6. pcb_remove(q, p) = [j \in I |-> q[j]]
  BY <1>4, <1>5
<1> QED
  BY <1>1, <1>6

\* The end of a process that does not sleep.
LEMMA CleanupAsleep ==
  ASSUME NEW k \in KernelStates, NEW p \in Slots, p \notin Elems(k.sleep_queue)
  PROVE  Asleep(k, cleanup_pcb(k, p))
<1>1. PICK k1 : k1 = remove_pcb_from_ready_queue(k, p)
  OBVIOUS
<1>2. PICK k2 : k2 = remove_pcb_from_blocked_queue(k1, p)
  OBVIOUS
<1>3. PICK k3 : k3 = remove_pcb_from_sleep_queue(k2, p)
  OBVIOUS
<1>4. PICK k4 : k4 = unblock_pcb_waiting_for_pid(k3, k3.pid[p])
  OBVIOUS
<1>5. PICK k5 : k5 = add_pcb_to_stopped_queue(k4, p)
  OBVIOUS
<1>6. k1 \in KernelStates /\ Asleep(k, k1)
  BY <1>1, RemoveTypes, AddAsleep
<1>7. k2 \in KernelStates /\ Asleep(k1, k2)
  BY <1>2, <1>6, RemoveTypes, AddAsleep
<1>8. k3 \in KernelStates /\ Asleep(k2, k3)
  <2>1. k3 \in KernelStates
    BY <1>3, <1>7, RemoveTypes
  <2>2. k2.sleep_queue \in Seq(Slots) /\ p \notin Elems(k2.sleep_queue)
    BY <1>6, <1>7 DEF Asleep, KernelStates
  <2>3. pcb_remove(k2.sleep_queue, p) = k2.sleep_queue
    BY <2>2, RemoveNothing
  <2> QED
    BY <1>3, <1>7, <2>1, <2>3 DEF Asleep, remove_pcb_from_sleep_queue, KernelStates
<1>9. k4 \in KernelStates /\ Asleep(k3, k4)
  <2>1. k3.pid[p] \in 0..PID_MAX
    BY <1>8, PidType
  <2> QED
    BY <1>4, <1>8, <2>1, UnblockType, UnblockAsleep
<1>10. k5 \in KernelStates /\ Asleep(k4, k5)
  BY <1>5, <1>9, AddTypes, AddAsleep
<1>11. Asleep(k, k5)
  BY <1>6, <1>7, <1>8, <1>9, <1>10, AsleepTrans
<1>12. cleanup_pcb(k, p) = [k5 EXCEPT !.frames[p] = << >>,
                                      !.signal_table[p] = [g \in Signals |-> "junk"]]
  BY <1>1, <1>2, <1>3, <1>4, <1>5 DEF cleanup_pcb
<1>13. Asleep(k5, cleanup_pcb(k, p))
  BY <1>10, <1>12 DEF Asleep, KernelStates
<1> QED
  BY <1>11, <1>13, AsleepTrans

\* A new process.
LEMMA CreateAsleep ==
  ASSUME NEW k \in KernelStates, k.stopped_queue # << >>, NEW table \in NewTables
  PROVE  Asleep(k, create(k, table))
BY DEF Asleep, create, add_pcb_to_ready_queue, Offered, KernelStates

\* A process that starts to wait in the blocked queue.
LEMMA BlockAsleep ==
  ASSUME NEW k \in KernelStates, NEW p \in Slots, NEW status, NEW id
  PROVE  Asleep(k, Block(k, p, status, id))
BY DEF Asleep, Block, add_pcb_to_blocked_queue, Offered, KernelStates

\* A transfer with a process that does not sleep.
LEMMA CompleteAsleep ==
  ASSUME NEW k \in KernelStates, NEW p \in Slots, p \notin Elems(k.sleep_queue), NEW junk
  PROVE  Asleep(k, Complete(k, p, junk).kern)
<1>1. PICK n : n = TransferLength(k, p, junk)
  OBVIOUS
<1>2. CASE n = WILD
  BY <1>1, <1>2 DEF Complete, Done, Asleep, KernelStates
<1>3. CASE n # WILD
  <2>1. PICK k1 : k1 = add_pcb_to_ready_queue(k, p)
    OBVIOUS
  <2>2. k1 \in KernelStates /\ Asleep(k, k1)
    BY <2>1, AddTypes, AddAsleep
  <2>3. Complete(k, p, junk).kern = [k1 EXCEPT !.blocked_id[p] = 0, !.ret[p] = n]
    BY <1>1, <1>3, <2>1 DEF Complete, Done
  <2>4. Elems(k1.sleep_queue) \subseteq Slots /\ p \notin Elems(k1.sleep_queue)
    BY <2>2, ElemsProperties DEF Asleep, KernelStates
  <2>5. Asleep(k1, Complete(k, p, junk).kern)
    BY <2>2, <2>3, <2>4 DEF Asleep, KernelStates
  <2> QED
    BY <2>2, <2>5, AsleepTrans
<1> QED
  BY <1>2, <1>3

\* A process in the blocked queue does not sleep.
LEMMA BlockedAwake ==
  ASSUME NEW k, NEW H, Good(k, H), NEW p \in Elems(k.blocked_queue)
  PROVE  p \in Slots /\ p \notin Elems(k.sleep_queue)
<1>1. Elems(k.blocked_queue) \subseteq Slots
  BY ElemsProperties DEF Good, KernelStates
<1>2. Where(Elems(k.ready_queue), Elems(k.blocked_queue), Elems(k.sleep_queue),
            Elems(k.stopped_queue), k.state, k.blocked_status, H)
  BY PlacedWhere DEF Good
<1> QED
  BY <1>1, <1>2 DEF Where

\* A call that does not find its partner puts it back and blocks.
LEMMA PutBackAsleep ==
  ASSUME NEW k \in KernelStates, NEW p \in Slots, NEW t \in Slots, NEW status, NEW id,
         NEW k2, k2 = add_pcb_to_blocked_queue(k, t)
  PROVE  Asleep(k, Blocked(Block(k2, p, status, id)).kern)
<1>1. k2 \in KernelStates /\ Asleep(k, k2)
  BY AddTypes, AddAsleep
<1>2. Asleep(k2, Block(k2, p, status, id))
  BY <1>1, BlockAsleep
<1>3. Blocked(Block(k2, p, status, id)).kern = Block(k2, p, status, id)
  BY DEF Blocked
<1> QED
  BY <1>1, <1>2, <1>3, AsleepTrans

LEMMA SendAsleep ==
  ASSUME NEW k, NEW H, Good(k, H), NEW curr \in Slots, NEW dest \in Slots, NEW junk
  PROVE  Asleep(k, send(k, curr, dest, junk).kern)
<1> DEFINE any    == peek_any_receiver(k)
           exists == dest \in Elems(k.blocked_queue)
           target == IF exists THEN dest ELSE any
           k1     == IF exists THEN remove_pcb_from_blocked_queue(k, dest) ELSE k
           k2     == add_pcb_to_blocked_queue(k1, target)
<1>1. k \in KernelStates
  BY DEF Good
<1>2. CASE ~exists /\ any = NULL
  <2>1. send(k, curr, dest, junk).kern = Block(k, curr, "SEND", k.pid[dest])
    BY <1>2 DEF send, Blocked
  <2> QED
    BY <1>1, <2>1, BlockAsleep
<1>3. CASE ~(~exists /\ any = NULL)
  <2>1. target \in Elems(k.blocked_queue)
    <3>1. CASE exists
      BY <3>1
    <3>2. CASE ~exists
      <4>1. any \in Elems(k.blocked_queue) \cup {NULL}
        BY <1>1, FirstInType DEF peek_any_receiver, KernelStates
      <4> QED
        BY <1>3, <3>2, <4>1
    <3> QED
      BY <3>1, <3>2
  <2>2. target \in Slots /\ target \notin Elems(k.sleep_queue)
    BY <2>1, BlockedAwake
  <2>3. k1 \in KernelStates /\ Asleep(k, k1)
    <3>1. CASE exists
      BY <1>1, <3>1, RemoveTypes, AddAsleep
    <3>2. CASE ~exists
      BY <1>1, <3>2 DEF Asleep
    <3> QED
      BY <3>1, <3>2
  <2>4. send(k, curr, dest, junk) =
          IF k1.blocked_id[target] # k1.pid[curr]
          THEN Blocked(Block(k2, curr, "SEND", k2.pid[target])) ELSE Complete(k1, target, junk)
    BY <1>3 DEF send
  <2> HIDE DEF target, k1, exists, any
  <2>5. Asleep(k1, Blocked(Block(k2, curr, "SEND", k2.pid[target])).kern)
    BY <2>2, <2>3, PutBackAsleep
  <2>6. Asleep(k1, Complete(k1, target, junk).kern)
    BY <2>2, <2>3, CompleteAsleep DEF Asleep
  <2>7. Asleep(k1, send(k, curr, dest, junk).kern)
    <3> HIDE DEF k2
    <3> QED
      BY <2>4, <2>5, <2>6
  <2> QED
    BY <2>3, <2>7, AsleepTrans
<1> QED
  BY <1>2, <1>3

LEMMA RecvAsleep ==
  ASSUME NEW k, NEW H, Good(k, H), NEW curr \in Slots, NEW from \in Slots \cup {NULL}, NEW junk
  PROVE  Asleep(k, recv(k, from, curr, junk).kern)
<1> DEFINE exists == from # NULL
           source == IF exists THEN from ELSE peek_next_sender(k)
           k1     == remove_pcb_from_blocked_queue(k, source)
           k2     == add_pcb_to_blocked_queue(k1, source)
           id     == IF exists THEN k.pid[from] ELSE 0
<1>1. k \in KernelStates
  BY DEF Good
<1>2. CASE source = NULL \/ source \notin Elems(k.blocked_queue)
  <2>1. recv(k, from, curr, junk).kern = Block(k, curr, "RECEIVE", id)
    BY <1>2 DEF recv, Blocked
  <2> HIDE DEF id
  <2> QED
    BY <1>1, <2>1, BlockAsleep
<1>3. CASE ~(source = NULL \/ source \notin Elems(k.blocked_queue))
  <2>1. source \in Slots /\ source \notin Elems(k.sleep_queue)
    BY <1>3, BlockedAwake
  <2>2. recv(k, from, curr, junk) =
          IF exists /\ k1.blocked_id[source] # k1.pid[curr]
          THEN Blocked(Block(k2, curr, "RECEIVE", k2.pid[source])) ELSE Complete(k1, source, junk)
    BY <1>3 DEF recv
  <2> HIDE DEF source, exists
  <2>3. k1 \in KernelStates /\ Asleep(k, k1)
    BY <1>1, <2>1, RemoveTypes, AddAsleep
  <2> HIDE DEF k1
  <2>4. Asleep(k1, Blocked(Block(k2, curr, "RECEIVE", k2.pid[source])).kern)
    BY <2>1, <2>3, PutBackAsleep
  <2>5. Asleep(k1, Complete(k1, source, junk).kern)
    BY <2>1, <2>3, CompleteAsleep DEF Asleep
  <2>6. Asleep(k1, recv(k, from, curr, junk).kern)
    <3> HIDE DEF k2
    <3> QED
      BY <2>2, <2>4, <2>5
  <2> QED
    BY <2>3, <2>6, AsleepTrans
<1> QED
  BY <1>2, <1>3

-----------------------------------------------------------------------------
(***************************************************************************)
(* Time                                                                    *)
(***************************************************************************)

\* A sleep that is not of 0 ms takes a tick at least.
LEMMA TicksPositive ==
  ASSUME NEW ms \in SleepMs, 0 \notin SleepMs
  PROVE  Ticks(ms) \in Nat /\ Ticks(ms) > 0
<1>1. ms \in Nat /\ ms # 0
  BY WorkloadAssumption
<1>2. ms \div 10 \in Nat /\ ms % 10 \in 0..9
  BY <1>1
<1>3. ms = 10 * (ms \div 10) + (ms % 10)
  BY <1>1
<1> QED
  BY <1>1, <1>2, <1>3 DEF Ticks, MS_PER_CLOCK_TICK

\* The sums of a queue: there is one for each of its positions, and they add up the
\* deltas.
SumsOf(q, ret, f) ==
  /\ f \in [0..Len(q) -> Int]
  /\ f[0] = 0
  /\ \A i \in 1..Len(q) : f[i] = f[i - 1] + ret[q[i]]

\* The recursive definition of the sums is sound: what is left of t ticks and the sums add
\* up to t.
LEMMA SumsProperties ==
  ASSUME NEW k \in KernelStates
  PROVE  SumsOf(k.sleep_queue, k.ret, Sums(k))
<1> DEFINE q == k.sleep_queue
           n == Len(q)
           left == Left(k, 0)
           g == [i \in 0..n |-> 0 - left[i]]
           Def(f) == [i \in 0..n |-> IF i = 0 THEN 0 ELSE f[i - 1] + k.ret[q[i]]]
<1>1. /\ q \in Seq(Slots) /\ n \in Nat /\ \A i \in 1..n : q[i] \in Slots
      /\ k.ret \in [Slots -> Int]
  BY ElemsProperties DEF KernelStates
<1>2. /\ left \in [0..n -> Int] /\ left[0] = 0
      /\ \A i \in 1..n : left[i] = left[i - 1] - k.ret[q[i]]
  BY LeftProperties
<1> HIDE DEF n, left
<1>3. SumsOf(q, k.ret, g)
  <2>1. g \in [0..n -> Int] /\ g[0] = 0
    BY <1>1, <1>2
  <2>2. ASSUME NEW i \in 1..n PROVE g[i] = g[i - 1] + k.ret[q[i]]
    <3>1. i \in 0..n /\ i - 1 \in 0..n /\ k.ret[q[i]] \in Int
      BY <1>1
    <3>2. left[i] \in Int /\ left[i - 1] \in Int
      BY <1>2, <3>1
    <3> QED
      BY <1>2, <3>1, <3>2
  <2> HIDE DEF g
  <2> QED
    BY <2>1, <2>2 DEF SumsOf, n
<1> HIDE DEF g
<1>4. \A f : SumsOf(q, k.ret, f) => f = Def(f)
  <2> SUFFICES ASSUME NEW f, SumsOf(q, k.ret, f) PROVE f = Def(f)
    OBVIOUS
  <2>1. \A i \in 0..n : i # 0 => i \in 1..n
    BY <1>1
  <2>2. \A i \in 0..n : f[i] = IF i = 0 THEN 0 ELSE f[i - 1] + k.ret[q[i]]
    BY <2>1 DEF SumsOf, n
  <2>3. f = [i \in 0..n |-> f[i]]
    BY DEF SumsOf, n
  <2> QED
    BY <2>2, <2>3
<1>5. Sums(k) = Def(Sums(k))
  <2> DEFINE Q(f) == f = Def(f)
  <2>1. Q(g)
    BY <1>3, <1>4
  <2>2. Sums(k) = CHOOSE f : Q(f)
    BY DEF Sums, n
  <2> HIDE DEF Q
  <2>3. Q(Sums(k))
    BY <2>1, <2>2
  <2> QED
    BY <2>3 DEF Q
<1> DEFINE sum == Sums(k)
<1>6. /\ sum = [i \in 0..n |-> sum[i]]
      /\ \A i \in 0..n : sum[i] = IF i = 0 THEN 0 ELSE sum[i - 1] + k.ret[q[i]]
  BY <1>5
<1> HIDE DEF sum
<1>7. sum[0] = 0
  <2>1. 0 \in 0..n
    BY <1>1
  <2>2. sum[0] = IF 0 = 0 THEN 0 ELSE sum[0 - 1] + k.ret[q[0]]
    BY <1>6, <2>1
  <2> QED
    BY <2>2
<1>8. \A i \in 1..n : sum[i] = sum[i - 1] + k.ret[q[i]]
  <2>1. \A i \in 1..n : i \in 0..n /\ i # 0
    BY <1>1
  <2> QED
    BY <1>6, <2>1
<1>9. 0..n \subseteq {i \in 0..n : sum[i] \in Int}
  <2> DEFINE I == {i \in 0..n : sum[i] \in Int}
  <2>1. 0 \in I
    BY <1>1, <1>7
  <2>2. ASSUME NEW i \in 1..n, i - 1 \in I PROVE i \in I
    <3>1. i \in 0..n /\ k.ret[q[i]] \in Int
      BY <1>1
    <3> QED
      BY <1>8, <2>2, <3>1
  <2>3. 0..n \subseteq I
    <3> HIDE DEF I
    <3> QED
      BY <1>1, <2>1, <2>2, PositionInduction
  <2> QED
    BY <2>3
<1> QED
  BY <1>6, <1>7, <1>8, <1>9 DEF SumsOf, sum, n

\* What a process has left is the sum at its place in the queue.
LEMMA TicksLeftAt ==
  ASSUME NEW k \in KernelStates, NoRepeats(k.sleep_queue)
  PROVE  /\ TicksLeft(k) = [s \in Slots |-> TicksLeft(k)[s]]
         /\ \A i \in 1..Len(k.sleep_queue) : TicksLeft(k)[k.sleep_queue[i]] = Sums(k)[i]
         /\ \A s \in Slots : s \notin Elems(k.sleep_queue) => TicksLeft(k)[s] = 0
<1> DEFINE q == k.sleep_queue
           at(s) == CHOOSE i \in DOMAIN q : q[i] = s
<1>1. /\ q \in Seq(Slots) /\ DOMAIN q = 1..Len(q)
      /\ \A i \in 1..Len(q) : q[i] \in Slots /\ q[i] \in Elems(q)
  <2>1. q \in Seq(Slots)
    BY DEF KernelStates
  <2> HIDE DEF q
  <2> QED
    BY <2>1, ElemsProperties
<1>2. TicksLeft(k) = [s \in Slots |-> IF s \in Elems(q) THEN Sums(k)[at(s)] ELSE 0]
  BY DEF TicksLeft
<1>3. ASSUME NEW i \in 1..Len(q) PROVE at(q[i]) = i
  <2>1. at(q[i]) \in DOMAIN q /\ q[at(q[i])] = q[i]
    BY <1>1
  <2> HIDE DEF at
  <2> QED
    BY <1>1, <2>1 DEF NoRepeats
<1> HIDE DEF at
<1> QED
  BY <1>1, <1>2, <1>3

\* Equal deltas have equal sums.
LEMMA SumsUnique ==
  ASSUME NEW q \in Seq(Slots), NEW f, NEW g, NEW ret, NEW ret1,
         SumsOf(q, ret, f), SumsOf(q, ret1, g), \A i \in 1..Len(q) : ret1[q[i]] = ret[q[i]]
  PROVE  \A i \in 0..Len(q) : g[i] = f[i]
<1> DEFINE n == Len(q)
           P == {i \in 0..n : g[i] = f[i]}
<1>1. n \in Nat
  BY ElemsProperties
<1>2. 0 \in P
  BY <1>1 DEF SumsOf
<1>3. ASSUME NEW i \in 1..n, i - 1 \in P PROVE i \in P
  <2>1. i \in 0..n
    BY <1>1
  <2>2. g[i] = g[i - 1] + ret[q[i]] /\ f[i] = f[i - 1] + ret[q[i]] /\ g[i - 1] = f[i - 1]
    BY <1>3 DEF SumsOf
  <2> QED
    BY <2>1, <2>2
<1>4. 0..n \subseteq P
  <2> HIDE DEF P, n
  <2> QED
    BY <1>1, <1>2, <1>3, PositionInduction
<1> QED
  BY <1>4

\* Sleepers that are left alone have as long to wait as before.
LEMMA AsleepSame ==
  ASSUME NEW k \in KernelStates, NEW k1 \in KernelStates, Asleep(k, k1)
  PROVE  /\ Deltas(k.sleep_queue, k.ret) => Deltas(k1.sleep_queue, k1.ret)
         /\ TicksLeft(k1) = TicksLeft(k)
<1> DEFINE q == k.sleep_queue
           n == Len(q)
           at(s) == CHOOSE i \in DOMAIN q : q[i] = s
<1>1. /\ q \in Seq(Slots) /\ n \in Nat /\ DOMAIN q = 1..n
      /\ \A i \in 1..n : q[i] \in Elems(q)
      /\ \A s \in Elems(q) : \E i \in 1..n : q[i] = s
  <2>1. q \in Seq(Slots)
    BY DEF KernelStates
  <2> HIDE DEF q
  <2> QED
    BY <2>1, ElemsProperties
<1>2. k1.sleep_queue = q /\ \A i \in 1..n : k1.ret[q[i]] = k.ret[q[i]]
  BY <1>1 DEF Asleep
<1>3. \A i \in 0..n : Sums(k1)[i] = Sums(k)[i]
  <2>1. SumsOf(q, k.ret, Sums(k)) /\ SumsOf(q, k1.ret, Sums(k1))
    BY <1>2, SumsProperties
  <2> HIDE DEF q
  <2> QED
    BY <1>1, <1>2, <2>1, SumsUnique
<1>4. \A s \in Elems(q) : at(s) \in 1..n /\ at(s) \in 0..n
  <2>1. \A s \in Elems(q) : at(s) \in DOMAIN q
    BY <1>1
  <2> HIDE DEF at
  <2> QED
    BY <1>1, <2>1
<1>5. /\ TicksLeft(k) = [s \in Slots |-> IF s \in Elems(q) THEN Sums(k)[at(s)] ELSE 0]
      /\ TicksLeft(k1) = [s \in Slots |-> IF s \in Elems(q) THEN Sums(k1)[at(s)] ELSE 0]
  BY <1>2 DEF TicksLeft
<1>6. TicksLeft(k1) = TicksLeft(k)
  <2> HIDE DEF at, q, n
  <2> QED
    BY <1>3, <1>4, <1>5
<1>7. Deltas(k.sleep_queue, k.ret) => Deltas(k1.sleep_queue, k1.ret)
  <2>1. q # << >> => 1 \in 1..n
    BY <1>1, EmptyQueue
  <2> QED
    BY <1>2, <2>1 DEF Deltas
<1> QED
  BY <1>6, <1>7

\* What is left of the ticks behind an entry is what its sum has not used up.
LEMMA LeftSums ==
  ASSUME NEW k \in KernelStates, NEW ticks \in Int
  PROVE  \A i \in 0..Len(k.sleep_queue) : Left(k, ticks)[i] = ticks - Sums(k)[i]
<1> DEFINE q == k.sleep_queue
           n == Len(q)
           left == Left(k, ticks)
           sum == Sums(k)
           P == {i \in 0..n : left[i] = ticks - sum[i]}
<1>1. n \in Nat /\ \A i \in 1..n : q[i] \in Slots /\ k.ret[q[i]] \in Int
  BY ElemsProperties DEF KernelStates
<1>2. /\ left \in [0..n -> Int] /\ left[0] = ticks
      /\ \A i \in 1..n : left[i] = left[i - 1] - k.ret[q[i]]
  BY LeftProperties
<1>3. /\ sum \in [0..n -> Int] /\ sum[0] = 0
      /\ \A i \in 1..n : sum[i] = sum[i - 1] + k.ret[q[i]]
  BY SumsProperties DEF SumsOf
<1> HIDE DEF left, sum, n
<1>4. 0 \in P
  BY <1>1, <1>2, <1>3
<1>5. ASSUME NEW i \in 1..n, i - 1 \in P PROVE i \in P
  <2>1. i \in 0..n /\ i - 1 \in 0..n /\ k.ret[q[i]] \in Int
    BY <1>1
  <2>2. sum[i - 1] \in Int /\ left[i - 1] = ticks - sum[i - 1]
    BY <1>3, <1>5, <2>1
  <2> QED
    BY <1>2, <1>3, <2>1, <2>2
<1>6. 0..n \subseteq P
  <2> HIDE DEF P
  <2> QED
    BY <1>1, <1>4, <1>5, PositionInduction
<1> QED
  BY <1>6 DEF left, sum, n

-----------------------------------------------------------------------------
(***************************************************************************)
(* Going to sleep                                                          *)
(***************************************************************************)

\* q1 is q with p behind the first n entries, d is the delta of p, and the entry behind p
\* has d less than before.
Inserted(q, ret, n, p, d, q1, ret1) ==
  /\ n \in 0..Len(q)
  /\ Len(q1) = Len(q) + 1
  /\ \A i \in 1..n : q1[i] = q[i] /\ ret1[q[i]] = ret[q[i]]
  /\ q1[n + 1] = p /\ ret1[p] = d
  /\ \A i \in (n + 1)..Len(q) :
       /\ q1[i + 1] = q[i]
       /\ i = n + 1 => ret1[q[i]] = ret[q[i]] - d
       /\ i # n + 1 => ret1[q[i]] = ret[q[i]]

\* The sums behind an insertion: those of the old entries are as before, and that of the
\* new one is its delta and the sum of the entry before it.
LEMMA InsertedSums ==
  ASSUME NEW q \in Seq(Slots), NEW ret \in [Slots -> Int], NEW n, NEW p, NEW d \in Int,
         NEW q1, NEW ret1, Inserted(q, ret, n, p, d, q1, ret1),
         NEW f, SumsOf(q, ret, f), NEW g, SumsOf(q1, ret1, g)
  PROVE  /\ \A i \in 0..n : g[i] = f[i]
         /\ g[n + 1] = f[n] + d
         /\ \A i \in (n + 1)..Len(q) : g[i + 1] = f[i]
<1> DEFINE m == Len(q)
           P == {i \in 0..m : (i <= n => g[i] = f[i]) /\ (i > n => g[i + 1] = f[i])}
<1>1. /\ m \in Nat /\ n \in Nat /\ n <= m /\ Len(q1) = m + 1
      /\ \A i \in 1..m : q[i] \in Slots /\ ret[q[i]] \in Int
  BY ElemsProperties DEF Inserted
<1>2. /\ f[0] = 0 /\ g[0] = 0
      /\ \A i \in 0..m : f[i] \in Int
      /\ \A i \in 1..m : f[i] = f[i - 1] + ret[q[i]]
      /\ \A i \in 1..(m + 1) : g[i] = g[i - 1] + ret1[q1[i]]
  BY <1>1 DEF SumsOf
<1>3. /\ \A i \in 1..n : ret1[q1[i]] = ret[q[i]]
      /\ ret1[q1[n + 1]] = d
      /\ n + 1 \in 1..m => ret1[q1[n + 2]] = ret[q[n + 1]] - d
      /\ \A i \in (n + 2)..m : ret1[q1[i + 1]] = ret[q[i]]
  <2>1. n + 1 \in 1..m => n + 1 \in (n + 1)..m /\ (n + 1) + 1 = n + 2
    BY <1>1
  <2>2. \A i \in (n + 2)..m : i \in (n + 1)..m /\ i # n + 1
    BY <1>1
  <2> QED
    BY <2>1, <2>2 DEF Inserted
<1> HIDE DEF m
<1>4. 0 \in P
  BY <1>1, <1>2
<1>5. ASSUME NEW i \in 1..m, i - 1 \in P PROVE i \in P
  <2>1. /\ i \in 0..m /\ i - 1 \in 0..m /\ i \in 1..(m + 1) /\ i + 1 \in 1..(m + 1)
        /\ (i + 1) - 1 = i /\ i \in Int /\ n \in Int
    BY <1>1
  <2>2. f[i - 1] \in Int /\ ret[q[i]] \in Int /\ f[i] = f[i - 1] + ret[q[i]]
    BY <1>1, <1>2, <2>1
  <2>3. CASE i <= n
    <3>1. i \in 1..n /\ i - 1 <= n
      BY <1>1, <2>1, <2>3
    <3>2. g[i] = g[i - 1] + ret1[q1[i]] /\ g[i - 1] = f[i - 1]
      BY <1>2, <1>5, <2>1, <3>1
    <3>3. g[i] = f[i]
      BY <1>3, <2>2, <3>1, <3>2
    <3> QED
      BY <2>1, <2>3, <3>3
  <2>4. CASE i = n + 1
    <3>1. i - 1 = n /\ n <= n /\ n + 1 \in 1..m /\ i + 1 = n + 2
      BY <1>1, <2>1, <2>4
    <3>2. g[n] = f[n] /\ f[n] \in Int
      BY <1>5, <2>2, <3>1
    <3>3. g[n + 1] = g[n] + d
      BY <1>2, <1>3, <2>1, <2>4, <3>1
    <3>4. g[n + 2] = g[n + 1] + (ret[q[n + 1]] - d)
      BY <1>2, <1>3, <2>1, <2>4, <3>1
    <3>5. g[i + 1] = f[i]
      BY <2>2, <2>4, <3>1, <3>2, <3>3, <3>4
    <3> QED
      BY <2>1, <2>4, <3>5
  <2>5. CASE i > n + 1
    <3>1. i \in (n + 2)..m /\ i - 1 > n /\ (i - 1) + 1 = i /\ ~(i <= n)
      BY <1>1, <2>1, <2>5
    <3>2. g[i] = f[i - 1]
      BY <1>5, <3>1
    <3>3. g[i + 1] = g[i] + ret1[q1[i + 1]] /\ ret1[q1[i + 1]] = ret[q[i]]
      BY <1>2, <1>3, <2>1, <3>1
    <3>4. g[i + 1] = f[i]
      BY <2>2, <3>2, <3>3
    <3> QED
      BY <2>1, <3>1, <3>4
  <2> QED
    BY <2>1, <2>3, <2>4, <2>5
<1>6. 0..m \subseteq P
  <2> HIDE DEF P
  <2> QED
    BY <1>1, <1>4, <1>5, PositionInduction
<1>7. ASSUME NEW i \in 0..n PROVE g[i] = f[i]
  <2>1. i \in 0..m /\ i <= n
    BY <1>1
  <2> QED
    BY <1>6, <2>1
<1>8. g[n + 1] = f[n] + d
  <2>1. n \in 0..n /\ n + 1 \in 1..(m + 1) /\ (n + 1) - 1 = n
    BY <1>1
  <2> QED
    BY <1>2, <1>3, <1>7, <2>1
<1>9. ASSUME NEW i \in (n + 1)..m PROVE g[i + 1] = f[i]
  <2>1. i \in 0..m /\ i > n
    BY <1>1
  <2> QED
    BY <1>6, <2>1
<1> QED
  BY <1>7, <1>8, <1>9 DEF m

\* The insertion keeps the deltas if that of the new entry is positive and not more than
\* that of the entry behind it.
LEMMA InsertedDeltas ==
  ASSUME NEW q \in Seq(Slots), NEW ret \in [Slots -> Int], NEW n, NEW p, NEW d \in Int,
         NEW q1, NEW ret1, Inserted(q, ret, n, p, d, q1, ret1), Deltas(q, ret),
         d > 0, n # Len(q) => ret[q[n + 1]] >= d
  PROVE  Deltas(q1, ret1)
<1> DEFINE m == Len(q)
<1>1. /\ m \in Nat /\ n \in Nat /\ n <= m /\ Len(q1) = m + 1
      /\ \A i \in 1..m : q[i] \in Slots /\ ret[q[i]] \in Int
  BY ElemsProperties DEF Inserted
<1>2. /\ \A i \in 1..n : q1[i] = q[i] /\ ret1[q[i]] = ret[q[i]]
      /\ q1[n + 1] = p /\ ret1[p] = d
      /\ \A i \in (n + 1)..m : /\ q1[i + 1] = q[i]
                               /\ i = n + 1 => ret1[q[i]] = ret[q[i]] - d
                               /\ i # n + 1 => ret1[q[i]] = ret[q[i]]
  BY DEF Inserted
<1>3. /\ \A i \in 1..m : ret[q[i]] >= 0
      /\ n >= 1 => ret[q[1]] > 0
  <2>1. n >= 1 => q # << >>
    BY <1>1
  <2> QED
    BY <2>1 DEF Deltas
<1>4. n # m => ret[q[n + 1]] >= d
  OBVIOUS
<1> HIDE DEF m
<1>5. ASSUME NEW i \in 1..(m + 1) PROVE ret1[q1[i]] >= 0
  <2>1. CASE i <= n
    <3>1. i \in 1..n /\ i \in 1..m
      BY <1>1, <2>1
    <3> QED
      BY <1>2, <1>3, <3>1
  <2>2. CASE i = n + 1
    BY <1>2, <2>2
  <2>3. CASE i > n + 1
    <3>1. PICK j : j = i - 1
      OBVIOUS
    <3>2. j \in (n + 1)..m /\ j \in 1..m /\ i = j + 1 /\ ret[q[j]] \in Int
      BY <1>1, <2>3, <3>1
    <3>3. q1[i] = q[j] /\ ret[q[j]] >= 0
      BY <1>2, <1>3, <3>2
    <3>4. CASE j = n + 1
      <4>1. n # m /\ ret[q[j]] >= d
        BY <1>1, <1>4, <3>2, <3>4
      <4> QED
        BY <1>2, <3>2, <3>3, <3>4, <4>1
    <3>5. CASE j # n + 1
      BY <1>2, <3>2, <3>3, <3>5
    <3> QED
      BY <3>4, <3>5
  <2> QED
    BY <1>1, <2>1, <2>2, <2>3
<1>6. ret1[q1[1]] > 0
  <2>1. CASE n >= 1
    <3>1. 1 \in 1..n
      BY <1>1, <2>1
    <3> QED
      BY <1>2, <1>3, <2>1, <3>1
  <2>2. CASE n = 0
    BY <1>2, <2>2
  <2> QED
    BY <1>1, <2>1, <2>2
<1> QED
  BY <1>1, <1>5, <1>6 DEF Deltas

\* The walk goes on past the entries that wake before the new one, and no further.
LEMMA BehindProperties ==
  ASSUME NEW k \in KernelStates, NEW ticks \in Int, NEW n, n = Behind(k, ticks)
  PROVE  /\ n \in 0..Len(k.sleep_queue)
         /\ n # Len(k.sleep_queue) => k.ret[k.sleep_queue[n + 1]] >= Left(k, ticks)[n]
         /\ n > 0 => ~(k.ret[k.sleep_queue[n]] >= Left(k, ticks)[n - 1])
<1> DEFINE q == k.sleep_queue
           stops == {i \in 0..Len(q) :
                       i = Len(q) \/ k.ret[q[i + 1]] >= Left(k, ticks)[i]}
<1>1. Len(q) \in Nat
  BY ElemsProperties DEF KernelStates
<1>2. stops \in SUBSET (0..Len(q)) /\ Len(q) \in stops
  BY <1>1
<1>3. n = CHOOSE i \in stops : \A j \in stops : i <= j
  BY DEF Behind
<1>4. n \in stops /\ \A j \in stops : n <= j
  <2> HIDE DEF stops
  <2>1. \E i \in stops : \A j \in stops : i <= j
    BY <1>1, <1>2, LeastAndGreatest
  <2> QED
    BY <1>3, <2>1
<1>5. n > 0 => n - 1 \in 0..Len(q) /\ n - 1 \notin stops /\ (n - 1) + 1 = n
  <2> HIDE DEF stops
  <2> QED
    BY <1>1, <1>2, <1>4
<1> QED
  BY <1>4, <1>5

\* What is left for the new entry is a tick at least.
LEMMA DeltaPositive ==
  ASSUME NEW k \in KernelStates, NEW ticks \in Nat, ticks > 0, NEW n, n = Behind(k, ticks)
  PROVE  Left(k, ticks)[n] \in Int /\ Left(k, ticks)[n] > 0
<1> DEFINE q == k.sleep_queue
           left == Left(k, ticks)
<1>1. /\ n \in 0..Len(q) /\ Len(q) \in Nat
      /\ n > 0 => ~(k.ret[q[n]] >= left[n - 1])
      /\ \A i \in 1..Len(q) : k.ret[q[i]] \in Int
  <2>0. ticks \in Int
    OBVIOUS
  <2>1. n \in 0..Len(q) /\ (n > 0 => ~(k.ret[q[n]] >= left[n - 1]))
    BY <2>0, BehindProperties, Zenon
  <2>2. Len(q) \in Nat /\ \A i \in 1..Len(q) : k.ret[q[i]] \in Int
    BY ElemsProperties DEF KernelStates
  <2> QED
    BY <2>1, <2>2
<1>2. /\ left \in [0..Len(q) -> Int] /\ left[0] = ticks
      /\ \A i \in 1..Len(q) : left[i] = left[i - 1] - k.ret[q[i]]
  BY LeftProperties
<1> HIDE DEF left, q
<1>3. CASE n = 0
  BY <1>1, <1>2, <1>3 DEF left
<1>4. CASE n > 0
  <2>1. n \in 1..Len(q) /\ n - 1 \in 0..Len(q)
    BY <1>1, <1>4
  <2>2. left[n] = left[n - 1] - k.ret[q[n]] /\ left[n - 1] \in Int /\ k.ret[q[n]] \in Int
    BY <1>1, <1>2, <2>1
  <2> QED
    BY <1>1, <1>4, <2>2 DEF left
<1> QED
  BY <1>1, <1>3, <1>4 DEF left

\* sleep() starts a timer for the process and touches no other.
Slept(k, k1, p, ticks) ==
  /\ Deltas(k1.sleep_queue, k1.ret)
  /\ TicksLeft(k)[p] = 0
  /\ TicksLeft(k1) = [TicksLeft(k) EXCEPT ![p] = ticks]

LEMMA SleepInserts ==
  ASSUME NEW k, NEW p, Good(k, {p}), NEW ticks \in Nat, ticks > 0, NEW k1,
         k1 = add_pcb_to_sleep_queue(k, p, ticks)
  PROVE  \E n : /\ n = Behind(k, ticks)
                /\ Inserted(k.sleep_queue, k.ret, n, p, Left(k, ticks)[n], k1.sleep_queue, k1.ret)
<1> DEFINE q == k.sleep_queue
           ret == k.ret
<1>1. /\ k \in KernelStates /\ p \in Slots /\ ~Linked(k, p) /\ p \notin Elems(q) /\ NoRepeats(q)
      /\ q \in Seq(Slots) /\ ret \in [Slots -> Int]
  BY DEF Good, Placed, Linked, KernelStates
<1>2. PICK n : n = Behind(k, ticks)
  OBVIOUS
<1>3. PICK d : d = Left(k, ticks)[n]
  OBVIOUS
<1>4. n \in 0..Len(q) /\ d \in Int
  <2>1. n \in 0..Len(q)
    BY <1>1, <1>2, BehindProperties
  <2>2. d \in Int
    BY <1>1, <1>2, <1>3, DeltaPositive
  <2> QED
    BY <2>1, <2>2
<1>5. /\ k1.sleep_queue = InsertAt(q, n, p)
      /\ k1.ret = IF n = Len(q) THEN [ret EXCEPT ![p] = d]
                  ELSE [[ret EXCEPT ![p] = d] EXCEPT ![q[n + 1]] = @ - d]
  BY <1>1, <1>2, <1>3 DEF add_pcb_to_sleep_queue, Offered, KernelStates
<1>6. /\ Len(q) \in Nat /\ DOMAIN q = 1..Len(q)
      /\ \A i \in 1..Len(q) : q[i] \in Slots /\ q[i] # p
  BY <1>1, ElemsProperties
<1> HIDE DEF q, ret
<1>7. /\ k1.ret[p] = d
      /\ \A i \in 1..Len(q) : i # n + 1 => k1.ret[q[i]] = ret[q[i]]
      /\ n + 1 \in 1..Len(q) => k1.ret[q[n + 1]] = ret[q[n + 1]] - d
  <2>1. CASE n = Len(q)
    <3>1. n + 1 \notin 1..Len(q)
      BY <1>6, <2>1
    <3> QED
      BY <1>1, <1>5, <1>6, <2>1, <3>1
  <2>2. CASE n # Len(q)
    <3>0. Len(q) \in Nat /\ n \in 0..Len(q)
      BY <1>4, <1>6
    <3>1. n + 1 \in 1..Len(q)
      BY <2>2, <3>0
    <3>2. q[n + 1] \in Slots /\ q[n + 1] # p
      BY <1>6, <3>1
    <3>3. PICK r : r = [ret EXCEPT ![p] = d]
      OBVIOUS
    <3>4. /\ r \in [Slots -> Int] /\ r[p] = d
          /\ \A s \in Slots : s # p => r[s] = ret[s]
      BY <1>1, <1>4, <3>3
    <3>5. k1.ret = [r EXCEPT ![q[n + 1]] = r[q[n + 1]] - d]
      BY <1>5, <2>2, <3>3
    <3>6. \A i \in 1..Len(q) : i # n + 1 => q[i] # q[n + 1]
      BY <1>1, <1>6, <3>1 DEF NoRepeats
    <3> QED
      BY <1>1, <1>6, <3>1, <3>2, <3>4, <3>5, <3>6
  <2> QED
    BY <2>1, <2>2
<1>8. PICK q1 : q1 = k1.sleep_queue
  OBVIOUS
<1>9. q1 = [i \in 1..(Len(q) + 1) |-> IF i <= n THEN q[i] ELSE IF i = n + 1 THEN p ELSE q[i - 1]]
  BY <1>5, <1>8 DEF InsertAt
<1>10. Len(q1) = Len(q) + 1
  <2>1. q1 \in Seq(Slots)
    BY <1>1, <1>4, <1>5, <1>8, InsertAtProperties DEF q
  <2>2. DOMAIN q1 = 1..Len(q1) /\ Len(q1) \in Nat
    BY <2>1, ElemsProperties
  <2>3. DOMAIN q1 = 1..(Len(q) + 1)
    BY <1>9
  <2>4. Len(q) + 1 \in 1..Len(q1)
    BY <1>6, <2>2, <2>3
  <2>5. Len(q1) \in 1..(Len(q) + 1)
    BY <2>2, <2>3, <2>4
  <2> QED
    BY <1>6, <2>4, <2>5
<1>11. /\ \A i \in 1..n : q1[i] = q[i]
       /\ q1[n + 1] = p
       /\ \A i \in (n + 1)..Len(q) : q1[i + 1] = q[i]
  BY <1>4, <1>6, <1>9
<1>12. Inserted(q, ret, n, p, d, q1, k1.ret)
  <2>1. \A i \in 1..n : i \in 1..Len(q) /\ i # n + 1
    BY <1>4, <1>6
  <2>2. \A i \in (n + 1)..Len(q) : i \in 1..Len(q)
    BY <1>4, <1>6
  <2> QED
    BY <1>4, <1>7, <1>10, <1>11, <2>1, <2>2 DEF Inserted
<1> QED
  BY <1>2, <1>3, <1>8, <1>12 DEF q, ret

LEMMA SleepSlept ==
  ASSUME NEW k, NEW p, Good(k, {p}), NEW ticks \in Nat, ticks > 0, NEW k1,
         k1 = add_pcb_to_sleep_queue(k, p, ticks), Deltas(k.sleep_queue, k.ret)
  PROVE  Slept(k, k1, p, ticks)
<1> DEFINE q == k.sleep_queue
           q1 == k1.sleep_queue
<1>1. /\ k \in KernelStates /\ p \in Slots /\ p \notin Elems(q) /\ NoRepeats(q)
      /\ q \in Seq(Slots) /\ k.ret \in [Slots -> Int] /\ ticks \in Int
  BY DEF Good, Placed, Linked, KernelStates
<1>2. k1 \in KernelStates /\ NoRepeats(q1)
  <2>1. p \in {p}
    OBVIOUS
  <2> QED
    BY <1>1, <2>1, SleepType, SleepGood DEF Good, Placed
<1>3. PICK n : /\ n = Behind(k, ticks)
               /\ Inserted(q, k.ret, n, p, Left(k, ticks)[n], q1, k1.ret)
  BY SleepInserts
<1>4. PICK d : d = Left(k, ticks)[n]
  OBVIOUS
<1>5. /\ d \in Int /\ d > 0 /\ n \in 0..Len(q)
      /\ n # Len(q) => k.ret[q[n + 1]] >= d
      /\ d = ticks - Sums(k)[n]
  <2>1. d \in Int /\ d > 0
    BY <1>1, <1>3, <1>4, DeltaPositive
  <2>2. n \in 0..Len(q) /\ (n # Len(q) => k.ret[q[n + 1]] >= d)
    BY <1>1, <1>3, <1>4, BehindProperties
  <2>3. d = ticks - Sums(k)[n]
    BY <1>1, <1>4, <2>2, LeftSums
  <2> QED
    BY <2>1, <2>2, <2>3
<1>6. Inserted(q, k.ret, n, p, d, q1, k1.ret)
  BY <1>3, <1>4
<1>7. Deltas(q1, k1.ret)
  BY <1>1, <1>5, <1>6, InsertedDeltas
<1>8. /\ SumsOf(q, k.ret, Sums(k)) /\ SumsOf(q1, k1.ret, Sums(k1))
      /\ Sums(k)[n] \in Int
  BY <1>1, <1>2, <1>5, SumsProperties DEF SumsOf
<1>9. /\ \A i \in 0..n : Sums(k1)[i] = Sums(k)[i]
      /\ Sums(k1)[n + 1] = Sums(k)[n] + d
      /\ \A i \in (n + 1)..Len(q) : Sums(k1)[i + 1] = Sums(k)[i]
  <2>1. PICK f : f = Sums(k)
    OBVIOUS
  <2>2. PICK g : g = Sums(k1)
    OBVIOUS
  <2>3. SumsOf(q, k.ret, f) /\ SumsOf(q1, k1.ret, g)
    BY <1>8, <2>1, <2>2
  <2>4. PICK a, b, ret1 : a = q /\ b = q1 /\ ret1 = k1.ret
    OBVIOUS
  <2>5. PICK ret : ret = k.ret
    OBVIOUS
  <2>6. /\ a \in Seq(Slots) /\ ret \in [Slots -> Int] /\ d \in Int
        /\ Inserted(a, ret, n, p, d, b, ret1) /\ SumsOf(a, ret, f) /\ SumsOf(b, ret1, g)
    BY <1>1, <1>5, <1>6, <2>3, <2>4, <2>5
  <2>7. /\ \A i \in 0..n : g[i] = f[i]
        /\ g[n + 1] = f[n] + d
        /\ \A i \in (n + 1)..Len(a) : g[i + 1] = f[i]
    BY <2>6, InsertedSums
  <2> QED
    BY <2>1, <2>2, <2>4, <2>7
<1>10. /\ TicksLeft(k) = [s \in Slots |-> TicksLeft(k)[s]]
       /\ \A i \in 1..Len(q) : TicksLeft(k)[q[i]] = Sums(k)[i]
       /\ \A s \in Slots : s \notin Elems(q) => TicksLeft(k)[s] = 0
  BY <1>1, TicksLeftAt
<1>11. /\ TicksLeft(k1) = [s \in Slots |-> TicksLeft(k1)[s]]
       /\ \A i \in 1..Len(q1) : TicksLeft(k1)[q1[i]] = Sums(k1)[i]
       /\ \A s \in Slots : s \notin Elems(q1) => TicksLeft(k1)[s] = 0
  BY <1>2, TicksLeftAt
<1>12. /\ Len(q) \in Nat /\ Len(q1) = Len(q) + 1
       /\ \A i \in 1..n : q1[i] = q[i]
       /\ q1[n + 1] = p
       /\ \A i \in (n + 1)..Len(q) : q1[i + 1] = q[i]
       /\ \A x : x \in Elems(q) <=> \E i \in 1..Len(q) : q[i] = x
  BY <1>1, <1>6, ElemsProperties DEF Inserted
<1>13. Elems(q1) = Elems(q) \cup {p}
  <2>1. k1.sleep_queue = InsertAt(q, n, p)
    BY <1>1, <1>3 DEF add_pcb_to_sleep_queue, Offered, KernelStates, Good, Placed
  <2> QED
    BY <1>1, <1>5, <2>1, InsertAtProperties
<1> HIDE DEF q, q1
<1>14. TicksLeft(k1)[p] = ticks
  <2>1. n + 1 \in 1..Len(q1)
    BY <1>5, <1>12
  <2>2. TicksLeft(k1)[p] = Sums(k)[n] + d
    BY <1>9, <1>11, <1>12, <2>1
  <2> QED
    BY <1>1, <1>5, <1>8, <2>2
<1>15. ASSUME NEW s \in Slots, s # p PROVE TicksLeft(k1)[s] = TicksLeft(k)[s]
  <2>1. CASE s \notin Elems(q)
    BY <1>10, <1>11, <1>13, <1>15, <2>1
  <2>2. CASE s \in Elems(q)
    <3>1. PICK i \in 1..Len(q) : q[i] = s
      BY <1>12, <2>2
    <3>2. CASE i <= n
      <4>1. i \in 1..n /\ i \in 0..n /\ i \in 1..Len(q1)
        BY <1>5, <1>12, <3>2
      <4>2. q1[i] = s /\ Sums(k1)[i] = Sums(k)[i]
        BY <1>9, <1>12, <3>1, <4>1
      <4> QED
        BY <1>10, <1>11, <3>1, <4>1, <4>2
    <3>3. CASE i > n
      <4>1. i \in (n + 1)..Len(q) /\ i + 1 \in 1..Len(q1)
        BY <1>5, <1>12, <3>3
      <4>2. q1[i + 1] = s /\ Sums(k1)[i + 1] = Sums(k)[i]
        BY <1>9, <1>12, <3>1, <4>1
      <4> QED
        BY <1>10, <1>11, <3>1, <4>1, <4>2
    <3> QED
      BY <1>5, <1>12, <3>2, <3>3
  <2> QED
    BY <2>1, <2>2
<1>16. TicksLeft(k1) = [TicksLeft(k) EXCEPT ![p] = ticks]
  <2>1. PICK f : f = TicksLeft(k)
    OBVIOUS
  <2>2. PICK g : g = TicksLeft(k1)
    OBVIOUS
  <2>3. f = [s \in Slots |-> f[s]] /\ g = [s \in Slots |-> g[s]]
    BY <1>10, <1>11, <2>1, <2>2
  <2>4. g[p] = ticks /\ \A s \in Slots : s # p => g[s] = f[s]
    BY <1>14, <1>15, <2>1, <2>2
  <2>5. g = [f EXCEPT ![p] = ticks]
    BY <1>1, <2>3, <2>4
  <2> QED
    BY <2>1, <2>2, <2>5
<1> QED
  BY <1>1, <1>7, <1>10, <1>16 DEF Slept, q, q1

-----------------------------------------------------------------------------
(***************************************************************************)
(* A clock tick                                                            *)
(***************************************************************************)

\* One tick less for the head of a queue with right deltas, and the d entries that have
\* none left are gone.
TakenOff(q, ret, d, q1, ret1) ==
  /\ q \in Seq(Slots) /\ ret \in [Slots -> Int] /\ q1 \in Seq(Slots)
  /\ Deltas(q, ret) /\ q # << >>
  /\ d \in 0..Len(q)
  /\ \A i \in 1..Len(q) : /\ i = 1 => ret1[q[i]] = ret[q[i]] - 1
                          /\ i # 1 => ret1[q[i]] = ret[q[i]]
  /\ \A i \in 1..d : ret1[q[i]] <= 0
  /\ d # Len(q) => ~(ret1[q[d + 1]] <= 0)
  /\ Len(q1) = Len(q) - d
  /\ \A j \in 1..(Len(q) - d) : q1[j] = q[d + j]

\* The deltas after a tick: those that wake have 0, the others have a delta as before.
LEMMA TakenOffDeltas ==
  ASSUME NEW q, NEW ret, NEW d, NEW q1, NEW ret1, TakenOff(q, ret, d, q1, ret1)
  PROVE  /\ \A i \in 1..Len(q) : ret1[q[i]] \in Nat
         /\ \A i \in 1..d : ret1[q[i]] = 0
         /\ Deltas(q1, ret1)
<1> DEFINE n == Len(q)
<1>1. /\ n \in Nat /\ d \in 0..n /\ \A i \in 1..n : ret[q[i]] \in Int /\ ret[q[i]] >= 0
      /\ ret[q[1]] > 0
  BY ElemsProperties DEF Deltas, TakenOff
<1>2. /\ \A i \in 1..n : /\ i = 1 => ret1[q[i]] = ret[q[i]] - 1
                         /\ i # 1 => ret1[q[i]] = ret[q[i]]
      /\ \A i \in 1..d : ret1[q[i]] <= 0
      /\ d # n => ~(ret1[q[d + 1]] <= 0)
      /\ Len(q1) = n - d
      /\ \A j \in 1..(n - d) : q1[j] = q[d + j]
  BY DEF TakenOff
<1> HIDE DEF n
<1>3. ASSUME NEW i \in 1..n PROVE ret1[q[i]] \in Nat
  <2>1. ret[q[i]] \in Int /\ ret[q[i]] >= 0
    BY <1>1
  <2>2. CASE i = 1
    BY <1>1, <1>2, <2>1, <2>2
  <2>3. CASE i # 1
    BY <1>2, <2>1, <2>3
  <2> QED
    BY <2>2, <2>3
<1>4. ASSUME NEW i \in 1..d PROVE ret1[q[i]] = 0
  <2>1. i \in 1..n
    BY <1>1
  <2>2. ret1[q[i]] \in Nat /\ ret1[q[i]] <= 0
    BY <1>2, <1>3, <2>1
  <2> QED
    BY <2>2
<1>5. ASSUME NEW j \in 1..(n - d) PROVE ret1[q1[j]] >= 0
  <2>1. d + j \in 1..n
    BY <1>1
  <2>2. ret1[q[d + j]] \in Nat
    BY <1>3, <2>1
  <2> QED
    BY <1>2, <2>2
<1>6. q1 # << >> => ret1[q1[1]] > 0
  <2> SUFFICES ASSUME q1 # << >> PROVE ret1[q1[1]] > 0
    OBVIOUS
  <2>1. Len(q1) \in Nat /\ Len(q1) # 0
    BY ElemsProperties DEF TakenOff
  <2>2. 1 \in 1..(n - d) /\ d # n /\ d + 1 \in 1..n
    BY <1>1, <1>2, <2>1
  <2>3. q1[1] = q[d + 1] /\ ret1[q[d + 1]] \in Nat /\ ~(ret1[q[d + 1]] <= 0)
    BY <1>2, <1>3, <2>2
  <2> QED
    BY <2>3
<1>7. Deltas(q1, ret1)
  BY <1>2, <1>5, <1>6 DEF Deltas
<1> QED
  BY <1>3, <1>4, <1>7 DEF n

\* The sums after a tick: those that wake had one tick left, and the others have one less.
LEMMA TakenOffSums ==
  ASSUME NEW q, NEW ret, NEW d, NEW q1, NEW ret1, TakenOff(q, ret, d, q1, ret1),
         NEW f, SumsOf(q, ret, f), NEW g, SumsOf(q1, ret1, g)
  PROVE  /\ \A i \in 1..Len(q) : f[i] \in Int /\ f[i] > 0
         /\ \A i \in 1..d : f[i] = 1
         /\ \A j \in 1..(Len(q) - d) : g[j] = f[d + j] - 1
<1> DEFINE n == Len(q)
           e == [i \in 0..n |-> IF i = 0 THEN 0 ELSE f[i] - 1]
<1>1. /\ n \in Nat /\ d \in 0..n /\ d \in Nat /\ Len(q1) = n - d
      /\ \A i \in 1..n : /\ i = 1 => ret1[q[i]] = ret[q[i]] - 1
                         /\ i # 1 => ret1[q[i]] = ret[q[i]]
      /\ \A j \in 1..(n - d) : q1[j] = q[d + j]
      /\ \A i \in 1..n : ret[q[i]] \in Int
  BY ElemsProperties DEF TakenOff
<1>2. /\ \A i \in 1..n : ret1[q[i]] \in Nat
      /\ \A i \in 1..d : ret1[q[i]] = 0
  BY TakenOffDeltas
<1>3. /\ \A i \in 0..n : f[i] \in Int
      /\ f[0] = 0 /\ \A i \in 1..n : f[i] = f[i - 1] + ret[q[i]]
  BY DEF SumsOf
<1>4. g[0] = 0 /\ \A j \in 1..(n - d) : g[j] = g[j - 1] + ret1[q1[j]]
  BY <1>1 DEF SumsOf
<1> HIDE DEF n
<1>5. ASSUME NEW i \in 1..n PROVE e[i] = e[i - 1] + ret1[q[i]] /\ e[i] = f[i] - 1
  <2>1. /\ i \in 0..n /\ i # 0 /\ i - 1 \in 0..n
        /\ ret[q[i]] \in Int /\ f[i] = f[i - 1] + ret[q[i]] /\ f[i - 1] \in Int
    BY <1>1, <1>3
  <2>2. CASE i = 1
    BY <1>1, <1>3, <2>1, <2>2
  <2>3. CASE i # 1
    <3>1. i - 1 # 0 /\ ret1[q[i]] = ret[q[i]]
      BY <1>1, <2>3
    <3> QED
      BY <2>1, <3>1
  <2> QED
    BY <2>2, <2>3
<1>6. e[0] = 0
  BY <1>1
<1> HIDE DEF e
<1>7. \A i \in 0..n : e[i] \in Nat /\ (i <= d => e[i] = 0)
  <2> DEFINE P == {i \in 0..n : e[i] \in Nat /\ (i <= d => e[i] = 0)}
  <2>1. 0 \in P
    BY <1>1, <1>6
  <2>2. ASSUME NEW i \in 1..n, i - 1 \in P PROVE i \in P
    <3>1. i \in 0..n /\ e[i] = e[i - 1] + ret1[q[i]] /\ ret1[q[i]] \in Nat /\ e[i - 1] \in Nat
      BY <1>1, <1>2, <1>5, <2>2
    <3>2. e[i] \in Nat
      BY <3>1
    <3>3. ASSUME i <= d PROVE e[i] = 0
      <4>1. i \in 1..d /\ i - 1 <= d
        BY <1>1, <3>3
      <4>2. ret1[q[i]] = 0 /\ e[i - 1] = 0
        BY <1>2, <2>2, <4>1
      <4> QED
        BY <3>1, <4>2
    <3> QED
      BY <3>1, <3>2, <3>3
  <2>3. 0..n \subseteq P
    <3> HIDE DEF P
    <3> QED
      BY <1>1, <2>1, <2>2, PositionInduction
  <2> QED
    BY <2>3
<1>8. \A j \in 0..(n - d) : g[j] = e[d + j]
  <2> DEFINE m == n - d
             P == {j \in 0..m : g[j] = e[d + j]}
  <2>1. m \in Nat
    BY <1>1
  <2>2. 0 \in P
    <3>1. d + 0 = d /\ d \in 0..n /\ d <= d
      BY <1>1
    <3>2. e[d + 0] = 0
      BY <1>7, <3>1
    <3> QED
      BY <1>4, <2>1, <3>2
  <2>3. ASSUME NEW j \in 1..m, j - 1 \in P PROVE j \in P
    <3>1. j \in 0..m /\ d + j \in 1..n /\ (d + j) - 1 = d + (j - 1)
      BY <1>1
    <3>2. e[d + j] = e[d + (j - 1)] + ret1[q[d + j]]
      BY <1>5, <3>1
    <3>3. g[j] = g[j - 1] + ret1[q[d + j]] /\ g[j - 1] = e[d + (j - 1)]
      BY <1>1, <1>4, <2>3
    <3> QED
      BY <3>1, <3>2, <3>3
  <2>4. 0..m \subseteq P
    <3> HIDE DEF P, m
    <3> QED
      BY <2>1, <2>2, <2>3, PositionInduction
  <2> QED
    BY <2>4
<1>9. ASSUME NEW i \in 1..n PROVE f[i] \in Int /\ f[i] > 0 /\ (i <= d => f[i] = 1)
  <2>1. i \in 0..n /\ e[i] = f[i] - 1 /\ f[i] \in Int
    BY <1>1, <1>3, <1>5
  <2>2. e[i] \in Nat /\ (i <= d => e[i] = 0)
    BY <1>7, <2>1
  <2> QED
    BY <2>1, <2>2
<1>10. ASSUME NEW j \in 1..(n - d) PROVE g[j] = f[d + j] - 1
  <2>1. j \in 0..(n - d) /\ d + j \in 1..n
    BY <1>1
  <2> QED
    BY <1>5, <1>8, <2>1
<1>11. \A i \in 1..d : i \in 1..n /\ i <= d
  BY <1>1
<1> QED
  BY <1>9, <1>10, <1>11 DEF n

\* All that have no tick left are due, and none that has one.
LEMMA DueProperties ==
  ASSUME NEW k \in KernelStates, NEW d, d = Due(k)
  PROVE  /\ d \in 0..Len(k.sleep_queue)
         /\ \A i \in 1..d : k.ret[k.sleep_queue[i]] <= 0
         /\ d # Len(k.sleep_queue) => ~(k.ret[k.sleep_queue[d + 1]] <= 0)
<1> DEFINE q == k.sleep_queue
           due == {n \in 0..Len(q) : \A i \in 1..n : k.ret[q[i]] <= 0}
<1>1. Len(q) \in Nat
  BY ElemsProperties DEF KernelStates
<1>2. due \in SUBSET (0..Len(q)) /\ 0 \in due
  BY <1>1
<1>3. d = CHOOSE n \in due : \A m \in due : m <= n
  BY DEF Due
<1>4. d \in due /\ \A m \in due : m <= d
  <2> HIDE DEF due
  <2>1. \E n \in due : \A m \in due : m <= n
    BY <1>1, <1>2, LeastAndGreatest
  <2> QED
    BY <1>3, <2>1
<1>5. d \in 0..Len(q) /\ \A i \in 1..d : k.ret[q[i]] <= 0
  BY <1>4
<1>6. ASSUME d # Len(q), k.ret[q[d + 1]] <= 0 PROVE FALSE
  <2>1. d + 1 \in 0..Len(q) /\ ~(d + 1 <= d)
    BY <1>1, <1>5, <1>6
  <2>2. \A i \in 1..(d + 1) : i \in 1..d \/ i = d + 1
    BY <1>5
  <2>3. d + 1 \in due
    BY <1>5, <1>6, <2>1, <2>2
  <2> QED
    BY <1>4, <2>1, <2>3
<1> QED
  BY <1>5, <1>6

\* tick() takes one off every timer, and wakes those whose timer runs out with the
\* result 0.
Ticked(k, k1) ==
  /\ Deltas(k1.sleep_queue, k1.ret)
  /\ TicksLeft(k1) = [s \in Slots |-> IF TicksLeft(k)[s] > 0 THEN TicksLeft(k)[s] - 1 ELSE 0]
  /\ \A s \in Elems(k.sleep_queue) : s \notin Elems(k1.sleep_queue) => k1.ret[s] = 0

\* What tick() makes of the queue and the deltas.
LEMMA TickTakesOff ==
  ASSUME NEW k, NEW H, Good(k, H), Deltas(k.sleep_queue, k.ret), k.sleep_queue # << >>,
         NEW k2, k2 = tick(k)
  PROVE  \E d : TakenOff(k.sleep_queue, k.ret, d, k2.sleep_queue, k2.ret)
<1> DEFINE q == k.sleep_queue
<1>1. /\ k \in KernelStates /\ NoRepeats(q) /\ q \in Seq(Slots) /\ k.ret \in [Slots -> Int]
  BY DEF Good, Placed, KernelStates
<1>2. PICK k1 : k1 = [k EXCEPT !.ret[Head(q)] = @ - 1]
  OBVIOUS
<1>3. PICK d : d = Due(k1)
  OBVIOUS
<1>4. k2 = WakeFirst(k1, d)
  BY <1>2, <1>3 DEF tick
<1>5. /\ Len(q) \in Nat /\ DOMAIN q = 1..Len(q) /\ 1 \in 1..Len(q) /\ Head(q) = q[1]
      /\ \A i \in 1..Len(q) : q[i] \in Slots
  <2>1. Len(q) \in Nat /\ DOMAIN q = 1..Len(q) /\ \A i \in 1..Len(q) : q[i] \in Slots
    BY <1>1, ElemsProperties
  <2>2. Len(q) # 0
    BY <1>1
  <2>3. Head(q) = q[1]
    OBVIOUS
  <2> QED
    BY <2>1, <2>2, <2>3
<1>6. /\ k1 \in KernelStates /\ k1.sleep_queue = q
      /\ k1.ret = [k.ret EXCEPT ![q[1]] = k.ret[q[1]] - 1]
  <2>1. q[1] \in Slots
    BY <1>5
  <2>2. [k.ret EXCEPT ![q[1]] = k.ret[q[1]] - 1] \in [Slots -> Int]
    BY <1>1, <2>1
  <2>3. k1 = [k EXCEPT !.ret = [k.ret EXCEPT ![q[1]] = k.ret[q[1]] - 1]]
    BY <1>1, <1>2, <1>5 DEF KernelStates
  <2> QED
    BY <1>1, <2>2, <2>3 DEF KernelStates
<1>7. /\ d \in 0..Len(q) /\ \A i \in 1..d : k1.ret[q[i]] <= 0
      /\ d # Len(q) => ~(k1.ret[q[d + 1]] <= 0)
  BY <1>3, <1>6, DueProperties
<1>8. k2.sleep_queue = SubSeq(q, d + 1, Len(q)) /\ k2.ret = k1.ret
  BY <1>4, <1>6 DEF WakeFirst, KernelStates
<1>9. PICK q2 : q2 = k2.sleep_queue
  OBVIOUS
<1> HIDE DEF q
<1>10. q2 \in Seq(Slots) /\ Len(q2) = Len(q) - d /\ \A j \in 1..(Len(q) - d) : q2[j] = q[d + j]
  <2>0. Len(q) \in Nat /\ d \in 0..Len(q)
    BY <1>5, <1>7
  <2>1. d + 1 \in 1..(Len(q) + 1) /\ Len(q) \in 0..Len(q)
    BY <2>0
  <2>2. q2 \in Seq(Slots)
    BY <1>1, <1>8, <1>9, <2>1, PartProperties
  <2>3. Len(q2) = Len(q) - d /\ \A j \in 1..(Len(q) - d) : q2[j] = q[d + j]
    <3>1. PICK a : a = q
      OBVIOUS
    <3>2. PICK n : n = Len(a)
      OBVIOUS
    <3>3. a \in Seq(Slots) /\ q2 = SubSeq(a, d + 1, n) /\ n \in Nat /\ d \in 0..n
      BY <1>1, <1>8, <1>9, <2>0, <3>1, <3>2
    <3>4. Len(q2) = n - d /\ \A j \in 1..(n - d) : q2[j] = a[d + j]
      BY <3>2, <3>3
    <3> QED
      BY <3>1, <3>2, <3>4
  <2> QED
    BY <2>2, <2>3
<1>11. ASSUME NEW i \in 1..Len(q)
       PROVE  /\ i = 1 => k1.ret[q[i]] = k.ret[q[i]] - 1
              /\ i # 1 => k1.ret[q[i]] = k.ret[q[i]]
  <2>1. i # 1 => q[i] # q[1]
    BY <1>1, <1>5 DEF NoRepeats
  <2> QED
    BY <1>1, <1>5, <1>6, <2>1
<1>12. Deltas(q, k.ret) /\ q # << >>
  BY DEF q
<1>13. TakenOff(q, k.ret, d, q2, k1.ret)
  BY <1>1, <1>7, <1>10, <1>11, <1>12 DEF TakenOff
<1> QED
  BY <1>8, <1>9, <1>13 DEF q

LEMMA TickTicked ==
  ASSUME NEW k, NEW H, Good(k, H), Deltas(k.sleep_queue, k.ret), NEW k1, k1 = tick(k)
  PROVE  Ticked(k, k1)
<1> DEFINE q == k.sleep_queue
           q1 == k1.sleep_queue
<1>1. k \in KernelStates /\ NoRepeats(q) /\ q \in Seq(Slots) /\ k.ret \in [Slots -> Int]
  BY DEF Good, Placed, KernelStates
<1>2. k1 \in KernelStates /\ NoRepeats(q1)
  BY <1>1, TickType, TickGood DEF Good, Placed
<1>3. /\ TicksLeft(k) = [s \in Slots |-> TicksLeft(k)[s]]
      /\ \A i \in 1..Len(q) : TicksLeft(k)[q[i]] = Sums(k)[i]
      /\ \A s \in Slots : s \notin Elems(q) => TicksLeft(k)[s] = 0
  BY <1>1, TicksLeftAt
<1>4. /\ TicksLeft(k1) = [s \in Slots |-> TicksLeft(k1)[s]]
      /\ \A i \in 1..Len(q1) : TicksLeft(k1)[q1[i]] = Sums(k1)[i]
      /\ \A s \in Slots : s \notin Elems(q1) => TicksLeft(k1)[s] = 0
  BY <1>2, TicksLeftAt
<1>5. CASE q = << >>
  <2>1. k1 = k /\ Elems(q) = {}
    BY <1>5, EmptyQueue DEF tick
  <2>2. \A s \in Slots : TicksLeft(k)[s] = 0
    BY <1>3, <2>1
  <2>3. TicksLeft(k1) = [s \in Slots |-> 0]
    BY <1>3, <2>1, <2>2
  <2>4. [s \in Slots |-> 0] =
          [s \in Slots |-> IF TicksLeft(k)[s] > 0 THEN TicksLeft(k)[s] - 1 ELSE 0]
    BY <2>2
  <2> QED
    BY <2>1, <2>3, <2>4 DEF Ticked
<1>6. CASE q # << >>
  <2>1. PICK d : TakenOff(q, k.ret, d, q1, k1.ret)
    BY <1>6, TickTakesOff
  <2>2. /\ \A i \in 1..d : k1.ret[q[i]] = 0
        /\ Deltas(q1, k1.ret)
    BY <2>1, TakenOffDeltas
  <2>3. /\ \A i \in 1..Len(q) : Sums(k)[i] \in Int /\ Sums(k)[i] > 0
        /\ \A i \in 1..d : Sums(k)[i] = 1
        /\ \A j \in 1..(Len(q) - d) : Sums(k1)[j] = Sums(k)[d + j] - 1
    <3>1. SumsOf(q, k.ret, Sums(k)) /\ SumsOf(q1, k1.ret, Sums(k1))
      BY <1>1, <1>2, SumsProperties
    <3>2. PICK f : f = Sums(k)
      OBVIOUS
    <3>3. PICK g : g = Sums(k1)
      OBVIOUS
    <3>4. SumsOf(q, k.ret, f) /\ SumsOf(q1, k1.ret, g)
      BY <3>1, <3>2, <3>3
    <3>5. /\ \A i \in 1..Len(q) : f[i] \in Int /\ f[i] > 0
          /\ \A i \in 1..d : f[i] = 1
          /\ \A j \in 1..(Len(q) - d) : g[j] = f[d + j] - 1
      BY <2>1, <3>4, TakenOffSums
    <3> QED
      BY <3>2, <3>3, <3>5
  <2>4. /\ Len(q) \in Nat /\ d \in 0..Len(q) /\ Len(q1) = Len(q) - d
        /\ \A j \in 1..(Len(q) - d) : q1[j] = q[d + j]
    BY <1>1, <2>1, ElemsProperties DEF TakenOff
  <2>5. /\ \A x : x \in Elems(q) <=> \E i \in 1..Len(q) : q[i] = x
        /\ \A x : x \in Elems(q1) <=> \E j \in 1..Len(q1) : q1[j] = x
        /\ DOMAIN q = 1..Len(q)
    <3>1. q \in Seq(Slots) /\ q1 \in Seq(Slots)
      BY <2>1 DEF TakenOff
    <3> HIDE DEF q, q1
    <3> QED
      BY <3>1, ElemsProperties
  <2> HIDE DEF q, q1
  <2>6. ASSUME NEW i \in 1..Len(q), i > d
        PROVE  /\ q[i] \in Elems(q1)
               /\ TicksLeft(k1)[q[i]] = TicksLeft(k)[q[i]] - 1
    <3>1. PICK j : j = i - d
      OBVIOUS
    <3>2. j \in 1..(Len(q) - d) /\ d + j = i
      BY <2>4, <2>6, <3>1
    <3>3. q1[j] = q[i] /\ Sums(k1)[j] = Sums(k)[i] - 1 /\ j \in 1..Len(q1)
      BY <2>3, <2>4, <3>2
    <3> QED
      BY <1>3, <1>4, <2>5, <3>3
  <2>7. ASSUME NEW i \in 1..Len(q), ~(i > d)
        PROVE  /\ q[i] \notin Elems(q1)
               /\ TicksLeft(k)[q[i]] = 1
               /\ k1.ret[q[i]] = 0
    <3>1. i \in 1..d
      BY <2>4, <2>7
    <3>2. ASSUME NEW j \in 1..Len(q1), q1[j] = q[i] PROVE FALSE
      <4>1. j \in 1..(Len(q) - d) /\ d + j \in 1..Len(q) /\ d + j # i
        BY <2>4, <3>1
      <4>2. q[d + j] = q[i]
        BY <2>4, <3>2, <4>1
      <4> QED
        BY <1>1, <2>5, <4>1, <4>2 DEF NoRepeats, q
    <3> QED
      BY <1>3, <2>2, <2>3, <2>5, <3>1, <3>2
  <2>8. ASSUME NEW s \in Slots
        PROVE  TicksLeft(k1)[s] = IF TicksLeft(k)[s] > 0 THEN TicksLeft(k)[s] - 1 ELSE 0
    <3>1. CASE s \notin Elems(q)
      <4>1. s \notin Elems(q1)
        <5>1. ASSUME NEW j \in 1..Len(q1), q1[j] = s PROVE FALSE
          <6>1. j \in 1..(Len(q) - d) /\ d + j \in 1..Len(q)
            BY <2>4
          <6> QED
            BY <2>4, <2>5, <3>1, <5>1, <6>1
        <5> QED
          BY <2>5, <5>1
      <4>2. TicksLeft(k)[s] = 0 /\ TicksLeft(k1)[s] = 0
        BY <1>3, <1>4, <3>1, <4>1
      <4> QED
        BY <4>2
    <3>2. CASE s \in Elems(q)
      <4>1. PICK i \in 1..Len(q) : q[i] = s
        BY <2>5, <3>2
      <4>2. TicksLeft(k)[s] \in Int /\ TicksLeft(k)[s] > 0
        BY <1>3, <2>3, <4>1
      <4>3. CASE i > d
        BY <2>6, <4>1, <4>2, <4>3
      <4>4. CASE ~(i > d)
        <5>1. s \notin Elems(q1) /\ TicksLeft(k)[s] = 1
          BY <2>7, <4>1, <4>4
        <5>2. TicksLeft(k1)[s] = 0
          BY <1>4, <5>1
        <5> QED
          BY <5>1, <5>2
      <4> QED
        BY <4>3, <4>4
    <3> QED
      BY <3>1, <3>2
  <2>9. ASSUME NEW s \in Elems(q), s \notin Elems(q1) PROVE k1.ret[s] = 0
    <3>1. PICK i \in 1..Len(q) : q[i] = s
      BY <2>5
    <3> QED
      BY <2>6, <2>7, <2>9, <3>1
  <2>10. TicksLeft(k1) = [s \in Slots |-> IF TicksLeft(k)[s] > 0 THEN TicksLeft(k)[s] - 1 ELSE 0]
    BY <1>4, <2>8
  <2> QED
    BY <2>2, <2>9, <2>10 DEF Ticked, q, q1
<1> QED
  BY <1>5, <1>6

-----------------------------------------------------------------------------
(***************************************************************************)
(* The steps of the kernel                                                 *)
(***************************************************************************)

\* The next process, a signal handler and a process made ready: no result changes.
LEMMA RetKept ==
  ASSUME NEW k \in KernelStates
  PROVE  /\ get_next_pcb(k).ret = k.ret
         /\ Resume(k).ret = k.ret
         /\ \A p \in Slots : add_pcb_to_ready_queue(k, p).ret = k.ret
BY DEF get_next_pcb, Resume, deliver_highest_priority_signal, signal, add_pcb_to_ready_queue,
       Offered, KernelStates

\* The process that runs does not sleep.
LEMMA RunnerAwake ==
  ASSUME NEW k, Safe(k), k.halt = "no", k.process # IDLE
  PROVE  /\ k \in KernelStates /\ k.process \in Slots
         /\ Good(k, {k.process}) /\ k.process \notin Elems(k.sleep_queue)
<1>1. {k.process} \ {IDLE} = {k.process}
  OBVIOUS
<1>2. k \in KernelStates /\ Good(k, {k.process})
  BY <1>1 DEF Safe
<1> QED
  BY <1>2 DEF Good, Placed, Linked, KernelStates

\* What the step of the kernel does to the sleepers continues to hold when the next process
\* is chosen and resumed.
LEMMA SwitchAsleep ==
  ASSUME NEW k \in KernelStates, NEW k1, k1 = Resume(get_next_pcb(k))
  PROVE  k1 \in KernelStates /\ Asleep(k, k1) /\ k1.ret = k.ret
<1>1. PICK k2 : k2 = get_next_pcb(k)
  OBVIOUS
<1>2. k2 \in KernelStates /\ Asleep(k, k2) /\ k2.ret = k.ret
  BY <1>1, GetNextType, GetNextAsleep, RetKept
<1>3. k1 \in KernelStates /\ Asleep(k2, k1) /\ k1.ret = k2.ret
  BY <1>1, <1>2, ResumeType, ResumeAsleep, RetKept
<1> QED
  BY <1>2, <1>3, AsleepTrans

\* A clock tick, whatever it interrupts.
LEMMA TimerTicks ==
  ASSUME Safe(kern), Deltas(kern.sleep_queue, kern.ret), TimerInt
  PROVE  Ticked(kern, kern')
<1> DEFINE H == {proc} \ {IDLE}
<1>1. PICK k, k1 : k = Interrupted /\ k1 = tick(k)
  OBVIOUS
<1>2. kern.halt = "no" /\ Switch(IF proc = IDLE THEN k1 ELSE add_pcb_to_ready_queue(k1, proc))
  BY <1>1 DEF TimerInt
<1>3. kern \in KernelStates /\ proc \in Slots \cup {IDLE}
  BY DEF Safe, KernelStates, proc
<1>4. Good(k, H) /\ Asleep(kern, k)
  <2>1. CASE proc = IDLE
    BY <1>1, <1>2, <2>1 DEF Interrupted, Safe, proc, Asleep
  <2>2. CASE proc # IDLE
    <3>1. proc \in Slots /\ Good(kern, {proc}) /\ proc \notin Elems(kern.sleep_queue)
      BY <1>2, <2>2, RunnerAwake DEF proc
    <3>2. k = SetRet(kern, proc, 0)
      BY <1>1, <2>2 DEF Interrupted, USER_EAX
    <3>3. Good(k, {proc})
      BY <3>1, <3>2, SetRetGood DEF Kept
    <3>4. Asleep(kern, k)
      BY <1>3, <3>1, <3>2, SetRetAsleep
    <3>5. H = {proc}
      BY <2>2
    <3> QED
      BY <3>3, <3>4, <3>5
  <2> QED
    BY <2>1, <2>2
<1> HIDE DEF H
<1>5. k \in KernelStates
  BY <1>4 DEF Good
<1>6. Deltas(k.sleep_queue, k.ret) /\ TicksLeft(k) = TicksLeft(kern)
  BY <1>3, <1>4, <1>5, AsleepSame
<1>7. Ticked(k, k1) /\ k1 \in KernelStates
  BY <1>1, <1>4, <1>5, <1>6, TickTicked, TickType
<1>8. PICK k2 : k2 = IF proc = IDLE THEN k1 ELSE add_pcb_to_ready_queue(k1, proc)
  OBVIOUS
<1>9. k2 \in KernelStates /\ Asleep(k1, k2) /\ k2.ret = k1.ret
  <2>1. CASE proc = IDLE
    BY <1>7, <1>8, <2>1 DEF Asleep
  <2>2. CASE proc # IDLE
    <3>1. proc \in Slots /\ k2 = add_pcb_to_ready_queue(k1, proc)
      BY <1>3, <1>8, <2>2
    <3> QED
      BY <1>7, <3>1, AddTypes, AddAsleep, RetKept
  <2> QED
    BY <2>1, <2>2
<1>10. kern' = Resume(get_next_pcb(k2))
  BY <1>2, <1>8 DEF Switch, Continue
<1>11. kern' \in KernelStates /\ Asleep(k2, kern') /\ kern'.ret = k2.ret
  BY <1>9, <1>10, SwitchAsleep
<1>12. Asleep(k1, kern') /\ kern'.ret = k1.ret
  BY <1>9, <1>11, AsleepTrans
<1>13. Deltas(kern'.sleep_queue, kern'.ret) /\ TicksLeft(kern') = TicksLeft(k1)
  BY <1>7, <1>11, <1>12, AsleepSame DEF Ticked
<1> QED
  BY <1>4, <1>6, <1>7, <1>12, <1>13 DEF Ticked, Asleep

\* A process goes to sleep.
LEMMA SleepSteps ==
  ASSUME Safe(kern), Deltas(kern.sleep_queue, kern.ret), 0 \notin SleepMs, Sleep
  PROVE  \E p \in Slots, ms \in SleepMs : Slept(kern, kern', p, Ticks(ms))
<1>1. kern.halt = "no" /\ proc # IDLE
  BY DEF Sleep, Request
<1>2. /\ kern \in KernelStates /\ proc \in Slots /\ Good(kern, {proc})
  BY <1>1, RunnerAwake DEF proc
<1>3. PICK ms \in SleepMs : Switch(sleep(kern, proc, ms))
  BY DEF Sleep
<1>4. PICK ticks : ticks = Ticks(ms)
  OBVIOUS
<1>5. ticks \in Nat /\ ticks > 0 /\ ticks \in Int
  BY <1>4, TicksPositive
<1>6. PICK k1 : k1 = add_pcb_to_sleep_queue(kern, proc, ticks)
  OBVIOUS
<1>7. k1 \in KernelStates /\ Slept(kern, k1, proc, ticks)
  BY <1>2, <1>5, <1>6, SleepType, SleepSlept
<1>8. kern' = Resume(get_next_pcb(k1))
  BY <1>3, <1>4, <1>6 DEF Switch, Continue, sleep
<1>9. kern' \in KernelStates /\ Asleep(k1, kern')
  BY <1>7, <1>8, SwitchAsleep
<1>10. Deltas(kern'.sleep_queue, kern'.ret) /\ TicksLeft(kern') = TicksLeft(k1)
  BY <1>7, <1>9, AsleepSame DEF Slept
<1>11. Slept(kern, kern', proc, ticks)
  BY <1>7, <1>10 DEF Slept
<1> QED
  BY <1>2, <1>4, <1>11

\* Every step but sleep(), a clock tick and a signal leaves the sleepers alone.
LEMMA OtherSteps ==
  ASSUME Safe(kern), [Next]_kern, ~Sleep, ~TimerInt, "KILL" \notin Calls
  PROVE  Asleep(kern, kern')
<1>0. kern \in KernelStates
  BY DEF Safe
<1>1. ASSUME NEW k \in KernelStates, Asleep(kern, k), Continue(k) PROVE Asleep(kern, kern')
  <2>1. kern' = Resume(k) /\ Asleep(k, Resume(k))
    BY <1>1, ResumeAsleep DEF Continue
  <2> QED
    BY <1>1, <2>1, AsleepTrans
<1>2. ASSUME NEW k \in KernelStates, Asleep(kern, k), Switch(k) PROVE Asleep(kern, kern')
  <2>1. kern' = Resume(get_next_pcb(k))
    BY <1>2 DEF Switch, Continue
  <2>2. Asleep(k, kern')
    BY <2>1, SwitchAsleep
  <2> QED
    BY <1>2, <2>2, AsleepTrans
<1>3. ASSUME kern.halt = "no", proc # IDLE
      PROVE  /\ proc \in Slots /\ Good(kern, {proc}) /\ proc = kern.process
             /\ proc \notin Elems(kern.sleep_queue)
  BY <1>3, RunnerAwake DEF proc
<1>4. ASSUME NEW call, Request(call) PROVE kern.halt = "no" /\ proc # IDLE
  BY <1>4 DEF Request
<1>5. ASSUME kern.halt = "no", proc # IDLE, NEW k \in KernelStates, Asleep(kern, k),
             NEW value \in Int
      PROVE  SetRet(k, proc, value) \in KernelStates /\ Asleep(kern, SetRet(k, proc, value))
  <2>1. proc \in Slots /\ proc \notin Elems(k.sleep_queue)
    BY <1>3, <1>5 DEF Asleep
  <2>2. SetRet(k, proc, value) \in KernelStates /\ Asleep(k, SetRet(k, proc, value))
    BY <2>1, SetRetType, SetRetAsleep
  <2> QED
    BY <1>5, <2>2, AsleepTrans
<1>6. Asleep(kern, kern)
  BY DEF Asleep
<1>7. ASSUME kern.halt = "no", proc # IDLE, NEW value \in Int, Return(value)
      PROVE  Asleep(kern, kern')
  <2>1. PICK k : k = SetRet(kern, proc, value)
    OBVIOUS
  <2>2. k \in KernelStates /\ Asleep(kern, k)
    BY <1>0, <1>5, <1>6, <1>7, <2>1
  <2> QED
    BY <1>1, <1>7, <2>1, <2>2 DEF Return
<1>8. ASSUME NEW pid \in PidArgs
      PROVE  pid \in 0..PID_MAX /\ pid_to_pcb(kern, pid) \in Slots \cup {NULL}
  <2>1. PidArgs \subseteq 0..PID_MAX /\ 0..PID_MAX \subseteq Int
    BY <1>0, PidArgsType, TableAssumption DEF TypeOK
  <2> QED
    BY <1>0, <2>1, PidToPcbType
<1>9. ASSUME kern.halt = "no", proc # IDLE, NEW r \in Results, Asleep(kern, r.kern), Transfer(r)
      PROVE  Asleep(kern, kern')
  <2>1. r.kern \in KernelStates /\ r.ret \in Int
    BY DEF Results
  <2>2. PICK k : k = IF r.blocked THEN get_next_pcb(r.kern) ELSE r.kern
    OBVIOUS
  <2>3. k \in KernelStates /\ Asleep(r.kern, k)
    <3>1. CASE r.blocked
      BY <2>1, <2>2, <3>1, GetNextType, GetNextAsleep
    <3>2. CASE ~r.blocked
      BY <2>1, <2>2, <3>2 DEF Asleep
    <3> QED
      BY <3>1, <3>2
  <2>4. Asleep(kern, k)
    BY <1>9, <2>3, AsleepTrans
  <2>5. PICK k1 : k1 = SetRet(k, proc, r.ret)
    OBVIOUS
  <2>6. k1 \in KernelStates /\ Asleep(kern, k1)
    BY <1>5, <1>9, <2>1, <2>3, <2>4, <2>5
  <2>7. Continue(k1)
    BY <1>9, <2>2, <2>5 DEF Transfer
  <2> QED
    BY <1>1, <2>6, <2>7
<1>10. ASSUME kern.halt = "no", proc # IDLE, NEW value \in Int,
              Switch(cleanup_pcb(SetRet(kern, proc, value), proc))
       PROVE  Asleep(kern, kern')
  <2>1. PICK k : k = SetRet(kern, proc, value)
    OBVIOUS
  <2>2. k \in KernelStates /\ Asleep(kern, k)
    BY <1>0, <1>5, <1>6, <1>10, <2>1
  <2>3. proc \in Slots /\ proc \notin Elems(k.sleep_queue)
    BY <1>3, <1>10, <2>2 DEF Asleep
  <2>4. PICK k1 : k1 = cleanup_pcb(k, proc)
    OBVIOUS
  <2>5. k1 \in KernelStates /\ Asleep(k, k1)
    BY <2>2, <2>3, <2>4, CleanupType, CleanupAsleep
  <2>6. Asleep(kern, k1)
    BY <2>2, <2>5, AsleepTrans
  <2> QED
    BY <1>2, <1>10, <2>1, <2>4, <2>5, <2>6
<1>11. /\ CREATE_FAILURE \in Int /\ SYSERR \in Int /\ SYSPID_DNE \in Int /\ SYSPID_SELF \in Int
       /\ SYSERR_OTHER \in Int /\ INVALID_SIGNAL \in Int /\ SYSHANDLER_INVALID \in Int
       /\ SYSCALL_YIELD \in Int /\ SYSCALL_STOP \in Int /\ SYSCALL_SIGRETURN \in Int
       /\ BLOCKERR \in Int
  BY DEF CREATE_FAILURE, SYSERR, SYSPID_DNE, SYSPID_SELF, SYSERR_OTHER, INVALID_SIGNAL,
         SYSHANDLER_INVALID, SYSCALL_YIELD, SYSCALL_STOP, SYSCALL_SIGRETURN, BLOCKERR
<1>12. CASE Create
  <2>1. kern.halt = "no" /\ proc # IDLE
    BY <1>4, <1>12 DEF Create
  <2>2. ASSUME kern.stopped_queue # << >>, NEW table \in NewTables,
               Continue(SetRet(create(kern, table), proc, kern.pid[Head(kern.stopped_queue)]))
        PROVE  Asleep(kern, kern')
    <3>1. PICK k : k = create(kern, table)
      OBVIOUS
    <3>2. k \in KernelStates /\ Asleep(kern, k)
      BY <1>0, <2>2, <3>1, CreateType, CreateAsleep
    <3>3. PICK pid : pid = kern.pid[Head(kern.stopped_queue)]
      OBVIOUS
    <3>4. pid \in Int
      <4>1. Head(kern.stopped_queue) \in Slots
        BY <1>0, <2>2, PollProperties DEF KernelStates
      <4>2. kern.pid[Head(kern.stopped_queue)] \in 0..PID_MAX
        BY <1>0, <4>1, PidType
      <4> QED
        BY <3>3, <4>2, TableAssumption
    <3>5. PICK k1 : k1 = SetRet(k, proc, pid)
      OBVIOUS
    <3>6. k1 \in KernelStates /\ Asleep(kern, k1)
      BY <1>5, <2>1, <3>2, <3>4, <3>5
    <3> QED
      BY <1>1, <2>2, <3>1, <3>3, <3>5, <3>6
  <2> QED
    BY <1>7, <1>11, <1>12, <2>1, <2>2 DEF Create
<1>13. CASE Yield
  <2>1. kern.halt = "no" /\ proc # IDLE
    BY <1>4, <1>13 DEF Yield
  <2>2. PICK k : k = SetRet(kern, proc, SYSCALL_YIELD)
    OBVIOUS
  <2>3. k \in KernelStates /\ Asleep(kern, k)
    BY <1>0, <1>5, <1>6, <1>11, <2>1, <2>2
  <2>4. PICK k1 : k1 = add_pcb_to_ready_queue(k, proc)
    OBVIOUS
  <2>5. k1 \in KernelStates /\ Asleep(k, k1)
    BY <1>3, <2>1, <2>3, <2>4, AddTypes, AddAsleep
  <2>6. Asleep(kern, k1)
    BY <2>3, <2>5, AsleepTrans
  <2> QED
    BY <1>2, <1>13, <2>2, <2>4, <2>5, <2>6 DEF Yield
<1>14. CASE Stop
  <2>1. kern.halt = "no" /\ proc # IDLE
    BY <1>4, <1>14 DEF Stop, InSysstop
  <2> QED
    BY <1>10, <1>11, <1>14, <2>1 DEF Stop
<1>15. CASE GetPid
  <2>1. kern.halt = "no" /\ proc # IDLE /\ Return(kern.pid[proc])
    BY <1>4, <1>15 DEF GetPid
  <2>2. kern.pid[proc] \in Int
    <3>1. kern.pid[proc] \in 0..PID_MAX
      BY <1>0, <1>3, <2>1, PidType
    <3> QED
      BY <3>1, TableAssumption
  <2> QED
    BY <1>7, <2>1, <2>2
<1>16. CASE Puts
  BY <1>4, <1>7, <1>16 DEF Puts
<1>17. CASE Wait
  <2>1. kern.halt = "no" /\ proc # IDLE /\ proc \in Slots
    BY <1>3, <1>4, <1>17 DEF Wait
  <2>2. ASSUME NEW pid \in PidArgs, Switch(SetRet(Block(kern, proc, "WAITING", pid), proc, 0))
        PROVE  Asleep(kern, kern')
    <3>1. PICK k : k = Block(kern, proc, "WAITING", pid)
      OBVIOUS
    <3>2. k \in KernelStates
      <4>1. pid \in 0..PID_MAX /\ "WAITING" \in BlockedStatuses
        BY <1>8, <2>2 DEF BlockedStatuses
      <4> QED
        BY <1>0, <2>1, <3>1, <4>1, BlockType
    <3>3. Asleep(kern, k)
      BY <1>0, <2>1, <3>1, BlockAsleep
    <3>4. PICK k1 : k1 = SetRet(k, proc, 0)
      OBVIOUS
    <3>5. k1 \in KernelStates /\ Asleep(kern, k1)
      BY <1>5, <2>1, <3>2, <3>3, <3>4
    <3> QED
      BY <1>2, <2>2, <3>1, <3>4, <3>5
  <2> QED
    BY <1>7, <1>11, <1>17, <2>1, <2>2 DEF Wait
<1>18. CASE Send
  <2>1. kern.halt = "no" /\ proc # IDLE /\ proc \in Slots
    BY <1>3, <1>4, <1>18 DEF Send
  <2>2. ASSUME NEW dest \in Slots, NEW junk \in Junk, Transfer(send(kern, proc, dest, junk))
        PROVE  Asleep(kern, kern')
    <3>1. PICK r : r = send(kern, proc, dest, junk)
      OBVIOUS
    <3>2. r \in Results
      BY <1>0, <2>1, <3>1, SendType
    <3>3. Asleep(kern, r.kern)
      BY <1>3, <2>1, <3>1, SendAsleep
    <3> QED
      BY <1>9, <2>1, <2>2, <3>1, <3>2, <3>3
  <2> QED
    BY <1>7, <1>8, <1>11, <1>18, <2>1, <2>2 DEF Send
<1>19. CASE Recv
  <2>1. kern.halt = "no" /\ proc # IDLE /\ proc \in Slots
    BY <1>3, <1>4, <1>19 DEF Recv
  <2>2. ASSUME NEW from \in Slots \cup {NULL}, NEW junk \in Junk,
               Transfer(recv(kern, from, proc, junk))
        PROVE  Asleep(kern, kern')
    <3>1. PICK r : r = recv(kern, from, proc, junk)
      OBVIOUS
    <3>2. r \in Results
      BY <1>0, <2>1, <3>1, RecvType
    <3>3. Asleep(kern, r.kern)
      BY <1>3, <2>1, <3>1, RecvAsleep
    <3> QED
      BY <1>9, <2>1, <2>2, <3>1, <3>2, <3>3
  <2> QED
    BY <1>7, <1>8, <1>11, <1>19, <2>1, <2>2 DEF Recv
<1>20. CASE CpuTimes
  <2>1. kern.halt = "no" /\ proc # IDLE
    BY <1>4, <1>20 DEF CpuTimes
  <2>2. fill_processStatus(kern) \in Int
    BY <1>0, StatusType
  <2> QED
    BY <1>7, <1>20, <2>1, <2>2 DEF CpuTimes
<1>21. CASE SigHandler
  <2>1. kern.halt = "no" /\ proc # IDLE /\ proc \in Slots
    BY <1>3, <1>4, <1>21 DEF SigHandler
  <2>2. ASSUME NEW g \in Signals, NEW new \in {"NULL", "handler"},
               Continue(SetRet([kern EXCEPT !.signal_table[proc][g] = new], proc, 0))
        PROVE  Asleep(kern, kern')
    <3>1. PICK k : k = [kern EXCEPT !.signal_table[proc][g] = new]
      OBVIOUS
    <3>2. new \in Handlers
      BY DEF Handlers
    <3>3. k \in KernelStates /\ k.sleep_queue = kern.sleep_queue /\ k.ret = kern.ret
      BY <1>0, <2>1, <3>1, <3>2 DEF KernelStates
    <3>4. Asleep(kern, k)
      BY <3>3 DEF Asleep
    <3>5. PICK k1 : k1 = SetRet(k, proc, 0)
      OBVIOUS
    <3>6. k1 \in KernelStates /\ Asleep(kern, k1)
      BY <1>5, <2>1, <3>3, <3>4, <3>5
    <3> QED
      BY <1>1, <2>2, <3>1, <3>5, <3>6
  <2> QED
    BY <1>7, <1>11, <1>21, <2>1, <2>2 DEF SigHandler
<1>22. CASE SigReturn
  <2>1. kern.halt = "no" /\ proc # IDLE /\ proc \in Slots /\ kern.frames[proc] # << >>
    BY <1>3, <1>4, <1>22 DEF SigReturn
  <2>2. PICK f, enabled, k0, k1, k2 :
          /\ f = kern.frames[proc]
          /\ enabled = kern.signals_enabled[proc]
          /\ k0 = SetRet(kern, proc, f[Len(f)].ret)
          /\ k1 = [k0 EXCEPT !.frames[proc] = SubSeq(@, 1, Len(@) - 1)]
          /\ k2 = [k1 EXCEPT !.signals_enabled[proc] = @ \ {Highest(enabled)}]
    OBVIOUS
  <2>3. \/ Switch(cleanup_pcb(SetRet(kern, proc, SYSCALL_SIGRETURN), proc))
        \/ kern' = [k1 EXCEPT !.halt = "spin"]
        \/ Continue(k2)
    BY <1>22, <2>2 DEF SigReturn
  <2>4. f \in Seq(Frames) /\ Len(f) \in Nat \ {0} /\ \A i \in 1..Len(f) : f[i] \in Frames
    <3>1. f \in Seq(Frames) /\ f # << >>
      BY <1>0, <2>1, <2>2 DEF KernelStates
    <3> QED
      BY <3>1, EmptySeq, ElemsProperties
  <2>5. f[Len(f)].ret \in Int
    <3>1. Len(f) \in 1..Len(f)
      BY <2>4
    <3>2. f[Len(f)] \in Frames
      BY <2>4, <3>1
    <3> QED
      BY <3>2 DEF Frames
  <2>6. SubSeq(f, 1, Len(f) - 1) \in Seq(Frames)
    <3>1. 1 \in 1..(Len(f) + 1) /\ Len(f) - 1 \in 0..Len(f)
      BY <2>4
    <3> QED
      BY <2>4, <3>1, PartProperties
  <2>7. k0 \in KernelStates /\ k0.frames[proc] = f /\ Asleep(kern, k0)
    <3>1. k0 \in KernelStates /\ Asleep(kern, k0)
      BY <1>0, <1>5, <1>6, <2>1, <2>2, <2>5
    <3>2. k0.frames[proc] = f
      BY <1>0, <2>2 DEF SetRet, KernelStates
    <3> QED
      BY <3>1, <3>2
  <2>8. k1 \in KernelStates /\ k1.sleep_queue = k0.sleep_queue /\ k1.ret = k0.ret
    <3>1. PICK fs : fs = [k0.frames EXCEPT ![proc] = SubSeq(f, 1, Len(f) - 1)]
      OBVIOUS
    <3>2. fs \in [Slots -> Seq(Frames)]
      BY <2>1, <2>6, <2>7, <3>1 DEF KernelStates
    <3>3. k1 = [k0 EXCEPT !.frames = fs]
      BY <2>2, <2>7, <3>1 DEF KernelStates
    <3> QED
      BY <2>7, <3>2, <3>3 DEF KernelStates
  <2>9. CASE kern' = [k1 EXCEPT !.halt = "spin"]
    <3>1. kern'.sleep_queue = k1.sleep_queue /\ kern'.ret = k1.ret
      BY <2>8, <2>9 DEF KernelStates
    <3> QED
      BY <2>7, <2>8, <3>1 DEF Asleep
  <2>10. CASE Continue(k2)
    <3>1. PICK es : es = [k1.signals_enabled EXCEPT ![proc] = @ \ {Highest(enabled)}]
      OBVIOUS
    <3>2. es \in [Slots -> SUBSET Signals]
      BY <2>1, <2>8, <3>1 DEF KernelStates
    <3>3. k2 = [k1 EXCEPT !.signals_enabled = es]
      BY <2>2, <2>8, <3>1 DEF KernelStates
    <3>4. k2 \in KernelStates /\ k2.sleep_queue = k1.sleep_queue /\ k2.ret = k1.ret
      BY <2>8, <3>2, <3>3 DEF KernelStates
    <3>5. Asleep(kern, k2)
      BY <2>7, <2>8, <3>4 DEF Asleep
    <3> QED
      BY <1>1, <2>10, <3>4, <3>5
  <2> QED
    BY <1>10, <1>11, <2>1, <2>3, <2>9, <2>10
<1>23. CASE DeviceCall
  <2>1. kern.halt = "no" /\ proc # IDLE
    BY <1>4, <1>23 DEF DeviceCall
  <2> QED
    BY <1>7, <1>11, <1>23, <2>1 DEF DeviceCall
<1>24. ASSUME kern' = [kern EXCEPT !.halt = "assert"] PROVE Asleep(kern, kern')
  BY <1>0, <1>24 DEF Asleep, KernelStates
<1>25. CASE Write
  <2>1. kern.halt = "no" /\ proc # IDLE
    BY <1>4, <1>25 DEF Write
  <2> QED
    BY <1>7, <1>11, <1>24, <1>25, <2>1 DEF Write
<1>26. CASE Read
  <2>1. kern.halt = "no" /\ proc # IDLE /\ proc \in Slots
    BY <1>3, <1>4, <1>26 DEF Read
  <2>2. PICK k : k = [kern EXCEPT !.state[proc] = "BLOCKED",
                                  !.blocked_status[proc] = "DEVICE",
                                  !.ret[proc] = BLOCKERR]
    OBVIOUS
  <2>3. k \in KernelStates
    BY <1>3, <2>1, <2>2, ReadGood DEF Good
  <2>4. Asleep(kern, k)
    <3>1. /\ k.sleep_queue = kern.sleep_queue
          /\ \A s \in Slots : s # proc => k.ret[s] = kern.ret[s]
      BY <1>0, <2>1, <2>2 DEF KernelStates
    <3>2. Elems(kern.sleep_queue) \subseteq Slots /\ proc \notin Elems(kern.sleep_queue)
      BY <1>0, <1>3, <2>1, ElemsProperties DEF KernelStates
    <3> QED
      BY <3>1, <3>2 DEF Asleep
  <2>5. \/ \E result \in {SYSERR, 0, 1} : Return(result)
        \/ Switch(k)
        \/ kern' = [kern EXCEPT !.halt = "assert"]
    BY <1>26, <2>2 DEF Read
  <2>6. {SYSERR, 0, 1} \subseteq Int
    BY DEF SYSERR
  <2> QED
    BY <1>2, <1>7, <1>24, <2>1, <2>3, <2>4, <2>5, <2>6
<1>27. CASE KeyboardInt
  <2>0. PICK k : k = Interrupted
    OBVIOUS
  <2>1. PICK done \in SUBSET OnDevice(kern), count \in {0, 1} :
          Continue([k EXCEPT
            !.ready_queue = @ \o Keep(TaskOrder, done),
            !.state = [s \in Slots |-> IF s \in done THEN "READY" ELSE @[s]],
            !.blocked_status = [s \in Slots |-> IF s \in done THEN "NONE" ELSE @[s]],
            !.ret = [s \in Slots |-> IF s \in done THEN count ELSE @[s]]])
    BY <1>27, <2>0 DEF KeyboardInt
  <2>2. kern.halt = "no"
    BY <1>27 DEF KeyboardInt
  <2>3. k \in KernelStates /\ Asleep(kern, k)
    <3>1. CASE proc = IDLE
      BY <1>0, <1>6, <2>0, <3>1 DEF Interrupted
    <3>2. CASE proc # IDLE
      BY <1>0, <1>5, <1>6, <2>0, <2>2, <3>2 DEF Interrupted, USER_EAX
    <3> QED
      BY <3>1, <3>2
  <2>4. PICK k1 :
          k1 = [k EXCEPT
                 !.ready_queue = k.ready_queue \o Keep(TaskOrder, done),
                 !.state = [s \in Slots |-> IF s \in done THEN "READY" ELSE k.state[s]],
                 !.blocked_status = [s \in Slots |->
                                       IF s \in done THEN "NONE" ELSE k.blocked_status[s]],
                 !.ret = [s \in Slots |-> IF s \in done THEN count ELSE k.ret[s]]]
    OBVIOUS
  <2>5. Continue(k1)
    BY <2>1, <2>3, <2>4 DEF KernelStates
  <2>6. k1 \in KernelStates
    <3>1. k.ready_queue \o Keep(TaskOrder, done) \in Seq(Slots)
      <4>1. TaskOrder \in Seq(Slots) /\ k.ready_queue \in Seq(Slots)
        BY <2>3, TaskOrderProperties DEF KernelStates
      <4>2. Keep(TaskOrder, done) \in Seq(Slots)
        BY <4>1, KeepProperties
      <4> QED
        BY <4>1, <4>2, JoinProperties
    <3>2. [s \in Slots |-> IF s \in done THEN "READY" ELSE k.state[s]] \in [Slots -> ProcStates]
      BY <2>3 DEF KernelStates, ProcStates
    <3>3. [s \in Slots |-> IF s \in done THEN "NONE" ELSE k.blocked_status[s]]
            \in [Slots -> BlockedStatuses]
      BY <2>3 DEF KernelStates, BlockedStatuses
    <3>4. [s \in Slots |-> IF s \in done THEN count ELSE k.ret[s]] \in [Slots -> Int]
      BY <2>3 DEF KernelStates
    <3> QED
      BY <2>3, <2>4, <3>1, <3>2, <3>3, <3>4 DEF KernelStates
  <2>7. Asleep(k, k1)
    <3>1. ASSUME NEW s \in Elems(kern.sleep_queue) PROVE s \in Slots /\ s \notin done
      <4>1. Elems(kern.sleep_queue) \subseteq Slots
        BY <1>0, ElemsProperties DEF KernelStates
      <4>2. Good(kern, {proc} \ {IDLE})
        BY <2>2 DEF Safe, proc
      <4>3. kern.blocked_status[s] = "SLEEP"
        BY <4>1, <4>2 DEF Good, Placed, Linked
      <4> QED
        BY <4>1, <4>3 DEF OnDevice
    <3>2. k1.sleep_queue = k.sleep_queue
      BY <2>3, <2>4 DEF KernelStates
    <3>3. \A s \in Slots : s \notin done => k1.ret[s] = k.ret[s]
      BY <2>3, <2>4 DEF KernelStates
    <3> QED
      BY <2>3, <3>1, <3>2, <3>3 DEF Asleep
  <2>8. Asleep(kern, k1)
    BY <2>3, <2>7, AsleepTrans
  <2> QED
    BY <1>1, <2>5, <2>6, <2>8
<1>28. CASE Halted \/ UNCHANGED kern
  BY <1>6, <1>28 DEF Halted
<1>29. ~Kill
  BY DEF Kill, Request
<1> QED
  BY <1>12, <1>13, <1>14, <1>15, <1>16, <1>17, <1>18, <1>19, <1>20, <1>21, <1>22, <1>23,
     <1>25, <1>26, <1>27, <1>28, <1>29 DEF Next

-----------------------------------------------------------------------------
(***************************************************************************)
(* The theorems                                                            *)
(***************************************************************************)

\* The inductive invariant: all is in place, and the deltas are right.
SleepInv == Safe(kern) /\ Deltas(kern.sleep_queue, kern.ret)

\* The kernel starts with no one asleep.
LEMMA InitSleep == Init => SleepInv /\ TicksLeft(kern) = [s \in Slots |-> 0]
<1> SUFFICES ASSUME Init PROVE SleepInv /\ TicksLeft(kern) = [s \in Slots |-> 0]
  OBVIOUS
<1>1. PICK table \in NewTables : kern = Resume(get_next_pcb(create(initpcb, table)))
  BY DEF Init
<1>2. PICK k : k = create(initpcb, table)
  OBVIOUS
<1>3. initpcb \in KernelStates /\ initpcb.sleep_queue = << >>
  BY InitpcbType DEF initpcb
<1>4. initpcb.stopped_queue # << >>
  <2>1. initpcb.stopped_queue = [s \in Slots |-> s] /\ 1 \in Slots
    BY TableAssumption DEF initpcb, Slots
  <2>2. DOMAIN initpcb.stopped_queue = Slots /\ DOMAIN << >> = {}
    BY <2>1
  <2> QED
    BY <2>1, <2>2
<1>5. k \in KernelStates /\ Asleep(initpcb, k)
  BY <1>2, <1>3, <1>4, CreateType, CreateAsleep
<1>6. kern \in KernelStates /\ Asleep(k, kern)
  BY <1>1, <1>2, <1>5, SwitchAsleep
<1>7. Asleep(initpcb, kern)
  BY <1>5, <1>6, AsleepTrans
<1>8. Deltas(initpcb.sleep_queue, initpcb.ret)
  BY <1>3 DEF Deltas
<1>9. TicksLeft(initpcb) = [s \in Slots |-> 0]
  <2>1. Elems(initpcb.sleep_queue) = {}
    BY <1>3, EmptyQueue
  <2> QED
    BY <2>1 DEF TicksLeft
<1> QED
  BY <1>3, <1>6, <1>7, <1>8, <1>9, AsleepSame, InitSafe DEF SleepInv

\* Each step keeps the deltas right, and is for the timers a stuttering step, the start of
\* one timer or a tick of them all.
LEMMA NextSleep ==
  ASSUME 0 \notin SleepMs, "KILL" \notin Calls, SleepInv, [Next]_kern
  PROVE  /\ SleepInv'
         /\ \/ TicksLeft(kern') = TicksLeft(kern)
            \/ \E p \in Slots, ms \in SleepMs : Slept(kern, kern', p, Ticks(ms))
            \/ Ticked(kern, kern')
<1>1. Safe(kern) /\ Deltas(kern.sleep_queue, kern.ret)
  BY DEF SleepInv
<1>2. Safe(kern')
  BY <1>1, NextSafe
<1>3. CASE TimerInt
  <2>1. Ticked(kern, kern')
    BY <1>1, <1>3, TimerTicks
  <2> QED
    BY <1>2, <2>1 DEF Ticked, SleepInv
<1>4. CASE Sleep
  <2>1. PICK p \in Slots, ms \in SleepMs : Slept(kern, kern', p, Ticks(ms))
    BY <1>1, <1>4, SleepSteps
  <2> QED
    BY <1>2, <2>1 DEF Slept, SleepInv
<1>5. CASE ~Sleep /\ ~TimerInt
  <2>1. Asleep(kern, kern')
    BY <1>1, <1>5, OtherSteps
  <2>2. Deltas(kern'.sleep_queue, kern'.ret) /\ TicksLeft(kern') = TicksLeft(kern)
    BY <1>1, <1>2, <2>1, AsleepSame DEF Safe
  <2> QED
    BY <1>2, <2>2 DEF SleepInv
<1> QED
  BY <1>3, <1>4, <1>5

\* A sleep that tick() ends returns 0: the entries that it wakes have used up their delta
\* and no more, for tables of every size and sleeps of every length.  A sleep of 0 ms makes
\* a delta negative, and so does a signal for a sleeper, behind which others have the
\* delta 0.
THEOREM SleepsEndRight ==
  0 \notin SleepMs /\ "KILL" \notin Calls => (Spec => SleepReturnsZero)
<1> SUFFICES ASSUME 0 \notin SleepMs, "KILL" \notin Calls
             PROVE  Spec => SleepReturnsZero
  OBVIOUS
<1> DEFINE Zero == TimerInt => \A s \in Elems(kern.sleep_queue) :
                                 s \notin Elems(kern'.sleep_queue) => kern'.ret[s] = 0
<1>1. Init => SleepInv
  BY InitSleep
<1>2. SleepInv /\ [Next]_kern => SleepInv'
  BY NextSleep
<1>3. SleepInv /\ [Next]_kern => [Zero]_kern
  BY TimerTicks DEF SleepInv, Ticked
<1> QED
  BY <1>1, <1>2, <1>3, PTL DEF Spec, SleepReturnsZero

\* The delta queue of c/sleep.c implements one timer per process: sleep() starts the timer
\* of its caller and disturbs no other, tick() takes one tick off each of them, and nothing
\* else touches them.
THEOREM QueueKeepsTime ==
  0 \notin SleepMs /\ "KILL" \notin Calls => (Spec => Timers!TimersSafety)
<1> SUFFICES ASSUME 0 \notin SleepMs, "KILL" \notin Calls
             PROVE  Spec => Timers!TimersSafety
  OBVIOUS
<1>1. Init => SleepInv /\ Timers!TimersInit
  BY InitSleep DEF Timers!TimersInit, Remaining
<1>2. SleepInv /\ [Next]_kern => SleepInv'
  BY NextSleep
<1>3. SleepInv /\ [Next]_kern => [Timers!TimersNext]_Remaining
  <2> SUFFICES ASSUME SleepInv, [Next]_kern
               PROVE  Timers!TimersNext \/ Remaining' = Remaining
    OBVIOUS
  <2>1. CASE TicksLeft(kern') = TicksLeft(kern)
    BY <2>1 DEF Remaining
  <2>2. ASSUME NEW p \in Slots, NEW ms \in SleepMs, Slept(kern, kern', p, Ticks(ms))
        PROVE  Timers!TimersNext
    <3>1. Timers!Sleep(p)
      BY <2>2 DEF Slept, Remaining, Timers!Sleep
    <3> QED
      BY <3>1 DEF Timers!TimersNext
  <2>3. CASE Ticked(kern, kern')
    <3>1. Timers!Tick
      BY <2>3 DEF Ticked, Remaining, Timers!Tick
    <3> QED
      BY <3>1 DEF Timers!TimersNext
  <2> QED
    BY <2>1, <2>2, <2>3, NextSleep
<1> QED
  BY <1>1, <1>2, <1>3, PTL DEF Spec, Timers!TimersSafety
=============================================================================
