---------------------------- MODULE WaitProofs ----------------------------
(***************************************************************************)
(* What each step of the dispatcher does to the processes, and from it the *)
(* theorems about blocked processes and about signals, for tables of every *)
(* size and any number of signals: pids lead to their slots, no process    *)
(* waits for one that has ended, no sender and receiver miss each other, a *)
(* blocked call holds its result, and a wait ends by a step of its target; *)
(* every signal that is being handled has its handler on the stack, the    *)
(* return of a handler clears its own bit, and no signal that can be       *)
(* delivered is left behind.                                               *)
(*                                                                         *)
(* Almost all that a handler does is calm: it may take processes out of    *)
(* their blocking calls, and no more.  Each kind of step is calm for all   *)
(* but at most one process, and says what happens to that one.             *)
(***************************************************************************)
EXTENDS PlacementProofs

\* The process s is blocked in syswait().
InWait(k, s) == k.state[s] = "BLOCKED" /\ k.blocked_status[s] = "WAITING"

\* The signals of s are as they were.
SameSignals(k, k1, s) ==
  /\ k1.signals_pending[s] = k.signals_pending[s]
  /\ k1.signals_enabled[s] = k.signals_enabled[s]
  /\ k1.frames[s] = k.frames[s]

\* For the processes outside of P nothing happens from k to k1 but that some come out
\* of their blocking calls, out of syswait() only those that wait for the pid id.
Calm(k, k1, P, id) ==
  /\ \A s \in Slots \ P :
       /\ k1.pid[s] = k.pid[s]
       /\ SameSignals(k, k1, s)
       /\ k1.state[s] = "STOPPED" <=> k.state[s] = "STOPPED"
       /\ k1.state[s] = "BLOCKED" => /\ k.state[s] = "BLOCKED"
                                     /\ k1.blocked_status[s] = k.blocked_status[s]
                                     /\ k1.blocked_id[s] = k.blocked_id[s]
       /\ InWait(k, s) /\ k1.state[s] # "BLOCKED" => k.blocked_id[s] = id
  /\ \A s \in Elems(k1.blocked_queue) \ P :
       /\ s \in Elems(k.blocked_queue)
       /\ k1.blocked_status[s] = k.blocked_status[s]
       /\ k1.blocked_id[s] = k.blocked_id[s]
       /\ k1.ret[s] = k.ret[s]

\* Calm steps follow one another.
LEMMA CalmTrans ==
  ASSUME NEW k, NEW k1, NEW k2, NEW P, NEW id, Calm(k, k1, P, id), Calm(k1, k2, P, id)
  PROVE  Calm(k, k2, P, id)
BY DEF Calm, SameSignals, InWait

\* A step that is calm for more processes is calm for fewer.
LEMMA CalmMono ==
  ASSUME NEW k, NEW k1, NEW P, NEW Q, NEW id, Calm(k, k1, P, id), P \subseteq Q
  PROVE  Calm(k, k1, Q, id)
BY DEF Calm

\* Storing a result is calm unless it replaces that of a blocked process.
LEMMA SetRetCalm ==
  ASSUME NEW k \in KernelStates, NEW p \in Slots, NEW value \in Int, NEW P, NEW id,
         p \in P \/ p \notin Elems(k.blocked_queue)
  PROVE  Calm(k, SetRet(k, p, value), P, id)
<1>0. PICK k1 : k1 = SetRet(k, p, value)
  OBVIOUS
<1>1. /\ k1.pid = k.pid /\ k1.state = k.state
      /\ k1.blocked_id = k.blocked_id /\ k1.blocked_status = k.blocked_status
      /\ k1.signals_pending = k.signals_pending /\ k1.signals_enabled = k.signals_enabled
      /\ k1.frames = k.frames /\ k1.blocked_queue = k.blocked_queue
      /\ k1.ret = [k.ret EXCEPT ![p] = value]
  BY <1>0 DEF SetRet, KernelStates
<1>2. k.ret \in [Slots -> Int] /\ k.blocked_queue \in Seq(Slots)
  BY DEF KernelStates
<1>3. \A s \in Elems(k.blocked_queue) : s \in Slots
  BY <1>2, ElemsProperties
<1>4. \A s \in Elems(k1.blocked_queue) \ P : k1.ret[s] = k.ret[s]
  BY <1>1, <1>2, <1>3
<1> QED
  BY <1>0, <1>1, <1>4 DEF Calm, SameSignals, InWait

\* A process that becomes ready comes out of its call.
LEMMA AddReadyCalm ==
  ASSUME NEW k \in KernelStates, NEW p \in Slots, ~Linked(k, p), k.state[p] # "STOPPED",
         NEW id, InWait(k, p) => k.blocked_id[p] = id
  PROVE  Calm(k, add_pcb_to_ready_queue(k, p), {}, id)
<1>0. PICK k1 : k1 = add_pcb_to_ready_queue(k, p)
  OBVIOUS
<1>1. /\ k1.pid = k.pid /\ k1.state = [k.state EXCEPT ![p] = "READY"]
      /\ k1.blocked_id = k.blocked_id
      /\ k1.blocked_status = [k.blocked_status EXCEPT ![p] = "NONE"]
      /\ k1.signals_pending = k.signals_pending /\ k1.signals_enabled = k.signals_enabled
      /\ k1.frames = k.frames /\ k1.blocked_queue = k.blocked_queue
      /\ k1.ret = k.ret
  BY <1>0 DEF add_pcb_to_ready_queue, Offered, KernelStates
<1>2. /\ k.state \in [Slots -> ProcStates] /\ k.blocked_status \in [Slots -> BlockedStatuses]
      /\ k.blocked_queue \in Seq(Slots)
  BY DEF KernelStates
<1>3. \A s \in Elems(k.blocked_queue) : s \in Slots /\ s # p
  BY <1>2, ElemsProperties DEF Linked
<1>4. ASSUME NEW s \in Slots
      PROVE  /\ k1.state[s] = IF s = p THEN "READY" ELSE k.state[s]
             /\ k1.blocked_status[s] = IF s = p THEN "NONE" ELSE k.blocked_status[s]
  BY <1>1, <1>2
<1>5. \A s \in Elems(k1.blocked_queue) : k1.blocked_status[s] = k.blocked_status[s]
  BY <1>1, <1>3, <1>4
<1>6. ASSUME NEW s \in Slots
      PROVE  /\ k1.state[s] = "STOPPED" <=> k.state[s] = "STOPPED"
             /\ k1.state[s] = "BLOCKED" => /\ k.state[s] = "BLOCKED"
                                           /\ k1.blocked_status[s] = k.blocked_status[s]
             /\ InWait(k, s) /\ k1.state[s] # "BLOCKED" => k.blocked_id[s] = id
  BY <1>4 DEF InWait
<1> QED
  BY <1>0, <1>1, <1>5, <1>6 DEF Calm, SameSignals

\* Taking an entry off the blocked queue is calm.
LEMMA RemoveCalm ==
  ASSUME NEW k \in KernelStates, NEW p, NEW id
  PROVE  Calm(k, remove_pcb_from_blocked_queue(k, p), {}, id)
<1>0. PICK k1 : k1 = remove_pcb_from_blocked_queue(k, p)
  OBVIOUS
<1>1. /\ k1.pid = k.pid /\ k1.state = k.state
      /\ k1.blocked_id = k.blocked_id /\ k1.blocked_status = k.blocked_status
      /\ k1.signals_pending = k.signals_pending /\ k1.signals_enabled = k.signals_enabled
      /\ k1.frames = k.frames /\ k1.ret = k.ret
      /\ k1.blocked_queue = pcb_remove(k.blocked_queue, p)
  BY <1>0 DEF remove_pcb_from_blocked_queue, KernelStates
<1>2. k.blocked_queue \in Seq(Slots)
  BY DEF KernelStates
<1>3. Elems(k1.blocked_queue) \subseteq Elems(k.blocked_queue)
  BY <1>1, <1>2, RemoveProperties
<1> QED
  BY <1>0, <1>1, <1>3 DEF Calm, SameSignals, InWait

\* unblock_pcb_waiting_for_pid() leaves nothing behind that waits for the pid.
LEMMA UnblockCalm ==
  ASSUME NEW k, NEW H, Good(k, H), NEW id
  PROVE  LET k1 == unblock_pcb_waiting_for_pid(k, id)
         IN  /\ Calm(k, k1, {}, id)
             /\ \A s \in Elems(k1.blocked_queue) : k1.blocked_id[s] # id
<1>0. PICK k1, hit : /\ k1 = unblock_pcb_waiting_for_pid(k, id)
                     /\ hit = {p \in Elems(k.blocked_queue) : k.blocked_id[p] = id}
  OBVIOUS
<1>1. k \in KernelStates /\ k.blocked_queue \in Seq(Slots)
  BY DEF Good, KernelStates
<1>2. /\ k1.pid = k.pid
      /\ k1.blocked_queue = Keep(k.blocked_queue, Slots \ hit)
      /\ k1.state = [p \in Slots |-> IF p \in hit THEN "READY" ELSE k.state[p]]
      /\ k1.blocked_status = [p \in Slots |-> IF p \in hit THEN "NONE" ELSE k.blocked_status[p]]
      /\ k1.blocked_id = [p \in Slots |-> IF p \in hit THEN 0 ELSE k.blocked_id[p]]
      /\ k1.signals_pending = k.signals_pending /\ k1.signals_enabled = k.signals_enabled
      /\ k1.frames = k.frames /\ k1.ret = k.ret
  BY <1>0, <1>1 DEF unblock_pcb_waiting_for_pid, KernelStates
<1>3. /\ Elems(k1.blocked_queue) = Elems(k.blocked_queue) \cap (Slots \ hit)
      /\ Elems(k.blocked_queue) \subseteq Slots
  BY <1>1, <1>2, KeepProperties, ElemsProperties
<1>4. ASSUME NEW s \in Slots
      PROVE  /\ s \in hit <=> s \in Elems(k.blocked_queue) /\ k.blocked_id[s] = id
             /\ k1.state[s] = IF s \in hit THEN "READY" ELSE k.state[s]
             /\ k1.blocked_status[s] = IF s \in hit THEN "NONE" ELSE k.blocked_status[s]
             /\ k1.blocked_id[s] = IF s \in hit THEN 0 ELSE k.blocked_id[s]
  BY <1>0, <1>2
<1>5. ASSUME NEW s \in hit PROVE k.state[s] = "BLOCKED"
  <2>1. s \in Slots /\ s \in Elems(k.blocked_queue) /\ s \notin H
    BY <1>0, <1>3, <1>5 DEF Good, Placed, Linked
  <2> QED
    BY <2>1 DEF Good, Placed
<1>6. ASSUME NEW s \in Slots
      PROVE  /\ k1.state[s] = "STOPPED" <=> k.state[s] = "STOPPED"
             /\ k1.state[s] = "BLOCKED" => /\ k.state[s] = "BLOCKED"
                                           /\ k1.blocked_status[s] = k.blocked_status[s]
                                           /\ k1.blocked_id[s] = k.blocked_id[s]
             /\ InWait(k, s) /\ k1.state[s] # "BLOCKED" => k.blocked_id[s] = id
  BY <1>4, <1>5 DEF InWait
<1>7. ASSUME NEW s \in Elems(k1.blocked_queue)
      PROVE  /\ s \in Elems(k.blocked_queue)
             /\ k1.blocked_status[s] = k.blocked_status[s]
             /\ k1.blocked_id[s] = k.blocked_id[s] /\ k1.blocked_id[s] # id
             /\ k1.ret[s] = k.ret[s]
  BY <1>2, <1>3, <1>4
<1>8. Calm(k, k1, {}, id)
  BY <1>2, <1>6, <1>7 DEF Calm, SameSignals
<1> QED
  BY <1>0, <1>7, <1>8

\* The process s is as it was.
Same(k, k1, s) ==
  /\ k1.pid[s] = k.pid[s]
  /\ SameSignals(k, k1, s)
  /\ k1.state[s] = k.state[s]
  /\ k1.blocked_status[s] = k.blocked_status[s]
  /\ k1.blocked_id[s] = k.blocked_id[s]
  /\ k1.ret[s] = k.ret[s]

\* get_next_pcb() touches no process but the first that is ready.
LEMMA GetNextCalm ==
  ASSUME NEW k, Good(k, {}), NEW id
  PROVE  LET k1 == get_next_pcb(k)
         IN  /\ Calm(k, k1, {}, id)
             /\ k1.blocked_queue = k.blocked_queue
             /\ \A s \in Slots : k.state[s] # "READY" => Same(k, k1, s)
<1>0. PICK k1, p : k1 = get_next_pcb(k) /\ p = Head(k.ready_queue)
  OBVIOUS
<1>1. k \in KernelStates /\ k.ready_queue \in Seq(Slots)
  BY DEF Good, KernelStates
<1>2. /\ k1.pid = k.pid /\ k1.ret = k.ret
      /\ k1.blocked_id = k.blocked_id /\ k1.blocked_status = k.blocked_status
      /\ k1.signals_pending = k.signals_pending /\ k1.signals_enabled = k.signals_enabled
      /\ k1.frames = k.frames /\ k1.blocked_queue = k.blocked_queue
      /\ k1.state = IF k.ready_queue = << >> THEN k.state ELSE [k.state EXCEPT ![p] = "RUNNING"]
  BY <1>0, <1>1 DEF get_next_pcb, KernelStates
<1>3. k.state \in [Slots -> ProcStates]
  BY <1>1 DEF KernelStates
<1>4. k.ready_queue # << >> => p \in Slots /\ k.state[p] = "READY"
  <2>1. SUFFICES ASSUME k.ready_queue # << >> PROVE p \in Slots /\ k.state[p] = "READY"
    OBVIOUS
  <2>2. p \in Slots /\ Elems(k.ready_queue) = {p} \cup Elems(Tail(k.ready_queue))
    BY <1>0, <1>1, <2>1, PollProperties
  <2> QED
    BY <2>2 DEF Good, Placed
<1>5. ASSUME NEW s \in Slots
      PROVE  k1.state[s] = IF k.ready_queue # << >> /\ s = p THEN "RUNNING" ELSE k.state[s]
  BY <1>2, <1>3
<1>6. Calm(k, k1, {}, id)
  BY <1>2, <1>4, <1>5 DEF Calm, SameSignals, InWait
<1>7. \A s \in Slots : k.state[s] # "READY" => Same(k, k1, s)
  BY <1>2, <1>4, <1>5 DEF Same, SameSignals
<1> QED
  BY <1>0, <1>2, <1>6, <1>7

\* A clock tick wakes sleeping processes and no others.
LEMMA TickCalm ==
  ASSUME NEW k, NEW H, Good(k, H), NEW id
  PROVE  Calm(k, tick(k), {}, id)
<1>1. k \in KernelStates /\ k.sleep_queue \in Seq(Slots) /\ k.blocked_queue \in Seq(Slots)
  BY DEF Good, KernelStates
<1>2. CASE k.sleep_queue = << >>
  <2>1. tick(k) = k
    BY <1>2 DEF tick
  <2> QED
    BY <2>1 DEF Calm, SameSignals, InWait
<1>3. CASE k.sleep_queue # << >>
  <2>1. PICK q, h, ret1, k1, n, woken, k2 :
          /\ q = k.sleep_queue /\ h = Head(q)
          /\ ret1 = [k.ret EXCEPT ![h] = @ - 1]
          /\ k1 = [k EXCEPT !.ret = ret1]
          /\ n = Due(k1)
          /\ woken = Elems(SubSeq(q, 1, n))
          /\ k2 = WakeFirst(k1, n)
    OBVIOUS
  <2>2. h \in Slots /\ h \in Elems(q)
    BY <1>1, <1>3, <2>1, PollProperties
  <2>3. k.ret \in [Slots -> Int]
    BY <1>1 DEF KernelStates
  <2>4. ret1 \in [Slots -> Int]
    BY <2>1, <2>2, <2>3
  <2>5. k1 \in KernelStates /\ k1.sleep_queue = q
    BY <1>1, <2>1, <2>4 DEF KernelStates
  <2>6. n \in 0..Len(q)
    BY <2>1, <2>5, DueType
  <2>7. tick(k) = k2
    BY <1>1, <1>3, <2>1 DEF tick, KernelStates
  <2>8. /\ k2.pid = k.pid /\ k2.ret = ret1
        /\ k2.blocked_id = k.blocked_id
        /\ k2.signals_pending = k.signals_pending /\ k2.signals_enabled = k.signals_enabled
        /\ k2.frames = k.frames /\ k2.blocked_queue = k.blocked_queue
        /\ k2.state = [s \in Slots |-> IF s \in woken THEN "READY" ELSE k.state[s]]
        /\ k2.blocked_status = [s \in Slots |-> IF s \in woken THEN "NONE" ELSE k.blocked_status[s]]
    BY <1>1, <2>1, <2>5 DEF WakeFirst, KernelStates
  <2>9. woken \subseteq Elems(q)
    <3>1. Len(q) \in Nat /\ n \in Nat /\ n <= Len(q) /\ 1 \in 1..(Len(q) + 1)
      BY <1>1, <2>1, <2>6, ElemsProperties
    <3>2. q \in Seq(Slots)
      BY <1>1, <2>1
    <3>4. \A x : x \in Elems(SubSeq(q, 1, n)) <=> \E i \in 1..n : q[i] = x
      BY <2>6, <3>1, <3>2, PartProperties
    <3>3. \A x : x \in Elems(q) <=> \E i \in 1..Len(q) : q[i] = x
      BY <1>1, <2>1, ElemsProperties
    <3> QED
      BY <2>1, <3>1, <3>3, <3>4
  <2>10. ASSUME NEW s \in Elems(q)
         PROVE  /\ s \in Slots /\ s \notin Elems(k.blocked_queue)
                /\ k.state[s] = "BLOCKED" /\ k.blocked_status[s] = "SLEEP"
    <3>1. s \in Slots /\ s \notin H /\ s \in Elems(k.sleep_queue)
      BY <1>1, <2>1, <2>10, ElemsProperties DEF Good, Placed, Linked
    <3>2. k.state[s] = "BLOCKED" /\ k.blocked_status[s] = "SLEEP"
      BY <3>1 DEF Good, Placed
    <3> QED
      BY <3>1, <3>2 DEF Good, Placed
  <2>11. ASSUME NEW s \in Slots
         PROVE  /\ k2.state[s] = IF s \in woken THEN "READY" ELSE k.state[s]
                /\ k2.blocked_status[s] = IF s \in woken THEN "NONE" ELSE k.blocked_status[s]
                /\ s # h => k2.ret[s] = k.ret[s]
    <3>1. k2.state[s] = IF s \in woken THEN "READY" ELSE k.state[s]
      BY <2>8
    <3>2. k2.blocked_status[s] = IF s \in woken THEN "NONE" ELSE k.blocked_status[s]
      BY <2>8
    <3>3. s # h => ret1[s] = k.ret[s]
      BY <2>1, <2>2, <2>3
    <3>4. k2.ret[s] = ret1[s]
      BY <2>8
    <3> QED
      BY <3>1, <3>2, <3>3, <3>4
  <2>12. ASSUME NEW s \in Elems(k2.blocked_queue)
         PROVE  /\ s \in Slots /\ s \in Elems(k.blocked_queue)
                /\ k2.blocked_status[s] = k.blocked_status[s]
                /\ k2.ret[s] = k.ret[s]
    <3>1. s \in Slots /\ s \in Elems(k.blocked_queue)
      BY <1>1, <2>8, <2>12, ElemsProperties
    <3>2. s \notin woken /\ s # h
      BY <2>2, <2>9, <2>10, <3>1
    <3> QED
      BY <2>11, <3>1, <3>2
  <2>13. Calm(k, k2, {}, id)
    BY <2>8, <2>9, <2>10, <2>11, <2>12 DEF Calm, SameSignals, InWait
  <2> QED
    BY <2>7, <2>13
<1> QED
  BY <1>2, <1>3

\* The keyboard driver wakes processes that read and no others.
LEMMA KeyboardCalm ==
  ASSUME NEW k, NEW H, Good(k, H), NEW done \in SUBSET OnDevice(k), NEW re, NEW id,
         NEW rq, \A s \in Slots \ done : re[s] = k.ret[s]
  PROVE  Calm(k, [k EXCEPT
                    !.ready_queue = rq,
                    !.state = [s \in Slots |-> IF s \in done THEN "READY" ELSE k.state[s]],
                    !.blocked_status = [s \in Slots |->
                                          IF s \in done THEN "NONE" ELSE k.blocked_status[s]],
                    !.ret = re], {}, id)
<1>0. PICK k1 : k1 = [k EXCEPT
                    !.ready_queue = rq,
                    !.state = [s \in Slots |-> IF s \in done THEN "READY" ELSE k.state[s]],
                    !.blocked_status = [s \in Slots |->
                                          IF s \in done THEN "NONE" ELSE k.blocked_status[s]],
                    !.ret = re]
  OBVIOUS
<1>1. k \in KernelStates /\ k.blocked_queue \in Seq(Slots)
  BY DEF Good, KernelStates
<1>2. /\ k1.pid = k.pid /\ k1.ret = re
      /\ k1.blocked_id = k.blocked_id
      /\ k1.signals_pending = k.signals_pending /\ k1.signals_enabled = k.signals_enabled
      /\ k1.frames = k.frames /\ k1.blocked_queue = k.blocked_queue
      /\ k1.state = [s \in Slots |-> IF s \in done THEN "READY" ELSE k.state[s]]
      /\ k1.blocked_status = [s \in Slots |-> IF s \in done THEN "NONE" ELSE k.blocked_status[s]]
  BY <1>0, <1>1 DEF KernelStates
<1>3. ASSUME NEW s \in Slots
      PROVE  /\ k1.state[s] = IF s \in done THEN "READY" ELSE k.state[s]
             /\ k1.blocked_status[s] = IF s \in done THEN "NONE" ELSE k.blocked_status[s]
             /\ s \in done => k.state[s] = "BLOCKED" /\ k.blocked_status[s] = "DEVICE"
  BY <1>2 DEF OnDevice
<1>4. ASSUME NEW s \in Elems(k.blocked_queue) PROVE s \in Slots /\ s \notin done
  <2>1. s \in Slots /\ s \notin H
    BY <1>1, <1>4, ElemsProperties DEF Good, Placed, Linked
  <2>2. k.blocked_status[s] \in {"SEND", "RECEIVE", "WAITING"}
    BY <1>4, <2>1 DEF Good, Placed
  <2> QED
    BY <1>3, <2>1, <2>2
<1>5. ASSUME NEW s \in Elems(k1.blocked_queue)
      PROVE  /\ s \in Elems(k.blocked_queue)
             /\ k1.blocked_status[s] = k.blocked_status[s]
             /\ k1.ret[s] = k.ret[s]
  BY <1>2, <1>3, <1>4
<1>6. Calm(k, k1, {}, id)
  BY <1>2, <1>3, <1>5 DEF Calm, SameSignals, InWait
<1> QED
  BY <1>0, <1>6

\* The process p blocks for the pid who.
BlockedAs(k, k1, p, status, who, id) ==
  /\ Calm(k, k1, {p}, id)
  /\ k1.pid[p] = k.pid[p] /\ SameSignals(k, k1, p)
  /\ k1.state[p] = "BLOCKED" /\ k1.blocked_status[p] = status /\ k1.blocked_id[p] = who
  /\ Elems(k1.blocked_queue) = Elems(k.blocked_queue) \cup {p}

\* Block() is calm for all but the process that it blocks.
LEMMA BlockCalm ==
  ASSUME NEW k \in KernelStates, NEW p \in Slots, ~Linked(k, p), NEW id,
         NEW status \in BlockedStatuses, NEW who \in 0..PID_MAX
  PROVE  BlockedAs(k, Block(k, p, status, who), p, status, who, id)
<1>0. PICK k1 : k1 = Block(k, p, status, who)
  OBVIOUS
<1> DEFINE k0 == [k EXCEPT !.blocked_status[p] = status, !.blocked_id[p] = who]
<1>1. /\ k0.pid = k.pid /\ k0.ret = k.ret /\ k0.state = k.state
      /\ k0.blocked_id = [k.blocked_id EXCEPT ![p] = who]
      /\ k0.blocked_status = [k.blocked_status EXCEPT ![p] = status]
      /\ k0.signals_pending = k.signals_pending /\ k0.signals_enabled = k.signals_enabled
      /\ k0.frames = k.frames
      /\ k0.ready_queue = k.ready_queue /\ k0.blocked_queue = k.blocked_queue
      /\ k0.sleep_queue = k.sleep_queue /\ k0.stopped_queue = k.stopped_queue
      /\ k0 \in KernelStates
  BY DEF KernelStates
<1>2. k1 = add_pcb_to_blocked_queue(k0, p) /\ ~Linked(k0, p)
  BY <1>0, <1>1 DEF Block, Linked
<1> HIDE DEF k0
<1>3. /\ k1.pid = k.pid /\ k1.ret = k.ret /\ k1.state = [k.state EXCEPT ![p] = "BLOCKED"]
      /\ k1.blocked_id = [k.blocked_id EXCEPT ![p] = who]
      /\ k1.blocked_status = [k.blocked_status EXCEPT ![p] = status]
      /\ k1.signals_pending = k.signals_pending /\ k1.signals_enabled = k.signals_enabled
      /\ k1.frames = k.frames /\ k1.blocked_queue = Append(k.blocked_queue, p)
  BY <1>1, <1>2 DEF add_pcb_to_blocked_queue, Offered, KernelStates
<1>4. /\ k.state \in [Slots -> ProcStates] /\ k.blocked_status \in [Slots -> BlockedStatuses]
      /\ k.blocked_id \in [Slots -> 0..PID_MAX] /\ k.blocked_queue \in Seq(Slots)
  BY DEF KernelStates
<1>5. /\ Elems(k1.blocked_queue) = Elems(k.blocked_queue) \cup {p}
      /\ Elems(k.blocked_queue) \subseteq Slots
  BY <1>3, <1>4, AppendEntry, ElemsProperties DEF Linked
<1>6. ASSUME NEW s \in Slots
      PROVE  /\ k1.state[s] = IF s = p THEN "BLOCKED" ELSE k.state[s]
             /\ k1.blocked_status[s] = IF s = p THEN status ELSE k.blocked_status[s]
             /\ k1.blocked_id[s] = IF s = p THEN who ELSE k.blocked_id[s]
  BY <1>3, <1>4
<1>7. Calm(k, k1, {p}, id)
  BY <1>3, <1>5, <1>6 DEF Calm, SameSignals, InWait
<1> QED
  BY <1>0, <1>3, <1>5, <1>6, <1>7 DEF SameSignals, BlockedAs

\* An entry that is taken off the blocked queue and put back is as before.
LEMMA PutBackCalm ==
  ASSUME NEW k, NEW H, Good(k, H), NEW p \in Elems(k.blocked_queue), NEW id
  PROVE  LET k2 == add_pcb_to_blocked_queue(remove_pcb_from_blocked_queue(k, p), p)
         IN  /\ Calm(k, k2, {}, id)
             /\ Elems(k2.blocked_queue) = Elems(k.blocked_queue)
             /\ k2.state = k.state /\ k2.pid = k.pid /\ k2.blocked_id = k.blocked_id
             /\ k2.blocked_status = k.blocked_status
             /\ \A s \in Slots : SameSignals(k, k2, s)
<1>0. PICK k1, k2 : /\ k1 = remove_pcb_from_blocked_queue(k, p)
                    /\ k2 = add_pcb_to_blocked_queue(k1, p)
  OBVIOUS
<1>1. k \in KernelStates /\ k.blocked_queue \in Seq(Slots) /\ k.state \in [Slots -> ProcStates]
  BY DEF Good, KernelStates
<1>2. p \in Slots /\ p \notin H
  BY <1>1, ElemsProperties DEF Good, Placed, Linked
<1>3. k.state[p] = "BLOCKED"
  BY <1>2 DEF Good, Placed
<1>4. Good(k1, H \cup {p}) /\ k1 \in KernelStates
  BY <1>0, RemoveBlocked DEF Good
<1>5. ~Linked(k1, p)
  BY <1>4 DEF Good, Placed
<1>6. /\ k1.pid = k.pid /\ k1.ret = k.ret /\ k1.state = k.state
      /\ k1.blocked_id = k.blocked_id /\ k1.blocked_status = k.blocked_status
      /\ k1.signals_pending = k.signals_pending /\ k1.signals_enabled = k.signals_enabled
      /\ k1.frames = k.frames /\ k1.blocked_queue = pcb_remove(k.blocked_queue, p)
  BY <1>0, <1>1 DEF remove_pcb_from_blocked_queue, KernelStates
<1>7. /\ k2.pid = k.pid /\ k2.ret = k.ret /\ k2.state = [k.state EXCEPT ![p] = "BLOCKED"]
      /\ k2.blocked_id = k.blocked_id /\ k2.blocked_status = k.blocked_status
      /\ k2.signals_pending = k.signals_pending /\ k2.signals_enabled = k.signals_enabled
      /\ k2.frames = k.frames /\ k2.blocked_queue = Append(k1.blocked_queue, p)
  BY <1>0, <1>4, <1>5, <1>6 DEF add_pcb_to_blocked_queue, Offered, KernelStates
<1>8. k2.state = k.state
  BY <1>1, <1>2, <1>3, <1>7
<1>9. Elems(k2.blocked_queue) = Elems(k.blocked_queue)
  <2>1. k1.blocked_queue \in Seq(Slots)
    BY <1>4 DEF KernelStates
  <2>2. Elems(k2.blocked_queue) = Elems(k1.blocked_queue) \cup {p}
    BY <1>2, <1>5, <1>7, <2>1, AppendEntry DEF Linked
  <2>3. Elems(k1.blocked_queue) = Elems(k.blocked_queue) \ {p}
    BY <1>1, <1>6, RemoveProperties
  <2> QED
    BY <2>2, <2>3
<1>10. Calm(k, k2, {}, id) /\ \A s \in Slots : SameSignals(k, k2, s)
  BY <1>7, <1>8, <1>9 DEF Calm, SameSignals, InWait
<1> QED
  BY <1>0, <1>7, <1>8, <1>9, <1>10

\* A transfer takes the process that was blocked out of its call.
LEMMA CompleteCalm ==
  ASSUME NEW k, NEW H, Good(k, H), NEW p \in Elems(k.blocked_queue), NEW junk \in Junk,
         NEW id, InWait(k, p) => k.blocked_id[p] = id
  PROVE  LET r == Complete(remove_pcb_from_blocked_queue(k, p), p, junk)
         IN  /\ Calm(k, r.kern, {}, id) /\ r.kern.pid = k.pid
             /\ r.kern.halt = "wild" \/ r.kern.halt = k.halt
<1>0. PICK k1, r : /\ k1 = remove_pcb_from_blocked_queue(k, p)
                   /\ r = Complete(k1, p, junk)
  OBVIOUS
<1>1. k \in KernelStates /\ k.blocked_queue \in Seq(Slots)
  BY DEF Good, KernelStates
<1>2. p \in Slots /\ p \notin H
  BY <1>1, ElemsProperties DEF Good, Placed, Linked
<1>3. k.state[p] = "BLOCKED"
  BY <1>2 DEF Good, Placed
<1>4. Good(k1, H \cup {p}) /\ k1 \in KernelStates /\ k1.state = k.state /\ k1.pid = k.pid
      /\ k1.blocked_id = k.blocked_id /\ k1.blocked_status = k.blocked_status /\ k1.halt = k.halt
  BY <1>0, RemoveBlocked, SMTT(40) DEF Good
<1>5. ~Linked(k1, p) /\ Calm(k, k1, {}, id)
  BY <1>0, <1>1, <1>4, RemoveCalm DEF Good, Placed
<1>6. PICK n : n = TransferLength(k1, p, junk)
  OBVIOUS
<1>7. n \in Int
  BY <1>6 DEF TransferLength, Junk, WILD
<1>8. CASE n = WILD
  <2>1. r.kern = [k1 EXCEPT !.halt = "wild"]
    BY <1>0, <1>6, <1>8 DEF Complete, Done
  <2>2. /\ r.kern.pid = k1.pid /\ r.kern.ret = k1.ret /\ r.kern.state = k1.state
        /\ r.kern.blocked_id = k1.blocked_id /\ r.kern.blocked_status = k1.blocked_status
        /\ r.kern.signals_pending = k1.signals_pending
        /\ r.kern.signals_enabled = k1.signals_enabled
        /\ r.kern.frames = k1.frames /\ r.kern.blocked_queue = k1.blocked_queue
        /\ r.kern.halt = "wild"
    BY <1>4, <2>1 DEF KernelStates
  <2>3. Calm(k1, r.kern, {}, id)
    BY <2>2 DEF Calm, SameSignals, InWait
  <2> QED
    BY <1>0, <1>4, <1>5, <2>2, <2>3, CalmTrans
<1>9. CASE n # WILD
  <2>1. PICK k2, k3 : /\ k2 = add_pcb_to_ready_queue(k1, p)
                      /\ k3 = [k2 EXCEPT !.blocked_id[p] = 0, !.ret[p] = n]
    OBVIOUS
  <2>2. r.kern = k3
    BY <1>0, <1>6, <1>9, <2>1 DEF Complete, Done
  <2>3. Calm(k1, k2, {}, id)
    <3>1. InWait(k1, p) => k1.blocked_id[p] = id
      BY <1>4 DEF InWait
    <3> QED
      BY <1>2, <1>3, <1>4, <1>5, <2>1, <3>1, AddReadyCalm
  <2>4. k2 \in KernelStates
    BY <1>2, <1>4, <2>1, AddTypes
  <2>5. k2.blocked_queue = k1.blocked_queue /\ k2.state[p] = "READY"
        /\ k2.halt = k1.halt /\ k2.pid = k1.pid
    <3>1. k1.state \in [Slots -> ProcStates]
      BY <1>4 DEF KernelStates
    <3> QED
      BY <1>2, <1>4, <1>5, <2>1, <3>1 DEF add_pcb_to_ready_queue, Offered, KernelStates
  <2>6. /\ k3.pid = k2.pid /\ k3.state = k2.state /\ k3.blocked_status = k2.blocked_status
        /\ k3.signals_pending = k2.signals_pending /\ k3.signals_enabled = k2.signals_enabled
        /\ k3.frames = k2.frames /\ k3.blocked_queue = k2.blocked_queue
        /\ k3.ret = [k2.ret EXCEPT ![p] = n]
        /\ k3.blocked_id = [k2.blocked_id EXCEPT ![p] = 0]
        /\ k3.halt = k2.halt
    BY <2>1, <2>4 DEF KernelStates
  <2>7. /\ k2.ret \in [Slots -> Int] /\ k2.blocked_id \in [Slots -> 0..PID_MAX]
        /\ \A s \in Elems(k2.blocked_queue) : s \in Slots /\ s # p
    <3>1. k2.blocked_queue \in Seq(Slots)
      BY <2>4 DEF KernelStates
    <3> QED
      BY <1>5, <2>4, <2>5, <3>1, ElemsProperties DEF Linked, KernelStates
  <2>8. ASSUME NEW s \in Slots, s # p
        PROVE  k3.ret[s] = k2.ret[s] /\ k3.blocked_id[s] = k2.blocked_id[s]
    BY <2>6, <2>7, <2>8
  <2>9. Calm(k2, k3, {}, id)
    BY <2>5, <2>6, <2>7, <2>8 DEF Calm, SameSignals, InWait
  <2>10. Calm(k, k3, {}, id)
    BY <1>5, <2>3, <2>9, CalmTrans
  <2> QED
    BY <1>0, <1>4, <2>2, <2>5, <2>6, <2>10
<1> QED
  BY <1>8, <1>9

-----------------------------------------------------------------------------
(***************************************************************************)
(* The kinds of step, from k to k1, that are not calm for one process.     *)
(***************************************************************************)

\* The process in slot p starts.
Created(k, k1, p, id) ==
  /\ Calm(k, k1, {p}, id)
  /\ k.state[p] = "STOPPED" /\ k1.state[p] = "READY"
  /\ k1.pid[p] = k.pid[p]
  /\ k1.signals_enabled[p] = {} /\ k1.frames[p] = << >>
  /\ p \notin Elems(k1.blocked_queue)

\* The process p ends, and what waits for it goes on.
Ended(k, k1, p) ==
  /\ Calm(k, k1, {p}, k.pid[p])
  /\ k1.state[p] = "STOPPED"
  /\ k1.pid[p] = NextPid(k.pid[p])
  /\ p \notin Elems(k1.blocked_queue)
  /\ \A s \in Elems(k1.blocked_queue) : k1.blocked_id[s] # k.pid[p]

\* The process p sleeps or waits for the keyboard.
Parked(k, k1, p, id) ==
  /\ Calm(k, k1, {p}, id)
  /\ k1.state[p] = "BLOCKED"
  /\ k1.pid[p] = k.pid[p] /\ SameSignals(k, k1, p)
  /\ p \notin Elems(k1.blocked_queue)

\* The process p has a new signal g and is in no call.
Signalled(k, k1, p, g, id) ==
  /\ Calm(k, k1, {p}, id)
  /\ k1.pid[p] = k.pid[p]
  /\ k1.signals_pending[p] = k.signals_pending[p] \cup {g}
  /\ k1.signals_enabled[p] = k.signals_enabled[p] /\ k1.frames[p] = k.frames[p]
  /\ k1.state[p] = "STOPPED" <=> k.state[p] = "STOPPED"
  /\ k1.state[p] # "BLOCKED"
  /\ p \notin Elems(k1.blocked_queue)

\* cleanup_pcb() releases all that wait for the process before its slot has a new pid.
LEMMA CleanupEnds ==
  ASSUME NEW k, NEW p, Good(k, {p}), k.blocked_status[p] = "NONE"
  PROVE  Ended(k, cleanup_pcb(k, p), p)
<1>0. PICK k1, k2, k3, k4, k5, k6 :
        /\ k1 = remove_pcb_from_ready_queue(k, p)
        /\ k2 = remove_pcb_from_blocked_queue(k1, p)
        /\ k3 = remove_pcb_from_sleep_queue(k2, p)
        /\ k4 = unblock_pcb_waiting_for_pid(k3, k3.pid[p])
        /\ k5 = add_pcb_to_stopped_queue(k4, p)
        /\ k6 = [k5 EXCEPT !.frames[p] = << >>, !.signal_table[p] = [g \in Signals |-> "junk"]]
  OBVIOUS
<1>1. PICK H : H = {p}
  OBVIOUS
<1>2. k \in KernelStates /\ p \in Slots /\ Good(k, H) /\ p \in H
  BY <1>1 DEF Good
<1>3. Good(k1, H) /\ k1 \in KernelStates /\ k1.pid = k.pid
  BY <1>0, <1>2, RemoveHeld DEF Good
<1>4. Good(k2, H) /\ k2 \in KernelStates /\ k2.pid = k.pid
  BY <1>0, <1>2, <1>3, RemoveHeld DEF Good
<1>5. Good(k3, H) /\ k3 \in KernelStates /\ k3.pid = k.pid
  BY <1>0, <1>2, <1>4, RemoveHeld DEF Good
<1>6. PICK id : id = k.pid[p]
  OBVIOUS
<1>7. Calm(k, k1, {}, id)
  BY <1>0, <1>2 DEF remove_pcb_from_ready_queue, KernelStates, Calm, SameSignals, InWait
<1>8. Calm(k1, k2, {}, id)
  BY <1>0, <1>3, RemoveCalm
<1>9. Calm(k2, k3, {}, id)
  BY <1>0, <1>4 DEF remove_pcb_from_sleep_queue, KernelStates, Calm, SameSignals, InWait
<1>10. k4 = unblock_pcb_waiting_for_pid(k3, id)
  BY <1>0, <1>5, <1>6
<1>11. Calm(k3, k4, {}, id) /\ \A s \in Elems(k4.blocked_queue) : k4.blocked_id[s] # id
  BY <1>5, <1>10, UnblockCalm
<1>12. Good(k4, H) /\ k4 \in KernelStates
  BY <1>5, <1>10, UnblockGood DEF Good
<1>13. Calm(k, k4, {}, id)
  BY <1>7, <1>8, <1>9, <1>11, CalmTrans
<1>14. k4.pid[p] = id /\ ~Linked(k4, p)
  BY <1>2, <1>6, <1>12, <1>13 DEF Calm, Good, Placed
<1>15. /\ k5.pid = [k4.pid EXCEPT ![p] = NextPid(@)]
       /\ k5.state = [k4.state EXCEPT ![p] = "STOPPED"]
       /\ k5.ret = k4.ret
       /\ k5.blocked_id = k4.blocked_id /\ k5.blocked_status = k4.blocked_status
       /\ k5.signals_pending = k4.signals_pending /\ k5.signals_enabled = k4.signals_enabled
       /\ k5.frames = k4.frames /\ k5.blocked_queue = k4.blocked_queue
       /\ k5 \in KernelStates
  <2>1. k5 \in KernelStates
    BY <1>0, <1>2, <1>12, AddTypes
  <2>2. k5 = [k4 EXCEPT !.pid[p] = NextPid(@), !.state[p] = "STOPPED",
                        !.stopped_queue = Append(@, p)]
    BY <1>0, <1>14 DEF add_pcb_to_stopped_queue, Offered
  <2> QED
    BY <1>12, <2>1, <2>2 DEF KernelStates
<1>16. /\ k6.pid = k5.pid /\ k6.state = k5.state /\ k6.ret = k5.ret
       /\ k6.blocked_id = k5.blocked_id /\ k6.blocked_status = k5.blocked_status
       /\ k6.signals_pending = k5.signals_pending /\ k6.signals_enabled = k5.signals_enabled
       /\ k6.frames = [k5.frames EXCEPT ![p] = << >>] /\ k6.blocked_queue = k5.blocked_queue
  BY <1>0, <1>15 DEF KernelStates
<1>17. /\ k4.pid \in [Slots -> 1..PID_MAX] /\ k4.state \in [Slots -> ProcStates]
       /\ k5.frames \in [Slots -> Seq(Frames)] /\ k4.blocked_queue \in Seq(Slots)
  BY <1>12, <1>15 DEF KernelStates
<1>18. ASSUME NEW s \in Slots
       PROVE  /\ k6.pid[s] = IF s = p THEN NextPid(id) ELSE k4.pid[s]
              /\ k6.state[s] = IF s = p THEN "STOPPED" ELSE k4.state[s]
              /\ s # p => k6.frames[s] = k4.frames[s]
  BY <1>2, <1>14, <1>15, <1>16, <1>17
<1>19. Calm(k4, k6, {p}, id)
  BY <1>15, <1>16, <1>18 DEF Calm, SameSignals, InWait
<1>20. Calm(k, k6, {p}, id)
  BY <1>13, <1>19, CalmMono, CalmTrans
<1>21. cleanup_pcb(k, p) = k6
  BY <1>0 DEF cleanup_pcb
<1>22. p \notin Elems(k6.blocked_queue) /\ \A s \in Elems(k6.blocked_queue) : k6.blocked_id[s] # id
  BY <1>11, <1>14, <1>15, <1>16 DEF Linked
<1> QED
  BY <1>2, <1>6, <1>18, <1>20, <1>21, <1>22 DEF Ended

\* create() starts a process in the first free slot.
LEMMA CreateStarts ==
  ASSUME NEW k, NEW H, Good(k, H), k.stopped_queue # << >>, NEW table \in NewTables, NEW id
  PROVE  \E p \in Slots : Created(k, create(k, table), p, id)
<1>0. PICK p : p = Head(k.stopped_queue)
  OBVIOUS
<1> DEFINE k0 == [k EXCEPT !.stopped_queue = Tail(@), !.signal_table[p] = table,
                          !.signals_enabled[p] = {}, !.frames[p] = << >>]
<1>1. k \in KernelStates /\ k.stopped_queue \in Seq(Slots)
  BY DEF Good, KernelStates
<1>2. /\ p \in Slots /\ p \in Elems(k.stopped_queue)
      /\ Elems(k.stopped_queue) = {p} \cup Elems(Tail(k.stopped_queue))
      /\ NoRepeats(k.stopped_queue) => p \notin Elems(Tail(k.stopped_queue))
  BY <1>0, <1>1, PollProperties
<1>3. p \notin H
  BY <1>2 DEF Good, Placed, Linked
<1>4. k.state[p] = "STOPPED" /\ NoRepeats(k.stopped_queue)
  BY <1>2, <1>3 DEF Good, Placed
<1>5. /\ p \notin Elems(k.ready_queue) /\ p \notin Elems(k.blocked_queue)
      /\ p \notin Elems(k.sleep_queue)
  BY <1>2, <1>3, <1>4 DEF Good, Placed
<1>6. PICK k1 : k1 = create(k, table)
  OBVIOUS
<1>7. k1 = add_pcb_to_ready_queue(k0, p)
  BY <1>0, <1>6 DEF create
<1>8. /\ k0.pid = k.pid /\ k0.ret = k.ret /\ k0.state = k.state
      /\ k0.blocked_id = k.blocked_id /\ k0.blocked_status = k.blocked_status
      /\ k0.signals_pending = k.signals_pending
      /\ k0.signals_enabled = [k.signals_enabled EXCEPT ![p] = {}]
      /\ k0.frames = [k.frames EXCEPT ![p] = << >>]
      /\ k0.ready_queue = k.ready_queue /\ k0.blocked_queue = k.blocked_queue
      /\ k0.sleep_queue = k.sleep_queue /\ k0.stopped_queue = Tail(k.stopped_queue)
  BY <1>1 DEF KernelStates
<1>9. ~Linked(k0, p)
  BY <1>2, <1>4, <1>5, <1>8 DEF Linked
<1>10. /\ k1.pid = k.pid /\ k1.ret = k.ret /\ k1.state = [k.state EXCEPT ![p] = "READY"]
       /\ k1.blocked_id = k.blocked_id
       /\ k1.blocked_status = [k.blocked_status EXCEPT ![p] = "NONE"]
       /\ k1.signals_pending = k.signals_pending
       /\ k1.signals_enabled = [k.signals_enabled EXCEPT ![p] = {}]
       /\ k1.frames = [k.frames EXCEPT ![p] = << >>]
       /\ k1.blocked_queue = k.blocked_queue
  BY <1>1, <1>7, <1>8, <1>9 DEF add_pcb_to_ready_queue, Offered, KernelStates
<1> HIDE DEF k0
<1>11. /\ k.state \in [Slots -> ProcStates] /\ k.blocked_status \in [Slots -> BlockedStatuses]
       /\ k.signals_enabled \in [Slots -> SUBSET Signals]
       /\ k.frames \in [Slots -> Seq(Frames)] /\ k.blocked_queue \in Seq(Slots)
  BY <1>1 DEF KernelStates
<1>12. ASSUME NEW s \in Slots
       PROVE  /\ k1.state[s] = IF s = p THEN "READY" ELSE k.state[s]
              /\ s # p => /\ k1.blocked_status[s] = k.blocked_status[s]
                          /\ k1.signals_enabled[s] = k.signals_enabled[s]
                          /\ k1.frames[s] = k.frames[s]
              /\ s = p => k1.signals_enabled[s] = {} /\ k1.frames[s] = << >>
  BY <1>10, <1>11
<1>13. Elems(k.blocked_queue) \subseteq Slots
  BY <1>11, ElemsProperties
<1>14. Calm(k, k1, {p}, id)
  BY <1>10, <1>12, <1>13 DEF Calm, SameSignals, InWait
<1>15. Created(k, k1, p, id)
  BY <1>2, <1>4, <1>5, <1>10, <1>12, <1>14 DEF Created
<1> QED
  BY <1>2, <1>6, <1>15

\* A process that calls syssleep() sleeps.
LEMMA SleepParks ==
  ASSUME NEW k, NEW p, Good(k, {p}), NEW ticks \in Int, NEW id
  PROVE  Parked(k, add_pcb_to_sleep_queue(k, p, ticks), p, id)
<1>0. PICK k1, q, n, delta, ret1 :
        /\ k1 = add_pcb_to_sleep_queue(k, p, ticks)
        /\ q = k.sleep_queue
        /\ n = Behind(k, ticks) /\ delta = Left(k, ticks)[n]
        /\ ret1 = [k.ret EXCEPT ![p] = delta]
  OBVIOUS
<1>1. /\ k \in KernelStates /\ p \in Slots /\ ~Linked(k, p)
      /\ q \in Seq(Slots) /\ k.blocked_queue \in Seq(Slots)
  BY <1>0 DEF Good, Placed, KernelStates
<1>2. n \in 0..Len(q)
  BY <1>0, <1>1, BehindType
<1>3. /\ k1.pid = k.pid /\ k1.state = [k.state EXCEPT ![p] = "BLOCKED"]
      /\ k1.blocked_id = k.blocked_id
      /\ k1.blocked_status = [k.blocked_status EXCEPT ![p] = "SLEEP"]
      /\ k1.signals_pending = k.signals_pending /\ k1.signals_enabled = k.signals_enabled
      /\ k1.frames = k.frames /\ k1.blocked_queue = k.blocked_queue
      /\ k1.ret = IF n = Len(q) THEN ret1 ELSE [ret1 EXCEPT ![q[n + 1]] = @ - delta]
  BY <1>0, <1>1 DEF add_pcb_to_sleep_queue, Offered, KernelStates
<1>4. /\ k.state \in [Slots -> ProcStates] /\ k.blocked_status \in [Slots -> BlockedStatuses]
      /\ k.ret \in [Slots -> Int]
  BY <1>1 DEF KernelStates
<1>5. ASSUME NEW s \in Slots
      PROVE  /\ k1.state[s] = IF s = p THEN "BLOCKED" ELSE k.state[s]
             /\ k1.blocked_status[s] = IF s = p THEN "SLEEP" ELSE k.blocked_status[s]
  BY <1>1, <1>3, <1>4
<1>6. ASSUME NEW s \in Elems(k.blocked_queue)
      PROVE  s \in Slots /\ s # p /\ s \notin Elems(q)
  <2>1. s \in Slots /\ s # p
    BY <1>1, <1>6, ElemsProperties DEF Linked
  <2> QED
    BY <1>0, <1>6, <2>1 DEF Good, Placed
<1>7. n # Len(q) => q[n + 1] \in Elems(q) /\ q[n + 1] \in Slots
  <2>1. Len(q) \in Nat /\ n \in Nat
    BY <1>1, <1>2, ElemsProperties
  <2>2. n # Len(q) => n + 1 \in 1..Len(q)
    BY <1>2, <2>1
  <2> QED
    BY <1>1, <2>2, ElemsProperties
<1>8. ASSUME NEW s \in Elems(k.blocked_queue) PROVE k1.ret[s] = k.ret[s]
  <2>1. s \in Slots /\ s # p /\ (n # Len(q) => s # q[n + 1])
    BY <1>6, <1>7, <1>8
  <2>2. ret1[s] = k.ret[s] /\ DOMAIN ret1 = Slots
    BY <1>0, <1>4, <2>1
  <2> QED
    BY <1>3, <2>1, <2>2
<1>9. Calm(k, k1, {p}, id)
  BY <1>3, <1>5, <1>6, <1>8 DEF Calm, SameSignals, InWait
<1>10. p \notin Elems(k1.blocked_queue)
  BY <1>3, <1>6
<1> QED
  BY <1>0, <1>1, <1>3, <1>5, <1>9, <1>10 DEF Parked, SameSignals

\* A process that reads waits for the keyboard.
LEMMA ReadParks ==
  ASSUME NEW k, NEW p, Good(k, {p}), NEW id
  PROVE  Parked(k, [k EXCEPT !.state[p] = "BLOCKED",
                             !.blocked_status[p] = "DEVICE",
                             !.ret[p] = BLOCKERR], p, id)
<1>0. PICK k1 : k1 = [k EXCEPT !.state[p] = "BLOCKED",
                               !.blocked_status[p] = "DEVICE",
                               !.ret[p] = BLOCKERR]
  OBVIOUS
<1>1. /\ k \in KernelStates /\ p \in Slots /\ ~Linked(k, p)
      /\ k.blocked_queue \in Seq(Slots)
  BY DEF Good, Placed, KernelStates
<1>2. /\ k1.pid = k.pid /\ k1.state = [k.state EXCEPT ![p] = "BLOCKED"]
      /\ k1.blocked_id = k.blocked_id
      /\ k1.blocked_status = [k.blocked_status EXCEPT ![p] = "DEVICE"]
      /\ k1.signals_pending = k.signals_pending /\ k1.signals_enabled = k.signals_enabled
      /\ k1.frames = k.frames /\ k1.blocked_queue = k.blocked_queue
      /\ k1.ret = [k.ret EXCEPT ![p] = BLOCKERR]
  BY <1>0, <1>1 DEF KernelStates
<1>3. /\ k.state \in [Slots -> ProcStates] /\ k.blocked_status \in [Slots -> BlockedStatuses]
      /\ k.ret \in [Slots -> Int]
  BY <1>1 DEF KernelStates
<1>4. ASSUME NEW s \in Slots
      PROVE  /\ k1.state[s] = IF s = p THEN "BLOCKED" ELSE k.state[s]
             /\ s # p => k1.blocked_status[s] = k.blocked_status[s] /\ k1.ret[s] = k.ret[s]
  BY <1>1, <1>2, <1>3
<1>5. \A s \in Elems(k1.blocked_queue) : s \in Slots /\ s # p
  BY <1>1, <1>2, ElemsProperties DEF Linked
<1>6. Calm(k, k1, {p}, id)
  BY <1>2, <1>4, <1>5 DEF Calm, SameSignals, InWait
<1> QED
  BY <1>0, <1>1, <1>2, <1>4, <1>5, <1>6 DEF Parked, SameSignals

\* A signal takes its target out of the call in which it is blocked.
LEMMA ReleaseSignalled ==
  ASSUME NEW k, NEW H, Good(k, H), NEW p \in Elems(k.blocked_queue), NEW id
  PROVE  LET k1 == add_pcb_to_ready_queue(remove_pcb_from_blocked_queue(k, p), p)
         IN  /\ Calm(k, k1, {p}, id)
             /\ k1.pid[p] = k.pid[p] /\ SameSignals(k, k1, p) /\ k1.state[p] = "READY"
             /\ p \notin Elems(k1.blocked_queue)
<1>0. PICK k0, k1 : /\ k0 = remove_pcb_from_blocked_queue(k, p)
                    /\ k1 = add_pcb_to_ready_queue(k0, p)
  OBVIOUS
<1>1. k \in KernelStates /\ k.blocked_queue \in Seq(Slots)
  BY DEF Good, KernelStates
<1>2. p \in Slots /\ p \notin H
  BY <1>1, ElemsProperties DEF Good, Placed, Linked
<1>3. k.state[p] = "BLOCKED"
  BY <1>2 DEF Good, Placed
<1>4. /\ Good(k0, H \cup {p}) /\ k0 \in KernelStates
      /\ k0.state = k.state /\ k0.pid = k.pid /\ k0.blocked_id = k.blocked_id
  BY <1>0, RemoveBlocked DEF Good
<1>5. ~Linked(k0, p) /\ k0.state \in [Slots -> ProcStates]
  BY <1>4 DEF Good, Placed, KernelStates
<1>6. PICK who : who = k.blocked_id[p]
  OBVIOUS
<1>7. Calm(k, k1, {}, who)
  <2>1. Calm(k, k0, {}, who)
    BY <1>0, <1>1, RemoveCalm
  <2>2. Calm(k0, k1, {}, who)
    BY <1>0, <1>2, <1>3, <1>4, <1>5, <1>6, AddReadyCalm
  <2> QED
    BY <2>1, <2>2, CalmTrans
<1>8. Calm(k, k1, {p}, id)
  <2>1. ASSUME NEW s \in Slots, s # p, k.state[s] = "BLOCKED" PROVE k1.state[s] = "BLOCKED"
    BY <1>0, <1>2, <1>4, <1>5, <2>1 DEF add_pcb_to_ready_queue, Offered, KernelStates
  <2> QED
    BY <1>7, <2>1 DEF Calm, InWait
<1>9. k1.state[p] = "READY" /\ k1.blocked_queue = k0.blocked_queue
  BY <1>0, <1>2, <1>4, <1>5 DEF add_pcb_to_ready_queue, Offered, KernelStates
<1> QED
  BY <1>0, <1>2, <1>5, <1>7, <1>8, <1>9 DEF Calm, Linked

\* set_pcb_signal() changes nothing, fails its ASSERT for a process that reads from the
\* keyboard, or marks the signal of a process that is then in no call.
LEMMA SetSignalSignals ==
  ASSUME NEW k, NEW H, Good(k, H), NEW p \in Slots, NEW g \in Signals, NEW id,
         p \in H => k.state[p] # "BLOCKED"
  PROVE  \/ set_pcb_signal(k, p, g) = k
         \/ /\ k.state[p] = "BLOCKED" /\ k.blocked_status[p] = "DEVICE"
            /\ set_pcb_signal(k, p, g) = [k EXCEPT !.signals_pending[p] = @ \cup {g},
                                                   !.halt = "assert"]
         \/ Signalled(k, set_pcb_signal(k, p, g), p, g, id) /\ set_pcb_signal(k, p, g).halt = k.halt
<1>0. PICK k0, k1 : /\ k0 = [k EXCEPT !.signals_pending[p] = @ \cup {g}]
                    /\ k1 = set_pcb_signal(k, p, g)
  OBVIOUS
<1>1. k \in KernelStates /\ k.blocked_queue \in Seq(Slots)
  BY DEF Good, KernelStates
<1>2. /\ k0 \in KernelStates
      /\ k0.ready_queue = k.ready_queue /\ k0.blocked_queue = k.blocked_queue
      /\ k0.sleep_queue = k.sleep_queue /\ k0.stopped_queue = k.stopped_queue
      /\ k0.state = k.state /\ k0.blocked_status = k.blocked_status
      /\ k0.blocked_id = k.blocked_id /\ k0.pid = k.pid /\ k0.ret = k.ret
      /\ k0.signals_enabled = k.signals_enabled /\ k0.frames = k.frames
      /\ k0.signals_pending = [k.signals_pending EXCEPT ![p] = @ \cup {g}]
      /\ k0.halt = k.halt
  BY <1>0, <1>1 DEF KernelStates
<1>3. /\ Good(k0, H)
      /\ k.signals_pending \in [Slots -> SUBSET Signals]
  BY <1>1, <1>2, GoodKept, ZenonT(40) DEF KernelStates
<1>4. ASSUME NEW s \in Slots
      PROVE  k0.signals_pending[s] = IF s = p THEN k.signals_pending[p] \cup {g}
                                     ELSE k.signals_pending[s]
  BY <1>2, <1>3
<1>5. Calm(k, k0, {p}, id)
  BY <1>2, <1>4 DEF Calm, SameSignals, InWait
<1>6. ASSUME NEW k2, Calm(k0, k2, {p}, id), k2.pid[p] = k0.pid[p], SameSignals(k0, k2, p),
             k2.state[p] = "STOPPED" <=> k0.state[p] = "STOPPED", k2.state[p] # "BLOCKED",
             p \notin Elems(k2.blocked_queue), k2.halt = k0.halt, k1 = k2
      PROVE  Signalled(k, k1, p, g, id) /\ k1.halt = k.halt
  <2>1. Calm(k, k2, {p}, id)
    BY <1>5, <1>6, CalmTrans
  <2> QED
    BY <1>2, <1>4, <1>6, <2>1 DEF Signalled, SameSignals
<1>7. CASE k.signal_table[p][g] = "NULL"
  BY <1>7 DEF set_pcb_signal
<1>8. CASE k.signal_table[p][g] # "NULL" /\ k.state[p] # "BLOCKED"
  <2>1. k1 = k0
    BY <1>0, <1>8 DEF set_pcb_signal
  <2>2. p \notin Elems(k0.blocked_queue)
    BY <1>2, <1>8 DEF Good, Placed, Linked
  <2>3. Calm(k0, k0, {p}, id) /\ SameSignals(k0, k0, p)
    BY DEF Calm, SameSignals, InWait
  <2> QED
    BY <1>0, <1>2, <1>6, <1>8, <2>1, <2>2, <2>3
<1>9. CASE k.signal_table[p][g] # "NULL" /\ k.state[p] = "BLOCKED"
  <2>1. p \in Slots \ H
    BY <1>9
  <2>2. Where(Elems(k.ready_queue), Elems(k.blocked_queue), Elems(k.sleep_queue),
              Elems(k.stopped_queue), k.state, k.blocked_status, H)
    BY PlacedWhere DEF Good
  <2>3. CASE k.blocked_status[p] = "SLEEP"
    <3>1. p \in Elems(k.sleep_queue) /\ p \notin Elems(k.blocked_queue) /\ p \notin Elems(k.ready_queue)
          /\ p \notin Elems(k.stopped_queue)
      BY <1>9, <2>1, <2>2, <2>3 DEF Where
    <3>2. PICK k2, k3 : k2 = remove_pcb_from_sleep_queue(k0, p) /\ k3 = add_pcb_to_ready_queue(k2, p)
      OBVIOUS
    <3>3. k1 = k3
      BY <1>0, <1>9, <2>3, <3>2 DEF set_pcb_signal, wake
    <3>4. /\ k2 \in KernelStates
          /\ k2.ready_queue = k0.ready_queue /\ k2.blocked_queue = k0.blocked_queue
          /\ k2.sleep_queue = pcb_remove(k0.sleep_queue, p) /\ k2.stopped_queue = k0.stopped_queue
          /\ k2.state = k0.state /\ k2.blocked_status = k0.blocked_status
          /\ k2.blocked_id = k0.blocked_id /\ k2.pid = k0.pid /\ k2.ret = k0.ret
          /\ k2.signals_enabled = k0.signals_enabled /\ k2.frames = k0.frames
          /\ k2.signals_pending = k0.signals_pending
      <4>1. k2 \in KernelStates
        BY <1>2, <3>2, RemoveTypes
      <4> QED
        BY <1>2, <3>2, <4>1 DEF remove_pcb_from_sleep_queue, KernelStates
    <3>5. ~Linked(k2, p)
      <4>1. k.sleep_queue \in Seq(Slots)
        BY <1>1 DEF KernelStates
      <4>2. p \notin Elems(k2.sleep_queue)
        BY <1>2, <3>4, <4>1, RemoveProperties
      <4> QED
        BY <1>2, <3>1, <3>4, <4>2 DEF Linked
    <3>6. Calm(k0, k2, {}, id)
      BY <3>4 DEF Calm, SameSignals, InWait
    <3>7. Calm(k2, k3, {}, id)
      BY <1>2, <1>9, <2>3, <3>2, <3>4, <3>5, AddReadyCalm DEF InWait
    <3>8. Calm(k0, k3, {}, id)
      BY <3>6, <3>7, CalmTrans
    <3>9. k3.state[p] = "READY" /\ k3.blocked_queue = k2.blocked_queue /\ k3.halt = k0.halt
      BY <1>2, <3>2, <3>4, <3>5 DEF remove_pcb_from_sleep_queue, add_pcb_to_ready_queue, Offered, KernelStates
    <3>10. Calm(k0, k3, {p}, id) /\ k3.pid[p] = k0.pid[p] /\ SameSignals(k0, k3, p)
      BY <3>8, CalmMono DEF Calm
    <3> QED
      BY <1>0, <1>2, <1>6, <1>9, <3>1, <3>3, <3>4, <3>9, <3>10
  <2>4. CASE k.blocked_status[p] \in {"SEND", "RECEIVE"}
    <3>0. PICK k2, k3 : /\ k2 = SetRet(k0, p, BLOCKED_PROC_SIGNALED)
                        /\ k3 = add_pcb_to_ready_queue(remove_pcb_from_blocked_queue(k2, p), p)
      OBVIOUS
    <3>1. BLOCKED_PROC_SIGNALED \in Int
      BY DEF BLOCKED_PROC_SIGNALED
    <3>2. Good(k2, H) /\ k2.blocked_queue = k0.blocked_queue /\ k2.halt = k0.halt
      BY <1>3, <3>0, <3>1, SetRetGood DEF Kept
    <3>3. Calm(k0, k2, {p}, id)
      BY <1>2, <3>0, <3>1, SetRetCalm
    <3>4. k2.pid = k0.pid /\ SameSignals(k0, k2, p) /\ k2.state = k0.state
      BY <1>2, <3>0 DEF SetRet, KernelStates, SameSignals
    <3>5. p \in Elems(k2.blocked_queue)
      BY <1>2, <1>9, <2>1, <2>2, <2>4, <3>2 DEF Where
    <3>6. /\ Calm(k2, k3, {p}, id)
          /\ k3.pid[p] = k2.pid[p] /\ SameSignals(k2, k3, p) /\ k3.state[p] = "READY"
          /\ p \notin Elems(k3.blocked_queue)
      BY <3>0, <3>2, <3>5, ReleaseSignalled
    <3>7. Calm(k0, k3, {p}, id)
      BY <3>3, <3>6, CalmTrans
    <3>8. k1 = k3
      BY <1>0, <1>9, <2>4, <3>0 DEF set_pcb_signal
    <3>9. SameSignals(k0, k3, p) /\ k3.halt = k0.halt
      BY <3>0, <3>2, <3>4, <3>5, <3>6, ReleaseGood DEF SameSignals, Kept
    <3> QED
      BY <1>0, <1>2, <1>6, <1>9, <3>4, <3>6, <3>7, <3>8, <3>9
  <2>5. CASE k.blocked_status[p] = "WAITING"
    <3>0. PICK k3 : k3 = add_pcb_to_ready_queue(remove_pcb_from_blocked_queue(k0, p), p)
      OBVIOUS
    <3>1. p \in Elems(k0.blocked_queue)
      BY <1>2, <1>9, <2>1, <2>2, <2>5 DEF Where
    <3>2. /\ Calm(k0, k3, {p}, id)
          /\ k3.pid[p] = k0.pid[p] /\ SameSignals(k0, k3, p) /\ k3.state[p] = "READY"
          /\ p \notin Elems(k3.blocked_queue)
      BY <1>3, <3>0, <3>1, ReleaseSignalled
    <3>3. k1 = k3 /\ k3.halt = k0.halt
      BY <1>0, <1>3, <1>9, <2>5, <3>0, <3>1, ReleaseGood DEF set_pcb_signal, Kept
    <3> QED
      BY <1>0, <1>2, <1>6, <1>9, <3>2, <3>3
  <2>6. CASE k.blocked_status[p] \notin {"SLEEP", "SEND", "RECEIVE", "WAITING"}
    <3>1. set_pcb_signal(k, p, g) = [k0 EXCEPT !.halt = "assert"]
      BY <1>0, <1>9, <2>6 DEF set_pcb_signal
    <3>2. k.blocked_status[p] = "DEVICE"
      <4>1. k.blocked_status[p] \in BlockedStatuses
        BY <1>1 DEF KernelStates
      <4> QED
        BY <1>9, <2>1, <2>2, <2>6, <4>1 DEF Where, BlockedStatuses
    <3> QED
      BY <1>0, <1>1, <1>9, <3>1, <3>2 DEF KernelStates
  <2> QED
    BY <2>3, <2>4, <2>5, <2>6
<1> QED
  BY <1>7, <1>8, <1>9

\* What the process p, which blocks, waits for: q, which has not ended and, if it is
\* blocked, does not wait for p; any sender; or the process with a pid it passes.
WaitsFor(k, k1, p) ==
  \/ /\ k1.blocked_status[p] \in {"SEND", "RECEIVE"}
     /\ \E q \in Slots : /\ k.state[q] # "STOPPED"
                         /\ k1.blocked_id[p] = k.pid[q]
                         /\ q \in Elems(k.blocked_queue) => k.blocked_id[q] # k.pid[p]
  \/ k1.blocked_status[p] = "RECEIVE" /\ k1.blocked_id[p] = 0 /\ AnyReceive
  \/ /\ k1.blocked_status[p] = "WAITING"
     /\ pid_to_pcb(k, k1.blocked_id[p]) # NULL
     /\ StalePids \/ \E q \in Slots : k1.blocked_id[p] = k.pid[q]

\* The process p blocks in the blocked queue.
Blocking(k, k1, p, id) ==
  /\ Calm(k, k1, {p}, id)
  /\ k1.pid[p] = k.pid[p] /\ SameSignals(k, k1, p)
  /\ k1.state[p] = "BLOCKED" /\ p \in Elems(k1.blocked_queue)
  /\ WaitsFor(k, k1, p)

\* The sender or receiver p does not meet q.
MeetsNot(k, k1, p, q, id) ==
  /\ Good(k1, {p}) /\ Calm(k, k1, {}, id) /\ k1.pid = k.pid /\ SameSignals(k, k1, p)
  /\ q \in Slots /\ k.state[q] # "STOPPED"
  /\ q \in Elems(k.blocked_queue) => k.blocked_id[q] # k.pid[p]

\* A sender or receiver p blocks for q.
LEMMA MeetingBlocks ==
  ASSUME NEW k, NEW p, NEW id, NEW k1, NEW q, MeetsNot(k, k1, p, q, id),
         NEW status \in {"SEND", "RECEIVE"}
  PROVE  LET k2 == Block(k1, p, status, k1.pid[q])
         IN  /\ Good(k2, {}) /\ k2.halt = k1.halt /\ Blocking(k, k2, p, id) /\ k2.pid = k.pid
             /\ k2.blocked_status[p] # "WAITING"
<1> USE DEF MeetsNot
<1>0. PICK who, k2, H : who = k1.pid[q] /\ k2 = Block(k1, p, status, who) /\ H = {p}
  OBVIOUS
<1>00. k2 = Block(k1, p, status, who)
  BY <1>0
<1>1. k1 \in KernelStates /\ p \in Slots /\ ~Linked(k1, p)
  BY DEF Good, Placed
<1>2. who \in 0..PID_MAX /\ who # 0
  BY <1>0, <1>1, PidType
<1>3. status \in BlockedStatuses /\ status \in {"SEND", "RECEIVE", "WAITING"}
  BY DEF BlockedStatuses
<1>4. BlockedAs(k1, k2, p, status, who, id)
  <2>1. who \in 0..PID_MAX
    BY <1>2
  <2> QED
    BY <1>00, <1>1, <1>3, <2>1, BlockCalm
<1>5. Good(k2, H \ {p}) /\ k2.halt = k1.halt
  <2>1. Good(k1, H) /\ p \in H
    BY <1>0
  <2>2. ~AnyReceive => who # 0
    BY <1>2
  <2>3. who \in 0..PID_MAX
    BY <1>2
  <2> QED
    BY <1>00, <1>3, <2>1, <2>2, <2>3, BlockGood
<1>6. H \ {p} = {}
  BY <1>0
<1>7. Calm(k, k2, {p}, id)
  <2>1. Calm(k1, k2, {p}, id)
    BY <1>4 DEF BlockedAs
  <2> QED
    BY <2>1, CalmMono, CalmTrans
<1>8. WaitsFor(k, k2, p)
  BY <1>0, <1>4 DEF WaitsFor, BlockedAs
<1>9. k2.pid = k1.pid
  BY <1>0, <1>1 DEF Block, add_pcb_to_blocked_queue, Offered, KernelStates
<1> QED
  BY <1>0, <1>4, <1>5, <1>6, <1>7, <1>8, <1>9 DEF Blocking, BlockedAs, SameSignals

\* What send() or recv() does, called by p: p blocks, or the process it meets goes on.
Meeting(k, r, p) ==
  IF r.blocked
  THEN /\ Good(r.kern, {}) /\ r.kern.halt \in {k.halt, "corrupt"}
       /\ Blocking(k, r.kern, p, k.pid[p]) /\ r.kern.pid = k.pid
       /\ r.ret = SYSPID_DNE /\ r.kern.blocked_status[p] # "WAITING"
  ELSE /\ Calm(k, r.kern, {}, k.pid[p]) /\ r.kern.pid = k.pid
       /\ r.kern.halt \in {k.halt, "wild"}

\* Blocks the caller at once.
LEMMA BlockMeets ==
  ASSUME NEW k, NEW p, Good(k, {p}), NEW q \in Slots, k.state[q] # "STOPPED",
         q \notin Elems(k.blocked_queue), NEW status \in {"SEND", "RECEIVE"}
  PROVE  Meeting(k, Blocked(Block(k, p, status, k.pid[q])), p)
<1>1. Calm(k, k, {}, k.pid[p]) /\ SameSignals(k, k, p)
  BY DEF Calm, SameSignals, InWait
<1>2. PICK k2 : k2 = Block(k, p, status, k.pid[q])
  OBVIOUS
<1>3. Good(k2, {}) /\ k2.halt = k.halt /\ Blocking(k, k2, p, k.pid[p]) /\ k2.pid = k.pid
      /\ k2.blocked_status[p] # "WAITING"
  <2>1. PICK id : id = k.pid[p]
    OBVIOUS
  <2>2. MeetsNot(k, k, p, q, id)
    BY <1>1, <2>1 DEF MeetsNot
  <2>3. Good(k2, {}) /\ k2.halt = k.halt /\ Blocking(k, k2, p, id) /\ k2.pid = k.pid
        /\ k2.blocked_status[p] # "WAITING"
    BY <1>2, <2>2, MeetingBlocks
  <2> QED
    BY <2>1, <2>3
<1> QED
  BY <1>2, <1>3 DEF Meeting, Blocked

\* Finds the process q blocked, which waits for another one or meets the caller.
LEMMA FoundMeets ==
  ASSUME NEW k, NEW p, Good(k, {p}), NEW q \in Elems(k.blocked_queue), NEW junk \in Junk,
         NEW status \in {"SEND", "RECEIVE"}
  PROVE  LET k1 == remove_pcb_from_blocked_queue(k, q)
             k2 == add_pcb_to_blocked_queue(k1, q)
         IN  /\ k1.blocked_id = k.blocked_id /\ k1.pid = k.pid
             /\ k.blocked_id[q] # k.pid[p]
                  => Meeting(k, Blocked(Block(k2, p, status, k2.pid[q])), p)
             /\ k.blocked_id[q] = k.pid[p] \/ ~InWait(k, q)
                  => Meeting(k, Complete(k1, q, junk), p)
<1>0. PICK k1, k2 : /\ k1 = remove_pcb_from_blocked_queue(k, q)
                    /\ k2 = add_pcb_to_blocked_queue(k1, q)
  OBVIOUS
<1>1. k \in KernelStates /\ k.blocked_queue \in Seq(Slots)
  BY DEF Good, KernelStates
<1>2. q \in Slots /\ q # p
  BY <1>1, ElemsProperties DEF Good, Placed, Linked
<1>3. k.state[q] = "BLOCKED" /\ p \in Slots
  BY <1>2 DEF Good, Placed
<1>4. k1.blocked_id = k.blocked_id /\ k1.pid = k.pid
  BY <1>0, <1>1 DEF remove_pcb_from_blocked_queue, KernelStates
<1>5. ASSUME k.blocked_id[q] # k.pid[p]
      PROVE  Meeting(k, Blocked(Block(k2, p, status, k2.pid[q])), p)
  <2>1. Good(k2, {p}) /\ k2.halt = k.halt
    BY <1>0, PutBackGood
  <2>2. /\ Calm(k, k2, {}, k.pid[p]) /\ k2.pid = k.pid
        /\ SameSignals(k, k2, p)
    BY <1>0, <1>3, PutBackCalm
  <2>3. PICK k3, id : k3 = Block(k2, p, status, k2.pid[q]) /\ id = k.pid[p]
    OBVIOUS
  <2>5. k3 = Block(k2, p, status, k2.pid[q]) /\ k.state[q] # "STOPPED" /\ Calm(k, k2, {}, id)
    BY <1>3, <2>2, <2>3
  <2>6. k2.pid = k.pid /\ SameSignals(k, k2, p) /\ Good(k2, {p})
    BY <2>1, <2>2
  <2>8. q \in Slots /\ (q \in Elems(k.blocked_queue) => k.blocked_id[q] # k.pid[p])
    BY <1>2, <1>5
  <2>7. Good(k3, {}) /\ k3.halt = k2.halt /\ Blocking(k, k3, p, id) /\ k3.pid = k.pid
        /\ k3.blocked_status[p] # "WAITING"
    <3>1. MeetsNot(k, k2, p, q, id)
      BY <2>5, <2>6, <2>8 DEF MeetsNot
    <3> QED
      BY <2>5, <3>1, MeetingBlocks
  <2>4. Good(k3, {}) /\ k3.halt = k2.halt /\ Blocking(k, k3, p, k.pid[p]) /\ k3.pid = k.pid
        /\ k3.blocked_status[p] # "WAITING"
    BY <2>3, <2>7
  <2> QED
    BY <2>1, <2>3, <2>4 DEF Meeting, Blocked
<1>6. ASSUME k.blocked_id[q] = k.pid[p] \/ ~InWait(k, q)
      PROVE  Meeting(k, Complete(k1, q, junk), p)
  <2>1. PICK r, id : r = Complete(k1, q, junk) /\ id = k.pid[p]
    OBVIOUS
  <2>2. InWait(k, q) => k.blocked_id[q] = id
    BY <1>6, <2>1
  <2>3. /\ Calm(k, r.kern, {}, id) /\ r.kern.pid = k.pid
        /\ r.kern.halt = "wild" \/ r.kern.halt = k.halt
    BY <1>0, <2>1, <2>2, CompleteCalm
  <2>4. ~r.blocked
    BY <2>1 DEF Complete, Done
  <2> QED
    BY <2>1, <2>3, <2>4 DEF Meeting
<1> QED
  BY <1>0, <1>4, <1>5, <1>6

\* send() blocks its caller or completes the call of the process that waits for it.
LEMMA SendMeets ==
  ASSUME NEW k, NEW curr, Good(k, {curr}), NEW dest \in Slots, k.state[dest] # "STOPPED",
         NEW junk \in Junk
  PROVE  Meeting(k, send(k, curr, dest, junk), curr)
<1>0. PICK any : any = peek_any_receiver(k)
  OBVIOUS
<1>1. k \in KernelStates /\ curr \in Slots /\ k.blocked_queue \in Seq(Slots)
  BY DEF Good, KernelStates
<1>2. any # NULL => any \in Elems(k.blocked_queue) /\ any \in Slots /\ k.blocked_id[any] = 0
  BY <1>0, <1>1, FirstInType DEF peek_any_receiver
<1>3. CASE dest \notin Elems(k.blocked_queue)
  <2>1. CASE any = NULL
    <3>1. send(k, curr, dest, junk) = Blocked(Block(k, curr, "SEND", k.pid[dest]))
      BY <1>0, <1>3, <2>1 DEF send
    <3> QED
      BY <1>3, <3>1, BlockMeets
  <2>2. CASE any # NULL
    <3>0. PICK k2, k3 : k2 = add_pcb_to_blocked_queue(k, any)
                        /\ k3 = Block(k2, curr, "SEND", k2.pid[any])
      OBVIOUS
    <3>2. k.blocked_id[any] # k.pid[curr]
      BY <1>1, <1>2, <2>2, PidType
    <3>3. send(k, curr, dest, junk) = Blocked(k3)
      BY <1>0, <1>3, <2>2, <3>0, <3>2 DEF send
    <3>4. k2 = [k EXCEPT !.halt = "corrupt"]
      BY <1>2, <2>2, <3>0 DEF add_pcb_to_blocked_queue, Offered, Linked
    <3>5. /\ k2 \in KernelStates /\ k2.halt = "corrupt"
          /\ k2.ready_queue = k.ready_queue /\ k2.blocked_queue = k.blocked_queue
          /\ k2.sleep_queue = k.sleep_queue /\ k2.stopped_queue = k.stopped_queue
          /\ k2.state = k.state /\ k2.blocked_status = k.blocked_status
          /\ k2.blocked_id = k.blocked_id /\ k2.pid = k.pid /\ k2.ret = k.ret
          /\ k2.signals_enabled = k.signals_enabled /\ k2.frames = k.frames
          /\ k2.signals_pending = k.signals_pending
      BY <1>1, <3>4 DEF KernelStates, Halts
    <3>6. Good(k2, {curr})
      BY <3>5, GoodKept
    <3>7. Calm(k, k2, {}, k.pid[curr]) /\ SameSignals(k, k2, curr)
      BY <3>5 DEF Calm, SameSignals, InWait
    <3>8. k.state[any] # "STOPPED"
      <4>1. any # curr
        BY <1>2, <2>2 DEF Good, Placed, Linked
      <4> QED
        BY <1>2, <2>2, <4>1 DEF Good, Placed
    <3>9. /\ Good(k3, {}) /\ k3.halt = k2.halt /\ Blocking(k, k3, curr, k.pid[curr])
          /\ k3.pid = k.pid /\ k3.blocked_status[curr] # "WAITING"
      <4>1. any \in Slots
        BY <1>2, <2>2
      <4>2. PICK status \in {"SEND", "RECEIVE"} : status = "SEND"
        OBVIOUS
      <4>3. PICK id : id = k.pid[curr]
        OBVIOUS
      <4>4. k3 = Block(k2, curr, status, k2.pid[any]) /\ k2.pid = k.pid
        BY <3>0, <3>5, <4>2
      <4>5. Calm(k, k2, {}, id) /\ SameSignals(k, k2, curr) /\ Good(k2, {curr})
        BY <3>6, <3>7, <4>3
      <4>6. /\ Good(k3, {}) /\ k3.halt = k2.halt /\ Blocking(k, k3, curr, id)
            /\ k3.pid = k.pid /\ k3.blocked_status[curr] # "WAITING"
        <5>1. MeetsNot(k, k2, curr, any, id)
          BY <3>2, <3>8, <4>1, <4>4, <4>5 DEF MeetsNot
        <5> QED
          BY <4>4, <5>1, MeetingBlocks
      <4> QED
        BY <4>3, <4>6
    <3> QED
      BY <3>3, <3>5, <3>9 DEF Meeting, Blocked
  <2> QED
    BY <2>1, <2>2
<1>4. CASE dest \in Elems(k.blocked_queue)
  <2>0. PICK k1, k2 : /\ k1 = remove_pcb_from_blocked_queue(k, dest)
                      /\ k2 = add_pcb_to_blocked_queue(k1, dest)
    OBVIOUS
  <2>1. send(k, curr, dest, junk) =
          IF k1.blocked_id[dest] # k1.pid[curr]
          THEN Blocked(Block(k2, curr, "SEND", k2.pid[dest]))
          ELSE Complete(k1, dest, junk)
    BY <1>4, <2>0 DEF send
  <2>2. /\ k1.blocked_id = k.blocked_id /\ k1.pid = k.pid
        /\ k.blocked_id[dest] # k.pid[curr]
             => Meeting(k, Blocked(Block(k2, curr, "SEND", k2.pid[dest])), curr)
        /\ k.blocked_id[dest] = k.pid[curr] => Meeting(k, Complete(k1, dest, junk), curr)
    BY <1>4, <2>0, FoundMeets
  <2> QED
    BY <2>1, <2>2
<1> QED
  BY <1>3, <1>4

\* A receiver from any process blocks.
LEMMA AnyBlocks ==
  ASSUME NEW k, NEW curr, Good(k, {curr}), AnyReceive
  PROVE  Meeting(k, Blocked(Block(k, curr, "RECEIVE", 0)), curr)
<1>1. PICK status \in BlockedStatuses, who \in 0..PID_MAX : status = "RECEIVE" /\ who = 0
  BY TableAssumption DEF BlockedStatuses
<1>2. PICK k2, H, id : k2 = Block(k, curr, status, who) /\ H = {curr} /\ id = k.pid[curr]
  OBVIOUS
<1>3. k \in KernelStates /\ curr \in Slots /\ ~Linked(k, curr)
  BY DEF Good, Placed
<1>4. k2 = Block(k, curr, status, who)
  BY <1>2
<1>5. BlockedAs(k, k2, curr, status, who, id)
  BY <1>3, <1>4, BlockCalm
<1>6. Good(k2, H \ {curr}) /\ k2.halt = k.halt
  <2>1. Good(k, H) /\ curr \in H /\ status \in {"SEND", "RECEIVE", "WAITING"}
    BY <1>1, <1>2
  <2> QED
    BY <1>4, <2>1, BlockGood
<1>7. H \ {curr} = {} /\ k2.pid = k.pid
  BY <1>2, <1>3 DEF Block, add_pcb_to_blocked_queue, Offered, KernelStates
<1>8. Blocking(k, k2, curr, k.pid[curr]) /\ k2.blocked_status[curr] # "WAITING"
  BY <1>1, <1>2, <1>5 DEF Blocking, BlockedAs, WaitsFor
<1> QED
  BY <1>1, <1>2, <1>6, <1>7, <1>8 DEF Meeting, Blocked

\* recv() does, or completes the call of some sender.
LEMMA RecvMeets ==
  ASSUME NEW k, NEW curr, Good(k, {curr}), NEW from \in Slots \cup {NULL},
         from # NULL => k.state[from] # "STOPPED", from = NULL => AnyReceive, NEW junk \in Junk
  PROVE  Meeting(k, recv(k, from, curr, junk), curr)
<1>0. PICK any : any = peek_next_sender(k)
  OBVIOUS
<1>1. k \in KernelStates /\ curr \in Slots /\ k.blocked_queue \in Seq(Slots)
  BY DEF Good, KernelStates
<1>2. any # NULL => any \in Elems(k.blocked_queue) /\ any \in Slots /\ k.blocked_status[any] = "SEND"
  BY <1>0, <1>1, FirstInType DEF peek_next_sender
<1>3. CASE from = NULL
  <2>1. CASE any = NULL
    <3>1. recv(k, from, curr, junk) = Blocked(Block(k, curr, "RECEIVE", 0))
      BY <1>0, <1>3, <2>1 DEF recv
    <3> QED
      BY <1>3, <3>1, AnyBlocks
  <2>2. CASE any # NULL
    <3>1. recv(k, from, curr, junk) = Complete(remove_pcb_from_blocked_queue(k, any), any, junk)
      BY <1>0, <1>2, <1>3, <2>2 DEF recv
    <3>2. ~InWait(k, any)
      BY <1>2, <2>2 DEF InWait
    <3> QED
      BY <1>2, <2>2, <3>1, <3>2, FoundMeets
  <2> QED
    BY <2>1, <2>2
<1>4. CASE from # NULL /\ from \notin Elems(k.blocked_queue)
  <2>1. recv(k, from, curr, junk) = Blocked(Block(k, curr, "RECEIVE", k.pid[from]))
    BY <1>4 DEF recv
  <2> QED
    BY <1>4, <2>1, BlockMeets
<1>5. CASE from # NULL /\ from \in Elems(k.blocked_queue)
  <2>0. PICK k1, k2 : /\ k1 = remove_pcb_from_blocked_queue(k, from)
                      /\ k2 = add_pcb_to_blocked_queue(k1, from)
    OBVIOUS
  <2>1. recv(k, from, curr, junk) =
          IF k1.blocked_id[from] # k1.pid[curr]
          THEN Blocked(Block(k2, curr, "RECEIVE", k2.pid[from]))
          ELSE Complete(k1, from, junk)
    BY <1>5, <2>0 DEF recv
  <2>2. /\ k1.blocked_id = k.blocked_id /\ k1.pid = k.pid
        /\ k.blocked_id[from] # k.pid[curr]
             => Meeting(k, Blocked(Block(k2, curr, "RECEIVE", k2.pid[from])), curr)
        /\ k.blocked_id[from] = k.pid[curr] => Meeting(k, Complete(k1, from, junk), curr)
    BY <1>5, <2>0, FoundMeets
  <2> QED
    BY <2>1, <2>2
<1> QED
  BY <1>3, <1>4, <1>5

\* The process p waits in the blocked queue, and its call has its result.
Waits(k, k1, p, id) ==
  /\ Blocking(k, k1, p, id)
  /\ k1.ret[p] = IF k1.blocked_status[p] = "WAITING" THEN 0 ELSE SYSPID_DNE

\* The handler of the process p has returned.
Returned(k, k1, p, id) ==
  /\ Calm(k, k1, {p}, id)
  /\ k1.pid[p] = k.pid[p]
  /\ k.state[p] = "RUNNING" /\ k1.state[p] = "RUNNING"
  /\ p \notin Elems(k1.blocked_queue)
  /\ k1.signals_pending[p] = k.signals_pending[p]
  /\ k.frames[p] # << >> /\ k.signals_enabled[p] # {}
  /\ k1.frames[p] = SubSeq(k.frames[p], 1, Len(k.frames[p]) - 1)
  /\ k1.signals_enabled[p] = k.signals_enabled[p] \ {Highest(k.signals_enabled[p])}

\* The kernel halts in the middle of a handler.
Broken(k, k1, id) ==
  /\ k1.halt # "no" /\ k1.pid = k.pid
  /\ \A s \in Slots : InWait(k, s) /\ k1.state[s] # "BLOCKED" => k.blocked_id[s] = id
  /\ k1.halt = "assert" =>
       \/ k1 = [k EXCEPT !.halt = "assert"]
       \/ \E s \in OnDevice(k), g \in Signals :
            k1 = [k EXCEPT !.signals_pending[s] = @ \cup {g}, !.ret[k.process] = 0,
                           !.halt = "assert"]

\* A step of the dispatcher up to the point at which it resumes a process.
Step(k, k1, id) ==
  \/ Broken(k, k1, id)
  \/ /\ k1.halt # "assert"
     /\ \/ Calm(k, k1, {}, id)
        \/ \E p \in Slots : Created(k, k1, p, id)
        \/ /\ k1.process = k.process
           /\ \E p \in Slots, g \in Signals : Signalled(k, k1, p, g, id)
        \/ /\ k.process \in Slots
           /\ \/ Ended(k, k1, k.process) /\ id = k.pid[k.process]
              \/ Parked(k, k1, k.process, id)
              \/ Waits(k, k1, k.process, id)
              \/ Returned(k, k1, k.process, id)

\* get_next_pcb() from k to k1.
Switched(k, k1, id) ==
  /\ k1 \in KernelStates /\ k1.halt = k.halt
  /\ Calm(k, k1, {}, id)
  /\ k1.blocked_queue = k.blocked_queue
  /\ \A s \in Slots : k.state[s] # "READY" => Same(k, k1, s)

\* All pcbs being in their places, get_next_pcb() only changes the state of the first
\* process that is ready.
LEMMA SwitchEffect ==
  ASSUME NEW k, Good(k, {}), NEW id
  PROVE  Switched(k, get_next_pcb(k), id)
<1>0. PICK k1 : k1 = get_next_pcb(k)
  OBVIOUS
<1>1. k \in KernelStates
  BY DEF Good
<1>2. k1 \in KernelStates /\ k1.halt = k.halt
  BY <1>0, <1>1, GetNextType DEF get_next_pcb, KernelStates
<1> QED
  BY <1>0, <1>2, GetNextCalm DEF Switched

\* What a handler has done to a process that is not ready stays when the dispatcher
\* moves on to the next one.
LEMMA SwitchedKeeps ==
  ASSUME NEW k, NEW k1, NEW k2, NEW id, NEW p \in Slots, Switched(k1, k2, id)
  PROVE  /\ Ended(k, k1, p) /\ id = k.pid[p] => Ended(k, k2, p)
         /\ Parked(k, k1, p, id) => Parked(k, k2, p, id)
         /\ Blocking(k, k1, p, id) => Blocking(k, k2, p, id) /\ k2.ret[p] = k1.ret[p]
                                      /\ k2.blocked_status[p] = k1.blocked_status[p]
<1>1. Calm(k1, k2, {p}, id) /\ k2.blocked_queue = k1.blocked_queue
  BY CalmMono DEF Switched
<1>2. k1.state[p] # "READY" => Same(k1, k2, p)
  BY DEF Switched
<1>3. ASSUME Ended(k, k1, p), id = k.pid[p] PROVE Ended(k, k2, p)
  <2>1. Calm(k, k2, {p}, id)
    BY <1>1, <1>3, CalmTrans DEF Ended
  <2>2. Same(k1, k2, p)
    BY <1>2, <1>3 DEF Ended
  <2>3. \A s \in Elems(k2.blocked_queue) : k2.blocked_id[s] # k.pid[p]
    BY <1>1, <1>3 DEF Calm, Ended
  <2> QED
    BY <1>1, <1>3, <2>1, <2>2, <2>3 DEF Ended, Same
<1>4. ASSUME Parked(k, k1, p, id) PROVE Parked(k, k2, p, id)
  <2>1. Calm(k, k2, {p}, id)
    BY <1>1, <1>4, CalmTrans DEF Parked
  <2>2. Same(k1, k2, p)
    BY <1>2, <1>4 DEF Parked
  <2> QED
    BY <1>1, <1>4, <2>1, <2>2 DEF Parked, Same, SameSignals
<1>5. ASSUME Blocking(k, k1, p, id)
      PROVE  Blocking(k, k2, p, id) /\ k2.ret[p] = k1.ret[p]
             /\ k2.blocked_status[p] = k1.blocked_status[p]
  <2>1. Calm(k, k2, {p}, id)
    BY <1>1, <1>5, CalmTrans DEF Blocking
  <2>2. Same(k1, k2, p)
    BY <1>2, <1>5 DEF Blocking
  <2>3. WaitsFor(k, k2, p)
    BY <1>5, <2>2 DEF Blocking, WaitsFor, Same
  <2> QED
    BY <1>1, <1>5, <2>1, <2>2, <2>3 DEF Blocking, Same, SameSignals
<1> QED
  BY <1>3, <1>4, <1>5

\* Storing the result of the process that blocks completes the step.
LEMMA ResultStored ==
  ASSUME NEW k, NEW k1 \in KernelStates, NEW p \in Slots, NEW id, Blocking(k, k1, p, id),
         NEW value \in Int,
         value = IF k1.blocked_status[p] = "WAITING" THEN 0 ELSE SYSPID_DNE
  PROVE  Waits(k, SetRet(k1, p, value), p, id)
<1>0. PICK k2 : k2 = SetRet(k1, p, value)
  OBVIOUS
<1>1. Calm(k1, k2, {p}, id)
  BY <1>0, SetRetCalm
<1>2. Calm(k, k2, {p}, id)
  BY <1>1, CalmTrans DEF Blocking
<1>3. /\ k2.pid = k1.pid /\ k2.state = k1.state
      /\ k2.blocked_id = k1.blocked_id /\ k2.blocked_status = k1.blocked_status
      /\ k2.signals_pending = k1.signals_pending /\ k2.signals_enabled = k1.signals_enabled
      /\ k2.frames = k1.frames /\ k2.blocked_queue = k1.blocked_queue
      /\ k2.ret[p] = value
  BY <1>0 DEF SetRet, KernelStates
<1>4. WaitsFor(k, k2, p)
  BY <1>3 DEF Blocking, WaitsFor
<1> QED
  BY <1>0, <1>2, <1>3, <1>4 DEF Waits, Blocking, SameSignals

\* The pid of the process that makes the call.
CallerPid == IF proc = IDLE THEN -1 ELSE kern.pid[proc]

\* Every action of the dispatcher takes one of the steps above and resumes a process.
LEMMA StepKinds ==
  ASSUME Safe(kern), kern.halt = "no", Next
  PROVE  \E k1 \in KernelStates : kern' = Resume(k1) /\ Step(kern, k1, CallerPid)
<1> DEFINE id == CallerPid
           Goal == \E k1 \in KernelStates : kern' = Resume(k1) /\ Step(kern, k1, id)
<1> HIDE DEF id
<1> SUFFICES Goal
  BY DEF id
<1>0. kern \in KernelStates /\ TypeOK /\ proc = kern.process
  BY DEF Safe, TypeOK, proc
<1>1. ASSUME NEW k1 \in KernelStates, Continue(k1), k1.halt # "assert", Calm(kern, k1, {}, id)
      PROVE  Goal
  BY <1>1 DEF Continue, Step
<1>2. ASSUME NEW k, Good(k, {}), Switch(k)
      PROVE  \E k1 \in KernelStates : kern' = Resume(k1) /\ Switched(k, k1, id)
  <2>1. Switched(k, get_next_pcb(k), id) /\ kern' = Resume(get_next_pcb(k))
    BY <1>2, SwitchEffect DEF Switch, Continue
  <2> QED
    BY <2>1 DEF Switched
<1>3. ASSUME proc # IDLE
      PROVE  /\ proc \in Slots /\ Good(kern, {proc}) /\ proc \notin Elems(kern.blocked_queue)
             /\ kern.state[proc] = "RUNNING" /\ kern.blocked_status[proc] = "NONE"
             /\ id = kern.pid[proc]
  <2>1. {proc} \ {IDLE} = {proc}
    BY <1>3
  <2>2. /\ proc \in Slots /\ Good(kern, {proc})
        /\ kern.state[proc] = "RUNNING" /\ kern.blocked_status[proc] = "NONE"
    BY <1>0, <1>3, <2>1 DEF Safe, proc, KernelStates
  <2>3. proc \notin Elems(kern.blocked_queue)
    BY <2>2 DEF Good, Placed, Linked
  <2> QED
    BY <1>3, <2>2, <2>3 DEF id, CallerPid
<1>4. ASSUME NEW call, Request(call) PROVE proc # IDLE
  BY <1>4 DEF Request
<1>5. ASSUME proc # IDLE, NEW value \in Int
      PROVE  LET k1 == SetRet(kern, proc, value)
             IN  /\ k1 \in KernelStates /\ k1.halt = "no" /\ Calm(kern, k1, {}, id)
                 /\ Good(k1, {proc}) /\ k1.blocked_queue = kern.blocked_queue
                 /\ k1.blocked_status[proc] = "NONE" /\ k1.state = kern.state
                 /\ k1.pid = kern.pid
                 /\ Same([k1 EXCEPT !.ret = kern.ret], kern, proc)
  <2>1. PICK k1 : k1 = SetRet(kern, proc, value)
    OBVIOUS
  <2>2. k1 \in KernelStates
    BY <1>0, <1>3, <1>5, <2>1, SetRetType
  <2>3. Calm(kern, k1, {}, id)
    BY <1>0, <1>3, <1>5, <2>1, SetRetCalm
  <2>4. Good(k1, {proc})
    BY <1>3, <1>5, <2>1, SetRetGood DEF Kept
  <2>5. /\ k1.halt = "no" /\ k1.blocked_queue = kern.blocked_queue /\ k1.state = kern.state
        /\ k1.blocked_status = kern.blocked_status /\ k1.pid = kern.pid
        /\ Same([k1 EXCEPT !.ret = kern.ret], kern, proc)
    BY <1>0, <2>1 DEF SetRet, KernelStates, Same, SameSignals
  <2> QED
    BY <1>3, <1>5, <2>1, <2>2, <2>3, <2>4, <2>5
<1>6. ASSUME proc # IDLE, NEW value \in Int, Return(value) PROVE Goal
  <2>1. PICK k1 : k1 = SetRet(kern, proc, value)
    OBVIOUS
  <2>2. k1 \in KernelStates /\ k1.halt = "no" /\ Calm(kern, k1, {}, id)
    BY <1>5, <1>6, <2>1
  <2> QED
    BY <1>1, <1>6, <2>1, <2>2 DEF Return
<1>7. PidArgs \subseteq 0..PID_MAX /\ 0..PID_MAX \subseteq Int
  BY <1>0, PidArgsType, TableAssumption
<1>8. ASSUME NEW pid \in PidArgs
      PROVE  /\ pid_to_pcb(kern, pid) \in Slots \cup {NULL}
             /\ pid_to_pcb(kern, pid) # NULL => pid # 0 /\ kern.state[pid_to_pcb(kern, pid)] # "STOPPED"
  BY <1>0, <1>7, PidToPcbType DEF pid_to_pcb
<1>12. CASE Create
  <2>1. proc # IDLE
    BY <1>4, <1>12 DEF Create
  <2>2. CASE Return(CREATE_FAILURE)
    BY <1>6, <2>1, <2>2 DEF CREATE_FAILURE
  <2>3. ASSUME kern.stopped_queue # << >>, NEW table \in NewTables,
               Continue(SetRet(create(kern, table), proc, kern.pid[Head(kern.stopped_queue)]))
        PROVE  Goal
    <3>1. PICK k, v, k1 : /\ k = create(kern, table)
                          /\ v = kern.pid[Head(kern.stopped_queue)]
                          /\ k1 = SetRet(k, proc, v)
      OBVIOUS
    <3>2. PICK p \in Slots : Created(kern, k, p, id)
      BY <1>3, <2>1, <2>3, <3>1, CreateStarts
    <3>3. k \in KernelStates /\ Good(k, {proc}) /\ k.halt = "no"
      BY <1>3, <2>1, <2>3, <3>1, CreateGood DEF Good
    <3>4. v \in Int
      <4>1. Head(kern.stopped_queue) \in Slots
        BY <1>0, <2>3, PollProperties DEF KernelStates
      <4> QED
        BY <1>0, <3>1, <4>1 DEF KernelStates
    <3>5. proc \notin Elems(k.blocked_queue)
      BY <3>3 DEF Good, Placed, Linked
    <3>6. k1 \in KernelStates /\ Calm(k, k1, {p}, id)
      BY <1>3, <2>1, <3>1, <3>3, <3>4, <3>5, SetRetCalm, SetRetType
    <3>7. /\ k1.halt = k.halt /\ k1.pid = k.pid /\ k1.state = k.state
          /\ k1.signals_enabled = k.signals_enabled /\ k1.frames = k.frames
          /\ k1.blocked_queue = k.blocked_queue
      BY <3>1, <3>3 DEF SetRet, KernelStates
    <3>8. Calm(kern, k1, {p}, id)
      BY <3>2, <3>6, CalmTrans DEF Created
    <3>9. Created(kern, k1, p, id)
      BY <3>2, <3>7, <3>8 DEF Created
    <3>10. Step(kern, k1, id)
      BY <3>3, <3>7, <3>9 DEF Step
    <3> QED
      BY <2>3, <3>1, <3>6, <3>10 DEF Continue
  <2> QED
    BY <1>12, <2>2, <2>3 DEF Create
<1>13. CASE Yield
  <2>1. proc # IDLE
    BY <1>4, <1>13 DEF Yield
  <2>2. PICK v, k, k1 : /\ v \in Int /\ v = SYSCALL_YIELD /\ k = SetRet(kern, proc, v)
                        /\ k1 = add_pcb_to_ready_queue(k, proc)
    BY DEF SYSCALL_YIELD
  <2>3. k \in KernelStates /\ Good(k, {proc}) /\ k.halt = "no" /\ Calm(kern, k, {}, id)
        /\ k.state[proc] = "RUNNING"
    <3>1. k = SetRet(kern, proc, v) /\ v \in Int
      BY <2>2
    <3> QED
      BY <1>3, <1>5, <2>1, <3>1
  <2>4. Good(k1, {}) /\ k1.halt = "no"
    <3>1. {proc} \ {proc} = {} /\ proc \in {proc}
      OBVIOUS
    <3>2. Good(k, {proc}) /\ k.halt = "no"
      BY <2>3
    <3>3. /\ Good(add_pcb_to_ready_queue(k, proc), {proc} \ {proc})
          /\ add_pcb_to_ready_queue(k, proc).halt = "no"
      BY <3>1, <3>2, AddReady
    <3> QED
      BY <2>2, <3>1, <3>3
  <2>5. Calm(k, k1, {}, id)
    BY <1>3, <2>1, <2>2, <2>3, AddReadyCalm DEF Good, Placed, InWait
  <2>6. PICK k2 \in KernelStates : kern' = Resume(k2) /\ Switched(k1, k2, id)
    BY <1>2, <1>13, <2>2, <2>4 DEF Yield
  <2>7. Calm(kern, k2, {}, id) /\ k2.halt = "no"
    BY <2>3, <2>4, <2>5, <2>6, CalmTrans DEF Switched
  <2> QED
    BY <2>6, <2>7 DEF Step
<1>14. ASSUME proc # IDLE, NEW value \in Int, Switch(cleanup_pcb(SetRet(kern, proc, value), proc))
       PROVE  Goal
  <2>1. PICK k, k1 : k = SetRet(kern, proc, value) /\ k1 = cleanup_pcb(k, proc)
    OBVIOUS
  <2>2. /\ Good(k, {proc}) /\ k.halt = "no" /\ k.blocked_status[proc] = "NONE"
        /\ Calm(kern, k, {}, id) /\ k.pid = kern.pid
    BY <1>5, <1>14, <2>1
  <2>3. Good(k1, {}) /\ k1.halt = "no"
    <3>1. {proc} \ {proc} = {} /\ proc \in {proc}
      OBVIOUS
    <3> QED
      BY <2>1, <2>2, <3>1, CleanupGood
  <2>4. Ended(k, k1, proc)
    BY <2>1, <2>2, CleanupEnds
  <2>5. Ended(kern, k1, proc)
    <3>1. id = k.pid[proc] /\ Calm(k, k1, {proc}, id) /\ Calm(kern, k, {proc}, id)
      BY <1>3, <1>14, <2>2, <2>4, CalmMono DEF Ended
    <3>2. Calm(kern, k1, {proc}, id)
      BY <3>1, CalmTrans
    <3> QED
      BY <2>2, <2>4, <3>1, <3>2 DEF Ended
  <2>6. PICK k2 \in KernelStates : kern' = Resume(k2) /\ Switched(k1, k2, id)
    BY <1>2, <1>14, <2>1, <2>3
  <2>7. Ended(kern, k2, proc) /\ k2.halt = "no"
    BY <1>3, <1>14, <2>3, <2>5, <2>6, SwitchedKeeps DEF Switched
  <2> QED
    BY <1>0, <1>3, <1>14, <2>6, <2>7 DEF Step
<1>15. CASE Stop
  <2>1. proc # IDLE
    BY <1>4, <1>15 DEF Stop, InSysstop
  <2> QED
    BY <1>14, <1>15, <2>1 DEF Stop, SYSCALL_STOP
<1>16. CASE GetPid
  <2>1. proc # IDLE /\ Return(kern.pid[proc])
    BY <1>4, <1>16 DEF GetPid
  <2>2. kern.pid[proc] \in Int
    BY <1>0, <1>3, <1>7, <2>1, PidType
  <2> QED
    BY <1>6, <2>1, <2>2
<1>17. CASE Puts
  BY <1>4, <1>6, <1>17 DEF Puts
<1>18. CASE Kill
  <2>1. proc # IDLE
    BY <1>4, <1>18 DEF Kill
  <2>2. SYSKILL_TARGET_DNE \in Int /\ SYSKILL_SIG_INVALID \in Int
    BY DEF SYSKILL_TARGET_DNE, SYSKILL_SIG_INVALID
  <2>3. ASSUME NEW target \in Slots, NEW g \in Signals,
               Continue(SetRet(set_pcb_signal(kern, target, g), proc, 0))
        PROVE  Goal
    <3>1. PICK k, k1 : k = set_pcb_signal(kern, target, g) /\ k1 = SetRet(k, proc, 0)
      OBVIOUS
    <3>0. k \in KernelStates /\ k1 \in KernelStates /\ kern' = Resume(k1)
      BY <1>0, <1>3, <2>1, <2>3, <3>1, SetSignalType, SetRetType DEF Continue
    <3>2. \/ k = kern
          \/ /\ kern.state[target] = "BLOCKED" /\ kern.blocked_status[target] = "DEVICE"
             /\ k = [kern EXCEPT !.signals_pending[target] = @ \cup {g}, !.halt = "assert"]
          \/ Signalled(kern, k, target, g, id) /\ k.halt = kern.halt
      <4>0. PICK H : H = {proc}
        OBVIOUS
      <4>1. Good(kern, H) /\ (target \in H => kern.state[target] # "BLOCKED")
        BY <1>3, <2>1, <4>0
      <4>2. k = set_pcb_signal(kern, target, g)
        BY <3>1
      <4> QED
        BY <4>1, <4>2, SetSignalSignals
    <3>3. CASE k = kern
      <4>1. k1.halt = "no" /\ Calm(kern, k1, {}, id)
        <5>1. PICK v \in Int : v = 0
          OBVIOUS
        <5>2. k1 = SetRet(kern, proc, v)
          BY <3>1, <3>3, <5>1
        <5> QED
          BY <1>5, <2>1, <5>2
      <4> QED
        BY <3>0, <4>1 DEF Step
    <3>4. CASE /\ kern.state[target] = "BLOCKED" /\ kern.blocked_status[target] = "DEVICE"
               /\ k = [kern EXCEPT !.signals_pending[target] = @ \cup {g}, !.halt = "assert"]
      <4>1. k1 = [kern EXCEPT !.signals_pending[target] = @ \cup {g}, !.ret[kern.process] = 0,
                              !.halt = "assert"]
        BY <1>0, <3>1, <3>4 DEF SetRet, KernelStates
      <4>2. k1.halt = "assert" /\ k1.pid = kern.pid /\ k1.state = kern.state
        BY <1>0, <4>1 DEF KernelStates
      <4>3. target \in OnDevice(kern)
        BY <3>4 DEF OnDevice
      <4>4. Broken(kern, k1, id)
        BY <4>1, <4>2, <4>3 DEF Broken, InWait
      <4> QED
        BY <3>0, <4>4 DEF Step
    <3>5. CASE Signalled(kern, k, target, g, id) /\ k.halt = kern.halt
      <4>1. /\ k1.halt = k.halt /\ k1.pid = k.pid /\ k1.state = k.state
            /\ k1.signals_pending = k.signals_pending
            /\ k1.signals_enabled = k.signals_enabled /\ k1.frames = k.frames
            /\ k1.blocked_queue = k.blocked_queue
        BY <3>0, <3>1 DEF SetRet, KernelStates
      <4>2. proc \notin Elems(k.blocked_queue)
        BY <1>3, <2>1, <3>5 DEF Signalled, Calm
      <4>3. Calm(k, k1, {target}, id)
        BY <1>3, <2>1, <3>0, <3>1, <4>2, SetRetCalm
      <4>4. Calm(kern, k1, {target}, id)
        BY <3>5, <4>3, CalmTrans DEF Signalled
      <4>5. Signalled(kern, k1, target, g, id)
        BY <3>5, <4>1, <4>4 DEF Signalled
      <4>6. k1.process = kern.process
        <5>1. k.process = kern.process
          BY <1>3, <2>1, <3>1, <3>5, SetSignalGood DEF Kept
        <5> QED
          BY <3>0, <3>1, <5>1 DEF SetRet, KernelStates
      <4> QED
        BY <3>0, <3>5, <4>1, <4>5, <4>6 DEF Step
    <3> QED
      BY <3>2, <3>3, <3>4, <3>5
  <2> QED
    BY <1>6, <1>8, <1>18, <2>1, <2>2, <2>3 DEF Kill
<1>19. CASE Wait
  <2>1. proc # IDLE /\ proc \in Slots
    BY <1>3, <1>4, <1>19 DEF Wait
  <2>2. ASSUME NEW who \in PidArgs, pid_to_pcb(kern, who) # NULL,
               Switch(SetRet(Block(kern, proc, "WAITING", who), proc, 0))
        PROVE  Goal
    <3>1. PICK status, v, H, k, k1 :
            /\ status = "WAITING" /\ v = 0 /\ H = {proc}
            /\ k = Block(kern, proc, status, who) /\ k1 = SetRet(k, proc, v)
      OBVIOUS
    <3>2. /\ status \in BlockedStatuses /\ status \in {"SEND", "RECEIVE", "WAITING"}
          /\ v \in Int /\ who \in 0..PID_MAX /\ who # 0
          /\ k = Block(kern, proc, status, who) /\ k1 = SetRet(k, proc, v)
      BY <1>7, <1>8, <2>2, <3>1 DEF BlockedStatuses
    <3>3. kern \in KernelStates /\ ~Linked(kern, proc) /\ Good(kern, H) /\ proc \in H
      BY <1>0, <1>3, <2>1, <3>1 DEF Good, Placed
    <3>4. BlockedAs(kern, k, proc, status, who, id)
      BY <2>1, <3>2, <3>3, BlockCalm
    <3>5. Good(k, H \ {proc}) /\ k.halt = "no"
      <4>1. ~AnyReceive => who # 0
        BY <3>2
      <4>2. status \in {"SEND", "RECEIVE", "WAITING"} /\ who \in 0..PID_MAX
        BY <3>2
      <4>3. k = Block(kern, proc, status, who)
        BY <3>2
      <4> QED
        BY <3>3, <4>1, <4>2, <4>3, BlockGood, ZenonT(40)
    <3>6. Good(k, {}) /\ k \in KernelStates
      <4>1. H \ {proc} = {}
        BY <3>1
      <4> QED
        BY <3>5, <4>1 DEF Good
    <3>7. Blocking(kern, k, proc, id)
      <4>1. StalePids \/ \E q \in Slots : who = kern.pid[q]
        BY <3>2 DEF PidArgs
      <4> QED
        BY <2>2, <3>1, <3>4, <4>1 DEF Blocking, BlockedAs, WaitsFor
    <3>8. Waits(kern, k1, proc, id)
      <4>1. v = IF k.blocked_status[proc] = "WAITING" THEN 0 ELSE SYSPID_DNE
        BY <3>1, <3>4 DEF BlockedAs
      <4> QED
        BY <2>1, <3>2, <3>6, <3>7, <4>1, ResultStored
    <3>9. Good(k1, {}) /\ k1.halt = "no"
      BY <2>1, <3>2, <3>5, <3>6, SetRetGood DEF Kept
    <3>10. PICK k2 \in KernelStates : kern' = Resume(k2) /\ Switched(k1, k2, id)
      BY <1>2, <2>2, <3>1, <3>9
    <3>11. Waits(kern, k2, proc, id) /\ k2.halt = "no"
      BY <2>1, <3>8, <3>9, <3>10, SwitchedKeeps DEF Waits, Switched
    <3> QED
      BY <1>0, <2>1, <3>10, <3>11 DEF Step
  <2> QED
    BY <1>6, <1>19, <2>1, <2>2 DEF Wait, SYSPID_DNE
<1>20. ASSUME proc # IDLE, NEW r \in Results, Meeting(kern, r, proc), Transfer(r)
       PROVE  Goal
  <2>1. proc \in Slots /\ id = kern.pid[proc] /\ r.kern \in KernelStates /\ r.ret \in Int
    BY <1>3, <1>20 DEF Results
  <2>2. CASE r.blocked
    <3>1. PICK k, k1, k2, v : /\ k = r.kern /\ k1 = get_next_pcb(k) /\ v = r.ret
                              /\ k2 = SetRet(k1, proc, v)
      OBVIOUS
    <3>2. /\ Good(k, {}) /\ k.halt \in {"no", "corrupt"} /\ Blocking(kern, k, proc, id)
          /\ v = SYSPID_DNE /\ v \in Int
      BY <1>20, <2>1, <2>2, <3>1 DEF Meeting
    <3>3. k.blocked_status[proc] # "WAITING"
      BY <1>20, <2>2, <3>1, <3>2 DEF Meeting
    <3>4. Switched(k, k1, id)
      BY <3>1, <3>2, SwitchEffect
    <3>5. k1 \in KernelStates /\ k1.halt = k.halt /\ Blocking(kern, k1, proc, id)
          /\ k1.blocked_status[proc] # "WAITING"
      BY <2>1, <3>2, <3>3, <3>4, SwitchedKeeps DEF Switched
    <3>6. Waits(kern, k2, proc, id)
      BY <2>1, <3>1, <3>2, <3>5, ResultStored
    <3>7. k2 \in KernelStates /\ k2.halt = k1.halt
      BY <2>1, <3>1, <3>2, <3>5, SetRetType, ZenonT(40) DEF SetRet, KernelStates
    <3>8. kern' = Resume(k2)
      BY <1>20, <2>2, <3>1 DEF Transfer, Continue
    <3> QED
      BY <1>0, <2>1, <3>2, <3>5, <3>6, <3>7, <3>8 DEF Step
  <2>3. CASE ~r.blocked
    <3>1. PICK k, v, k1 : k = r.kern /\ v = r.ret /\ k1 = SetRet(k, proc, v)
      OBVIOUS
    <3>2. Calm(kern, k, {}, id) /\ k.halt \in {"no", "wild"}
      BY <1>20, <2>1, <2>3, <3>1 DEF Meeting
    <3>3. proc \notin Elems(k.blocked_queue)
      BY <1>3, <1>20, <3>2 DEF Calm
    <3>4. k1 \in KernelStates /\ Calm(k, k1, {}, id)
      BY <2>1, <3>1, <3>3, SetRetCalm, SetRetType
    <3>5. k1.halt = k.halt
      BY <2>1, <3>1 DEF SetRet, KernelStates
    <3>6. Calm(kern, k1, {}, id)
      BY <3>2, <3>4, CalmTrans
    <3>7. Continue(k1)
      BY <1>20, <2>3, <3>1 DEF Transfer
    <3> QED
      BY <1>1, <3>2, <3>4, <3>5, <3>6, <3>7
  <2> QED
    BY <2>2, <2>3
<1>21. CASE Send
  <2>1. proc # IDLE /\ proc \in Slots
    BY <1>3, <1>4, <1>21 DEF Send
  <2>2. SYSPID_DNE \in Int /\ SYSPID_SELF \in Int /\ SYSERR_OTHER \in Int
    BY DEF SYSPID_DNE, SYSPID_SELF, SYSERR_OTHER
  <2>3. ASSUME NEW dest \in Slots, NEW junk \in Junk, kern.state[dest] # "STOPPED",
               Transfer(send(kern, proc, dest, junk))
        PROVE  Goal
    <3>1. send(kern, proc, dest, junk) \in Results
      BY <1>0, <2>1, SendType
    <3>2. Meeting(kern, send(kern, proc, dest, junk), proc)
      BY <1>3, <2>1, <2>3, SendMeets
    <3> QED
      BY <1>20, <2>1, <2>3, <3>1, <3>2
  <2> QED
    BY <1>6, <1>8, <1>21, <2>1, <2>2, <2>3 DEF Send
<1>22. CASE Recv
  <2>1. proc # IDLE /\ proc \in Slots
    BY <1>3, <1>4, <1>22 DEF Recv
  <2>2. SYSPID_DNE \in Int /\ SYSPID_SELF \in Int /\ SYSERR_OTHER \in Int
    BY DEF SYSPID_DNE, SYSPID_SELF, SYSERR_OTHER
  <2>3. ASSUME NEW from \in Slots \cup {NULL}, NEW junk \in Junk,
               from # NULL => kern.state[from] # "STOPPED",
               from = NULL => AnyReceive, Transfer(recv(kern, from, proc, junk))
        PROVE  Goal
    <3>1. recv(kern, from, proc, junk) \in Results
      BY <1>0, <2>1, RecvType
    <3>2. Meeting(kern, recv(kern, from, proc, junk), proc)
      BY <1>3, <2>1, <2>3, RecvMeets
    <3> QED
      BY <1>20, <2>1, <2>3, <3>1, <3>2
  <2> QED
    BY <1>6, <1>8, <1>22, <2>1, <2>2, <2>3 DEF Recv
<1>23. CASE Sleep
  <2>1. proc # IDLE /\ proc \in Slots
    BY <1>3, <1>4, <1>23 DEF Sleep
  <2>2. PICK ms \in SleepMs : Switch(sleep(kern, proc, ms))
    BY <1>23 DEF Sleep
  <2>3. PICK ticks \in Int : ticks = Ticks(ms)
    BY WorkloadAssumption DEF Ticks, MS_PER_CLOCK_TICK
  <2>4. PICK H, k : H = {proc} /\ k = add_pcb_to_sleep_queue(kern, proc, ticks)
    OBVIOUS
  <2>5. Good(kern, H) /\ proc \in H /\ k = add_pcb_to_sleep_queue(kern, proc, ticks)
    BY <1>3, <2>1, <2>4
  <2>6. Good(k, H \ {proc}) /\ k.halt = "no"
    BY <2>5, SleepGood
  <2>7. Good(k, {})
    <3>1. H \ {proc} = {}
      BY <2>4
    <3> QED
      BY <2>6, <3>1
  <2>8. Parked(kern, k, proc, id)
    BY <1>3, <2>1, <2>5, SleepParks
  <2>9. PICK k2 \in KernelStates : kern' = Resume(k2) /\ Switched(k, k2, id)
    BY <1>2, <2>2, <2>3, <2>4, <2>7 DEF sleep
  <2>10. Parked(kern, k2, proc, id) /\ k2.halt = "no"
    BY <2>1, <2>6, <2>8, <2>9, SwitchedKeeps DEF Switched
  <2> QED
    BY <1>0, <2>1, <2>9, <2>10 DEF Step
<1>24. CASE CpuTimes
  <2>1. proc # IDLE
    BY <1>4, <1>24 DEF CpuTimes
  <2>2. fill_processStatus(kern) \in Int
    BY <1>0, StatusType
  <2> QED
    BY <1>6, <1>24, <2>1, <2>2 DEF CpuTimes
<1>25. CASE SigHandler
  <2>1. proc # IDLE /\ proc \in Slots
    BY <1>3, <1>4, <1>25 DEF SigHandler
  <2>2. INVALID_SIGNAL \in Int /\ SYSHANDLER_INVALID \in Int /\ SYSERR_OTHER \in Int
    BY DEF INVALID_SIGNAL, SYSHANDLER_INVALID, SYSERR_OTHER
  <2>3. ASSUME NEW g \in Signals, NEW new \in {"NULL", "handler"},
               Continue(SetRet([kern EXCEPT !.signal_table[proc][g] = new], proc, 0))
        PROVE  Goal
    <3>1. PICK v, k, k1 : /\ v = 0 /\ k = [kern EXCEPT !.signal_table[proc][g] = new]
                          /\ k1 = SetRet(k, proc, v)
      OBVIOUS
    <3>2. new \in Handlers /\ v \in Int
      BY <3>1 DEF Handlers
    <3>3. /\ k \in KernelStates
          /\ k.pid = kern.pid /\ k.ret = kern.ret /\ k.blocked_queue = kern.blocked_queue
          /\ k.state = kern.state /\ k.blocked_status = kern.blocked_status
          /\ k.blocked_id = kern.blocked_id /\ k.signals_pending = kern.signals_pending
          /\ k.signals_enabled = kern.signals_enabled /\ k.frames = kern.frames
          /\ k.halt = kern.halt
      BY <1>0, <2>1, <3>1, <3>2 DEF KernelStates
    <3>4. Calm(kern, k, {}, id)
      BY <3>3 DEF Calm, SameSignals, InWait
    <3>5. proc \notin Elems(k.blocked_queue)
      BY <1>3, <2>1, <3>3
    <3>6. k1 \in KernelStates /\ Calm(k, k1, {}, id)
      BY <2>1, <3>1, <3>2, <3>3, <3>5, SetRetCalm, SetRetType
    <3>7. k1.halt = "no"
      BY <3>1, <3>3 DEF SetRet, KernelStates
    <3>8. Calm(kern, k1, {}, id)
      BY <3>4, <3>6, CalmTrans
    <3> QED
      BY <1>1, <2>3, <3>1, <3>6, <3>7, <3>8
  <2> QED
    BY <1>6, <1>25, <2>1, <2>2, <2>3 DEF SigHandler
<1>26. CASE SigReturn
  <2>1. proc # IDLE /\ proc \in Slots /\ kern.frames[proc] # << >>
    BY <1>3, <1>4, <1>26 DEF SigReturn
  <2>2. PICK f, enabled, v, k0, k1, k2 :
          /\ f = kern.frames[proc]
          /\ enabled = kern.signals_enabled[proc]
          /\ v = f[Len(f)].ret
          /\ k0 = SetRet(kern, proc, v)
          /\ k1 = [k0 EXCEPT !.frames[proc] = SubSeq(@, 1, Len(@) - 1)]
          /\ k2 = [k1 EXCEPT !.signals_enabled[proc] = @ \ {Highest(enabled)}]
    OBVIOUS
  <2>3. \/ Switch(cleanup_pcb(SetRet(kern, proc, SYSCALL_SIGRETURN), proc))
        \/ kern' = [k1 EXCEPT !.halt = "spin"]
        \/ enabled # {} /\ Continue(k2)
    BY <1>26, <2>2 DEF SigReturn
  <2>4. f \in Seq(Frames) /\ Len(f) \in Nat \ {0} /\ \A i \in 1..Len(f) : f[i] \in Frames
    <3>1. f \in Seq(Frames) /\ f # << >>
      BY <1>0, <2>1, <2>2 DEF KernelStates
    <3> QED
      BY <3>1, EmptySeq, ElemsProperties
  <2>5. v \in Int
    <3>1. Len(f) \in 1..Len(f)
      BY <2>4
    <3>2. f[Len(f)] \in Frames
      BY <2>4, <3>1
    <3> QED
      BY <2>2, <3>2 DEF Frames
  <2>6. SubSeq(f, 1, Len(f) - 1) \in Seq(Frames)
    <3>1. 1 \in 1..(Len(f) + 1) /\ Len(f) - 1 \in 0..Len(f)
      BY <2>4
    <3> QED
      BY <2>4, <3>1, PartProperties
  <2>7. k0 \in KernelStates /\ k0.halt = "no" /\ Calm(kern, k0, {}, id)
        /\ Same([k0 EXCEPT !.ret = kern.ret], kern, proc) /\ k0.blocked_queue = kern.blocked_queue
        /\ k0.pid = kern.pid /\ k0.state = kern.state
    <3>1. k0 = SetRet(kern, proc, v)
      BY <2>2
    <3> QED
      BY <1>5, <2>1, <2>5, <3>1
  <2>8. /\ k0.frames[proc] = f /\ k0.signals_enabled[proc] = enabled
        /\ k0.signals_pending[proc] = kern.signals_pending[proc]
    BY <2>2, <2>7 DEF Same, SameSignals, KernelStates
  <2>9. PICK fs : fs = [k0.frames EXCEPT ![proc] = SubSeq(f, 1, Len(f) - 1)]
    OBVIOUS
  <2>10. fs \in [Slots -> Seq(Frames)] /\ k0.frames \in [Slots -> Seq(Frames)]
    BY <2>1, <2>6, <2>7, <2>9 DEF KernelStates
  <2>11. k1 = [k0 EXCEPT !.frames = fs]
    BY <2>2, <2>7, <2>8, <2>9 DEF KernelStates
  <2>12. /\ k1 \in KernelStates
         /\ k1.pid = k0.pid /\ k1.ret = k0.ret /\ k1.blocked_queue = k0.blocked_queue
         /\ k1.state = k0.state /\ k1.blocked_status = k0.blocked_status
         /\ k1.blocked_id = k0.blocked_id /\ k1.signals_pending = k0.signals_pending
         /\ k1.signals_enabled = k0.signals_enabled /\ k1.frames = fs
         /\ k1.halt = k0.halt
    BY <2>7, <2>10, <2>11 DEF KernelStates
  <2>13. \A s \in Slots : fs[s] = IF s = proc THEN SubSeq(f, 1, Len(f) - 1) ELSE k0.frames[s]
    BY <2>9, <2>10
  <2>14. CASE kern' = [k1 EXCEPT !.halt = "spin"]
    <3>1. kern' \in KernelStates /\ kern'.halt = "spin" /\ kern'.pid = kern.pid
          /\ kern'.state = kern.state
      BY <2>7, <2>12, <2>14 DEF KernelStates, Halts
    <3>2. kern' = Resume(kern')
      BY <3>1 DEF Resume
    <3>3. Broken(kern, kern', id)
      BY <3>1 DEF Broken, InWait
    <3> QED
      BY <3>1, <3>2, <3>3 DEF Step
  <2>15. CASE enabled # {} /\ Continue(k2)
    <3>1. PICK es : es = [k1.signals_enabled EXCEPT ![proc] = @ \ {Highest(enabled)}]
      OBVIOUS
    <3>2. es \in [Slots -> SUBSET Signals] /\ k1.signals_enabled \in [Slots -> SUBSET Signals]
      BY <2>1, <2>12, <3>1 DEF KernelStates
    <3>3. k2 = [k1 EXCEPT !.signals_enabled = es]
      BY <2>2, <2>12, <3>1 DEF KernelStates
    <3>4. /\ k2 \in KernelStates
          /\ k2.pid = k1.pid /\ k2.ret = k1.ret /\ k2.blocked_queue = k1.blocked_queue
          /\ k2.state = k1.state /\ k2.blocked_status = k1.blocked_status
          /\ k2.blocked_id = k1.blocked_id /\ k2.signals_pending = k1.signals_pending
          /\ k2.signals_enabled = es /\ k2.frames = k1.frames
          /\ k2.halt = k1.halt
      BY <2>12, <3>2, <3>3 DEF KernelStates
    <3>5. \A s \in Slots : es[s] = IF s = proc THEN enabled \ {Highest(enabled)}
                                   ELSE k1.signals_enabled[s]
      BY <2>8, <2>12, <3>1, <3>2
    <3>6. Calm(k0, k2, {proc}, id)
      BY <2>12, <2>13, <3>4, <3>5 DEF Calm, SameSignals, InWait
    <3>7. Calm(kern, k2, {proc}, id)
      BY <2>7, <3>6, CalmMono, CalmTrans
    <3>8. /\ k2.signals_pending[proc] = kern.signals_pending[proc]
          /\ k2.frames[proc] = SubSeq(f, 1, Len(f) - 1)
          /\ k2.signals_enabled[proc] = enabled \ {Highest(enabled)}
          /\ k2.pid[proc] = kern.pid[proc] /\ k2.state[proc] = "RUNNING"
          /\ proc \notin Elems(k2.blocked_queue)
      BY <1>3, <2>1, <2>7, <2>8, <2>12, <2>13, <3>4, <3>5
    <3>9. Returned(kern, k2, proc, id)
      BY <1>3, <2>1, <2>2, <2>15, <3>7, <3>8 DEF Returned
    <3>10. kern' = Resume(k2) /\ k2.halt = "no"
      BY <2>7, <2>12, <2>15, <3>4 DEF Continue
    <3> QED
      BY <1>0, <2>1, <3>4, <3>9, <3>10 DEF Step
  <2> QED
    BY <1>14, <2>1, <2>3, <2>14, <2>15 DEF SYSCALL_SIGRETURN
<1>27. CASE DeviceCall
  <2>1. proc # IDLE
    BY <1>4, <1>27 DEF DeviceCall
  <2> QED
    BY <1>6, <1>27, <2>1 DEF DeviceCall, SYSERR
<1>28. ASSUME kern' = [kern EXCEPT !.halt = "assert"] PROVE Goal
  <2>1. /\ kern' \in KernelStates /\ kern'.halt = "assert" /\ kern'.pid = kern.pid
        /\ kern'.state = kern.state
    BY <1>0, <1>28 DEF KernelStates, Halts
  <2>2. kern' = Resume(kern')
    BY <2>1 DEF Resume
  <2>3. Broken(kern, kern', id)
    BY <1>28, <2>1 DEF Broken, InWait
  <2> QED
    BY <2>1, <2>2, <2>3 DEF Step
<1>29. CASE Write
  <2>1. proc # IDLE
    BY <1>4, <1>29 DEF Write
  <2> QED
    BY <1>6, <1>28, <1>29, <2>1 DEF Write, SYSERR
<1>30. CASE Read
  <2>1. proc # IDLE /\ proc \in Slots
    BY <1>3, <1>4, <1>30 DEF Read
  <2>2. PICK k : k = [kern EXCEPT !.state[proc] = "BLOCKED",
                                  !.blocked_status[proc] = "DEVICE",
                                  !.ret[proc] = BLOCKERR]
    OBVIOUS
  <2>3. Good(k, {}) /\ k.halt = "no"
    BY <1>3, <2>1, <2>2, ReadGood
  <2>4. Parked(kern, k, proc, id)
    BY <1>3, <2>1, <2>2, ReadParks
  <2>5. ASSUME Switch(k) PROVE Goal
    <3>1. PICK k2 \in KernelStates : kern' = Resume(k2) /\ Switched(k, k2, id)
      BY <1>2, <2>3, <2>5
    <3>2. Parked(kern, k2, proc, id) /\ k2.halt = "no"
      BY <2>1, <2>3, <2>4, <3>1, SwitchedKeeps DEF Switched
    <3> QED
      BY <1>0, <2>1, <3>1, <3>2 DEF Step
  <2>6. \/ \E result \in {SYSERR, 0, 1} : Return(result)
        \/ Switch(k)
        \/ kern' = [kern EXCEPT !.halt = "assert"]
    BY <1>30, <2>2 DEF Read
  <2>7. {SYSERR, 0, 1} \subseteq Int
    BY DEF SYSERR
  <2> QED
    BY <1>6, <1>28, <2>1, <2>5, <2>6, <2>7
<1>31. PICK kI, HI : kI = Interrupted /\ HI = {proc} \ {IDLE}
  OBVIOUS
<1>32. /\ kI \in KernelStates /\ Good(kI, HI) /\ kI.halt = "no"
       /\ Calm(kern, kI, {}, id) /\ OnDevice(kI) = OnDevice(kern)
       /\ proc # IDLE => kI.state[proc] = "RUNNING" /\ Good(kI, {proc})
  <2>1. CASE proc = IDLE
    <3>1. kI = kern /\ Good(kern, HI)
      BY <1>0, <1>31, <2>1 DEF Interrupted, Safe
    <3>2. Calm(kern, kern, {}, id)
      BY DEF Calm, SameSignals, InWait
    <3> QED
      BY <1>0, <2>1, <3>1, <3>2
  <2>2. CASE proc # IDLE
    <3>1. PICK v \in Int : v = USER_EAX
      BY DEF USER_EAX
    <3>2. kI = SetRet(kern, proc, v) /\ HI = {proc}
      BY <1>31, <2>2, <3>1 DEF Interrupted
    <3>3. /\ kI \in KernelStates /\ kI.halt = "no" /\ Calm(kern, kI, {}, id)
          /\ Good(kI, {proc}) /\ kI.state = kern.state
      BY <1>5, <2>2, <3>2
    <3>4. kI.blocked_status = kern.blocked_status
      BY <1>0, <3>2 DEF SetRet, KernelStates
    <3>5. OnDevice(kI) = OnDevice(kern)
      BY <3>3, <3>4 DEF OnDevice
    <3> QED
      BY <1>3, <2>2, <3>2, <3>3, <3>5
  <2> QED
    BY <2>1, <2>2
<1>33. CASE KeyboardInt
  <2>1. PICK done \in SUBSET OnDevice(kern), count \in {0, 1} :
          Continue([kI EXCEPT
            !.ready_queue = @ \o Keep(TaskOrder, done),
            !.state = [s \in Slots |-> IF s \in done THEN "READY" ELSE @[s]],
            !.blocked_status = [s \in Slots |-> IF s \in done THEN "NONE" ELSE @[s]],
            !.ret = [s \in Slots |-> IF s \in done THEN count ELSE @[s]]])
    BY <1>31, <1>33 DEF KeyboardInt
  <2>2. done \in SUBSET OnDevice(kI) /\ kI.ret \in [Slots -> Int]
    BY <1>32 DEF KernelStates
  <2>3. PICK rq, re, k1 :
          /\ rq = kI.ready_queue \o Keep(TaskOrder, done)
          /\ re = [s \in Slots |-> IF s \in done THEN count ELSE kI.ret[s]]
          /\ k1 = [kI EXCEPT
                    !.ready_queue = rq,
                    !.state = [s \in Slots |-> IF s \in done THEN "READY" ELSE kI.state[s]],
                    !.blocked_status = [s \in Slots |->
                                          IF s \in done THEN "NONE" ELSE kI.blocked_status[s]],
                    !.ret = re]
    OBVIOUS
  <2>4. Continue(k1)
    BY <1>32, <2>1, <2>3 DEF KernelStates
  <2>5. re \in [Slots -> Int] /\ \A s \in Slots \ done : re[s] = kI.ret[s]
    BY <2>2, <2>3
  <2>6. Calm(kI, k1, {}, id)
    <3>1. k1 = [kI EXCEPT
                  !.ready_queue = rq,
                  !.state = [s \in Slots |-> IF s \in done THEN "READY" ELSE kI.state[s]],
                  !.blocked_status = [s \in Slots |->
                                        IF s \in done THEN "NONE" ELSE kI.blocked_status[s]],
                  !.ret = re]
      BY <2>3
    <3>2. \A s \in Slots \ done : re[s] = kI.ret[s]
      BY <2>5
    <3> QED
      BY <1>32, <2>2, <3>1, <3>2, KeyboardCalm
  <2>7. Kept(kI, k1, HI)
    <3>1. \A s \in HI : kI.state[s] # "BLOCKED"
      BY <1>31, <1>32
    <3>2. k1 = [kI EXCEPT
                  !.ready_queue = kI.ready_queue \o Keep(TaskOrder, done),
                  !.state = [s \in Slots |-> IF s \in done THEN "READY" ELSE kI.state[s]],
                  !.blocked_status = [s \in Slots |->
                                        IF s \in done THEN "NONE" ELSE kI.blocked_status[s]],
                  !.ret = re]
      BY <2>3
    <3> QED
      BY <1>32, <2>2, <2>5, <3>1, <3>2, KeyboardGood
  <2>8. k1 \in KernelStates /\ k1.halt = "no"
    BY <1>32, <2>7 DEF Kept, Good
  <2>9. Calm(kern, k1, {}, id)
    BY <1>32, <2>6, CalmTrans
  <2> QED
    BY <1>1, <2>4, <2>8, <2>9
<1>34. CASE TimerInt
  <2>0. PICK k1 : k1 = tick(kI)
    OBVIOUS
  <2>1. Switch(IF proc = IDLE THEN k1 ELSE add_pcb_to_ready_queue(k1, proc))
    BY <1>31, <1>34, <2>0 DEF TimerInt
  <2>2. Good(k1, HI) /\ k1.halt = "no" /\ Held(kI, k1, HI)
    BY <1>32, <2>0, TickGood
  <2>3. Calm(kI, k1, {}, id)
    BY <1>32, <2>0, TickCalm
  <2>4. ASSUME NEW k, Good(k, {}), k.halt = "no", Calm(k1, k, {}, id), Switch(k) PROVE Goal
    <3>1. PICK k2 \in KernelStates : kern' = Resume(k2) /\ Switched(k, k2, id)
      BY <1>2, <2>4
    <3>2. Calm(kern, k2, {}, id) /\ k2.halt = "no"
      BY <1>32, <2>3, <2>4, <3>1, CalmTrans DEF Switched
    <3> QED
      BY <3>1, <3>2 DEF Step
  <2>5. CASE proc = IDLE
    <3>1. HI = {} /\ Calm(k1, k1, {}, id)
      BY <1>31, <2>5 DEF Calm, SameSignals, InWait
    <3> QED
      BY <2>1, <2>2, <2>4, <2>5, <3>1
  <2>6. CASE proc # IDLE
    <3>1. {proc} \ {proc} = {} /\ proc \in {proc} /\ HI = {proc}
      BY <1>31, <2>6
    <3>2. Good(k1, {proc}) /\ k1.halt = "no"
      BY <2>2, <3>1
    <3>3. /\ Good(add_pcb_to_ready_queue(k1, proc), {proc} \ {proc})
          /\ add_pcb_to_ready_queue(k1, proc).halt = "no"
      BY <3>1, <3>2, AddReady
    <3>4. k1.state[proc] = "RUNNING" /\ k1 \in KernelStates /\ ~Linked(k1, proc) /\ proc \in Slots
      BY <1>32, <2>2, <2>6, <3>1, <3>2 DEF Held, Good, Placed
    <3>5. Calm(k1, add_pcb_to_ready_queue(k1, proc), {}, id)
      BY <3>4, AddReadyCalm DEF InWait
    <3> QED
      BY <2>1, <2>4, <2>6, <3>1, <3>3, <3>5
  <2> QED
    BY <2>5, <2>6
<1>35. ~Halted
  BY DEF Halted
<1> QED
  BY <1>12, <1>13, <1>15, <1>16, <1>17, <1>18, <1>19, <1>21, <1>22, <1>23, <1>24, <1>25,
     <1>26, <1>27, <1>29, <1>30, <1>33, <1>34, <1>35 DEF Next

-----------------------------------------------------------------------------
(***************************************************************************)
(* The return to user mode, and all of a step of the specification.        *)
(***************************************************************************)

\* The highest pending signal of p is delivered: its handler runs.
Delivered(k, k1, p) ==
  LET g == Highest(k.signals_pending[p])
  IN  /\ Exceeds(k.signals_pending[p], k.signals_enabled[p])
      /\ g \in k.signals_pending[p] /\ \A h \in k.signals_pending[p] : h <= g
      /\ k1.signals_pending[p] = k.signals_pending[p] \ {g}
      /\ k1.signals_enabled[p] = k.signals_enabled[p] \cup {g}
      /\ \E f \in Frames : f.sig = g /\ k1.frames[p] = Append(k.frames[p], f)
      /\ \A s \in Slots \ {p} : SameSignals(k, k1, s)

\* contextswitch() delivers a signal to the process that it resumes if it can, and
\* changes nothing else.
Resumed(k, k1) ==
  /\ k1 \in KernelStates
  /\ k1.pid = k.pid /\ k1.state = k.state /\ k1.ret = k.ret
  /\ k1.blocked_status = k.blocked_status /\ k1.blocked_id = k.blocked_id
  /\ k1.blocked_queue = k.blocked_queue /\ k1.process = k.process
  /\ k1.halt \in {k.halt, "wild"}
  /\ \/ /\ k1 = k
        /\ \/ k.halt # "no" \/ k.process = IDLE
           \/ ~Exceeds(k.signals_pending[k.process], k.signals_enabled[k.process])
     \/ k.halt = "no" /\ k.process \in Slots /\ Delivered(k, k1, k.process)

\* Resume() does what contextswitch() does.
LEMMA ResumeEffect ==
  ASSUME NEW k \in KernelStates
  PROVE  Resumed(k, Resume(k))
<1>1. CASE k.halt # "no" \/ k.process = IDLE \/ k.signals_pending[k.process] = {}
           \/ ~Exceeds(k.signals_pending[k.process], k.signals_enabled[k.process])
  <2>1. Resume(k) = k
    BY <1>1 DEF Resume, deliver_highest_priority_signal
  <2>2. k.signals_pending[k.process] = {} =>
          ~Exceeds(k.signals_pending[k.process], k.signals_enabled[k.process])
    BY DEF Exceeds
  <2> QED
    BY <1>1, <2>1, <2>2 DEF Resumed
<1>2. CASE /\ k.halt = "no" /\ k.process # IDLE /\ k.signals_pending[k.process] # {}
           /\ Exceeds(k.signals_pending[k.process], k.signals_enabled[k.process])
  <2>0. PICK p, g, f, k0, k1 :
          /\ p = k.process
          /\ g = Highest(k.signals_pending[p])
          /\ k0 = [k EXCEPT !.signals_pending[p] = @ \ {g}]
          /\ f = [sig |-> g, handler |-> k0.signal_table[p][g], ret |-> k0.ret[p]]
          /\ k1 = signal(k0, p, g)
    OBVIOUS
  <2>1. Resume(k) = k1
    BY <1>2, <2>0 DEF Resume, deliver_highest_priority_signal
  <2>2. p \in Slots /\ k1 \in KernelStates
    BY <1>2, <2>0, <2>1, ResumeType DEF KernelStates
  <2>3. /\ g \in k.signals_pending[p] /\ g \in Signals
        /\ \A h \in k.signals_pending[p] : h <= g
    <3>1. k.signals_pending[p] \in SUBSET Signals
      BY <2>2 DEF KernelStates
    <3> QED
      BY <1>2, <2>0, <3>1, HighestType
  <2>4. /\ k0 \in KernelStates
        /\ k0.pid = k.pid /\ k0.state = k.state /\ k0.ret = k.ret
        /\ k0.blocked_status = k.blocked_status /\ k0.blocked_id = k.blocked_id
        /\ k0.blocked_queue = k.blocked_queue /\ k0.process = k.process
        /\ k0.halt = k.halt
        /\ k0.signals_pending = [k.signals_pending EXCEPT ![p] = @ \ {g}]
        /\ k0.signals_enabled = k.signals_enabled /\ k0.frames = k.frames
        /\ k0.signal_table = k.signal_table
    <3>1. PICK pe : pe = [k.signals_pending EXCEPT ![p] = @ \ {g}]
      OBVIOUS
    <3>2. pe \in [Slots -> SUBSET Signals]
      BY <2>2, <3>1 DEF KernelStates
    <3>3. k0 = [k EXCEPT !.signals_pending = pe]
      BY <2>0, <3>1 DEF KernelStates
    <3>4. k0 \in KernelStates
      BY <3>2, <3>3 DEF KernelStates
    <3> QED
      BY <3>1, <3>3, <3>4 DEF KernelStates
  <2>5. /\ k1.pid = k0.pid /\ k1.state = k0.state /\ k1.ret = k0.ret
        /\ k1.blocked_status = k0.blocked_status /\ k1.blocked_id = k0.blocked_id
        /\ k1.blocked_queue = k0.blocked_queue /\ k1.process = k0.process
        /\ k1.halt \in {k0.halt, "wild"}
        /\ k1.signals_pending = k0.signals_pending
        /\ k1.signals_enabled = [k0.signals_enabled EXCEPT ![p] = @ \cup {g}]
        /\ k1.frames = [k0.frames EXCEPT ![p] = Append(@, f)]
    BY <2>0, <2>4 DEF signal, KernelStates
  <2>6. f \in Frames /\ f.sig = g
    <3>1. PICK h, v : h = k0.signal_table[p][g] /\ v = k0.ret[p]
      OBVIOUS
    <3>2. h \in Handlers /\ v \in Int
      BY <2>2, <2>3, <2>4, <3>1 DEF KernelStates
    <3>3. f = [sig |-> g, handler |-> h, ret |-> v]
      BY <2>0, <3>1
    <3> QED
      BY <2>3, <3>2, <3>3 DEF Frames
  <2>7. /\ k.signals_pending \in [Slots -> SUBSET Signals]
        /\ k.signals_enabled \in [Slots -> SUBSET Signals]
        /\ k.frames \in [Slots -> Seq(Frames)]
    BY DEF KernelStates
  <2>8. /\ k1.signals_pending[p] = k.signals_pending[p] \ {g}
        /\ k1.signals_enabled[p] = k.signals_enabled[p] \cup {g}
        /\ k1.frames[p] = Append(k.frames[p], f)
    BY <2>2, <2>4, <2>5, <2>7
  <2>9. \A s \in Slots \ {p} : SameSignals(k, k1, s)
    BY <2>4, <2>5, <2>7 DEF SameSignals
  <2>10. Delivered(k, k1, p)
    BY <1>2, <2>0, <2>3, <2>6, <2>8, <2>9 DEF Delivered
  <2> QED
    BY <1>2, <2>0, <2>1, <2>2, <2>4, <2>5, <2>10 DEF Resumed
<1> QED
  BY <1>1, <1>2

\* What the dispatcher and then the return to user mode do in a step from k to k2.
Move(k, k1, k2, id) ==
  /\ k1 \in KernelStates
  /\ k.halt = "no"
  /\ Step(k, k1, id)
  /\ Resumed(k1, k2)

\* Every step of the specification is such a move, or changes nothing.
LEMMA NextMoves ==
  ASSUME Safe(kern), [Next]_kern
  PROVE  kern' = kern \/ \E k1 : Move(kern, k1, kern', CallerPid)
<1>1. CASE UNCHANGED kern
  BY <1>1
<1>2. CASE Next /\ kern.halt = "no"
  BY <1>2, StepKinds, ResumeEffect DEF Move
<1>3. CASE Next /\ kern.halt # "no"
  BY <1>3 DEF Next, Create, Yield, Stop, GetPid, Puts, Kill, Wait, Send, Recv, Sleep,
              CpuTimes, SigHandler, SigReturn, DeviceCall, Write, Read, KeyboardInt,
              TimerInt, Halted, Request, InSysstop
<1> QED
  BY <1>1, <1>2, <1>3

\* A process in the blocked queue after a step was there before, in the same call, or it
\* is the caller, which has blocked.
Stayed(k, k2, s) ==
  /\ s \in Elems(k.blocked_queue)
  /\ k2.blocked_status[s] = k.blocked_status[s] /\ k2.blocked_id[s] = k.blocked_id[s]
  /\ k2.ret[s] = k.ret[s] /\ k2.pid[s] = k.pid[s]

\* A step blocks no process but the caller.
LEMMA WhoIsBlocked ==
  ASSUME NEW k, NEW k1, NEW k2, NEW id, Move(k, k1, k2, id), k2.halt = "no",
         NEW s \in Elems(k2.blocked_queue)
  PROVE  /\ s \in Slots
         /\ Stayed(k, k2, s) \/ (s = k.process /\ Waits(k, k1, s, id))
<1>1. /\ k1.halt = "no" /\ s \in Elems(k1.blocked_queue)
      /\ k2.pid = k1.pid /\ k2.ret = k1.ret
      /\ k2.blocked_status = k1.blocked_status /\ k2.blocked_id = k1.blocked_id
  BY DEF Move, Resumed
<1>2. s \in Slots
  <2>1. k1.blocked_queue \in Seq(Slots)
    BY DEF Move, KernelStates
  <2> QED
    BY <1>1, <2>1, ElemsProperties
<1>3. ASSUME NEW P, Calm(k, k1, P, id), s \notin P PROVE Stayed(k, k2, s)
  BY <1>1, <1>2, <1>3 DEF Calm, Stayed
<1>4. Step(k, k1, id) /\ ~Broken(k, k1, id)
  BY <1>1 DEF Move, Broken
<1>5. CASE Calm(k, k1, {}, id)
  BY <1>2, <1>3, <1>5
<1>6. ASSUME NEW p \in Slots, Created(k, k1, p, id) PROVE Stayed(k, k2, s)
  BY <1>1, <1>3, <1>6 DEF Created
<1>7. ASSUME NEW p \in Slots, NEW g \in Signals, Signalled(k, k1, p, g, id)
      PROVE  Stayed(k, k2, s)
  BY <1>1, <1>3, <1>7 DEF Signalled
<1>8. CASE Ended(k, k1, k.process) /\ id = k.pid[k.process]
  BY <1>1, <1>2, <1>3, <1>8 DEF Ended
<1>9. CASE Parked(k, k1, k.process, id)
  BY <1>1, <1>2, <1>3, <1>9 DEF Parked
<1>10. CASE Returned(k, k1, k.process, id)
  BY <1>1, <1>2, <1>3, <1>10 DEF Returned
<1>11. CASE Waits(k, k1, k.process, id)
  <2>1. CASE s = k.process
    BY <1>2, <1>11, <2>1
  <2>2. CASE s # k.process
    BY <1>2, <1>3, <1>11, <2>2 DEF Waits, Blocking
  <2> QED
    BY <2>1, <2>2
<1> QED
  BY <1>2, <1>4, <1>5, <1>6, <1>7, <1>8, <1>9, <1>10, <1>11 DEF Step

\* What a step leaves of the process in slot s: it lives on, or it has ended and nothing
\* waits for it any more.
Outlived(k, k2, s) ==
  \/ k2.pid[s] = k.pid[s] /\ (k2.state[s] = "STOPPED" => k.state[s] = "STOPPED")
  \/ /\ s = k.process /\ k2.state[s] = "STOPPED" /\ k2.pid[s] = NextPid(k.pid[s])
     /\ \A q \in Elems(k2.blocked_queue) : k2.blocked_id[q] # k.pid[s]

\* A step ends no process but the caller.
LEMMA WhoEnds ==
  ASSUME NEW k, NEW k1, NEW k2, NEW id, Move(k, k1, k2, id), NEW s \in Slots
  PROVE  Outlived(k, k2, s) \/ (k2.halt # "no" /\ k2.pid = k.pid)
<1>1. /\ k2.pid = k1.pid /\ k2.state = k1.state /\ k2.blocked_id = k1.blocked_id
      /\ k2.blocked_queue = k1.blocked_queue
      /\ k1.halt # "no" => k2.halt # "no"
      /\ Step(k, k1, id)
  BY DEF Move, Resumed
<1>2. ASSUME NEW P, Calm(k, k1, P, id), s \notin P PROVE Outlived(k, k2, s)
  BY <1>1, <1>2 DEF Calm, Outlived
<1>3. CASE Broken(k, k1, id)
  BY <1>1, <1>3 DEF Broken
<1>4. CASE Calm(k, k1, {}, id)
  BY <1>2, <1>4
<1>5. ASSUME NEW p \in Slots, Created(k, k1, p, id) PROVE Outlived(k, k2, s)
  <2>1. CASE s = p
    BY <1>1, <1>5, <2>1 DEF Created, Outlived
  <2> QED
    BY <1>2, <1>5, <2>1 DEF Created
<1>6. ASSUME NEW p \in Slots, NEW g \in Signals, Signalled(k, k1, p, g, id)
      PROVE  Outlived(k, k2, s)
  <2>1. CASE s = p
    BY <1>1, <1>6, <2>1 DEF Signalled, Outlived
  <2> QED
    BY <1>2, <1>6, <2>1 DEF Signalled
<1>7. CASE Ended(k, k1, k.process) /\ id = k.pid[k.process]
  <2>1. CASE s = k.process
    BY <1>1, <1>7, <2>1 DEF Ended, Outlived
  <2> QED
    BY <1>2, <1>7, <2>1 DEF Ended
<1>8. CASE Parked(k, k1, k.process, id)
  <2>1. CASE s = k.process
    BY <1>1, <1>8, <2>1 DEF Parked, Outlived
  <2> QED
    BY <1>2, <1>8, <2>1 DEF Parked
<1>9. CASE Returned(k, k1, k.process, id)
  <2>1. CASE s = k.process
    BY <1>1, <1>9, <2>1 DEF Returned, Outlived
  <2> QED
    BY <1>2, <1>9, <2>1 DEF Returned
<1>10. CASE Waits(k, k1, k.process, id)
  <2>1. CASE s = k.process
    BY <1>1, <1>10, <2>1 DEF Waits, Blocking, Outlived
  <2> QED
    BY <1>2, <1>10, <2>1 DEF Waits, Blocking
<1> QED
  BY <1>1, <1>3, <1>4, <1>5, <1>6, <1>7, <1>8, <1>9, <1>10 DEF Step

\* A state in which the dispatcher starts: no process is blocked, and each slot has its
\* first pid.
LEMMA InitStarts ==
  ASSUME Init
  PROVE  Elems(kern.blocked_queue) = {} /\ \A s \in Slots : kern.pid[s] = s
<1>0. PICK table \in NewTables : kern = Resume(get_next_pcb(create(initpcb, table)))
  BY DEF Init
<1>1. PICK k, k1, k2 : k = initpcb /\ k1 = create(k, table) /\ k2 = get_next_pcb(k1)
  OBVIOUS
<1>2. /\ k \in KernelStates /\ k.blocked_queue = << >> /\ \A s \in Slots : k.pid[s] = s
      /\ k.stopped_queue = [s \in Slots |-> s]
  BY <1>1, InitpcbType DEF initpcb
<1>3. k.stopped_queue # << >>
  <2>1. 1 \in Slots
    BY TableAssumption DEF Slots
  <2>2. 1 \in Elems(k.stopped_queue)
    BY <1>2, <2>1 DEF Elems
  <2> QED
    BY <2>2, EmptyQueue
<1>4. k1 \in KernelStates
  BY <1>1, <1>2, <1>3, CreateType
<1>5. k1.blocked_queue = k.blocked_queue /\ k1.pid = k.pid
  BY <1>1, <1>2 DEF create, add_pcb_to_ready_queue, Offered, KernelStates
<1>6. k2 \in KernelStates
  BY <1>1, <1>4, GetNextType
<1>7. k2.blocked_queue = k1.blocked_queue /\ k2.pid = k1.pid
  BY <1>1, <1>4 DEF get_next_pcb, KernelStates
<1>8. kern.blocked_queue = k2.blocked_queue /\ kern.pid = k2.pid
  BY <1>0, <1>1, <1>6, ResumeEffect DEF Resumed
<1> QED
  BY <1>2, <1>5, <1>7, <1>8, EmptyQueue

-----------------------------------------------------------------------------
(***************************************************************************)
(* Pids.                                                                   *)
(***************************************************************************)

\* N goes q times into x, and r is left.
Divides(N, q, r, x) == x = N * q + r

\* The remainder is the only one.
LEMMA ModUnique ==
  ASSUME NEW N \in Nat \ {0}, NEW q \in Int, NEW r \in 0..(N - 1), NEW x \in Int,
         Divides(N, q, r, x)
  PROVE  x % N = r
<1> USE DEF Divides
<1>1. PICK d \in Int, e \in 0..(N - 1) : x = N * d + e /\ e = x % N
  <2>1. x % N \in 0..(N - 1) /\ x \div N \in Int /\ x = N * (x \div N) + (x % N)
    OBVIOUS
  <2> QED
    BY <2>1
<1>2. PICK c \in Int : c = q - d
  BY <1>1
<1>3. N * c = e - r
  <2>1. N * (q - d) = e - r
    BY <1>1
  <2> QED
    BY <1>2, <2>1
<1>4. e - r < N /\ e - r > -N
  BY <1>1
<1>5. CASE c >= 1
  <2>1. N * c >= N
    BY <1>5
  <2> QED
    BY <1>3, <1>4, <2>1
<1>6. CASE c <= -1
  <2>1. N * c <= -N
    BY <1>6
  <2> QED
    BY <1>3, <1>4, <2>1
<1>7. CASE c = 0
  <2>1. e - r = 0
    BY <1>3, <1>7
  <2>2. e = r
    BY <1>1, <2>1
  <2> QED
    BY <1>1, <2>2
<1> QED
  BY <1>5, <1>6, <1>7

\* A multiple of N does not change the remainder.
LEMMA ModShift ==
  ASSUME NEW N \in Nat \ {0}, NEW c \in Int, NEW x \in Int, NEW y \in Int,
         Divides(N, c, x, y)
  PROVE  y % N = x % N
<1>1. PICK d \in Int, e \in 0..(N - 1) : x = N * d + e /\ e = x % N
  <2>1. x % N \in 0..(N - 1) /\ x \div N \in Int /\ x = N * (x \div N) + (x % N)
    OBVIOUS
  <2> QED
    BY <2>1
<1>2. PICK f \in Int : f = d + c
  OBVIOUS
<1>3. Divides(N, f, e, y)
  BY <1>1, <1>2 DEF Divides
<1>4. y % N = e
  BY <1>3, ModUnique
<1> QED
  BY <1>1, <1>4

\* The next pid of a slot leads to the same slot.
LEMMA NextPidSlot ==
  ASSUME NEW pid \in 1..PID_MAX
  PROVE  (NextPid(pid) - 1) % PCB_TABLE_SIZE = (pid - 1) % PCB_TABLE_SIZE
<1>0. PICK N, M, x, y : /\ N = PCB_TABLE_SIZE /\ M = PID_MAX /\ x = pid - 1
                        /\ y = (pid + PCB_TABLE_SIZE - 1) % PID_MAX
  OBVIOUS
<1>1. PICK m \in 1..M : M = m * N
  BY <1>0, TableAssumption
<1>2. N \in Nat \ {0} /\ M \in Nat \ {0} /\ x \in 0..(M - 1)
  BY <1>0, TableAssumption
<1>3. y = (x + N) % M
  BY <1>0, <1>2, TableAssumption
<1>4. N <= M
  BY <1>1, <1>2
<1>5. CASE x + N < M
  <2>1. y = x + N
    <3>1. PICK z \in Int, q \in Int : z = x + N /\ q = 0
      BY <1>2
    <3>2. z \in 0..(M - 1) /\ Divides(M, q, z, z)
      BY <1>2, <1>5, <3>1 DEF Divides
    <3>3. z % M = z
      BY <1>2, <3>2, ModUnique
    <3> QED
      BY <1>3, <3>1, <3>3
  <2>2. PICK c \in Int : c = 1
    OBVIOUS
  <2>3. Divides(N, c, x, y) /\ y \in Int /\ x \in Int
    BY <1>2, <2>1, <2>2 DEF Divides
  <2>4. y % N = x % N
    BY <1>2, <2>3, ModShift
  <2> QED
    BY <1>0, <2>1, <2>3, <2>4, TableAssumption DEF NextPid
<1>6. CASE x + N >= M
  <2>1. y = x + N - M
    <3>1. PICK z \in Int, r \in Int, q \in Int : z = x + N /\ r = x + N - M /\ q = 1
      BY <1>2
    <3>2. r \in 0..(M - 1) /\ Divides(M, q, r, z)
      BY <1>2, <1>4, <1>6, <3>1 DEF Divides
    <3>3. z % M = r
      BY <1>2, <3>2, ModUnique
    <3> QED
      BY <1>3, <3>1, <3>3
  <2>2. PICK c \in Int : c = 1 - m
    BY <1>1
  <2>3. Divides(N, c, x, y) /\ y \in Int /\ x \in Int
    BY <1>1, <1>2, <2>1, <2>2 DEF Divides
  <2>4. y % N = x % N
    BY <1>2, <2>3, ModShift
  <2> QED
    BY <1>0, <2>1, <2>3, <2>4, TableAssumption DEF NextPid
<1> QED
  BY <1>2, <1>5, <1>6

\* All pcbs are always in place.
LEMMA SafeAlways == Spec => []IInv
<1>1. Init => IInv
  BY InitSafe DEF IInv
<1>2. IInv /\ [Next]_kern => IInv'
  BY NextSafe DEF IInv
<1> QED
  BY <1>1, <1>2, PTL DEF Spec

\* The pid leads to the slot s.
Leads(pid, s) == ((pid - 1) % PCB_TABLE_SIZE) + 1 = s

\* In every state, for tables of every size and whatever the processes do, the pid in each
\* slot leads to that slot, also when the pids of c/pcb.c have wrapped around.
THEOREM PidsNameSlots == Spec => []PidNamesSlot
<1>1. Init => IInv /\ PidNamesSlot
  <2> SUFFICES ASSUME Init, NEW s \in Slots
               PROVE  Safe(kern) /\ Leads(kern.pid[s], s)
    BY InitSafe DEF IInv, PidNamesSlot, Leads
  <2>1. Safe(kern) /\ kern.pid[s] = s
    BY InitSafe, InitStarts
  <2>2. PICK N, x, q : N = PCB_TABLE_SIZE /\ x = s - 1 /\ q = 0
    OBVIOUS
  <2>3. N \in Nat \ {0} /\ x \in 0..(N - 1) /\ q \in Int /\ x \in Int /\ Divides(N, q, x, x)
    BY <2>2, TableAssumption DEF Slots, Divides
  <2>4. x % N = x
    BY <2>3, ModUnique
  <2> QED
    BY <2>1, <2>2, <2>3, <2>4 DEF Leads, Slots
<1>2. IInv /\ PidNamesSlot /\ [Next]_kern => IInv' /\ PidNamesSlot'
  <2> SUFFICES ASSUME Safe(kern), PidNamesSlot, [Next]_kern, NEW s \in Slots
               PROVE  Safe(kern') /\ Leads(kern'.pid[s], s)
    BY NextSafe DEF IInv, PidNamesSlot, Leads
  <2>1. Safe(kern') /\ Leads(kern.pid[s], s)
    BY NextSafe DEF PidNamesSlot, Leads
  <2>2. kern'.pid[s] = kern.pid[s] \/ kern'.pid[s] = NextPid(kern.pid[s])
    BY NextMoves, WhoEnds DEF Outlived
  <2>3. kern.pid[s] \in 1..PID_MAX
    BY DEF Safe, KernelStates
  <2>4. Leads(NextPid(kern.pid[s]), s)
    BY <2>1, <2>3, NextPidSlot DEF Leads
  <2> QED
    BY <2>1, <2>2, <2>4
<1> QED
  BY <1>1, <1>2, PTL DEF Spec

\* The pids of two slots differ.
LEMMA PidsDiffer ==
  ASSUME PidNamesSlot, NEW a \in Slots, NEW b \in Slots, kern.pid[a] = kern.pid[b]
  PROVE  a = b
BY DEF PidNamesSlot

\* In every state, a call that is blocked in the blocked queue holds the result it has if
\* its partner ends, whatever process the dispatcher of c/disp.c has moved on to.
THEOREM BlockedHoldResults == Spec => []BlockedResult
<1>1. Init => IInv /\ BlockedResult
  BY InitSafe, InitStarts DEF IInv, BlockedResult
<1>2. IInv /\ BlockedResult /\ [Next]_kern => IInv' /\ BlockedResult'
  <2> SUFFICES ASSUME Safe(kern), BlockedResult, [Next]_kern
               PROVE  Safe(kern') /\ BlockedResult'
    BY DEF IInv
  <2>1. Safe(kern')
    BY NextSafe
  <2>2. ASSUME NEW k1, Move(kern, k1, kern', CallerPid) PROVE BlockedResult'
    <3> SUFFICES ASSUME kern'.halt = "no", NEW s \in Elems(kern'.blocked_queue)
                 PROVE  kern'.ret[s] = IF kern'.blocked_status[s] = "WAITING" THEN 0 ELSE SYSPID_DNE
      BY DEF BlockedResult, Runs
    <3>1. Stayed(kern, kern', s) \/ Waits(kern, k1, s, CallerPid)
      BY <2>2, WhoIsBlocked
    <3>2. CASE Stayed(kern, kern', s)
      BY <2>2, <3>2 DEF Stayed, BlockedResult, Runs, Move
    <3>3. CASE Waits(kern, k1, s, CallerPid)
      BY <2>2, <3>3 DEF Waits, Move, Resumed
    <3> QED
      BY <3>1, <3>2, <3>3
  <2>3. CASE kern' = kern
    BY <2>3 DEF BlockedResult, Runs
  <2> QED
    BY <2>1, <2>2, <2>3, NextMoves
<1> QED
  BY <1>1, <1>2, PTL DEF Spec

\* A process that is the caller's target is alive.
LEMMA TargetAlive ==
  ASSUME Safe(kern), PidNamesSlot, ~StalePids, NEW k1, NEW p, Waits(kern, k1, p, CallerPid)
  PROVE  Alive(k1.blocked_id[p]) \/ (k1.blocked_status[p] = "RECEIVE" /\ k1.blocked_id[p] = 0)
<1>1. WaitsFor(kern, k1, p)
  BY DEF Waits, Blocking
<1>2. ASSUME NEW q \in Slots, pid_to_pcb(kern, kern.pid[q]) # NULL
      PROVE  kern.state[q] # "STOPPED"
  BY <1>2 DEF pid_to_pcb, PidNamesSlot
<1> QED
  BY <1>1, <1>2 DEF WaitsFor, Alive

\* If processes only use the pids of processes that exist, then in every state each process
\* in the blocked queue waits for one that has not ended, or receives from any process:
\* cleanup_pcb() of c/pcb.c releases the others first.
THEOREM OnlyTheLivingAwaited == ~StalePids => (Spec => []WaitsForTheLiving)
<1> SUFFICES ASSUME ~StalePids PROVE Spec => []WaitsForTheLiving
  OBVIOUS
<1>1. Init => IInv /\ WaitsForTheLiving
  BY InitSafe, InitStarts DEF IInv, WaitsForTheLiving
<1>2. IInv /\ PidNamesSlot /\ WaitsForTheLiving /\ [Next]_kern => IInv' /\ WaitsForTheLiving'
  <2> SUFFICES ASSUME Safe(kern), PidNamesSlot, WaitsForTheLiving, [Next]_kern
               PROVE  Safe(kern') /\ WaitsForTheLiving'
    BY DEF IInv
  <2>1. Safe(kern')
    BY NextSafe
  <2>2. ASSUME NEW k1, Move(kern, k1, kern', CallerPid) PROVE WaitsForTheLiving'
    <3> SUFFICES ASSUME kern'.halt = "no", NEW s \in Elems(kern'.blocked_queue)
                 PROVE  \/ \E q \in Slots : /\ kern'.state[q] # "STOPPED"
                                            /\ kern'.pid[q] = kern'.blocked_id[s]
                        \/ kern'.blocked_status[s] = "RECEIVE" /\ kern'.blocked_id[s] = 0
      BY DEF WaitsForTheLiving, Runs, Alive
    <3>1. /\ kern.halt = "no" /\ kern'.blocked_id = k1.blocked_id
          /\ kern'.blocked_status = k1.blocked_status
      BY <2>2 DEF Move, Resumed
    <3>2. Alive(kern'.blocked_id[s])
            \/ (kern'.blocked_status[s] = "RECEIVE" /\ kern'.blocked_id[s] = 0)
      <4>1. CASE Stayed(kern, kern', s)
        BY <3>1, <4>1 DEF Stayed, WaitsForTheLiving, Runs
      <4>2. CASE Waits(kern, k1, s, CallerPid)
        BY <3>1, <4>2, TargetAlive
      <4> QED
        BY <2>2, <4>1, <4>2, WhoIsBlocked
    <3>3. ASSUME NEW q \in Slots, kern.state[q] # "STOPPED", kern.pid[q] = kern'.blocked_id[s]
          PROVE  kern'.state[q] # "STOPPED" /\ kern'.pid[q] = kern'.blocked_id[s]
      BY <2>2, <3>3, WhoEnds DEF Outlived
    <3> QED
      BY <3>2, <3>3 DEF Alive
  <2>3. CASE kern' = kern
    BY <2>3 DEF WaitsForTheLiving, Runs, Alive
  <2> QED
    BY <2>1, <2>2, <2>3, NextMoves
<1> QED
  BY <1>1, <1>2, PidsNameSlots, PTL DEF Spec

\* If no process receives from any process, then in no state are a sender and a receiver
\* blocked on one another: send() and recv() of c/msg.c find whichever came first.
THEOREM RendezvousHappen == ~AnyReceive => (Spec => []NoMissedRendezvous)
<1> SUFFICES ASSUME ~AnyReceive PROVE Spec => []NoMissedRendezvous
  OBVIOUS
<1>1. Init => IInv /\ NoMissedRendezvous
  BY InitSafe, InitStarts DEF IInv, NoMissedRendezvous
<1>2. IInv /\ PidNamesSlot /\ NoMissedRendezvous /\ [Next]_kern => IInv' /\ NoMissedRendezvous'
  <2> SUFFICES ASSUME Safe(kern), PidNamesSlot, NoMissedRendezvous, [Next]_kern
               PROVE  Safe(kern') /\ NoMissedRendezvous'
    BY DEF IInv
  <2>1. Safe(kern')
    BY NextSafe
  <2>2. ASSUME NEW k1, Move(kern, k1, kern', CallerPid) PROVE NoMissedRendezvous'
    <3> SUFFICES ASSUME kern'.halt = "no",
                        NEW a \in Elems(kern'.blocked_queue), NEW b \in Elems(kern'.blocked_queue),
                        kern'.blocked_status[a] = "SEND", kern'.blocked_status[b] = "RECEIVE",
                        kern'.blocked_id[a] = kern'.pid[b],
                        kern'.blocked_id[b] = kern'.pid[a] \/ kern'.blocked_id[b] = 0
                 PROVE  FALSE
      BY DEF NoMissedRendezvous, Runs, Awaits
    <3>0. kern.halt = "no" /\ kern'.blocked_id = k1.blocked_id /\ kern'.pid = k1.pid
          /\ kern'.blocked_status = k1.blocked_status
      BY <2>2 DEF Move, Resumed
    <3>1. kern'.blocked_id[b] = kern'.pid[a] /\ a # b
      BY <2>1 DEF Safe, Good
    <3>2. ASSUME NEW s \in Elems(kern'.blocked_queue)
          PROVE  /\ s \in Slots
                 /\ \/ Stayed(kern, kern', s)
                    \/ s = kern.process /\ Waits(kern, k1, s, CallerPid)
      BY <2>2, WhoIsBlocked
    <3>3. kern'.pid[a] = kern.pid[a] /\ kern'.pid[b] = kern.pid[b]
      BY <3>0, <3>2 DEF Stayed, Waits, Blocking
    <3>4. ASSUME NEW p \in Slots, NEW q \in Slots, Waits(kern, k1, p, CallerPid),
                 Stayed(kern, kern', q),
                 k1.blocked_status[p] \in {"SEND", "RECEIVE"},
                 k1.blocked_id[p] = kern.pid[q], kern.blocked_id[q] = kern.pid[p]
          PROVE  FALSE
      <4>1. PICK r \in Slots : /\ k1.blocked_id[p] = kern.pid[r]
                               /\ r \in Elems(kern.blocked_queue) => kern.blocked_id[r] # kern.pid[p]
        BY <3>4 DEF Waits, Blocking, WaitsFor
      <4>2. r = q
        BY <3>4, <4>1, PidsDiffer
      <4> QED
        BY <3>4, <4>1, <4>2 DEF Stayed
    <3>5. CASE Stayed(kern, kern', a) /\ Stayed(kern, kern', b)
      BY <3>0, <3>1, <3>3, <3>5 DEF Stayed, NoMissedRendezvous, Runs, Awaits
    <3>6. CASE Waits(kern, k1, a, CallerPid) /\ Stayed(kern, kern', b)
      BY <3>0, <3>1, <3>2, <3>3, <3>4, <3>6 DEF Stayed
    <3>7. CASE Waits(kern, k1, b, CallerPid) /\ Stayed(kern, kern', a)
      BY <3>0, <3>1, <3>2, <3>3, <3>4, <3>7 DEF Stayed
    <3> QED
      BY <3>1, <3>2, <3>5, <3>6, <3>7
  <2>3. CASE kern' = kern
    BY <2>3 DEF NoMissedRendezvous, Runs, Awaits
  <2> QED
    BY <2>1, <2>2, <2>3, NextMoves
<1> QED
  BY <1>1, <1>2, PidsNameSlots, PTL DEF Spec

\* A process comes out of syswait() only by a step of the process that it waits for, or
\* because of a signal, in tables of every size and whatever the processes do.
THEOREM WaitsEndRight == Spec => WaitReleasedByTarget
<1> DEFINE Right == \A s \in Slots :
             Released(s) /\ kern.blocked_status[s] = "WAITING" =>
               \/ proc # IDLE /\ kern.pid[proc] = kern.blocked_id[s]
               \/ kern'.signals_pending[s] # {}
<1>1. IInv /\ [Next]_kern => [Right]_kern
  <2> SUFFICES ASSUME Safe(kern), [Next]_kern, NEW s \in Slots,
                      InWait(kern, s), kern'.state[s] # "BLOCKED",
                      kern'.signals_pending[s] = {}
               PROVE  proc # IDLE /\ kern.pid[proc] = kern.blocked_id[s]
    BY DEF IInv, Released, InWait
  <2>1. PICK k1 : Move(kern, k1, kern', CallerPid)
    <3>1. kern' # kern
      BY DEF InWait
    <3> QED
      BY <3>1, NextMoves
  <2>2. PICK id : id = CallerPid
    OBVIOUS
  <2>3. /\ kern.halt = "no" /\ kern'.state = k1.state /\ Step(kern, k1, id)
        /\ kern'.process = k1.process
    BY <2>1, <2>2 DEF Move, Resumed
  <2>4. s # kern.process
    BY <2>3, SlotsNotNull DEF Safe, InWait
  <2>5. kern.blocked_id[s] = id
    <3>1. CASE Broken(kern, k1, id)
      BY <2>3, <3>1 DEF Broken
    <3>2. ASSUME NEW P, Calm(kern, k1, P, id), s \notin P PROVE kern.blocked_id[s] = id
      BY <2>3, <3>2 DEF Calm
    <3>3. ASSUME NEW p \in Slots, Created(kern, k1, p, id) PROVE kern.blocked_id[s] = id
      BY <3>2, <3>3 DEF Created, InWait
    <3>4. ASSUME NEW p \in Slots, NEW g \in Signals, Signalled(kern, k1, p, g, id),
                 k1.process = kern.process
          PROVE  kern.blocked_id[s] = id
      <4>1. CASE s = p
        <5>1. k1.signals_pending[s] # {}
          BY <3>4, <4>1 DEF Signalled
        <5>2. kern'.signals_pending[s] = k1.signals_pending[s]
          BY <2>1, <2>4, <3>4 DEF Move, Resumed, Delivered, SameSignals
        <5> QED
          BY <5>1, <5>2
      <4> QED
        BY <3>2, <3>4, <4>1 DEF Signalled
    <3> QED
      BY <2>3, <2>4, <3>1, <3>2, <3>3, <3>4
      DEF Step, Ended, Parked, Waits, Blocking, Returned
  <2>6. kern.blocked_id[s] \in 0..PID_MAX
    BY DEF Safe, KernelStates
  <2>7. proc # IDLE
    BY <2>2, <2>5, <2>6, TableAssumption DEF CallerPid
  <2> QED
    BY <2>2, <2>5, <2>7 DEF CallerPid
<1> QED
  BY <1>1, SafeAlways, PTL DEF Spec, WaitReleasedByTarget

\* The kernel's ASSERT fails for a signal to a process that reads from the keyboard and in a
\* device call whose length is not positive, in which nothing has changed, and in no other step.
THEOREM AssertsExplained == Spec => AssertsOnlyForReaders
<1> DEFINE Right ==
             Runs /\ kern'.halt = "assert" =>
               \/ kern' = [kern EXCEPT !.halt = "assert"]
               \/ \E s \in OnDevice(kern), g \in Signals :
                    kern' = [kern EXCEPT !.signals_pending[s] = @ \cup {g}, !.ret[proc] = 0,
                                         !.halt = "assert"]
<1>1. IInv /\ [Next]_kern => [Right]_kern
  <2> SUFFICES ASSUME Safe(kern), [Next]_kern, kern.halt = "no", kern'.halt = "assert"
               PROVE  Right
    BY DEF IInv, Runs
  <2>1. PICK k1 : Move(kern, k1, kern', CallerPid)
    BY NextMoves
  <2>2. k1.halt = "assert" /\ kern' = k1
    BY <2>1 DEF Move, Resumed, Delivered
  <2>3. Broken(kern, k1, CallerPid)
    BY <2>1, <2>2 DEF Move, Step
  <2> QED
    BY <2>2, <2>3 DEF Broken, proc
<1> QED
  BY <1>1, SafeAlways, PTL DEF Spec, AssertsOnlyForReaders

-----------------------------------------------------------------------------
(***************************************************************************)
(* Signals.  sigreturn clears the highest bit of signals_enabled and drops *)
(* the last context of the stack, so the two must belong together.  They   *)
(* do because of an invariant: above the last context of a signal there    *)
(* are only those of signals that are at least as high.                    *)
(***************************************************************************)

\* The signal g has a handler in progress on the stack f, which no handler of a lower
\* signal has interrupted.
OnStack(f, g) ==
  \E i \in DOMAIN f : f[i].sig = g /\ \A j \in DOMAIN f : j > i => f[j].sig >= g

\* So does every enabled signal.
Stacked(f, enabled) == \A g \in enabled : OnStack(f, g)

\* In all processes.
StackInv == Runs => \A s \in Slots : kern.state[s] # "STOPPED" =>
                      Stacked(kern.frames[s], kern.signals_enabled[s])

\* A mask exceeds another only if its highest bit is at least as high as all of the other's;
\* with that bit moved to the other it exceeds it no more.
LEMMA ExceedsHighest ==
  ASSUME NEW a \in SUBSET Signals, NEW b \in SUBSET Signals, NEW g \in a, \A h \in a : h <= g
  PROVE  /\ Exceeds(a, b) => \A h \in b : h <= g
         /\ ~Exceeds(a \ {g}, b \cup {g})
<1>1. Signals \subseteq Int
  BY SignalAssumption DEF Signals
<1>2. ASSUME Exceeds(a, b), NEW h \in b PROVE h <= g
  <2>1. PICK y \in a \ b : \A x \in b \ a : x < y
    BY <1>2 DEF Exceeds
  <2>2. CASE h \in a
    BY <2>2
  <2>3. CASE h \notin a
    <3>1. h < y /\ y <= g
      BY <1>2, <2>1, <2>3
    <3>2. h \in Int /\ y \in Int /\ g \in Int
      BY <1>1
    <3> QED
      BY <3>1, <3>2
  <2> QED
    BY <2>2, <2>3
<1>3. ASSUME Exceeds(a \ {g}, b \cup {g}) PROVE FALSE
  <2>1. PICK y \in (a \ {g}) \ (b \cup {g}) : \A x \in (b \cup {g}) \ (a \ {g}) : x < y
    BY <1>3 DEF Exceeds
  <2>2. g < y /\ y <= g /\ y \in Int /\ g \in Int
    BY <1>1, <2>1
  <2> QED
    BY <2>2
<1> QED
  BY <1>2, <1>3

\* A handler that is put on the stack for a signal as high as all enabled ones.
LEMMA PushStacked ==
  ASSUME NEW f \in Seq(Frames), NEW x \in Frames, NEW b \in SUBSET Signals,
         Stacked(f, b), \A h \in b : h <= x.sig
  PROVE  Stacked(Append(f, x), b \cup {x.sig})
<1>0. PICK f1, n : f1 = Append(f, x) /\ n = Len(f)
  OBVIOUS
<1>1. n \in Nat /\ DOMAIN f = 1..n /\ \A i \in 1..n : f[i] \in Frames
  BY <1>0, ElemsProperties
<1>2. DOMAIN f1 = 1..(n + 1) /\ f1[n + 1] = x /\ \A i \in 1..n : f1[i] = f[i]
  BY <1>0, AppendProperties
<1>3. Signals \subseteq Int /\ x.sig \in Signals
  BY SignalAssumption DEF Signals, Frames
<1>4. ASSUME NEW g \in b PROVE OnStack(f1, g)
  <2>1. PICK i \in 1..n : f[i].sig = g /\ \A j \in 1..n : j > i => f[j].sig >= g
    BY <1>1 DEF Stacked, OnStack
  <2>2. i \in DOMAIN f1 /\ f1[i].sig = g
    BY <1>1, <1>2, <2>1
  <2>3. ASSUME NEW j \in DOMAIN f1, j > i PROVE f1[j].sig >= g
    <3>1. CASE j = n + 1
      BY <1>2, <1>3, <3>1
    <3>2. CASE j # n + 1
      <4>1. j \in 1..n
        BY <1>1, <1>2, <3>2
      <4> QED
        BY <1>2, <2>1, <2>3, <4>1
    <3> QED
      BY <3>1, <3>2
  <2> QED
    BY <2>2, <2>3 DEF OnStack
<1>5. OnStack(f1, x.sig)
  <2>1. n + 1 \in DOMAIN f1 /\ f1[n + 1].sig = x.sig /\ \A j \in DOMAIN f1 : ~(j > n + 1)
    BY <1>1, <1>2
  <2> QED
    BY <2>1 DEF OnStack
<1> QED
  BY <1>0, <1>4, <1>5 DEF Stacked

\* The stack without its last context.
LEMMA PopProperties ==
  ASSUME NEW f \in Seq(Frames), f # << >>
  PROVE  LET n == Len(f)
             f1 == SubSeq(f, 1, n - 1)
         IN  /\ n \in Nat /\ n >= 1 /\ DOMAIN f = 1..n
             /\ DOMAIN f1 = 1..(n - 1)
             /\ \A i \in 1..(n - 1) : f1[i] = f[i]
             /\ \A i \in 1..n : f[i] \in Frames /\ f[i].sig \in Int
<1>0. PICK f1, n : f1 = SubSeq(f, 1, n - 1) /\ n = Len(f)
  OBVIOUS
<1>1. n \in Nat \ {0} /\ DOMAIN f = 1..n /\ \A i \in 1..n : f[i] \in Frames
  BY <1>0, ElemsProperties, EmptySeq
<1>2. \A i \in 1..n : f[i].sig \in Int
  <2>1. Signals \subseteq Int
    BY SignalAssumption DEF Signals
  <2> QED
    BY <1>1, <2>1 DEF Frames
<1>3. \A i \in 1..(n - 1) : f[i] \in Frames
  BY <1>1
<1>4. f1 \in Seq(Frames) /\ Len(f1) = n - 1 /\ \A i \in 1..(n - 1) : f1[i] = f[i]
  <2>1. PICK lo, hi : lo = 1 /\ hi = n - 1
    OBVIOUS
  <2>2. lo \in Int /\ hi \in Int /\ \A i \in lo..hi : i \in 1..Len(f) /\ f[i] \in Frames
    BY <1>0, <1>1, <2>1
  <2>3. /\ f1 = SubSeq(f, lo, hi) /\ hi - lo + 1 = n - 1
        /\ (IF lo <= hi THEN hi - lo + 1 ELSE 0) = n - 1
        /\ \A i \in 1..(n - 1) : lo + i - 1 = i
    BY <1>0, <1>1, <2>1
  <2>4. f1 \in Seq(Frames) /\ Len(f1) = (IF lo <= hi THEN hi - lo + 1 ELSE 0)
        /\ \A i \in 1..(hi - lo + 1) : f1[i] = f[lo + i - 1]
    BY <2>2, <2>3, SubSeqProperties
  <2> QED
    BY <2>3, <2>4
<1>5. DOMAIN f1 = 1..(n - 1)
  BY <1>4, ElemsProperties
<1> QED
  BY <1>0, <1>1, <1>2, <1>4, <1>5

\* The last context of the stack is that of the highest enabled signal or of one that has
\* no bit, so that the other enabled signals keep theirs.
LEMMA PopStacked ==
  ASSUME NEW f \in Seq(Frames), f # << >>, NEW b \in SUBSET Signals, b # {}, Stacked(f, b)
  PROVE  Stacked(SubSeq(f, 1, Len(f) - 1), b \ {Highest(b)})
<1>0. PICK f1, n, h : f1 = SubSeq(f, 1, n - 1) /\ n = Len(f) /\ h = Highest(b)
  OBVIOUS
<1>1. /\ n \in Nat /\ n >= 1 /\ DOMAIN f = 1..n /\ DOMAIN f1 = 1..(n - 1)
      /\ \A i \in 1..(n - 1) : f1[i] = f[i]
      /\ \A i \in 1..n : f[i].sig \in Int
  BY <1>0, PopProperties
<1>2. h \in b /\ \A g \in b : g <= h
  BY <1>0, HighestType
<1>3. PICK m \in 1..n : f[m].sig = h /\ \A j \in 1..n : j > m => f[j].sig >= h
  BY <1>1, <1>2 DEF Stacked, OnStack
<1>4. ASSUME NEW g \in b \ {h} PROVE OnStack(f1, g)
  <2>1. PICK i \in 1..n : f[i].sig = g /\ \A j \in 1..n : j > i => f[j].sig >= g
    BY <1>1 DEF Stacked, OnStack
  <2>2. i # n
    <3>1. SUFFICES ASSUME i = n PROVE FALSE
      OBVIOUS
    <3>2. CASE m = n
      BY <1>3, <2>1, <3>1, <3>2
    <3>3. CASE m # n
      <4>1. f[n].sig >= h
        BY <1>1, <1>3, <3>3
      <4>2. f[n].sig = g /\ g <= h /\ g \in Int /\ h \in Int
        BY <1>1, <1>2, <1>3, <2>1, <3>1
      <4> QED
        BY <4>1, <4>2
    <3> QED
      BY <3>2, <3>3
  <2>3. i \in 1..(n - 1)
    BY <1>1, <2>1, <2>2
  <2>4. ASSUME NEW j \in 1..(n - 1), j > i PROVE f1[j].sig >= g
    <3>1. j \in 1..n
      BY <1>1, <2>4
    <3> QED
      BY <1>1, <2>1, <2>4, <3>1
  <2> QED
    BY <1>1, <2>1, <2>3, <2>4 DEF OnStack
<1> QED
  BY <1>0, <1>4 DEF Stacked

-----------------------------------------------------------------------------
(***************************************************************************)
(* Steps.                                                                  *)
(***************************************************************************)

\* The handlers of s are those it had.
HandlersStay(k, k1, s) ==
  /\ k.state[s] # "STOPPED"
  /\ k1.signals_enabled[s] = k.signals_enabled[s] /\ k1.frames[s] = k.frames[s]

\* The last of them returns.
HandlerReturns(k, k1, s) ==
  /\ k.state[s] # "STOPPED" /\ k.frames[s] # << >> /\ k.signals_enabled[s] # {}
  /\ k1.frames[s] = SubSeq(k.frames[s], 1, Len(k.frames[s]) - 1)
  /\ k1.signals_enabled[s] = k.signals_enabled[s] \ {Highest(k.signals_enabled[s])}

\* What a step up to the return to user mode does to the handlers of a process: no more
\* than that, unless it creates the process.
HandlersAfter(k, k1, s) ==
  \/ HandlersStay(k, k1, s)
  \/ k.state[s] = "STOPPED" /\ k1.signals_enabled[s] = {} /\ k1.frames[s] = << >>
  \/ HandlerReturns(k, k1, s)

\* Every step that the kernel survives does one of these, and to a process that is blocked
\* after it not even that.
LEMMA StepHandlers ==
  ASSUME NEW k, NEW k1, NEW id, Safe(k), k.halt = "no", Step(k, k1, id), k1.halt = "no",
         NEW s \in Slots, k1.state[s] # "STOPPED"
  PROVE  /\ HandlersAfter(k, k1, s)
         /\ k1.state[s] = "BLOCKED" =>
              k.state[s] \in {"RUNNING", "BLOCKED"} /\ SameSignals(k, k1, s)
<1> DEFINE Goal == /\ HandlersAfter(k, k1, s)
                   /\ k1.state[s] = "BLOCKED" =>
                        k.state[s] \in {"RUNNING", "BLOCKED"} /\ SameSignals(k, k1, s)
<1>1. ~Broken(k, k1, id)
  BY DEF Broken
<1>2. ASSUME NEW P, NEW i, Calm(k, k1, P, i), s \notin P PROVE Goal
  BY <1>2 DEF Calm, SameSignals, HandlersAfter, HandlersStay
<1>3. CASE Calm(k, k1, {}, id)
  BY <1>2, <1>3
<1>4. ASSUME NEW p \in Slots, Created(k, k1, p, id) PROVE Goal
  <2>1. CASE s = p
    BY <1>4, <2>1 DEF Created, HandlersAfter
  <2> QED
    BY <1>2, <1>4, <2>1 DEF Created
<1>5. ASSUME NEW p \in Slots, NEW g \in Signals, Signalled(k, k1, p, g, id)
      PROVE  Goal
  <2>1. CASE s = p
    BY <1>5, <2>1 DEF Signalled, HandlersAfter, HandlersStay
  <2> QED
    BY <1>2, <1>5, <2>1 DEF Signalled
<1>6. ASSUME k.process \in Slots PROVE k.state[k.process] = "RUNNING"
  BY <1>6, SlotsNotNull DEF Safe
<1>7. CASE k.process \in Slots /\ Ended(k, k1, k.process)
  BY <1>2, <1>7 DEF Ended
<1>8. CASE k.process \in Slots /\ Parked(k, k1, k.process, id)
  <2>1. CASE s = k.process
    BY <1>6, <1>8, <2>1 DEF Parked, SameSignals, HandlersAfter, HandlersStay
  <2> QED
    BY <1>2, <1>8, <2>1 DEF Parked
<1>9. CASE k.process \in Slots /\ Waits(k, k1, k.process, id)
  <2>1. CASE s = k.process
    BY <1>6, <1>9, <2>1 DEF Waits, Blocking, SameSignals, HandlersAfter, HandlersStay
  <2> QED
    BY <1>2, <1>9, <2>1 DEF Waits, Blocking
<1>10. CASE k.process \in Slots /\ Returned(k, k1, k.process, id)
  <2>1. CASE s = k.process
    BY <1>10, <2>1 DEF Returned, HandlersAfter, HandlerReturns
  <2> QED
    BY <1>2, <1>10, <2>1 DEF Returned
<1> QED
  BY <1>1, <1>3, <1>4, <1>5, <1>7, <1>8, <1>9, <1>10 DEF Step

\* The stack of a process before contextswitch() resumes one.
LEMMA StepStacked ==
  ASSUME NEW k \in KernelStates, NEW k1, NEW s \in Slots, HandlersAfter(k, k1, s),
         k.state[s] # "STOPPED" => Stacked(k.frames[s], k.signals_enabled[s])
  PROVE  Stacked(k1.frames[s], k1.signals_enabled[s])
<1>1. k.frames[s] \in Seq(Frames) /\ k.signals_enabled[s] \in SUBSET Signals
  BY DEF KernelStates
<1>2. CASE HandlersStay(k, k1, s)
  BY <1>2 DEF HandlersStay
<1>3. CASE k1.signals_enabled[s] = {}
  BY <1>3 DEF Stacked
<1>4. CASE HandlerReturns(k, k1, s)
  BY <1>1, <1>4, PopStacked DEF HandlerReturns
<1> QED
  BY <1>2, <1>3, <1>4 DEF HandlersAfter

\* And after it.
LEMMA ResumeStacked ==
  ASSUME NEW k \in KernelStates, NEW k1, Resumed(k, k1), NEW s \in Slots,
         Stacked(k.frames[s], k.signals_enabled[s])
  PROVE  Stacked(k1.frames[s], k1.signals_enabled[s])
<1>1. CASE k1 = k
  BY <1>1
<1>2. ASSUME Delivered(k, k1, k.process), s # k.process
      PROVE  Stacked(k1.frames[s], k1.signals_enabled[s])
  BY <1>2 DEF Delivered, SameSignals
<1>3. ASSUME Delivered(k, k1, s) PROVE Stacked(k1.frames[s], k1.signals_enabled[s])
  <2>1. PICK a, b, g, f, x :
          /\ a = k.signals_pending[s] /\ b = k.signals_enabled[s] /\ f = k.frames[s]
          /\ x \in Frames /\ x.sig = g /\ k1.frames[s] = Append(f, x)
          /\ k1.signals_enabled[s] = b \cup {g}
          /\ Exceeds(a, b) /\ g \in a /\ \A h \in a : h <= g
    BY <1>3 DEF Delivered
  <2>2. a \in SUBSET Signals /\ b \in SUBSET Signals /\ f \in Seq(Frames)
    BY <2>1 DEF KernelStates
  <2>3. \A h \in b : h <= g
    BY <2>1, <2>2, ExceedsHighest
  <2>4. Stacked(f, b)
    BY <2>1
  <2> QED
    BY <2>1, <2>2, <2>3, <2>4, PushStacked
<1> QED
  BY <1>1, <1>2, <1>3 DEF Resumed

\* After contextswitch() no signal that can be delivered is left to the process it resumes.
LEMMA ResumeDelivers ==
  ASSUME NEW k \in KernelStates, NEW k1, Resumed(k, k1), k.halt = "no", k.process \in Slots
  PROVE  ~Exceeds(k1.signals_pending[k.process], k1.signals_enabled[k.process])
<1>0. PICK s : s = k.process /\ s \in Slots
  OBVIOUS
<1>1. CASE k1 = k
  <2>1. s # IDLE
    BY <1>0, SlotsNotNull
  <2>2. Delivered(k, k1, s) => k1.signals_pending[s] # k.signals_pending[s]
    BY DEF Delivered
  <2> QED
    BY <1>0, <1>1, <2>1, <2>2 DEF Resumed
<1>2. CASE Delivered(k, k1, s)
  <2>1. PICK a, b, g :
          /\ a = k.signals_pending[s] /\ b = k.signals_enabled[s]
          /\ k1.signals_pending[s] = a \ {g} /\ k1.signals_enabled[s] = b \cup {g}
          /\ g \in a /\ \A h \in a : h <= g
    BY <1>2 DEF Delivered
  <2>2. a \in SUBSET Signals /\ b \in SUBSET Signals
    BY <1>0, <2>1 DEF KernelStates
  <2>3. ~Exceeds(a \ {g}, b \cup {g})
    BY <2>1, <2>2, ExceedsHighest
  <2> QED
    BY <1>0, <2>1, <2>3
<1> QED
  BY <1>0, <1>1, <1>2 DEF Resumed

\* The dispatcher starts without signals.
LEMMA InitSignals ==
  ASSUME Init
  PROVE  \A s \in Slots : /\ kern.signals_pending[s] = {}
                          /\ kern.signals_enabled[s] = {}
<1>0. PICK table \in NewTables : kern = Resume(get_next_pcb(create(initpcb, table)))
  BY DEF Init
<1>1. PICK k, k1, k2, p : /\ k = initpcb /\ k1 = create(k, table) /\ k2 = get_next_pcb(k1)
                          /\ p = Head(k.stopped_queue)
  OBVIOUS
<1>2. /\ k \in KernelStates /\ k.stopped_queue = [s \in Slots |-> s]
      /\ \A s \in Slots : k.signals_pending[s] = {} /\ k.signals_enabled[s] = {}
  BY <1>1, InitpcbType DEF initpcb
<1>3. k.stopped_queue # << >>
  <2>1. 1 \in Slots
    BY TableAssumption DEF Slots
  <2>2. 1 \in Elems(k.stopped_queue)
    BY <1>2, <2>1 DEF Elems
  <2> QED
    BY <2>2, EmptyQueue
<1>4. k1 \in KernelStates
  BY <1>1, <1>2, <1>3, CreateType
<1>5. /\ k1.signals_pending = k.signals_pending
      /\ \/ k1.signals_enabled = k.signals_enabled
         \/ k1.signals_enabled = [k.signals_enabled EXCEPT ![p] = {}]
  BY <1>1, <1>2 DEF create, add_pcb_to_ready_queue, Offered, KernelStates
<1>6. \A s \in Slots : k1.signals_pending[s] = {} /\ k1.signals_enabled[s] = {}
  BY <1>2, <1>5 DEF KernelStates
<1>7. k2 \in KernelStates
  BY <1>1, <1>4, GetNextType
<1>8. k2.signals_pending = k1.signals_pending /\ k2.signals_enabled = k1.signals_enabled
  BY <1>1, <1>4 DEF get_next_pcb, KernelStates
<1>9. \A s \in Slots : ~Delivered(k2, kern, s)
  BY <1>6, <1>8 DEF Delivered
<1>10. kern = k2
  BY <1>0, <1>1, <1>7, <1>9, ResumeEffect DEF Resumed
<1> QED
  BY <1>6, <1>8, <1>10

-----------------------------------------------------------------------------
(***************************************************************************)
(* The theorems.                                                           *)
(***************************************************************************)

\* In every state the stacks of all processes are in order.
LEMMA StacksOrdered == Spec => []StackInv
<1>1. Init => StackInv
  BY InitSignals DEF StackInv, Stacked
<1>2. IInv /\ StackInv /\ [Next]_kern => StackInv'
  <2> SUFFICES ASSUME Safe(kern), StackInv, [Next]_kern, kern'.halt = "no",
                      NEW s \in Slots, kern'.state[s] # "STOPPED"
               PROVE  Stacked(kern'.frames[s], kern'.signals_enabled[s])
    BY DEF IInv, StackInv, Runs
  <2>1. CASE kern' = kern
    BY <2>1 DEF StackInv, Runs
  <2>2. ASSUME NEW k1, Move(kern, k1, kern', CallerPid)
        PROVE  Stacked(kern'.frames[s], kern'.signals_enabled[s])
    <3>1. PICK k, id : k = kern /\ id = CallerPid
      OBVIOUS
    <3>2. /\ k.halt = "no" /\ Safe(k) /\ k \in KernelStates
          /\ k1 \in KernelStates /\ k1.halt = "no" /\ k1.state[s] # "STOPPED"
          /\ Step(k, k1, id) /\ Resumed(k1, kern')
      BY <2>2, <3>1 DEF Move, Resumed, Safe
    <3>3. HandlersAfter(k, k1, s)
      BY <3>2, StepHandlers
    <3>4. k.state[s] # "STOPPED" => Stacked(k.frames[s], k.signals_enabled[s])
      BY <3>1, <3>2 DEF StackInv, Runs
    <3>5. Stacked(k1.frames[s], k1.signals_enabled[s])
      BY <3>2, <3>3, <3>4, StepStacked
    <3> QED
      BY <3>2, <3>5, ResumeStacked
  <2> QED
    BY <2>1, <2>2, NextMoves
<1> QED
  BY <1>1, <1>2, SafeAlways, PTL DEF Spec

\* In every state of a running kernel, for tables of every size and whatever the processes
\* do, each bit in signals_enabled is that of a handler in progress: sigreturn in c/disp.c
\* leaves no bit behind.
THEOREM BitsHaveHandlers == Spec => []EnabledAreInProgress
<1>1. StackInv => EnabledAreInProgress
  BY DEF StackInv, Stacked, OnStack, EnabledAreInProgress
<1> QED
  BY <1>1, StacksOrdered, PTL

\* In every state of a running kernel, for tables of every size and whatever the processes
\* do, a process that runs or is blocked has no signal that contextswitch() would deliver.
THEOREM SignalsDelivered == Spec => []NoSignalStranded
<1>1. Init => NoSignalStranded
  BY InitSignals DEF NoSignalStranded, Exceeds
<1>2. IInv /\ IInv' /\ NoSignalStranded /\ [Next]_kern => NoSignalStranded'
  <2> SUFFICES ASSUME Safe(kern), Safe(kern'), NoSignalStranded, [Next]_kern,
                      kern'.halt = "no",
                      NEW s \in Slots, kern'.state[s] \in {"RUNNING", "BLOCKED"}
               PROVE  ~Exceeds(kern'.signals_pending[s], kern'.signals_enabled[s])
    BY DEF IInv, NoSignalStranded, Runs
  <2>1. CASE kern' = kern
    BY <2>1 DEF NoSignalStranded, Runs
  <2>2. ASSUME NEW k1, Move(kern, k1, kern', CallerPid)
        PROVE  ~Exceeds(kern'.signals_pending[s], kern'.signals_enabled[s])
    <3>1. PICK k, k2, id : k = kern /\ k2 = kern' /\ id = CallerPid
      OBVIOUS
    <3>2. /\ k.halt = "no" /\ Safe(k) /\ k2.halt = "no" /\ Safe(k2)
          /\ k1 \in KernelStates /\ k1.halt = "no" /\ k1.state = k2.state
          /\ k1.process = k2.process
          /\ Step(k, k1, id) /\ Resumed(k1, k2)
      BY <2>2, <3>1 DEF Move, Resumed
    <3>3. k2.state[s] = "RUNNING" <=> s = k2.process
      BY <3>2, SlotsNotNull DEF Safe, Good, Placed
    <3>4. CASE s = k2.process
      BY <3>1, <3>2, <3>4, ResumeDelivers
    <3>5. CASE s # k2.process
      <4>1. k1.state[s] = "BLOCKED"
        BY <3>1, <3>2, <3>3, <3>5
      <4>2. k.state[s] \in {"RUNNING", "BLOCKED"} /\ SameSignals(k, k1, s)
        BY <3>2, <4>1, StepHandlers
      <4>3. SameSignals(k1, k2, s)
        BY <3>2, <3>5 DEF Resumed, Delivered, SameSignals
      <4>4. ~Exceeds(k.signals_pending[s], k.signals_enabled[s])
        BY <3>1, <3>2, <4>2 DEF NoSignalStranded, Runs
      <4> QED
        BY <3>1, <4>2, <4>3, <4>4 DEF SameSignals
    <3> QED
      BY <3>4, <3>5
  <2> QED
    BY <2>1, <2>2, NextMoves
<1> QED
  BY <1>1, <1>2, SafeAlways, PTL DEF Spec

\* Without its last context a stack of handlers of different signals, which all have their
\* bits, loses the bit of that handler alone.
LEMMA PopKeepsBits ==
  ASSUME NEW f \in Seq(Frames), f # << >>, NEW b \in SUBSET Signals, b # {}, Stacked(f, b),
         \A i \in DOMAIN f : f[i].sig \in b,
         \A i, j \in DOMAIN f : f[i].sig = f[j].sig => i = j
  PROVE  LET f1 == SubSeq(f, 1, Len(f) - 1)
         IN  \A i \in DOMAIN f1 : f1[i].sig \in b \ {Highest(b)}
<1>0. PICK f1, n, h : f1 = SubSeq(f, 1, n - 1) /\ n = Len(f) /\ h = Highest(b)
  OBVIOUS
<1>1. /\ n \in Nat /\ n >= 1 /\ DOMAIN f = 1..n /\ DOMAIN f1 = 1..(n - 1)
      /\ \A i \in 1..(n - 1) : f1[i] = f[i]
      /\ \A i \in 1..n : f[i].sig \in Int
  BY <1>0, PopProperties
<1>2. h \in b /\ \A g \in b : g <= h
  BY <1>0, HighestType
<1>3. PICK m \in 1..n : f[m].sig = h /\ \A j \in 1..n : j > m => f[j].sig >= h
  BY <1>1, <1>2 DEF Stacked, OnStack
<1>4. m = n
  <2>1. SUFFICES ASSUME m # n PROVE FALSE
    OBVIOUS
  <2>2. n \in 1..n /\ n > m
    BY <1>1, <2>1
  <2>3. f[n].sig >= h /\ f[n].sig <= h
    BY <1>1, <1>2, <1>3, <2>2
  <2>4. f[n].sig = f[m].sig
    BY <1>1, <1>3, <2>2, <2>3
  <2> QED
    BY <1>1, <1>3, <2>1, <2>2, <2>4
<1>5. ASSUME NEW i \in 1..(n - 1) PROVE f1[i].sig \in b \ {h}
  <2>1. i \in 1..n /\ i # n
    BY <1>1, <1>5
  <2>2. f[i].sig \in b /\ f[i].sig # h
    BY <1>1, <1>3, <1>4, <2>1
  <2> QED
    BY <1>1, <1>5, <2>2
<1> QED
  BY <1>0, <1>1, <1>5

\* A handler of s that is delivered keeps the bits of the others.
LEMMA ResumeKeepsBits ==
  ASSUME NEW k \in KernelStates, NEW k1, Resumed(k, k1), NEW s \in Slots, BitPerHandler(k, s)
  PROVE  BitPerHandler(k1, s)
<1>1. CASE k1 = k
  BY <1>1
<1>2. ASSUME Delivered(k, k1, k.process), s # k.process PROVE BitPerHandler(k1, s)
  BY <1>2 DEF Delivered, SameSignals, BitPerHandler
<1>3. ASSUME Delivered(k, k1, s) PROVE BitPerHandler(k1, s)
  <2>1. PICK b, g, f, x, f1, n :
          /\ b = k.signals_enabled[s] /\ f = k.frames[s]
          /\ x \in Frames /\ x.sig = g /\ k1.frames[s] = f1 /\ f1 = Append(f, x)
          /\ k1.signals_enabled[s] = b \cup {g} /\ n = Len(f)
    BY <1>3 DEF Delivered
  <2>2. f \in Seq(Frames)
    BY <2>1 DEF KernelStates
  <2>3. n \in Nat /\ DOMAIN f = 1..n
    BY <2>1, <2>2, ElemsProperties
  <2>4. DOMAIN f1 = 1..(n + 1) /\ f1[n + 1] = x /\ \A i \in 1..n : f1[i] = f[i]
    BY <2>1, <2>2, AppendProperties
  <2>5. \A i \in 1..n : f[i].sig \in b
    BY <2>1, <2>3 DEF BitPerHandler
  <2>6. \A i \in 1..(n + 1) : i = n + 1 \/ i \in 1..n
    BY <2>3
  <2>7. \A i \in 1..(n + 1) : f1[i].sig \in b \cup {g}
    BY <2>1, <2>4, <2>5, <2>6
  <2> QED
    BY <2>1, <2>4, <2>7 DEF BitPerHandler
<1> QED
  BY <1>1, <1>2, <1>3 DEF Resumed

\* The return of a handler clears the bit of that handler and of no other, as long as no two
\* of the same signal are in progress, in tables of every size and whatever the processes do.
THEOREM HandlersReturnRight == Spec => HandlersKeepBits
<1> DEFINE Right == \A s \in Slots :
       /\ Runs /\ kern'.halt = "no"
       /\ kern.state[s] # "STOPPED" /\ kern'.state[s] # "STOPPED"
       /\ BitPerHandler(kern, s)
       /\ \A i, j \in DOMAIN kern.frames[s] : kern.frames[s][i].sig = kern.frames[s][j].sig => i = j
       => BitPerHandler(kern', s)
<1>1. IInv /\ StackInv /\ [Next]_kern => [Right]_kern
  <2> SUFFICES ASSUME Safe(kern), StackInv, [Next]_kern, kern'.halt = "no", NEW s \in Slots,
                      kern.state[s] # "STOPPED", kern'.state[s] # "STOPPED",
                      BitPerHandler(kern, s),
                      \A i, j \in DOMAIN kern.frames[s] :
                        kern.frames[s][i].sig = kern.frames[s][j].sig => i = j
               PROVE  BitPerHandler(kern', s)
    BY DEF IInv
  <2>1. CASE kern' = kern
    BY <2>1
  <2>2. ASSUME NEW k1, Move(kern, k1, kern', CallerPid) PROVE BitPerHandler(kern', s)
    <3>1. PICK k, id : k = kern /\ id = CallerPid
      OBVIOUS
    <3>2. /\ k.halt = "no" /\ Safe(k) /\ k \in KernelStates
          /\ k1 \in KernelStates /\ k1.halt = "no" /\ k1.state[s] # "STOPPED"
          /\ Step(k, k1, id) /\ Resumed(k1, kern')
      BY <2>2, <3>1 DEF Move, Resumed, Safe
    <3>3. HandlersAfter(k, k1, s)
      BY <3>2, StepHandlers
    <3>4. CASE HandlersStay(k, k1, s)
      <4>1. BitPerHandler(k1, s)
        BY <3>1, <3>4 DEF HandlersStay, BitPerHandler
      <4> QED
        BY <3>2, <4>1, ResumeKeepsBits
    <3>5. CASE HandlerReturns(k, k1, s)
      <4>1. PICK f, b : f = k.frames[s] /\ b = k.signals_enabled[s]
        OBVIOUS
      <4>2. f \in Seq(Frames) /\ b \in SUBSET Signals
        BY <3>2, <4>1 DEF KernelStates
      <4>3. Stacked(f, b)
        BY <3>1, <3>2, <4>1 DEF StackInv, Runs
      <4>4. /\ \A i \in DOMAIN f : f[i].sig \in b
            /\ \A i, j \in DOMAIN f : f[i].sig = f[j].sig => i = j
        BY <3>1, <4>1 DEF BitPerHandler
      <4>5. /\ f # << >> /\ b # {}
            /\ k1.frames[s] = SubSeq(f, 1, Len(f) - 1)
            /\ k1.signals_enabled[s] = b \ {Highest(b)}
        BY <3>5, <4>1 DEF HandlerReturns
      <4>6. BitPerHandler(k1, s)
        BY <4>2, <4>3, <4>4, <4>5, PopKeepsBits DEF BitPerHandler
      <4> QED
        BY <3>2, <4>6, ResumeKeepsBits
    <3> QED
      BY <3>1, <3>3, <3>4, <3>5 DEF HandlersAfter
  <2> QED
    BY <2>1, <2>2, NextMoves
<1> QED
  BY <1>1, SafeAlways, StacksOrdered, PTL DEF Spec, HandlersKeepBits
=============================================================================
