------------------------------- MODULE Sleep -------------------------------
(***************************************************************************)
(* The sleep device: c/sleep.c.  The sleep queue is a delta queue: pcb->ret *)
(* of an entry is the number of ticks it sleeps after the entry before it. *)
(***************************************************************************)
EXTENDS Pcb

MS_PER_CLOCK_TICK == 10

\* The clock ticks that cover a time in milliseconds.
Ticks(ms) == (ms \div MS_PER_CLOCK_TICK)
               + (IF ms % MS_PER_CLOCK_TICK # 0 THEN 1 ELSE 0)

\* The ticks left of those asked for behind the first i entries of the queue.
Left(k, ticks) ==
  LET left[i \in 0..Len(k.sleep_queue)] ==
        IF i = 0 THEN ticks ELSE left[i - 1] - k.ret[k.sleep_queue[i]]
  IN  left

\* How many entries the new one goes behind: the walk stops at the first
\* entry that does not wake before it.
Behind(k, ticks) ==
  LET q == k.sleep_queue
      stops == {i \in 0..Len(q) : i = Len(q) \/ k.ret[q[i + 1]] >= Left(k, ticks)[i]}
  IN  CHOOSE i \in stops : \A j \in stops : i <= j

\* The list with p inserted behind its first n entries.
InsertAt(q, n, p) ==
  [i \in 1..(Len(q) + 1) |-> IF i <= n THEN q[i] ELSE IF i = n + 1 THEN p ELSE q[i - 1]]

\* Bug: the delta of the entry behind the new one is not adjusted.
Mutant_add_pcb_to_sleep_queue(k, p, ticks) ==
  LET n == Behind(k, ticks)
  IN  Offered(k, p,
        [k EXCEPT !.state[p] = "BLOCKED",
                  !.blocked_status[p] = "SLEEP",
                  !.sleep_queue = InsertAt(k.sleep_queue, n, p),
                  !.ret[p] = Left(k, ticks)[n]])

add_pcb_to_sleep_queue(k, p, ticks) ==
  LET q     == k.sleep_queue
      n     == Behind(k, ticks)
      delta == Left(k, ticks)[n]
      ret1  == [k.ret EXCEPT ![p] = delta]
  IN  Offered(k, p,
        [k EXCEPT !.state[p] = "BLOCKED",
                  !.blocked_status[p] = "SLEEP",
                  !.sleep_queue = InsertAt(q, n, p),
                  !.ret = IF n = Len(q) THEN ret1 ELSE [ret1 EXCEPT ![q[n + 1]] = @ - delta]])

sleep(k, p, ms) == add_pcb_to_sleep_queue(k, p, Ticks(ms))

wake(k, p) == add_pcb_to_ready_queue(remove_pcb_from_sleep_queue(k, p), p)

\* Bug: an entry that has one tick left is due.
Mutant_Due(k) ==
  LET q == k.sleep_queue
      due == {n \in 0..Len(q) : \A i \in 1..n : k.ret[q[i]] <= 1}
  IN  CHOOSE n \in due : \A m \in due : m <= n

\* How many entries at the head of the queue are due: the loop of tick()
\* wakes the head as long as it has no tick left.
Due(k) ==
  LET q == k.sleep_queue
      due == {n \in 0..Len(q) : \A i \in 1..n : k.ret[q[i]] <= 0}
  IN  CHOOSE n \in due : \A m \in due : m <= n

\* Wakes the first n entries of the queue, in their order.
WakeFirst(k, n) ==
  LET q     == k.sleep_queue
      woken == Elems(SubSeq(q, 1, n))
  IN  [k EXCEPT
         !.sleep_queue = SubSeq(q, n + 1, Len(q)),
         !.ready_queue = @ \o SubSeq(q, 1, n),
         !.state = [p \in Slots |-> IF p \in woken THEN "READY" ELSE @[p]],
         !.blocked_status = [p \in Slots |-> IF p \in woken THEN "NONE" ELSE @[p]]]

\* Bug: the tick is not taken off the head.
Mutant_tick(k) == IF k.sleep_queue = << >> THEN k ELSE WakeFirst(k, Due(k))

\* A clock tick: one tick off the head, then all that are due wake up.
tick(k) ==
  IF k.sleep_queue = << >> THEN k
  ELSE LET k1 == [k EXCEPT !.ret[Head(k.sleep_queue)] = @ - 1]
       IN  WakeFirst(k1, Due(k1))
=============================================================================
