------------------------------ MODULE MCSleep ------------------------------
(***************************************************************************)
(* The delta queue of the sleep device against one timer per process.      *)
(***************************************************************************)
EXTENDS Kernel

\* The sum of the deltas of the first i entries of the sleep queue.
Sums(k) ==
  LET q == k.sleep_queue
      sum[i \in 0..Len(q)] == IF i = 0 THEN 0 ELSE sum[i - 1] + k.ret[q[i]]
  IN  sum

\* The ticks a process still sleeps: its delta and those of all before it.
TicksLeft(k) ==
  [s \in Slots |->
     IF s \in Elems(k.sleep_queue)
     THEN Sums(k)[CHOOSE i \in DOMAIN k.sleep_queue : k.sleep_queue[i] = s] ELSE 0]

Remaining == TicksLeft(kern)

Timers == INSTANCE SleepTimers WITH
            Procs <- Slots,
            Times <- {Ticks(ms) : ms \in SleepMs},
            remaining <- Remaining

\* sleep(), tick() and the removal of a sleeper treat each process as if it had
\* its own timer: the delta queue of c/sleep.c implements SleepTimers.
ImplementsTimers == Timers!TimersSpec
=============================================================================
