---------------------------- MODULE SleepTimers ----------------------------
(***************************************************************************)
(* What the sleep device promises: every sleeping process has a timer of   *)
(* its own, a clock tick takes one off every timer, and a process wakes up *)
(* when its timer runs out, whatever the others do.                        *)
(***************************************************************************)
EXTENDS Integers

CONSTANTS
  Procs,     \* processes
  Times      \* the times, in ticks, that a process may sleep

VARIABLE remaining   \* ticks left for each process, 0 if it is awake

TimersInit == remaining = [p \in Procs |-> 0]

\* A process that is awake goes to sleep.
Sleep(p) ==
  /\ remaining[p] = 0
  /\ \E t \in Times : remaining' = [remaining EXCEPT ![p] = t]

\* A signal takes a process out of its sleep.
Interrupt(p) ==
  /\ remaining[p] > 0
  /\ remaining' = [remaining EXCEPT ![p] = 0]

Tick == remaining' = [p \in Procs |-> IF remaining[p] > 0 THEN remaining[p] - 1 ELSE 0]

TimersNext == Tick \/ \E p \in Procs : Sleep(p) \/ Interrupt(p)

TimersSafety == TimersInit /\ [][TimersNext]_remaining

TimersSpec == TimersSafety /\ WF_remaining(Tick)
=============================================================================
