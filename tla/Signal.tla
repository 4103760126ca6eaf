------------------------------- MODULE Signal -------------------------------
(***************************************************************************)
(* Signals: c/signal.c and the signal part of c/ctsw.c.  The bit masks     *)
(* signals_pending and signals_enabled are the sets of their bits.         *)
(***************************************************************************)
EXTENDS Sleep

\* Bug: any signal that is not being handled interrupts a handler.
Mutant_Exceeds(a, b) == a \ b # {}

\* The unsigned comparison of two masks: the highest bit in which they differ
\* decides.
Exceeds(a, b) == \E g \in a \ b : \A h \in b \ a : h < g

Highest(mask) == CHOOSE g \in mask : \A h \in mask : h <= g

\* Pushes the interrupted context and a frame for sigtramp(), which runs the
\* handler, on the stack of p.  A handler that is no function takes the
\* processor elsewhere.
signal(k, p, g) ==
  LET handler == k.signal_table[p][g]
  IN  [k EXCEPT !.signals_enabled[p] = @ \cup {g},
                !.frames[p] = Append(@, [sig |-> g, handler |-> handler, ret |-> k.ret[p]]),
                !.halt = IF handler \in {"NULL", "junk"} THEN "wild" ELSE @]

\* Bug: no signal interrupts a handler.
Mutant_deliver_highest_priority_signal(k, p) ==
  IF k.signals_enabled[p] = {}
  THEN LET g == Highest(k.signals_pending[p])
       IN  signal([k EXCEPT !.signals_pending[p] = @ \ {g}], p, g)
  ELSE k

deliver_highest_priority_signal(k, p) ==
  IF Exceeds(k.signals_pending[p], k.signals_enabled[p])
  THEN LET g == Highest(k.signals_pending[p])
       IN  signal([k EXCEPT !.signals_pending[p] = @ \ {g}], p, g)
  ELSE k

\* Bug: a process that is blocked in syswait() is left there.
Mutant_set_pcb_signal_Strand(k, p, g) ==
  LET k1 == [k EXCEPT !.signals_pending[p] = @ \cup {g}]
      status == k.blocked_status[p]
  IN  IF k.signal_table[p][g] = "NULL" THEN k
      ELSE IF k.state[p] # "BLOCKED" THEN k1
      ELSE IF status = "SLEEP" THEN wake(k1, p)
      ELSE IF status \in {"SEND", "RECEIVE"}
      THEN add_pcb_to_ready_queue(
             remove_pcb_from_blocked_queue(SetRet(k1, p, BLOCKED_PROC_SIGNALED), p), p)
      ELSE k1

\* Bug: a process in syswait() is not expected either.
Mutant_set_pcb_signal_Wait(k, p, g) ==
  LET k1 == [k EXCEPT !.signals_pending[p] = @ \cup {g}]
      status == k.blocked_status[p]
  IN  IF k.signal_table[p][g] = "NULL" THEN k
      ELSE IF k.state[p] # "BLOCKED" THEN k1
      ELSE IF status = "SLEEP" THEN wake(k1, p)
      ELSE IF status \in {"SEND", "RECEIVE"}
      THEN add_pcb_to_ready_queue(
             remove_pcb_from_blocked_queue(SetRet(k1, p, BLOCKED_PROC_SIGNALED), p), p)
      ELSE [k1 EXCEPT !.halt = "assert"]

\* Marks the signal, unless it is ignored, and takes a blocked process out of
\* its call.  A process blocked on a device is not expected here.
set_pcb_signal(k, p, g) ==
  LET k1 == [k EXCEPT !.signals_pending[p] = @ \cup {g}]
      status == k.blocked_status[p]
  IN  IF k.signal_table[p][g] = "NULL" THEN k
      ELSE IF k.state[p] # "BLOCKED" THEN k1
      ELSE IF status = "SLEEP" THEN wake(k1, p)
      ELSE IF status \in {"SEND", "RECEIVE"}
      THEN add_pcb_to_ready_queue(
             remove_pcb_from_blocked_queue(SetRet(k1, p, BLOCKED_PROC_SIGNALED), p), p)
      ELSE IF status = "WAITING"
      THEN add_pcb_to_ready_queue(remove_pcb_from_blocked_queue(k1, p), p)
      ELSE [k1 EXCEPT !.halt = "assert"]
=============================================================================
