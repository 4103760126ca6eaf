-------------------------------- MODULE Msg --------------------------------
(***************************************************************************)
(* Message passing: c/msg.c.  A transfer copies the shorter of the two     *)
(* buffers; a positive length is a positive length, so it is modelled as 1 *)
(* and the bytes are left out.                                             *)
(***************************************************************************)
EXTENDS Pcb

(***************************************************************************)
(* A process that is blocked in syswait() has no buffer: the kernel takes  *)
(* the words beside its one argument for a buffer and a length.  junk is   *)
(* what they make of the transfer: a copy through a garbage pointer, or    *)
(* the number of bytes of one that does no harm.                           *)
(***************************************************************************)
WILD == -1
Junk == {WILD, 0, 1}

\* The bytes a transfer with the blocked process p moves.
TransferLength(k, p, junk) == IF k.blocked_status[p] = "WAITING" THEN junk ELSE 1

\* curr waits in the blocked queue for the process with the pid id.
Block(k, curr, status, id) ==
  add_pcb_to_blocked_queue([k EXCEPT !.blocked_status[curr] = status,
                                     !.blocked_id[curr] = id], curr)

\* The call either blocks the caller or moves this many bytes.
Blocked(k) == [kern |-> k, blocked |-> TRUE, ret |-> SYSPID_DNE]
Done(k, n) == [kern |-> k, blocked |-> FALSE, ret |-> n]

\* The transfer with the blocked process p, now in no queue, which completes
\* its call.
Complete(k, p, junk) ==
  LET n == TransferLength(k, p, junk)
  IN  IF n = WILD
      THEN Done([k EXCEPT !.halt = "wild"], n)
      ELSE Done([add_pcb_to_ready_queue(k, p) EXCEPT !.blocked_id[p] = 0, !.ret[p] = n], n)

(***************************************************************************)
(* A receiver from any process is only looked up here, not removed from    *)
(* the blocked queue, and as it waits for pid 0 it never matches.          *)
(***************************************************************************)
send(k, curr, dest, junk) ==
  LET any    == peek_any_receiver(k)
      exists == dest \in Elems(k.blocked_queue)
      target == IF exists THEN dest ELSE any
      k1     == IF exists THEN remove_pcb_from_blocked_queue(k, dest) ELSE k
  IN  IF ~exists /\ any = NULL
      THEN Blocked(Block(k, curr, "SEND", k.pid[dest]))
      ELSE IF k1.blocked_id[target] # k1.pid[curr]
      THEN LET k2 == add_pcb_to_blocked_queue(k1, target)
           IN  Blocked(Block(k2, curr, "SEND", k2.pid[target]))
      ELSE Complete(k1, target, junk)

\* Bug: the pid that the sender waits for is compared with that of the sender.
Mutant_recv(k, from, curr, junk) ==
  LET exists == from # NULL
      source == IF exists THEN from ELSE peek_next_sender(k)
      k1     == remove_pcb_from_blocked_queue(k, source)
  IN  IF source = NULL \/ source \notin Elems(k.blocked_queue)
      THEN Blocked(Block(k, curr, "RECEIVE", IF exists THEN k.pid[from] ELSE 0))
      ELSE IF exists /\ k1.blocked_id[source] # k1.pid[source]
      THEN LET k2 == add_pcb_to_blocked_queue(k1, source)
           IN  Blocked(Block(k2, curr, "RECEIVE", k2.pid[source]))
      ELSE Complete(k1, source, junk)

\* from is NULL to receive from any process.
recv(k, from, curr, junk) ==
  LET exists == from # NULL
      source == IF exists THEN from ELSE peek_next_sender(k)
      k1     == remove_pcb_from_blocked_queue(k, source)
  IN  IF source = NULL \/ source \notin Elems(k.blocked_queue)
      THEN Blocked(Block(k, curr, "RECEIVE", IF exists THEN k.pid[from] ELSE 0))
      ELSE IF exists /\ k1.blocked_id[source] # k1.pid[curr]
      THEN LET k2 == add_pcb_to_blocked_queue(k1, source)
           IN  Blocked(Block(k2, curr, "RECEIVE", k2.pid[source]))
      ELSE Complete(k1, source, junk)
=============================================================================
