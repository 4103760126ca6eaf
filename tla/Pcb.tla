-------------------------------- MODULE Pcb --------------------------------
(***************************************************************************)
(* The process table and the process queues of the kernel: c/pcb.c on top  *)
(* of c/pcbqueue.c, with the pcb structure of h/xeroskernel.h.             *)
(*                                                                         *)
(* The kernel runs with interrupts off on one processor, so each of its    *)
(* functions is an operator from a kernel state k (a record that holds the *)
(* kernel's static data) to the next one; a system call handler is the     *)
(* composition of such operators in the order of the source.               *)
(*                                                                         *)
(* A pcb is named by its slot, 1..PCB_TABLE_SIZE for pcb_array[0..].  A    *)
(* queue is the sequence of the slots that its list links.  The lists are  *)
(* intrusive (pcb->next), so a pcb that is offered to a queue while a list *)
(* still links it cuts that list short and the queue's size no longer      *)
(* counts its entries: the state is then marked "corrupt" and explored no  *)
(* further.                                                                *)
(***************************************************************************)
EXTENDS Integers, Sequences, FiniteSets

CONSTANTS
  PCB_TABLE_SIZE,     \* number of pcbs (32 in the kernel)
  PID_MAX,            \* largest pid (32768 in the kernel)
  SIGNAL_TABLE_SIZE   \* number of signals (32 in the kernel)

\* The table has a slot, and pids wrap around at a multiple of its size.
ASSUME TableAssumption ==
  /\ PCB_TABLE_SIZE \in Nat \ {0}
  /\ PID_MAX \in Nat \ {0}
  /\ \E m \in 1..PID_MAX : PID_MAX = m * PCB_TABLE_SIZE

\* There is a signal besides the kill signal.
ASSUME SignalAssumption == SIGNAL_TABLE_SIZE \in Nat \ {0, 1}

Slots == 1..PCB_TABLE_SIZE
Signals == 0..(SIGNAL_TABLE_SIZE - 1)
KILL_SIGNAL_NUM == SIGNAL_TABLE_SIZE - 1

NULL == 0    \* the null pcb pointer
IDLE == 0    \* the idle process, pid 0, which is in no slot and in no queue

CREATE_FAILURE       == -1
SYSERR               == -1
BLOCKERR             == -5
SYSPID_DNE           == -1
SYSPID_SELF          == -2
SYSERR_OTHER         == -3
INVALID_SIGNAL       == -1
SYSHANDLER_INVALID   == -2
SYSKILL_TARGET_DNE   == -512
SYSKILL_SIG_INVALID  == -561
BLOCKED_PROC_SIGNALED == -99

ProcStates == {"READY", "STOPPED", "RUNNING", "BLOCKED"}
BlockedStatuses == {"NONE", "SEND", "RECEIVE", "WAITING", "SLEEP", "DEVICE"}

\* What an entry of a signal table points to: nothing, a handler of the
\* process, sysstop(), or whatever the heap block held before.
Handlers == {"NULL", "handler", "sysstop", "junk"}

\* A context that signal() saved on the user's stack, and the handler that
\* runs above it.
Frames == [sig : Signals, handler : Handlers, ret : Int]

(***************************************************************************)
(* Why the kernel no longer runs: it does ("no"), an ASSERT failed, a loop *)
(* of the kernel does not end, a queue is corrupt, or control or data went *)
(* through a garbage pointer.                                              *)
(***************************************************************************)
Halts == {"no", "assert", "spin", "corrupt", "wild"}

\* The kernel's state, one function of the slots per field of pcb_t.
KernelStates ==
  [ pid             : [Slots -> 1..PID_MAX],
    state           : [Slots -> ProcStates],
    blocked_id      : [Slots -> 0..PID_MAX],
    blocked_status  : [Slots -> BlockedStatuses],
    ret             : [Slots -> Int],
    signal_table    : [Slots -> [Signals -> Handlers]],
    signals_enabled : [Slots -> SUBSET Signals],
    signals_pending : [Slots -> SUBSET Signals],
    frames          : [Slots -> Seq(Frames)],
    ready_queue     : Seq(Slots),
    blocked_queue   : Seq(Slots),
    sleep_queue     : Seq(Slots),
    stopped_queue   : Seq(Slots),
    process         : Slots \cup {IDLE},
    halt            : Halts ]

-----------------------------------------------------------------------------
(***************************************************************************)
(* Queues: c/pcbqueue.c                                                    *)
(***************************************************************************)

\* The pcbs that a list links.
Elems(q) == {q[i] : i \in DOMAIN q}

\* The list links no pcb twice.
NoRepeats(q) == \A i, j \in DOMAIN q : q[i] = q[j] => i = j

\* The sub-sequence of the entries of q that are in T, in the order of q:
\* the j-th of them is at the position that j of their positions do not exceed.
Positions(q, T) == {i \in DOMAIN q : q[i] \in T}
Nth(I, j) == CHOOSE i \in I : Cardinality({m \in I : m <= i}) = j
Keep(q, T) == [j \in 1..Cardinality(Positions(q, T)) |-> q[Nth(Positions(q, T), j)]]

\* Bug: the walk over the list after its head is missing.
Mutant_pcb_remove(q, entry) == IF q # << >> /\ Head(q) = entry THEN Tail(q) ELSE q

\* The list without the entry; the same list when it does not link the entry.
pcb_remove(q, entry) == Keep(q, Elems(q) \ {entry})

\* The first entry of the list in T, NULL if there is none.
FirstIn(q, T) == LET hits == Keep(q, T) IN IF hits = << >> THEN NULL ELSE hits[1]

\* Some list links the pcb.
Linked(k, p) == p \in Elems(k.ready_queue) \cup Elems(k.blocked_queue)
                        \cup Elems(k.sleep_queue) \cup Elems(k.stopped_queue)

\* k1 is the state after p, which must be in no list, has been offered to a queue.
Offered(k, p, k1) == IF Linked(k, p) THEN [k EXCEPT !.halt = "corrupt"] ELSE k1

-----------------------------------------------------------------------------
(***************************************************************************)
(* The process table: c/pcb.c                                              *)
(***************************************************************************)

\* All pcbs are on the stopped queue; the rest of a static pcb_t is zero.
initpcb ==
  [ pid             |-> [s \in Slots |-> s],
    state           |-> [s \in Slots |-> "STOPPED"],
    blocked_id      |-> [s \in Slots |-> 0],
    blocked_status  |-> [s \in Slots |-> "NONE"],
    ret             |-> [s \in Slots |-> 0],
    signal_table    |-> [s \in Slots |-> [g \in Signals |-> "NULL"]],
    signals_enabled |-> [s \in Slots |-> {}],
    signals_pending |-> [s \in Slots |-> {}],
    frames          |-> [s \in Slots |-> << >>],
    ready_queue     |-> << >>,
    blocked_queue   |-> << >>,
    sleep_queue     |-> << >>,
    stopped_queue   |-> [s \in Slots |-> s],
    process         |-> IDLE,
    halt            |-> "no" ]

\* Bug: pids do not wrap around.
Mutant_NextPid_NoWrap(pid) == pid + PCB_TABLE_SIZE

\* Bug: the remainder is taken as if pids started at 0.
Mutant_NextPid_OffByOne(pid) == ((pid + PCB_TABLE_SIZE) % PID_MAX) + 1

\* The pid that the slot's next process will have.
NextPid(pid) == ((pid + PCB_TABLE_SIZE - 1) % PID_MAX) + 1

add_pcb_to_stopped_queue(k, p) ==
  Offered(k, p, [k EXCEPT !.pid[p] = NextPid(@),
                          !.state[p] = "STOPPED",
                          !.stopped_queue = Append(@, p)])

add_pcb_to_ready_queue(k, p) ==
  Offered(k, p, [k EXCEPT !.state[p] = "READY",
                          !.blocked_status[p] = "NONE",
                          !.ready_queue = Append(@, p)])

\* Bug: the state is not set.
Mutant_add_pcb_to_blocked_queue(k, p) ==
  Offered(k, p, [k EXCEPT !.blocked_queue = Append(@, p)])

add_pcb_to_blocked_queue(k, p) ==
  Offered(k, p, [k EXCEPT !.state[p] = "BLOCKED",
                          !.blocked_queue = Append(@, p)])

remove_pcb_from_ready_queue(k, p) ==
  [k EXCEPT !.ready_queue = pcb_remove(@, p)]

remove_pcb_from_blocked_queue(k, p) ==
  [k EXCEPT !.blocked_queue = pcb_remove(@, p)]

remove_pcb_from_sleep_queue(k, p) ==
  [k EXCEPT !.sleep_queue = pcb_remove(@, p)]

\* Both scans poll and offer back every entry once: the queue is as before.
peek_next_sender(k) ==
  FirstIn(k.blocked_queue, {p \in Slots : k.blocked_status[p] = "SEND"})

peek_any_receiver(k) ==
  FirstIn(k.blocked_queue, {p \in Slots : k.blocked_id[p] = 0})

\* Bug: everything that waits for the end of a process goes on.
Mutant_unblock_pcb_waiting_for_pid(k, id) ==
  LET hit == {p \in Elems(k.blocked_queue) :
                k.blocked_id[p] = id \/ k.blocked_status[p] = "WAITING"}
  IN  [k EXCEPT
         !.blocked_queue = Keep(@, Slots \ hit),
         !.ready_queue = @ \o Keep(k.blocked_queue, hit),
         !.blocked_id = [p \in Slots |-> IF p \in hit THEN 0 ELSE @[p]],
         !.blocked_status = [p \in Slots |-> IF p \in hit THEN "NONE" ELSE @[p]],
         !.state = [p \in Slots |-> IF p \in hit THEN "READY" ELSE @[p]]]

\* One scan of the blocked queue: what waits for the pid, whatever it waits
\* for it to do, goes to the ready queue, and the rest back to the blocked queue.
unblock_pcb_waiting_for_pid(k, id) ==
  LET hit == {p \in Elems(k.blocked_queue) : k.blocked_id[p] = id}
  IN  [k EXCEPT
         !.blocked_queue = Keep(@, Slots \ hit),
         !.ready_queue = @ \o Keep(k.blocked_queue, hit),
         !.blocked_id = [p \in Slots |-> IF p \in hit THEN 0 ELSE @[p]],
         !.blocked_status = [p \in Slots |-> IF p \in hit THEN "NONE" ELSE @[p]],
         !.state = [p \in Slots |-> IF p \in hit THEN "READY" ELSE @[p]]]

\* Bug: the ready queue is used as a stack.
Mutant_get_next_pcb(k) ==
  LET q == k.ready_queue
  IN  IF q = << >>
      THEN [k EXCEPT !.process = IDLE]
      ELSE [k EXCEPT !.process = q[Len(q)],
                     !.state[q[Len(q)]] = "RUNNING",
                     !.ready_queue = SubSeq(q, 1, Len(q) - 1)]

\* The next process to run; the dispatcher runs the idle process if there is
\* none.
get_next_pcb(k) ==
  IF k.ready_queue = << >>
  THEN [k EXCEPT !.process = IDLE]
  ELSE [k EXCEPT !.process = Head(k.ready_queue),
                 !.state[Head(k.ready_queue)] = "RUNNING",
                 !.ready_queue = Tail(@)]

\* The slot that a pid selects, if a process is in it: its pid is not compared.
pid_to_pcb(k, pid) ==
  LET slot == ((pid - 1) % PCB_TABLE_SIZE) + 1
  IN  IF pid >= 1 /\ k.state[slot] # "STOPPED" THEN slot ELSE NULL

\* Bug: the slot has its new pid before the waiting processes are released.
Mutant_cleanup_pcb(k, p) ==
  LET k1 == remove_pcb_from_ready_queue(k, p)
      k2 == remove_pcb_from_blocked_queue(k1, p)
      k3 == remove_pcb_from_sleep_queue(k2, p)
      k4 == add_pcb_to_stopped_queue(k3, p)
      k5 == unblock_pcb_waiting_for_pid(k4, k4.pid[p])
  IN  [k5 EXCEPT !.frames[p] = << >>, !.signal_table[p] = [g \in Signals |-> "junk"]]

\* The contexts on the stack of p and its signal table go with the heap blocks
\* that this frees.
cleanup_pcb(k, p) ==
  LET k1 == remove_pcb_from_ready_queue(k, p)
      k2 == remove_pcb_from_blocked_queue(k1, p)
      k3 == remove_pcb_from_sleep_queue(k2, p)
      k4 == unblock_pcb_waiting_for_pid(k3, k3.pid[p])
      k5 == add_pcb_to_stopped_queue(k4, p)
  IN  [k5 EXCEPT !.frames[p] = << >>, !.signal_table[p] = [g \in Signals |-> "junk"]]

\* The index of the last entry that the process status table is filled up to;
\* entry 0 is the idle process.
fill_processStatus(k) == Cardinality({s \in Slots : k.state[s] # "STOPPED"})

\* process->ret = value;
SetRet(k, p, value) == [k EXCEPT !.ret[p] = value]
=============================================================================
