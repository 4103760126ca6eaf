------------------------------- MODULE Kernel -------------------------------
(***************************************************************************)
(* The dispatcher, c/disp.c, with the context switch of c/ctsw.c and       *)
(* process creation, c/create.c.                                           *)
(*                                                                         *)
(* A state of this specification is one in which the kernel has returned   *)
(* from contextswitch() to user mode: kern.process runs.  A step is all    *)
(* that happens until the kernel returns to user mode again: the process   *)
(* makes a system call or an interrupt arrives, and one iteration of the   *)
(* loop of dispatch() handles it with interrupts off.                      *)
(***************************************************************************)
EXTENDS Msg, Signal

CONSTANTS
  Calls,        \* the system calls that the processes of this workload make
  AnyReceive,   \* do processes also receive from any process (pid 0)?
  StalePids,    \* do processes also use pids whose process is gone?
  SleepMs,      \* the times, in milliseconds, that processes sleep
  HeapWords,    \* what a word of a new heap block may hold
  MaxFrames     \* bound on the handlers in progress in one process, besides sysstop()

ASSUME WorkloadAssumption ==
  /\ Calls \subseteq {"CREATE", "YIELD", "STOP", "GETPID", "PUTS", "KILL", "RECV",
                      "SEND", "SLEEP", "CPUTIMES", "SIGHANDLER", "SIGRETURN", "WAIT",
                      "OPEN", "CLOSE", "WRITE", "READ", "IOCTL"}
  /\ AnyReceive \in BOOLEAN
  /\ StalePids \in BOOLEAN
  /\ SleepMs \subseteq Nat
  /\ HeapWords \subseteq {"NULL", "junk"}
  /\ MaxFrames \in Nat

VARIABLE kern   \* the kernel's static data, see KernelStates in Pcb

\* The user's own %eax, which the kernel saves and restores but never reads.
USER_EAX == 0

\* What contextswitch() leaves in process->ret on a call without a result.
SYSCALL_YIELD     == 1
SYSCALL_STOP      == 2
SYSCALL_SIGRETURN == 11

-----------------------------------------------------------------------------
(***************************************************************************)
(* Process creation and the return to user mode                            *)
(***************************************************************************)

\* A signal table as create() leaves it: of the entries, only the first is
\* cleared, and the last is sysstop().
NewTables ==
  {t \in [Signals -> HeapWords \cup {"NULL", "sysstop"}] :
     /\ t[0] = "NULL"
     /\ t[KILL_SIGNAL_NUM] = "sysstop"
     /\ \A g \in Signals \ {0, KILL_SIGNAL_NUM} : t[g] \in HeapWords}

\* Takes the first free pcb.  Its pending signals, among other fields, stay as
\* the slot's last process left them.
create(k, table) ==
  LET p == Head(k.stopped_queue)
  IN  add_pcb_to_ready_queue(
        [k EXCEPT !.stopped_queue = Tail(@),
                  !.signal_table[p] = table,
                  !.signals_enabled[p] = {},
                  !.frames[p] = << >>], p)

\* contextswitch() delivers a pending signal before it resumes the process.
Resume(k) ==
  IF k.halt = "no" /\ k.process # IDLE
  THEN IF k.signals_pending[k.process] # {}
       THEN deliver_highest_priority_signal(k, k.process)
       ELSE k
  ELSE k

\* The root process is created and the dispatcher starts.
Init == \E table \in NewTables : kern = Resume(get_next_pcb(create(initpcb, table)))

-----------------------------------------------------------------------------
(***************************************************************************)
(* System calls                                                            *)
(***************************************************************************)

proc == kern.process

\* The kill handler, sysstop(), is what the process executes.
InSysstop ==
  /\ kern.halt = "no"
  /\ proc # IDLE
  /\ kern.frames[proc] # << >>
  /\ kern.frames[proc][Len(kern.frames[proc])].handler = "sysstop"

\* The running process makes a system call of this kind.
Request(call) ==
  /\ kern.halt = "no"
  /\ proc # IDLE
  /\ call \in Calls
  /\ ~InSysstop

\* The kernel, now in state k, resumes the process, or the next one that is ready.
Continue(k) == \E k1 \in {k} : kern' = Resume(k1)
Switch(k) == \E k1 \in {k} : Continue(get_next_pcb(k1))

\* The call returns a value and the process runs on.
Return(value) == Continue(SetRet(kern, proc, value))

\* The pids that processes pass to the kernel.
PidArgs == {0} \cup (IF StalePids THEN 1..PID_MAX ELSE {kern.pid[s] : s \in Slots})

\* fp is a bad pointer or no memory is left, no pcb is free, or all is well.
Create ==
  /\ Request("CREATE")
  /\ \/ Return(CREATE_FAILURE)
     \/ /\ kern.stopped_queue # << >>
        /\ \E table \in NewTables :
             Continue(SetRet(create(kern, table), proc, kern.pid[Head(kern.stopped_queue)]))

Yield ==
  /\ Request("YIELD")
  /\ Switch(add_pcb_to_ready_queue(SetRet(kern, proc, SYSCALL_YIELD), proc))

\* The process ends, by its own call or in the kill handler.
Stop ==
  /\ Request("STOP") \/ InSysstop
  /\ Switch(cleanup_pcb(SetRet(kern, proc, SYSCALL_STOP), proc))

GetPid == Request("GETPID") /\ Return(kern.pid[proc])

Puts == Request("PUTS") /\ Return(0)

\* The bound on handlers: the one of the kill signal comes on top of it, once.
FewHandlers(s, g) ==
  \/ Len(kern.frames[s]) < MaxFrames
  \/ g = KILL_SIGNAL_NUM /\ g \notin kern.signals_enabled[s]

\* SIGNAL_TABLE_SIZE stands for every number that is no signal.
Kill ==
  /\ Request("KILL")
  /\ \E pid \in PidArgs, g \in Signals \cup {SIGNAL_TABLE_SIZE} :
       LET target == pid_to_pcb(kern, pid)
       IN  IF target = NULL THEN Return(SYSKILL_TARGET_DNE)
           ELSE IF g \notin Signals THEN Return(SYSKILL_SIG_INVALID)
           ELSE /\ FewHandlers(target, g)
                /\ Continue(SetRet(set_pcb_signal(kern, target, g), proc, 0))

Wait ==
  /\ Request("WAIT")
  /\ \E pid \in PidArgs :
       IF pid_to_pcb(kern, pid) = NULL THEN Return(SYSPID_DNE)
       ELSE Switch(SetRet(Block(kern, proc, "WAITING", pid), proc, 0))

\* Bug: the result is stored in the process that runs next.
Mutant_Transfer(result) ==
  \E k1 \in {IF result.blocked THEN get_next_pcb(result.kern) ELSE result.kern} :
    Continue(IF k1.process = IDLE THEN k1 ELSE SetRet(k1, k1.process, result.ret))

\* The result of send() and recv().  process->ret is the field of the caller
\* even if the dispatcher has moved on to the next process by then.
Transfer(result) ==
  \E r \in {result} :
    Continue(SetRet(IF r.blocked THEN get_next_pcb(r.kern) ELSE r.kern, proc, r.ret))

Send ==
  /\ Request("SEND")
  /\ \E pid \in PidArgs, valid \in BOOLEAN, junk \in Junk :
       LET dest == pid_to_pcb(kern, pid)
       IN  IF dest = NULL THEN Return(SYSPID_DNE)
           ELSE IF pid = kern.pid[proc] THEN Return(SYSPID_SELF)
           ELSE IF ~valid THEN Return(SYSERR_OTHER)
           ELSE Transfer(send(kern, proc, dest, junk))

Recv ==
  /\ Request("RECV")
  /\ \E pid \in PidArgs, bad \in {"none", "from_pid", "buffer"}, junk \in Junk :
       LET from == pid_to_pcb(kern, pid)
       IN  /\ pid = 0 => AnyReceive
           /\ IF bad = "from_pid" THEN Return(SYSERR_OTHER)
              ELSE IF pid # 0 /\ from = NULL THEN Return(SYSPID_DNE)
              ELSE IF pid = kern.pid[proc] THEN Return(SYSPID_SELF)
              ELSE IF bad = "buffer" THEN Return(SYSERR_OTHER)
              ELSE Transfer(recv(kern, from, proc, junk))

Sleep ==
  /\ Request("SLEEP")
  /\ \E ms \in SleepMs : Switch(sleep(kern, proc, ms))

\* The caller's table is at a bad address, or it is filled in.
CpuTimes ==
  /\ Request("CPUTIMES")
  /\ \/ \E error \in {-1, -2} : Return(error)
     \/ Return(fill_processStatus(kern))

\* Bug: the kill signal's handler can be replaced.
Mutant_SigHandler ==
  /\ Request("SIGHANDLER")
  /\ \E g \in Signals \cup {SIGNAL_TABLE_SIZE}, new \in {"NULL", "handler"} :
       IF g \notin Signals THEN Return(INVALID_SIGNAL)
       ELSE \/ new # "NULL" /\ Return(SYSHANDLER_INVALID)
            \/ Return(SYSERR_OTHER)
            \/ Continue(SetRet([kern EXCEPT !.signal_table[proc][g] = new], proc, 0))

SigHandler ==
  /\ Request("SIGHANDLER")
  /\ \E g \in Signals \cup {SIGNAL_TABLE_SIZE}, new \in {"NULL", "handler"} :
       IF g \notin Signals \/ g = KILL_SIGNAL_NUM THEN Return(INVALID_SIGNAL)
       ELSE \/ new # "NULL" /\ Return(SYSHANDLER_INVALID)
            \/ Return(SYSERR_OTHER)
            \/ Continue(SetRet([kern EXCEPT !.signal_table[proc][g] = new], proc, 0))

\* Bug: the bit of the signal stays set.
Mutant_SigReturn ==
  /\ Request("SIGRETURN")
  /\ kern.frames[proc] # << >>
  /\ Continue([SetRet(kern, proc, kern.frames[proc][Len(kern.frames[proc])].ret)
                 EXCEPT !.frames[proc] = SubSeq(@, 1, Len(@) - 1)])

\* sigtramp() calls this when the handler returns.  The stack pointer that it
\* passes is bad if the process has overwritten it.
SigReturn ==
  /\ Request("SIGRETURN")
  /\ kern.frames[proc] # << >>
  /\ LET top == kern.frames[proc][Len(kern.frames[proc])]
         k1 == [SetRet(kern, proc, top.ret)
                  EXCEPT !.frames[proc] = SubSeq(@, 1, Len(@) - 1)]
         enabled == kern.signals_enabled[proc]
     IN  \/ Switch(cleanup_pcb(SetRet(kern, proc, SYSCALL_SIGRETURN), proc))
         \/ /\ enabled = {}
            /\ kern' = [k1 EXCEPT !.halt = "spin"]
         \/ /\ enabled # {}
            /\ Continue([k1 EXCEPT !.signals_enabled[proc] = @ \ {Highest(enabled)}])

-----------------------------------------------------------------------------
(***************************************************************************)
(* Devices, as the process table sees them                                 *)
(***************************************************************************)

\* Opening, closing and controlling a device let the process run on.
DeviceCall ==
  /\ \E call \in {"OPEN", "CLOSE", "IOCTL"} : Request(call)
  /\ \E result \in {SYSERR, 0} : Return(result)

\* The keyboard cannot be written to; a length that is not positive fails an
\* ASSERT.
Write ==
  /\ Request("WRITE")
  /\ \/ Return(SYSERR)
     \/ kern' = [kern EXCEPT !.halt = "assert"]

\* A read fails, returns data or the end of the input, or blocks the process,
\* which then is in no queue; one whose length is not positive fails an ASSERT.
Read ==
  /\ Request("READ")
  /\ \/ \E result \in {SYSERR, 0, 1} : Return(result)
     \/ Switch([kern EXCEPT !.state[proc] = "BLOCKED",
                            !.blocked_status[proc] = "DEVICE",
                            !.ret[proc] = BLOCKERR])
     \/ kern' = [kern EXCEPT !.halt = "assert"]

OnDevice(k) == {s \in Slots : k.state[s] = "BLOCKED" /\ k.blocked_status[s] = "DEVICE"}

\* The driver's task list is indexed by the pid modulo its size: the last slot
\* comes first.
TaskOrder == [i \in Slots |-> IF i = 1 THEN PCB_TABLE_SIZE ELSE i - 1]

\* An interrupt; the process that it interrupts keeps its registers.
Interrupted == IF proc = IDLE THEN kern ELSE SetRet(kern, proc, USER_EAX)

\* The keyboard driver completes the reads of some of the processes, at the end
\* of the input with no data.
KeyboardInt ==
  /\ kern.halt = "no"
  /\ \E done \in SUBSET OnDevice(kern), count \in {0, 1} :
       Continue([Interrupted EXCEPT
         !.ready_queue = @ \o Keep(TaskOrder, done),
         !.state = [s \in Slots |-> IF s \in done THEN "READY" ELSE @[s]],
         !.blocked_status = [s \in Slots |-> IF s \in done THEN "NONE" ELSE @[s]],
         !.ret = [s \in Slots |-> IF s \in done THEN count ELSE @[s]]])

\* A clock tick, which also preempts the process.
TimerInt ==
  /\ kern.halt = "no"
  /\ \E k1 \in {tick(Interrupted)} :
       Switch(IF proc = IDLE THEN k1 ELSE add_pcb_to_ready_queue(k1, proc))

\* The kernel loops in an ASSERT, or in signal handling, for ever.
Halted == kern.halt # "no" /\ UNCHANGED kern

-----------------------------------------------------------------------------
Next == \/ Create \/ Yield \/ Stop \/ GetPid \/ Puts \/ Kill \/ Wait \/ Send \/ Recv
        \/ Sleep \/ CpuTimes \/ SigHandler \/ SigReturn \/ DeviceCall \/ Write
        \/ Read \/ KeyboardInt \/ TimerInt \/ Halted

(***************************************************************************)
(* The interval timer ticks 100 times a second and user mode runs with     *)
(* interrupts enabled.  A process in sysstop() makes its system call with  *)
(* its next instructions, so it does so in one of its time slices.         *)
(***************************************************************************)
Fairness == WF_kern(TimerInt) /\ SF_kern(InSysstop /\ Stop)

Spec == Init /\ [][Next]_kern /\ Fairness

-----------------------------------------------------------------------------
(***************************************************************************)
(* Properties.  They are about a kernel that runs: a halted one has        *)
(* stopped in the middle of a handler.                                     *)
(***************************************************************************)

Runs == kern.halt = "no"

\* Every field of the process table and every queue has its type.
TypeOK == kern \in KernelStates

\* Each pcb outside of the set H is on exactly the queue that its state and its
\* blocked status name, once, and those in H are on no queue.
Placed(k, H) ==
  /\ NoRepeats(k.ready_queue)
  /\ NoRepeats(k.blocked_queue)
  /\ NoRepeats(k.sleep_queue)
  /\ NoRepeats(k.stopped_queue)
  /\ \A s \in Slots \ H :
       /\ s \in Elems(k.ready_queue) <=> k.state[s] = "READY"
       /\ s \in Elems(k.stopped_queue) <=> k.state[s] = "STOPPED"
       /\ s \in Elems(k.blocked_queue)
            <=> k.state[s] = "BLOCKED" /\ k.blocked_status[s] \in {"SEND", "RECEIVE", "WAITING"}
       /\ s \in Elems(k.sleep_queue)
            <=> k.state[s] = "BLOCKED" /\ k.blocked_status[s] = "SLEEP"
       /\ k.state[s] # "RUNNING"
       /\ k.blocked_status[s] = "NONE" <=> k.state[s] # "BLOCKED"
  /\ \A s \in H : ~Linked(k, s)

\* No pcb is lost or on two queues: whatever order the calls, signals and
\* interrupts come in, every pcb is where its state says, and the process that
\* runs, which is on no queue, is the only one marked as running.
PlacedOnce ==
  Runs => /\ Placed(kern, {proc} \ {IDLE})
          /\ proc # IDLE => /\ kern.state[proc] = "RUNNING"
                            /\ kern.blocked_status[proc] = "NONE"

\* No pcb is offered to a queue while a list still links it (pcb_offer() does
\* not check).
NeverCorrupt == kern.halt # "corrupt"

\* The pid of a process leads to its own slot, after any number of processes in
\* it: pids stay distinct when they wrap around at PID_MAX.
PidNamesSlot == \A s \in Slots : ((kern.pid[s] - 1) % PCB_TABLE_SIZE) + 1 = s

\* The pid is that of a process that has not ended.
Alive(pid) == \E s \in Slots : kern.state[s] # "STOPPED" /\ kern.pid[s] = pid

\* A process that waits for another to send, to receive or to end does so for
\* one that exists: cleanup_pcb() releases all that wait for the process that
\* ends, before its slot gets a new pid.  (sysrecv() from any process waits for
\* no one in particular.)
WaitsForTheLiving ==
  Runs => \A s \in Elems(kern.blocked_queue) :
            \/ Alive(kern.blocked_id[s])
            \/ kern.blocked_status[s] = "RECEIVE" /\ kern.blocked_id[s] = 0

\* The blocked process a can communicate with b.
Awaits(a, b) ==
  /\ kern.blocked_status[a] \in {"SEND", "RECEIVE"}
  /\ \/ kern.blocked_id[a] = kern.pid[b]
     \/ kern.blocked_status[a] = "RECEIVE" /\ kern.blocked_id[a] = 0

\* No sender and receiver are both blocked on one another: whichever of the two
\* calls comes second finds the first in the blocked queue and completes.
NoMissedRendezvous ==
  Runs => ~ \E a, b \in Elems(kern.blocked_queue) :
              /\ kern.blocked_status[a] = "SEND"
              /\ kern.blocked_status[b] = "RECEIVE"
              /\ Awaits(a, b)
              /\ Awaits(b, a)

\* A blocked call already holds the result it has if its partner ends: -1 for
\* syssend() and sysrecv(), 0 for syswait().  The dispatcher stores it through
\* "process" in the statement in which the handler moves on to another process.
BlockedResult ==
  Runs => \A s \in Elems(kern.blocked_queue) :
            kern.ret[s] = IF kern.blocked_status[s] = "WAITING" THEN 0 ELSE SYSPID_DNE

\* A signal that can be delivered never sits on a process that is blocked or
\* runs other code: a new signal ends a blocking call, and contextswitch()
\* delivers what sigreturn has made deliverable.
NoSignalStranded ==
  Runs => \A s \in Slots :
            kern.state[s] \in {"RUNNING", "BLOCKED"} =>
              ~Exceeds(kern.signals_pending[s], kern.signals_enabled[s])

\* A handler in progress for each enabled signal: sigreturn never leaves a bit
\* set whose handler has returned.
EnabledAreInProgress ==
  Runs => \A s \in Slots : kern.state[s] # "STOPPED" =>
            \A g \in kern.signals_enabled[s] :
              \E i \in DOMAIN kern.frames[s] : kern.frames[s][i].sig = g

\* A clock tick ends a sleep with the result 0.
SleepReturnsZero ==
  [][TimerInt => \A s \in Elems(kern.sleep_queue) :
       s \notin Elems(kern'.sleep_queue) => kern'.ret[s] = 0]_kern

\* Every process that is ready runs, as the queue is first in first out and the
\* timer preempts the process that runs.
ReadyRuns == \A s \in Slots :
  kern.state[s] = "READY" ~> (proc = s \/ ~Runs)

\* Every sleeping process wakes up.
SleepersWake == \A s \in Slots :
  (s \in Elems(kern.sleep_queue)) ~> (s \notin Elems(kern.sleep_queue) \/ ~Runs)

\* The kill signal ends every process: one that runs or is ready, one that a call has
\* blocked, also if it made this call in a handler, and whatever it installs as handlers.
\* (A process that is blocked in a read is not ended, as its signal stops the kernel.)
KillEnds == \A s \in Slots :
  (KILL_SIGNAL_NUM \in kern.signals_pending[s] /\ kern.state[s] # "STOPPED")
    ~> (kern.state[s] = "STOPPED" \/ ~Runs)

\* The process s comes out of a blocking call in this step.
Released(s) == kern.state[s] = "BLOCKED" /\ kern'.state[s] # "BLOCKED"

\* A process in syswait() goes on by a step of the process it waits for and of no
\* other, or for a signal.  That process need not have ended: send() completes
\* whatever is blocked on its sender, a wait as well.
WaitReleasedByTarget ==
  [][\A s \in Slots :
       Released(s) /\ kern.blocked_status[s] = "WAITING" =>
         \/ proc # IDLE /\ kern.pid[proc] = kern.blocked_id[s]
         \/ kern'.signals_pending[s] # {}]_kern

\* A signal takes its target out of every call that blocks but one: the kernel's
\* ASSERT fails in set_pcb_signal() for a process that is blocked on a device.  (In a
\* device call it fails for a length that is not positive, and nothing has changed.)
AssertsOnlyForReaders ==
  [][Runs /\ kern'.halt = "assert" =>
       \/ kern' = [kern EXCEPT !.halt = "assert"]
       \/ \E s \in OnDevice(kern), g \in Signals :
            kern' = [kern EXCEPT !.signals_pending[s] = @ \cup {g}, !.ret[proc] = 0,
                                 !.halt = "assert"]]_kern

\* Each handler in progress has its own bit in signals_enabled.
BitPerHandler(k, s) == \A i \in DOMAIN k.frames[s] : k.frames[s][i].sig \in k.signals_enabled[s]

\* The return of a handler clears its own bit and not that of a handler it has
\* interrupted: sigreturn clears the highest bit, and lower signals never interrupt the
\* handlers of higher ones.  Only two handlers of the same signal share a bit; the outer
\* one is then without, and its sigreturn looks for a bit that is not there.
HandlersKeepBits ==
  [][\A s \in Slots :
       /\ Runs /\ kern'.halt = "no"
       /\ kern.state[s] # "STOPPED" /\ kern'.state[s] # "STOPPED"
       /\ BitPerHandler(kern, s)
       /\ \A i, j \in DOMAIN kern.frames[s] : kern.frames[s][i].sig = kern.frames[s][j].sig => i = j
       => BitPerHandler(kern', s)]_kern
=============================================================================
