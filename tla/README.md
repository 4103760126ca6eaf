# A TLA+ model of the Xeros kernel

Xeros is a small preemptive kernel for one x86 processor, in C. This directory
holds a model of the parts that decide what happens to processes (the process
table and its queues, message passing, sleeping, signals, the dispatcher, the
keyboard driver), of the memory manager and the console, of the C library the
kernel uses, and of the programs that run on it, the login and the shell. TLC
checks it on small instances; TLAPS proves the safety properties of the kernel,
its sleep device, the keyboard driver, the memory manager, the login and the shell
for tables, buffers and memories of every size, and all lines that fit their buffers. Paths such as `c/msg.c` are
relative to `src/`; `PROJECT.json` maps every definition to the lines it models.

## 1. The system

The kernel runs with interrupts off. `contextswitch()` (`c/ctsw.c`) resumes a
process and returns to `dispatch()` (`c/disp.c`) when that process makes a system
call or an interrupt arrives; one iteration of the dispatcher's loop handles it.
So a handler is atomic, and all concurrency is in the order in which processes
make their calls and interrupts come. What makes the kernel hard is that a pcb is
moved by other processes' calls (a message, a signal, an end), by the clock and
by the keyboard, whatever it is doing at the time.

| Component | State | Operations | Interacts with |
|---|---|---|---|
| process table and queues: `c/pcb.c`, `c/pcbqueue.c`, `h/xeroskernel.h` | `pcb_array`; ready, blocked and stopped queue, intrusive lists through `pcb->next` | add to and remove from a queue, next process, scans of the blocked queue, pid to pcb, clean up | all others move pcbs through it |
| message passing: `c/msg.c` | `blocked_id`, `blocked_status` | `send`, `recv` | blocked and ready queue |
| sleep device: `c/sleep.c` | sleep queue; `pcb->ret` as the delta to the entry before | `sleep`, `wake`, `tick` | the timer interrupt; signals wake sleepers |
| signals: `c/signal.c`, part of `c/ctsw.c` | `signal_table`, `signals_pending`, `signals_enabled`; saved contexts on the user's stack | mark, deliver, return | takes processes out of every blocking call |
| dispatcher: `c/disp.c` | `process`, the one that runs | one handler per request, timer and keyboard interrupts | calls everything else |
| context switch: `c/ctsw.c` | registers and stacks | save, deliver a signal, resume | dispatcher |
| process creation and start: `c/create.c`, `c/init.c` | stack and signal table of a new pcb | `create` | memory manager, process table |
| system call stubs: `c/syscall.c` | none | pass a request and its arguments | dispatcher |
| keyboard driver: `c/kbd.c` | circular type-ahead buffer, one task per slot, end of file, modifier keys | open, close, read, ioctl, interrupt | blocks and wakes readers |
| device independent calls: `c/di_calls.c` | `fd_table` of each pcb | the calls that lead to a device | dispatcher, driver |
| memory manager: `c/mem.c` | free list in address order | `kmalloc`, `kfree`, pointer checks | `create`, `cleanup_pcb` |
| shell and root process: `c/user.c` | buffers, `pid_to_kill`, `command_arg`, which the commands share with the shell | login, lines, the commands t, ps, a, k, ex | system calls; the keyboard's flags, which all processes share |
| console: `c/kprintf.c` | position in the display's memory, the cells, the cursor | `kprintf`, a character at a time | `_doprnt` |
| C library: `lib/libxc` | none; `_sctab` of `_doscan` | strings, `qsort`, `_doprnt`, `_doscan` | shell, console, drivers |
| processor, boot: `c/i386.c`, `c/evec.c`, `boot/` ... | hardware | | |

What makes each part correct:

- table and queues: no pcb is lost or on two lists; pids stay unique when they
  wrap around; who waits for a process waits for one that exists;
- message passing: two processes never both wait for each other to communicate;
  each call gets its own result;
- sleep: every process sleeps exactly its own time, whoever else goes to sleep or
  is woken;
- signals: a deliverable signal never waits on a process that goes on; handlers
  nest and return in order; the kill signal always ends a process;
- dispatcher: every ready process eventually runs;
- keyboard: a queue that keeps its order at its limit, no write past a reader's
  buffer or into a process that does not read, no reader left behind;
- memory: blocks never overlap and none is lost, what is freed can be allocated
  again in one piece, the list is whole after every call;
- console: the screen shows the last lines of what was printed;
- library: each function does what C says of it, at the limits of its buffers and
  of its words, too;
- shell: a password is not echoed and a command is; one session at a time; each
  command gets its own argument; somebody always asks for input.

`PROJECT.json` lists, under `hazards`, the lines where these are at risk.

## 2. Modules

| Module | Models | Form |
|---|---|---|
| `Pcb` | process table and queues | operators on a kernel state (a record, `KernelStates`) |
| `Msg` | `send()`, `recv()` | operators |
| `Sleep` | the sleep device | operators |
| `Signal` | marking and delivering signals | operators |
| `Kernel` | dispatcher, context switch, creation; composes the four above | the specification: `kern`, one action per request or interrupt |
| `SleepTimers` | what the sleep device promises | abstract specification, one timer per process |
| `MCSleep` | the refinement of `SleepTimers` by `Kernel` | mapping and property |
| `MCKernel` | instances of `Kernel` | for TLC |
| `Keyboard` | keyboard driver and device independent calls | a specification of its own: `kbd` |
| `Allocator` | what the memory manager promises | abstract specification: a set of blocks, no free list |
| `Mem` | the memory manager | actions, one per iteration of a loop; `verify_sysptr` |
| `Stacks` | who allocates and frees: start-up, `create()`, `cleanup_pcb()`; composes `Mem`, refines `Allocator` | the specification |
| `MCStacks` | an instance of `Stacks` | for TLC |
| `Console` | `kprintf.c`, and an endless roll of paper as its reference | a specification of its own |
| `Strings` | the string functions | operators on memory |
| `Qsort`, `Printf`, `Scanf` | `qsort()`, `_doprnt()`, `sscanf()` | actions, one per iteration of a loop |
| `Libc` | a call of one of these functions, and what C says of it | the specification and its properties |
| `MCLibc` | an instance of `Libc` | for TLC |
| `Shell` | root, shell and commands, over what they see of the kernel | a specification of its own |
| `MCShell` | an instance of `Shell` | for TLC |
| `PlacementProofs`, `WaitProofs` | lemmas and theorems about `Kernel`: types and queues, then waits and signals; the second extends the first | section 5 |
| `SleepProofs` | about `Kernel` and what it promises in `SleepTimers`; extends `PlacementProofs` | section 5 |
| `KeyboardProofs` | about `Keyboard` | section 5 |
| `HeapProofs` | about `Stacks` and `Mem` | section 5 |
| `ShellProofs` | about `Shell` | section 5 |
| `ConsoleProofs` | about `Console` | section 5 |
| `NumberProofs` | lemmas about numbers that the last four share | section 5 |

**The kernel's functions are operators from a state to a state**, and a handler
is their composition in the order of the C code. `add_pcb_to_ready_queue(k, p)`
is the state after the function of that name; `cleanup_pcb` composes six such
steps. A state of `Kernel` is one in which `contextswitch()` has just returned to
user mode; a step of `Next` is everything until it does so again, the delivery of
a pending signal (`Resume`) included.

**Slots, pids, queues.** A pcb is the number of its slot. A queue is the sequence
of slots its list links. `pcb_offer()` does not check whether some list still
links the pcb; if one does, that list is cut short. Nothing that comes after is
meaningful, so `Offered` marks the state as corrupt and the model stops.

**`halt`** says why the kernel no longer runs: an `ASSERT` failed (`assert`), a
loop of the kernel does not end (`spin`), a list is corrupt (`corrupt`), or
control or data went through a garbage pointer (`wild`): a signal handler that is
null or uninitialised, or a message copied with the arguments of `syswait()`
taken for a buffer. Properties are about a kernel that runs (`Runs`).

**Messages.** Bytes are left out; a transfer moves 1 (some bytes) unless the
partner is in `syswait()` and has no buffer, in which case the outcome is any of
`Junk`.

**Uninitialised memory.** The `memset` of `create()` clears one word of the new
signal table, so its other entries are any of `HeapWords`. A pcb keeps its pending
signals from one process to the next, as in the code.

**`process->ret = handler(...)`.** The handlers of send and receive change the
global `process` when they block the caller. C leaves open whether the pointer is
read before the call. gcc reads it first, so the result goes to the caller;
`Transfer` models that, and `BlockedResult` says what depends on it (its mutant is
the other order).

**Devices in `Kernel`.** `Kernel` knows of the driver only that a read may return,
fail, fail an `ASSERT` or block the process on no queue, and that an interrupt
completes any of the blocked reads, in the order of the driver's task list.
`Keyboard` has the driver itself and, of the processes, only whether they run or
are blocked in a read. The two abstractions fit because the driver touches only
processes blocked in a read, which `Keyboard` checks (`OnlyReadersWritten`).

**Memory.** In `Mem` a call of `kmalloc()` or `kfree()` is as many steps as its
loop has iterations, and `hdr` has the header at each address that can hold one.
A header that was merged into its neighbour is not read again and becomes
`NoHeader`. The word that an exact fit of the last block writes through a null
link is at the bottom of memory, outside of the heap, so `Unlink` leaves it out.
`Stacks` adds the callers: a kernel function that is between two allocations is
in `job`. A history variable, `live`, has the blocks that callers hold; nothing
in an action depends on it. `Allocator` knows the blocks that are held and the size
that is being asked for: `HeldBlocks` and `Need` are these two in terms of `live`,
`hdr` and `call`, and `BlockSizes` are the sizes the callers of `Stacks` ask for.

**The library.** Memory is a sequence of characters and a pointer a position in
it. The string functions stop where the loops of the code stop, found as the
first position that meets the loop's condition. `_doprnt()` and `_doscan()` work
on 32 bit words, which wrap around: the library is built with plain `gcc -O`, and
TLC's own integers, which have 32 bits, never overflow in the model. The `EOF`
of `scanf.c` is not that of `doscan.c`, so the end of a string is a character
(`END`) that `_doscan()` does not recognise.

**The shell.** A step of `Shell` goes from one system call to the next; the places
`wait` are before `syswait()` and in it, which these programs cannot tell apart. The
kernel is what these programs see of it: pids, waiting, the kill signal and the
keyboard's reference count, echo and end-of-file flags. `Keyboard` and `Kernel`
justify that view: opens are counted (`OpenCount`), the kill signal ends a process
(`KillEnds`), a wait is released by its target (`WaitReleasedByTarget`), and a
signal to a reader fails the `ASSERT` (`AssertsOnlyForReaders`), which `Shell`
shows these programs never to cause (`KillSparesReaders`). Sleeps end at some
time; the ring of pids does not wrap (`MaxPid` processes are started at most, after
that creation fails, as it does with a full table).

**Bounds.** `MaxFrames` bounds nested signal handlers: a signal to a process that
has that many in progress is not sent; only the kill signal still is, until its handler is
in progress, too (`FewHandlers`). `MaxTaskRefs` bounds the driver's count of
tasks: no read starts beyond it. `PID_MAX` is a small multiple of the table size,
as 32768 is of 32. `Calls` selects the system calls of a workload, `AnyReceive`
and `StalePids` whether processes receive from any process and use pids they
kept for too long, `SleepMs` the times they sleep. `MaxOutput` bounds what is
printed on the console, `MaxText`, `MaxArray` and `MaxInput` the inputs of the
library, `MaxPid` the processes of a shell.

## 3. Runs

Runs that pass:

| Run | Instance | Distinct states | Question |
|---|---|---|---|
| `ipc` | 3 slots, pids to 6, create, yield, stop, send, receive, wait | 33,590 | Can processes that come and go and communicate in any order lose a pcb, miss each other, get each other's result, wait for a pid nobody has, or starve? |
| `sleep` | 4 slots, sleeps of 1, 2 and 3 ticks, create, stop | 6,219 | Does the delta queue do what one timer per process would? Does everyone wake, with the result 0? |
| `signals` | 2 slots, 3 signals, 2 nested handlers and the kill signal's, uninitialised tables | 309,412 | Do handlers nest and return? |
| `wakeups` | 2 slots, 2 signals, a handler and the kill signal's, every call that blocks and the ones that only return | 276,265 | Does a signal find a process in each of these calls, which ones does it stop the kernel for, and does the kill signal end all others, also if they made the call in a handler? (That it leaves the process on one queue only is proved: `AllPlaced`.) |
| `keyboard` | 2 processes, 2 descriptors each, buffer of 3, reads of 1 and 2 | 544,924 | Do processes that share the keyboard, read past its end, end with it open and come back keep the driver's counts, buffers and tasks right? |
| `heap` | 30 bytes of heap in two regions, 2 pcbs, stacks of three sizes | 132,618 | Do processes that come and go, in memory that runs out at any allocation, leave the free list whole? Does it do what an allocator without a list would? |
| `console` | 2 lines of 4 cells, 6 characters, 6 first positions of the cursor | 234,372 | Does the screen show the end of what was printed, whatever crosses its last line? |
| `libc` | texts of up to 3 characters, arrays of up to 6, words at the ends of the 32 bits, inputs of up to 4 | 110,476 | Do the functions do what C says? Does what is printed come back when it is scanned? |
| `shell` | 5 processes, 4 at a time, 14 lines with all commands and ampersands in all places | 225,598 | Can logins, commands, kills and the end of the input in any order show a password, hide a command, mix up arguments, stop the kernel or leave the console unattended? |

Why the bounds are enough: three processes are two that communicate and one that
interferes, and every branch of `send` and `recv` is about at most three pcbs;
`PID_MAX` of twice the table size lets every slot wrap around; four sleepers give
insertions at the head, in the middle, at the end and next to equal times; three
signals are the kill signal, one that interrupts and one that is interrupted; in `wakeups`
the kill signal comes to a process that runs, is ready or is blocked in any call, in its
program or in the handler of the other signal. A
circular buffer of 3 wraps around, is full with two entries, and is shorter than
two reads; of two processes, one can open, close or end while the other reads.
The heap has room for two processes and a half, with stacks of three sizes: every
combination of free neighbours occurs, exact and inexact fits, and a failure of
each of the two allocations. A screen of two lines scrolls twice in five
characters. Six elements of three values give `qsort()` every order of equal
elements around a pivot and two levels of recursion. In `shell`, three commands
can run beside a shell, or two shells follow each other with a command that is
still running; any of them can be killed.
Every property has a mutant in `PROJECT.json`, a plausible mistake in the modelled
code that makes it fail in the same run.

Some invariants of a run are conjunctions of named parts, which the text below
names one by one: `HeapInv` (`TypeOK`, `Tiled`, `WellLinked`, `Coalesced`),
`BlocksReturned` (`NoOtherLeak`, `FreesSucceed`), `StringsRight` (`ScansRight`,
`CopiesRight`, `NumbersRight`), `SortsRight` (`SortedPermutation`,
`ShallowRecursion`), `ConversionsRight` (`ScansNumbers`, `ScansTexts`), `DriverInv`
(`TypeOK`, `OpenCount`, `OpenAssertHolds`), `WritesContained` (`NeverOverruns`,
`OnlyReadersWritten`), `SessionInv` (`TypeOK`, `OpensCounted`, `KillSparesReaders`,
`OneSession`) and `EchoRight` (`PasswordHidden`, `ShellEchoes`).

Deadlock is checked in all runs. It means little in `Kernel`, where the clock can
always tick; a process that waits for ever is what `ReadyRuns`, `SleepersWake`,
`KillEnds`, `WaitsForTheLiving`, `NoMissedRendezvous` and `ReadersServed` are about.

**Fairness** (`Kernel!Fairness`): weak fairness of the timer interrupt, as the
timer ticks 100 times a second and user mode always runs with interrupts on; and
strong fairness of a process in `sysstop()` making its system call, as it does so
with its next instructions and gets a time slice again and again. No process is
assumed to make any other call.

In `Stacks` a call in progress goes on (`Continue`): the kernel is not
interrupted, and no process is assumed to be created or to end. In `Libc` only
`qsort()` is fair. In `Shell` every process makes its next call unless it waits for
a key or for another process, as the dispatcher takes turns (`ReadyRuns`) and
sleepers wake (`SleepersWake`); a read is fair only after the end of the input,
when it returns at once. The user is never assumed to type.

Runs in which the code does not do what a comment says, each with its finding:

| Run | What happens |
|---|---|
| `any_corrupt` | A process receives from any process; a send to a third one offers it to the blocked queue although it never left it (`c/msg.c:25`). |
| `sleep_signal` | A signal takes a sleeper out of the delta queue and its delta is lost: those behind it wake early (`c/sleep.c:91`). |
| `typeahead` | A line typed ahead completes a read whose process is blocked afterwards all the same (`c/kbd.c:376`). |

The passing runs leave out what triggers these: `AnyReceive` and `StalePids` are
off in them, in `sleep` no signals are sent, and no line ends in `keyboard`.
`signals` and `wakeups` contain the halting cases and go on without them: in
`wakeups` a signal to a process that is blocked in a read stops the kernel, so that
`KillEnds` says nothing of it.

## 4. Deviations seen while modelling

Some are bounded by a property: it says how far the behaviour goes and that
nothing else of the kind happens.

- A pid names a slot and is not compared (`c/pcb.c:168`): waiting for a process
  that has ended blocks for ever if the slot has a new one, where
  `c/syscall.c:129` promises -1. `WaitsForTheLiving` holds for processes that use
  no stale pids (`StalePids`).
- A send completes a process that waits for the sender's end (`c/msg.c:24`);
  `WaitReleasedByTarget` says that nobody but the target, or a signal, does.
- A signal to a process blocked on the keyboard fails an `ASSERT`
  (`c/signal.c:97`), where `h/xeroskernel.h:61` says that it is unblocked;
  `AssertsOnlyForReaders` says that no other target does, and that apart from
  this only a device call of a length that is not positive fails an `ASSERT`.
- One bit stands for several handlers of one signal; the outer one's return finds
  none and the loop runs below bit 0 (`c/disp.c:367`). `HandlersKeepBits` says that
  this needs two handlers of the same signal.
- A shell that is killed leaves the keyboard open (`c/user.c:139`). The next one
  is not echoed, and after the end of the input the login goes round for ever
  without reading. `ShellEchoes` and `ConsoleAttended` say that it takes such a kill.
- Backspaces lead above the first cell (`c/kprintf.c:142`), and a cursor just
  behind the last one is taken for one on the screen (`c/kprintf.c:122`): characters
  are written outside of the display. `StaysOnScreen` says that nothing else does.
- If the signal table of a new process cannot be allocated, its stack is not freed
  (`c/create.c:41`); `NoOtherLeak` says that no other block is lost.
- A binary number of 20 digits or more is written beyond its buffer
  (`lib/libxc/doprnt.c:42`), `%-05d` is filled with zeros on the right, a width
  beyond 80 is no width, and a precision of 0 is none. `PrintsRight` is about the
  formats without these (`Standard`).
- A minus sign alone is a number for `_doscan()` (`lib/libxc/doscan.c:187`), and a
  conversion that finds none does not end the scan.
- `fgets()` gives a null pointer for a limit of 1, where C has an empty string
  (`lib/libxc/fgets.c:24`). `CopiesRight` is about the other limits.
- At the end of the string `sgetch()` returns -2 and `_doscan()` expects -1: the
  last character is read again, and a string conversion without a width runs on
  (`lib/libxc/scanf.c:85`). `ScansNumbers`, `ScansTexts` and `ReadsBack` are about
  strings that go on behind the conversion.

The others:

- With an empty ready queue `get_next_pcb()` stores the state and the cpu time through a
  null pointer (`c/pcb.c:149`), into the page at address 0, before the dispatcher takes
  the idle process. The model goes to the idle process at once.
- A receive from any process is never completed by a send: `blocked_id` is 0 and
  is compared with the sender's pid (`c/msg.c:24`).
- Two processes that send to each other complete each other (`c/msg.c:24` looks at
  whom the other waits for, not at what for).
- A wait that a signal ends returns 0, as if the process had ended
  (`c/signal.c:91`); `h/xeroskernel.h` speaks of -99 for interrupted calls.
- A read or write of a length that is not positive fails an `ASSERT` (`c/mem.c:181`).
- A new process inherits pending signals and open descriptors (`c/create.c:59`).
- A handler that is removed after its signal was marked is called as a null
  pointer (`c/signal.c:119`).
- With all pcbs in use, the status table is filled one entry beyond its end
  (`c/pcb.c:230`).
- A sleep of 0 ms is an entry that absorbs the next tick (`c/sleep.c:41`): with 0
  in `SleepMs`, `SleepersWake` does not hold.
- Reads after the end of the input leave `kbd_task_refcount` too high
  (`c/kbd.c:181`); after the next open, keys then go to no task instead of the
  type-ahead buffer.
- Releasing ctrl also releases shift (`KeyState` in `Keyboard`).
- An allocation that fits the last free block exactly writes through a null
  pointer (`c/mem.c:86`), into the page at address 0.
- A block that is freed a second time passes the check of `kfree()`, as its header
  is not cleared (`c/mem.c:104`). The kernel never does so.
- `verify_sysptr()` looks at the two ends of a buffer only (`c/mem.c:191`): one that
  spans the hole or the kernel's stack is accepted.
- `get_command()` returns 1 for an ampersand and 0 without; its comment says the
  opposite (`c/user.c:146`). Only t honours it.
- `a` sleeps for ten times the milliseconds of its argument (`c/user.c:255`; the
  comment above says milliseconds).
- A line of 80 characters does not fit `command` and `arg`, of 50 each
  (`c/user.c:104`). The model has lines that fit.
- A shell in a slot whose descriptors earlier processes have left open, as many as
  `PCB_MAX_FDS`, cannot open the keyboard; its reads then fail and it goes round without
  waiting for the user (`c/user.c:89`). It takes four killed shells in that slot.
  `Shell` takes it that `sysopen()` succeeds.
- `_innum()` collects the digits of a number in 64 bytes and does not check
  (`lib/libxc/doscan.c:130`). The inputs of `Scanf` are shorter.
- `strcmp()` and `strncmp()` compare characters as signed ones, C as unsigned ones;
  `gets()` takes a carriage return for the end of a line, and `atoi()` skips no newlines.
  The texts of `Libc` do not have these characters.
- `t` in the foreground never gives the prompt back; nothing can then be typed to
  end it.

## 5. Proofs

The theorems are about five specifications, and hold for all values of their
constants that satisfy these assumptions:

- `Kernel!Spec`: `TableAssumption` (the table has a slot, and `PID_MAX` is a multiple
  of its size, as in `h/xeroskernel.h`), `SignalAssumption` (there is a signal besides
  the kill signal) and `WorkloadAssumption` (types);
- `Keyboard!Spec`: `DriverAssumption` (there are processes and descriptors, the
  circular buffer has at least two entries, lengths are positive: others fail the
  `ASSERT` before the driver is called);
- `Stacks!Spec`: `AlignmentAssumption` (the size of a header and the ends of the hole
  are whole paragraphs), `LayoutAssumption` (kernel stack, free memory, hole and end
  of memory follow one another with room for a block in both regions) and
  `ClientAssumption` (types);
- `Shell!Spec`: `ShellAssumption` (there are pids and a table, and the lines and names
  that are typed hold no NUL and fit their buffers, see section 4);
- `Console!Spec`: `ScreenAssumption` (a line is several tab stops, the display has the
  16 KB of memory that it has, and the cursor's registers hold 16 bits).

Where a theorem has a condition, a run or an entry of section 4 shows that it does
not hold without. `AnyReceive`, `StalePids`, `Keys`, `SleepMs` and `Calls` are
constants of the workload.

| Theorem | Says |
|---|---|
| `PlacementProofs!TypeCorrect` | `[]TypeOK`: queues link only pcbs, pids stay in 1..`PID_MAX` when they wrap around, the running process is a pcb or the idle process |
| `PlacementProofs!AllPlaced` | `[]PlacedOnce`: each pcb is on exactly the queue its state names, once |
| `PlacementProofs!NoCorruption` | `~AnyReceive => []NeverCorrupt`: no handler offers a pcb to a queue while a list links it (without the condition: `any_corrupt`) |
| `WaitProofs!PidsNameSlots` | `[]PidNamesSlot`: each pid leads to its slot, also after a wrap-around |
| `WaitProofs!BlockedHoldResults` | `[]BlockedResult`: a blocked call holds its own result |
| `WaitProofs!OnlyTheLivingAwaited` | `~StalePids => []WaitsForTheLiving`: nobody waits for a process that has ended |
| `WaitProofs!RendezvousHappen` | `~AnyReceive => []NoMissedRendezvous`: a sender and a receiver never wait for each other |
| `WaitProofs!WaitsEndRight` | `WaitReleasedByTarget`: a wait ends by a step of its target, or a signal |
| `WaitProofs!AssertsExplained` | `AssertsOnlyForReaders`: when an `ASSERT` can fail, and what has changed then |
| `WaitProofs!BitsHaveHandlers` | `[]EnabledAreInProgress`: no bit of `signals_enabled` is left behind |
| `WaitProofs!SignalsDelivered` | `[]NoSignalStranded`: no deliverable signal waits on a process that runs or is blocked |
| `WaitProofs!HandlersReturnRight` | `HandlersKeepBits`: `sigreturn` clears the bit of the handler that returns |
| `SleepProofs!SleepsEndRight` | without sleeps of 0 ms and signals, `SleepReturnsZero`: who wakes from `syssleep()` has used up its time and no more |
| `SleepProofs!QueueKeepsTime` | under the same condition, `Timers!TimersSafety`: the delta queue does what one timer per process would (with signals: `sleep_signal`) |
| `KeyboardProofs!DriverCorrect` | `[]DriverInv`: opens are counted, interrupts are on when they should be, the `ASSERT` of `kbd_open()` holds |
| `KeyboardProofs!WritesContainedCorrect` | `[]WritesContained`: no write behind a buffer, or for a process that is not in a read |
| `KeyboardProofs!ReadersServedCorrect` | if no line ends, `[]ReadersServed`: no reader is left behind (without the condition: `typeahead`) |
| `KeyboardProofs!ZeroMeansEofCorrect` | `ZeroMeansEof`: a read of nothing means the end of the input |
| `KeyboardProofs!TypeAheadFifoCorrect` | `TypeAheadFifo`: the circular buffer is a queue, at its limit, too |
| `HeapProofs!HeapWhole` | `[]HeapInv`: blocks tile the memory, the list is whole, no two neighbours are free |
| `HeapProofs!NothingElseLost` | `[]BlocksReturned`: only the stack of a failed `create()` is lost, every `kfree()` succeeds |
| `HeapProofs!BlocksAccepted` | `[]BlocksAreValid`: `verify_sysptr()` accepts every part of a block |
| `HeapProofs!Implements` | `ImplementsAllocator`: the memory manager implements `Allocator` |
| `ShellProofs!Sessions` | `[]SessionInv`: one session at a time, opens of the keyboard are counted, no kill meets a reader |
| `ShellProofs!Echo` | `[]EchoRight`: a password is not echoed; a command is, unless a shell was killed |
| `ShellProofs!Arguments` | `[]ArgumentsIntact`: a command finds the argument of its own line, although it is in its shell's stack |
| `ShellProofs!CommandLines` | `[]CommandsParsed`: `get_command()` takes any line that fits its buffers apart into command, argument and ampersand |
| `ConsoleProofs!ScreenShowsPaper` | `[]ShowsPaper`: the screen is the end of an endless roll of paper, with the cursor at its place |
| `ConsoleProofs!PositionStaysOnScreen` | `[]StaysOnScreen`: `kbmputc()` writes outside of the screen only after backspaces over its top, or if the cursor began behind its end |

*Queues* (`PlacementProofs`). The scans of the blocked queue and the removal from a
list are filters. They are defined by position (`Keep`: the j-th entry kept is at
the position that exactly j of the kept positions do not exceed), as there is no
induction over sequences here and `SelectSeq` is recursive; `MCKernel` checks that
the two agree. `KeepProperties` then says what a filter keeps, and its siblings do
so for joining, appending, taking the first, cutting and inserting.
`PositionInduction` and `LeastAndGreatest` are the two facts about ranges of
naturals that replace an induction rule; they rest on the library's theorems on
finite sets.

*Types* (`PlacementProofs`). One lemma per operator, then one step per action.

*Placement* (`PlacementProofs`). `PlacedOnce` talks about states between two
steps, when only the running process is on no queue. In the middle of a handler
others are, too: `recv()` holds the caller and the partner it has taken off the
blocked queue. The invariant therefore has a parameter: `Good(k, H)` says that
every pcb is in its place except those of `H`, which are in the handler's hands
and on no list. Each operator has a lemma about `H`: removing adds the pcb to it,
adding to a queue takes it out, and what is in `H` cannot be linked, so no offer is
corrupt. A handler's proof is the composition of these lemmas; it starts with
`{process}` and ends with `{}` before `get_next_pcb()`, or with `{process}` again.
The inductive invariant is `IInv`: in a running kernel `Good` holds for the running
process (none if that is the idle process), which is marked as running, and the
kernel is corrupt only if processes receive from any process. `PlacedOnce` alone is
not inductive, as it does not know what runs; and for `NoCorruption`, `Good` also
says that without such receives each blocked process waits for a pid, not for 0, so
that `peek_any_receiver()` finds none that `send()` would offer to the queue a second
time.

*Waits* (`WaitProofs`). The theorems have to know what a step does to every process,
and there are 19 kinds of steps with several branches each. `Calm(k, k1, P, id)`
says of two states that for the processes outside of `P` nothing happens but that some
come out of their blocking calls, out of `syswait()` only those that wait for `id`.
Almost every operator is calm for all processes, and calm steps compose
(`CalmTrans`). So every step of `Next` is calm but for at most one process, to which
one of a few things happens: it is created, it ends, it blocks, a signal marks it
(`NextMoves`). Each theorem then has one case for each of these. `WaitsForTheLiving`
and `NoMissedRendezvous` also need that pids are unique, which follows from
`PidNamesSlot`.

*Signals* (`WaitProofs`). `sigreturn` clears the highest bit of `signals_enabled` and
takes the last context from the stack; that the two belong together is not in
`EnabledAreInProgress`. The invariant is `StackInv`: each enabled signal has a handler
on the stack that no handler of a lower signal has interrupted. It is kept as a
signal is delivered only if the pending mask is the larger number, that is, its
highest bit is at least as high as all enabled ones (`ExceedsHighest`).

*Sleep* (`SleepProofs`). The mapping to `SleepTimers` gives each sleeper the sum of the
deltas up to its own (`TicksLeft`). `SumsUnique` says that a function that starts and
goes on as these sums do is the sums, by induction over positions. Everything but
`sleep()` and `tick()` leaves the queue and its deltas alone (`Asleep`, `OtherSteps`), and
so the sums (`AsleepSame`). An insertion takes from the entry behind it what it puts in
front of it (`InsertedSums`), and a tick takes one from the head, and from nobody else
(`TakenOffSums`). `SleepReturnsZero` is not inductive: that the entries `tick()` wakes
have a delta of exactly 0 needs that the one of the head was positive and no other was
negative. That is `Deltas`; the invariant `SleepInv` is `Deltas` together with the
placement of all pcbs, as a process that runs or ends must not be in the queue. A sleep of
0 ms and a signal each break it.

*Keyboard* (`KeyboardProofs`). `Sound(d, R)` has a parameter as `Good` has: `R` are
the processes in the middle of a read, whose task is set up and who are not blocked
yet. It says that the reference count is the number of open descriptors, and that a
task that waits has room, belongs to a process with a descriptor and, while
interrupts are on, to one that is blocked. The last two are needed: closing the last
descriptor must leave no task behind for the `ASSERT` of `kbd_open()`. The loop
of `keyboard_flush_buffer()` is a function of the number of its turns; that there is
such a function, and that what each turn keeps holds after all of them, is shown with
`IntervalInduction`, for a set of numbers. `TypeAheadFifo` is about the circular buffer, with its
indices modulo the size.

*Heap* (`HeapProofs`). The invariant, checked by TLC on `heap` before it was proved,
has three parts.
`Heap`: the blocks tile the two regions (`Tiling`), and the list is the chain of the
free blocks in the order of their addresses (`Chain`), each the least above the one
before; that such least ones exist is the well-foundedness of the numbers (`Least`).
In the middle of `kfree()` the block has been linked and not merged with its
neighbours yet; `Loose` has a parameter for the blocks that may have free neighbours.
`CallInv`: what a call in progress knows. All blocks that `kmalloc()` has passed are
too small; the `prev` and `next` that `kfree()` has found are neighbours in the list,
below and above the block.
`Owns`: the blocks that are held are those of the pcbs, of the kernel, in the hands of
a `create()` or of a clean-up, and lost ones, and no block has two holders. This is
why every `kfree()` passes the check for a valid header, which `Heap` alone does not
say.
From these, `Implements` maps each step to a step of `Allocator` or to none: an
iteration that searches or merges is none, asking for memory, taking and giving back
a block are one each. That a failed search is a failure of the abstract allocator
needs that every gap between held blocks lies in one free block (`FitsFree`): tiles
between two held blocks are free, and two free ones are never neighbours.

*Shell* (`ShellProofs`). The invariant relates the places of the programs to what they
share. `Session`: only the first process is root, there is one shell at most, and root
waits for it, so that the two are never at the keyboard together. `Attended`: each command
in progress, other than t, has a shell that waits for it and has not been killed, and
whose stack and `pid_to_kill` hold the command's argument. Without it `k`
could be one of two and kill a reader: the one process that can be blocked in a read when
`k` runs would be its own shell, and that one waits (`KillerAlone`). `Counted`: the
reference count is the number of processes at a place between `sysopen` and `sysclose`
plus the ones killed there, of which there are no more than have ended. `Echoing`: the
flag for each of these places; the shell opens a keyboard that nobody holds, and so
turns the echo on, as long as no one was killed with it (`FirstToOpen`). Each step of a
program is one of a few moves of a process (`RootMoves`, `ShellStarts`, `ProcessEnds` ...),
which keep `Session` and `Attended` whatever the rest is. That a line is parsed right is
about positions in it: where a word ends is the least of a set of positions
(`FirstProperties`), and that the loop of `atoi()` computes a number is shown with
`RecursionExists`.

*Console* (`ConsoleProofs`). `ShowsPaper` compares the screen with a function of all that
has been printed, so each step is about what one character adds to that function: the head
goes on from where it was (`LongerPath`), the paper changes only where it goes and only if
the character prints (`PaperGrows`), and the number of lines that have gone is the one
number for which the whole way fits above the end of the screen and does not fit with a
line less (`Gone`, `GoneUnique`), so that it grows by one when the head has gone behind
the end and else stays (`LinesGrow`). On the other side `PutDraws` says what one character
does to the position and the cells, for each of the branches of `kbmputc()` and with the
scrolling: a tab, for example, is a loop that stops at the first tab stop and may scroll at
its last turn only. The two meet because the head moves by as much wherever it is in the
lines above (`AfterShift`). The inductive invariant `ConsoleInv`, checked by TLC on
`console` first, is `Agrees`, and that the cursor register holds the position. `Agrees`
has to say more than the two properties. A console whose cursor began behind the last cell
is one line below the paper until a line is scrolled with it on the screen again; and after
the head has left over the top nothing relates the two but that it stays above the end.
A position that has become the null pointer, after some 400,000 backspaces, is probed
again, from a cursor register that holds only its last 16 bits (`NullPosition`): this is
why the proof needs the size of the display's memory.

*Numbers* (`NumberProofs`). Least and greatest elements of sets, from the well-foundedness
of the numbers; induction over an interval for a set of numbers (`IntervalInduction`); and
that a function defined by recursion over an interval exists (`RecursionExists`). They
replace the induction rules that no prover can instantiate here.

Only model-checked:

- liveness under fairness: `ReadyRuns`, `SleepersWake`, `KillEnds`, `CallsReturn`,
  `SortReturns`, `ConsoleAttended`;
- the fairness of `ImplementsTimers`: that the clock goes on ticking. Its safety part
  is `QueueKeepsTime`;
- `Libc`: its properties compare what a loop has computed with a function of the whole
  input, so that each loop needs an invariant of its own.

## 6. What is not modelled

- Registers, stack layout and the rest of `contextswitch()`; cpu times; the
  characters of a read in `Keyboard`, and their echo on the console.
- `c/i386.c`, `c/evec.c`, `c/startup.S`, `c/intr.S`: they set up descriptor tables,
  vectors and the interrupt controller once, in straight-line code.
- The boot loader: third-party code of the Linux kernel and of gzip.
- Of the C library: `scanf()` and `fscanf()`, whose `control()` is defined nowhere
  in the repository; `atof()` and `ecvt()`, which compute with floating point;
  `rand()`; the character tables; the 16 bit conversions of `_doprnt()`, which are
  never reached; wrappers of one line.
- The test programs, which were read for what they expect of the calls.

## 7. What is left

1. *Composition* of `Keyboard` with `Kernel`: the end of a process with a read in
   its slot's task, and the order in which readers become ready.
2. *Proofs about the library*: an invariant for the loops of `qsort()` first, which says
   which parts of the array the calls on the stack have still to sort.
