------------------------------- MODULE Stacks -------------------------------
(***************************************************************************)
(* Who holds the kernel's memory.  The kernel allocates some blocks for    *)
(* good when it starts (the devices, the queues, the stack of the idle     *)
(* process), and two for each process, its stack and its signal table:     *)
(* create() allocates both and gives them back if there is no free pcb,    *)
(* cleanup_pcb() frees them when the process ends.  Composes Mem.          *)
(***************************************************************************)
EXTENDS Mem, Sequences, FiniteSets

CONSTANTS
  PCB_TABLE_SIZE,       \* number of pcbs
  DEFAULT_STACK_SIZE,   \* the least stack of a process
  SignalTableBytes,     \* SIGNAL_TABLE_SIZE * sizeof(funcptr_args)
  BootSizes,            \* what the kernel allocates when it starts, in that order
  StackSizes            \* the stack sizes that callers of create() ask for

ASSUME ClientAssumption ==
  /\ PCB_TABLE_SIZE \in Nat \ {0}
  /\ {DEFAULT_STACK_SIZE, SignalTableBytes} \subseteq Nat \ {0}
  /\ BootSizes \in Seq(Nat \ {0})
  /\ StackSizes \subseteq Int

VARIABLES
  job,        \* the call of a kernel function that waits for kmalloc() or kfree()
  pcbs,       \* stack_start and signal_table of each pcb in use
  boot,       \* what has been allocated at the start
  lost        \* the stacks that a failed create() has left behind

vars == <<free_list, hdr, call, live, job, pcbs, boot, lost>>

Slots == 1..PCB_TABLE_SIZE
NoPcb == [stack_start |-> NULL, signal_table |-> NULL]
NoJob == [step |-> "none", stack |-> NULL, table |-> NULL]
FreeSlots == {s \in Slots : pcbs[s] = NoPcb}
Booted == Len(boot) = Len(BootSizes)

Init ==
  /\ kmeminit
  /\ job = NoJob
  /\ pcbs = [s \in Slots |-> NoPcb]
  /\ boot = <<>>
  /\ lost = {}

\* The kernel is in no call.
AtRest == job = NoJob /\ call = Idle

\* kmalloc() or kfree() has returned to the step of the job that called it.
Returned(step) == call.op = "return" /\ job.step = step

\* The job ends.
EndJob == job' = NoJob /\ call' = Idle /\ UNCHANGED <<free_list, hdr, live>>

\* di_init_devtable(), dispinit() and idleinit() allocate for good.
BootAllocate ==
  /\ AtRest /\ ~ Booted
  /\ kmalloc(BootSizes[Len(boot) + 1])
  /\ job' = [NoJob EXCEPT !.step = "boot"]
  /\ UNCHANGED <<pcbs, boot, lost>>

\* Without memory at the start the kernel does not come up.
BootAllocated ==
  /\ Returned("boot") /\ call.ret # NULL
  /\ boot' = Append(boot, call.ret)
  /\ EndJob
  /\ UNCHANGED <<pcbs, lost>>

\* A stack has a least size.
StackSize(stack) == IF stack < DEFAULT_STACK_SIZE THEN DEFAULT_STACK_SIZE ELSE stack

\* create(), up to the allocation of the stack.
Create(stack) ==
  /\ AtRest /\ Booted
  /\ kmalloc(StackSize(stack))
  /\ job' = [NoJob EXCEPT !.step = "stack"]
  /\ UNCHANGED <<pcbs, boot, lost>>

NoStack ==
  /\ Returned("stack") /\ call.ret = NULL
  /\ EndJob
  /\ UNCHANGED <<pcbs, boot, lost>>

AllocateTable ==
  /\ Returned("stack") /\ call.ret # NULL
  /\ kmalloc(SignalTableBytes)
  /\ job' = [job EXCEPT !.step = "table", !.stack = call.ret]
  /\ UNCHANGED <<pcbs, boot, lost>>

\* create() fails and does not give the stack back.
NoTable ==
  /\ Returned("table") /\ call.ret = NULL
  /\ lost' = lost \cup {job.stack}
  /\ EndJob
  /\ UNCHANGED <<pcbs, boot>>

\* Frees a stack; the signal table is next.
StartFree(stack, table) ==
  /\ kfree(stack)
  /\ job' = [step |-> "free_stack", stack |-> stack, table |-> table]
  /\ UNCHANGED <<boot, lost>>

\* No pcb is free: create() gives both blocks back.
CreateUndone ==
  /\ Returned("table") /\ call.ret # NULL /\ FreeSlots = {}
  /\ StartFree(job.stack, call.ret)
  /\ UNCHANGED pcbs

\* create() with a pcb from get_free_pcb().
CreateDone ==
  /\ Returned("table") /\ call.ret # NULL
  /\ \E s \in FreeSlots :
       pcbs' = [pcbs EXCEPT ![s] = [stack_start |-> job.stack, signal_table |-> call.ret]]
  /\ EndJob
  /\ UNCHANGED <<boot, lost>>

\* cleanup_pcb() of the process in slot s.
Cleanup(s) ==
  /\ AtRest /\ pcbs[s] # NoPcb
  /\ StartFree(pcbs[s].stack_start, pcbs[s].signal_table)
  /\ pcbs' = [pcbs EXCEPT ![s] = NoPcb]

\* Bug: the signal table is not freed.
Mutant_FreeTable ==
  /\ Returned("free_stack")
  /\ EndJob
  /\ UNCHANGED <<pcbs, boot, lost>>

FreeTable ==
  /\ Returned("free_stack")
  /\ kfree(job.table)
  /\ job' = [job EXCEPT !.step = "free_table", !.stack = NULL]
  /\ UNCHANGED <<pcbs, boot, lost>>

TableFreed ==
  /\ Returned("free_table")
  /\ EndJob
  /\ UNCHANGED <<pcbs, boot, lost>>

\* What the kernel does next when it is in a call.
Continue ==
  \/ Run /\ UNCHANGED <<job, pcbs, boot, lost>>
  \/ BootAllocated \/ NoStack \/ AllocateTable \/ NoTable \/ CreateUndone \/ CreateDone
  \/ FreeTable \/ TableFreed

Next ==
  \/ BootAllocate
  \/ \E stack \in StackSizes : Create(stack)
  \/ \E s \in Slots : Cleanup(s)
  \/ Continue

\* A call that has started goes on: the kernel is not interrupted.
Spec == Init /\ [][Next]_vars /\ WF_vars(Continue)
-----------------------------------------------------------------------------
(***************************************************************************)
(* Properties                                                              *)
(***************************************************************************)

\* All variables have their types.
TypeOK ==
  /\ free_list \in Addrs \cup {NULL}
  /\ hdr \in [Addrs -> Headers]
  /\ live \subseteq Addrs
  /\ call \in    [op : {"idle", "return"}, ret : Nat]
             \cup [op : {"kmalloc"}, need : Nat, curr : Addrs \cup {NULL}]
             \cup [op : {"kfree"}, node : Addrs, prev : Addrs \cup {NULL}, next : Addrs \cup {NULL}]
  /\ job.step \in {"none", "boot", "stack", "table", "free_stack", "free_table"}
  /\ pcbs \in [Slots -> [stack_start : Nat, signal_table : Nat]]
  /\ boot \in Seq(Nat) /\ lost \subseteq Nat

\* The blocks cover the memory on both sides of the hole without a gap and
\* without an overlap, whatever was split and merged: each ends where the next
\* one, or the region, ends.  (kmalloc, coalesce_blocks)
Tiled ==
  /\ IsHeader(memstart) /\ IsHeader(HOLEEND)
  /\ \A a \in Addrs : IsHeader(a) =>
       LET end == a + hdr[a].size
       IN  /\ \/ end \in Addrs /\ IsHeader(end) /\ (a < HOLESTART => end < HOLESTART)
              \/ end = IF a < HOLESTART THEN HOLESTART ELSE memend
           /\ \A b \in Addrs : a < b /\ b < end => ~ IsHeader(b)

\* The list links the free blocks, and no others, in the order of their
\* addresses and both ways; also after a write through the null link of the
\* last one.  (kmalloc, kfree)
WellLinked ==
  LET Above(a) == {b \in Free : b > a}
      IsFirst(a, S) == IF S = {} THEN a = NULL ELSE a \in S /\ \A b \in S : a <= b
  IN  /\ IsFirst(free_list, Free)
      /\ \A a \in Free : /\ IsFirst(hdr[a].next, Above(a))
                         /\ hdr[a].next # NULL => hdr[hdr[a].next].prev = a
      /\ free_list # NULL => hdr[free_list].prev = NULL

\* Two free blocks are never neighbours, so that what is freed can be allocated
\* again in one piece.  (kfree, coalesce_blocks)
Coalesced == \A a \in Free : a + hdr[a].size \notin Free

\* The heap is whole between any two steps of any call, also when memory runs out in
\* the middle of a create(): types, blocks, links and merging, as above.  (mem.c)
HeapInv == TypeOK /\ Tiled /\ WellLinked /\ Coalesced

\* Every block that is held is held by someone: a pcb, the kernel itself, a call
\* in progress, or it is the stack of a create() that had no memory left for the
\* signal table.  (create, cleanup_pcb)
NoOtherLeak ==
  LET ptrs == {a + HEADER : a \in live}
      inHand == IF call.op = "return" /\ job.step \in {"boot", "stack", "table"}
                THEN {call.ret, job.stack}
                ELSE {job.stack, job.table}
      owned == UNION {{pcbs[s].stack_start, pcbs[s].signal_table} : s \in Slots}
  IN  ptrs \subseteq owned \cup inHand \cup {boot[i] : i \in 1..Len(boot)} \cup lost

\* Every kfree() of the kernel passes the sanity check.  (kfree)
FreesSucceed == Returned("free_stack") \/ Returned("free_table") => call.ret = 1

\* Blocks come back: nothing is lost but that stack, and nothing that create() and
\* cleanup_pcb() give back is refused.
BlocksReturned == NoOtherLeak /\ FreesSucceed

\* A system call accepts every part of a block as a buffer of the caller: the
\* checks of pointers agree with where the memory manager puts blocks.
\* (verify_sysptr)
BlocksAreValid ==
  \A a \in live : \A p \in (a + HEADER)..(a + hdr[a].size - 1) :
    \A len \in 1..(a + hdr[a].size - p) : verify_sysptr(p, len)

\* Every call of the kernel returns: the walks along the list end.  (kmalloc,
\* kfree)
CallsReturn == (job # NoJob) ~> (job = NoJob)

\* The memory manager does what an allocator without a free list would: its
\* blocks are disjoint, and it fails only when there is no gap large enough.
AllMemory == (memstart..(HOLESTART - 1)) \cup (HOLEEND..(memend - 1))
Requests == {BootSizes[i] : i \in 1..Len(BootSizes)} \cup {StackSize(n) : n \in StackSizes}
              \cup {SignalTableBytes}
BlockSizes == {align_to_paragraph(n) + HEADER : n \in Requests}
HeldBlocks == {[at |-> a, size |-> hdr[a].size] : a \in live}
Need == IF call.op = "kmalloc" THEN call.need ELSE 0
Abstract == INSTANCE Allocator WITH
  Memory <- AllMemory, Sizes <- BlockSizes, held <- HeldBlocks, need <- Need
ImplementsAllocator == Abstract!Spec
=============================================================================
