-------------------------------- MODULE Mem --------------------------------
(***************************************************************************)
(* The memory manager, c/mem.c: a list of free blocks in the order of      *)
(* their addresses, linked both ways through headers in the blocks         *)
(* themselves.                                                             *)
(*                                                                         *)
(* Addresses and sizes are in bytes.  A call is several steps: it starts,  *)
(* each iteration of its loop is a step, and so is what it does to the     *)
(* list.  The kernel runs with interrupts off, so one call ends before the *)
(* next one starts.                                                        *)
(***************************************************************************)
EXTENDS Integers

CONSTANTS
  PARAGRAPH_SIZE,       \* alignment of every block (16)
  HEADER,               \* sizeof(mem_header_t) (16)
  freemem, maxaddr,     \* memory that the kernel does not use itself ...
  HOLESTART, HOLEEND,   \* ... has a hole
  KERNEL_STACK          \* size of the kernel's stack, which ends at freemem

ASSUME AlignmentAssumption ==
  /\ PARAGRAPH_SIZE \in Nat \ {0}
  /\ HEADER \in Nat \ {0}
  /\ \A n \in {HEADER, HOLESTART, HOLEEND} : n \in Nat /\ n % PARAGRAPH_SIZE = 0

ASSUME LayoutAssumption ==
  /\ {freemem, maxaddr, KERNEL_STACK} \subseteq Nat
  /\ 0 < KERNEL_STACK /\ KERNEL_STACK < freemem
  /\ freemem + PARAGRAPH_SIZE + HEADER < HOLESTART
  /\ HOLESTART < HOLEEND
  /\ HOLEEND + PARAGRAPH_SIZE + HEADER < maxaddr

VARIABLES
  free_list,    \* address of the first free block, or NULL
  hdr,          \* the header at each address that may hold one
  call,         \* the call in progress
  live          \* history: the blocks that callers hold, by their headers

memvars == <<free_list, hdr, call, live>>

NULL == 0

align_to_paragraph(n) ==
  IF n % PARAGRAPH_SIZE # 0
  THEN ((n + PARAGRAPH_SIZE) \div PARAGRAPH_SIZE) * PARAGRAPH_SIZE
  ELSE n

memstart == align_to_paragraph(freemem)

\* The second region ends with the last whole paragraph.
memend == HOLEEND + ((maxaddr - HOLEEND) \div PARAGRAPH_SIZE) * PARAGRAPH_SIZE

Addrs == {a \in memstart..(memend - 1) :
            a % PARAGRAPH_SIZE = 0 /\ (a < HOLESTART \/ a >= HOLEEND)}

\* mem_header_t.  An address whose header was absorbed by a neighbour, or that
\* never was one, has NoHeader: what memory holds there is not read again.
Headers == [size : Nat, prev : Addrs \cup {NULL}, next : Addrs \cup {NULL}, sanity_check : Nat]
NoHeader == [size |-> 0, prev |-> NULL, next |-> NULL, sanity_check |-> NULL]

IsHeader(a) == hdr[a].size > 0
Free == {a \in Addrs : IsHeader(a) /\ a \notin live}

Idle == [op |-> "idle", ret |-> 0]
Returns(x) == [op |-> "return", ret |-> x]

-----------------------------------------------------------------------------

kmeminit ==
  /\ free_list = memstart
  /\ hdr = [a \in Addrs |->
             CASE a = memstart -> [NoHeader EXCEPT !.size = HOLESTART - memstart, !.next = HOLEEND]
               [] a = HOLEEND  -> [NoHeader EXCEPT !.size = memend - HOLEEND, !.prev = memstart]
               [] OTHER        -> NoHeader]
  /\ call = Idle
  /\ live = {}

\* kmalloc(size): the request, before the search.
kmalloc(size) ==
  /\ call.op \in {"idle", "return"}
  /\ call' = IF size <= 0 THEN Returns(NULL)
             ELSE [op   |-> "kmalloc",
                   need |-> align_to_paragraph(size) + HEADER,
                   curr |-> free_list]
  /\ UNCHANGED <<free_list, hdr, live>>

\* Bug: a block that fits exactly is passed over.
Mutant_BlockFits(need, size) == need < size

BlockFits(need, size) == need <= size

kmalloc_advance ==
  /\ call.op = "kmalloc" /\ call.curr # NULL
  /\ ~ BlockFits(call.need, hdr[call.curr].size)
  /\ call' = [call EXCEPT !.curr = hdr[call.curr].next]
  /\ UNCHANGED <<free_list, hdr, live>>

\* The block curr without what is left over of it, which becomes a block of its
\* own behind it.
Split(h, curr, need) ==
  IF need = h[curr].size THEN h
  ELSE LET leftover == curr + need
           behind   == h[curr].next
           h1 == [h EXCEPT ![leftover] = [@ EXCEPT !.size = h[curr].size - need,
                                                   !.prev = curr, !.next = behind],
                           ![curr].next = leftover]
       IN  IF behind = NULL THEN h1 ELSE [h1 EXCEPT ![behind].prev = leftover]

\* Bug: the block behind the one that is taken keeps its link to it.
Mutant_Unlink(h, curr) ==
  IF h[curr].prev # NULL THEN [h EXCEPT ![h[curr].prev].next = h[curr].next] ELSE h

\* curr leaves the list.  The code writes curr->next->prev without a test: with
\* no block behind curr that is a word at the bottom of memory, which holds no
\* block.
Unlink(h, curr) ==
  LET h1 == IF h[curr].prev # NULL THEN [h EXCEPT ![h[curr].prev].next = h[curr].next] ELSE h
  IN  IF h[curr].next # NULL THEN [h1 EXCEPT ![h[curr].next].prev = h[curr].prev] ELSE h1

Claim(h, curr, need) ==
  [h EXCEPT ![curr].size = need, ![curr].sanity_check = curr + HEADER]

kmalloc_take ==
  /\ call.op = "kmalloc" /\ call.curr # NULL
  /\ BlockFits(call.need, hdr[call.curr].size)
  /\ LET curr == call.curr
         split == Split(hdr, curr, call.need)
     IN  /\ hdr' = Claim(Unlink(split, curr), curr, call.need)
         /\ free_list' = IF split[curr].prev # NULL THEN free_list ELSE split[curr].next
         /\ live' = live \cup {curr}
         /\ call' = Returns(curr + HEADER)

kmalloc_fail ==
  /\ call.op = "kmalloc" /\ call.curr = NULL
  /\ call' = Returns(NULL)
  /\ UNCHANGED <<free_list, hdr, live>>

\* kfree(ptr): the sanity check, before the search for the block's place.
kfree(ptr) ==
  /\ call.op \in {"idle", "return"}
  /\ call' = IF hdr[ptr - HEADER].sanity_check # ptr THEN Returns(0)
             ELSE [op |-> "kfree", node |-> ptr - HEADER, prev |-> NULL, next |-> free_list]
  /\ UNCHANGED <<free_list, hdr, live>>

\* The search goes on behind the block next.
Passes(next, node) == next # NULL /\ next < node

kfree_advance ==
  /\ call.op = "kfree"
  /\ Passes(call.next, call.node)
  /\ call' = [call EXCEPT !.prev = call.next, !.next = hdr[call.next].next]
  /\ UNCHANGED <<free_list, hdr, live>>

coalesce_blocks(h, first, second) ==
  IF first = NULL \/ second = NULL THEN h
  ELSE IF first + h[first].size < second THEN h
  ELSE LET behind == h[second].next
           h1 == [h EXCEPT ![first].size = second + h[second].size - first,
                           ![first].next = behind, ![second] = NoHeader]
       IN  IF behind = NULL THEN h1 ELSE [h1 EXCEPT ![behind].prev = first]

\* Bug: the rest of the list is linked behind the node from its first block on.
Mutant_Insert(h, prev, node, next) ==
  LET h1 == IF prev # NULL THEN [h EXCEPT ![prev].next = node] ELSE h
      h2 == IF next # NULL THEN [h1 EXCEPT ![next].prev = node] ELSE h1
  IN  [h2 EXCEPT ![node].prev = prev, ![node].next = free_list]

\* node enters the list between prev and next.
Insert(h, prev, node, next) ==
  LET h1 == IF prev # NULL THEN [h EXCEPT ![prev].next = node] ELSE h
      h2 == IF next # NULL THEN [h1 EXCEPT ![next].prev = node] ELSE h1
  IN  [h2 EXCEPT ![node].prev = prev, ![node].next = next]

kfree_link ==
  /\ call.op = "kfree"
  /\ ~ Passes(call.next, call.node)
  /\ LET linked == Insert(hdr, call.prev, call.node, call.next)
     IN  hdr' = coalesce_blocks(coalesce_blocks(linked, call.node, call.next),
                                call.prev, call.node)
  /\ free_list' = IF call.prev # NULL THEN free_list ELSE call.node
  /\ live' = live \ {call.node}
  /\ call' = Returns(1)

\* The steps of a call that has started.
Run ==
  \/ kmalloc_advance \/ kmalloc_take \/ kmalloc_fail
  \/ kfree_advance \/ kfree_link

\* Bug: the end is the address behind the buffer.
Mutant_verify_sysptr(ptr, len) ==
  LET end == ptr + len
  IN  /\ ptr > 0 /\ end <= maxaddr
      /\ ~ (ptr >= HOLESTART /\ ptr < HOLEEND) /\ ~ (end >= HOLESTART /\ end < HOLEEND)
      /\ ~ (ptr >= freemem - KERNEL_STACK /\ ptr < freemem)

\* A buffer of len bytes at ptr is accepted.
verify_sysptr(ptr, len) ==
  LET end == ptr + len - 1
  IN  /\ ptr > 0 /\ end <= maxaddr
      /\ ~ (ptr >= HOLESTART /\ ptr < HOLEEND) /\ ~ (end >= HOLESTART /\ end < HOLEEND)
      /\ ~ (ptr >= freemem - KERNEL_STACK /\ ptr < freemem)
=============================================================================
