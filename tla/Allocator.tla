----------------------------- MODULE Allocator -----------------------------
(***************************************************************************)
(* What the memory manager promises its callers: the blocks it has handed  *)
(* out lie in the memory it manages and never overlap, and it fails only   *)
(* when no gap between them is large enough.  There is no free list here.  *)
(***************************************************************************)
EXTENDS Integers

CONSTANTS
  Memory,     \* the set of addresses that are managed
  Sizes       \* the sizes that blocks can have

VARIABLES
  held,       \* the blocks handed out
  need        \* the size of the block that is being looked for, or 0

Blocks == [at : Memory, size : Sizes]

Bytes(b) == b.at .. (b.at + b.size - 1)

Fits(b) == Bytes(b) \subseteq Memory /\ \A c \in held : Bytes(b) \cap Bytes(c) = {}

Init == held = {} /\ need = 0

Ask == need = 0 /\ need' \in Sizes /\ UNCHANGED held

Grant ==
  /\ need # 0
  /\ \E b \in Blocks : b.size = need /\ Fits(b) /\ held' = held \cup {b}
  /\ need' = 0

Refuse ==
  /\ need # 0
  /\ ~ \E b \in Blocks : b.size = need /\ Fits(b)
  /\ need' = 0
  /\ UNCHANGED held

Release ==
  /\ need = 0
  /\ \E b \in held : held' = held \ {b}
  /\ UNCHANGED need

Next == Ask \/ Grant \/ Refuse \/ Release

Spec == Init /\ [][Next]_<<held, need>>
=============================================================================
