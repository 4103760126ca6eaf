----------------------------- MODULE MCKernel -----------------------------
(***************************************************************************)
(* Instances of Kernel for TLC.                                            *)
(***************************************************************************)
EXTENDS Kernel

\* Keep is the filter of the standard module Sequences.
ASSUME KeepIsSelectSeq ==
  \A n \in 0..3 : \A q \in [1..n -> Slots], T \in SUBSET Slots :
    Keep(q, T) = SelectSeq(q, LAMBDA x : x \in T)
=============================================================================
