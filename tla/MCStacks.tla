------------------------------ MODULE MCStacks ------------------------------
(***************************************************************************)
(* An instance of Stacks for TLC.                                          *)
(***************************************************************************)
EXTENDS Stacks

Boot == <<1>>
=============================================================================
