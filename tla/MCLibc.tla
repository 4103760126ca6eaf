------------------------------- MODULE MCLibc -------------------------------
(***************************************************************************)
(* The instance of Libc that is model-checked: words around the powers of  *)
(* ten and the ends of the 32 bits, and limits below, within and beyond    *)
(* the texts.                                                              *)
(***************************************************************************)
EXTENDS Libc

SomeWords == {LONG_MIN, LONG_MIN + 1, -1000000000, -10, -1, 0, 7, 9, 10, 99, 65535, 524287,
              524288, 999999999, 1000000000, LONG_MAX - 1, LONG_MAX}
SomeWidths == {-1, 0, 1, 3, 11, 12, 13}
SomeLimits == -1..5
SomeStrings == {<<>>, <<"x", "y", "z">>}
=============================================================================
