------------------------------ MODULE MCShell ------------------------------
(***************************************************************************)
(* The instance of Shell that is model-checked.  A user and a password of  *)
(* two characters, what may be taken for them, and lines with every        *)
(* command, with blanks and ampersands in every place.                     *)
(***************************************************************************)
EXTENDS Shell

User == <<117, 117>>
SomeNames == {<<117>>, User}
N(d) == <<ZERO + d>>
B == <<BLANK>>
E == <<AMPERSAND>>
SomeLines ==
  {<<>>, T, T \o B \o E \o B, B \o T, T \o E \o T, PS \o E, EX, A \o B \o N(1) \o E,
   A \o E \o <<MINUS>> \o N(1), K \o B, K \o E \o N(1), K \o B \o N(2) \o E, K \o B \o N(3),
   K \o B \o N(4)}
=============================================================================
