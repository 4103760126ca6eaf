------------------------------ MODULE Strings ------------------------------
(***************************************************************************)
(* The string functions of lib/libxc.  Memory is a sequence of characters, *)
(* which are small integers; a string ends with its first NUL, which is 0. *)
(* A pointer is a position in the sequence.  The position at which a loop  *)
(* of the code stops is the first one that meets the loop's conditions; a  *)
(* function that writes gives the whole memory after it.                   *)
(***************************************************************************)
EXTENDS Integers, Sequences

NUL == 0
EOT == 4
TAB == 9
EOL == 10
BLANK == 32
PLUS == 43
MINUS == 45
ZERO == 48
NOTHING == 0      \* a pointer that points to nothing

\* The first number of S.
First(S) == CHOOSE i \in S : \A j \in S : i <= j

strlen(s) == First({i \in 1..Len(s) : s[i] = NUL}) - 1

\* The loop stops where the strings differ, or both end.
strcmp(s1, s2) ==
  LET i == First({k \in 1..Len(s1) : s1[k] # s2[k] \/ s1[k] = NUL})
  IN  s1[i] - s2[i]

\* n is decremented before each comparison.
strncmp(s1, s2, n) ==
  LET i == First({k \in 1..Len(s1) : n - k < 0 \/ s1[k] # s2[k] \/ s1[k] = NUL})
  IN  IF n - i < 0 THEN 0 ELSE s1[i] - s2[i]

\* The memory s1 after n characters of s2 have been moved to position i of it.
Moved(s1, i, s2, n) ==
  [k \in 1..Len(s1) |-> IF i <= k /\ k < i + n THEN s2[k - i + 1] ELSE s1[k]]

strcpy(s1, s2) == Moved(s1, 1, s2, strlen(s2) + 1)

strcat(s1, s2) == Moved(s1, strlen(s1) + 1, s2, strlen(s2) + 1)

\* Bug: the NUL goes behind the character that is one too many.
Mutant_strncat(s1, s2, n) ==
  LET end == strlen(s1)
      k == First({j \in 1..Len(s2) : s2[j] = NUL \/ n - j < 0})
  IN  [Moved(s1, end + 1, s2, k) EXCEPT ![end + k + 1] = NUL]

\* n is decremented after each character that is moved.  The one that is one too
\* many has been moved by then, and the NUL replaces it.
strncat(s1, s2, n) ==
  LET end == strlen(s1)
      k == First({j \in 1..Len(s2) : s2[j] = NUL \/ n - j < 0})
  IN  [Moved(s1, end + 1, s2, k) EXCEPT ![end + k] = NUL]

strncpy(s1, s2, n) ==
  LET k == IF strlen(s2) < n THEN strlen(s2) + 1 ELSE n
  IN  [i \in 1..Len(s1) |-> IF k < i /\ i <= n THEN NUL ELSE Moved(s1, 1, s2, k)[i]]

memset(s, c, len) == [i \in 1..Len(s) |-> IF i <= len THEN c ELSE s[i]]

\* The NUL at the end can be looked for, too.
index(s, c) ==
  LET i == First({k \in 1..Len(s) : s[k] = c \/ s[k] = NUL})
  IN  IF s[i] = c THEN i ELSE NOTHING

rindex(s, c) ==
  LET found == {k \in 1..(strlen(s) + 1) : s[k] = c}
  IN  IF found = {} THEN NOTHING ELSE CHOOSE k \in found : \A j \in found : j <= k

\* Blanks, one sign, digits.  (atol is the same function.)
atoi(s) ==
  LET p == First({k \in 1..Len(s) : s[k] \notin {BLANK, TAB}})
      d == IF s[p] \in {MINUS, PLUS} THEN p + 1 ELSE p
      e == First({k \in d..Len(s) : s[k] < ZERO \/ s[k] > ZERO + 9})
      n[k \in (d - 1)..(e - 1)] == IF k = d - 1 THEN 0 ELSE n[k - 1] * 10 + s[k] - ZERO
  IN  IF s[p] = MINUS THEN -n[e - 1] ELSE n[e - 1]

\* The halves of each of n \div 2 words, which are signed and 16 bits wide.
SwappedWord(w) ==
  LET x == ((w % 256) * 256) + ((w \div 256) % 256)
  IN  IF x > 32767 THEN x - 65536 ELSE x
swab(from, to, n) == [i \in 1..Len(to) |-> IF i <= n \div 2 THEN SwappedWord(from[i]) ELSE to[i]]

\* fgets(), with input for what getc() gives: the buffer, or NOTHING.
fgets(s, n, input) ==
  LET stops == {k \in 0..Len(input) : n - 1 - k <= 0 \/ k = Len(input) \/ (k > 0 /\ input[k] = EOL)}
      k == First(stops)
      failed == k = 0    \* no character was read: c < 0 from getc(), or from the start
  IN  IF failed THEN NOTHING ELSE [Moved(s, 1, input, k) EXCEPT ![k + 1] = NUL]

\* gets() has no limit; control-d ends the input.
gets(s, input) ==
  LET k == First({j \in 1..Len(input) : input[j] \in {EOL, 13, EOT}})
  IN  IF input[k] = EOT /\ k = 1 THEN NOTHING ELSE [Moved(s, 1, input, k - 1) EXCEPT ![k] = NUL]
=============================================================================
