------------------------------- MODULE Printf -------------------------------
(***************************************************************************)
(* Formatted output, lib/libxc/doprnt.c: _doprnt() goes through a format   *)
(* and hands characters to a function, for kprintf() and sprintf().  Each  *)
(* iteration of its loop is a step: a character that is echoed, or a       *)
(* conversion.                                                             *)
(*                                                                         *)
(* A long is a 32 bit word, kept as the integer of its two's complement.   *)
(* INT_NOT_LONG is not defined in the build, so every number is converted  *)
(* as a long.                                                              *)
(***************************************************************************)
EXTENDS Integers, Sequences, FiniteSets

CONSTANTS
  MAXSTR,         \* the largest field width that is honoured (80)
  StringSize,     \* the size of the buffer of a conversion (20)
  Uninitialised   \* the strings the buffer may hold before the first conversion

VARIABLE prnt     \* the call of _doprnt()

LONG_MAX == 2147483647
LONG_MIN == -LONG_MAX - 1

\* Negation and subtraction of a positive number wrap around.
Negated(w) == IF w = LONG_MIN THEN w ELSE -w
Minus(w, n) == IF w >= LONG_MIN + n THEN w - n ELSE (w + LONG_MAX) + (LONG_MAX - n + 2)

DigitChars == <<"0", "1", "2", "3", "4", "5", "6", "7", "8", "9", "a", "b", "c", "d", "e", "f">>
IsDigit(c) == \E d \in 1..10 : DigitChars[d] = c
ValueOf(c) == (CHOOSE d \in 1..16 : DigitChars[d] = c) - 1

\* The n lowest digits of a word, the highest first.  Division rounds down, as an
\* arithmetic shift does.
Digits(w, base, n) ==
  LET rest[k \in 0..n] == IF k = 0 THEN w ELSE rest[k - 1] \div base
  IN  [k \in 1..n |-> rest[n - k] % base]

\* Without leading zeros; of nothing but zeros, one is kept.
Stripped(digits) ==
  LET n == Len(digits)
      zeros == {k \in 1..(n - 1) : \A j \in 1..k : digits[j] = 0}
  IN  SubSeq(digits, 1 + Cardinality(zeros), n)

Numeral(digits) == [k \in 1..Len(digits) |-> DigitChars[digits[k] + 1]]

_prtl10(w) == Stripped(Digits(w, 10, 10))
\* The highest of 11 octal digits has two bits of the word.
_prtl8(w) == Stripped([Digits(w, 8, 11) EXCEPT ![1] = @ % 4])
_prtl16(w) == Stripped(Digits(w, 16, 8))
_prtl2(w) == Stripped(Digits(w, 2, 32))

\* Bug: only one billion is taken off and added back.
Mutant_Unsigned(w) ==
  IF w >= 0 THEN _prtl10(w)
  ELSE [_prtl10(Minus(w, 1000000000)) EXCEPT ![1] = @ + 1]

\* A word with its sign bit set is converted as an unsigned number: billions are
\* taken off until the bit is clear, and added back to the first digit.
Unsigned(w) ==
  LET off[n \in 0..4] == IF n = 0 THEN w ELSE Minus(off[n - 1], 1000000000)
      n == CHOOSE k \in 0..4 : off[k] >= 0 /\ \A j \in 0..(k - 1) : off[j] < 0
  IN  [_prtl10(off[n]) EXCEPT ![1] = @ + n]

-----------------------------------------------------------------------------
(***************************************************************************)
(* A conversion specification.  The format ends with a NUL.                *)
(***************************************************************************)
At(fmt, i) == IF i <= Len(fmt) THEN fmt[i] ELSE "NUL"

\* The number of digits at position i, and the number they stand for.
DigitsAt(fmt, i) ==
  CHOOSE n \in 0..Len(fmt) :
    /\ ~ IsDigit(At(fmt, i + n))
    /\ \A k \in 0..(n - 1) : IsDigit(At(fmt, i + k))
NumberAt(fmt, i) ==
  LET value[n \in 0..Len(fmt)] ==
        IF n = 0 THEN 0 ELSE 10 * value[n - 1] + ValueOf(fmt[i + n - 1])
  IN  value[DigitsAt(fmt, i)]

\* A width at position i: an argument if there is a star, or the number there.
\* Gives the position behind it, the next argument, and the width.
Width(fmt, i, args, arg) ==
  IF At(fmt, i) = "*" THEN [at |-> i + 1, arg |-> arg + 1, width |-> args[arg]]
  ELSE [at |-> i + DigitsAt(fmt, i), arg |-> arg, width |-> NumberAt(fmt, i)]

\* What follows a percent sign at position i: flags, fmin, fmax, l, the character f.
Directive(fmt, i, args, arg) ==
  LET leftjust == At(fmt, i) = "-"
      i1 == IF leftjust THEN i + 1 ELSE i
      zero == At(fmt, i1) = "0"
      min == Width(fmt, IF zero THEN i1 + 1 ELSE i1, args, arg)
      max == IF At(fmt, min.at) = "." THEN Width(fmt, min.at + 1, args, min.arg)
             ELSE [min EXCEPT !.width = 0]
      i2 == IF At(fmt, max.at) = "l" THEN max.at + 1 ELSE max.at
  IN  [leftjust |-> leftjust, fill |-> IF zero THEN "0" ELSE " ",
       fmin |-> min.width, fmax |-> max.width, f |-> At(fmt, i2), at |-> i2 + 1, arg |-> max.arg]

\* A width beyond the limit is no width.
Limited(n) == IF n > MAXSTR \/ n < 0 THEN 0 ELSE n

Repeat(c, n) == [k \in 1..(IF n < 0 THEN 0 ELSE n) |-> c]

\* The field: sign, fill and the string, cut off at fmax.
Field(d, str, sign) ==
  LET fmin == Limited(d.fmin)
      fmax == Limited(d.fmax)
      length == IF fmax # 0 /\ Len(str) > fmax THEN fmax ELSE Len(str)
      minus == IF sign THEN <<"-">> ELSE <<>>
      leading == Repeat(d.fill, (IF fmin # 0 THEN fmin - length ELSE 0)
                                  - (IF sign /\ (fmin # 0 \/ fmax # 0) THEN 1 ELSE 0))
  IN  (IF d.fill = "0" THEN minus ELSE <<>>)
        \o (IF d.leftjust THEN <<>> ELSE leading)
        \o (IF d.fill = "0" THEN <<>> ELSE minus)
        \o SubSeq(str, 1, length)
        \o (IF d.leftjust THEN leading ELSE <<>>)

-----------------------------------------------------------------------------
(***************************************************************************)
(* _doprnt()                                                               *)
(***************************************************************************)
NoPrnt == [phase |-> "none"]

\* The start of the call for a format and its arguments.
Called(fmt, args) ==
  [phase |-> "format", fmt |-> fmt, at |-> 1, args |-> args, arg |-> 1,
   out |-> <<>>, string |-> <<>>, filled |-> FALSE]

Current == At(prnt.fmt, prnt.at)
Second == At(prnt.fmt, prnt.at + 1)
InFormat == prnt.phase = "format"

Echo ==
  /\ InFormat /\ Current \notin {"%", "NUL"}
  /\ prnt' = [prnt EXCEPT !.out = Append(@, Current), !.at = @ + 1]

EndOfFormat ==
  /\ InFormat /\ Current = "NUL"
  /\ prnt' = [prnt EXCEPT !.phase = "done"]

EchoPercent ==
  /\ InFormat /\ Current = "%" /\ Second = "%"
  /\ prnt' = [prnt EXCEPT !.out = Append(@, "%"), !.at = @ + 2]

Given == Directive(prnt.fmt, prnt.at + 1, prnt.args, prnt.arg)
InDirective == InFormat /\ Current = "%" /\ Second # "%"

\* The format ends within a conversion specification.
Unfinished ==
  /\ InDirective /\ Given.f = "NUL"
  /\ prnt' = [prnt EXCEPT !.out = Append(@, "%"), !.phase = "done"]

\* The output of a conversion, and the buffer it leaves behind.
Converted(d, str, sign, string) ==
  prnt' = [prnt EXCEPT !.out = @ \o Field(d, str, sign), !.string = string,
                       !.filled = @ \/ d.f # "s", !.at = d.at, !.arg = d.arg + 1]

ConvertChar ==
  /\ InDirective
  /\ LET d == Given IN
       /\ d.f = "c"
       /\ LET str == <<prnt.args[d.arg]>>
          IN  Converted([d EXCEPT !.fmax = 0, !.fill = " "], str, FALSE, str)

ConvertString ==
  /\ InDirective
  /\ LET d == Given IN
       /\ d.f = "s"
       /\ Converted([d EXCEPT !.fill = " "], prnt.args[d.arg], FALSE, prnt.string)

Signed == {"d", "D"}
Numeric == Signed \cup {"u", "U", "o", "O", "x", "X", "b", "B"}

\* The characters of a number, without its sign.
NumberText(f, w) ==
  Numeral(CASE f \in Signed     -> Unsigned(IF w < 0 THEN Negated(w) ELSE w)
            [] f \in {"u", "U"} -> Unsigned(w)
            [] f \in {"o", "O"} -> _prtl8(w)
            [] f \in {"x", "X"} -> _prtl16(w)
            [] f \in {"b", "B"} -> _prtl2(w))

\* A number that does not fit the buffer overwrites what is behind it.
ConvertNumber ==
  /\ InDirective
  /\ LET d == Given IN
       /\ d.f \in Numeric
       /\ LET str == NumberText(d.f, prnt.args[d.arg]) IN
            IF Len(str) + 1 > StringSize THEN prnt' = [prnt EXCEPT !.phase = "overrun"]
            ELSE Converted([d EXCEPT !.fmax = 0], str, d.f \in Signed /\ prnt.args[d.arg] < 0, str)

\* Any other character is echoed, and so is what the buffer holds; an argument is
\* consumed.
ConvertOther ==
  /\ InDirective
  /\ LET d == Given IN
       /\ d.f \notin {"c", "s", "NUL"} \cup Numeric
       /\ \E str \in IF prnt.filled THEN {prnt.string} ELSE Uninitialised :
            prnt' = [prnt EXCEPT !.out = Append(@, d.f) \o Field(d, str, FALSE),
                                 !.string = str, !.filled = TRUE, !.at = d.at, !.arg = d.arg + 1]

_doprnt ==
  \/ Echo \/ EndOfFormat \/ EchoPercent \/ Unfinished
  \/ ConvertChar \/ ConvertString \/ ConvertNumber \/ ConvertOther
=============================================================================
