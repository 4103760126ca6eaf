------------------------------- MODULE Scanf -------------------------------
(***************************************************************************)
(* Formatted input from a string, lib/libxc/doscan.c and scanf.c: each     *)
(* iteration of the loop of _doscan() is a step.                           *)
(*                                                                         *)
(* scanf.c and doscan.c have different values for EOF (h/xeroskernel.h:27  *)
(* and doscan.c:9).  What sgetch() gives at the end of the string is END,  *)
(* which _doscan() takes for a character like any other.                   *)
(***************************************************************************)
EXTENDS Printf

VARIABLE scan       \* the call of sscanf()

NoScan == [phase |-> "none"]
END == "END"
Unset == <<>>       \* nothing is stored; a value v is stored as <<v>>
SPC == {" ", "TAB", "NL"}
Unlimited == 30000

\* sscanf(), with what it has stored for each of its arguments.
Scanning(str, fmt, bits) ==
  [phase |-> "format", fmt |-> fmt, at |-> 1, str |-> str, i |-> 1, nmatch |-> 0, out |-> <<>>,
   bits |-> bits, ccl |-> [chars |-> {}, stops |-> TRUE]]

sgetch(i) == At(scan.str \o <<END>>, i)

\* Where the string goes on when the character at i was read and pushed back.  At its
\* end nothing was read, and the last character comes again.
sungetch(i) == IF i <= Len(scan.str) THEN i ELSE Len(scan.str)

\* The first position from i on with a character that is not of S.
Beyond(i, S) ==
  CHOOSE k \in i..(Len(scan.str) + 1) :
    sgetch(k) \notin S /\ \A j \in i..(k - 1) : sgetch(j) \in S

-----------------------------------------------------------------------------
(***************************************************************************)
(* A conversion gives the position behind it, what it stores, or Unset,    *)
(* and whether it ends.                                                    *)
(***************************************************************************)
UpperDigits == <<"A", "B", "C", "D", "E", "F">>
IsDigitOf(c, base) ==
  IsDigit(c) \/ (base = 16 /\ \E d \in 1..6 : c \in {DigitChars[10 + d], UpperDigits[d]})
DigitOf(c) ==
  IF \E d \in 1..6 : UpperDigits[d] = c THEN 9 + CHOOSE d \in 1..6 : UpperDigits[d] = c
  ELSE ValueOf(c)

\* The number that n digits from position i on stand for, modulo the word: shifts and
\* additions on its two halves.
Accumulated(i, n, base) ==
  LET lcval[k \in 0..n] ==
        IF k = 0 THEN [hi |-> 0, lo |-> 0]
        ELSE LET lo == lcval[k - 1].lo * base + DigitOf(sgetch(i + k - 1))
             IN  [hi |-> (lcval[k - 1].hi * base + lo \div 65536) % 65536, lo |-> lo % 65536]
      w == lcval[n]
  IN  (IF w.hi > 32767 THEN w.hi - 65536 ELSE w.hi) * 65536 + w.lo

\* Bug: every number is stored as a short.
Mutant_Sized(w, size) ==
  LET low == w % 65536
  IN  IF low > 32767 THEN low - 65536 ELSE low

\* A short gets the low half.
Sized(w, size) ==
  LET low == w % 65536
  IN  IF size # "SHORT" THEN w ELSE IF low > 32767 THEN low - 65536 ELSE low

\* Bug: a sign does not count for the width.
Mutant_DigitsLimit(len, signed) == len

DigitsLimit(len, signed) == IF signed THEN len - 1 ELSE len

\* Blanks, a sign, digits.  A minus sign alone is a number.
_innum(type, len, size) ==
  LET base == CASE type = "o" -> 8 [] type = "x" -> 16 [] OTHER -> 10
      k == Beyond(scan.i, SPC)
      negflg == sgetch(k) = "-"
      signed == sgetch(k) \in {"-", "+"}
      first == IF signed THEN k + 1 ELSE k
      limit == DigitsLimit(len, signed)
      n == CHOOSE d \in 0..Len(scan.str) :
             /\ d >= limit \/ ~ IsDigitOf(sgetch(first + d), base)
             /\ \A j \in 0..(d - 1) : j < limit /\ IsDigitOf(sgetch(first + j), base)
      value == Accumulated(first, n, base)
  IN  [i |-> sungetch(first + n), phase |-> "format",
       value |-> IF negflg \/ n > 0 THEN <<Sized(IF negflg THEN Negated(value) ELSE value, size)>>
                 ELSE Unset]

\* Does the character c end a string of this type?  At the end of the input the table is
\* read two bytes before its start.
Stops(c, type, ccl) ==
  CASE type = "c" -> FALSE
    [] type = "s" -> IF c = END THEN "SPC" \in scan.bits ELSE c \in SPC
    [] type = "[" -> IF c = END THEN "STP" \in scan.bits ELSE (c \in ccl.chars) = ccl.stops

\* A word, a number of characters, or a run of the characters of a set.  If the input
\* ends first, a word may be looked for for ever, and a string has junk in it or is
\* filled with junk without end.
_instr(type, len, ccl) ==
  LET most == IF type = "c" /\ len = Unlimited THEN 1 ELSE len
      k == IF type = "s" THEN Beyond(scan.i, SPC) ELSE scan.i
      length == Len(scan.str) + 1 - k        \* of what is left
      n == CHOOSE d \in 0..length :
             /\ d = length \/ d = most \/ Stops(sgetch(k + d), type, ccl)
             /\ \A j \in 0..(d - 1) : j < most /\ ~ Stops(sgetch(k + j), type, ccl)
      text == SubSeq(scan.str, k, k + n - 1)
      endless == n < most /\ sgetch(k + n) = END /\ ~ Stops(END, type, ccl)
  IN  IF type = "s" /\ sgetch(k) = END /\ Stops(END, type, ccl)
      THEN [i |-> k, phase |-> "spin", value |-> Unset]
      ELSE IF endless
      THEN [i |-> k + n, phase |-> IF most = Unlimited THEN "overrun" ELSE "format",
            value |-> <<text \o Repeat("junk", IF most = Unlimited THEN 1 ELSE most - n)>>]
      ELSE [i |-> IF n = most THEN k + n ELSE sungetch(k + n), phase |-> "format",
            value |-> IF n = 0 THEN Unset ELSE <<text>>]

\* The set of characters at position a of the format, up to the bracket.
_getccl(fmt, a) ==
  LET not == At(fmt, a) = "^"
      from == IF not THEN a + 1 ELSE a
      close == CHOOSE k \in from..Len(fmt) : fmt[k] = "]" /\ \A j \in from..(k - 1) : fmt[j] # "]"
  IN  [at |-> close + 1, chars |-> {fmt[j] : j \in from..(close - 1)}, stops |-> not]

-----------------------------------------------------------------------------
(***************************************************************************)
(* _doscan()                                                               *)
(***************************************************************************)
Lower == [c \in {"D", "U", "O", "X", "S", "C"} |->
            CASE c = "D" -> "d" [] c = "U" -> "u" [] c = "O" -> "o"
              [] c = "X" -> "x" [] c = "S" -> "s" [] c = "C" -> "c"]

\* What follows a percent sign at position a of the format.
Conversion(fmt, a) ==
  LET ptr == At(fmt, a) # "*"
      a1 == IF ptr THEN a ELSE a + 1
      a2 == a1 + DigitsAt(fmt, a1)
      len == NumberAt(fmt, a1)
      a3 == IF At(fmt, a2) \in {"l", "h"} THEN a2 + 1 ELSE a2
      ch == At(fmt, a3)
  IN  [ptr |-> ptr, len |-> IF len = 0 THEN Unlimited ELSE len,
       size |-> CASE At(fmt, a2) = "l" \/ ch \in DOMAIN Lower -> "LONG"
                  [] At(fmt, a2) = "h" /\ ch \notin DOMAIN Lower -> "SHORT"
                  [] OTHER                                      -> "REGULAR",
       type |-> IF ch \in DOMAIN Lower THEN Lower[ch] ELSE ch,
       getccl |-> At(fmt, a2) = "[", at |-> a3 + 1]

ScanChar == At(scan.fmt, scan.at)
InScan == scan.phase = "format"
IsConversion == InScan /\ ScanChar = "%" /\ At(scan.fmt, scan.at + 1) # "%"

ScanEnd ==
  /\ InScan /\ ScanChar = "NUL"
  /\ scan' = [scan EXCEPT !.phase = "done"]

ScanBlank ==
  /\ InScan /\ ScanChar \in SPC
  /\ scan' = [scan EXCEPT !.at = @ + 1, !.i = sungetch(Beyond(scan.i, SPC))]

\* A character of the format, or a doubled percent sign, has to come in the input.
ScanMatch ==
  /\ InScan /\ ~ IsConversion /\ ScanChar \notin SPC \cup {"NUL"}
  /\ scan' = IF sgetch(scan.i) = ScanChar
             THEN [scan EXCEPT !.i = @ + 1, !.at = IF ScanChar = "%" THEN @ + 2 ELSE @ + 1]
             ELSE [scan EXCEPT !.phase = "done"]

ScanUnfinished ==
  /\ IsConversion /\ Conversion(scan.fmt, scan.at + 1).type = "NUL"
  /\ scan' = [scan EXCEPT !.phase = "done", !.nmatch = -1]

\* The result of a conversion.  One that stores nothing does not end the scan.
Scanned(d, r, ccl) ==
  scan' = [scan EXCEPT !.at = ccl.at, !.i = r.i, !.phase = r.phase,
                       !.ccl = [chars |-> ccl.chars, stops |-> ccl.stops],
                       !.nmatch = IF r.value # Unset /\ d.ptr THEN @ + 1 ELSE @,
                       !.out = IF d.ptr THEN Append(@, r.value) ELSE @]

\* The set of a bracket stays in _sctab.
ScanConvert ==
  /\ IsConversion
  /\ LET d == Conversion(scan.fmt, scan.at + 1)
         kept == [at |-> d.at, chars |-> scan.ccl.chars, stops |-> scan.ccl.stops]
         ccl == IF d.getccl THEN _getccl(scan.fmt, d.at) ELSE kept
     IN  \/ /\ d.type \in {"c", "s", "["}
            /\ Scanned(d, _instr(d.type, d.len, ccl), ccl)
         \/ /\ d.type \notin {"NUL", "c", "s", "["}
            /\ Scanned(d, _innum(d.type, d.len, d.size), ccl)

_doscan == ScanEnd \/ ScanBlank \/ ScanMatch \/ ScanUnfinished \/ ScanConvert
=============================================================================
