-------------------------------- MODULE Libc --------------------------------
(***************************************************************************)
(* The C library, lib/libxc: one call of one of its functions.  A string   *)
(* function returns in one step, qsort(), _doprnt() and _doscan() take     *)
(* their own; the output of one _doprnt() is the input of a sscanf().      *)
(* The results are compared with what the C language says of the           *)
(* functions, written without the loops and pointers of the code.          *)
(***************************************************************************)
EXTENDS Strings, Qsort, Scanf, SequencesExt, FiniteSets

CONSTANTS
  Letters,        \* the characters of a text: numbers that are no NUL
  MaxText,        \* the length of the longest text
  Limits,         \* the values of n, the number of characters to compare or move
  MaxArray,       \* the length of the longest array that is sorted
  Keys,           \* its elements
  Words,          \* the numbers that are printed
  Widths,         \* the widths of the fields that are printed
  MaxInput        \* the length of the longest string that is scanned

VARIABLE call     \* what was called: the function, its arguments, its result

vars == <<call, sort, prnt, scan>>

-----------------------------------------------------------------------------
(***************************************************************************)
(* The calls.  A text is stored in a buffer: a NUL behind it, and then     *)
(* what the memory happens to hold, which no function may change.          *)
(***************************************************************************)
MARK == 99
Texts == UNION {[1..n -> Letters] : n \in 0..MaxText}
Stored(text, rest) == text \o <<NUL>> \o Repeat(rest, 2 * MaxText + 2 - Len(text))
Buffer(text) == Stored(text, MARK)
Source(text) == Stored(text, MARK - 1)

Numbers == UNION {[1..n -> {BLANK, MINUS, PLUS, ZERO, ZERO + 7}] : n \in 0..4}
Halves == {0, 1, 255, 256, 32767, -1, -32768, -256}
Inputs == UNION {[1..n -> {65, EOL, EOT}] : n \in 0..MaxText}

NoResult == <<>>
IsCall(c) ==
  \/ c \in [fn : {"strlen"}, s : Texts, result : {NoResult}]
  \/ c \in [fn : {"strcmp", "strcpy", "strcat"}, s : Texts, s2 : Texts, result : {NoResult}]
  \/ c \in [fn : {"strncmp", "strncpy", "strncat"}, s : Texts, s2 : Texts, n : Limits, result : {NoResult}]
  \/ c \in [fn : {"memset"}, s : Texts, c : Letters, n : Limits, result : {NoResult}]
  \/ c \in [fn : {"index", "rindex"}, s : Texts, c : Letters \cup {NUL}, result : {NoResult}]
  \/ c \in [fn : {"atoi"}, s : Numbers, result : {NoResult}]
  \/ c \in [fn : {"swab"}, from : [1..3 -> Halves], n : 0..7, result : {NoResult}]
  \/ c \in [fn : {"fgets"}, input : Inputs, n : 0..(MaxText + 2), result : {NoResult}]
  \/ c \in [fn : {"gets"}, input : {i \in Inputs : \E k \in 1..Len(i) : i[k] # 65}, result : {NoResult}]

Arrays == UNION {[1..n -> Keys] : n \in 0..MaxArray}

(***************************************************************************)
(* A format is put together from pieces: characters, a doubled percent     *)
(* sign, and conversions with the arguments they take.                     *)
(***************************************************************************)
NoPrecision == -1

Numbered ==
  [conv : {"d", "u", "o", "x", "b"}, left : BOOLEAN, zero : BOOLEAN, width : Widths,
   star : BOOLEAN, prec : {NoPrecision}, long : BOOLEAN, arg : Words]
Worded ==
  [conv : {"s"}, left : BOOLEAN, zero : {FALSE}, width : Widths, star : BOOLEAN,
   prec : Widths \cup {NoPrecision}, long : {FALSE}, arg : {<<>>, <<"x">>, <<"x", "y", "z">>}]
Lettered ==
  [conv : {"c"}, left : BOOLEAN, zero : BOOLEAN, width : Widths, star : BOOLEAN,
   prec : {NoPrecision, 2}, long : {FALSE}, arg : {"x"}]
Others ==
  [conv : {"D", "U", "O", "X", "B", "z", "NUL"}, left : {FALSE}, zero : BOOLEAN, width : {0, 3},
   star : {FALSE}, prec : {NoPrecision, 2}, long : {FALSE}, arg : {10}]

Plain(conv, width, arg) ==
  [conv |-> conv, left |-> FALSE, zero |-> FALSE, width |-> width, star |-> FALSE,
   prec |-> NoPrecision, long |-> FALSE, arg |-> arg]
Mixed == <<[conv |-> "literal"], [conv |-> "percent"], Plain("d", 4, -7),
           Plain("s", 6, <<"x", "y">>), Plain("c", 0, "x"), Plain("z", 0, 1)>>

\* Widths have up to two digits here.
Decimal(n) == IF n >= 10 THEN <<DigitChars[(n \div 10) + 1], DigitChars[(n % 10) + 1]>>
              ELSE <<DigitChars[n + 1]>>
If(condition, chars) == IF condition THEN chars ELSE <<>>

FormatOf(piece) ==
  CASE piece.conv = "literal" -> <<"l">>
    [] piece.conv = "percent" -> <<"%", "%">>
    [] OTHER ->
         <<"%">> \o If(piece.left, <<"-">>) \o If(piece.zero, <<"0">>)
           \o If(piece.star, <<"*">>) \o If(~ piece.star /\ piece.width > 0, Decimal(piece.width))
           \o If(piece.prec # NoPrecision, <<".">>)
           \o If(piece.prec # NoPrecision, IF piece.star THEN <<"*">> ELSE Decimal(piece.prec))
           \o If(piece.long, <<"l">>) \o If(piece.conv # "NUL", <<piece.conv>>)
ArgsOf(piece) ==
  IF piece.conv \in {"literal", "percent"} THEN <<>>
  ELSE If(piece.star, <<piece.width>>) \o If(piece.star /\ piece.prec # NoPrecision, <<piece.prec>>)
         \o <<piece.arg>>

Joined(seqs) ==
  LET joined[k \in 0..Len(seqs)] == IF k = 0 THEN <<>> ELSE joined[k - 1] \o seqs[k]
  IN  joined[Len(seqs)]

PrintCall(pieces) == Called(Joined([k \in 1..Len(pieces) |-> FormatOf(pieces[k])]),
                            Joined([k \in 1..Len(pieces) |-> ArgsOf(pieces[k])]))

Printing(pieces) ==
  /\ call = [fn |-> "_doprnt", pieces |-> pieces]
  /\ prnt = PrintCall(pieces)
  /\ sort = NoSort /\ scan = NoScan

(***************************************************************************)
(* A string is scanned for one conversion, or for the numbers that have    *)
(* been printed into it, each with something behind it.                    *)
(***************************************************************************)
ScanFormat(c) ==
  <<"%">> \o If(~ c.ptr, <<"*">>) \o If(c.len > 0, Decimal(c.len)) \o If(c.type # "NUL", <<c.type>>) \o c.set
NumberConversions ==
  [ptr : {TRUE}, len : 0..2, type : {"d", "x"}, set : {<<>>}]
    \cup [ptr : {FALSE}, len : {0}, type : {"d", "NUL"}, set : {<<>>}]
TextConversions ==
  [ptr : {TRUE}, len : {0, 2}, type : {"s", "c"}, set : {<<>>}]
    \cup [ptr : {TRUE}, len : {0, 2}, type : {"["}, set : {<<"x", "]">>, <<"^", "x", "]">>}]
    \cup [ptr : {FALSE}, len : {0}, type : {"s"}, set : {<<>>}]
StringsOf(chars) == UNION {[1..n -> chars] : n \in 1..MaxInput}

IsScan(conversions, chars, bitsets) ==
  /\ sort = NoSort /\ prnt = NoPrnt
  /\ \E c \in conversions, str \in StringsOf(chars), bits \in bitsets :
       call = [fn |-> "sscanf", c |-> c] /\ scan = Scanning(str, ScanFormat(c), bits)

Rereads == {piece \in Numbered : piece.conv # "b" /\ piece.width \in {0, 12}
                                   /\ ~ piece.star /\ ~ piece.long}
IsReread ==
  \E piece \in Rereads :
    LET pieces == <<piece, [conv |-> "percent"], Plain("x", 9, -7), [conv |-> "literal"]>> IN
      /\ call = [fn |-> "reread", pieces |-> pieces]
      /\ prnt = PrintCall(pieces) /\ sort = NoSort /\ scan = NoScan

Init ==
  \/ IsCall(call) /\ sort = NoSort /\ prnt = NoPrnt /\ scan = NoScan
  \/ IsScan(NumberConversions, {" ", "-", "+", "7", "a"}, {{}})
  \/ IsScan(TextConversions, {" ", "x", "y"}, SUBSET {"SPC", "STP"})
  \/ IsReread
  \/ \E arr \in Arrays : /\ call = [fn |-> "qsort", arr |-> arr]
                         /\ sort = Sorting(arr) /\ prnt = NoPrnt /\ scan = NoScan
  \/ \E piece \in Numbered : Printing(<<piece>>)
  \/ \E piece \in Worded : Printing(<<piece>>)
  \/ \E piece \in Lettered : Printing(<<piece>>)
  \/ \E piece \in Others : Printing(<<piece>>)
  \/ \E f \in [1..3 -> 1..Len(Mixed)] : Printing([k \in 1..3 |-> Mixed[f[k]]])

-----------------------------------------------------------------------------
\* What a string function returns; a function that writes, the memory after it.
Result(c) ==
  CASE c.fn = "strlen"  -> strlen(Buffer(c.s))
    [] c.fn = "strcmp"  -> strcmp(Buffer(c.s), Source(c.s2))
    [] c.fn = "strncmp" -> strncmp(Buffer(c.s), Source(c.s2), c.n)
    [] c.fn = "strcpy"  -> strcpy(Buffer(c.s), Source(c.s2))
    [] c.fn = "strcat"  -> strcat(Buffer(c.s), Source(c.s2))
    [] c.fn = "strncpy" -> strncpy(Buffer(c.s), Source(c.s2), c.n)
    [] c.fn = "strncat" -> strncat(Buffer(c.s), Source(c.s2), c.n)
    [] c.fn = "memset"  -> memset(Buffer(c.s), c.c, c.n)
    [] c.fn = "index"   -> index(Buffer(c.s), c.c)
    [] c.fn = "rindex"  -> rindex(Buffer(c.s), c.c)
    [] c.fn = "atoi"    -> atoi(c.s \o <<NUL>>)
    [] c.fn = "swab"    -> swab(c.from, <<MARK, MARK, MARK>>, c.n)
    [] c.fn = "fgets"   -> fgets(Buffer(<<>>), c.n, c.input)
    [] c.fn = "gets"    -> gets(Buffer(<<>>), c.input)

IsStringCall == sort = NoSort /\ prnt = NoPrnt /\ scan = NoScan

ReturnString ==
  /\ IsStringCall /\ call.result = NoResult
  /\ call' = [call EXCEPT !.result = <<Result(call)>>]
  /\ UNCHANGED <<sort, prnt, scan>>

\* What was printed is scanned with the same conversions.
Reread ==
  /\ call.fn = "reread" /\ prnt.phase = "done" /\ scan = NoScan
  /\ LET formats == [k \in 1..4 |-> IF k \in {1, 3} THEN <<"%", call.pieces[k].conv, " ">>
                                    ELSE FormatOf(call.pieces[k])]
     IN  scan' = Scanning(prnt.out, Joined(formats), {})
  /\ UNCHANGED <<call, sort, prnt>>

Finished ==
  \/ IsStringCall /\ call.result # NoResult
  \/ sort # NoSort /\ sort.at = "done"
  \/ call.fn = "_doprnt" /\ prnt.phase \in {"done", "overrun"}
  \/ scan # NoScan /\ scan.phase # "format"

SortStep == qs1 /\ UNCHANGED <<call, prnt, scan>>

Next ==
  \/ ReturnString
  \/ SortStep
  \/ _doprnt /\ UNCHANGED <<call, sort, scan>>
  \/ Reread
  \/ _doscan /\ UNCHANGED <<call, sort, prnt>>
  \/ Finished /\ UNCHANGED vars

\* The process that sorts runs again and again: the dispatcher takes turns.
Spec == Init /\ [][Next]_vars /\ WF_vars(SortStep)

-----------------------------------------------------------------------------
(***************************************************************************)
(* What C says of the string functions, on texts.                          *)
(***************************************************************************)
Cut(text, n) == SubSeq(text, 1, IF n < Len(text) THEN n ELSE Len(text))

Before(t1, t2) ==
  \/ IsStrictPrefix(t1, t2)
  \/ \E k \in 1..Len(t1) : k <= Len(t2) /\ t1[k] < t2[k] /\ Cut(t1, k - 1) = Cut(t2, k - 1)

HasOrder(r, t1, t2) == (r = 0 <=> t1 = t2) /\ (r < 0 <=> Before(t1, t2))

Positions(s, c) == {k \in 1..(Len(s) + 1) : Append(s, NUL)[k] = c}
IsPosition(r, S, IsBest(_, _)) ==
  IF S = {} THEN r = NOTHING ELSE r \in S /\ \A k \in S : IsBest(r, k)

\* The memory begins with chars, and behind them is what it was.
Holds(r, old, chars) == r = chars \o SubSeq(old, Len(chars) + 1, Len(old))

\* A blank part, perhaps a sign, and the longest string of digits.
IsValue(r, s) ==
  \E b, d \in 0..Len(s), sign \in {<<>>, <<PLUS>>, <<MINUS>>} :
    LET front == Repeat(BLANK, b) \o sign
        digits == SubSeq(s, Len(front) + 1, Len(front) + d)
        place[k \in 0..d] == IF k = 0 THEN 0
                             ELSE place[k - 1] + (digits[d + 1 - k] - ZERO) * 10^(k - 1)
        rest == SubSeq(s, Len(front) + d + 1, Len(s))
    IN  /\ Len(front) + d <= Len(s) /\ s = front \o digits \o rest
        /\ \A k \in 1..d : digits[k] \in ZERO..(ZERO + 9)
        /\ rest = <<>> \/ rest[1] \notin ZERO..(ZERO + 9)
        /\ sign = <<>> /\ d = 0 => rest = <<>> \/ rest[1] \notin {BLANK, PLUS, MINUS}
        /\ r = IF sign = <<MINUS>> THEN -place[d] ELSE place[d]

Returned(fns) == IsStringCall /\ call.result # NoResult /\ call.fn \in fns

\* strlen, strcmp, strncmp, index and rindex (lib/libxc/str*.c, index.c, rindex.c) find
\* the end, the order and the first or last position that the texts have, whatever
\* comes behind the NUL of either of them and for every limit.
ScansRight ==
  Returned({"strlen", "strcmp", "strncmp", "index", "rindex"}) =>
    LET r == call.result[1]
    IN  CASE call.fn = "strlen"  -> r = Len(call.s)
          [] call.fn = "strcmp"  -> HasOrder(r, call.s, call.s2)
          [] call.fn = "strncmp" -> HasOrder(r, Cut(call.s, call.n), Cut(call.s2, call.n))
          [] call.fn = "index"   -> IsPosition(r, Positions(call.s, call.c), <=)
          [] call.fn = "rindex"  -> IsPosition(r, Positions(call.s, call.c), >=)

\* The functions that write leave the text C says there, end it where C says, and do
\* not touch a byte behind it: the NUL of strncat() replaces the character that was one
\* too many, strncpy() pads up to its limit, memset() and swab() stop at theirs, and
\* fgets() fits a line and its NUL in n bytes.  (For n = 1 fgets() gives a null pointer
\* and C an empty string: nothing is said of that limit.)
CopiesRight ==
  Returned({"strcpy", "strcat", "strncpy", "strncat", "memset", "swab", "fgets", "gets"}) =>
    LET r == call.result[1]
        old == Buffer(IF "s" \in DOMAIN call THEN call.s ELSE <<>>)
        line == IF "input" \notin DOMAIN call \/ EOL \notin Range(call.input) THEN call
                ELSE [input |-> Cut(call.input, CHOOSE k \in Positions(call.input, EOL) :
                                                  \A j \in Positions(call.input, EOL) : k <= j)]
    IN  CASE call.fn = "strcpy"  -> Holds(r, old, call.s2 \o <<NUL>>)
          [] call.fn = "strcat"  -> Holds(r, old, call.s \o call.s2 \o <<NUL>>)
          [] call.fn = "strncpy" ->
               Holds(r, old, Cut(call.s2, call.n) \o Repeat(NUL, call.n - Len(call.s2)))
          [] call.fn = "strncat" -> Holds(r, old, call.s \o Cut(call.s2, call.n) \o <<NUL>>)
          [] call.fn = "memset"  -> Holds(r, old, Repeat(call.c, call.n))
          [] call.fn = "swab"    ->
               \A k \in 1..3 : IF 2 * k > call.n THEN r[k] = MARK
                               ELSE /\ r[k] % 256 = (call.from[k] \div 256) % 256
                                    /\ call.from[k] % 256 = (r[k] \div 256) % 256
          [] call.fn = "fgets"   ->
               call.n # 1 =>
                 IF call.n < 1 \/ call.input = <<>> THEN r = NOTHING
                 ELSE Holds(r, old, Cut(line.input, call.n - 1) \o <<NUL>>)
          [] call.fn = "gets"    ->
               LET n == CHOOSE k \in 1..Len(call.input) :
                          call.input[k] # 65 /\ \A j \in 1..(k - 1) : call.input[j] = 65
               IN  IF n = 1 /\ call.input[1] = EOT THEN r = NOTHING
                   ELSE Holds(r, old, Cut(call.input, n - 1) \o <<NUL>>)

\* atoi() (lib/libxc/atoi.c), which gives the shell its process numbers and times,
\* reads blanks, at most one sign and then digits, and stops at anything else.
NumbersRight == Returned({"atoi"}) => IsValue(call.result[1], call.s)

\* Every string function of lib/libxc, on memory that goes on behind its texts, gives
\* what C says, for texts that are empty and limits of 0, too; a limit below is as good
\* as 0.  On these texts the one case in which a function does not is that of fgets().
StringsRight == ScansRight /\ CopiesRight /\ NumbersRight

-----------------------------------------------------------------------------
\* qsort() (lib/libxc/qsort.c) leaves a sorted permutation of the array.
SortedPermutation ==
  sort # NoSort /\ sort.at = "done" =>
    /\ \A k \in 1..(Len(sort.arr) - 1) : sort.arr[k] <= sort.arr[k + 1]
    /\ \A key \in Keys : Cardinality(Positions(sort.arr, key)) = Cardinality(Positions(call.arr, key))

\* The recursive call of qs1() sorts the smaller part, so that no more calls are open
\* than the array's length has bits, on a stack of a fixed size.
ShallowRecursion == sort # NoSort => 2^Len(sort.stack) <= Len(sort.arr) + 1

\* qsort() sorts, and fits the stack while it does.
SortsRight == SortedPermutation /\ ShallowRecursion

-----------------------------------------------------------------------------
(***************************************************************************)
(* What C says of a conversion.  The value of a word is kept in two halves *)
(* of 16 bits, which are divided by the base.                              *)
(***************************************************************************)
UnsignedHalves(w) == [hi |-> (w \div 65536) % 65536, lo |-> w % 65536]
MagnitudeHalves(w) ==
  IF w >= 0 THEN UnsignedHalves(w)
  ELSE LET h == UnsignedHalves(-(w + 1))      \* one less
       IN  [hi |-> h.hi + (h.lo + 1) \div 65536, lo |-> (h.lo + 1) % 65536]

NumeralOf(halves, base) ==
  LET divided[k \in 0..32] ==
        IF k = 0 THEN halves
        ELSE LET h == divided[k - 1]
             IN  [hi |-> h.hi \div base, lo |-> ((h.hi % base) * 65536 + h.lo) \div base]
      length == IF halves = [hi |-> 0, lo |-> 0] THEN 1
                ELSE CHOOSE n \in 1..32 : /\ divided[n] = [hi |-> 0, lo |-> 0]
                                          /\ divided[n - 1] # [hi |-> 0, lo |-> 0]
      digit(k) == ((divided[k].hi % base) * 65536 + divided[k].lo) % base
  IN  [k \in 1..length |-> DigitChars[digit(length - k) + 1]]

BaseOf(conv) == CASE conv \in {"d", "u", "D", "U"} -> 10 [] conv \in {"o", "O"} -> 8
                  [] conv \in {"x", "X"} -> 16 [] conv \in {"b", "B"} -> 2

Expected(piece) ==
  IF piece.conv = "literal" THEN <<"l">> ELSE IF piece.conv = "percent" THEN <<"%">>
  ELSE LET sign == If(piece.conv \in {"d", "D"} /\ piece.arg < 0, <<"-">>)
           text == CASE piece.conv = "s" -> IF piece.prec = NoPrecision THEN piece.arg
                                            ELSE Cut(piece.arg, piece.prec)
                     [] piece.conv = "c" -> <<piece.arg>>
                     [] piece.conv \in {"d", "D"} -> NumeralOf(MagnitudeHalves(piece.arg), 10)
                     [] OTHER -> NumeralOf(UnsignedHalves(piece.arg), BaseOf(piece.conv))
           fill(c) == Repeat(c, piece.width - Len(sign \o text))
       IN  IF piece.left THEN sign \o text \o fill(" ")
           ELSE IF piece.zero THEN sign \o fill("0") \o text
           ELSE fill(" ") \o sign \o text

\* The conversions that _doprnt() shares with C: no zeros to the right of a field, no
\* width beyond the limit, a precision for strings only and not 0, and of a binary
\* number no more digits than its buffer holds.
Standard(piece) ==
  \/ piece.conv \in {"literal", "percent"}
  \/ /\ piece.conv \notin {"z", "NUL"}
     /\ piece.width \in 0..MAXSTR
     /\ ~ (piece.zero /\ (piece.left \/ piece.conv = "c"))
     /\ piece.prec = NoPrecision \/ (piece.conv = "s" /\ piece.prec \in 1..MAXSTR)
     /\ piece.conv \in {"b", "B"} =>
          Len(NumeralOf(UnsignedHalves(piece.arg), 2)) < StringSize

\* A format of such conversions is printed by _doprnt() (lib/libxc/doprnt.c) as C says,
\* the smallest and the largest words included, each conversion with its own argument,
\* and without writing beyond the buffer.
PrintsRight ==
  call.fn = "_doprnt" /\ (\A k \in 1..Len(call.pieces) : Standard(call.pieces[k])) =>
    /\ prnt.phase # "overrun"
    /\ prnt.phase = "done" =>
         /\ prnt.out = Joined([k \in 1..Len(call.pieces) |-> Expected(call.pieces[k])])
         /\ prnt.arg = Len(prnt.args) + 1

-----------------------------------------------------------------------------
(***************************************************************************)
(* What C says of a conversion of sscanf(): the input is blanks, which %c  *)
(* and %[ do not skip, the longest piece that the conversion takes, and a  *)
(* rest, which comes next.                                                 *)
(***************************************************************************)
ScanDone == call.fn = "sscanf" /\ scan.phase = "done" /\ call.c.type # "NUL"

Place(digits, base) ==
  LET sum[k \in 0..Len(digits)] == IF k = 0 THEN 0 ELSE base * sum[k - 1] + DigitOf(digits[k])
  IN  sum[Len(digits)]

\* The length of the longest string of the characters of S at position i; no longer
\* than len, unless that is -1.
Longest(i, S, len) ==
  CHOOSE n \in 0..(Len(scan.str) + 1 - i) :
    /\ (len = -1 \/ n <= len) /\ \A k \in i..(i + n - 1) : scan.str[k] \in S
    /\ i + n > Len(scan.str) \/ scan.str[i + n] \notin S \/ n = len

\* A number that has something behind it in the string is read by _innum()
\* (lib/libxc/doscan.c) as C says, a sign counts for the width, and the rest of the string
\* comes next; what has no digit is no number, but for a minus sign, which is one.
ScansNumbers ==
  ScanDone /\ call.c.type \in {"d", "x"} =>
    LET base == IF call.c.type = "x" THEN 16 ELSE 10
        Digit == {d \in {"7", "a"} : DigitOf(d) < base}
        b == Longest(1, {" "}, -1)
        signs == IF b < Len(scan.str) /\ scan.str[b + 1] \in {"-", "+"} THEN 1 ELSE 0
        n == Longest(b + signs + 1, Digit, IF call.c.len = 0 THEN -1 ELSE call.c.len - signs)
        digits == SubSeq(scan.str, b + signs + 1, b + signs + n)
        minus == signs = 1 /\ scan.str[b + 1] = "-"
        value == IF minus THEN -Place(digits, base) ELSE Place(digits, base)
    IN  b + signs + n < Len(scan.str) =>
          /\ scan.i = b + signs + n + 1
          /\ ~ call.c.ptr => scan.nmatch = 0 /\ scan.out = <<>>
          /\ call.c.ptr /\ (n > 0 \/ minus) => scan.nmatch = 1 /\ scan.out = <<<<value>>>>
          /\ call.c.ptr /\ n = 0 /\ ~ minus => scan.nmatch = 0

\* A word, a run of the characters of a set and a number of characters that have
\* something behind them are read by _instr() (lib/libxc/doscan.c) as C says.
ScansTexts ==
  call.fn = "sscanf" /\ call.c.type \in {"s", "c", "["} =>
    LET all == {" ", "x", "y"}
        S == CASE call.c.type = "s" -> all \ {" "} [] call.c.type = "c" -> all
               [] OTHER -> IF Head(call.c.set) = "^" THEN all \ {"x"} ELSE {"x"}
        b == IF call.c.type = "s" THEN Longest(1, {" "}, -1) ELSE 0
        n == Longest(b + 1, S, IF call.c.len > 0 THEN call.c.len ELSE IF call.c.type = "c" THEN 1 ELSE -1)
    IN  b + n < Len(scan.str) =>
          /\ scan.phase \in {"format", "done"}
          /\ scan.phase = "done" =>
               /\ scan.i = b + n + 1
               /\ ~ call.c.ptr => scan.nmatch = 0 /\ scan.out = <<>>
               /\ call.c.ptr /\ n > 0 => /\ scan.nmatch = 1
                                        /\ scan.out = <<<<SubSeq(scan.str, b + 1, b + n)>>>>
               /\ call.c.ptr /\ n = 0 => scan.nmatch = 0

\* One conversion of sscanf() takes from the string what C says and leaves the rest for
\* the next one: _doscan() pushes back the one character it has read too many.
ConversionsRight == ScansNumbers /\ ScansTexts

\* What _doprnt() prints, _doscan() reads: every word, the smallest and the largest
\* included, in every base and field, comes back from a string that goes on behind it.
ReadsBack ==
  call.fn = "reread" /\ scan # NoScan /\ scan.phase = "done" /\ Standard(call.pieces[1]) =>
    scan.nmatch = 2 /\ scan.out = <<<<call.pieces[1].arg>>, <<-7>>>>

-----------------------------------------------------------------------------
\* qsort() returns: the loops of qs1() end for every array, whatever elements equal the
\* pivot and wherever they are.
SortReturns == (call.fn = "qsort") ~> (sort.at = "done")
=============================================================================
