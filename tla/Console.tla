------------------------------ MODULE Console ------------------------------
(***************************************************************************)
(* The console, c/kprintf.c: kprintf() hands the characters of its output  *)
(* one by one to kputc() and kbmputc(), which keep the position of the     *)
(* next one in the memory of the display and move the text up when it is   *)
(* full.                                                                   *)
(*                                                                         *)
(* Positions are numbers of cells, from the start of the display's memory. *)
(* A cell is its character; the attribute byte is the same everywhere.     *)
(***************************************************************************)
EXTENDS Integers, Sequences

CONSTANTS
  COL, ROW,       \* the size of the screen (80 by 25)
  TabWidth,       \* distance of tab stops (8)
  Output,         \* the characters that are printed
  CursorAt,       \* where the cursor may be before the first output
  MaxOutput       \* bound on the number of characters

\* A line is several tab stops, and the display has a memory of 16 KB.
ASSUME ScreenAssumption ==
  /\ {COL, ROW, TabWidth} \subseteq Nat \ {0}
  /\ COL % TabWidth = 0 /\ TabWidth < COL
  /\ COL * ROW <= 8192
  /\ \A pos \in CursorAt : pos \in Nat /\ pos < 65536

Cells == 0..(COL * ROW - 1)
Text == "boot"      \* what the boot loader left on the screen
Blank == " "

VARIABLES
  Crtat,          \* the kind of display: where its memory is
  crtat,          \* the position of the next character, Null before the first
  screen,         \* the cells
  cursorat,       \* the cursor register of the display
  output          \* history: where the cursor was and what has been printed

vars == <<Crtat, crtat, screen, cursorat, output>>

\* The null pointer is a position, too, far above the display: its memory is at 0xB8000 or
\* 0xB0000, and a cell has two bytes.
Null == IF Crtat = "CGA" THEN -376832 ELSE -360448

\* The remainder in C has the sign of the dividend.
CRemainder(a, b) == IF a >= 0 THEN a % b ELSE -((-a) % b)

\* The two halves of the position go to the cursor registers.
cursor(pos) == pos % 65536

Init ==
  /\ Crtat \in {"CGA", "MONO"}
  /\ crtat = Null
  /\ screen = [i \in Cells |-> Text]
  /\ cursorat \in CursorAt
  /\ output = [start |-> cursorat, chars |-> <<>>]

\* The display is probed, and everything from the cursor on is cleared.  The
\* probe reads a word of the colour display; if there is none, it ends up in the
\* first cell of the monochrome one.
Probed ==
  LET at == IF cursorat <= COL * ROW THEN cursorat ELSE 0
  IN  [at   |-> at,
       cell |-> [i \in Cells |-> IF i >= at THEN Blank
                                 ELSE IF i = 0 /\ Crtat = "MONO" THEN "junk"
                                 ELSE screen[i]]]

\* Bug: the text is not moved up when a line feed leaves the screen.
Mutant_Scrolled(s) ==
  IF s.at <= COL * ROW THEN s
  ELSE [at   |-> s.at - COL,
        cell |-> [i \in Cells |-> IF i < COL * (ROW - 1) THEN s.cell[i + COL] ELSE Blank]]

Scrolled(s) ==
  IF s.at < COL * ROW THEN s
  ELSE [at   |-> s.at - COL,
        cell |-> [i \in Cells |-> IF i < COL * (ROW - 1) THEN s.cell[i + COL] ELSE Blank]]

\* A character that prints.  Outside of the screen it changes no cell.
Printed(s, c) ==
  Scrolled([at   |-> s.at + 1,
            cell |-> [i \in Cells |-> IF i = s.at THEN c ELSE s.cell[i]]])

\* Spaces up to the next tab stop, one at least.
Tabbed(s) ==
  LET after[n \in 0..TabWidth] == IF n = 0 THEN s ELSE Printed(after[n - 1], Blank)
      n == CHOOSE k \in 1..TabWidth :
             /\ after[k].at % TabWidth = 0
             /\ \A j \in 1..(k - 1) : after[j].at % TabWidth # 0
  IN  Scrolled(after[n])

\* Bug: a line feed keeps the column.
Mutant_Moved(s, c) ==
  Scrolled([s EXCEPT !.at = CASE c = "BS" -> @ - 1
                              [] c = "CR" -> @ - CRemainder(@, COL)
                              [] c = "LF" -> @ + COL])

\* Backspace, carriage return and line feed.
Moved(s, c) ==
  Scrolled([s EXCEPT !.at = CASE c = "BS" -> @ - 1
                              [] c = "CR" -> @ - CRemainder(@, COL)
                              [] c = "LF" -> @ + COL - CRemainder(@ + COL, COL)])

\* What a character that is not NUL makes of the position and the cells.
Put(s, c) ==
  CASE c = "TAB"                -> Tabbed(s)
    [] c \in {"BS", "CR", "LF"} -> Moved(s, c)
    [] OTHER                     -> Printed(s, c)

\* kprintf(), for one more character c: kputc() and kbmputc().  A NUL is no output.
kbmputc(c) ==
  /\ Len(output.chars) < MaxOutput
  /\ IF c = "NUL" THEN UNCHANGED vars
     ELSE LET s == Put(IF crtat = Null THEN Probed ELSE [at |-> crtat, cell |-> screen], c)
          IN  /\ crtat' = s.at
              /\ screen' = s.cell
              /\ cursorat' = cursor(s.at)
              /\ output' = [output EXCEPT !.chars = Append(@, c)]
              /\ UNCHANGED Crtat

Done == Len(output.chars) = MaxOutput /\ UNCHANGED vars

Next == (\E c \in Output : kbmputc(c)) \/ Done

Spec == Init /\ [][Next]_vars

-----------------------------------------------------------------------------
(***************************************************************************)
(* The reference: the same characters on a roll of paper with no end.      *)
(* Position p of the roll is in line p \div COL, and every position on the *)
(* way of the print head is kept.                                          *)
(***************************************************************************)
Start(out) == IF out.start <= COL * ROW THEN out.start ELSE 0

\* The head's way from p for one character.
After(p, c) ==
  CASE c = "TAB" -> (p \div TabWidth + 1) * TabWidth
    [] c = "BS"  -> p - 1
    [] c = "CR"  -> (p \div COL) * COL
    [] c = "LF"  -> (p \div COL + 1) * COL
    [] OTHER     -> p + 1

\* Where the head is after n characters.
HeadAt(out) ==
  LET at[n \in 0..Len(out.chars)] ==
        IF n = 0 THEN Start(out) ELSE After(at[n - 1], out.chars[n])
  IN  at

\* The n-th character leaves its mark at position p.
Marks(out, n, p) ==
  /\ out.chars[n] \notin {"BS", "CR", "LF"}
  /\ HeadAt(out)[n - 1] <= p /\ p < HeadAt(out)[n]

Ink(c) == IF c = "TAB" THEN Blank ELSE c

\* What was there before.
Ground(kind, out, p) ==
  IF p >= Start(out) THEN Blank ELSE IF p = 0 /\ kind = "MONO" THEN "junk" ELSE Text

Paper(kind, out, p) ==
  LET marks == {n \in 1..Len(out.chars) : Marks(out, n, p)}
      last == CHOOSE n \in marks : \A m \in marks : m <= n
  IN  IF marks = {} THEN Ground(kind, out, p) ELSE Ink(out.chars[last])

\* The lines that have left the screen at the top when n characters are printed.
Lines(out, n) ==
  LET last == CHOOSE r \in {HeadAt(out)[k] \div COL : k \in 0..n} :
                \A k \in 0..n : HeadAt(out)[k] \div COL <= r
  IN  IF last < ROW THEN 0 ELSE last - ROW + 1

\* The head has left the screen at the top, or was behind its end at the start.
LeftTop(out) == \E n \in 0..Len(out.chars) : HeadAt(out)[n] < COL * Lines(out, n)
BeganOutside(out) == Start(out) = COL * ROW

\* The screen shows the last lines of the paper, with the cursor at its place,
\* whatever mixture of characters, tabs, line feeds and backspaces crosses its
\* end, as long as the cursor has not left it at the top.  (kbmputc)
ShowsPaper ==
  output.chars # <<>> /\ ~ BeganOutside(output) /\ ~ LeftTop(output) =>
    LET n == Len(output.chars)
        gone == COL * Lines(output, n)
    IN  /\ \A i \in Cells : screen[i] = Paper(Crtat, output, gone + i)
        /\ crtat = HeadAt(output)[n] - gone
        /\ cursorat = crtat

\* The position is never outside of the screen, where characters would be lost
\* and other memory written, unless backspaces led there over the top or the
\* cursor was behind the last cell when the kernel started.  (kbmputc)
StaysOnScreen ==
  output.chars # <<>> => \/ crtat \in Cells
                         \/ crtat < 0 /\ LeftTop(output)
                         \/ crtat = COL * ROW /\ BeganOutside(output)
=============================================================================
