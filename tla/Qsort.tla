------------------------------- MODULE Qsort -------------------------------
(***************************************************************************)
(* qsort(), lib/libxc/qsort.c: quicksort with the elements equal to the    *)
(* pivot gathered around it, from lp to hp.  An element is one value and   *)
(* es is 1, so pointers are positions in the array; qscmp is subtraction.  *)
(* Each iteration of one of the loops of qs1() is a step, and the stack    *)
(* holds the a and l that the callers of the recursive calls go on with.   *)
(***************************************************************************)
EXTENDS Integers, Sequences

VARIABLE sort     \* the call of qsort()

NoSort == [at |-> "none"]

\* qsort(): qs1() on the whole array.
Sorting(arr) ==
  [at |-> "start", arr |-> arr, a |-> 1, l |-> Len(arr) + 1,
   i |-> 1, j |-> 1, lp |-> 1, hp |-> 1, stack |-> <<>>]

qsexc(arr, i, j) == [arr EXCEPT ![i] = arr[j], ![j] = arr[i]]

\* *i, *k and *j are assigned one after the other.
qstexc(arr, i, j, k) ==
  LET c == arr[i]
      arr1 == [arr EXCEPT ![i] = arr[k]]
      arr2 == [arr1 EXCEPT ![k] = arr1[j]]
  IN  [arr2 EXCEPT ![j] = c]

qscmp(x, y) == x - y

\* A range of one element or none is sorted: qs1() returns.
Return ==
  /\ sort.at = "start" /\ sort.l - sort.a <= 1
  /\ LET n == Len(sort.stack)
     IN  sort' = IF n = 0 THEN [sort EXCEPT !.at = "done"]
                 ELSE [sort EXCEPT !.a = sort.stack[n].a, !.l = sort.stack[n].l,
                                   !.stack = SubSeq(@, 1, n - 1)]

\* The pivot is the element in the middle.
Start ==
  /\ sort.at = "start" /\ sort.l - sort.a > 1
  /\ LET middle == sort.a + (sort.l - sort.a) \div 2
     IN  sort' = [sort EXCEPT !.at = "for", !.lp = middle, !.hp = middle,
                              !.i = sort.a, !.j = sort.l - 1]

\* From the left: an element equal to the pivot joins it, a smaller one stays.
Left ==
  /\ sort.at = "for"
  /\ LET c == qscmp(sort.arr[sort.i], sort.arr[sort.lp])
     IN  sort' = CASE sort.i < sort.lp /\ c = 0 ->
                        [sort EXCEPT !.lp = @ - 1, !.arr = qsexc(@, sort.i, sort.lp - 1)]
                   [] sort.i < sort.lp /\ c < 0 -> [sort EXCEPT !.i = @ + 1]
                   [] OTHER                     -> [sort EXCEPT !.at = "loop"]

\* Bug: a smaller element from the right is exchanged with the pivot only.
Mutant_Exchange ==
  IF sort.i = sort.lp
  THEN [sort EXCEPT !.arr = qsexc(@, sort.i, sort.j), !.i = @ + 1, !.lp = @ + 1, !.hp = @ + 1]
  ELSE [sort EXCEPT !.arr = qsexc(@, sort.i, sort.j), !.i = @ + 1, !.j = @ - 1, !.at = "for"]

\* The element at j is smaller than the pivot.  It changes places with the one at
\* i, or, if there is none left to exchange, moves all that equal the pivot up.
Exchange ==
  IF sort.i = sort.lp
  THEN [sort EXCEPT !.arr = qstexc(@, sort.i, sort.hp + 1, sort.j),
                    !.hp = @ + 1, !.lp = @ + 1, !.i = sort.lp + 1]
  ELSE [sort EXCEPT !.arr = qsexc(@, sort.i, sort.j), !.i = @ + 1, !.j = @ - 1, !.at = "for"]

\* Bug: an equal element from the right is exchanged with the last that equals the
\* pivot, and not put behind it.
Mutant_Right ==
  /\ sort.at = "loop" /\ sort.j > sort.hp
  /\ LET c == qscmp(sort.arr[sort.hp], sort.arr[sort.j])
     IN  sort' = CASE c = 0 -> [sort EXCEPT !.arr = qsexc(@, sort.hp, sort.j)]
                   [] c > 0 -> Exchange
                   [] c < 0 -> [sort EXCEPT !.j = @ - 1]

\* From the right: an equal element joins the pivot, a larger one stays.
Right ==
  /\ sort.at = "loop" /\ sort.j > sort.hp
  /\ LET c == qscmp(sort.arr[sort.hp], sort.arr[sort.j])
     IN  sort' = CASE c = 0 -> [sort EXCEPT !.hp = @ + 1, !.arr = qsexc(@, sort.hp + 1, sort.j)]
                   [] c > 0 -> Exchange
                   [] c < 0 -> [sort EXCEPT !.j = @ - 1]

\* A larger element on the left, and none to exchange it with: all that equal the
\* pivot move down.
MoveDown ==
  /\ sort.at = "loop" /\ sort.j <= sort.hp /\ sort.i # sort.lp
  /\ sort' = [sort EXCEPT !.arr = qstexc(@, sort.j, sort.lp - 1, sort.i),
                          !.lp = @ - 1, !.hp = @ - 1, !.j = sort.hp - 1, !.at = "for"]

SmallerIsRight == sort.lp - sort.a >= sort.l - sort.hp

\* The range is divided: the smaller part is sorted by a recursive call, and then
\* the larger one.
Divide ==
  /\ sort.at = "loop" /\ sort.j <= sort.hp /\ sort.i = sort.lp
  /\ LET left == [a |-> sort.a, l |-> sort.lp]
         right == [a |-> sort.hp + 1, l |-> sort.l]
         now == IF SmallerIsRight THEN right ELSE left
         later == IF SmallerIsRight THEN left ELSE right
     IN  sort' = [sort EXCEPT !.a = now.a, !.l = now.l, !.at = "start",
                              !.stack = Append(@, later)]

qs1 == Return \/ Start \/ Left \/ Right \/ MoveDown \/ Divide
=============================================================================
