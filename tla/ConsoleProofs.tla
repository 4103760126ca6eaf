---------------------------- MODULE ConsoleProofs ----------------------------
(***************************************************************************)
(* The console shows the end of what was printed, and never leaves the     *)
(* screen but over its top or because it began behind its end: for screens *)
(* of every size, every distance of tab stops and outputs of any length.   *)
(*                                                                         *)
(* The screen is compared with the roll of paper step by step: what one    *)
(* character does to the screen (Glass), what it does to the paper         *)
(* (PaperGrows), and that the two differ by the lines that have gone.      *)
(***************************************************************************)
EXTENDS Console, NumberProofs, SequenceTheorems

-----------------------------------------------------------------------------
(***************************************************************************)
(* Quotients and remainders.                                               *)
(***************************************************************************)

LEMMA Division ==
  ASSUME NEW n \in Int, NEW d \in Nat \ {0}
  PROVE  n % d \in 0..(d - 1) /\ n \div d \in Int /\ n = d * (n \div d) + (n % d)
OBVIOUS

LEMMA Products ==
  ASSUME NEW a \in Int, NEW b \in Int, NEW d \in Nat \ {0}
  PROVE  /\ a <= b => d * a <= d * b
         /\ d * a < d * b => a < b
<1>1. ASSUME a <= b PROVE d * a <= d * b
  <2>1. PICK c \in Nat : b = a + c
    BY <1>1
  <2>2. d * c >= 0 /\ d * c \in Int /\ d * a \in Int
    OBVIOUS
  <2>3. d * (a + c) = d * a + d * c
    OBVIOUS
  <2> QED
    BY <2>1, <2>2, <2>3
<1>2. ASSUME d * a < d * b PROVE a < b
  <2> SUFFICES ASSUME b <= a PROVE FALSE
    OBVIOUS
  <2>1. PICK c \in Nat : a = b + c
    OBVIOUS
  <2>2. d * c >= 0 /\ d * c \in Int /\ d * b \in Int
    OBVIOUS
  <2>3. d * (b + c) = d * b + d * c
    OBVIOUS
  <2> QED
    BY <1>2, <2>1, <2>2, <2>3
<1> QED
  BY <1>1, <1>2

\* A number has one quotient and one remainder.
LEMMA DivisionUnique ==
  ASSUME NEW n \in Int, NEW d \in Nat \ {0}, NEW q \in Int, NEW r \in 0..(d - 1), n = d * q + r
  PROVE  n \div d = q /\ n % d = r
<1>1. PICK a \in Int, b \in 0..(d - 1) : n = d * a + b /\ a = n \div d /\ b = n % d
  BY Division
<1>2. d * a \in Int /\ d * q \in Int
  OBVIOUS
<1>3. d * (a + 1) = d * a + d /\ d * (q + 1) = d * q + d
  OBVIOUS
<1>4. d * a < d * (q + 1) /\ d * q < d * (a + 1)
  BY <1>1, <1>2, <1>3
<1>5. a < q + 1 /\ q < a + 1
  BY <1>4, Products
<1>6. a = q
  BY <1>5
<1> QED
  BY <1>1, <1>2, <1>6

\* A multiple more changes no remainder.
Shifted(x, n, d, k) == n \in Int /\ d \in Nat \ {0} /\ k \in Int /\ x = n + d * k

LEMMA ShiftedRemainder ==
  ASSUME NEW n, NEW d, NEW k, NEW x, Shifted(x, n, d, k)
  PROVE  x \in Int /\ x % d = n % d
<1>0. n \in Int /\ d \in Nat \ {0} /\ k \in Int /\ x = n + d * k
  BY DEF Shifted
<1>1. PICK a \in Int, b \in 0..(d - 1) : n = d * a + b /\ b = n % d
  BY <1>0, Division
<1>2. PICK q \in Int : q = a + k
  BY <1>0
<1>3. x = d * q + b
  <2>1. d * (a + k) = d * a + d * k
    BY <1>0
  <2>2. d * a \in Int /\ d * k \in Int
    BY <1>0
  <2> QED
    BY <1>0, <1>1, <1>2, <2>1, <2>2
<1>4. x \in Int
  BY <1>0
<1>5. x % d = b
  BY <1>0, <1>3, <1>4, DivisionUnique
<1> QED
  BY <1>1, <1>4, <1>5

\* Rounding down and up.
Divided(n, d, a, b) == n \in Int /\ d \in Nat \ {0} /\ a = n \div d /\ b = n % d

LEMMA Rounding ==
  ASSUME NEW n, NEW d, NEW a, NEW b, Divided(n, d, a, b)
  PROVE  /\ a \in Int /\ b \in 0..(d - 1) /\ n = d * a + b
         /\ a * d = n - b /\ (a + 1) * d = n + d - b
<1>0. n \in Int /\ d \in Nat \ {0}
  BY DEF Divided
<1>1. a \in Int /\ b \in 0..(d - 1) /\ n = d * a + b
  BY Division DEF Divided
<1>2. a * d = d * a /\ (a + 1) * d = d * a + d
  BY <1>0, <1>1
<1>3. PICK x \in Int : x = d * a
  BY <1>0, <1>1
<1>4. n = x + b /\ a * d = x /\ (a + 1) * d = x + d
  BY <1>1, <1>2, <1>3
<1>5. n - b = x /\ n + d - b = x + d
  BY <1>0, <1>1, <1>4
<1> QED
  BY <1>1, <1>4, <1>5

\* x is n rounded up, and past n if n is a multiple.
LEMMA RoundedUp ==
  ASSUME NEW n \in Int, NEW d \in Nat \ {0}, NEW b, b = n % d, NEW x, x = n + d - b
  PROVE  /\ x \in Int /\ x % d = 0
         /\ \A w \in Int : n < w /\ w % d = 0 => x <= w
<1>1. PICK a \in Int : n = d * a + b /\ b \in 0..(d - 1)
  BY Division
<1>2. PICK q \in Int : q = a + 1
  OBVIOUS
<1>3. x = d * q
  <2>1. d * (a + 1) = d * a + d
    OBVIOUS
  <2>2. PICK y \in Int : y = d * a
    OBVIOUS
  <2>3. n = y + b /\ b \in Int
    BY <1>1, <2>2
  <2>4. x = y + d
    <3>1. PICK z : z = n + d - b
      OBVIOUS
    <3>2. z = y + d
      BY <2>3, <3>1
    <3> QED
      BY <3>1, <3>2
  <2> QED
    BY <1>2, <2>1, <2>2, <2>4
<1>4. x = d * q + 0 /\ x \in Int /\ 0 \in 0..(d - 1)
  BY <1>1, <1>3
<1>5. x % d = 0
  BY <1>4, DivisionUnique
<1>6. ASSUME NEW w \in Int, n < w, w % d = 0 PROVE x <= w
  <2>1. PICK z \in Int, y \in 0..(d - 1) : w = d * z + y /\ y = w % d
    BY Division
  <2>2. w = d * z /\ d * z \in Int /\ d * a \in Int
    BY <1>6, <2>1
  <2>3. d * a < d * z
    <3>1. PICK u \in Int : u = d * a
      OBVIOUS
    <3>2. n = u + b /\ b >= 0 /\ b \in Int
      BY <1>1, <3>1
    <3>3. u < w
      BY <1>6, <3>2
    <3> QED
      BY <2>2, <3>1, <3>3
  <2>4. q <= z
    BY <1>2, <2>3, Products
  <2>5. d * q <= d * z
    BY <2>4, Products
  <2> QED
    BY <1>3, <2>2, <2>5
<1> QED
  BY <1>4, <1>5, <1>6

-----------------------------------------------------------------------------
(***************************************************************************)
(* The head.                                                               *)
(***************************************************************************)

\* The sizes of the screen: a line of c cells is m tab stops of t, and there are w cells.
Sizes(c, w, t, m) ==
  /\ c = COL /\ w = COL * ROW /\ t = TabWidth
  /\ c \in Nat \ {0} /\ t \in Nat \ {0} /\ m \in Int /\ w \in Nat
  /\ c = t * m /\ t < c /\ c <= w /\ w % t = 0 /\ Cells = 0..(w - 1)

LEMMA ScreenSizes == \E c, w, t, m : Sizes(c, w, t, m)
<1>1. PICK c \in Nat \ {0}, r \in Nat \ {0}, t \in Nat \ {0} : c = COL /\ r = ROW /\ t = TabWidth
  <2>1. COL \in Nat \ {0} /\ ROW \in Nat \ {0} /\ TabWidth \in Nat \ {0}
    BY ScreenAssumption
  <2> QED
    BY <2>1, Zenon
<1>2. c % t = 0 /\ t < c
  BY <1>1, ScreenAssumption
<1>3. PICK m \in Int, y \in 0..(t - 1) : c = t * m + y /\ y = c % t
  <2>1. c \in Int
    OBVIOUS
  <2>2. c \div t \in Int /\ c % t \in 0..(t - 1) /\ c = t * (c \div t) + (c % t)
    BY <2>1, Division
  <2> QED
    BY <2>2, Zenon
<1>4. c = t * m
  <2>1. t * m \in Int
    OBVIOUS
  <2> QED
    BY <1>2, <1>3, <2>1
<1>5. PICK w : w = c * r
  OBVIOUS
<1>6. w \in Nat /\ c <= w
  <2>1. c * 1 <= c * r
    BY Products
  <2> QED
    BY <1>5, <2>1
<1>7. w % t = 0
  <2>1. PICK q \in Int : q = m * r
    OBVIOUS
  <2>2. w = t * q
    <3>1. w = (t * m) * r
      BY <1>4, <1>5
    <3>2. (t * m) * r = t * (m * r)
      OBVIOUS
    <3> QED
      BY <2>1, <3>1, <3>2
  <2>3. w = t * q + 0 /\ 0 \in 0..(t - 1) /\ w \in Int
    BY <1>6, <2>2
  <2> QED
    BY <2>3, DivisionUnique
<1>8. Cells = 0..(w - 1)
  BY <1>1, <1>5, Zenon DEF Cells
<1>9. Sizes(c, w, t, m)
  BY <1>1, <1>2, <1>4, <1>5, <1>6, <1>7, <1>8 DEF Sizes
<1> QED
  BY <1>9

Turns == {"BS", "CR", "LF"}

\* Where the head goes from p, which is a cells into its line and b behind a tab stop.
Goes(p, c, a, b, to) ==
  /\ c = "TAB" => to = p + TabWidth - b
  /\ c = "BS" => to = p - 1
  /\ c = "CR" => to = p - a
  /\ c = "LF" => to = p + COL - a
  /\ c \notin Turns \cup {"TAB"} => to = p + 1

LEMMA AfterGoes ==
  ASSUME NEW p \in Int, NEW c, NEW a, a = p % COL, NEW b, b = p % TabWidth
  PROVE  Goes(p, c, a, b, After(p, c)) /\ a \in 0..(COL - 1) /\ b \in 0..(TabWidth - 1)
<1>1. COL \in Nat \ {0} /\ TabWidth \in Nat \ {0}
  BY ScreenAssumption
<1>2. PICK d, e : d = p \div COL /\ e = p \div TabWidth
  OBVIOUS
<1> Divided(p, COL, d, a) /\ Divided(p, TabWidth, e, b)
  BY <1>1, <1>2, Zenon DEF Divided
<1>3. a \in 0..(COL - 1) /\ d * COL = p - a /\ (d + 1) * COL = p + COL - a
  BY Rounding
<1>4. b \in 0..(TabWidth - 1) /\ (e + 1) * TabWidth = p + TabWidth - b
  BY Rounding
<1>5. /\ c = "TAB" => After(p, c) = (e + 1) * TabWidth
      /\ c = "BS" => After(p, c) = p - 1
      /\ c = "CR" => After(p, c) = d * COL
      /\ c = "LF" => After(p, c) = (d + 1) * COL
      /\ c \notin Turns \cup {"TAB"} => After(p, c) = p + 1
  BY <1>2 DEF After, Turns
<1>6. Goes(p, c, a, b, After(p, c))
  BY <1>3, <1>4, <1>5, Zenon DEF Goes
<1> QED
  BY <1>3, <1>4, <1>6, Zenon

\* How far it goes.
LEMMA AfterBounds ==
  ASSUME NEW p \in Int, NEW c
  PROVE  /\ After(p, c) \in Int
         /\ After(p, c) <= p + COL
         /\ c \notin Turns => After(p, c) > p
         /\ c = "TAB" /\ p < COL * ROW => After(p, c) <= COL * ROW
<1>1. PICK l, w, t, m : Sizes(l, w, t, m)
  BY ScreenSizes
<1>2. l \in Nat \ {0} /\ t \in Nat \ {0} /\ w \in Int /\ t < l /\ w % t = 0
  BY <1>1 DEF Sizes
<1>3. l = COL /\ t = TabWidth /\ w = COL * ROW
  BY <1>1, Zenon DEF Sizes
<1>4. PICK a, b, q : a = p % COL /\ b = p % TabWidth /\ q = After(p, c)
  OBVIOUS
<1>5. Goes(p, c, a, b, q) /\ a \in 0..(COL - 1) /\ b \in 0..(TabWidth - 1)
  BY <1>4, AfterGoes, Zenon
<1>6. a \in 0..(l - 1) /\ b \in 0..(t - 1)
  BY <1>3, <1>5, Zenon
<1>7. c = "TAB" => q = p + t - b
  BY <1>3, <1>5, Zenon DEF Goes
<1>8. q \in Int /\ q <= p + l /\ (c \notin Turns => q > p)
  <2>1. l \in Int /\ t \in Int /\ a >= 0 /\ a \in Int /\ b \in Int /\ b >= 0 /\ b < t /\ t < l
    BY <1>2, <1>6
  <2>2. /\ c = "BS" => q = p - 1
        /\ c = "CR" => q = p - a
        /\ c = "LF" => q = p + l - a
        /\ c \notin Turns \cup {"TAB"} => q = p + 1
    BY <1>3, <1>5, Zenon DEF Goes
  <2> QED
    BY <1>7, <2>1, <2>2 DEF Turns
<1>9. ASSUME c = "TAB", p < w PROVE q <= w
  <2>1. b = p % t /\ q = p + t - b
    BY <1>3, <1>4, <1>7, <1>9, Zenon
  <2> QED
    BY <1>2, <1>9, <2>1, RoundedUp
<1> QED
  BY <1>3, <1>4, <1>8, <1>9, Zenon

\* Some lines further down it goes the same way.
LEMMA AfterShift ==
  ASSUME NEW p \in Int, NEW k \in Int, NEW c, NEW g, g = COL * k, NEW x, x = p + g
  PROVE  g \in Int /\ After(x, c) = After(p, c) + g
<1>1. PICK l, w, t, m : Sizes(l, w, t, m)
  BY ScreenSizes
<1>2. l \in Nat \ {0} /\ t \in Nat \ {0} /\ m \in Int /\ l = t * m
  BY <1>1, Zenon DEF Sizes
<1>3. l = COL /\ t = TabWidth
  BY <1>1, Zenon DEF Sizes
<1>4. g = l * k /\ g \in Int /\ x \in Int
  BY <1>2, <1>3
<1>5. x % l = p % l
  <2>1. x = p + l * k
    BY <1>4
  <2>2. Shifted(x, p, l, k)
    BY <1>2, <2>1 DEF Shifted
  <2> QED
    BY <2>2, ShiftedRemainder
<1>6. x % t = p % t
  <2>1. PICK j \in Int : j = m * k
    BY <1>2
  <2>2. (t * m) * k = t * (m * k)
    BY <1>2
  <2>3. x = p + t * j
    BY <1>2, <1>4, <2>1, <2>2
  <2>4. Shifted(x, p, t, j)
    BY <1>2, <2>3 DEF Shifted
  <2> QED
    BY <2>4, ShiftedRemainder
<1>7. PICK a, b, u, v : a = p % COL /\ b = p % TabWidth /\ u = After(p, c) /\ v = After(x, c)
  OBVIOUS
<1>8. Goes(p, c, a, b, u) /\ a \in 0..(COL - 1) /\ b \in 0..(TabWidth - 1)
  BY <1>7, AfterGoes, Zenon
<1>9. Goes(x, c, x % COL, x % TabWidth, v)
  BY <1>4, <1>7, AfterGoes, Zenon
<1>10. a = x % COL /\ b = x % TabWidth
  BY <1>3, <1>5, <1>6, <1>7, Zenon
<1>11. Goes(x, c, a, b, v)
  BY <1>9, <1>10, Zenon
<1>12. v = u + g
  <2>1. a \in Int /\ b \in Int /\ COL \in Int /\ TabWidth \in Int
    BY <1>8, ScreenAssumption
  <2> QED
    BY <1>4, <1>8, <1>11, <2>1 DEF Goes, Turns
<1> QED
  BY <1>4, <1>7, <1>12

\* What has been printed.
Outputs == [start : Nat, chars : Seq(Output)]

\* The function h is the way of the head.
Path(h, out) ==
  /\ h \in [0..Len(out.chars) -> Int] /\ h[0] = Start(out)
  /\ \A n \in 1..Len(out.chars) : h[n] = After(h[n - 1], out.chars[n])

\* There is such a function, and HeadAt is it.
LEMMA HeadPath ==
  ASSUME NEW out \in Outputs
  PROVE  /\ Path(HeadAt(out), out) /\ Len(out.chars) \in Nat
         /\ Start(out) \in Int /\ 0 <= Start(out) /\ Start(out) <= COL * ROW
<1>1. PICK n \in Nat : n = Len(out.chars)
  <2>1. out.chars \in Seq(Output)
    BY DEF Outputs
  <2>2. Len(out.chars) \in Nat
    BY <2>1, LenProperties
  <2> QED
    BY <2>2
<1>2. Start(out) \in Int /\ 0 <= Start(out) /\ Start(out) <= COL * ROW
  <2>1. PICK w \in Nat : w = COL * ROW
    BY ScreenSizes DEF Sizes
  <2>2. out.start \in Nat
    BY DEF Outputs
  <2>3. PICK a \in Nat : a = out.start
    BY <2>2
  <2>4. Start(out) = IF a <= w THEN a ELSE 0
    BY <2>1, <2>3 DEF Start
  <2> QED
    BY <2>1, <2>4
<1>3. PICK F : F = [x \in (0..n) \X Int |-> After(x[2], out.chars[x[1]])]
  OBVIOUS
<1>4. F \in [(0..n) \X Int -> Int]
  BY <1>3, AfterBounds
<1>5. PICK f : Recursive(f, 0, n, Int, Start(out), F)
  <2>1. 0 \in Nat /\ 0 <= n
    OBVIOUS
  <2>2. PICK s \in Int : s = Start(out)
    BY <1>2
  <2>3. \E f : Recursive(f, 0, n, Int, s, F)
    BY <1>4, <2>1, RecursionExists
  <2> QED
    BY <2>2, <2>3
<1> DEFINE Def(g) == [k \in 0..Len(out.chars) |-> IF k = 0 THEN Start(out) ELSE After(g[k - 1], out.chars[k])]
<1>6. f = Def(f)
  <2>1. f \in [0..n -> Int] /\ f[0] = Start(out) /\ \A i \in 1..n : f[i] = F[<<i, f[i - 1]>>]
    BY <1>5 DEF Recursive
  <2>2. ASSUME NEW k \in 0..n PROVE f[k] = IF k = 0 THEN Start(out) ELSE After(f[k - 1], out.chars[k])
    <3>1. CASE k = 0
      BY <2>1, <3>1
    <3>2. CASE k # 0
      <4>1. k \in 1..n /\ k - 1 \in 0..n
        BY <3>2
      <4>2. <<k, f[k - 1]>> \in (0..n) \X Int
        BY <2>1, <4>1
      <4>3. F[<<k, f[k - 1]>>] = After(f[k - 1], out.chars[k])
        BY <1>3, <4>2
      <4> QED
        BY <2>1, <3>2, <4>1, <4>3
    <3> QED
      BY <3>1, <3>2
  <2> QED
    BY <1>1, <2>1, <2>2
<1>7. PICK h : h = HeadAt(out)
  OBVIOUS
<1>8. h = Def(h)
  <2> DEFINE Q(g) == g = Def(g)
  <2>1. \E g : Q(g)
    BY <1>6
  <2>2. h = CHOOSE g : Q(g)
    BY <1>7 DEF HeadAt
  <2> HIDE DEF Q
  <2>3. Q(h)
    BY <2>1, <2>2
  <2> QED
    BY <2>3 DEF Q
<1>9. /\ DOMAIN h = 0..n /\ h = [k \in 0..n |-> h[k]] /\ h[0] = Start(out)
      /\ \A k \in 1..n : h[k] = After(h[k - 1], out.chars[k])
  BY <1>1, <1>8
<1>10. 0..n \subseteq {k \in 0..n : h[k] \in Int}
  <2>1. PICK P : P = {k \in 0..n : h[k] \in Int}
    OBVIOUS
  <2>2. 0 \in P
    BY <1>2, <1>9, <2>1
  <2>3. ASSUME NEW i \in (0 + 1)..n, i - 1 \in P PROVE i \in P
    <3>1. i \in 1..n /\ i \in 0..n
      OBVIOUS
    <3>2. PICK x \in Int : x = h[i - 1]
      BY <2>1, <2>3
    <3>3. h[i] = After(x, out.chars[i])
      BY <1>9, <3>1, <3>2
    <3>4. h[i] \in Int
      BY <3>3, AfterBounds
    <3> QED
      BY <2>1, <3>1, <3>4
  <2>4. 0..n \subseteq P
    BY <2>2, <2>3, IntervalInduction
  <2> QED
    BY <2>1, <2>4
<1>11. h \in [0..n -> Int]
  BY <1>9, <1>10
<1>12. Path(h, out)
  BY <1>1, <1>9, <1>11 DEF Path
<1> QED
  BY <1>1, <1>2, <1>7, <1>12

\* One character more.
Longer(out, c, out1) == out1 = [out EXCEPT !.chars = Append(@, c)]

LEMMA LongerOutput ==
  ASSUME NEW out \in Outputs, NEW c \in Output, NEW out1, Longer(out, c, out1)
  PROVE  /\ out1 \in Outputs /\ Start(out1) = Start(out) /\ out1.chars # <<>>
         /\ Len(out.chars) \in Nat /\ Len(out1.chars) = Len(out.chars) + 1
         /\ out1.chars[Len(out.chars) + 1] = c
         /\ \A n \in 1..Len(out.chars) : out1.chars[n] = out.chars[n]
<1>1. out.chars \in Seq(Output) /\ out1.start = out.start /\ out1.chars = Append(out.chars, c)
  <2>1. out.chars \in Seq(Output) /\ out = [start |-> out.start, chars |-> out.chars]
    BY DEF Outputs
  <2>2. out1 = [start |-> out.start, chars |-> Append(out.chars, c)]
    BY <2>1 DEF Longer
  <2> QED
    BY <2>1, <2>2
<1>2. /\ out1.chars \in Seq(Output) /\ Len(out.chars) \in Nat /\ Len(out1.chars) = Len(out.chars) + 1
      /\ out1.chars[Len(out.chars) + 1] = c
      /\ \A n \in 1..Len(out.chars) : out1.chars[n] = out.chars[n]
  BY <1>1, AppendProperties
<1>3. out1 \in Outputs
  <2>1. PICK q \in Seq(Output) : q = Append(out.chars, c)
    BY <1>1, <1>2
  <2> QED
    BY <2>1 DEF Outputs, Longer
<1>4. out1.chars # <<>>
  BY <1>2
<1> QED
  BY <1>1, <1>2, <1>3, <1>4 DEF Start

LEMMA LongerPath ==
  ASSUME NEW out \in Outputs, NEW c \in Output, NEW out1, Longer(out, c, out1),
         NEW h, h = HeadAt(out), NEW h1, h1 = HeadAt(out1), NEW n, n = Len(out.chars)
  PROVE  /\ n \in Nat /\ Len(out1.chars) = n + 1
         /\ h \in [0..n -> Int] /\ h1 \in [0..(n + 1) -> Int]
         /\ \A k \in 0..n : h1[k] = h[k]
         /\ h1[n + 1] = After(h[n], c)
<1>1. n \in Nat /\ Len(out1.chars) = n + 1
  BY LongerOutput
<1>2. Path(h, out)
  BY HeadPath
<1>3. Path(h1, out1)
  BY HeadPath, LongerOutput
<1>4. h \in [0..n -> Int] /\ h[0] = Start(out) /\ \A k \in 1..n : h[k] = After(h[k - 1], out.chars[k])
  BY <1>2 DEF Path
<1>5. /\ h1 \in [0..(n + 1) -> Int] /\ h1[0] = Start(out1)
      /\ \A k \in 1..(n + 1) : h1[k] = After(h1[k - 1], out1.chars[k])
  BY <1>1, <1>3 DEF Path
<1>6. PICK P : P = {k \in 0..n : h1[k] = h[k]}
  OBVIOUS
<1>7. 0 \in P
  BY <1>1, <1>4, <1>5, <1>6, LongerOutput
<1>8. ASSUME NEW i \in (0 + 1)..n, i - 1 \in P PROVE i \in P
  <2>1. i \in 1..n /\ i \in 1..(n + 1) /\ i \in 0..n
    BY <1>1
  <2>2. h1[i - 1] = h[i - 1]
    BY <1>6, <1>8
  <2>3. out1.chars[i] = out.chars[i]
    BY <2>1, LongerOutput
  <2> QED
    BY <1>4, <1>5, <1>6, <2>1, <2>2, <2>3
<1>9. 0..n \subseteq P
  BY <1>1, <1>7, <1>8, IntervalInduction
<1>10. h1[n] = h[n]
  BY <1>1, <1>6, <1>9
<1>11. h1[n + 1] = After(h[n], c)
  <2>1. n + 1 \in 1..(n + 1) /\ (n + 1) - 1 = n
    BY <1>1
  <2>2. out1.chars[n + 1] = c
    BY LongerOutput
  <2> QED
    BY <1>5, <1>10, <2>1, <2>2
<1> QED
  BY <1>1, <1>4, <1>5, <1>6, <1>9, <1>11

\* When the head has been at h[0], ..., h[n], gone lines have left the screen at its top.
Gone(h, n, gone) ==
  /\ gone \in Nat
  /\ \A k \in 0..n : h[k] < COL * ROW + COL * gone
  /\ gone # 0 => \E k \in 0..n : COL * ROW + COL * gone - COL <= h[k]

\* Some number of a finite sequence of them is the greatest.
LEMMA GreatestValue ==
  ASSUME NEW n \in Nat, NEW f \in [0..n -> Int]
  PROVE  \E k \in 0..n : \A j \in 0..n : f[j] <= f[k]
<1>1. PICK P : P = {m \in 0..n : \E k \in 0..m : \A j \in 0..m : f[j] <= f[k]}
  OBVIOUS
<1>2. 0 \in P
  <2>1. 0 \in 0..0 /\ \A j \in 0..0 : f[j] <= f[0]
    OBVIOUS
  <2> QED
    BY <1>1, <2>1
<1>3. ASSUME NEW i \in (0 + 1)..n, i - 1 \in P PROVE i \in P
  <2>1. PICK k \in 0..(i - 1) : \A j \in 0..(i - 1) : f[j] <= f[k]
    BY <1>1, <1>3
  <2>2. /\ k \in 0..n /\ k \in 0..i /\ i \in 0..i /\ i \in 0..n
        /\ \A j \in 0..i : j \in 0..n /\ (j = i \/ j \in 0..(i - 1))
    OBVIOUS
  <2>3. CASE f[i] <= f[k]
    <3>1. \A j \in 0..i : f[j] <= f[k]
      BY <2>1, <2>2, <2>3
    <3> QED
      BY <1>1, <2>2, <3>1
  <2>4. CASE f[k] < f[i]
    <3>1. \A j \in 0..i : f[j] <= f[i]
      BY <2>1, <2>2, <2>4
    <3> QED
      BY <1>1, <2>2, <3>1
  <2> QED
    BY <2>2, <2>3, <2>4
<1>4. 0..n \subseteq P
  BY <1>2, <1>3, IntervalInduction
<1>5. n \in P
  BY <1>4
<1> QED
  BY <1>1, <1>5

LEMMA LinesGone ==
  ASSUME NEW out \in Outputs, NEW n \in 0..Len(out.chars)
  PROVE  Gone(HeadAt(out), n, Lines(out, n))
<1>1. PICK c \in Nat \ {0}, r \in Nat \ {0} : c = COL /\ r = ROW
  <2>1. COL \in Nat \ {0} /\ ROW \in Nat \ {0}
    BY ScreenAssumption
  <2> QED
    BY <2>1, Zenon
<1>2. PICK h : h = HeadAt(out)
  OBVIOUS
<1>3. n \in Nat /\ \A k \in 0..n : h[k] \in Int
  <2>1. Len(out.chars) \in Nat /\ h \in [0..Len(out.chars) -> Int]
    BY <1>2, HeadPath DEF Path
  <2> QED
    BY <2>1
<1>4. PICK f : f = [k \in 0..n |-> h[k] \div c]
  OBVIOUS
<1>5. f \in [0..n -> Int]
  BY <1>3, <1>4, Division
<1>6. PICK k0 \in 0..n : \A j \in 0..n : f[j] <= f[k0]
  BY <1>3, <1>5, GreatestValue
<1>7. PICK last : last = CHOOSE x \in {h[k] \div c : k \in 0..n} : \A k \in 0..n : h[k] \div c <= x
  OBVIOUS
<1>8. PICK R : R = {h[k] \div c : k \in 0..n}
  OBVIOUS
<1>9. last \in R /\ \A k \in 0..n : h[k] \div c <= last
  <2>1. f[k0] \in R /\ \A k \in 0..n : h[k] \div c <= f[k0]
    BY <1>4, <1>6, <1>8
  <2>2. last = CHOOSE x \in R : \A k \in 0..n : h[k] \div c <= x
    BY <1>7, <1>8
  <2> QED
    BY <2>1, <2>2, Zenon
<1>10. PICK k1 \in 0..n : last = h[k1] \div c
  BY <1>8, <1>9
<1>11. last \in Int
  BY <1>3, <1>10, Division
<1>12. PICK w \in Int, x \in Int : w = c * r /\ x = c * last
  BY <1>11
<1>13. ASSUME NEW k \in 0..n PROVE h[k] < x + c
  <2>1. PICK a \in Int, b \in 0..(c - 1) : h[k] = c * a + b /\ a = h[k] \div c
    BY <1>3, Division
  <2>2. a <= last
    BY <1>9, <2>1
  <2>3. c * a <= x
    BY <1>11, <1>12, <2>2, Products
  <2>4. PICK y \in Int : y = c * a
    OBVIOUS
  <2>5. h[k] = y + b /\ y <= x
    BY <2>1, <2>3, <2>4
  <2> QED
    BY <1>12, <2>5
<1>14. x <= h[k1]
  <2>1. PICK b : b = h[k1] % c
    OBVIOUS
  <2>2. Divided(h[k1], c, last, b)
    BY <1>3, <1>10, <2>1 DEF Divided
  <2>3. h[k1] = c * last + b /\ b \in 0..(c - 1)
    BY <2>2, Rounding
  <2>4. h[k1] = x + b
    BY <1>12, <2>3
  <2> QED
    BY <1>12, <2>3, <2>4
<1>15. Lines(out, n) = IF last < r THEN 0 ELSE last - r + 1
  BY <1>1, <1>2, <1>7 DEF Lines
<1>16. CASE last < r
  <2>1. Lines(out, n) = 0 /\ c * 0 = 0
    BY <1>15, <1>16
  <2>2. x + c <= w
    <3>1. c * (last + 1) <= c * r
      BY <1>11, <1>16, Products
    <3>2. c * (last + 1) = c * last + c
      BY <1>11
    <3> QED
      BY <1>12, <3>1, <3>2
  <2>3. \A k \in 0..n : h[k] < w + c * 0
    BY <1>3, <1>12, <1>13, <2>1, <2>2
  <2> QED
    BY <1>1, <1>2, <1>12, <2>1, <2>3 DEF Gone
<1>17. CASE ~(last < r)
  <2>1. PICK g \in Nat : g = last - r + 1
    BY <1>11, <1>17
  <2>2. c * g = x - w + c
    <3>1. c * (last - r + 1) = c * last - c * r + c
      BY <1>11
    <3> QED
      BY <1>12, <2>1, <3>1
  <2>3. Lines(out, n) = g /\ g # 0
    BY <1>11, <1>15, <1>17, <2>1
  <2>4. w + c * g = x + c /\ w + c * g - c = x
    BY <1>12, <2>2
  <2>5. (\A k \in 0..n : h[k] < w + c * g) /\ w + c * g - c <= h[k1]
    BY <1>13, <1>14, <2>4
  <2> QED
    BY <1>1, <1>2, <1>12, <2>3, <2>5 DEF Gone
<1> QED
  BY <1>16, <1>17

\* Their number is determined by that.
LEMMA GoneUnique ==
  ASSUME NEW n \in Nat, NEW h, NEW g, \A k \in 0..n : h[k] \in Int /\ g[k] = h[k],
         NEW a, NEW b, Gone(h, n, a), Gone(g, n, b)
  PROVE  a = b
<1>1. PICK c \in Nat \ {0}, w \in Int : c = COL /\ w = COL * ROW
  <2>1. COL \in Nat \ {0} /\ ROW \in Nat \ {0}
    BY ScreenAssumption
  <2>2. COL * ROW \in Int
    BY <2>1
  <2> QED
    BY <2>1, <2>2, Zenon
<1>2. a \in Nat /\ b \in Nat
  BY DEF Gone
<1>3. PICK x \in Int, y \in Int : x = c * a /\ y = c * b
  BY <1>2
<1>4. /\ \A k \in 0..n : h[k] < w + x /\ h[k] < w + y
      /\ a # 0 => \E k \in 0..n : w + x - c <= h[k]
      /\ b # 0 => \E k \in 0..n : w + y - c <= h[k]
  BY <1>1, <1>3 DEF Gone
<1>5. c * (a - 1) = x - c /\ c * (b - 1) = y - c
  <2>1. c * (a - 1) = c * a - c /\ c * (b - 1) = c * b - c
    BY <1>2
  <2> QED
    BY <1>3, <2>1
<1>6. a # 0 => a - 1 < b
  <2>1. a # 0 => c * (a - 1) < c * b
    BY <1>3, <1>4, <1>5
  <2> QED
    BY <1>2, <2>1, Products
<1>7. b # 0 => b - 1 < a
  <2>1. b # 0 => c * (b - 1) < c * a
    BY <1>3, <1>4, <1>5
  <2> QED
    BY <1>2, <2>1, Products
<1> QED
  BY <1>2, <1>6, <1>7

-----------------------------------------------------------------------------
(***************************************************************************)
(* The paper.                                                              *)
(***************************************************************************)

\* The last mark at a position is what is seen there.
LEMMA PaperBlank ==
  ASSUME NEW out, NEW kind, NEW p, \A n \in 1..Len(out.chars) : ~ Marks(out, n, p)
  PROVE  Paper(kind, out, p) = Ground(kind, out, p)
BY DEF Paper

LEMMA PaperMarked ==
  ASSUME NEW out, Len(out.chars) \in Nat, NEW kind, NEW p, NEW n \in 1..Len(out.chars), Marks(out, n, p),
         \A m \in 1..Len(out.chars) : Marks(out, m, p) => m <= n
  PROVE  Paper(kind, out, p) = Ink(out.chars[n])
<1>1. PICK S : S = {m \in 1..Len(out.chars) : Marks(out, m, p)}
  OBVIOUS
<1>2. n \in S /\ (\A m \in S : m <= n) /\ S \subseteq Nat
  BY <1>1
<1>3. PICK last : last = CHOOSE m \in S : \A k \in S : k <= m
  OBVIOUS
<1>4. last \in S /\ \A k \in S : k <= last
  BY <1>2, <1>3, Zenon
<1>5. last = n
  BY <1>2, <1>4
<1>6. Paper(kind, out, p) = Ink(out.chars[last])
  BY <1>1, <1>2, <1>3 DEF Paper
<1> QED
  BY <1>5, <1>6

\* A position that the head has never passed is blank.
LEMMA PaperBehind ==
  ASSUME NEW out \in Outputs, NEW kind, NEW p \in Int,
         \A k \in 0..Len(out.chars) : HeadAt(out)[k] <= p
  PROVE  Paper(kind, out, p) = Blank
<1>0. PICK n \in Nat : n = Len(out.chars)
  BY HeadPath
<1>1. PICK h : n = Len(out.chars) /\ h = HeadAt(out)
  BY <1>0
<1>2. h \in [0..n -> Int] /\ h[0] = Start(out) /\ Start(out) \in Int
  BY <1>1, HeadPath DEF Path
<1>3. ASSUME NEW k \in 1..n PROVE ~ Marks(out, k, p)
  <2>1. k \in 0..n
    OBVIOUS
  <2>2. ~ (p < h[k])
    BY <1>1, <1>2, <2>1
  <2> QED
    BY <1>1, <2>2 DEF Marks
<1>4. Paper(kind, out, p) = Ground(kind, out, p)
  BY <1>1, <1>3, PaperBlank
<1>5. Start(out) <= p
  <2>1. 0 \in 0..n
    OBVIOUS
  <2> QED
    BY <1>1, <1>2, <2>1
<1> QED
  BY <1>4, <1>5 DEF Ground

\* One character more marks the way that the head takes, if it prints, and leaves all the
\* rest as it is.
LEMMA PaperGrows ==
  ASSUME NEW out \in Outputs, NEW c \in Output, NEW out1, Longer(out, c, out1), NEW kind, NEW p \in Int,
         NEW n, n = Len(out.chars), NEW a, a = HeadAt(out)[n], NEW b, b = HeadAt(out1)[n + 1]
  PROVE  /\ c \notin Turns /\ a <= p /\ p < b => Paper(kind, out1, p) = Ink(c)
         /\ c \in Turns \/ p < a \/ b <= p => Paper(kind, out1, p) = Paper(kind, out, p)
<1>1. PICK h, h1 : h = HeadAt(out) /\ h1 = HeadAt(out1)
  OBVIOUS
<1>2. /\ n \in Nat /\ Len(out1.chars) = n + 1
      /\ h \in [0..n -> Int] /\ h1 \in [0..(n + 1) -> Int]
      /\ \A k \in 0..n : h1[k] = h[k]
  BY <1>1, LongerPath
<1>3. a \in Int /\ b \in Int /\ a = h1[n] /\ b = h1[n + 1]
  <2>1. n \in 0..n /\ n + 1 \in 0..(n + 1)
    BY <1>2
  <2> QED
    BY <1>1, <1>2, <2>1
<1>4. out1.chars[n + 1] = c /\ (\A k \in 1..n : out1.chars[k] = out.chars[k]) /\ Start(out1) = Start(out)
  BY LongerOutput
<1>5. ASSUME NEW k \in 1..n PROVE Marks(out1, k, p) <=> Marks(out, k, p)
  <2>1. k \in 0..n /\ k - 1 \in 0..n
    BY <1>2
  <2>2. h1[k] = h[k] /\ h1[k - 1] = h[k - 1] /\ out1.chars[k] = out.chars[k]
    BY <1>2, <1>4, <2>1
  <2> QED
    BY <1>1, <2>2 DEF Marks
<1>6. Marks(out1, n + 1, p) <=> c \notin Turns /\ a <= p /\ p < b
  <2>1. (n + 1) - 1 = n
    BY <1>2
  <2> QED
    BY <1>1, <1>3, <1>4, <2>1 DEF Marks, Turns
<1>7. n + 1 \in 1..(n + 1) /\ \A k \in 1..(n + 1) : k <= n + 1 /\ (k = n + 1 \/ k \in 1..n)
  BY <1>2
<1>8. ASSUME Marks(out1, n + 1, p) PROVE Paper(kind, out1, p) = Ink(c)
  <2>1. PICK m : m = n + 1
    OBVIOUS
  <2>2. Len(out1.chars) = m /\ m \in Nat /\ m \in 1..m /\ Marks(out1, m, p) /\ \A k \in 1..m : k <= m
    BY <1>2, <1>7, <1>8, <2>1
  <2>3. Paper(kind, out1, p) = Ink(out1.chars[m])
    BY <2>2, PaperMarked
  <2> QED
    BY <1>4, <2>1, <2>3
<1>9. ASSUME ~ Marks(out1, n + 1, p) PROVE Paper(kind, out1, p) = Paper(kind, out, p)
  <2>1. CASE \A k \in 1..n : ~ Marks(out, k, p)
    <3>1. \A k \in 1..(n + 1) : ~ Marks(out1, k, p)
      BY <1>5, <1>7, <1>9, <2>1
    <3>2. Paper(kind, out1, p) = Ground(kind, out1, p)
      BY <1>2, <3>1, PaperBlank
    <3>3. Paper(kind, out, p) = Ground(kind, out, p)
      BY <2>1, PaperBlank
    <3>4. Ground(kind, out1, p) = Ground(kind, out, p)
      BY <1>4 DEF Ground
    <3> QED
      BY <3>2, <3>3, <3>4
  <2>2. CASE \E k \in 1..n : Marks(out, k, p)
    <3>1. PICK S : S = {k \in 1..n : Marks(out, k, p)}
      OBVIOUS
    <3>2. S \in SUBSET (0..n) /\ S # {}
      BY <1>2, <2>2, <3>1
    <3>3. PICK m \in S : \A k \in S : k <= m
      BY <1>2, <3>2, Greatest
    <3>4. m \in 1..n /\ Marks(out, m, p) /\ \A k \in 1..n : Marks(out, k, p) => k <= m
      BY <3>1, <3>3
    <3>5. m \in 1..(n + 1) /\ Marks(out1, m, p) /\ \A k \in 1..(n + 1) : Marks(out1, k, p) => k <= m
      BY <1>2, <1>5, <1>7, <1>9, <3>4
    <3>6. Paper(kind, out, p) = Ink(out.chars[m])
      BY <1>2, <3>4, PaperMarked
    <3>7. Paper(kind, out1, p) = Ink(out1.chars[m])
      <4>1. Len(out1.chars) \in Nat
        BY <1>2
      <4> QED
        BY <1>2, <3>5, <4>1, PaperMarked
    <3> QED
      BY <1>4, <3>4, <3>6, <3>7
  <2> QED
    BY <2>1, <2>2
<1> QED
  BY <1>3, <1>6, <1>8, <1>9

-----------------------------------------------------------------------------
(***************************************************************************)
(* The screen.                                                             *)
(***************************************************************************)

\* A position and the cells.
Values == Output \cup {Blank, Text, "junk"}
Screens == [at : Int, cell : [Cells -> Values]]

\* What is in cell j, or in the line below the last one, after v was written in the cells
\* up to hi.
Cell(s, hi, v, j) ==
  IF s.at <= j /\ j < hi THEN v ELSE IF j \in Cells THEN s.cell[j] ELSE Blank

\* Writing v up to hi and going to position to has turned s into s1; the text is moved up if
\* that is behind the last cell.
Drawn(s, s1, to, hi, v) ==
  /\ s1 \in Screens
  /\ to < COL * ROW =>
       s1.at = to /\ (s.at < COL * ROW => \A i \in Cells : s1.cell[i] = Cell(s, hi, v, i))
  /\ COL * ROW <= to =>
       s1.at = to - COL /\ (s.at < COL * ROW => \A i \in Cells : s1.cell[i] = Cell(s, hi, v, i + COL))

LEMMA ScrolledIs ==
  ASSUME NEW s \in Screens
  PROVE  /\ Scrolled(s) \in Screens
         /\ s.at < COL * ROW => Scrolled(s) = s
         /\ COL * ROW <= s.at =>
              /\ Scrolled(s).at = s.at - COL
              /\ \A i \in Cells : Scrolled(s).cell[i] = IF i + COL \in Cells THEN s.cell[i + COL] ELSE Blank
<1>1. PICK l, w, t, m : Sizes(l, w, t, m)
  BY ScreenSizes
<1>2. l = COL /\ w = COL * ROW /\ l \in Nat \ {0} /\ w \in Nat /\ Cells = 0..(w - 1)
  BY <1>1, Zenon DEF Sizes
<1>3. COL * (ROW - 1) = w - l
  <2>1. COL * (ROW - 1) = COL * ROW - COL
    BY ScreenAssumption
  <2> QED
    BY <1>2, <2>1
<1>4. s.at \in Int /\ s.cell \in [Cells -> Values]
  BY DEF Screens
<1>5. PICK f : f = [i \in Cells |-> IF i < w - l THEN s.cell[i + l] ELSE Blank]
  OBVIOUS
<1>6. Scrolled(s) = IF s.at < w THEN s ELSE [at |-> s.at - l, cell |-> f]
  BY <1>2, <1>3, <1>5 DEF Scrolled
<1>7. ASSUME NEW i \in Cells PROVE i < w - l <=> i + l \in Cells
  BY <1>2
<1>8. \A i \in Cells : f[i] = IF i + l \in Cells THEN s.cell[i + l] ELSE Blank
  BY <1>5, <1>7
<1>9. f \in [Cells -> Values]
  <2>1. \A i \in Cells : f[i] \in Values
    BY <1>4, <1>8 DEF Values
  <2> QED
    BY <1>5, <2>1
<1>10. s.at - l \in Int
  BY <1>2, <1>4
<1>11. CASE s.at < w
  BY <1>2, <1>4, <1>6, <1>11
<1>12. CASE ~(s.at < w)
  <2>1. PICK s1 : s1 = [at |-> s.at - l, cell |-> f]
    OBVIOUS
  <2>2. s1 \in Screens /\ s1.at = s.at - l /\ s1.cell = f
    BY <1>9, <1>10, <2>1 DEF Screens
  <2>3. Scrolled(s) = s1
    BY <1>6, <1>12, <2>1
  <2> QED
    BY <1>2, <1>8, <1>12, <2>2, <2>3
<1> QED
  BY <1>11, <1>12

\* A character that prints.
LEMMA PrintedIs ==
  ASSUME NEW s \in Screens, NEW c \in Values, NEW x, x = s.at + 1
  PROVE  Drawn(s, Printed(s, c), x, x, c)
<1>1. PICK l, w, t, m : Sizes(l, w, t, m)
  BY ScreenSizes
<1>2. l = COL /\ w = COL * ROW /\ l \in Nat \ {0} /\ w \in Nat /\ Cells = 0..(w - 1)
  BY <1>1, Zenon DEF Sizes
<1>3. s.at \in Int /\ s.cell \in [Cells -> Values] /\ x \in Int
  BY DEF Screens
<1>4. PICK f : f = [i \in Cells |-> IF i = s.at THEN c ELSE s.cell[i]]
  OBVIOUS
<1>5. f \in [Cells -> Values] /\ \A i \in Cells : f[i] = IF i = s.at THEN c ELSE s.cell[i]
  BY <1>3, <1>4
<1>6. PICK s0 : s0 = [at |-> x, cell |-> f]
  OBVIOUS
<1>7. s0 \in Screens /\ s0.at = x /\ s0.cell = f
  BY <1>3, <1>5, <1>6 DEF Screens
<1>8. PICK s1 : s1 = Printed(s, c)
  OBVIOUS
<1>9. s1 = Scrolled(s0)
  BY <1>4, <1>6, <1>8 DEF Printed
<1>10. s1 \in Screens
  BY <1>7, <1>9, ScrolledIs
<1>11. ASSUME x < w PROVE s1.at = x /\ \A i \in Cells : s1.cell[i] = Cell(s, x, c, i)
  <2>1. s1 = s0
    BY <1>2, <1>7, <1>9, <1>11, ScrolledIs
  <2>2. ASSUME NEW i \in Cells PROVE s.at <= i /\ i < x <=> i = s.at
    BY <1>2, <1>3
  <2> QED
    BY <1>5, <1>7, <2>1, <2>2 DEF Cell
<1>12. ASSUME w <= x, s.at < w PROVE \A i \in Cells : s1.cell[i] = Cell(s, x, c, i + l)
  <2> SUFFICES ASSUME NEW i \in Cells PROVE s1.cell[i] = Cell(s, x, c, i + l)
    OBVIOUS
  <2>1. PICK j \in Int : j = i + l
    BY <1>2
  <2>2. s1.cell[i] = IF j \in Cells THEN f[j] ELSE Blank
    BY <1>2, <1>7, <1>9, <1>12, <2>1, ScrolledIs
  <2>3. s.at <= j /\ j < x <=> j = s.at
    BY <1>3
  <2>4. j = s.at => j \in Cells
    BY <1>2, <1>3, <1>12, <2>1
  <2> QED
    BY <1>5, <2>1, <2>2, <2>3, <2>4 DEF Cell
<1>13. w <= x => s1.at = x - l
  BY <1>2, <1>7, <1>9, ScrolledIs
<1> QED
  BY <1>2, <1>8, <1>10, <1>11, <1>12, <1>13 DEF Drawn

\* The remainder of C, for a position on the screen and for one above it.
LEMMA RemainderIs ==
  ASSUME NEW a \in Int
  PROVE  /\ CRemainder(a, COL) \in Int
         /\ a >= 0 => CRemainder(a, COL) = a % COL /\ CRemainder(a, COL) >= 0
         /\ a < 0 => a - CRemainder(a, COL) <= 0
<1>1. PICK l \in Nat \ {0} : l = COL
  BY ScreenAssumption
<1>2. ASSUME NEW n \in Int, n >= 0 PROVE n % l \in Int /\ 0 <= n % l /\ n % l <= n
  <2>1. PICK d, e : d = n \div l /\ e = n % l
    OBVIOUS
  <2>2. Divided(n, l, d, e)
    BY <2>1 DEF Divided
  <2>3. d \in Int /\ e \in 0..(l - 1) /\ n = l * d + e
    BY <2>2, Rounding
  <2>4. l * (d + 1) = l * d + l
    BY <2>3
  <2>5. PICK x \in Int : x = l * d
    BY <2>3
  <2>6. l * 0 < l * (d + 1)
    BY <1>2, <2>3, <2>4, <2>5
  <2>7. 0 < d + 1
    BY <2>3, <2>6, Products
  <2>8. l * 0 <= l * d
    BY <2>3, <2>7, Products
  <2>9. e <= n
    BY <2>3, <2>5, <2>8
  <2> QED
    BY <2>1, <2>3, <2>9
<1>3. CASE a >= 0
  <2>1. CRemainder(a, COL) = a % l
    BY <1>1, <1>3 DEF CRemainder
  <2> QED
    BY <1>1, <1>2, <1>3, <2>1
<1>4. CASE a < 0
  <2>1. PICK n \in Int : n = -a
    OBVIOUS
  <2>2. PICK e \in Int : e = n % l /\ e <= n
    BY <1>2, <1>4, <2>1
  <2>3. CRemainder(a, COL) = -e
    BY <1>1, <1>4, <2>1, <2>2 DEF CRemainder
  <2> QED
    BY <1>4, <2>1, <2>2, <2>3
<1> QED
  BY <1>3, <1>4

\* Backspace, carriage return and line feed.
LEMMA MovedIs ==
  ASSUME NEW s \in Screens, NEW c \in Turns
  PROVE  /\ s.at >= 0 => \A v : Drawn(s, Moved(s, c), After(s.at, c), s.at, v)
         /\ s.at < 0 => Moved(s, c) \in Screens /\ Moved(s, c).at < COL * ROW
<1>1. PICK l, w, t, m : Sizes(l, w, t, m)
  BY ScreenSizes
<1>2. l = COL /\ w = COL * ROW /\ l \in Nat \ {0} /\ w \in Nat /\ Cells = 0..(w - 1) /\ l <= w
  BY <1>1, Zenon DEF Sizes
<1>3. s.at \in Int /\ s.cell \in [Cells -> Values] /\ s = [at |-> s.at, cell |-> s.cell]
  BY DEF Screens
<1>4. PICK a \in Int : a = s.at
  BY <1>3
<1>5. PICK to : to = CASE c = "BS" -> a - 1
                       [] c = "CR" -> a - CRemainder(a, COL)
                       [] c = "LF" -> a + COL - CRemainder(a + COL, COL)
  OBVIOUS
<1>6. PICK s0 : s0 = [at |-> to, cell |-> s.cell]
  OBVIOUS
<1>7. Moved(s, c) = Scrolled(s0)
  <2>1. s0 = [s EXCEPT !.at = to]
    BY <1>3, <1>6
  <2> QED
    BY <1>4, <1>5, <2>1 DEF Moved
<1>8. /\ c = "BS" => to = a - 1
      /\ c = "CR" => to = a - CRemainder(a, COL)
      /\ c = "LF" => to = a + COL - CRemainder(a + COL, COL)
  BY <1>5
<1>9. PICK x \in Int, r \in Int, u \in Int : x = a + l /\ r = CRemainder(a, COL) /\ u = CRemainder(x, COL)
  <2>1. PICK x \in Int : x = a + l
    BY <1>2
  <2>2. CRemainder(a, COL) \in Int /\ CRemainder(x, COL) \in Int
    BY RemainderIs
  <2> QED
    BY <2>1, <2>2
<1>10. to \in Int /\ (c = "BS" => to = a - 1) /\ (c = "CR" => to = a - r) /\ (c = "LF" => to = x - u)
  <2>1. /\ c = "BS" => to = a - 1
        /\ c = "CR" => to = a - r
        /\ c = "LF" => to = x - u
    BY <1>2, <1>8, <1>9
  <2> QED
    BY <1>9, <2>1 DEF Turns
<1>11. s0 \in Screens /\ s0.at = to /\ s0.cell = s.cell
  BY <1>3, <1>6, <1>10 DEF Screens
<1>12. PICK s1 : s1 = Moved(s, c)
  OBVIOUS
<1>13. /\ s1 \in Screens
       /\ to < w => s1 = s0
       /\ w <= to => /\ s1.at = to - l
                     /\ \A i \in Cells : s1.cell[i] = IF i + l \in Cells THEN s.cell[i + l] ELSE Blank
  BY <1>2, <1>7, <1>11, <1>12, ScrolledIs
<1>14. ASSUME a >= 0, NEW v PROVE Drawn(s, s1, After(a, c), a, v)
  <2>1. After(a, c) = to
    <3>1. PICK e, b, q : e = a % COL /\ b = a % TabWidth /\ q = After(a, c)
      OBVIOUS
    <3>2. Goes(a, c, e, b, q) /\ e \in 0..(COL - 1)
      BY <3>1, AfterGoes
    <3>3. r = e
      BY <1>9, <1>14, <3>1, RemainderIs
    <3>4. u = e
      <4>1. x >= 0
        BY <1>2, <1>9, <1>14
      <4>2. Shifted(x, a, l, 1)
        BY <1>2, <1>9 DEF Shifted
      <4>3. x % l = a % l
        BY <4>2, ShiftedRemainder
      <4>4. u = x % l
        BY <1>2, <1>9, <4>1, RemainderIs
      <4> QED
        BY <1>2, <3>1, <4>3, <4>4
    <3>5. q = to
      BY <1>2, <1>9, <1>10, <3>2, <3>3, <3>4 DEF Goes, Turns
    <3> QED
      BY <3>1, <3>5
  <2>2. ASSUME NEW j \in Int PROVE ~(s.at <= j /\ j < a)
    BY <1>4
  <2>3. ASSUME NEW i \in Cells PROVE Cell(s, a, v, i) = s.cell[i]
    BY <1>2, <2>2 DEF Cell
  <2>4. ASSUME NEW i \in Cells
        PROVE  Cell(s, a, v, i + l) = IF i + l \in Cells THEN s.cell[i + l] ELSE Blank
    <3>1. i + l \in Int
      BY <1>2
    <3> QED
      BY <2>2, <3>1 DEF Cell
  <2> QED
    BY <1>2, <1>11, <1>13, <2>1, <2>3, <2>4 DEF Drawn
<1>15. ASSUME a < 0 PROVE s1.at < w
  <2>1. to < w
    <3>1. a - r <= 0
      BY <1>9, <1>15, RemainderIs
    <3>2. x < 0 => x - u <= 0
      BY <1>9, RemainderIs
    <3>3. x >= 0 => u >= 0
      BY <1>9, RemainderIs
    <3>4. x < l /\ l <= w /\ l > 0
      BY <1>2, <1>9, <1>15
    <3> QED
      BY <1>2, <1>9, <1>10, <1>15, <3>1, <3>2, <3>3, <3>4 DEF Turns
  <2> QED
    BY <1>11, <1>13, <2>1
<1> QED
  BY <1>2, <1>4, <1>12, <1>13, <1>14, <1>15

\* The function f gives the screen after each of the spaces of a tab.
Spaces(f, s) ==
  /\ f \in [0..TabWidth -> Screens] /\ f[0] = s
  /\ \A n \in 1..TabWidth : f[n] = Printed(f[n - 1], Blank)

\* The tab ends after the first n of them.
Ends(f, n) ==
  /\ n \in 1..TabWidth /\ f[n].at % TabWidth = 0
  /\ \A j \in 1..(n - 1) : f[j].at % TabWidth # 0

LEMMA TabEnds ==
  ASSUME NEW s \in Screens
  PROVE  \E f : Spaces(f, s) /\ \A n : Ends(f, n) => Tabbed(s) = Scrolled(f[n])
<1>1. PICK t \in Nat \ {0} : t = TabWidth
  BY ScreenAssumption
<1>2. PICK F : F = [x \in (0..t) \X Screens |-> Printed(x[2], Blank)]
  OBVIOUS
<1>3. ASSUME NEW z \in Screens PROVE Printed(z, Blank) \in Screens
  <2>1. Blank \in Values
    BY DEF Values
  <2>2. PICK x : x = z.at + 1
    OBVIOUS
  <2> QED
    BY <2>1, <2>2, PrintedIs DEF Drawn
<1>4. F \in [(0..t) \X Screens -> Screens]
  BY <1>2, <1>3
<1>5. PICK f0 : Recursive(f0, 0, t, Screens, s, F)
  <2>1. 0 \in Nat /\ t \in Nat /\ 0 <= t
    OBVIOUS
  <2> QED
    BY <1>4, <2>1, RecursionExists
<1> DEFINE Def(g) == [n \in 0..TabWidth |-> IF n = 0 THEN s ELSE Printed(g[n - 1], Blank)]
<1>6. f0 = Def(f0)
  <2>1. f0 \in [0..t -> Screens] /\ f0[0] = s /\ \A i \in 1..t : f0[i] = F[<<i, f0[i - 1]>>]
    BY <1>5 DEF Recursive
  <2>2. ASSUME NEW k \in 0..t PROVE f0[k] = IF k = 0 THEN s ELSE Printed(f0[k - 1], Blank)
    <3>1. CASE k = 0
      BY <2>1, <3>1
    <3>2. CASE k # 0
      <4>1. k \in 1..t /\ k - 1 \in 0..t
        BY <3>2
      <4>2. <<k, f0[k - 1]>> \in (0..t) \X Screens
        BY <2>1, <4>1
      <4>3. F[<<k, f0[k - 1]>>] = Printed(f0[k - 1], Blank)
        BY <1>2, <4>2
      <4> QED
        BY <2>1, <3>2, <4>1, <4>3
    <3> QED
      BY <3>1, <3>2
  <2> QED
    BY <1>1, <2>1, <2>2
<1>7. PICK f : f = CHOOSE g : g = Def(g)
  OBVIOUS
<1>8. f = Def(f)
  <2> DEFINE Q(g) == g = Def(g)
  <2>1. \E g : Q(g)
    BY <1>6
  <2>2. f = CHOOSE g : Q(g)
    BY <1>7
  <2> HIDE DEF Q
  <2>3. Q(f)
    BY <2>1, <2>2
  <2> QED
    BY <2>3 DEF Q
<1>9. /\ f = [n \in 0..t |-> f[n]] /\ DOMAIN f = 0..t /\ f[0] = s
      /\ \A n \in 1..t : f[n] = Printed(f[n - 1], Blank)
  BY <1>1, <1>8
<1>10. 0..t \subseteq {n \in 0..t : f[n] \in Screens}
  <2>1. PICK P : P = {n \in 0..t : f[n] \in Screens}
    OBVIOUS
  <2>2. 0 \in P
    BY <1>9, <2>1
  <2>3. ASSUME NEW i \in (0 + 1)..t, i - 1 \in P PROVE i \in P
    <3>1. i \in 1..t /\ i \in 0..t /\ f[i - 1] \in Screens
      BY <2>1, <2>3
    <3> QED
      BY <1>3, <1>9, <2>1, <3>1
  <2>4. 0..t \subseteq P
    BY <2>2, <2>3, IntervalInduction
  <2> QED
    BY <2>1, <2>4
<1>11. Spaces(f, s)
  BY <1>1, <1>9, <1>10 DEF Spaces
<1>12. PICK N : N = CHOOSE k \in 1..TabWidth : /\ f[k].at % TabWidth = 0
                                               /\ \A j \in 1..(k - 1) : f[j].at % TabWidth # 0
  OBVIOUS
<1>13. Tabbed(s) = Scrolled(f[N])
  BY <1>7, <1>12 DEF Tabbed
<1>14. ASSUME NEW n, Ends(f, n) PROVE N = n
  <2>1. N = CHOOSE k \in 1..TabWidth : Ends(f, k)
    BY <1>12, Zenon DEF Ends
  <2>2. n \in 1..TabWidth
    BY <1>14 DEF Ends
  <2>3. Ends(f, N)
    BY <1>14, <2>1, <2>2, Zenon
  <2>4. N \in Int /\ n \in Int /\ N >= 1 /\ n >= 1
    BY <1>1, <2>2, <2>3 DEF Ends
  <2>5. ~(n < N)
    BY <1>14, <2>2, <2>3, <2>4 DEF Ends
  <2>6. ~(N < n)
    BY <1>14, <2>3, <2>4 DEF Ends
  <2> QED
    BY <2>4, <2>5, <2>6
<1> QED
  BY <1>11, <1>13, <1>14

\* A tab within the screen, or above it.
LEMMA TabInside ==
  ASSUME NEW s \in Screens, s.at < COL * ROW, NEW to, to = After(s.at, "TAB")
  PROVE  Drawn(s, Tabbed(s), to, to, Blank)
<1>1. PICK l, w, t, m : Sizes(l, w, t, m)
  BY ScreenSizes
<1>2. /\ l = COL /\ w = COL * ROW /\ l \in Nat \ {0} /\ w \in Nat /\ Cells = 0..(w - 1) /\ l <= w
      /\ t = TabWidth /\ t \in Nat \ {0} /\ w % t = 0
  BY <1>1, Zenon DEF Sizes
<1>3. PICK a \in Int : a = s.at
  BY DEF Screens
<1>4. PICK b : b = a % t
  OBVIOUS
<1>5. to = a + t - b /\ b \in 0..(t - 1)
  <2>1. PICK e : e = a % COL
    OBVIOUS
  <2>2. Goes(a, "TAB", e, b, After(a, "TAB")) /\ b \in 0..(TabWidth - 1)
    BY <1>2, <1>4, <2>1, AfterGoes
  <2> QED
    BY <1>2, <1>3, <2>2 DEF Goes
<1>6. PICK n \in Int : n = t - b
  BY <1>2, <1>5
<1>7. n \in 1..t /\ to = a + n /\ to \in Int
  BY <1>2, <1>5, <1>6
<1>8. /\ to % t = 0 /\ to <= w
      /\ \A x \in Int : a < x /\ x % t = 0 => to <= x
  <2>1. a < w /\ w \in Int
    BY <1>2, <1>3
  <2>2. t \in Nat \ {0} /\ to = a + t - b
    BY <1>2, <1>5
  <2>3. to % t = 0 /\ \A x \in Int : a < x /\ x % t = 0 => to <= x
    BY <1>4, <2>2, RoundedUp
  <2> QED
    BY <1>2, <2>1, <2>3
<1>9. PICK f : Spaces(f, s) /\ \A k : Ends(f, k) => Tabbed(s) = Scrolled(f[k])
  BY TabEnds
<1>10. /\ f \in [0..t -> Screens] /\ f[0] = s
       /\ \A k \in 1..t : f[k] = Printed(f[k - 1], Blank)
  BY <1>2, <1>9 DEF Spaces
<1> DEFINE Filled(k) == f[k].at = a + k /\ \A i \in Cells : f[k].cell[i] = IF a <= i /\ i < a + k THEN Blank ELSE s.cell[i]
<1>11. ASSUME NEW k \in 1..n, Filled(k - 1), NEW z, z = a + k
       PROVE  Drawn(f[k - 1], f[k], z, z, Blank) /\ f[k - 1] \in Screens /\ f[k] \in Screens
  <2>1. k \in 1..t /\ k - 1 \in 0..t /\ k \in 0..t
    BY <1>2, <1>7
  <2>2. f[k - 1] \in Screens /\ f[k] = Printed(f[k - 1], Blank) /\ f[k] \in Screens
    BY <1>10, <2>1
  <2>3. Blank \in Values
    BY DEF Values
  <2>4. z = f[k - 1].at + 1
    <3>1. f[k - 1].at = a + (k - 1)
      BY <1>11
    <3> QED
      BY <1>11, <3>1
  <2> QED
    BY <2>2, <2>3, <2>4, PrintedIs
<1>12. \A k \in 0..(n - 1) : Filled(k)
  <2>1. PICK P : P = {k \in 0..(n - 1) : Filled(k)}
    OBVIOUS
  <2>2. 0 \in P
    <3>1. Filled(0)
      <4>1. a + 0 = a
        OBVIOUS
      <4>2. \A i \in Cells : ~(a <= i /\ i < a)
        BY <1>2
      <4> QED
        BY <1>3, <1>10, <4>1, <4>2
    <3>2. 0 \in 0..(n - 1)
      BY <1>7
    <3> HIDE DEF Filled
    <3> QED
      BY <2>1, <3>1, <3>2
  <2>3. ASSUME NEW k \in (0 + 1)..(n - 1), k - 1 \in P PROVE k \in P
    <3>1. k \in 1..n /\ k \in 0..(n - 1) /\ k \in Int /\ k < n
      BY <1>7
    <3>2. Filled(k - 1)
      BY <2>1, <2>3
    <3>3. PICK z \in Int : z = a + k
      BY <3>1
    <3>4. z < w
      BY <1>2, <1>7, <1>8, <3>1, <3>3
    <3>5. Drawn(f[k - 1], f[k], z, z, Blank)
      BY <1>11, <3>1, <3>2, <3>3
    <3>6. f[k - 1].at = z - 1
      BY <3>1, <3>2, <3>3
    <3>7. f[k].at = z /\ \A i \in Cells : f[k].cell[i] = Cell(f[k - 1], z, Blank, i)
      BY <1>2, <3>3, <3>4, <3>5, <3>6 DEF Drawn
    <3>8. ASSUME NEW i \in Cells
          PROVE  f[k].cell[i] = IF a <= i /\ i < a + k THEN Blank ELSE s.cell[i]
      <4>1. i \in Int
        BY <1>2
      <4>2. f[k - 1].cell[i] = IF a <= i /\ i < z - 1 THEN Blank ELSE s.cell[i]
        <5>1. a + (k - 1) = z - 1
          BY <3>1, <3>3
        <5> QED
          BY <3>2, <5>1
      <4>3. f[k].cell[i] = IF z - 1 <= i /\ i < z THEN Blank ELSE f[k - 1].cell[i]
        BY <3>6, <3>7 DEF Cell
      <4> QED
        BY <3>1, <3>3, <4>1, <4>2, <4>3
    <3>9. Filled(k)
      BY <3>3, <3>7, <3>8
    <3> HIDE DEF Filled
    <3> QED
      BY <2>1, <3>1, <3>9
  <2>4. 0..(n - 1) \subseteq P
    <3>1. n - 1 \in Nat /\ 0 \in Nat
      BY <1>7
    <3> HIDE DEF Filled
    <3> QED
      BY <2>2, <2>3, <3>1, IntervalInduction
  <2> HIDE DEF Filled
  <2> QED
    BY <2>1, <2>4
<1>13. Filled(n - 1) /\ n \in 1..n
  <2>1. n - 1 \in 0..(n - 1) /\ n \in 1..n
    BY <1>7
  <2> HIDE DEF Filled
  <2> QED
    BY <1>12, <2>1
<1>14. PICK u, v : u = f[n - 1] /\ v = f[n]
  OBVIOUS
<1>15. Drawn(u, v, to, to, Blank) /\ v \in Screens
  BY <1>7, <1>11, <1>13, <1>14
<1>16. u.at = to - 1 /\ \A i \in Cells : u.cell[i] = IF a <= i /\ i < to - 1 THEN Blank ELSE s.cell[i]
  <2>1. a + (n - 1) = to - 1
    BY <1>7
  <2> QED
    BY <1>13, <1>14, <2>1
<1>17. \A j \in Int : j >= 0 => Cell(u, to, Blank, j) = Cell(s, to, Blank, j)
  <2> SUFFICES ASSUME NEW j \in Int PROVE Cell(u, to, Blank, j) = Cell(s, to, Blank, j)
    OBVIOUS
  <2>1. Cell(u, to, Blank, j) = IF to - 1 <= j /\ j < to THEN Blank ELSE IF j \in Cells THEN u.cell[j] ELSE Blank
    BY <1>16 DEF Cell
  <2>2. Cell(s, to, Blank, j) = IF a <= j /\ j < to THEN Blank ELSE IF j \in Cells THEN s.cell[j] ELSE Blank
    BY <1>3 DEF Cell
  <2>3. j \in Cells => u.cell[j] = IF a <= j /\ j < to - 1 THEN Blank ELSE s.cell[j]
    BY <1>16
  <2> QED
    BY <1>7, <2>1, <2>2, <2>3
<1>18. Drawn(s, v, to, to, Blank)
  <2>1. u.at < w /\ s.at < w
    BY <1>2, <1>7, <1>8, <1>16
  <2>2. \A i \in Cells : i \in Int /\ i + l \in Int /\ i >= 0 /\ i + l >= 0
    BY <1>2
  <2> QED
    BY <1>2, <1>15, <1>17, <2>1, <2>2 DEF Drawn
<1>19. v.at % t = 0 /\ v.at < w
  <2>1. CASE to < w
    BY <1>2, <1>8, <1>15, <2>1 DEF Drawn
  <2>2. CASE ~(to < w)
    <3>1. to = w /\ v.at = w - l
      BY <1>2, <1>7, <1>8, <1>15, <2>2 DEF Drawn
    <3>2. m \in Int /\ l = t * m
      BY <1>1, Zenon DEF Sizes
    <3>3. PICK k \in Int : k = -m
      BY <3>2
    <3>4. w - l = w + t * k
      BY <1>2, <3>2, <3>3
    <3>5. Shifted(w - l, w, t, k)
      BY <1>2, <3>4 DEF Shifted
    <3>6. (w - l) % t = 0
      BY <1>2, <3>5, ShiftedRemainder
    <3> QED
      BY <1>2, <3>1, <3>6
  <2> QED
    BY <2>1, <2>2
<1>20. Ends(f, n)
  <2>1. ASSUME NEW j \in 1..(n - 1) PROVE f[j].at % t # 0
    <3>1. j \in 0..(n - 1) /\ j \in Int
      BY <1>7
    <3>2. f[j].at = a + j
      BY <1>12, <3>1
    <3>3. PICK x \in Int : x = a + j
      BY <3>1
    <3>4. a < x /\ x < to
      BY <1>7, <3>1, <3>3
    <3>5. x % t # 0
      BY <1>7, <1>8, <3>4
    <3> QED
      BY <3>2, <3>3, <3>5
  <2> QED
    BY <1>2, <1>7, <1>14, <1>19, <2>1 DEF Ends
<1>21. Tabbed(s) = v
  <2>1. Tabbed(s) = Scrolled(v)
    BY <1>9, <1>14, <1>20
  <2> QED
    BY <1>2, <1>15, <1>19, <2>1, ScrolledIs
<1> QED
  BY <1>18, <1>21

\* A tab behind the last cell.
LEMMA TabBehind ==
  ASSUME NEW s \in Screens, s.at = COL * ROW, NEW to, to = After(s.at, "TAB")
  PROVE  Drawn(s, Tabbed(s), to, to, Blank)
<1>1. PICK l, w, t, m : Sizes(l, w, t, m)
  BY ScreenSizes
<1>2. /\ l = COL /\ w = COL * ROW /\ l \in Nat \ {0} /\ w \in Nat /\ l <= w
      /\ t = TabWidth /\ t \in Nat \ {0} /\ w % t = 0 /\ t < l
  BY <1>1, Zenon DEF Sizes
<1>3. s.at = w /\ w \in Int
  BY <1>2
<1>4. to = w + t
  <2>1. PICK e, b : e = w % COL /\ b = w % TabWidth
    OBVIOUS
  <2>2. Goes(w, "TAB", e, b, After(w, "TAB"))
    BY <1>3, <2>1, AfterGoes
  <2>3. b = 0
    BY <1>2, <2>1
  <2>4. After(w, "TAB") = w + TabWidth - b
    BY <2>2 DEF Goes
  <2> QED
    BY <1>2, <1>3, <2>3, <2>4
<1>5. PICK a \in Int : a = w - l
  BY <1>2
<1>6. a % t = 0
  <2>1. m \in Int /\ l = t * m
    BY <1>1, Zenon DEF Sizes
  <2>2. PICK k \in Int : k = -m
    BY <2>1
  <2>3. a = w + t * k
    BY <1>2, <1>5, <2>1, <2>2
  <2>4. Shifted(a, w, t, k)
    BY <1>2, <2>3 DEF Shifted
  <2> QED
    BY <1>2, <2>4, ShiftedRemainder
<1>7. PICK x \in Int : x = a + t
  BY <1>2
<1>8. x % t = 0 /\ \A y \in Int : a < y /\ y % t = 0 => x <= y
  <2>1. t \in Nat \ {0}
    BY <1>2
  <2>2. PICK b : b = a % t
    OBVIOUS
  <2>3. x = a + t - b
    BY <1>6, <1>7, <2>1, <2>2
  <2> QED
    BY <2>1, <2>2, <2>3, RoundedUp
<1>9. PICK f : Spaces(f, s) /\ \A k : Ends(f, k) => Tabbed(s) = Scrolled(f[k])
  BY TabEnds
<1>10. /\ f \in [0..t -> Screens] /\ f[0] = s
       /\ \A k \in 1..t : f[k] = Printed(f[k - 1], Blank)
  BY <1>2, <1>9 DEF Spaces
<1>11. ASSUME NEW k \in 1..t, NEW z, z = f[k - 1].at + 1 PROVE Drawn(f[k - 1], f[k], z, z, Blank)
  <2>1. k - 1 \in 0..t
    BY <1>2
  <2>2. f[k - 1] \in Screens /\ f[k] = Printed(f[k - 1], Blank)
    BY <1>10, <2>1
  <2>3. Blank \in Values
    BY DEF Values
  <2> QED
    BY <1>11, <2>2, <2>3, PrintedIs
<1>12. PICK P : P = {k \in 1..t : f[k].at = a + k}
  OBVIOUS
<1>13. 1 \in P
  <2>1. 1 \in 1..t /\ 1 - 1 = 0
    BY <1>2
  <2>2. PICK z \in Int : z = w + 1
    BY <1>3
  <2>3. z = f[1 - 1].at + 1
    BY <1>3, <1>10, <2>1, <2>2
  <2>4. Drawn(f[1 - 1], f[1], z, z, Blank)
    BY <1>11, <2>1, <2>3
  <2>5. f[1].at = z - l
    BY <1>2, <2>2, <2>4 DEF Drawn
  <2>6. z - l = a + 1
    BY <1>2, <1>5, <2>2
  <2> QED
    BY <1>12, <2>1, <2>5, <2>6
<1>14. ASSUME NEW k \in (1 + 1)..t, k - 1 \in P PROVE k \in P
  <2>1. k \in 1..t /\ k \in Int /\ f[k - 1].at = a + (k - 1)
    BY <1>2, <1>12, <1>14
  <2>2. PICK z \in Int : z = a + k
    BY <2>1
  <2>3. z = f[k - 1].at + 1
    BY <2>1, <2>2
  <2>4. z < w
    BY <1>2, <1>5, <2>2
  <2>5. Drawn(f[k - 1], f[k], z, z, Blank)
    BY <1>11, <2>1, <2>3
  <2>6. f[k].at = z
    BY <1>2, <2>4, <2>5 DEF Drawn
  <2> QED
    BY <1>12, <2>1, <2>2, <2>6
<1>15. 1..t \subseteq P
  BY <1>2, <1>13, <1>14, IntervalInduction
<1>16. \A k \in 1..t : f[k].at = a + k
  BY <1>12, <1>15
<1>17. t \in 1..t /\ t \in 0..t /\ f[t].at = x /\ f[t] \in Screens
  BY <1>2, <1>7, <1>10, <1>16
<1>18. Ends(f, t)
  <2>1. ASSUME NEW j \in 1..(t - 1) PROVE f[j].at % t # 0
    <3>1. j \in 1..t /\ j \in Int
      BY <1>2
    <3>2. PICK y \in Int : y = a + j
      BY <3>1
    <3>3. a < y /\ y < x
      BY <1>2, <1>7, <3>2
    <3>4. y % t # 0
      BY <1>8, <3>3
    <3> QED
      BY <1>16, <3>1, <3>2, <3>4
  <2> QED
    BY <1>2, <1>8, <1>17, <2>1 DEF Ends
<1>19. Tabbed(s) = f[t]
  <2>1. Tabbed(s) = Scrolled(f[t])
    BY <1>9, <1>18
  <2>2. f[t].at < w
    BY <1>2, <1>5, <1>7, <1>17
  <2> QED
    BY <1>2, <1>17, <2>1, <2>2, ScrolledIs
<1>20. to - l = x /\ w <= to /\ ~(to < w) /\ ~(s.at < w)
  BY <1>2, <1>3, <1>4, <1>5, <1>7
<1> QED
  BY <1>2, <1>17, <1>19, <1>20 DEF Drawn

\* Any character but NUL, from a position on the screen or just behind it.
LEMMA PutDraws ==
  ASSUME NEW s \in Screens, 0 <= s.at, s.at <= COL * ROW, NEW c \in Output, NEW to, to = After(s.at, c),
         NEW hi, c \in Turns => hi = s.at, c \notin Turns => hi = to
  PROVE  Drawn(s, Put(s, c), to, hi, Ink(c))
<1>1. PICK a \in Int, w \in Int : a = s.at /\ w = COL * ROW
  BY ScreenSizes DEF Screens, Sizes
<1>2. CASE c = "TAB"
  <2>1. Put(s, c) = Tabbed(s) /\ Ink(c) = Blank /\ hi = to
    BY <1>2 DEF Put, Ink, Turns
  <2>2. CASE a < w
    BY <1>1, <1>2, <2>1, <2>2, TabInside
  <2>3. CASE a = w
    BY <1>1, <1>2, <2>1, <2>3, TabBehind
  <2> QED
    BY <1>1, <2>2, <2>3
<1>3. CASE c \in Turns
  <2>1. Put(s, c) = Moved(s, c) /\ hi = s.at
    BY <1>3 DEF Put, Turns
  <2> QED
    BY <1>1, <1>3, <2>1, MovedIs
<1>4. CASE c # "TAB" /\ c \notin Turns
  <2>1. Put(s, c) = Printed(s, c) /\ Ink(c) = c /\ hi = to /\ c \in Values
    BY <1>4 DEF Put, Ink, Turns, Values
  <2>2. to = s.at + 1
    BY <1>4 DEF After, Turns
  <2> QED
    BY <2>1, <2>2, PrintedIs
<1> QED
  BY <1>2, <1>3, <1>4

\* Above the screen it stays above the last cell.
LEMMA PutAbove ==
  ASSUME NEW s \in Screens, s.at < 0, NEW c \in Output
  PROVE  Put(s, c) \in Screens /\ Put(s, c).at < COL * ROW
<1>1. PICK l, w, t, m : Sizes(l, w, t, m)
  BY ScreenSizes
<1>2. l = COL /\ w = COL * ROW /\ l \in Nat \ {0} /\ w \in Nat /\ l <= w
  BY <1>1, Zenon DEF Sizes
<1>3. s.at \in Int
  BY DEF Screens
<1>4. ASSUME NEW s1, NEW to \in Int, NEW hi, NEW v, Drawn(s, s1, to, hi, v), to <= w
      PROVE  s1 \in Screens /\ s1.at < w
  BY <1>2, <1>4 DEF Drawn
<1>5. CASE c = "TAB"
  <2>1. Put(s, c) = Tabbed(s)
    BY <1>5 DEF Put
  <2>2. PICK to : to = After(s.at, "TAB")
    OBVIOUS
  <2>3. s.at < w
    BY <1>2, <1>3
  <2>4. to \in Int /\ to <= w
    BY <1>2, <1>3, <2>2, <2>3, AfterBounds
  <2>5. Drawn(s, Tabbed(s), to, to, Blank)
    BY <1>2, <2>2, <2>3, TabInside
  <2> QED
    BY <1>2, <1>4, <2>1, <2>4, <2>5
<1>6. CASE c \in Turns
  <2>1. Put(s, c) = Moved(s, c)
    BY <1>6 DEF Put, Turns
  <2> QED
    BY <1>6, <2>1, MovedIs
<1>7. CASE c # "TAB" /\ c \notin Turns
  <2>1. Put(s, c) = Printed(s, c) /\ c \in Values
    BY <1>7 DEF Put, Turns, Values
  <2>2. PICK to \in Int : to = s.at + 1
    BY <1>3
  <2>3. Drawn(s, Printed(s, c), to, to, c)
    BY <2>1, <2>2, PrintedIs
  <2>4. to <= w
    BY <1>2, <1>3, <2>2
  <2> QED
    BY <1>2, <1>4, <2>1, <2>3, <2>4
<1> QED
  BY <1>5, <1>6, <1>7


-----------------------------------------------------------------------------
(***************************************************************************)
(* The screen and the paper, with one character more.                      *)
(***************************************************************************)

\* The lines that have gone are those that had gone, and one if the head is below them.
LEMMA LinesGrow ==
  ASSUME NEW out \in Outputs, NEW c \in Output, NEW out1, Longer(out, c, out1),
         NEW n, n = Len(out.chars), NEW q, q = HeadAt(out1)[n + 1],
         NEW g, g = COL * Lines(out, n), NEW g1, g1 = COL * Lines(out1, n + 1)
  PROVE  /\ g \in Int /\ g1 \in Int /\ q \in Int
         /\ q < COL * ROW + g => g1 = g
         /\ COL * ROW + g <= q => g1 = g + COL
<1>1. PICK h, h1 : h = HeadAt(out) /\ h1 = HeadAt(out1)
  OBVIOUS
<1>2. /\ n \in Nat /\ Len(out1.chars) = n + 1
      /\ h \in [0..n -> Int] /\ h1 \in [0..(n + 1) -> Int]
      /\ \A k \in 0..n : h1[k] = h[k]
      /\ h1[n + 1] = After(h[n], c)
  BY <1>1, LongerPath
<1>3. PICK l, w, t, m : Sizes(l, w, t, m)
  BY ScreenSizes
<1>4. l = COL /\ w = COL * ROW /\ l \in Nat \ {0} /\ w \in Nat /\ l <= w
  BY <1>3, Zenon DEF Sizes
<1>4a. l \in Nat \ {0} /\ w \in Int
  BY <1>4
<1>5. PICK a, b : a = Lines(out, n) /\ b = Lines(out1, n + 1)
  OBVIOUS
<1>6. Gone(h, n, a)
  <2>1. n \in 0..Len(out.chars)
    BY <1>2
  <2> QED
    BY <1>1, <1>5, <2>1, LinesGone
<1>7. Gone(h1, n + 1, b)
  <2>1. n + 1 \in 0..Len(out1.chars) /\ out1 \in Outputs
    BY <1>2, LongerOutput
  <2> QED
    BY <1>1, <1>5, <2>1, LinesGone
<1>8. a \in Nat /\ b \in Nat /\ g = l * a /\ g1 = l * b
  BY <1>4, <1>5, <1>6, <1>7 DEF Gone
<1>9. g \in Int /\ g1 \in Int
  BY <1>4, <1>8
<1>10. /\ \A k \in 0..n : h[k] < w + g
       /\ a # 0 => \E k \in 0..n : w + g - l <= h[k]
  BY <1>4, <1>6, <1>8 DEF Gone
<1>11. q \in Int /\ q = h1[n + 1] /\ q < w + g + l
  <2>1. n \in 0..n /\ n + 1 \in 0..(n + 1)
    BY <1>2
  <2>2. h[n] \in Int /\ q = After(h[n], c) /\ q \in Int /\ h[n] < w + g
    BY <1>1, <1>2, <1>10, <2>1
  <2>3. q <= h[n] + l
    BY <1>4, <2>2, AfterBounds
  <2>4. q = h1[n + 1]
    BY <1>1
  <2>5. PICK x \in Int : x = h[n]
    BY <2>2
  <2>6. x < w + g /\ q <= x + l /\ q \in Int
    BY <2>2, <2>3, <2>5, Zenon
  <2>7. q < w + g + l
    BY <1>4a, <1>9, <2>6
  <2> QED
    BY <2>4, <2>6, <2>7, Zenon
<1>12. /\ n + 1 \in Nat /\ n + 1 \in 0..(n + 1)
       /\ \A k \in 0..(n + 1) : h1[k] \in Int /\ (k = n + 1 \/ k \in 0..n)
       /\ \A k \in 0..n : k \in 0..(n + 1)
  <2>1. /\ n + 1 \in Nat /\ n + 1 \in 0..(n + 1)
        /\ \A k \in 0..(n + 1) : k = n + 1 \/ k \in 0..n
        /\ \A k \in 0..n : k \in 0..(n + 1)
    <3>1. n \in Nat
      BY <1>2
    <3> QED
      BY <3>1
  <2>2. \A k \in 0..(n + 1) : h1[k] \in Int
    BY <1>2
  <2> QED
    BY <2>1, <2>2, Zenon
<1>13. ASSUME q < w + g PROVE g1 = g
  <2>1. \A k \in 0..(n + 1) : h1[k] < w + g
    BY <1>2, <1>10, <1>11, <1>12, <1>13
  <2>2. a # 0 => \E k \in 0..(n + 1) : w + g - l <= h1[k]
    BY <1>2, <1>10, <1>12
  <2>3. Gone(h1, n + 1, a)
    BY <1>4, <1>8, <2>1, <2>2 DEF Gone
  <2>4. a = b
    BY <1>7, <1>12, <2>3, GoneUnique
  <2> QED
    BY <1>8, <2>4
<1>14. ASSUME w + g <= q PROVE g1 = g + l
  <2>1. PICK y : y = l * (a + 1)
    OBVIOUS
  <2>2. y = g + l
    <3>1. l * (a + 1) = l * a + l
      BY <1>4, <1>8
    <3> QED
      BY <1>8, <2>1, <3>1
  <2>3. \A k \in 0..(n + 1) : h1[k] < w + y
    <3>1. w + g < w + y /\ q < w + y
      <4>1. q \in Int /\ q < w + g + l
        BY <1>11, Zenon
      <4> QED
        BY <1>4a, <1>9, <2>2, <4>1
    <3>2. ASSUME NEW k \in 0..n PROVE h1[k] < w + y
      <4>1. h1[k] \in Int /\ h1[k] < w + g
        BY <1>2, <1>10, <1>12
      <4>2. PICK x \in Int : x = h1[k]
        BY <4>1
      <4>3. x < w + g
        BY <4>1, <4>2, Zenon
      <4>4. x < w + y
        BY <1>4a, <1>9, <2>2, <4>3
      <4> QED
        BY <4>2, <4>4, Zenon
    <3> QED
      BY <1>11, <1>12, <3>1, <3>2
  <2>4. w + y - l <= h1[n + 1]
    BY <1>4, <1>9, <1>11, <1>14, <2>2
  <2>5. Gone(h1, n + 1, a + 1)
    <3>1. a + 1 \in Nat
      BY <1>8
    <3> QED
      BY <1>4, <1>12, <2>1, <2>3, <2>4, <3>1 DEF Gone
  <2>6. a + 1 = b
    BY <1>7, <1>12, <2>5, GoneUnique
  <2> QED
    BY <1>8, <2>1, <2>2, <2>6
<1> QED
  BY <1>4, <1>9, <1>11, <1>13, <1>14

\* A head that has left at the top has done so for ever, and one that has not is on the
\* screen.
LEMMA LeftTopStays ==
  ASSUME NEW out \in Outputs, NEW c \in Output, NEW out1, Longer(out, c, out1), LeftTop(out)
  PROVE  LeftTop(out1)
<1>1. PICK h, h1, n : h = HeadAt(out) /\ h1 = HeadAt(out1) /\ n = Len(out.chars)
  OBVIOUS
<1>2. /\ n \in Nat /\ Len(out1.chars) = n + 1
      /\ h \in [0..n -> Int] /\ h1 \in [0..(n + 1) -> Int]
      /\ \A k \in 0..n : h1[k] = h[k]
  BY <1>1, LongerPath
<1>3. PICK k \in 0..n : h[k] < COL * Lines(out, k)
  BY <1>1 DEF LeftTop
<1>4. k \in 0..(n + 1) /\ k \in Nat /\ \A j \in 0..k : h[j] \in Int /\ h1[j] = h[j]
  BY <1>2
<1>5. Gone(h, k, Lines(out, k))
  BY <1>1, LinesGone
<1>6. Gone(h1, k, Lines(out1, k))
  BY <1>1, <1>2, <1>4, LinesGone, LongerOutput
<1>7. Lines(out1, k) = Lines(out, k)
  BY <1>4, <1>5, <1>6, GoneUnique
<1>8. h1[k] = h[k]
  BY <1>2
<1>9. h1[k] < COL * Lines(out1, k)
  BY <1>3, <1>7, <1>8
<1> QED
  BY <1>1, <1>2, <1>4, <1>9 DEF LeftTop

LEMMA HeadInside ==
  ASSUME NEW out \in Outputs, ~ LeftTop(out), NEW n, n = Len(out.chars),
         NEW p, p = HeadAt(out)[n], NEW g, g = COL * Lines(out, n)
  PROVE  p \in Int /\ g \in Int /\ g <= p /\ \A k \in 0..n : HeadAt(out)[k] \in Int /\ HeadAt(out)[k] < COL * ROW + g
<1>1. n \in Nat /\ HeadAt(out) \in [0..n -> Int]
  BY HeadPath DEF Path
<1>2. n \in 0..n
  BY <1>1
<1>3. Gone(HeadAt(out), n, Lines(out, n))
  BY <1>2, LinesGone
<1>4. Lines(out, n) \in Nat /\ COL \in Int
  BY <1>3, ScreenAssumption DEF Gone
<1>5. g \in Int /\ p \in Int
  BY <1>1, <1>2, <1>4
<1>6. g <= p
  BY <1>2, <1>5 DEF LeftTop
<1> QED
  BY <1>1, <1>3, <1>5, <1>6 DEF Gone

\* The screen s and the paper agree: s is at the head, or in the line below if it began behind
\* its end, and shows the lines that have not gone, if it did not.
Agrees(s, kind, out) ==
  LET n == Len(out.chars)
      gone == COL * Lines(out, n)
  IN  /\ s \in Screens
      /\ s.at < COL * ROW \/ (s.at = COL * ROW /\ BeganOutside(out))
      /\ ~ LeftTop(out) => \/ s.at = HeadAt(out)[n] - gone
                           \/ BeganOutside(out) /\ s.at = HeadAt(out)[n] - gone + COL
      /\ ~ LeftTop(out) /\ ~ BeganOutside(out) =>
           \A i \in Cells : s.cell[i] = Paper(kind, out, gone + i)

\* What is drawn in a cell is what is marked on the paper.
LEMMA CellMarked ==
  ASSUME NEW out \in Outputs, NEW c \in Output, NEW out1, Longer(out, c, out1), ~ LeftTop(out), NEW kind,
         NEW n, n = Len(out.chars), NEW g, g = COL * Lines(out, n),
         NEW p, p = HeadAt(out)[n], NEW q, q = HeadAt(out1)[n + 1],
         NEW s, s.at = p - g, \A i \in Cells : s.cell[i] = Paper(kind, out, g + i),
         NEW hi, c \in Turns => hi = s.at, c \notin Turns => hi = q - g,
         NEW j \in Nat
  PROVE  Cell(s, hi, Ink(c), j) = Paper(kind, out1, g + j)
<1>1. PICK l, w, t, m : Sizes(l, w, t, m)
  BY ScreenSizes
<1>2. w = COL * ROW /\ w \in Nat /\ Cells = 0..(w - 1)
  BY <1>1, Zenon DEF Sizes
<1>3. p \in Int /\ g \in Int /\ \A k \in 0..n : HeadAt(out)[k] \in Int /\ HeadAt(out)[k] < w + g
  BY <1>2, HeadInside
<1>4. q \in Int
  BY LinesGrow
<1>5. PICK x \in Int : x = g + j
  BY <1>3
<1>6. PICK a \in Int : a = s.at /\ a = p - g
  BY <1>3
<1>7. /\ c \notin Turns /\ p <= x /\ x < q => Paper(kind, out1, x) = Ink(c)
      /\ c \in Turns \/ x < p \/ q <= x => Paper(kind, out1, x) = Paper(kind, out, x)
  BY <1>5, PaperGrows
<1>8. CASE c \notin Turns /\ p <= x /\ x < q
  <2>1. a <= j /\ j < hi
    BY <1>3, <1>4, <1>5, <1>6, <1>8
  <2>2. Cell(s, hi, Ink(c), j) = Ink(c)
    BY <1>6, <2>1 DEF Cell
  <2> QED
    BY <1>5, <1>7, <1>8, <2>2
<1>9. CASE ~(c \notin Turns /\ p <= x /\ x < q)
  <2>1. ~(a <= j /\ j < hi)
    BY <1>3, <1>4, <1>5, <1>6, <1>9
  <2>2. Paper(kind, out1, x) = Paper(kind, out, x)
    BY <1>3, <1>4, <1>7, <1>9
  <2>3. Cell(s, hi, Ink(c), j) = IF j \in Cells THEN s.cell[j] ELSE Blank
    BY <1>6, <2>1 DEF Cell
  <2>4. CASE j \in Cells
    BY <1>5, <2>2, <2>3, <2>4
  <2>5. CASE j \notin Cells
    <3>1. w + g <= x
      BY <1>2, <1>3, <1>5, <2>5
    <3>2. ASSUME NEW k \in 0..n PROVE HeadAt(out)[k] <= x
      <4>1. PICK y \in Int : y = HeadAt(out)[k]
        BY <1>3
      <4>2. y < w + g
        BY <1>3, <4>1, Zenon
      <4>3. w \in Int /\ g \in Int
        BY <1>2, <1>3
      <4>4. y <= x
        BY <3>1, <4>2, <4>3
      <4> QED
        BY <4>1, <4>4, Zenon
    <3>3. Paper(kind, out, x) = Blank
      BY <3>2, PaperBehind
    <3> QED
      BY <1>5, <2>2, <2>3, <2>5, <3>3
  <2> QED
    BY <2>4, <2>5
<1> QED
  BY <1>8, <1>9

\* The position, while the head has not left at the top.
Step(l, w, p, q, g, g1, a, to, b) ==
  /\ l \in Nat \ {0} /\ w \in Nat /\ l <= w
  /\ p \in Int /\ q \in Int /\ g \in Int /\ g1 \in Int
  /\ (q < w + g => g1 = g) /\ (w + g <= q => g1 = g + l)
  /\ a \in Int /\ to \in Int /\ to = q - p + a /\ to <= a + l
  /\ (to < w => b = to) /\ (w <= to => b = to - l)

LEMMA PositionGoes ==
  ASSUME NEW l, NEW w, NEW p, NEW q, NEW g, NEW g1, NEW a, NEW to, NEW b, Step(l, w, p, q, g, g1, a, to, b)
  PROVE  /\ a = p - g => b = q - g1
         /\ a = p - g + l => b = q - g1 \/ b = q - g1 + l
         /\ a < w => b < w
         /\ a = w => b < w \/ b = w
<1>1. to < w \/ w <= to
  BY DEF Step
<1>2. CASE to < w
  BY <1>2 DEF Step
<1>3. CASE w <= to
  BY <1>3 DEF Step
<1> QED
  BY <1>1, <1>2, <1>3

\* They agree with one character more, too.
LEMMA PutAgrees ==
  ASSUME NEW out \in Outputs, NEW c \in Output, NEW out1, Longer(out, c, out1), NEW kind,
         NEW s, Agrees(s, kind, out), NEW s1, s1 = Put(s, c)
  PROVE  Agrees(s1, kind, out1)
<1>1. PICK l, w, t, m : Sizes(l, w, t, m)
  BY ScreenSizes
<1>2. l = COL /\ w = COL * ROW /\ l \in Nat \ {0} /\ w \in Nat /\ l <= w /\ Cells = 0..(w - 1)
  BY <1>1, Zenon DEF Sizes
<1>3. PICK n, p, g : n = Len(out.chars) /\ p = HeadAt(out)[n] /\ g = COL * Lines(out, n)
  OBVIOUS
<1>4. PICK q, g1 : q = HeadAt(out1)[n + 1] /\ g1 = COL * Lines(out1, n + 1)
  OBVIOUS
<1>5. /\ n \in Nat /\ n \in 0..n /\ Len(out1.chars) = n + 1 /\ out1 \in Outputs
      /\ BeganOutside(out1) <=> BeganOutside(out)
  BY <1>3, LongerOutput DEF BeganOutside
<1>6. s \in Screens /\ s.at \in Int
  BY DEF Agrees, Screens
<1>7. PICK a \in Int, to \in Int : a = s.at /\ to = After(a, c) /\ to <= a + l
  BY <1>2, <1>6, AfterBounds
<1>8. PICK hi : (c \in Turns => hi = a) /\ (c \notin Turns => hi = to)
  <2>1. CASE c \in Turns
    BY <2>1
  <2>2. CASE c \notin Turns
    BY <2>2
  <2> QED
    BY <2>1, <2>2
<1>9. a < w \/ (a = w /\ BeganOutside(out))
  BY <1>2, <1>7 DEF Agrees
<1>10. ASSUME 0 <= a PROVE Drawn(s, s1, to, hi, Ink(c))
  <2>1. 0 <= s.at /\ s.at <= COL * ROW
    BY <1>2, <1>7, <1>9, <1>10
  <2> QED
    BY <1>6, <1>7, <1>8, <2>1, PutDraws
<1>11. ASSUME 0 <= a PROVE s1 \in Screens /\ (to < w => s1.at = to) /\ (w <= to => s1.at = to - l)
  BY <1>2, <1>10, <1>11 DEF Drawn
<1>12. CASE LeftTop(out)
  <2>1. LeftTop(out1)
    BY <1>12, LeftTopStays
  <2>2. CASE a < 0
    <3>1. s1 \in Screens /\ s1.at < COL * ROW
      BY <1>6, <1>7, <2>2, PutAbove
    <3> QED
      BY <2>1, <3>1 DEF Agrees
  <2>3. CASE 0 <= a
    <3>1. s1 \in Screens /\ (s1.at < w \/ (s1.at = w /\ BeganOutside(out)))
      BY <1>2, <1>7, <1>9, <1>11, <2>3
    <3> QED
      BY <1>2, <1>5, <2>1, <3>1 DEF Agrees
  <2> QED
    BY <2>2, <2>3
<1>13. CASE ~ LeftTop(out)
  <2>1. p \in Int /\ g \in Int /\ g <= p
    BY <1>3, <1>13, HeadInside
  <2>2. a = p - g \/ (BeganOutside(out) /\ a = p - g + l)
    BY <1>2, <1>3, <1>7, <1>13 DEF Agrees
  <2>3. 0 <= a
    BY <1>2, <2>1, <2>2
  <2>4. q = After(p, c)
    BY <1>3, <1>4, LongerPath
  <2>5. to = q - p + a
    <3>1. PICK k \in Nat : k = Lines(out, n)
      <4>1. n \in 0..Len(out.chars)
        BY <1>3, <1>5
      <4>2. Lines(out, n) \in Nat
        BY <4>1, LinesGone DEF Gone
      <4> QED
        BY <4>2
    <3>2. CASE a = p - g
      <4>1. g = COL * k /\ p = a + g /\ k \in Int
        BY <1>3, <2>1, <3>1, <3>2
      <4>2. After(p, c) = After(a, c) + g
        BY <4>1, AfterShift
      <4> QED
        BY <1>7, <2>1, <2>4, <3>2, <4>2
    <3>3. CASE a = p - g + l
      <4>1. PICK j \in Int : j = k - 1
        BY <3>1
      <4>2. PICK d \in Int : d = g - l
        BY <1>2, <2>1
      <4>3. d = COL * j
        <5>1. l * j = l * k - l
          BY <1>2, <3>1, <4>1
        <5>2. g = l * k
          BY <1>2, <1>3, <3>1
        <5> QED
          BY <1>2, <4>2, <5>1, <5>2
      <4>4. p = a + d
        BY <1>2, <2>1, <3>3, <4>2
      <4>5. After(p, c) = After(a, c) + d
        BY <4>3, <4>4, AfterShift
      <4> QED
        BY <1>7, <2>1, <2>4, <4>2, <4>4, <4>5
    <3> QED
      BY <2>2, <3>2, <3>3
  <2>6. g1 \in Int /\ q \in Int /\ (q < w + g => g1 = g) /\ (w + g <= q => g1 = g + l)
    <3>1. /\ g1 \in Int /\ q \in Int
          /\ q < COL * ROW + g => g1 = g
          /\ COL * ROW + g <= q => g1 = g + COL
      BY <1>3, <1>4, LinesGrow
    <3> QED
      BY <1>2, <3>1, Zenon
  <2>7. PICK b : b = s1.at
    OBVIOUS
  <2>8. (to < w => b = to) /\ (w <= to => b = to - l)
    BY <1>11, <2>3, <2>7
  <2>9. /\ a = p - g => b = q - g1
        /\ a = p - g + l => b = q - g1 \/ b = q - g1 + l
        /\ a < w => b < w
        /\ a = w => b < w \/ b = w
    <3>1. Step(l, w, p, q, g, g1, a, to, b)
      BY <1>2, <1>7, <2>1, <2>5, <2>6, <2>8, Zenon DEF Step
    <3> QED
      BY <3>1, PositionGoes
  <2>10. s1 \in Screens /\ (b < w \/ (b = w /\ BeganOutside(out1)))
    BY <1>5, <1>9, <1>11, <2>3, <2>9
  <2>11. b = q - g1 \/ (BeganOutside(out1) /\ b = q - g1 + l)
    BY <1>5, <2>2, <2>9
  <2>12. ASSUME ~ BeganOutside(out1), NEW i \in Cells PROVE s1.cell[i] = Paper(kind, out1, g1 + i)
    <3>1. a = p - g /\ a < w
      BY <1>5, <1>9, <2>2, <2>12
    <3>2. \A j \in Cells : s.cell[j] = Paper(kind, out, g + j)
      BY <1>3, <1>5, <1>13, <2>12 DEF Agrees
    <3>3. c \notin Turns => hi = q - g
      BY <1>8, <2>1, <2>5, <2>6, <3>1
    <3>4. ASSUME NEW j \in Nat PROVE Cell(s, hi, Ink(c), j) = Paper(kind, out1, g + j)
      <4>1. s.at = p - g /\ (c \in Turns => hi = s.at)
        BY <1>7, <1>8, <3>1, Zenon
      <4> QED
        BY <1>3, <1>4, <1>13, <3>2, <3>3, <4>1, CellMarked
    <3>5. Drawn(s, s1, to, hi, Ink(c)) /\ s.at < COL * ROW
      BY <1>2, <1>7, <1>10, <2>3, <3>1
    <3>6. i \in Nat
      BY <1>2
    <3>7. CASE to < w
      <4>1. s1.cell[i] = Cell(s, hi, Ink(c), i)
        BY <1>2, <3>5, <3>7 DEF Drawn
      <4>2. g1 = g
        BY <1>2, <2>1, <2>5, <2>6, <3>1, <3>7
      <4> QED
        BY <3>4, <3>6, <4>1, <4>2
    <3>8. CASE w <= to
      <4>1. s1.cell[i] = Cell(s, hi, Ink(c), i + l)
        BY <1>2, <3>5, <3>8 DEF Drawn
      <4>2. g1 = g + l
        BY <1>2, <2>1, <2>5, <2>6, <3>1, <3>8
      <4>3. i + l \in Nat /\ g1 + i = g + (i + l)
        BY <1>2, <2>1, <3>6, <4>2
      <4> QED
        BY <3>4, <4>1, <4>3
    <3> QED
      BY <1>2, <1>7, <3>7, <3>8
  <2> QED
    BY <1>2, <1>4, <1>5, <2>7, <2>10, <2>11, <2>12 DEF Agrees
<1> QED
  BY <1>12, <1>13

\* Before the first character they agree as well.
LEMMA StartAgrees ==
  ASSUME NEW out \in Outputs, out.chars = <<>>, NEW kind, NEW s \in Screens, s.at = Start(out),
         \A i \in Cells : s.cell[i] = Ground(kind, out, i)
  PROVE  Agrees(s, kind, out)
<1>1. PICK l, w, t, m : Sizes(l, w, t, m)
  BY ScreenSizes
<1>2. l = COL /\ w = COL * ROW /\ l \in Nat \ {0} /\ w \in Nat /\ l <= w /\ Cells = 0..(w - 1)
  BY <1>1, Zenon DEF Sizes
<1>3. Len(out.chars) = 0
  OBVIOUS
<1>4. PICK h : h = HeadAt(out)
  OBVIOUS
<1>5. PICK a \in Int : a = Start(out) /\ h[0] = a /\ 0 <= a /\ a <= w
  BY <1>2, <1>4, HeadPath DEF Path
<1>6. PICK b : b = Lines(out, 0)
  OBVIOUS
<1>7. Gone(h, 0, b)
  BY <1>3, <1>4, <1>6, LinesGone
<1>8. 0 \in 0..0 /\ \A k \in 0..0 : k = 0
  OBVIOUS
<1>9. CASE a < w
  <2>1. Gone(h, 0, 0)
    <3>1. COL * 0 = 0
      BY <1>2
    <3>2. \A k \in 0..0 : h[k] < COL * ROW + COL * 0
      BY <1>2, <1>5, <1>8, <1>9, <3>1
    <3> QED
      BY <3>2 DEF Gone
  <2>2. b = 0
    BY <1>5, <1>7, <1>8, <2>1, GoneUnique
  <2>3. COL * b = 0
    BY <1>2, <2>2
  <2>4. s.at = a /\ s.at = h[0] - COL * b /\ s.at < COL * ROW
    BY <1>2, <1>5, <1>9, <2>3
  <2>5. ASSUME NEW i \in Cells PROVE s.cell[i] = Paper(kind, out, COL * b + i)
    <3>1. COL * b + i = i
      BY <1>2, <2>3
    <3>2. Paper(kind, out, i) = Ground(kind, out, i)
      BY <1>3, PaperBlank
    <3> QED
      BY <3>1, <3>2
  <2> QED
    BY <1>3, <1>4, <1>6, <2>4, <2>5 DEF Agrees
<1>10. CASE a = w
  <2>1. BeganOutside(out)
    BY <1>2, <1>5, <1>10 DEF BeganOutside
  <2>2. Gone(h, 0, 1)
    <3>1. COL * 1 = l
      BY <1>2
    <3>2. \A k \in 0..0 : h[k] < COL * ROW + COL * 1
      BY <1>2, <1>5, <1>8, <1>10, <3>1
    <3>3. COL * ROW + COL * 1 - COL <= h[0]
      BY <1>2, <1>5, <1>10, <3>1
    <3> QED
      BY <1>8, <3>2, <3>3 DEF Gone
  <2>3. b = 1
    BY <1>5, <1>7, <1>8, <2>2, GoneUnique
  <2>4. COL * b = l
    BY <1>2, <2>3
  <2>5. s.at = COL * ROW /\ s.at = h[0] - COL * b + COL
    BY <1>2, <1>5, <1>10, <2>4
  <2>6. s.at = HeadAt(out)[Len(out.chars)] - COL * Lines(out, Len(out.chars)) + COL
    BY <1>3, <1>4, <1>6, <2>5, Zenon
  <2> QED
    BY <2>1, <2>5, <2>6, Zenon DEF Agrees
<1> QED
  BY <1>2, <1>5, <1>9, <1>10

\* The position is above the screen only if the head has left it there.
LEMMA AgreesAbove ==
  ASSUME NEW out \in Outputs, NEW kind, NEW s, Agrees(s, kind, out), s.at < 0
  PROVE  LeftTop(out)
<1>1. SUFFICES ASSUME ~ LeftTop(out) PROVE FALSE
  OBVIOUS
<1>2. PICK n, p, g : n = Len(out.chars) /\ p = HeadAt(out)[n] /\ g = COL * Lines(out, n)
  OBVIOUS
<1>3. p \in Int /\ g \in Int /\ g <= p
  BY <1>1, <1>2, HeadInside
<1>4. s.at = p - g \/ s.at = p - g + COL
  BY <1>1, <1>2 DEF Agrees
<1>5. COL \in Nat
  BY ScreenAssumption
<1> QED
  BY <1>3, <1>4, <1>5


-----------------------------------------------------------------------------
(***************************************************************************)
(* The console.                                                            *)
(***************************************************************************)

\* Before the first character nothing has been touched; after it the screen and the paper
\* agree, and the cursor is at the position.
ConsoleInv ==
  /\ output \in Outputs
  /\ crtat \in Int
  /\ screen \in [Cells -> Values]
  /\ output.chars = <<>> =>
       /\ crtat = Null /\ cursorat = output.start
       /\ \A i \in Cells : screen[i] = Text
  /\ output.chars # <<>> =>
       /\ cursorat = cursor(crtat)
       /\ Agrees([at |-> crtat, cell |-> screen], Crtat, output)

LEMMA NullPosition == Null \in Int /\ Null < 0 /\ cursor(Null) \in Nat /\ cursor(Null) > 8192
<1>1. CASE Crtat = "CGA"
  <2>1. PICK n \in Int, d \in Nat \ {0}, q \in Int : n = -376832 /\ d = 65536 /\ q = -6
    BY SMT
  <2>2. Null = n /\ cursor(n) = n % d
    BY <1>1, <2>1, SMT DEF Null, cursor
  <2>3. PICK r \in 0..(d - 1) : r = 16384
    BY <2>1, SMT
  <2>4. n = d * q + r
    BY <2>1, <2>3, SMT
  <2>5. n % d = r
    BY <2>4, DivisionUnique, SMT
  <2>6. cursor(Null) = r
    BY <2>2, <2>5, SMT
  <2> QED
    BY <2>1, <2>2, <2>3, <2>6, SMT
<1>2. CASE Crtat # "CGA"
  <2>1. PICK n \in Int, d \in Nat \ {0}, q \in Int : n = -360448 /\ d = 65536 /\ q = -6
    BY SMT
  <2>2. Null = n /\ cursor(n) = n % d
    BY <1>2, <2>1, SMT DEF Null, cursor
  <2>3. PICK r \in 0..(d - 1) : r = 32768
    BY <2>1, SMT
  <2>4. n = d * q + r
    BY <2>1, <2>3, SMT
  <2>5. n % d = r
    BY <2>4, DivisionUnique, SMT
  <2>6. cursor(Null) = r
    BY <2>2, <2>5, SMT
  <2> QED
    BY <2>1, <2>2, <2>3, <2>6, SMT
<1> QED
  BY <1>1, <1>2, SMT

\* What kbmputc() starts from: the screen as it is, or what the probe of the display makes of
\* it.  A position that has become the null pointer is far above the screen.
Ready == IF crtat = Null THEN Probed ELSE [at |-> crtat, cell |-> screen]

LEMMA ReadyAgrees == ConsoleInv => Agrees(Ready, Crtat, output)
<1> SUFFICES ASSUME ConsoleInv PROVE Agrees(Ready, Crtat, output)
  OBVIOUS
<1>1. PICK l, w, t, m : Sizes(l, w, t, m)
  BY ScreenSizes
<1>2. l = COL /\ w = COL * ROW /\ l \in Nat \ {0} /\ w \in Nat /\ l <= w /\ Cells = 0..(w - 1)
  BY <1>1, Zenon DEF Sizes
<1>2a. w <= 8192
  BY <1>2, ScreenAssumption, SMT
<1>3. output \in Outputs /\ screen \in [Cells -> Values]
  BY DEF ConsoleInv
<1>4. PICK at, cell : /\ at = IF cursorat <= w THEN cursorat ELSE 0
                      /\ cell = [i \in Cells |-> IF i >= at THEN Blank
                                                 ELSE IF i = 0 /\ Crtat = "MONO" THEN "junk"
                                                 ELSE screen[i]]
  OBVIOUS
<1>5. PICK s : s = [at |-> at, cell |-> cell]
  OBVIOUS
<1>6. Probed = s
  BY <1>2, <1>4, <1>5 DEF Probed
<1>7. s.at = at /\ s.cell = cell
  BY <1>5
<1>8. cell \in [Cells -> Values]
  <2>1. ASSUME NEW i \in Cells PROVE cell[i] \in Values
    BY <1>3, <1>4 DEF Values
  <2> QED
    BY <1>4, <2>1
<1>9. CASE output.chars = <<>>
  <2>1. crtat = Null /\ cursorat = output.start /\ \A i \in Cells : screen[i] = Text
    BY <1>9 DEF ConsoleInv
  <2>2. at = Start(output) /\ at \in Int
    BY <1>2, <1>3, <1>4, <2>1, HeadPath DEF Start
  <2>3. s \in Screens
    BY <1>5, <1>8, <2>2 DEF Screens
  <2>4. ASSUME NEW i \in Cells PROVE cell[i] = Ground(Crtat, output, i)
    <3>1. i \in Int
      BY <1>2
    <3>2. Ground(Crtat, output, i) =
            IF i >= at THEN Blank ELSE IF i = 0 /\ Crtat = "MONO" THEN "junk" ELSE Text
      BY <2>2, Zenon DEF Ground
    <3> QED
      BY <1>4, <2>1, <3>2
  <2>5. Agrees(s, Crtat, output)
    BY <1>3, <1>7, <1>9, <2>2, <2>3, <2>4, StartAgrees
  <2> QED
    BY <1>6, <2>1, <2>5 DEF Ready
<1>10. CASE output.chars # <<>>
  <2>1. cursorat = cursor(crtat) /\ Agrees([at |-> crtat, cell |-> screen], Crtat, output)
    BY <1>10 DEF ConsoleInv
  <2>2. CASE crtat # Null
    BY <2>1, <2>2 DEF Ready
  <2>3. CASE crtat = Null
    <3>1. PICK s0 : s0 = [at |-> crtat, cell |-> screen]
      OBVIOUS
    <3>2. s0.at = crtat
      BY <3>1
    <3>3. LeftTop(output)
      BY <1>3, <2>1, <2>3, <3>1, <3>2, NullPosition, AgreesAbove
    <3>4. cursorat \in Nat /\ cursorat > 8192
      BY <2>1, <2>3, NullPosition
    <3>5. at = 0
      BY <1>2a, <1>2, <1>4, <3>4, SMT
    <3>6. s \in Screens
      BY <1>5, <1>8, <3>5 DEF Screens
    <3>7. s.at < COL * ROW
      BY <1>2, <1>7, <3>5
    <3>8. Agrees(s, Crtat, output)
      BY <3>3, <3>6, <3>7 DEF Agrees
    <3> QED
      BY <1>6, <2>3, <3>8 DEF Ready
  <2> QED
    BY <2>2, <2>3
<1> QED
  BY <1>9, <1>10

LEMMA ConsoleInit == Init => ConsoleInv
<1> SUFFICES ASSUME Init PROVE ConsoleInv
  OBVIOUS
<1>1. cursorat \in Nat
  BY ScreenAssumption DEF Init
<1>2. output = [start |-> cursorat, chars |-> <<>>]
  BY DEF Init
<1>3. output \in Outputs /\ output.chars = <<>> /\ output.start = cursorat
  BY <1>1, <1>2 DEF Outputs
<1>4. crtat = Null /\ crtat \in Int
  BY NullPosition DEF Init
<1>5. screen \in [Cells -> Values] /\ \A i \in Cells : screen[i] = Text
  BY DEF Init, Values
<1> QED
  BY <1>3, <1>4, <1>5 DEF ConsoleInv

LEMMA ConsoleStep == ConsoleInv /\ [Next]_vars => ConsoleInv'
<1> SUFFICES ASSUME ConsoleInv, [Next]_vars PROVE ConsoleInv'
  OBVIOUS
<1>1. CASE UNCHANGED vars
  <2>1. UNCHANGED <<Crtat, crtat, screen, cursorat, output>>
    BY <1>1 DEF vars
  <2> QED
    BY <2>1 DEF ConsoleInv, Null
<1>2. ASSUME NEW c \in Output, kbmputc(c), c # "NUL" PROVE ConsoleInv'
  <2>1. PICK s : s = Put(Ready, c)
    OBVIOUS
  <2>2. /\ crtat' = s.at /\ screen' = s.cell /\ cursorat' = cursor(s.at) /\ Crtat' = Crtat
        /\ output' = [output EXCEPT !.chars = Append(@, c)]
    BY <1>2, <2>1 DEF kbmputc, Ready
  <2>3. output \in Outputs /\ Longer(output, c, output')
    BY <2>2 DEF ConsoleInv, Longer
  <2>4. Agrees(s, Crtat, output')
    BY <2>1, <2>3, ReadyAgrees, PutAgrees
  <2>5. s \in Screens
    BY <2>4 DEF Agrees
  <2>6. s = [at |-> crtat', cell |-> screen'] /\ crtat' \in Int /\ screen' \in [Cells -> Values]
    BY <2>2, <2>5 DEF Screens
  <2>7. output' \in Outputs /\ output'.chars # <<>>
    BY <2>3, LongerOutput
  <2>8. cursorat' = cursor(crtat') /\ Agrees([at |-> crtat', cell |-> screen'], Crtat', output')
    BY <2>2, <2>4, <2>6
  <2> QED
    BY <2>6, <2>7, <2>8 DEF ConsoleInv
<1>3. ASSUME NEW c \in Output, kbmputc(c), c = "NUL" PROVE UNCHANGED vars
  BY <1>3 DEF kbmputc
<1>4. CASE Done
  BY <1>1, <1>4 DEF Done
<1> QED
  BY <1>1, <1>2, <1>3, <1>4 DEF Next

LEMMA ConsoleInvariant == Spec => []ConsoleInv
BY ConsoleInit, ConsoleStep, PTL DEF Spec

\* The cursor registers hold a position on the screen as it is.
LEMMA CursorIs ==
  ASSUME NEW x \in Int, 0 <= x, x < 8192
  PROVE  cursor(x) = x
BY SMT DEF cursor

\* The screen shows the last lines of the paper with the cursor at its place, for every
\* output that does not lead over the top of the screen and begins on it: the property
\* ShowsPaper of kbmputc().
THEOREM ScreenShowsPaper == Spec => []ShowsPaper
<1>1. ConsoleInv => ShowsPaper
  <2> SUFFICES ASSUME ConsoleInv, output.chars # <<>>, ~ BeganOutside(output), ~ LeftTop(output),
                      NEW n, n = Len(output.chars), NEW p, p = HeadAt(output)[n],
                      NEW g, g = COL * Lines(output, n)
               PROVE  /\ \A i \in Cells : screen[i] = Paper(Crtat, output, g + i)
                      /\ crtat = p - g
                      /\ cursorat = crtat
    BY Zenon DEF ShowsPaper
  <2>1. PICK s : s = [at |-> crtat, cell |-> screen]
    OBVIOUS
  <2>2. s.at = crtat /\ s.cell = screen
    BY <2>1
  <2>3. Agrees(s, Crtat, output) /\ output \in Outputs /\ cursorat = cursor(crtat) /\ crtat \in Int
    BY <2>1 DEF ConsoleInv
  <2>4. s.at = p - g /\ \A i \in Cells : s.cell[i] = Paper(Crtat, output, g + i)
    BY <2>3 DEF Agrees
  <2>5. PICK l, w, t, m : Sizes(l, w, t, m)
    BY ScreenSizes
  <2>6. w = COL * ROW /\ w \in Nat
    BY <2>5, Zenon DEF Sizes
  <2>7. crtat < w
    BY <2>2, <2>3, <2>6 DEF Agrees
  <2>8. 0 <= crtat
    BY <2>2, <2>3, AgreesAbove
  <2>9. crtat < 8192
    <3>1. w <= 8192
      BY <2>6, ScreenAssumption, SMT
    <3>2. w \in Int
      BY <2>6
    <3> QED
      BY <2>3, <2>7, <3>1, <3>2, SMT
  <2>10. cursorat = crtat
    BY <2>3, <2>8, <2>9, CursorIs
  <2> QED
    BY <2>2, <2>4, <2>10
<1> QED
  BY <1>1, ConsoleInvariant, PTL

\* The position leaves the screen only over its top, after backspaces that led the head
\* there, or when the cursor was behind the last cell at the start: the property
\* StaysOnScreen of kbmputc().
THEOREM PositionStaysOnScreen == Spec => []StaysOnScreen
<1>1. ConsoleInv => StaysOnScreen
  <2> SUFFICES ASSUME ConsoleInv, output.chars # <<>>
               PROVE  \/ crtat \in Cells
                      \/ crtat < 0 /\ LeftTop(output)
                      \/ crtat = COL * ROW /\ BeganOutside(output)
    BY Zenon DEF StaysOnScreen
  <2>1. PICK s : s = [at |-> crtat, cell |-> screen]
    OBVIOUS
  <2>2. s.at = crtat
    BY <2>1
  <2>3. Agrees(s, Crtat, output) /\ output \in Outputs /\ crtat \in Int
    BY <2>1 DEF ConsoleInv
  <2>4. PICK l, w, t, m : Sizes(l, w, t, m)
    BY ScreenSizes
  <2>5. w = COL * ROW /\ w \in Nat /\ Cells = 0..(w - 1)
    BY <2>4, Zenon DEF Sizes
  <2>6. crtat < w \/ (crtat = w /\ BeganOutside(output))
    BY <2>2, <2>3, <2>5 DEF Agrees
  <2>7. crtat < 0 => LeftTop(output)
    BY <2>2, <2>3, AgreesAbove
  <2> QED
    BY <2>3, <2>5, <2>6, <2>7
<1> QED
  BY <1>1, ConsoleInvariant, PTL
=============================================================================
