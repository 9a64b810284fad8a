--------------------------- MODULE StScreenProofs ---------------------------
(***************************************************************************)
(* Proof that the ring buffers of StScreen implement the terminal of       *)
(* StLines, which moves lists of lines, for every size of the window and   *)
(* of the history, every number of characters and every mixture of what    *)
(* programs and users do.                                                  *)
(*                                                                         *)
(* The proof goes in four stages: what the loops of tscrollup and          *)
(* tscrolldown do to the slots of a ring; what each function of st.c makes *)
(* of the lines that the slots stand for; what the operations of StLines   *)
(* make of lists; and that each action of StScreen is a step of StLines.   *)
(*                                                                         *)
(* A fifth part proves that the selection moves with its lines and that    *)
(* every row which changes is marked to be drawn again: what each function *)
(* does to the selection and the marks (Attends), and that each action     *)
(* does no more (Kept).                                                    *)
(***************************************************************************)
EXTENDS StScreen, AlgorithmProofs

(* A line's slot in a ring of m slots whose first line is in slot c. *)
Slot(c, m, y) == (y + c + m) % m

-----------------------------------------------------------------------------
(* Slots of a ring.                                                        *)

(* Facts about % that the prover needs one by one.                         *)
LEMMA ModSmall ==
    ASSUME NEW m \in Nat \ {0}, NEW x \in 0..(m - 1)
    PROVE  x % m = x
OBVIOUS

(* The remainder is the one number below m that is a multiple of m away.   *)
LEMMA ModUnique ==
    ASSUME NEW m \in Nat \ {0}, NEW q \in Nat, NEW r \in 0..(m - 1), NEW a \in Nat, a = m * q + r
    PROVE  a % m = r
<1>1. m \in Int /\ m > 0 /\ q \in Int /\ a \in Int
  OBVIOUS
<1> QED
  BY <1>1, SMTT(30)

(* One turn of the ring changes no remainder.                              *)
LEMMA ModMinus ==
    ASSUME NEW m \in Nat \ {0}, NEW x \in Nat
    PROVE  (x + m) % m = x % m
<1> DEFINE q == x \div m
           r == x % m
<1>1. q \in Nat /\ r \in 0..(m - 1) /\ x = m * q + r
  BY DivMod, ModBound
<1> HIDE DEF q, r
<1>2. m * (q + 1) = m * q + m
  BY <1>1
<1>3. x + m = m * (q + 1) + r
  BY <1>1, <1>2
<1>4. (x + m) % m = r
  BY <1>1, <1>3, ModUnique
<1> QED
  BY <1>4 DEF r

(* A line's slot is one of the ring's.                                     *)
LEMMA SlotInRing ==
    ASSUME NEW m \in Nat \ {0}, NEW c \in 0..(m - 1), NEW y \in Int, y >= -m
    PROVE  Slot(c, m, y) \in 0..(m - 1)
<1>1. y + c + m \in Nat
  OBVIOUS
<1> QED
  BY <1>1, ModBound DEF Slot

(* Lines less than a ring apart have different slots. *)
LEMMA SlotsDiffer ==
    ASSUME NEW m \in Nat \ {0}, NEW c \in 0..(m - 1),
           NEW y \in Int, NEW z \in Int, y >= -m, y < z, z < y + m
    PROVE  Slot(c, m, y) # Slot(c, m, z)
<1> DEFINE a == y + c + m
           d == z + c + m
           p == a \div m
           q == d \div m
           r == a % m
<1>1. a \in Nat /\ d \in Nat /\ a < d /\ d < a + m
  OBVIOUS
<1>2. p \in Nat /\ q \in Nat /\ a = m * p + (a % m) /\ d = m * q + (d % m) /\ a % m \in 0..(m-1) /\ d % m \in 0..(m-1)
  BY <1>1, DivMod, ModBound
<1>3. ASSUME a % m = d % m PROVE FALSE
  <2>1. d - a = m * q - m * p
    BY <1>1, <1>2, <1>3
  <2> HIDE DEF a, d, p, q
  <2>2. m * q - m * p = m * (q - p)
    BY <1>2
  <2>3. m * (q - p) > 0 /\ m * (q - p) < m /\ q - p \in Int
    BY <2>1, <2>2, <1>1, <1>2
  <2> DEFINE k == q - p
  <2>4. k <= 0 => m * k <= 0
    BY <2>3
  <2>5. k >= 1 => m * k >= m
    BY <2>3
  <2> QED
    BY <2>3, <2>4, <2>5
<1> QED
  BY <1>3 DEF Slot

(* Where the lines are after the first one has moved by n. *)
LEMMA SlotsMoved ==
    ASSUME NEW m \in Nat \ {0}, NEW x \in Nat, NEW y \in Int, y >= -m
    PROVE  Slot(x % m, m, y) = (y + x + m) % m
<1> DEFINE q == x \div m
           r == x % m
<1>1. q \in Nat /\ r \in 0..(m - 1) /\ x = m * q + r
  BY DivMod, ModBound
<1> HIDE DEF q, r
<1> DEFINE a == y + r + m
           p == a \div m
           w == a % m
<1>2. a \in Nat
  BY <1>1
<1>3. p \in Nat /\ w \in 0..(m - 1) /\ a = m * p + w
  BY <1>2, DivMod, ModBound
<1> HIDE DEF a, p, w
<1>4. m * (p + q) = m * p + m * q
  BY <1>1, <1>3
<1>5. m * p \in Int /\ m * q \in Int
  BY <1>1, <1>3
<1>6. y + x + m = m * (p + q) + w
  BY <1>1, <1>3, <1>4, <1>5 DEF a
<1>7. y + x + m \in Nat /\ p + q \in Nat
  BY <1>1, <1>3
<1>8. (y + x + m) % m = w
  <2> DEFINE k == p + q
             z == y + x + m
  <2>1. k \in Nat /\ z \in Nat /\ z = m * k + w
    BY <1>6, <1>7
  <2> HIDE DEF k, z
  <2>2. z % m = w
    BY <1>3, <2>1, ModUnique
  <2> QED
    BY <2>2 DEF z
<1> QED
  BY <1>8 DEF Slot, a, w, r

-----------------------------------------------------------------------------
(* The loop of tscrollup and tscrolldown over a path q of slots: its j-th   *)
(* step exchanges what q[j - 1] and q[j - 1 + n] hold.                      *)
Exchange(f, x, y) == [f EXCEPT ![x] = f[y], ![y] = f[x]]

(* What a ring of m slots may hold. *)
Rings(m) == [0..(m - 1) -> Text \cup {NULL, Junk}]

(* Slots of such a ring that are all different. *)
Path(q, last, m) == /\ q \in [0..last -> 0..(m - 1)]
                    /\ \A i, k \in 0..last : i # k => q[i] # q[k]

(* No two of n places have the same value.                                 *)
Injective(f, n) == \A i, j \in 1..n : i # j => f[i] # f[j]

(* R is the sequence of buffers that the loop goes through, from B on.     *)
Exchanging(R, B, L, n, q) ==
    \A j \in 0..L : R[j] = IF j = 0 THEN B ELSE Exchange(R[j - 1], q[j - 1], q[j - 1 + n])

(* After j steps the first j slots have what was n further on, the next n   *)
(* hold what the first n held, in some order, and the rest is untouched.    *)
Window(f, B, m, j, last, n, q) ==
    /\ \A i \in 0..(j - 1) : f[q[i]] = B[q[i + n]]
    /\ \A i \in (j + n)..last : f[q[i]] = B[q[i]]
    /\ \A d \in 0..(m - 1) : (\A i \in 0..last : q[i] # d) => f[d] = B[d]
    /\ \E g \in [1..n -> 1..n] : Injective(g, n) /\ \A k \in 1..n : f[q[j + k - 1]] = B[q[g[k] - 1]]

(* One exchange moves the window one step along the path.                  *)
LEMMA ExchangeKeepsWindow ==
    ASSUME NEW m \in Nat \ {0}, NEW B \in Rings(m), NEW f \in Rings(m),
           NEW n \in Nat \ {0}, NEW L \in Nat, NEW last \in Nat, last = L + n - 1,
           NEW q, Path(q, last, m),
           NEW j \in 1..L, Window(f, B, m, j - 1, last, n, q)
    PROVE  Window(Exchange(f, q[j - 1], q[j - 1 + n]), B, m, j, last, n, q)
<1> DEFINE x == q[j - 1]
           y == q[j - 1 + n]
           e == Exchange(f, x, y)
<1>1. j - 1 \in 0..last /\ j - 1 + n \in 0..last /\ j - 1 # j - 1 + n
  OBVIOUS
<1>0. /\ q \in [0..last -> 0..(m - 1)] /\ \A i, k \in 0..last : i # k => q[i] # q[k]
      /\ B \in [0..(m - 1) -> Text \cup {NULL, Junk}] /\ f \in [0..(m - 1) -> Text \cup {NULL, Junk}]
  BY DEF Path, Rings
<1>2. x \in 0..(m - 1) /\ y \in 0..(m - 1) /\ x # y
  BY <1>0, <1>1
<1>3. e[x] = f[y] /\ e[y] = f[x] /\ \A d \in 0..(m - 1) : d # x /\ d # y => e[d] = f[d]
  BY <1>0, <1>2 DEF Exchange
<1>4. \A i \in 0..last : i # j - 1 /\ i # j - 1 + n => e[q[i]] = f[q[i]]
  BY <1>0, <1>1, <1>3
<1> HIDE DEF e
<1>5. ASSUME NEW i \in 0..(j - 1) PROVE e[q[i]] = B[q[i + n]]
  <2>1. CASE i = j - 1
    <3>1. e[q[i]] = f[q[j - 1 + n]]
      BY <1>3, <2>1
    <3>2. j - 1 + n \in ((j - 1) + n)..last
      BY <1>1
    <3>3. f[q[j - 1 + n]] = B[q[j - 1 + n]]
      BY <3>2 DEF Window
    <3> QED
      BY <2>1, <3>1, <3>3
  <2>2. CASE i # j - 1
    <3>1. i \in 0..((j - 1) - 1) /\ i \in 0..last /\ i # j - 1 + n
      BY <2>2
    <3> QED
      BY <1>4, <2>2, <3>1 DEF Window
  <2> QED
    BY <2>1, <2>2
<1>6. ASSUME NEW i \in (j + n)..last PROVE e[q[i]] = B[q[i]]
  <2>1. i \in ((j - 1) + n)..last /\ i \in 0..last /\ i # j - 1 /\ i # j - 1 + n
    OBVIOUS
  <2> QED
    BY <1>4, <2>1 DEF Window
<1>7. ASSUME NEW d \in 0..(m - 1), \A i \in 0..last : q[i] # d PROVE e[d] = B[d]
  <2>1. d # x /\ d # y
    BY <1>1, <1>7
  <2>2. f[d] = B[d]
    BY <1>7 DEF Window
  <2> QED
    BY <1>3, <2>1, <2>2
<1>8. \E h \in [1..n -> 1..n] : Injective(h, n) /\ \A k \in 1..n : e[q[j + k - 1]] = B[q[h[k] - 1]]
  <2>1. PICK g \in [1..n -> 1..n] :
            Injective(g, n) /\ \A k \in 1..n : f[q[(j - 1) + k - 1]] = B[q[g[k] - 1]]
    BY DEF Window
  <2> DEFINE h == [k \in 1..n |-> IF k = n THEN g[1] ELSE g[k + 1]]
  <2>2. h \in [1..n -> 1..n]
    OBVIOUS
  <2>3. ASSUME NEW i \in 1..n, NEW k \in 1..n, i # k PROVE h[i] # h[k]
    <3>1. CASE i # n /\ k # n
      <4>1. i + 1 \in 1..n /\ k + 1 \in 1..n /\ i + 1 # k + 1 /\ h[i] = g[i + 1] /\ h[k] = g[k + 1]
        BY <2>3, <3>1
      <4> QED
        BY <2>1, <4>1 DEF Injective
    <3>2. CASE i = n
      <4>1. 1 \in 1..n /\ k + 1 \in 1..n /\ k + 1 # 1 /\ h[i] = g[1] /\ h[k] = g[k + 1]
        BY <2>3, <3>2
      <4> QED
        BY <2>1, <4>1 DEF Injective
    <3>3. CASE k = n
      <4>1. 1 \in 1..n /\ i + 1 \in 1..n /\ i + 1 # 1 /\ h[k] = g[1] /\ h[i] = g[i + 1]
        BY <2>3, <3>3
      <4> QED
        BY <2>1, <4>1 DEF Injective
    <3> QED
      BY <3>1, <3>2, <3>3
  <2>4. ASSUME NEW k \in 1..n PROVE e[q[j + k - 1]] = B[q[h[k] - 1]]
    <3>1. CASE k = n
      <4>1. j + k - 1 = j - 1 + n /\ 1 \in 1..n /\ (j - 1) + 1 - 1 = j - 1 /\ h[k] = g[1]
        BY <3>1
      <4>2. e[q[j + k - 1]] = f[q[j - 1]]
        BY <1>3, <4>1
      <4>3. f[q[(j - 1) + 1 - 1]] = B[q[g[1] - 1]]
        BY <2>1, <4>1
      <4> QED
        BY <4>1, <4>2, <4>3
    <3>2. CASE k # n
      <4>1. /\ k + 1 \in 1..n /\ (j - 1) + (k + 1) - 1 = j + k - 1 /\ h[k] = g[k + 1]
            /\ j + k - 1 \in 0..last /\ j + k - 1 # j - 1 /\ j + k - 1 # j - 1 + n
        BY <3>2
      <4>2. e[q[j + k - 1]] = f[q[j + k - 1]]
        BY <1>4, <4>1
      <4>3. f[q[(j - 1) + (k + 1) - 1]] = B[q[g[k + 1] - 1]]
        BY <2>1, <4>1
      <4> QED
        BY <4>1, <4>2, <4>3
    <3> QED
      BY <3>1, <3>2
  <2>5. Injective(h, n)
    BY <2>3 DEF Injective
  <2> HIDE DEF h
  <2> QED
    BY <2>2, <2>4, <2>5
<1> QED
  BY <1>5, <1>6, <1>7, <1>8 DEF Window, e

(* An exchange leaves a ring a ring.                                       *)
LEMMA ExchangeInRings ==
    ASSUME NEW m \in Nat \ {0}, NEW f \in Rings(m), NEW x \in 0..(m - 1), NEW y \in 0..(m - 1)
    PROVE  Exchange(f, x, y) \in Rings(m)
BY DEF Rings, Exchange

(* The whole loop moves the window from one end of the path to the other.  *)
LEMMA ExchangingMovesWindow ==
    ASSUME NEW m \in Nat \ {0}, NEW B \in Rings(m),
           NEW n \in Nat \ {0}, NEW L \in Nat, NEW last \in Nat, last = L + n - 1,
           NEW q, Path(q, last, m),
           NEW R, Exchanging(R, B, L, n, q)
    PROVE  \A j \in 0..L : R[j] \in Rings(m) /\ Window(R[j], B, m, j, last, n, q)
<1> DEFINE Good(j) == R[j] \in Rings(m) /\ Window(R[j], B, m, j, last, n, q)
           Bad == {j \in 0..L : ~ Good(j)}
<1>1. Bad \in SUBSET Nat
  OBVIOUS
<1>2. Good(0)
  <2>1. R[0] = B
    BY DEF Exchanging
  <2>2. Window(B, B, m, 0, last, n, q)
    <3> DEFINE g == [k \in 1..n |-> k]
    <3>1. g \in [1..n -> 1..n] /\ Injective(g, n) /\ \A k \in 1..n : B[q[0 + k - 1]] = B[q[g[k] - 1]]
      BY DEF Injective
    <3>2. 0..(0 - 1) = {}
      OBVIOUS
    <3> HIDE DEF g
    <3> QED
      BY <3>1, <3>2 DEF Window
  <2> QED
    BY <2>1, <2>2
<1>3. ASSUME NEW j \in 1..L, Good(j - 1) PROVE Good(j)
  <2>1. R[j] = Exchange(R[j - 1], q[j - 1], q[j - 1 + n])
    BY DEF Exchanging
  <2>2. q[j - 1] \in 0..(m - 1) /\ q[j - 1 + n] \in 0..(m - 1)
    <3>1. j - 1 \in 0..last /\ j - 1 + n \in 0..last
      OBVIOUS
    <3> QED
      BY <3>1 DEF Path
  <2>3. R[j] \in Rings(m)
    BY <1>3, <2>1, <2>2, ExchangeInRings
  <2>4. Window(R[j], B, m, j, last, n, q)
    <3>1. R[j - 1] \in Rings(m) /\ Window(R[j - 1], B, m, j - 1, last, n, q)
      BY <1>3
    <3>2. Window(Exchange(R[j - 1], q[j - 1], q[j - 1 + n]), B, m, j, last, n, q)
      BY <3>1, ExchangeKeepsWindow
    <3> QED
      BY <2>1, <3>2
  <2> QED
    BY <2>3, <2>4
<1>4. CASE Bad # {}
  <2>1. PICK j \in Bad : \A i \in Bad : j <= i
    BY <1>1, <1>4, LeastElement
  <2>2. j # 0
    BY <1>2, <2>1
  <2>3. j \in 1..L /\ j - 1 \in 0..L /\ j - 1 \notin Bad
    BY <2>1, <2>2
  <2> HIDE DEF Good
  <2>4. Good(j - 1)
    BY <2>3
  <2> QED
    BY <1>3, <2>1, <2>3, <2>4
<1> HIDE DEF Good
<1>5. CASE Bad = {}
  BY <1>5 DEF Good
<1> QED
  BY <1>4, <1>5
-----------------------------------------------------------------------------
(* It does not matter which of the two slots is named first.               *)
LEMMA ExchangeSymmetric ==
    ASSUME NEW m \in Nat \ {0}, NEW f \in Rings(m), NEW x \in 0..(m - 1), NEW y \in 0..(m - 1)
    PROVE  Exchange(f, x, y) = Exchange(f, y, x)
<1>1. CASE x = y
  BY <1>1
<1>2. CASE x # y
  BY <1>2 DEF Exchange, Rings
<1> QED
  BY <1>1, <1>2

(* The j-th line of the loop changes places, of two slots on a path q that  *)
(* are n apart.                                                             *)
Exchanges(b, order, move, q, L, n) ==
    /\ Len(order) = L
    /\ \A j \in 1..L : \/ /\ TLINEOFFSET(b, order[j]) = q[j - 1]
                          /\ TLINEOFFSET(b, order[j] + move) = q[j - 1 + n]
                       \/ /\ TLINEOFFSET(b, order[j]) = q[j - 1 + n]
                          /\ TLINEOFFSET(b, order[j] + move) = q[j - 1]

(* Exchanged is the last value of such a loop. *)
LEMMA ExchangedLoops ==
    ASSUME NEW m \in Nat \ {0}, NEW b, NEW B \in Rings(m), b.buffer = B,
           NEW n \in Nat \ {0}, NEW L \in Nat, NEW last \in Nat, last = L + n - 1,
           NEW q, Path(q, last, m),
           NEW order, NEW move, Exchanges(b, order, move, q, L, n)
    PROVE  \E R : Exchanging(R, B, L, n, q) /\ Exchanged(b, order, move) = [b EXCEPT !.buffer = R[L]]
<1> DEFINE X(j) == TLINEOFFSET(b, order[j])
           Y(j) == TLINEOFFSET(b, order[j] + move)
           T == Rings(m)
           step == [j \in 1..L |-> [f \in T |-> Exchange(f, X(j), Y(j))]]
           Rec(f) == f = [j \in 0..Len(order) |->
                             IF j = 0 THEN b.buffer
                             ELSE LET x == TLINEOFFSET(b, order[j])
                                      y == TLINEOFFSET(b, order[j] + move)
                                  IN  [f[j - 1] EXCEPT ![x] = f[j - 1][y], ![y] = f[j - 1][x]]]
           after == CHOOSE f : Rec(f)
<1>1. Len(order) = L
  BY DEF Exchanges
<1>2. ASSUME NEW j \in 1..L
      PROVE  \/ X(j) = q[j - 1] /\ Y(j) = q[j - 1 + n]
             \/ X(j) = q[j - 1 + n] /\ Y(j) = q[j - 1]
  BY DEF Exchanges
<1>3. ASSUME NEW j \in 1..L
      PROVE  /\ X(j) \in 0..(m - 1) /\ Y(j) \in 0..(m - 1)
             /\ q[j - 1] \in 0..(m - 1) /\ q[j - 1 + n] \in 0..(m - 1)
  <2>1. j - 1 \in 0..last /\ j - 1 + n \in 0..last
    OBVIOUS
  <2>2. q[j - 1] \in 0..(m - 1) /\ q[j - 1 + n] \in 0..(m - 1)
    BY <2>1 DEF Path
  <2> HIDE DEF X, Y
  <2> QED
    BY <1>2, <2>2
<1>4. step \in [1..L -> [T -> T]]
  <2>1. ASSUME NEW j \in 1..L, NEW f \in T PROVE Exchange(f, X(j), Y(j)) \in T
    <3> HIDE DEF X, Y
    <3> QED
      BY <1>3, ExchangeInRings
  <2> HIDE DEF X, Y, T
  <2> QED
    BY <2>1
<1>5. PICK R \in [0..L -> T] : Loop(R, L, b.buffer, step)
  <2>1. b.buffer \in T
    OBVIOUS
  <2> HIDE DEF T, step
  <2> QED
    BY <1>4, <2>1, LoopExists
<1>6. Rec(R)
  <2>1. ASSUME NEW j \in 1..L PROVE step[j][R[j - 1]] = Exchange(R[j - 1], X(j), Y(j))
    <3>1. R[j - 1] \in T
      BY <1>5
    <3> HIDE DEF T, X, Y
    <3> QED
      BY <3>1
  <2>2. R = [j \in 0..L |-> IF j = 0 THEN b.buffer ELSE step[j][R[j - 1]]]
    BY <1>5 DEF Loop
  <2> HIDE DEF step
  <2>3. R = [j \in 0..L |-> IF j = 0 THEN b.buffer ELSE Exchange(R[j - 1], X(j), Y(j))]
    BY <2>1, <2>2, SMTT(30)
  <2> QED
    BY <1>1, <2>3 DEF Exchange
<1>7. Rec(after)
  <2> HIDE DEF Rec
  <2> QED
    BY <1>6
<1>8. Exchanged(b, order, move) = [b EXCEPT !.buffer = after[L]]
  BY <1>1 DEF Exchanged
<1>9. ASSUME NEW j \in 0..L
      PROVE  after[j] = IF j = 0 THEN B ELSE Exchange(after[j - 1], X(j), Y(j))
  <2> HIDE DEF after
  <2> QED
    BY <1>1, <1>7 DEF Exchange
<1> HIDE DEF after, X, Y, T
<1>10. ASSUME NEW j \in 1..L, after[j - 1] \in Rings(m)
       PROVE  after[j] \in Rings(m) /\ after[j] = Exchange(after[j - 1], q[j - 1], q[j - 1 + n])
  <2>1. after[j] = Exchange(after[j - 1], X(j), Y(j))
    BY <1>9
  <2>2. Exchange(after[j - 1], X(j), Y(j)) = Exchange(after[j - 1], Y(j), X(j))
    BY <1>3, <1>10, ExchangeSymmetric
  <2>3. Exchange(after[j - 1], X(j), Y(j)) \in Rings(m)
    BY <1>3, <1>10, ExchangeInRings
  <2> QED
    BY <1>2, <2>1, <2>2, <2>3
<1>11. \A j \in 0..L : after[j] \in Rings(m)
  <2> DEFINE Bad == {j \in 0..L : after[j] \notin Rings(m)}
  <2>1. CASE Bad # {}
    <3>1. Bad \in SUBSET Nat
      OBVIOUS
    <3>2. PICK j \in Bad : \A i \in Bad : j <= i
      BY <2>1, <3>1, LeastElement
    <3>3. after[0] \in Rings(m)
      BY <1>9
    <3>4. j \in 0..L /\ j # 0
      BY <3>2, <3>3
    <3>5. j \in 1..L /\ j - 1 \in 0..L /\ ~ (j <= j - 1)
      BY <3>4
    <3>6. j - 1 \notin Bad
      BY <3>2, <3>5
    <3>7. after[j - 1] \in Rings(m)
      BY <3>5, <3>6
    <3> QED
      BY <1>10, <3>2, <3>5, <3>7
  <2> QED
    BY <2>1
<1>12. Exchanging(after, B, L, n, q)
  <2> SUFFICES ASSUME NEW j \in 0..L
               PROVE  after[j] = IF j = 0 THEN B ELSE Exchange(after[j - 1], q[j - 1], q[j - 1 + n])
    BY DEF Exchanging
  <2>1. CASE j # 0
    <3>1. j \in 1..L /\ j - 1 \in 0..L
      BY <2>1
    <3> QED
      BY <1>10, <1>11, <2>1, <3>1
  <2>2. CASE j = 0
    BY <1>9, <2>2
  <2> QED
    BY <2>1, <2>2
<1> QED
  BY <1>8, <1>12

(* Exchanged moves the window over all of the path.                        *)
LEMMA ExchangedMovesWindow ==
    ASSUME NEW m \in Nat \ {0}, NEW b, NEW B \in Rings(m), b.buffer = B,
           NEW n \in Nat \ {0}, NEW L \in Nat, NEW last \in Nat, last = L + n - 1,
           NEW q, Path(q, last, m),
           NEW order, NEW move, Exchanges(b, order, move, q, L, n)
    PROVE  \E R \in Rings(m) : /\ Exchanged(b, order, move) = [b EXCEPT !.buffer = R]
                               /\ Window(R, B, m, L, last, n, q)
                               /\ L = 0 => R = B
<1>1. PICK A : Exchanging(A, B, L, n, q) /\ Exchanged(b, order, move) = [b EXCEPT !.buffer = A[L]]
  BY ExchangedLoops
<1>2. L \in 0..L
  OBVIOUS
<1>3. A[L] \in Rings(m) /\ Window(A[L], B, m, L, last, n, q)
  BY <1>1, <1>2, ExchangingMovesWindow
<1>4. L = 0 => A[L] = B
  BY <1>1, <1>2 DEF Exchanging
<1> QED
  BY <1>1, <1>3, <1>4

(* Lines that are all in the ring have slots that are all different. *)
Apart(c, m, lo, hi) ==
    /\ \A y \in lo..hi : Slot(c, m, y) \in 0..(m - 1)
    /\ \A y, z \in lo..hi : y # z => Slot(c, m, y) # Slot(c, m, z)

(* Lines of a range shorter than the ring are apart.                       *)
LEMMA SlotsOfRange ==
    ASSUME NEW m \in Nat \ {0}, NEW c \in 0..(m - 1), NEW lo \in Int, lo >= -m, NEW hi \in Int, hi - lo < m
    PROVE  Apart(c, m, lo, hi)
<1>1. ASSUME NEW y \in lo..hi PROVE Slot(c, m, y) \in 0..(m - 1)
  BY SlotInRing
<1>2. ASSUME NEW y \in lo..hi, NEW z \in lo..hi, y < z PROVE Slot(c, m, y) # Slot(c, m, z)
  BY <1>2, SlotsDiffer
<1>3. \A y, z \in lo..hi : y # z => y < z \/ z < y
  OBVIOUS
<1> QED
  BY <1>1, <1>2, <1>3 DEF Apart

(* R has the lines lo..hi of B moved down by n; the n lines below them have *)
(* come, in some order, to where the first of them were.                    *)
MovedDown(B, R, c, m, lo, hi, n) ==
    /\ \A y \in lo..hi : R[Slot(c, m, y + n)] = B[Slot(c, m, y)]
    /\ \A d \in 0..(m - 1) : (\A y \in lo..(hi + n) : Slot(c, m, y) # d) => R[d] = B[d]
    /\ \E g \in [1..n -> 1..n] :
          Injective(g, n) /\ \A k \in 1..n : R[Slot(c, m, lo + k - 1)] = B[Slot(c, m, hi + g[k])]
    /\ hi = lo - 1 => R = B

(* R has the lines lo..hi of B moved up by n. *)
MovedUp(B, R, c, m, lo, hi, n) ==
    /\ \A y \in lo..hi : R[Slot(c, m, y - n)] = B[Slot(c, m, y)]
    /\ \A d \in 0..(m - 1) : (\A y \in (lo - n)..hi : Slot(c, m, y) # d) => R[d] = B[d]

(* The loop over hi, hi - 1 .. lo moves these lines down. *)
LEMMA DescendingExchanged ==
    ASSUME NEW m \in Nat \ {0}, NEW c \in 0..(m - 1),
           NEW b, NEW B \in Rings(m), b.buffer = B, b.size = m, b.cur = c, b.off = 0,
           NEW lo \in Nat, NEW hi \in Int, hi >= lo - 1, NEW n \in Nat \ {0}, hi + n - lo < m
    PROVE  \E R \in Rings(m) :
              /\ Exchanged(b, Descending(hi, lo), n) = [b EXCEPT !.buffer = R]
              /\ MovedDown(B, R, c, m, lo, hi, n)
<1> DEFINE L == hi - lo + 1
           last == hi + n - lo
           S(y) == Slot(c, m, y)
           q == [i \in 0..last |-> S(hi + n - i)]
           order == Descending(hi, lo)
<1>1. L \in Nat /\ last \in Nat /\ last = L + n - 1
  OBVIOUS
<1>2. /\ \A y \in lo..(hi + n) : S(y) \in 0..(m - 1)
      /\ \A y, z \in lo..(hi + n) : y # z => S(y) # S(z)
  <2>1. lo \in Int /\ lo >= -m /\ hi + n \in Int /\ (hi + n) - lo < m
    OBVIOUS
  <2>2. Apart(c, m, lo, hi + n)
    BY <2>1, SlotsOfRange
  <2> QED
    BY <2>2 DEF Apart
<1>3. \A y \in Int : TLINEOFFSET(b, y) = S(y)
  BY DEF TLINEOFFSET, Slot
<1> HIDE DEF S
<1>4. \A i \in 0..last : hi + n - i \in lo..(hi + n)
  OBVIOUS
<1>5. Path(q, last, m)
  <2>1. \A i, k \in 0..last : i # k => hi + n - i # hi + n - k
    OBVIOUS
  <2> QED
    BY <1>2, <1>4, <2>1 DEF Path
<1>6. Len(order) = L /\ \A k \in 1..L : order[k] = hi - k + 1
  BY <1>1 DEF Descending
<1> HIDE DEF order
<1>7. Exchanges(b, order, n, q, L, n)
  <2>1. ASSUME NEW k \in 1..L
        PROVE TLINEOFFSET(b, order[k]) = q[k - 1 + n] /\ TLINEOFFSET(b, order[k] + n) = q[k - 1]
    <3>1. /\ order[k] = hi - k + 1 /\ k - 1 \in 0..last /\ k - 1 + n \in 0..last
          /\ hi + n - (k - 1 + n) = hi - k + 1 /\ hi + n - (k - 1) = (hi - k + 1) + n
      BY <1>6
    <3>2. q[k - 1 + n] = S(hi - k + 1) /\ q[k - 1] = S((hi - k + 1) + n)
      BY <3>1
    <3>3. hi - k + 1 \in Int /\ (hi - k + 1) + n \in Int
      OBVIOUS
    <3> HIDE DEF q
    <3> QED
      BY <1>3, <3>1, <3>2, <3>3
  <2> HIDE DEF q, L
  <2> QED
    BY <1>6, <2>1 DEF Exchanges
<1> HIDE DEF q, L, last
<1>8. PICK R \in Rings(m) : /\ Exchanged(b, order, n) = [b EXCEPT !.buffer = R]
                            /\ Window(R, B, m, L, last, n, q)
                            /\ L = 0 => R = B
  BY <1>1, <1>5, <1>7, ExchangedMovesWindow
<1>9. ASSUME NEW y \in lo..hi PROVE R[S(y + n)] = B[S(y)]
  <2>1. hi - y \in 0..(L - 1) /\ hi - y \in 0..last /\ hi - y + n \in 0..last
    BY DEF L, last
  <2>2. q[hi - y] = S(y + n) /\ q[hi - y + n] = S(y)
    <3>1. hi + n - (hi - y) = y + n /\ hi + n - (hi - y + n) = y
      OBVIOUS
    <3> QED
      BY <2>1, <3>1 DEF q
  <2>3. R[q[hi - y]] = B[q[hi - y + n]]
    BY <1>8, <2>1 DEF Window
  <2> QED
    BY <2>2, <2>3
<1>10. ASSUME NEW d \in 0..(m - 1), \A y \in lo..(hi + n) : S(y) # d PROVE R[d] = B[d]
  <2>1. \A i \in 0..last : q[i] # d
    BY <1>4, <1>10 DEF q, last
  <2> QED
    BY <1>8, <2>1 DEF Window
<1>11. \E g \in [1..n -> 1..n] :
          Injective(g, n) /\ \A k \in 1..n : R[S(lo + k - 1)] = B[S(hi + g[k])]
  <2>1. PICK g \in [1..n -> 1..n] : Injective(g, n) /\ \A k \in 1..n : R[q[L + k - 1]] = B[q[g[k] - 1]]
    BY <1>8 DEF Window
  <2> DEFINE h == [k \in 1..n |-> n + 1 - g[n + 1 - k]]
  <2>2. \A k \in 1..n : n + 1 - k \in 1..n /\ g[n + 1 - k] \in 1..n
    OBVIOUS
  <2>3. h \in [1..n -> 1..n]
    BY <2>2
  <2>4. Injective(h, n)
    <3>1. ASSUME NEW i \in 1..n, NEW k \in 1..n, i # k PROVE g[n + 1 - i] # g[n + 1 - k]
      <4>1. n + 1 - i # n + 1 - k
        BY <3>1
      <4> QED
        BY <2>1, <2>2, <4>1 DEF Injective
    <3>2. \A i, k \in 1..n : g[n + 1 - i] # g[n + 1 - k] => h[i] # h[k]
      BY <2>2
    <3> HIDE DEF h
    <3> QED
      BY <3>1, <3>2 DEF Injective
  <2>5. ASSUME NEW k \in 1..n PROVE R[S(lo + k - 1)] = B[S(hi + h[k])]
    <3> DEFINE i == n + 1 - k
    <3>1. i \in 1..n /\ g[i] \in 1..n /\ h[k] = n + 1 - g[i]
      BY <2>2
    <3>2. L + i - 1 \in 0..last /\ g[i] - 1 \in 0..last
      <4> DEFINE e == g[i]
      <4>1. i \in 1..n /\ e \in 1..n
        BY <3>1
      <4> HIDE DEF e, i
      <4>2. L + i - 1 \in 0..last /\ e - 1 \in 0..last
        BY <1>1, <4>1
      <4> QED
        BY <4>2 DEF e
    <3>3. hi + n - (L + i - 1) = lo + k - 1 /\ hi + n - (g[i] - 1) = hi + h[k]
      BY <3>1 DEF L
    <3>4. q[L + i - 1] = S(lo + k - 1) /\ q[g[i] - 1] = S(hi + h[k])
      BY <3>2, <3>3 DEF q
    <3> HIDE DEF i, h
    <3> QED
      BY <2>1, <3>1, <3>4
  <2> HIDE DEF h
  <2> QED
    BY <2>3, <2>4, <2>5
<1>12. hi = lo - 1 => R = B
  BY <1>8 DEF L
<1>13. Exchanged(b, Descending(hi, lo), n) = [b EXCEPT !.buffer = R]
  BY <1>8 DEF order
<1> QED
  BY <1>9, <1>10, <1>11, <1>12, <1>13 DEF S, MovedDown

(* The loop over lo, lo + 1 .. hi moves these lines up. *)
LEMMA AscendingExchanged ==
    ASSUME NEW m \in Nat \ {0}, NEW c \in 0..(m - 1),
           NEW b, NEW B \in Rings(m), b.buffer = B, b.size = m, b.cur = c, b.off = 0,
           NEW lo \in Nat, NEW hi \in Int, hi >= lo - 1, NEW n \in Nat \ {0}, hi + n - lo < m, n <= m
    PROVE  \E R \in Rings(m) :
              /\ Exchanged(b, Ascending(lo, hi), -n) = [b EXCEPT !.buffer = R]
              /\ MovedUp(B, R, c, m, lo, hi, n)
<1> DEFINE L == hi - lo + 1
           last == hi + n - lo
           S(y) == Slot(c, m, y)
           q == [i \in 0..last |-> S(lo - n + i)]
           order == Ascending(lo, hi)
<1>1. L \in Nat /\ last \in Nat /\ last = L + n - 1
  OBVIOUS
<1>2. /\ \A y \in (lo - n)..hi : S(y) \in 0..(m - 1)
      /\ \A y, z \in (lo - n)..hi : y # z => S(y) # S(z)
  <2>1. lo - n \in Int /\ lo - n >= -m /\ hi - (lo - n) < m
    OBVIOUS
  <2>2. Apart(c, m, lo - n, hi)
    BY <2>1, SlotsOfRange
  <2> QED
    BY <2>2 DEF Apart
<1>3. \A y \in Int : TLINEOFFSET(b, y) = S(y)
  BY DEF TLINEOFFSET, Slot
<1> HIDE DEF S
<1>4. \A i \in 0..last : lo - n + i \in (lo - n)..hi
  OBVIOUS
<1>5. Path(q, last, m)
  <2>1. \A i, k \in 0..last : i # k => lo - n + i # lo - n + k
    OBVIOUS
  <2> QED
    BY <1>2, <1>4, <2>1 DEF Path
<1>6. Len(order) = L /\ \A k \in 1..L : order[k] = lo + k - 1
  BY <1>1 DEF Ascending
<1> HIDE DEF order
<1>7. Exchanges(b, order, -n, q, L, n)
  <2>1. ASSUME NEW k \in 1..L
        PROVE TLINEOFFSET(b, order[k]) = q[k - 1 + n] /\ TLINEOFFSET(b, order[k] + (-n)) = q[k - 1]
    <3>1. /\ order[k] = lo + k - 1 /\ k - 1 \in 0..last /\ k - 1 + n \in 0..last
          /\ lo - n + (k - 1 + n) = lo + k - 1 /\ lo - n + (k - 1) = (lo + k - 1) + (-n)
      BY <1>6
    <3>2. q[k - 1 + n] = S(lo + k - 1) /\ q[k - 1] = S((lo + k - 1) + (-n))
      BY <3>1
    <3>3. lo + k - 1 \in Int /\ (lo + k - 1) + (-n) \in Int
      OBVIOUS
    <3> HIDE DEF q
    <3> QED
      BY <1>3, <3>1, <3>2, <3>3
  <2> HIDE DEF q, L
  <2> QED
    BY <1>6, <2>1 DEF Exchanges
<1> HIDE DEF q, L, last
<1>8. PICK R \in Rings(m) : /\ Exchanged(b, order, -n) = [b EXCEPT !.buffer = R]
                            /\ Window(R, B, m, L, last, n, q)
  BY <1>1, <1>5, <1>7, ExchangedMovesWindow
<1>9. ASSUME NEW y \in lo..hi PROVE R[S(y - n)] = B[S(y)]
  <2>1. y - lo \in 0..(L - 1) /\ y - lo \in 0..last /\ y - lo + n \in 0..last
    BY DEF L, last
  <2>2. q[y - lo] = S(y - n) /\ q[y - lo + n] = S(y)
    <3>1. lo - n + (y - lo) = y - n /\ lo - n + (y - lo + n) = y
      OBVIOUS
    <3> QED
      BY <2>1, <3>1 DEF q
  <2>3. R[q[y - lo]] = B[q[y - lo + n]]
    BY <1>8, <2>1 DEF Window
  <2> QED
    BY <2>2, <2>3
<1>10. ASSUME NEW d \in 0..(m - 1), \A y \in (lo - n)..hi : S(y) # d PROVE R[d] = B[d]
  <2>1. \A i \in 0..last : q[i] # d
    BY <1>4, <1>10 DEF q, last
  <2> QED
    BY <1>8, <2>1 DEF Window
<1>11. Exchanged(b, Ascending(lo, hi), -n) = [b EXCEPT !.buffer = R]
  BY <1>8 DEF order
<1> QED
  BY <1>9, <1>10, <1>11 DEF S, MovedUp
-----------------------------------------------------------------------------
(* The fields of term and sel. *)
Fields(s) == s = [row |-> s.row, screen |-> s.screen, c |-> s.c, top |-> s.top, bot |-> s.bot,
                  alt |-> s.alt, sel |-> s.sel, hist |-> s.hist, fault |-> s.fault, dirty |-> s.dirty]

(* u differs from s at most in what is selected, what has to be drawn and   *)
(* whether a line was missing.                                              *)
SameLines(s, u) ==
    /\ Fields(u)
    /\ u.row = s.row /\ u.screen = s.screen /\ u.c = s.c /\ u.top = s.top /\ u.bot = s.bot
    /\ u.alt = s.alt /\ u.hist = s.hist

(* A step that changes nothing changes no line.                            *)
LEMMA SameLinesReflexive ==
    ASSUME NEW s, Fields(s)
    PROVE  SameLines(s, s)
BY DEF SameLines

(* Neither do two steps of which none does.                                *)
LEMMA SameLinesTransitive ==
    ASSUME NEW s, NEW u, NEW v, SameLines(s, u), SameLines(u, v)
    PROVE  SameLines(s, v)
BY DEF SameLines

(* Marks for drawing, the selection and the fault are not lines.           *)
LEMMA DirtKeepsLines ==
    ASSUME NEW s, Fields(s), NEW x
    PROVE  SameLines(s, [s EXCEPT !.dirty = x]) /\ SameLines(s, [s EXCEPT !.sel = x])
           /\ SameLines(s, [s EXCEPT !.fault = x])
BY DEF Fields, SameLines

(* Marking rows as dirty, or drawing them, changes no line.                *)
LEMMA tsetdirtKeepsLines ==
    ASSUME NEW s, Fields(s), NEW a, NEW b
    PROVE  SameLines(s, tsetdirt(s, a, b)) /\ SameLines(s, tfulldirt(s)) /\ SameLines(s, drawregion(s))
BY DirtKeepsLines DEF tsetdirt, tfulldirt, drawregion

(* Taking a selection away changes no line.                                *)
LEMMA selclearKeepsLines ==
    ASSUME NEW s, Fields(s)
    PROVE  SameLines(s, selclear(s))
<1> DEFINE u == tsetdirt(s, s.sel.nb, s.sel.ne)
<1>1. SameLines(s, u)
  BY tsetdirtKeepsLines
<1> HIDE DEF u
<1>2. SameLines(u, [u EXCEPT !.sel = NoSel])
  BY <1>1, DirtKeepsLines, ZenonT(60) DEF SameLines
<1>3. SameLines(s, [u EXCEPT !.sel = NoSel])
  BY <1>1, <1>2, SameLinesTransitive
<1> QED
  BY <1>3, SameLinesReflexive DEF selclear, u

(* Moving a selection changes no line.                                     *)
LEMMA selscrollKeepsLines ==
    ASSUME NEW s, Fields(s), NEW orig, NEW n
    PROVE  SameLines(s, selscroll(s, orig, n))
<1> DEFINE moved == [s.sel EXCEPT !.ob = @ + n, !.oe = @ + n]
<1>1. selscroll(s, orig, n) \in {s, selclear(s), [s EXCEPT !.sel = selnormalize(moved)]}
  BY Zenon DEF selscroll
<1> HIDE DEF moved
<1>2. SameLines(s, s) /\ SameLines(s, selclear(s))
  BY SameLinesReflexive, selclearKeepsLines
<1>3. SameLines(s, [s EXCEPT !.sel = selnormalize(moved)])
  <2> DEFINE x == selnormalize(moved)
  <2> HIDE DEF x
  <2>1. SameLines(s, [s EXCEPT !.sel = x])
    BY DirtKeepsLines
  <2> QED
    BY <2>1 DEF x
<1> DEFINE u == [s EXCEPT !.sel = selnormalize(moved)]
<1> HIDE DEF u
<1> QED
  BY <1>1, <1>2, <1>3, Zenon DEF u

-----------------------------------------------------------------------------
(* A ring of m slots. *)
IsRing(b, m) ==
    /\ b = [buffer |-> b.buffer, size |-> b.size, cur |-> b.cur, off |-> b.off, sc |-> b.sc]
    /\ b.size = m /\ b.buffer \in Rings(m) /\ b.cur \in 0..(m - 1) /\ b.sc \in Cursors

(* The sizes, the cursor and the region are sound. *)
IsFrame(s) ==
    /\ ScreenAssumption
    /\ Fields(s)
    /\ s.row \in 1..HISTSIZE
    /\ s.screen = [x \in BOOLEAN |-> s.screen[x]]
    /\ IsRing(s.screen[FALSE], HISTSIZE) /\ IsRing(s.screen[TRUE], s.row)
    /\ s.c \in Cursors /\ s.c.y \in Rows(s)
    /\ s.top \in Rows(s) /\ s.bot \in s.top..(s.row - 1)
    /\ s.alt \in BOOLEAN
    /\ s.hist \in 0..(HISTSIZE - s.row)

(* The rows of both pages hold text. *)
IsScreen(s) == IsFrame(s) /\ \A x \in BOOLEAN : \A y \in Rows(s) : Line(s, x, y) \in Text

(* The view is at the end of the history, as twrite leaves it.             *)
AtEnd(s) == TSCREEN(s).off = 0

(* What is true of the lines is true of a screen with the same lines.      *)
LEMMA SameLinesIsScreen ==
    ASSUME NEW s, NEW u, SameLines(s, u)
    PROVE  /\ IsFrame(s) => IsFrame(u)
           /\ IsScreen(s) => IsScreen(u)
           /\ AtEnd(s) => AtEnd(u)
           /\ Rows(u) = Rows(s) /\ TSCREEN(u) = TSCREEN(s)
           /\ \A x, y : Line(u, x, y) = Line(s, x, y)
<1>1. \A x, y : Line(u, x, y) = Line(s, x, y)
  BY DEF SameLines, Line
<1>2. Rows(u) = Rows(s) /\ TSCREEN(u) = TSCREEN(s)
  BY DEF SameLines, Rows, TSCREEN
<1>3. IsFrame(s) => IsFrame(u)
  BY <1>2 DEF SameLines, IsFrame
<1> QED
  BY <1>1, <1>2, <1>3 DEF IsScreen, AtEnd

(* The shown page's ring. *)
LEMMA ShownRing ==
    ASSUME NEW s, IsFrame(s)
    PROVE  /\ TSCREEN(s).size \in Nat \ {0} /\ s.row \in Nat \ {0} /\ s.row <= TSCREEN(s).size
           /\ IsRing(TSCREEN(s), TSCREEN(s).size)
           /\ TSCREEN(s).size = IF s.alt THEN s.row ELSE HISTSIZE
           /\ \A y : Line(s, s.alt, y) = TSCREEN(s).buffer[Slot(TSCREEN(s).cur, TSCREEN(s).size, y)]
<1>1. /\ HISTSIZE \in Nat \ {0} /\ s.row \in Nat \ {0} /\ s.row <= HISTSIZE /\ s.alt \in BOOLEAN
      /\ IsRing(s.screen[FALSE], HISTSIZE) /\ IsRing(s.screen[TRUE], s.row)
  BY DEF IsFrame, ScreenAssumption
<1>2. \A y : Line(s, s.alt, y) = TSCREEN(s).buffer[Slot(TSCREEN(s).cur, TSCREEN(s).size, y)]
  BY DEF TSCREEN, Line, Slot
<1>3. s.screen[FALSE].size = HISTSIZE /\ s.screen[TRUE].size = s.row
  BY <1>1 DEF IsRing
<1>4. /\ TSCREEN(s).size \in Nat \ {0} /\ s.row <= TSCREEN(s).size
      /\ IsRing(TSCREEN(s), TSCREEN(s).size)
      /\ TSCREEN(s).size = IF s.alt THEN s.row ELSE HISTSIZE
  <2>1. CASE s.alt
    <3>1. TSCREEN(s) = s.screen[TRUE]
      BY <1>1, <2>1 DEF TSCREEN
    <3>2. TSCREEN(s).size = s.row
      BY <1>3, <3>1
    <3>3. IsRing(TSCREEN(s), s.row)
      BY <1>1, <3>1
    <3>4. s.row = IF s.alt THEN s.row ELSE HISTSIZE
      BY <2>1
    <3> QED
      BY <1>1, <3>2, <3>3, <3>4
  <2>2. CASE ~s.alt
    <3>1. TSCREEN(s) = s.screen[FALSE]
      BY <1>1, <2>2 DEF TSCREEN
    <3> QED
      BY <1>1, <1>3, <2>2, <3>1
  <2> QED
    BY <2>1, <2>2
<1> QED
  BY <1>1, <1>2, <1>4

(* u is s with another ring for the page that is shown. *)
NewRing(s, u, b) ==
    /\ Fields(u)
    /\ u.row = s.row /\ u.screen = [s.screen EXCEPT ![s.alt] = b]
    /\ u.c = s.c /\ u.top = s.top /\ u.bot = s.bot /\ u.alt = s.alt

(* A screen with a sound ring exchanged is a sound frame, and its hidden   *)
(* page is what it was.                                                    *)
LEMMA NewRingFacts ==
    ASSUME NEW s, IsFrame(s), NEW u, NEW b, NewRing(s, u, b), IsRing(b, TSCREEN(s).size),
           u.hist \in 0..(HISTSIZE - s.row)
    PROVE  /\ IsFrame(u) /\ Rows(u) = Rows(s) /\ TSCREEN(u) = b
           /\ \A y : Line(u, s.alt, y) = b.buffer[Slot(b.cur, b.size, y)]
           /\ \A y : Line(u, ~s.alt, y) = Line(s, ~s.alt, y)
           /\ IsScreen(s) /\ (\A y \in Rows(s) : Line(u, s.alt, y) \in Text) => IsScreen(u)
<1>1. s.alt \in BOOLEAN /\ ~s.alt # s.alt /\ \A x \in BOOLEAN : x = s.alt \/ x = ~s.alt
  BY DEF IsFrame
<1>2. u.screen[s.alt] = b /\ u.screen[~s.alt] = s.screen[~s.alt]
  BY <1>1 DEF NewRing, IsFrame
<1>3. Rows(u) = Rows(s) /\ TSCREEN(u) = b
  BY <1>2 DEF NewRing, Rows, TSCREEN
<1>4. \A y : Line(u, s.alt, y) = b.buffer[Slot(b.cur, b.size, y)]
  BY <1>2 DEF Line, Slot
<1>5. \A y : Line(u, ~s.alt, y) = Line(s, ~s.alt, y)
  BY <1>2 DEF Line
<1>6. u.screen = [x \in BOOLEAN |-> u.screen[x]]
  BY DEF NewRing, IsFrame
<1>7. IsRing(u.screen[FALSE], HISTSIZE) /\ IsRing(u.screen[TRUE], u.row)
  <2>1. TSCREEN(s).size = IF s.alt THEN s.row ELSE HISTSIZE
    BY ShownRing
  <2>2. CASE s.alt = TRUE
    BY <1>1, <1>2, <2>1, <2>2 DEF IsFrame, NewRing
  <2>3. CASE s.alt = FALSE
    BY <1>1, <1>2, <2>1, <2>3 DEF IsFrame, NewRing
  <2> QED
    BY <1>1, <2>2, <2>3
<1>8. IsFrame(u)
  BY <1>3, <1>6, <1>7 DEF IsFrame, NewRing
<1>9. ASSUME IsScreen(s), \A y \in Rows(s) : Line(u, s.alt, y) \in Text PROVE IsScreen(u)
  <2>1. \A x \in BOOLEAN : \A y \in Rows(u) : Line(u, x, y) \in Text
    BY <1>1, <1>3, <1>5, <1>9 DEF IsScreen
  <2> QED
    BY <1>8, <2>1 DEF IsScreen
<1> QED
  BY <1>3, <1>4, <1>5, <1>8, <1>9

(* u is s with another buffer for the page that is shown. *)
NewBuffer(s, u) == \E F : NewRing(s, u, [TSCREEN(s) EXCEPT !.buffer = F])

(* Erased rows are blank; no other line of the ring changes. *)
LEMMA tclearregionClears ==
    ASSUME NEW s, IsFrame(s), AtEnd(s), NEW y1 \in Rows(s), NEW y2 \in Rows(s), y1 <= y2
    PROVE  /\ NewBuffer(s, tclearregion(s, y1, y2))
           /\ tclearregion(s, y1, y2).hist = s.hist
           /\ IsFrame(tclearregion(s, y1, y2)) /\ AtEnd(tclearregion(s, y1, y2))
           /\ Rows(tclearregion(s, y1, y2)) = Rows(s)
           /\ \A y \in (s.row - TSCREEN(s).size)..(s.row - 1) :
                 Line(tclearregion(s, y1, y2), s.alt, y) = IF y \in y1..y2 THEN Blank ELSE Line(s, s.alt, y)
           /\ \A y : Line(tclearregion(s, y1, y2), ~s.alt, y) = Line(s, ~s.alt, y)
<1> DEFINE w == IF \E y \in y1..y2 : selected(s, y) THEN selclear(s) ELSE s
           d == tsetdirt(w, y1, y2)
           m == TSCREEN(s).size
           c == TSCREEN(s).cur
           B == TSCREEN(s).buffer
           cleared == {TLINEOFFSET(TSCREEN(s), y) : y \in y1..y2}
           fault == d.fault \/ \E k \in cleared : TSCREEN(s).buffer[k] = NULL
           F == [k \in DOMAIN B |-> IF k \in cleared THEN Blank ELSE B[k]]
           u == tclearregion(s, y1, y2)
<1>1. s.row \in Nat \ {0} /\ y1 \in 0..(s.row - 1) /\ y2 \in 0..(s.row - 1)
  BY ShownRing DEF Rows
<1>2. LIMIT(Least(y1, y2), 0, s.row - 1) = y1 /\ LIMIT(Most(y1, y2), 0, s.row - 1) = y2
  BY <1>1 DEF LIMIT, Least, Most
<1>3. u = [d EXCEPT !.fault = fault,
                    !.screen[s.alt].buffer = [k \in DOMAIN @ |-> IF k \in cleared THEN Blank ELSE @[k]]]
  BY <1>2, Zenon DEF tclearregion
<1>4. SameLines(s, d)
  <2>1. SameLines(s, w)
    BY selclearKeepsLines, SameLinesReflexive DEF IsFrame
  <2> HIDE DEF w
  <2>2. SameLines(w, d)
    BY <2>1, tsetdirtKeepsLines, SMTT(30) DEF SameLines
  <2> QED
    BY <2>1, <2>2, SameLinesTransitive
<1> HIDE DEF d, w, fault, u
<1> DEFINE b == [TSCREEN(s) EXCEPT !.buffer = F]
<1>5. NewRing(s, u, b) /\ u.hist = s.hist
  <2>1. s.alt \in BOOLEAN /\ s.alt \in DOMAIN s.screen
    BY DEF IsFrame
  <2>2. d.screen = s.screen
    BY <1>4 DEF SameLines
  <2>3. u.screen = [s.screen EXCEPT ![s.alt] = b]
    BY <1>3, <1>4, <2>1, <2>2 DEF SameLines, Fields, TSCREEN
  <2> HIDE DEF b
  <2> QED
    BY <1>3, <1>4, <2>3 DEF NewRing, SameLines, Fields
<1>6. m \in Nat \ {0} /\ s.row <= m /\ IsRing(TSCREEN(s), m)
  BY ShownRing
<1>7. c \in 0..(m - 1) /\ B \in Rings(m) /\ TSCREEN(s).off = 0
  BY <1>6 DEF IsRing, AtEnd
<1>8. F \in Rings(m)
  <2> HIDE DEF cleared, B
  <2> QED
    BY <1>7 DEF Rings, Text, ScreenAssumption, IsFrame, Blank
<1> HIDE DEF F
<1>9. /\ IsRing(b, m) /\ b.cur = c /\ b.size = m /\ b.buffer = F /\ b.off = 0
  BY <1>6, <1>7, <1>8 DEF IsRing
<1> HIDE DEF b
<1>10. /\ IsFrame(u) /\ Rows(u) = Rows(s) /\ TSCREEN(u) = b
       /\ \A y : Line(u, s.alt, y) = F[Slot(c, m, y)]
       /\ \A y : Line(u, ~s.alt, y) = Line(s, ~s.alt, y)
  <2>1. u.hist \in 0..(HISTSIZE - s.row)
    BY <1>5 DEF IsFrame
  <2> HIDE DEF m, c
  <2> QED
    BY <1>5, <1>9, <2>1, NewRingFacts DEF m
<1>11. AtEnd(u)
  BY <1>9, <1>10 DEF AtEnd
<1>12. ASSUME NEW y \in (s.row - m)..(s.row - 1)
       PROVE  Line(u, s.alt, y) = IF y \in y1..y2 THEN Blank ELSE Line(s, s.alt, y)
  <2> HIDE DEF m, c, B
  <2>1. Apart(c, m, s.row - m, s.row - 1)
    <3>1. s.row - m \in Int /\ s.row - m >= -m /\ s.row - 1 \in Int /\ (s.row - 1) - (s.row - m) < m
      BY <1>1, <1>6
    <3> QED
      BY <1>6, <1>7, <3>1, SlotsOfRange
  <2>2. Slot(c, m, y) \in 0..(m - 1)
    BY <2>1 DEF Apart
  <2>3. Slot(c, m, y) \in cleared <=> y \in y1..y2
    <3>1. \A z \in y1..y2 : TLINEOFFSET(TSCREEN(s), z) = Slot(c, m, z)
      BY <1>1, <1>6, <1>7 DEF TLINEOFFSET, Slot, c, m, IsRing
    <3>2. \A z \in y1..y2 : z \in (s.row - m)..(s.row - 1)
      BY <1>1, <1>6
    <3>3. \A z \in y1..y2 : z # y => Slot(c, m, z) # Slot(c, m, y)
      BY <2>1, <3>2 DEF Apart
    <3> QED
      BY <3>1, <3>3
  <2> HIDE DEF cleared
  <2>4. F[Slot(c, m, y)] = IF Slot(c, m, y) \in cleared THEN Blank ELSE B[Slot(c, m, y)]
    BY <1>7, <2>2 DEF F, Rings
  <2>5. Line(s, s.alt, y) = B[Slot(c, m, y)]
    BY ShownRing DEF B, c, m
  <2> QED
    BY <1>10, <2>3, <2>4, <2>5
<1>13. NewBuffer(s, u)
  BY <1>5 DEF NewBuffer, b
<1> QED
  BY <1>5, <1>10, <1>11, <1>12, <1>13 DEF u, m

-----------------------------------------------------------------------------
(* Allocating lines changes none that exists. *)
LEMMA EnsuredKeeps ==
    ASSUME NEW m \in Nat \ {0}, NEW c \in 0..(m - 1), NEW b, NEW B \in Rings(m),
           b.buffer = B, b.size = m, b.cur = c, b.off = 0,
           NEW ys \in SUBSET Int
    PROVE  \E E \in Rings(m) :
              /\ Ensured(b, ys) = [b EXCEPT !.buffer = E]
              /\ \A k \in 0..(m - 1) : B[k] # NULL \/ (\A y \in ys : Slot(c, m, y) # k) => E[k] = B[k]
<1> DEFINE slots == {TLINEOFFSET(b, y) : y \in ys}
           E == [k \in DOMAIN B |-> IF k \in slots THEN ensureline(B[k]) ELSE B[k]]
<1>1. Ensured(b, ys) = [b EXCEPT !.buffer = E]
  BY DEF Ensured
<1>2. \A y \in ys : TLINEOFFSET(b, y) = Slot(c, m, y)
  BY DEF TLINEOFFSET, Slot
<1>3. \A k : (\A y \in ys : Slot(c, m, y) # k) => k \notin slots
  BY <1>2
<1> HIDE DEF slots
<1>4. E \in Rings(m)
  BY DEF Rings, ensureline
<1>5. \A k \in 0..(m - 1) : B[k] # NULL \/ k \notin slots => E[k] = B[k]
  BY DEF Rings, ensureline
<1> HIDE DEF E
<1> QED
  BY <1>1, <1>3, <1>4, <1>5, ZenonT(60)

(* What the two loops of tscrollup and the move of the first line do to a   *)
(* ring b of m slots of which row are shown: RingUp(B, R) says where the    *)
(* lines of buffer B are in R.                                              *)
RingUp(B, R, c, m, row, orig, bot, n) ==
    LET Old(y) == B[Slot(c, m, y)]
        New(y) == R[Slot((c + n) % m, m, y)]
    IN  /\ \A y \in 0..(orig - 1) : New(y) = Old(y)
        /\ \A y \in orig..(bot - n) : New(y) = Old(y + n)
        /\ \A y \in (bot + 1)..(row - 1) : New(y) = Old(y)
        /\ \E f \in [1..n -> 1..n] :
              /\ Injective(f, n)
              /\ orig = 0 => \A k \in 1..n : f[k] = k
              /\ \A k \in 1..(m - row) :
                    New(-k) = IF k <= n THEN Old(orig + f[n - k + 1] - 1) ELSE Old(n - k)

(* The buffer after tscrollup's allocation, its two loops and the move of  *)
(* the first line.                                                         *)
LEMMA RingScrollsUp ==
    ASSUME NEW m \in Nat \ {0}, NEW c \in 0..(m - 1),
           NEW b, NEW B \in Rings(m), b.buffer = B, b.size = m, b.cur = c, b.off = 0,
           b = [buffer |-> b.buffer, size |-> b.size, cur |-> b.cur, off |-> b.off, sc |-> b.sc],
           NEW row \in 1..m, NEW bot \in 0..(row - 1), NEW orig \in 0..bot, NEW n \in 1..(bot - orig + 1),
           \A y \in 0..(row - 1) : B[Slot(c, m, y)] # NULL
    PROVE  \E R \in Rings(m) :
              /\ Exchanged(Exchanged(Ensured(b, row..(row + n - 1)), Descending(orig - 1, 0), n),
                           Descending(row - 1, bot + 1), n) = [b EXCEPT !.buffer = R]
              /\ RingUp(B, R, c, m, row, orig, bot, n)
<1> DEFINE S(y) == Slot(c, m, y)
           ys == row..(row + n - 1)
<1>1. PICK E \in Rings(m) :
         /\ Ensured(b, ys) = [b EXCEPT !.buffer = E]
         /\ \A k \in 0..(m - 1) : B[k] # NULL \/ (\A y \in ys : S(y) # k) => E[k] = B[k]
  <2>1. ys \in SUBSET Int
    OBVIOUS
  <2> HIDE DEF ys
  <2> QED
    BY <2>1, EnsuredKeeps
<1>2. n \in Nat \ {0} /\ n \in Int /\ orig \in Nat /\ bot \in Nat /\ row \in Nat /\ orig - 1 + n <= bot /\ bot < row /\ row <= m
  OBVIOUS
<1> DEFINE e == [b EXCEPT !.buffer = E]
<1>3. e.buffer = E /\ e.size = m /\ e.cur = c /\ e.off = 0
  OBVIOUS
<1>4. PICK R1 \in Rings(m) : /\ Exchanged(e, Descending(orig - 1, 0), n) = [e EXCEPT !.buffer = R1]
                             /\ MovedDown(E, R1, c, m, 0, orig - 1, n)
  <2>1. 0 \in Nat /\ orig - 1 \in Int /\ orig - 1 >= 0 - 1 /\ (orig - 1) + n - 0 < m
    BY <1>2
  <2> HIDE DEF e
  <2> QED
    BY <1>2, <1>3, <2>1, DescendingExchanged
<1> DEFINE x == [e EXCEPT !.buffer = R1]
<1>5. x.buffer = R1 /\ x.size = m /\ x.cur = c /\ x.off = 0
  OBVIOUS
<1>6. PICK R \in Rings(m) : /\ Exchanged(x, Descending(row - 1, bot + 1), n) = [x EXCEPT !.buffer = R]
                            /\ MovedDown(R1, R, c, m, bot + 1, row - 1, n)
  <2>1. bot + 1 \in Nat /\ row - 1 \in Int /\ row - 1 >= (bot + 1) - 1 /\ (row - 1) + n - (bot + 1) < m
    BY <1>2
  <2> HIDE DEF x
  <2> QED
    BY <1>2, <1>5, <2>1, DescendingExchanged
<1>7. [x EXCEPT !.buffer = R] = [b EXCEPT !.buffer = R]
  OBVIOUS
<1>8. /\ \A y, z \in Int : y >= -m /\ y < z /\ z < y + m => S(y) # S(z)
      /\ \A y \in Int : y >= -m => S(y) \in 0..(m - 1)
  BY SlotsDiffer, SlotInRing
<1> DEFINE New(y) == R[Slot((c + n) % m, m, y)]
<1>9. \A y \in Int : y >= -m => New(y) = R[S(y + n)]
  <2> SUFFICES ASSUME NEW y \in Int, y >= -m PROVE New(y) = R[S(y + n)]
    OBVIOUS
  <2>1. c + n \in Nat
    OBVIOUS
  <2>2. Slot((c + n) % m, m, y) = (y + (c + n) + m) % m
    BY <2>1, SlotsMoved
  <2>3. y + (c + n) + m = (y + n) + c + m
    OBVIOUS
  <2> QED
    BY <2>2, <2>3 DEF Slot
<1> HIDE DEF New, S, e, x, ys
(* Rows were there before. *)
<1>10. \A y \in 0..(row - 1) : E[S(y)] = B[S(y)]
  BY <1>1, <1>2, <1>8 DEF S
(* The first loop leaves what is not among the lines up to orig - 1 + n. *)
<1>11. ASSUME NEW y \in Int, y >= -m, y < 0 \/ y > orig - 1 + n, orig - 1 + n < y + m, y < m
       PROVE  R1[S(y)] = E[S(y)]
  <2>1. \A z \in 0..((orig - 1) + n) : z < y + m /\ y < z + m /\ z >= -m /\ (y < z \/ z < y)
    BY <1>2, <1>11
  <2>2. \A z \in 0..((orig - 1) + n) : S(z) # S(y)
    BY <1>8, <1>11, <2>1
  <2> QED
    BY <1>4, <1>8, <1>11, <2>2 DEF MovedDown, S
(* The second leaves what is not among the lines from bot + 1 on. *)
<1>12. ASSUME NEW y \in Int, y >= -m, y <= bot, row - 1 + n < y + m
       PROVE  R[S(y)] = R1[S(y)]
  <2>1. \A z \in (bot + 1)..((row - 1) + n) : y < z /\ z < y + m
    BY <1>2, <1>12
  <2>2. \A z \in (bot + 1)..((row - 1) + n) : S(z) # S(y)
    BY <1>8, <1>2, <1>12, <2>1
  <2> QED
    BY <1>6, <1>8, <1>12, <2>2 DEF MovedDown, S
<1>13. ASSUME NEW y \in 0..(orig - 1) PROVE New(y) = B[S(y)]
  <2>1. y + n \in Int /\ y + n >= -m /\ y + n <= bot /\ row - 1 + n < (y + n) + m /\ y >= -m /\ y \in 0..(row - 1)
    BY <1>2
  <2>2. R[S(y + n)] = R1[S(y + n)]
    BY <1>12, <2>1
  <2>3. R1[S(y + n)] = E[S(y)]
    BY <1>4 DEF MovedDown, S
  <2> QED
    BY <1>9, <1>10, <2>1, <2>2, <2>3
<1>14. ASSUME NEW y \in orig..(bot - n) PROVE New(y) = B[S(y + n)]
  <2>1. /\ y + n \in Int /\ y + n >= -m /\ y + n <= bot /\ row - 1 + n < (y + n) + m /\ y >= -m
        /\ y + n \in 0..(row - 1) /\ y + n > orig - 1 + n /\ orig - 1 + n < (y + n) + m /\ y + n < m /\ y \in Int
    BY <1>2
  <2>2. R[S(y + n)] = R1[S(y + n)]
    BY <1>12, <2>1
  <2>3. R1[S(y + n)] = E[S(y + n)]
    BY <1>11, <2>1
  <2> QED
    BY <1>9, <1>10, <2>1, <2>2, <2>3
<1>15. ASSUME NEW y \in (bot + 1)..(row - 1) PROVE New(y) = B[S(y)]
  <2>1. y \in Int /\ y >= -m /\ y \in 0..(row - 1) /\ y > orig - 1 + n /\ orig - 1 + n < y + m /\ y < m
    BY <1>2
  <2>2. R[S(y + n)] = R1[S(y)]
    BY <1>6 DEF MovedDown, S
  <2>3. R1[S(y)] = E[S(y)]
    BY <1>11, <2>1
  <2> QED
    BY <1>9, <1>10, <2>1, <2>2, <2>3
<1>16. ASSUME NEW k \in 1..(m - row) PROVE New(-k) = R1[S(n - k)]
  <2>1. /\ -k \in Int /\ -k >= -m /\ (-k) + n = n - k
        /\ n - k \in Int /\ n - k >= -m /\ n - k <= bot /\ row - 1 + n < (n - k) + m
    BY <1>2
  <2> QED
    BY <1>9, <1>12, <2>1
<1>17. ASSUME NEW k \in 1..(m - row), k > n PROVE New(-k) = B[S(n - k)]
  <2>1. /\ n - k \in Int /\ n - k >= -m /\ n - k < 0 /\ orig - 1 + n < (n - k) + m /\ n - k < m
        /\ row - 1 + n < (n - k) + m
    BY <1>2, <1>17
  <2>2. R1[S(n - k)] = E[S(n - k)]
    BY <1>11, <2>1
  <2>3. \A z \in ys : n - k < z /\ z < (n - k) + m /\ z \in Int
    BY <1>2, <2>1 DEF ys
  <2>4. S(n - k) \in 0..(m - 1) /\ \A z \in ys : S(z) # S(n - k)
    BY <1>8, <2>1, <2>3
  <2>5. E[S(n - k)] = B[S(n - k)]
    BY <1>1, <2>4
  <2> QED
    BY <1>16, <2>2, <2>5
<1>18. \E f \in [1..n -> 1..n] :
          /\ Injective(f, n)
          /\ orig = 0 => \A k \in 1..n : f[k] = k
          /\ \A k \in 1..(m - row) : k <= n => New(-k) = B[S(orig + f[n - k + 1] - 1)]
  <2>1. CASE orig = 0
    <3> DEFINE f == [k \in 1..n |-> k]
    <3>1. f \in [1..n -> 1..n] /\ Injective(f, n) /\ \A k \in 1..n : f[k] = k
      BY DEF Injective
    <3> HIDE DEF f
    <3>2. ASSUME NEW k \in 1..(m - row), k <= n PROVE New(-k) = B[S(orig + f[n - k + 1] - 1)]
      <4>1. n - k + 1 \in 1..n /\ n - k \in 0..(row - 1) /\ orig + (n - k + 1) - 1 = n - k
        BY <1>2, <2>1, <3>2
      <4>2. R1 = E
        BY <1>4, <2>1 DEF MovedDown
      <4>3. f[n - k + 1] = n - k + 1
        BY <3>1, <4>1
      <4>4. New(-k) = B[S(n - k)]
        BY <1>10, <1>16, <4>1, <4>2
      <4> QED
        BY <4>1, <4>3, <4>4
    <3> QED
      BY <3>1, <3>2
  <2>2. CASE orig # 0
    <3>1. PICK g \in [1..n -> 1..n] :
             Injective(g, n) /\ \A k \in 1..n : R1[S(0 + k - 1)] = E[S((orig - 1) + g[k])]
      BY <1>4 DEF MovedDown, S
    <3>2. ASSUME NEW k \in 1..(m - row), k <= n PROVE New(-k) = B[S(orig + g[n - k + 1] - 1)]
      <4> DEFINE j == n - k + 1
      <4>1. j \in 1..n /\ 0 + j - 1 = n - k
        BY <1>2, <3>2, SMTT(30)
      <4> HIDE DEF j
      <4>2. g[j] \in 1..n
        BY <4>1
      <4> DEFINE h == g[j]
      <4>3. h \in 1..n /\ R1[S(n - k)] = E[S((orig - 1) + h)]
        BY <3>1, <4>1, <4>2
      <4> HIDE DEF h
      <4>4. (orig - 1) + h \in 0..(row - 1) /\ (orig - 1) + h = orig + h - 1
        BY <1>2, <4>3, SMTT(30)
      <4>5. New(-k) = B[S(orig + h - 1)]
        BY <1>10, <1>16, <4>3, <4>4
      <4> QED
        BY <4>5 DEF h, j
    <3> QED
      BY <2>2, <3>1, <3>2
  <2> QED
    BY <2>1, <2>2
<1>19. RingUp(B, R, c, m, row, orig, bot, n)
  <2>1. PICK f \in [1..n -> 1..n] :
          /\ Injective(f, n)
          /\ orig = 0 => \A k \in 1..n : f[k] = k
          /\ \A k \in 1..(m - row) : k <= n => New(-k) = B[S(orig + f[n - k + 1] - 1)]
    BY <1>18
  <2>2. \A k \in 1..(m - row) : New(-k) = IF k <= n THEN B[S(orig + f[n - k + 1] - 1)] ELSE B[S(n - k)]
    BY <1>2, <1>17, <2>1
  <2>3. \E h \in [1..n -> 1..n] :
           /\ Injective(h, n)
           /\ orig = 0 => \A k \in 1..n : h[k] = k
           /\ \A k \in 1..(m - row) : New(-k) = IF k <= n THEN B[S(orig + h[n - k + 1] - 1)] ELSE B[S(n - k)]
    BY <2>1, <2>2
  <2>4. /\ \A y \in 0..(orig - 1) : New(y) = B[S(y)]
        /\ \A y \in orig..(bot - n) : New(y) = B[S(y + n)]
        /\ \A y \in (bot + 1)..(row - 1) : New(y) = B[S(y)]
    BY <1>13, <1>14, <1>15
  <2> QED
    BY <2>3, <2>4, Zenon DEF RingUp, New, S
<1>20. Exchanged(Exchanged(Ensured(b, ys), Descending(orig - 1, 0), n), Descending(row - 1, bot + 1), n)
          = [b EXCEPT !.buffer = R]
  <2>1. Ensured(b, ys) = e
    BY <1>1 DEF e
  <2>2. Exchanged(e, Descending(orig - 1, 0), n) = x
    BY <1>4 DEF x
  <2> QED
    BY <1>6, <1>7, <2>1, <2>2, Zenon
<1> QED
  BY <1>19, <1>20, Zenon DEF ys

(* The same of tscrolldown. *)
RingDown(B, R, c, m, row, orig, bot, n) ==
    LET Old(y) == B[Slot(c, m, y)]
        New(y) == R[Slot((c + m - n) % m, m, y)]
    IN  /\ \A y \in 0..(orig - 1) : New(y) = Old(y)
        /\ \A y \in (orig + n)..bot : New(y) = Old(y - n)
        /\ \A y \in (bot + 1)..(row - 1) : New(y) = Old(y)
        /\ \A k \in 1..(m - row - n) : New(-k) = Old(-k - n)

(* The buffer after tscrolldown's allocation, its two loops and the move   *)
(* of the first line.                                                      *)
LEMMA RingScrollsDown ==
    ASSUME NEW m \in Nat \ {0}, NEW c \in 0..(m - 1),
           NEW b, NEW B \in Rings(m), b.buffer = B, b.size = m, b.cur = c, b.off = 0,
           b = [buffer |-> b.buffer, size |-> b.size, cur |-> b.cur, off |-> b.off, sc |-> b.sc],
           NEW row \in 1..m, NEW bot \in 0..(row - 1), NEW orig \in 0..bot, NEW n \in 1..(bot - orig + 1),
           \A y \in 0..(row - 1) : B[Slot(c, m, y)] # NULL
    PROVE  \E R \in Rings(m) :
              /\ Exchanged(Exchanged(Ensured(b, (-n)..(-1)), Ascending(bot + 1, row - 1), -n),
                           Ascending(0, orig - 1), -n) = [b EXCEPT !.buffer = R]
              /\ RingDown(B, R, c, m, row, orig, bot, n)
<1> DEFINE S(y) == Slot(c, m, y)
           ys == (-n)..(-1)
<1>1. PICK E \in Rings(m) :
         /\ Ensured(b, ys) = [b EXCEPT !.buffer = E]
         /\ \A k \in 0..(m - 1) : B[k] # NULL \/ (\A y \in ys : S(y) # k) => E[k] = B[k]
  <2>1. ys \in SUBSET Int
    OBVIOUS
  <2> HIDE DEF ys
  <2> QED
    BY <2>1, EnsuredKeeps
<1>2. n \in Nat \ {0} /\ n \in Int /\ orig \in Nat /\ bot \in Nat /\ row \in Nat /\ orig - 1 + n <= bot /\ bot < row /\ row <= m
  OBVIOUS
<1> DEFINE e == [b EXCEPT !.buffer = E]
<1>3. e.buffer = E /\ e.size = m /\ e.cur = c /\ e.off = 0
  OBVIOUS
<1>4. PICK R1 \in Rings(m) : /\ Exchanged(e, Ascending(bot + 1, row - 1), -n) = [e EXCEPT !.buffer = R1]
                             /\ MovedUp(E, R1, c, m, bot + 1, row - 1, n)
  <2>1. /\ bot + 1 \in Nat /\ row - 1 \in Int /\ row - 1 >= (bot + 1) - 1
        /\ (row - 1) + n - (bot + 1) < m /\ n <= m
    BY <1>2
  <2> HIDE DEF e
  <2> QED
    BY <1>2, <1>3, <2>1, AscendingExchanged
<1> DEFINE x == [e EXCEPT !.buffer = R1]
<1>5. x.buffer = R1 /\ x.size = m /\ x.cur = c /\ x.off = 0
  OBVIOUS
<1>6. PICK R \in Rings(m) : /\ Exchanged(x, Ascending(0, orig - 1), -n) = [x EXCEPT !.buffer = R]
                            /\ MovedUp(R1, R, c, m, 0, orig - 1, n)
  <2>1. 0 \in Nat /\ orig - 1 \in Int /\ orig - 1 >= 0 - 1 /\ (orig - 1) + n - 0 < m /\ n <= m
    BY <1>2
  <2> HIDE DEF x
  <2> QED
    BY <1>2, <1>5, <2>1, AscendingExchanged
<1>7. [x EXCEPT !.buffer = R] = [b EXCEPT !.buffer = R]
  OBVIOUS
<1>8. /\ \A y, z \in Int : y >= -m /\ y < z /\ z < y + m => S(y) # S(z)
      /\ \A y \in Int : y >= -m => S(y) \in 0..(m - 1)
  BY SlotsDiffer, SlotInRing
<1> DEFINE New(y) == R[Slot((c + m - n) % m, m, y)]
<1>9. \A y \in Int : y - n >= -m => New(y) = R[S(y - n)]
  <2> SUFFICES ASSUME NEW y \in Int, y - n >= -m PROVE New(y) = R[S(y - n)]
    OBVIOUS
  <2>1. c + m - n \in Nat /\ y >= -m
    BY <1>2
  <2>2. Slot((c + m - n) % m, m, y) = (y + (c + m - n) + m) % m
    BY <2>1, SlotsMoved
  <2> DEFINE z == (y - n) + c + m
  <2>3. z \in Nat /\ y + (c + m - n) + m = z + m
    OBVIOUS
  <2> HIDE DEF z
  <2>4. (z + m) % m = z % m
    BY <2>3, ModMinus
  <2>5. Slot((c + m - n) % m, m, y) = z % m
    BY <2>2, <2>3, <2>4
  <2> QED
    BY <2>5 DEF Slot, z
<1> HIDE DEF New, S, e, x, ys
(* Rows were there before. *)
<1>10. \A y \in 0..(row - 1) : E[S(y)] = B[S(y)]
  BY <1>1, <1>2, <1>8 DEF S
(* The first loop leaves what is not among the lines from bot + 1 - n on. *)
<1>11. ASSUME NEW y \in Int, y >= -m, y <= bot - n, row - 1 < y + m
       PROVE  R1[S(y)] = E[S(y)]
  <2>1. \A z \in ((bot + 1) - n)..(row - 1) : y < z /\ z < y + m
    BY <1>2, <1>11
  <2>2. \A z \in ((bot + 1) - n)..(row - 1) : S(z) # S(y)
    BY <1>8, <1>2, <1>11, <2>1
  <2> QED
    BY <1>4, <1>8, <1>11, <2>2 DEF MovedUp, S
(* The second leaves what is not among the lines from -n up to orig - 1. *)
<1>12. ASSUME NEW y \in Int, y >= -m, y < -n \/ y > orig - 1, orig - 1 < y + m, y < m - n
       PROVE  R[S(y)] = R1[S(y)]
  <2>1. \A z \in (0 - n)..(orig - 1) : z < y + m /\ y < z + m /\ z >= -m /\ (y < z \/ z < y)
    BY <1>2, <1>12
  <2>2. \A z \in (0 - n)..(orig - 1) : S(z) # S(y)
    BY <1>8, <1>2, <1>12, <2>1
  <2> QED
    BY <1>6, <1>8, <1>12, <2>2 DEF MovedUp, S
<1>13. ASSUME NEW y \in 0..(orig - 1) PROVE New(y) = B[S(y)]
  <2>1. y \in Int /\ y - n >= -m /\ y >= -m /\ y <= bot - n /\ row - 1 < y + m /\ y \in 0..(row - 1)
    BY <1>2
  <2>2. R[S(y - n)] = R1[S(y)]
    BY <1>6 DEF MovedUp, S
  <2>3. R1[S(y)] = E[S(y)]
    BY <1>11, <2>1
  <2> QED
    BY <1>9, <1>10, <2>1, <2>2, <2>3
<1>14. ASSUME NEW y \in (orig + n)..bot PROVE New(y) = B[S(y - n)]
  <2>1. /\ y \in Int /\ y - n \in Int /\ y - n >= -m /\ y - n > orig - 1 /\ orig - 1 < (y - n) + m /\ y - n < m - n
        /\ y - n <= bot - n /\ row - 1 < (y - n) + m /\ y - n \in 0..(row - 1)
    BY <1>2
  <2>2. R[S(y - n)] = R1[S(y - n)]
    BY <1>12, <2>1
  <2>3. R1[S(y - n)] = E[S(y - n)]
    BY <1>11, <2>1
  <2> QED
    BY <1>9, <1>10, <2>1, <2>2, <2>3
<1>15. ASSUME NEW y \in (bot + 1)..(row - 1) PROVE New(y) = B[S(y)]
  <2>1. /\ y \in Int /\ y \in 0..(row - 1)
        /\ y - n \in Int /\ y - n >= -m /\ y - n > orig - 1 /\ orig - 1 < (y - n) + m /\ y - n < m - n
    BY <1>2
  <2>2. R[S(y - n)] = R1[S(y - n)]
    BY <1>12, <2>1
  <2>3. R1[S(y - n)] = E[S(y)]
    BY <1>4 DEF MovedUp, S
  <2> QED
    BY <1>9, <1>10, <2>1, <2>2, <2>3
<1>16. ASSUME NEW k \in 1..(m - row - n) PROVE New(-k) = B[S(-k - n)]
  <2>1. /\ -k \in Int /\ -k - n \in Int /\ -k - n >= -m /\ -k - n < -n /\ orig - 1 < (-k - n) + m /\ -k - n < m - n
        /\ -k - n <= bot - n /\ row - 1 < (-k - n) + m
    BY <1>2
  <2>2. R[S(-k - n)] = R1[S(-k - n)]
    BY <1>12, <2>1
  <2>3. R1[S(-k - n)] = E[S(-k - n)]
    BY <1>11, <2>1
  <2>4. \A z \in ys : -k - n < z /\ z < (-k - n) + m /\ z \in Int
    BY <1>2, <2>1 DEF ys
  <2>5. S(-k - n) \in 0..(m - 1) /\ \A z \in ys : S(z) # S(-k - n)
    BY <1>8, <2>1, <2>4
  <2>6. E[S(-k - n)] = B[S(-k - n)]
    BY <1>1, <2>5
  <2> QED
    BY <1>9, <2>1, <2>2, <2>3, <2>6
<1>17. RingDown(B, R, c, m, row, orig, bot, n)
  <2>1. /\ \A y \in 0..(orig - 1) : New(y) = B[S(y)]
        /\ \A y \in (orig + n)..bot : New(y) = B[S(y - n)]
        /\ \A y \in (bot + 1)..(row - 1) : New(y) = B[S(y)]
        /\ \A k \in 1..(m - row - n) : New(-k) = B[S(-k - n)]
    BY <1>13, <1>14, <1>15, <1>16
  <2> QED
    BY <2>1, Zenon DEF RingDown, New, S
<1>18. Exchanged(Exchanged(Ensured(b, ys), Ascending(bot + 1, row - 1), -n), Ascending(0, orig - 1), -n)
          = [b EXCEPT !.buffer = R]
  <2>1. Ensured(b, ys) = e
    BY <1>1 DEF e
  <2>2. Exchanged(e, Ascending(bot + 1, row - 1), -n) = x
    BY <1>4 DEF x
  <2> QED
    BY <1>6, <1>7, <2>1, <2>2, Zenon
<1> QED
  BY <1>17, <1>18, Zenon DEF ys

-----------------------------------------------------------------------------
(* tscrollup and tscrolldown: where the lines of the shown page and of the  *)
(* history are afterwards.                                                  *)
Stays(s, u) ==
    /\ IsScreen(u) /\ AtEnd(u) /\ Rows(u) = Rows(s)
    /\ u.row = s.row /\ u.c = s.c /\ u.top = s.top /\ u.bot = s.bot /\ u.alt = s.alt
    /\ \A y : Line(u, ~s.alt, y) = Line(s, ~s.alt, y)

(* u is s with the lines from orig to the end of the region moved up by n; *)
(* on the main page the first n of them become history.                    *)
UpBy(s, u, orig, n) ==
    /\ Stays(s, u)
    /\ \A y \in Rows(s) : Line(u, s.alt, y) = IF y \in orig..(s.bot - n) THEN Line(s, s.alt, y + n)
                                              ELSE IF y \in orig..s.bot THEN Blank
                                              ELSE Line(s, s.alt, y)
    /\ s.alt => u.hist = s.hist
    /\ ~s.alt => /\ u.hist = Least(s.hist + n, HISTSIZE - s.row)
                 /\ \E f \in [1..n -> 1..n] :
                       /\ Injective(f, n)
                       /\ orig = 0 => \A k \in 1..n : f[k] = k
                       /\ \A k \in 1..u.hist : Line(u, FALSE, -k) = IF k <= n THEN Line(s, FALSE, orig + f[n - k + 1] - 1)
                                                                    ELSE Line(s, FALSE, n - k)

(* u is s with the lines from orig to the end of the region moved down by  *)
(* n; on the main page the newest of the history are lost.                 *)
DownBy(s, u, orig, n) ==
    /\ Stays(s, u)
    /\ \A y \in Rows(s) : Line(u, s.alt, y) = IF y \in (orig + n)..s.bot THEN Line(s, s.alt, y - n)
                                              ELSE IF y \in orig..s.bot THEN Blank
                                              ELSE Line(s, s.alt, y)
    /\ s.alt => u.hist = s.hist
    /\ ~s.alt => /\ u.hist = Most(s.hist - n, 0)
                 /\ \A k \in 1..u.hist : Line(u, FALSE, -k) = Line(s, FALSE, -k - n)

(* The ring of the shown page is exchanged for b and some rows are cleared. *)
LEMMA ClearedRing ==
    ASSUME NEW s, IsScreen(s), NEW b, IsRing(b, TSCREEN(s).size), b.off = 0,
           NEW v, NewRing(s, v, b), v.hist \in 0..(HISTSIZE - s.row),
           NEW a \in Rows(s), NEW z \in Rows(s), a <= z,
           \A y \in Rows(s) : y \in a..z \/ b.buffer[Slot(b.cur, b.size, y)] \in Text,
           NEW u, SameLines(tclearregion(v, a, z), u)
    PROVE  /\ Stays(s, u) /\ u.hist = v.hist
           /\ \A y \in (s.row - TSCREEN(s).size)..(s.row - 1) :
                 Line(u, s.alt, y) = IF y \in a..z THEN Blank ELSE b.buffer[Slot(b.cur, b.size, y)]
<1> DEFINE w == tclearregion(v, a, z)
<1>1. IsFrame(s) /\ s.alt \in BOOLEAN
  BY DEF IsScreen, IsFrame
<1>2. /\ IsFrame(v) /\ Rows(v) = Rows(s) /\ TSCREEN(v) = b
      /\ \A y : Line(v, s.alt, y) = b.buffer[Slot(b.cur, b.size, y)]
      /\ \A y : Line(v, ~s.alt, y) = Line(s, ~s.alt, y)
  BY <1>1, NewRingFacts
<1>3. AtEnd(v) /\ v.alt = s.alt /\ v.row = s.row /\ v.c = s.c /\ v.top = s.top /\ v.bot = s.bot
  BY <1>2 DEF AtEnd, NewRing
<1>4. TSCREEN(v).size = TSCREEN(s).size
  BY <1>2 DEF IsRing
<1>5. /\ NewBuffer(v, w)
      /\ w.hist = v.hist
      /\ IsFrame(w) /\ AtEnd(w)
      /\ Rows(w) = Rows(v)
      /\ \A y \in (v.row - TSCREEN(v).size)..(v.row - 1) :
            Line(w, v.alt, y) = IF y \in a..z THEN Blank ELSE Line(v, v.alt, y)
      /\ \A y : Line(w, ~v.alt, y) = Line(v, ~v.alt, y)
  <2>1. a \in Rows(v) /\ z \in Rows(v)
    BY <1>2
  <2> QED
    BY <1>2, <1>3, <2>1, tclearregionClears
<1>6. w.alt = s.alt /\ w.row = s.row /\ w.c = s.c /\ w.top = s.top /\ w.bot = s.bot
  BY <1>3, <1>5 DEF NewRing, NewBuffer
<1> HIDE DEF w
<1>7. /\ IsFrame(u) /\ AtEnd(u) /\ Rows(u) = Rows(w) /\ \A x, y : Line(u, x, y) = Line(w, x, y)
  BY <1>5, SameLinesIsScreen DEF w
<1>8. u.hist = w.hist /\ u.alt = s.alt /\ u.row = s.row /\ u.c = s.c /\ u.top = s.top /\ u.bot = s.bot
  BY <1>6 DEF SameLines, w
<1>9. \A y \in (s.row - TSCREEN(s).size)..(s.row - 1) :
          Line(u, s.alt, y) = IF y \in a..z THEN Blank ELSE b.buffer[Slot(b.cur, b.size, y)]
  BY <1>2, <1>3, <1>4, <1>5, <1>7
<1>10. \A y : Line(u, ~s.alt, y) = Line(s, ~s.alt, y)
  BY <1>2, <1>3, <1>5, <1>7
<1>11. \A y \in Rows(s) : Line(u, s.alt, y) \in Text
  <2>1. Blank \in Text /\ \A y \in Rows(s) : y \in (s.row - TSCREEN(s).size)..(s.row - 1)
    <3>1. s.row \in Nat /\ TSCREEN(s).size \in Nat /\ s.row <= TSCREEN(s).size
      BY <1>1, ShownRing
    <3> QED
      BY <1>1, <3>1 DEF Text, Blank, IsFrame, ScreenAssumption, Rows
  <2> QED
    BY <1>9, <2>1
<1>12. IsScreen(u)
  <2>1. \A x \in BOOLEAN : x = s.alt \/ x = ~s.alt
    BY <1>1
  <2>2. \A y \in Rows(s) : Line(s, ~s.alt, y) \in Text
    BY <1>1 DEF IsScreen
  <2>3. \A x \in BOOLEAN : \A y \in Rows(s) : Line(u, x, y) \in Text
    BY <1>10, <1>11, <2>1, <2>2
  <2>4. Rows(u) = Rows(s)
    BY <1>2, <1>5, <1>7
  <2> QED
    BY <1>7, <2>3, <2>4 DEF IsScreen
<1>13. Stays(s, u)
  BY <1>2, <1>5, <1>7, <1>8, <1>10, <1>12 DEF Stays
<1> QED
  BY <1>5, <1>8, <1>9, <1>13

(* The ring of the shown page, with its rows' text. *)
LEMMA ScreenRing ==
    ASSUME NEW s, IsScreen(s), AtEnd(s)
    PROVE  /\ TSCREEN(s).size \in Nat \ {0} /\ TSCREEN(s).cur \in 0..(TSCREEN(s).size - 1)
           /\ TSCREEN(s).buffer \in Rings(TSCREEN(s).size) /\ TSCREEN(s).off = 0
           /\ s.row \in 1..TSCREEN(s).size /\ s.bot \in 0..(s.row - 1) /\ s.top \in 0..s.bot
           /\ s.hist \in 0..(HISTSIZE - s.row) /\ HISTSIZE \in Nat /\ s.alt \in BOOLEAN
           /\ \A y \in 0..(s.row - 1) :
                 TSCREEN(s).buffer[Slot(TSCREEN(s).cur, TSCREEN(s).size, y)] \in Text
           /\ NULL \notin Text
<1>1. IsFrame(s)
  BY DEF IsScreen
<1>2. /\ TSCREEN(s).size \in Nat \ {0} /\ s.row \in Nat \ {0} /\ s.row <= TSCREEN(s).size
      /\ IsRing(TSCREEN(s), TSCREEN(s).size)
      /\ \A y : Line(s, s.alt, y) = TSCREEN(s).buffer[Slot(TSCREEN(s).cur, TSCREEN(s).size, y)]
  BY <1>1, ShownRing
<1>3. s.bot \in 0..(s.row - 1) /\ s.top \in 0..s.bot /\ s.alt \in BOOLEAN
  BY <1>1, <1>2 DEF IsFrame, Rows
<1>4. \A y \in 0..(s.row - 1) : Line(s, s.alt, y) \in Text
  BY <1>3 DEF IsScreen, Rows
<1>5. NULL \notin Text /\ HISTSIZE \in Nat /\ s.hist \in 0..(HISTSIZE - s.row)
  BY <1>1 DEF NULL, Text, IsFrame, ScreenAssumption
<1>6. TSCREEN(s).cur \in 0..(TSCREEN(s).size - 1) /\ TSCREEN(s).buffer \in Rings(TSCREEN(s).size)
  BY <1>2 DEF IsRing
<1> QED
  BY <1>2, <1>3, <1>4, <1>5, <1>6 DEF AtEnd

(* tscrollup moves lines up, by as many as were asked for or fit.          *)
LEMMA tscrollupMovesBy ==
    ASSUME NEW s, IsScreen(s), AtEnd(s), NEW orig \in 0..s.bot, NEW n0 \in Nat \ {0}
    PROVE  LET n == LIMIT(n0, 0, s.bot - orig + 1) IN
           n \in 1..(s.bot - orig + 1) /\ n <= n0 /\ UpBy(s, tscrollup(s, orig, n0), orig, n)
<1> DEFINE n == LIMIT(n0, 0, s.bot - orig + 1)
           m == TSCREEN(s).size
           c == TSCREEN(s).cur
           B == TSCREEN(s).buffer
           e == Ensured(TSCREEN(s), s.row..(s.row + n - 1))
           r == Exchanged(Exchanged(e, Descending(orig - 1, 0), n), Descending(s.row - 1, s.bot + 1), n)
<1>1. /\ m \in Nat \ {0} /\ c \in 0..(m - 1) /\ B \in Rings(m) /\ TSCREEN(s).off = 0
      /\ s.row \in 1..m /\ s.bot \in 0..(s.row - 1) /\ s.hist \in 0..(HISTSIZE - s.row) /\ HISTSIZE \in Nat
      /\ s.alt \in BOOLEAN
      /\ \A y \in 0..(s.row - 1) : B[Slot(c, m, y)] \in Text
      /\ NULL \notin Text
  BY ScreenRing
<1>2. n \in 1..(s.bot - orig + 1)
  BY <1>1 DEF LIMIT
<1>21. n <= n0
  BY <1>1 DEF LIMIT
<1>20. /\ s.row \in Nat \ {0} /\ s.bot \in Nat /\ n \in Nat \ {0} /\ m \in Nat /\ orig \in Nat
       /\ orig + n <= s.bot + 1 /\ s.bot < s.row
  BY <1>1, <1>2
<1>3. IsFrame(s) /\ IsRing(TSCREEN(s), m) /\ m = IF s.alt THEN s.row ELSE HISTSIZE
  BY ShownRing DEF IsScreen
<1> HIDE DEF n, m, c, B
<1>4. PICK R \in Rings(m) :
         r = [TSCREEN(s) EXCEPT !.buffer = R] /\ RingUp(B, R, c, m, s.row, orig, s.bot, n)
  <2> DEFINE T == TSCREEN(s)
  <2>1. /\ T.buffer = B /\ T.size = m /\ T.cur = c /\ T.off = 0
        /\ T = [buffer |-> T.buffer, size |-> T.size, cur |-> T.cur, off |-> T.off, sc |-> T.sc]
    BY <1>1, <1>3 DEF m, c, B, IsRing
  <2> DEFINE row == s.row
             bot == s.bot
  <2>2. /\ row \in 1..m /\ bot \in 0..(row - 1) /\ orig \in 0..bot /\ n \in 1..(bot - orig + 1)
        /\ \A y \in 0..(row - 1) : B[Slot(c, m, y)] # NULL
    BY <1>1, <1>2
  <2> HIDE DEF T, row, bot
  <2>3. \E R \in Rings(m) :
           /\ Exchanged(Exchanged(Ensured(T, row..(row + n - 1)), Descending(orig - 1, 0), n),
                        Descending(row - 1, bot + 1), n) = [T EXCEPT !.buffer = R]
           /\ RingUp(B, R, c, m, row, orig, bot, n)
    BY <1>1, <2>1, <2>2, RingScrollsUp, ZenonT(60)
  <2> QED
    BY <2>3, Zenon DEF T, row, bot
<1> HIDE DEF e, r
<1> DEFINE b == [r EXCEPT !.cur = (@ + n) % r.size]
           u == [s EXCEPT !.screen[s.alt] = [r EXCEPT !.cur = (@ + n) % r.size]]
           v == IF s.alt THEN u ELSE [u EXCEPT !.hist = Least(@ + n, HISTSIZE - s.row)]
           w == tclearregion(v, s.bot - n + 1, s.bot)
           x == tscrollup(s, orig, n0)
<1>5. x = selscroll(tsetdirt(w, orig, s.bot - n + 1), orig, -n)
  BY Zenon DEF tscrollup, n, e, r
<1>6. IsRing(b, m) /\ b.off = 0 /\ b.buffer = R /\ b.cur = (c + n) % m /\ b.size = m
  <2>1. r.size = m /\ r.cur = c /\ r.off = 0 /\ r.buffer = R
    BY <1>3, <1>4 DEF m, c, IsRing, AtEnd
  <2>2. (c + n) % m \in 0..(m - 1)
    BY <1>1, <1>2
  <2>3. /\ r = [buffer |-> r.buffer, size |-> r.size, cur |-> r.cur, off |-> r.off, sc |-> r.sc]
        /\ r.sc \in Cursors
    BY <1>3, <1>4 DEF IsRing
  <2> HIDE DEF c
  <2>4. b.buffer = R /\ b.size = m /\ b.cur = (c + n) % m /\ b.off = 0 /\ b.sc = r.sc
        /\ b = [buffer |-> b.buffer, size |-> b.size, cur |-> b.cur, off |-> b.off, sc |-> b.sc]
    BY <2>1, <2>3
  <2> HIDE DEF b
  <2> QED
    BY <2>2, <2>3, <2>4 DEF IsRing
<1>7. NewRing(s, v, b) /\ v.hist = IF s.alt THEN s.hist ELSE Least(s.hist + n, HISTSIZE - s.row)
  <2> HIDE DEF b
  <2>1. u = [s EXCEPT !.screen[s.alt] = b]
    BY Zenon DEF b
  <2> HIDE DEF u
  <2>2. NewRing(s, u, b) /\ u.hist = s.hist
    BY <2>1, <1>3 DEF NewRing, IsFrame, Fields
  <2>3. NewRing(s, [u EXCEPT !.hist = Least(@ + n, HISTSIZE - s.row)], b)
    BY <2>2 DEF NewRing, Fields
  <2> QED
    BY <2>2, <2>3 DEF NewRing, Fields
<1>8. v.hist \in 0..(HISTSIZE - s.row)
  BY <1>1, <1>2, <1>7 DEF Least
<1> HIDE DEF b, u, v
<1>9. s.bot - n + 1 \in Rows(s) /\ s.bot \in Rows(s) /\ s.bot - n + 1 <= s.bot
  BY <1>1, <1>2 DEF Rows
<1> DEFINE Old(y) == B[Slot(c, m, y)]
           New(y) == R[Slot((c + n) % m, m, y)]
<1>10. /\ \A y \in 0..(orig - 1) : New(y) = Old(y)
       /\ \A y \in orig..(s.bot - n) : New(y) = Old(y + n)
       /\ \A y \in (s.bot + 1)..(s.row - 1) : New(y) = Old(y)
       /\ \E f \in [1..n -> 1..n] :
             /\ Injective(f, n)
             /\ orig = 0 => \A k \in 1..n : f[k] = k
             /\ \A k \in 1..(m - s.row) :
                   New(-k) = IF k <= n THEN Old(orig + f[n - k + 1] - 1) ELSE Old(n - k)
  BY <1>4, Zenon DEF RingUp
<1>11. \A y : b.buffer[Slot(b.cur, b.size, y)] = New(y)
  BY <1>6
<1>12. \A y : Line(s, s.alt, y) = Old(y)
  BY <1>3, ShownRing DEF m, c, B
<1>13. \A y \in 0..(s.row - 1) : Old(y) \in Text
  BY <1>1
<1> HIDE DEF Old, New
<1>14. \A y \in Rows(s) : y \in (s.bot - n + 1)..s.bot \/ b.buffer[Slot(b.cur, b.size, y)] \in Text
  <2> SUFFICES ASSUME NEW y \in Rows(s), y \notin (s.bot - n + 1)..s.bot PROVE New(y) \in Text
    BY <1>11
  <2>1. y \in 0..(orig - 1) \/ y \in orig..(s.bot - n) \/ y \in (s.bot + 1)..(s.row - 1)
    BY <1>1, <1>2 DEF Rows
  <2>2. y \in 0..(s.row - 1) /\ (y \in orig..(s.bot - n) => y + n \in 0..(s.row - 1))
    BY <1>1, <1>2 DEF Rows
  <2> QED
    BY <1>10, <1>13, <2>1, <2>2
<1>15. SameLines(w, x)
  <2>1. IsFrame(v) /\ Rows(v) = Rows(s) /\ TSCREEN(v) = b
    BY <1>3, <1>6, <1>7, <1>8, NewRingFacts DEF m
  <2>2. AtEnd(v)
    BY <1>6, <2>1 DEF AtEnd
  <2>3. IsFrame(w)
    BY <1>9, <2>1, <2>2, tclearregionClears
  <2> DEFINE d == tsetdirt(w, orig, s.bot - n + 1)
  <2> HIDE DEF w
  <2>4. SameLines(w, d)
    BY <2>3, tsetdirtKeepsLines DEF IsFrame
  <2> HIDE DEF d
  <2>5. SameLines(d, selscroll(d, orig, -n))
    BY <2>4, selscrollKeepsLines DEF SameLines
  <2>6. x = selscroll(d, orig, -n)
    BY <1>5 DEF d
  <2> HIDE DEF x
  <2> QED
    BY <2>4, <2>5, <2>6, SameLinesTransitive
<1> HIDE DEF w, x
<1>16. /\ Stays(s, x) /\ x.hist = v.hist
       /\ \A y \in (s.row - m)..(s.row - 1) :
             Line(x, s.alt, y) = IF y \in (s.bot - n + 1)..s.bot THEN Blank ELSE New(y)
  <2>1. \A y \in (s.row - m)..(s.row - 1) :
             Line(x, s.alt, y) = IF y \in (s.bot - n + 1)..s.bot THEN Blank ELSE b.buffer[Slot(b.cur, b.size, y)]
    BY <1>6, <1>7, <1>8, <1>9, <1>14, <1>15, ClearedRing DEF m, w
  <2>2. Stays(s, x) /\ x.hist = v.hist
    BY <1>6, <1>7, <1>8, <1>9, <1>14, <1>15, ClearedRing DEF m, w
  <2> QED
    BY <1>11, <2>1, <2>2
<1>17. ASSUME NEW y \in Rows(s)
       PROVE  Line(x, s.alt, y) = IF y \in orig..(s.bot - n) THEN Line(s, s.alt, y + n)
                                  ELSE IF y \in orig..s.bot THEN Blank
                                  ELSE Line(s, s.alt, y)
  <2>1. y \in (s.row - m)..(s.row - 1) /\ y \in 0..(s.row - 1)
    BY <1>1 DEF Rows
  <2>2. Line(x, s.alt, y) = IF y \in (s.bot - n + 1)..s.bot THEN Blank ELSE New(y)
    BY <1>16, <2>1
  <2>3. /\ New(y) = Old(y) \/ y \in orig..s.bot
        /\ y \in orig..(s.bot - n) => New(y) = Old(y + n)
    <3> DEFINE row == s.row
               bot == s.bot
    <3>1. /\ row \in Nat \ {0} /\ bot \in Nat /\ orig \in Nat /\ y \in 0..(row - 1)
      BY <1>20, <2>1
    <3> HIDE DEF row, bot
    <3>2. y \in 0..(orig - 1) \/ y \in orig..bot \/ y \in (bot + 1)..(row - 1)
      BY <3>1
    <3> QED
      BY <1>10, <3>2 DEF row, bot
  <2>4. y \in (s.bot - n + 1)..s.bot <=> y \in orig..s.bot /\ y \notin orig..(s.bot - n)
    BY <1>20, <2>1
  <2> QED
    BY <1>12, <2>2, <2>3, <2>4
<1>18. ASSUME ~s.alt
       PROVE  \E f \in [1..n -> 1..n] :
                 /\ Injective(f, n)
                 /\ orig = 0 => \A k \in 1..n : f[k] = k
                 /\ \A k \in 1..x.hist : Line(x, FALSE, -k) = IF k <= n THEN Line(s, FALSE, orig + f[n - k + 1] - 1)
                                                              ELSE Line(s, FALSE, n - k)
  <2>1. PICK f \in [1..n -> 1..n] :
             /\ Injective(f, n)
             /\ orig = 0 => \A k \in 1..n : f[k] = k
             /\ \A k \in 1..(m - s.row) :
                   New(-k) = IF k <= n THEN Old(orig + f[n - k + 1] - 1) ELSE Old(n - k)
    BY <1>10
  <2>2. s.alt = FALSE /\ m = HISTSIZE
    BY <1>1, <1>3, <1>18
  <2>3. ASSUME NEW k \in 1..x.hist
        PROVE  Line(x, FALSE, -k) = IF k <= n THEN Line(s, FALSE, orig + f[n - k + 1] - 1) ELSE Line(s, FALSE, n - k)
    <3>1. k \in 1..(m - s.row) /\ -k \in (s.row - m)..(s.row - 1) /\ -k \notin (s.bot - n + 1)..s.bot
      <4> DEFINE row == s.row
                 bot == s.bot
                 hist == x.hist
      <4>1. /\ hist \in 0..(m - row) /\ k \in 1..hist
            /\ row \in Nat \ {0} /\ bot \in Nat /\ n \in Nat \ {0} /\ m \in Nat /\ orig \in Nat
            /\ orig + n <= bot + 1
        BY <1>8, <1>16, <1>20, <2>2
      <4> HIDE DEF row, bot, hist
      <4>2. k \in 1..(m - row) /\ -k \in (row - m)..(row - 1) /\ -k \notin (bot - n + 1)..bot
        BY <4>1
      <4> QED
        BY <4>2 DEF row, bot
    <3>2. Line(x, FALSE, -k) = New(-k)
      BY <1>16, <2>2, <3>1
    <3> DEFINE h == orig + f[n - k + 1] - 1
    <3>3. New(-k) = IF k <= n THEN Old(h) ELSE Old(n - k)
      BY <2>1, <3>1
    <3> HIDE DEF h
    <3>4. Line(s, FALSE, h) = Old(h) /\ Line(s, FALSE, n - k) = Old(n - k)
      BY <1>12, <2>2
    <3>5. Line(x, FALSE, -k) = IF k <= n THEN Line(s, FALSE, h) ELSE Line(s, FALSE, n - k)
      BY <3>2, <3>3, <3>4
    <3> QED
      BY <3>5 DEF h
  <2> QED
    BY <2>1, <2>3, Zenon
<1>19. UpBy(s, x, orig, n)
  <2>1. s.alt => x.hist = s.hist
    BY <1>7, <1>16
  <2>2. ~s.alt => x.hist = Least(s.hist + n, HISTSIZE - s.row)
    BY <1>7, <1>16
  <2> QED
    BY <1>16, <1>17, <1>18, <2>1, <2>2, Zenon DEF UpBy
<1> QED
  BY <1>2, <1>19, <1>21 DEF x, n

(* By how many is of no matter to StLines.                                 *)
LEMMA tscrollupMoves ==
    ASSUME NEW s, IsScreen(s), AtEnd(s), NEW orig \in 0..s.bot, NEW n0 \in Nat \ {0}
    PROVE  \E n \in 1..(s.bot - orig + 1) : n <= n0 /\ UpBy(s, tscrollup(s, orig, n0), orig, n)
BY tscrollupMovesBy

(* tscrolldown moves lines down, by as many as were asked for or fit.      *)
LEMMA tscrolldownMovesBy ==
    ASSUME NEW s, IsScreen(s), AtEnd(s), NEW orig \in 0..s.bot, NEW n0 \in Nat \ {0}
    PROVE  LET n == LIMIT(n0, 0, s.bot - orig + 1) IN
           n \in 1..(s.bot - orig + 1) /\ DownBy(s, tscrolldown(s, orig, n0), orig, n)
<1> DEFINE n == LIMIT(n0, 0, s.bot - orig + 1)
           m == TSCREEN(s).size
           c == TSCREEN(s).cur
           B == TSCREEN(s).buffer
           e == Ensured(TSCREEN(s), (-n)..(-1))
           r == Exchanged(Exchanged(e, Ascending(s.bot + 1, s.row - 1), -n), Ascending(0, orig - 1), -n)
<1>1. /\ m \in Nat \ {0} /\ c \in 0..(m - 1) /\ B \in Rings(m) /\ TSCREEN(s).off = 0
      /\ s.row \in 1..m /\ s.bot \in 0..(s.row - 1) /\ s.hist \in 0..(HISTSIZE - s.row) /\ HISTSIZE \in Nat
      /\ s.alt \in BOOLEAN
      /\ \A y \in 0..(s.row - 1) : B[Slot(c, m, y)] \in Text
      /\ NULL \notin Text
  BY ScreenRing
<1>2. n \in 1..(s.bot - orig + 1)
  BY <1>1 DEF LIMIT
<1>20. /\ s.row \in Nat \ {0} /\ s.bot \in Nat /\ n \in Nat \ {0} /\ m \in Nat /\ orig \in Nat
       /\ orig + n <= s.bot + 1 /\ s.bot < s.row
  BY <1>1, <1>2
<1>3. IsFrame(s) /\ IsRing(TSCREEN(s), m) /\ m = IF s.alt THEN s.row ELSE HISTSIZE
  BY ShownRing DEF IsScreen
<1> HIDE DEF n, m, c, B
<1>4. PICK R \in Rings(m) :
         r = [TSCREEN(s) EXCEPT !.buffer = R] /\ RingDown(B, R, c, m, s.row, orig, s.bot, n)
  <2> DEFINE T == TSCREEN(s)
  <2>1. /\ T.buffer = B /\ T.size = m /\ T.cur = c /\ T.off = 0
        /\ T = [buffer |-> T.buffer, size |-> T.size, cur |-> T.cur, off |-> T.off, sc |-> T.sc]
    BY <1>1, <1>3 DEF m, c, B, IsRing
  <2> DEFINE row == s.row
             bot == s.bot
  <2>2. /\ row \in 1..m /\ bot \in 0..(row - 1) /\ orig \in 0..bot /\ n \in 1..(bot - orig + 1)
        /\ \A y \in 0..(row - 1) : B[Slot(c, m, y)] # NULL
    BY <1>1, <1>2
  <2> HIDE DEF T, row, bot
  <2>3. \E R \in Rings(m) :
           /\ Exchanged(Exchanged(Ensured(T, (-n)..(-1)), Ascending(bot + 1, row - 1), -n),
                        Ascending(0, orig - 1), -n) = [T EXCEPT !.buffer = R]
           /\ RingDown(B, R, c, m, row, orig, bot, n)
    BY <1>1, <2>1, <2>2, RingScrollsDown, ZenonT(60)
  <2> QED
    BY <2>3, Zenon DEF T, row, bot
<1> HIDE DEF e, r
<1> DEFINE b == [r EXCEPT !.cur = (@ + r.size - n) % r.size]
           u == [s EXCEPT !.screen[s.alt] = [r EXCEPT !.cur = (@ + r.size - n) % r.size]]
           v == IF s.alt THEN u ELSE [u EXCEPT !.hist = Most(@ - n, 0)]
           w == tclearregion(v, orig, orig + n - 1)
           x == tscrolldown(s, orig, n0)
<1>5. x = selscroll(tsetdirt(w, orig + n - 1, s.bot), orig, n)
  BY Zenon DEF tscrolldown, n, e, r
<1>6. IsRing(b, m) /\ b.off = 0 /\ b.buffer = R /\ b.cur = (c + m - n) % m /\ b.size = m
  <2>1. r.size = m /\ r.cur = c /\ r.off = 0 /\ r.buffer = R
    BY <1>3, <1>4 DEF m, c, IsRing, AtEnd
  <2>2. (c + m - n) % m \in 0..(m - 1)
    BY <1>1, <1>2
  <2>3. /\ r = [buffer |-> r.buffer, size |-> r.size, cur |-> r.cur, off |-> r.off, sc |-> r.sc]
        /\ r.sc \in Cursors
    BY <1>3, <1>4 DEF IsRing
  <2> HIDE DEF c
  <2>4. b.buffer = R /\ b.size = m /\ b.cur = (c + m - n) % m /\ b.off = 0 /\ b.sc = r.sc
        /\ b = [buffer |-> b.buffer, size |-> b.size, cur |-> b.cur, off |-> b.off, sc |-> b.sc]
    BY <2>1, <2>3
  <2> HIDE DEF b
  <2> QED
    BY <2>2, <2>3, <2>4 DEF IsRing
<1>7. NewRing(s, v, b) /\ v.hist = IF s.alt THEN s.hist ELSE Most(s.hist - n, 0)
  <2> HIDE DEF b
  <2>1. u = [s EXCEPT !.screen[s.alt] = b]
    BY Zenon DEF b
  <2> HIDE DEF u
  <2>2. NewRing(s, u, b) /\ u.hist = s.hist
    BY <2>1, <1>3 DEF NewRing, IsFrame, Fields
  <2>3. NewRing(s, [u EXCEPT !.hist = Most(@ - n, 0)], b)
    BY <2>2 DEF NewRing, Fields
  <2> QED
    BY <2>2, <2>3 DEF NewRing, Fields
<1>8. v.hist \in 0..(HISTSIZE - s.row)
  BY <1>1, <1>2, <1>7 DEF Most
<1> HIDE DEF b, u, v
<1>9. orig \in Rows(s) /\ orig + n - 1 \in Rows(s) /\ orig <= orig + n - 1
  BY <1>1, <1>2 DEF Rows
<1> DEFINE Old(y) == B[Slot(c, m, y)]
           New(y) == R[Slot((c + m - n) % m, m, y)]
<1>10. /\ \A y \in 0..(orig - 1) : New(y) = Old(y)
       /\ \A y \in (orig + n)..s.bot : New(y) = Old(y - n)
       /\ \A y \in (s.bot + 1)..(s.row - 1) : New(y) = Old(y)
       /\ \A k \in 1..(m - s.row - n) : New(-k) = Old(-k - n)
  BY <1>4, Zenon DEF RingDown
<1>11. \A y : b.buffer[Slot(b.cur, b.size, y)] = New(y)
  BY <1>6
<1>12. \A y : Line(s, s.alt, y) = Old(y)
  BY <1>3, ShownRing DEF m, c, B
<1>13. \A y \in 0..(s.row - 1) : Old(y) \in Text
  BY <1>1
<1> HIDE DEF Old, New
<1>14. \A y \in Rows(s) : y \in orig..(orig + n - 1) \/ b.buffer[Slot(b.cur, b.size, y)] \in Text
  <2> SUFFICES ASSUME NEW y \in Rows(s), y \notin orig..(orig + n - 1) PROVE New(y) \in Text
    BY <1>11
  <2>1. y \in 0..(orig - 1) \/ y \in (orig + n)..s.bot \/ y \in (s.bot + 1)..(s.row - 1)
    BY <1>1, <1>2 DEF Rows
  <2>2. y \in 0..(s.row - 1) /\ (y \in (orig + n)..s.bot => y - n \in 0..(s.row - 1))
    BY <1>1, <1>2 DEF Rows
  <2> QED
    BY <1>10, <1>13, <2>1, <2>2
<1>15. SameLines(w, x)
  <2>1. IsFrame(v) /\ Rows(v) = Rows(s) /\ TSCREEN(v) = b
    BY <1>3, <1>6, <1>7, <1>8, NewRingFacts DEF m
  <2>2. AtEnd(v)
    BY <1>6, <2>1 DEF AtEnd
  <2>3. IsFrame(w)
    BY <1>9, <2>1, <2>2, tclearregionClears
  <2> DEFINE d == tsetdirt(w, orig + n - 1, s.bot)
  <2> HIDE DEF w
  <2>4. SameLines(w, d)
    BY <2>3, tsetdirtKeepsLines DEF IsFrame
  <2> HIDE DEF d
  <2>5. SameLines(d, selscroll(d, orig, n))
    BY <2>4, selscrollKeepsLines DEF SameLines
  <2>6. x = selscroll(d, orig, n)
    BY <1>5 DEF d
  <2> HIDE DEF x
  <2> QED
    BY <2>4, <2>5, <2>6, SameLinesTransitive
<1> HIDE DEF w, x
<1>16. /\ Stays(s, x) /\ x.hist = v.hist
       /\ \A y \in (s.row - m)..(s.row - 1) :
             Line(x, s.alt, y) = IF y \in orig..(orig + n - 1) THEN Blank ELSE New(y)
  <2> DEFINE last == orig + n - 1
  <2>1. /\ orig \in Rows(s) /\ last \in Rows(s) /\ orig <= last
        /\ \A y \in Rows(s) : y \in orig..last \/ b.buffer[Slot(b.cur, b.size, y)] \in Text
    BY <1>9, <1>14
  <2>2. SameLines(tclearregion(v, orig, last), x)
    BY <1>15 DEF w
  <2> HIDE DEF last
  <2>3. /\ Stays(s, x) /\ x.hist = v.hist
        /\ \A y \in (s.row - m)..(s.row - 1) :
             Line(x, s.alt, y) = IF y \in orig..last THEN Blank ELSE b.buffer[Slot(b.cur, b.size, y)]
    BY <1>6, <1>7, <1>8, <2>1, <2>2, ClearedRing DEF m
  <2> QED
    BY <1>11, <2>3 DEF last
<1>17. ASSUME NEW y \in Rows(s)
       PROVE  Line(x, s.alt, y) = IF y \in (orig + n)..s.bot THEN Line(s, s.alt, y - n)
                                  ELSE IF y \in orig..s.bot THEN Blank
                                  ELSE Line(s, s.alt, y)
  <2>1. y \in (s.row - m)..(s.row - 1) /\ y \in 0..(s.row - 1)
    BY <1>1 DEF Rows
  <2>2. Line(x, s.alt, y) = IF y \in orig..(orig + n - 1) THEN Blank ELSE New(y)
    BY <1>16, <2>1
  <2>3. /\ New(y) = Old(y) \/ y \in orig..s.bot
        /\ y \in (orig + n)..s.bot => New(y) = Old(y - n)
    <3> DEFINE row == s.row
               bot == s.bot
    <3>1. /\ row \in Nat \ {0} /\ bot \in Nat /\ orig \in Nat /\ y \in 0..(row - 1)
      BY <1>20, <2>1
    <3> HIDE DEF row, bot
    <3>2. y \in 0..(orig - 1) \/ y \in orig..bot \/ y \in (bot + 1)..(row - 1)
      BY <3>1
    <3> QED
      BY <1>10, <3>2 DEF row, bot
  <2>4. y \in orig..(orig + n - 1) <=> y \in orig..s.bot /\ y \notin (orig + n)..s.bot
    BY <1>20, <2>1
  <2> QED
    BY <1>12, <2>2, <2>3, <2>4
<1>18. ASSUME ~s.alt, NEW k \in 1..x.hist
       PROVE  Line(x, FALSE, -k) = Line(s, FALSE, -k - n)
  <2>1. s.alt = FALSE /\ m = HISTSIZE
    BY <1>1, <1>3, <1>18
  <2>2. k \in 1..(m - s.row - n) /\ -k \in (s.row - m)..(s.row - 1) /\ -k \notin orig..(orig + n - 1)
    <3> DEFINE row == s.row
               hist == x.hist
    <3>1. /\ hist = Most(s.hist - n, 0) /\ s.hist \in 0..(m - row) /\ k \in 1..hist
          /\ row \in Nat \ {0} /\ n \in Nat \ {0} /\ m \in Nat /\ orig \in Nat
      BY <1>1, <1>7, <1>16, <1>18, <1>20, <2>1
    <3> HIDE DEF row, hist
    <3>2. hist <= m - row - n \/ hist = 0
      BY <3>1 DEF Most
    <3>3. hist \in Nat
      BY <3>1 DEF Most
    <3>4. k \in 1..(m - row - n) /\ -k \in (row - m)..(row - 1) /\ -k \notin orig..(orig + n - 1)
      BY <3>1, <3>2, <3>3
    <3> QED
      BY <3>4 DEF row
  <2>3. Line(x, FALSE, -k) = New(-k)
    BY <1>16, <2>1, <2>2
  <2>4. New(-k) = Old(-k - n)
    BY <1>10, <2>2
  <2> QED
    BY <1>12, <2>1, <2>3, <2>4
<1>19. DownBy(s, x, orig, n)
  <2>1. s.alt => x.hist = s.hist
    BY <1>7, <1>16
  <2>2. ~s.alt => x.hist = Most(s.hist - n, 0)
    BY <1>7, <1>16
  <2> QED
    BY <1>16, <1>17, <1>18, <2>1, <2>2, Zenon DEF DownBy
<1> QED
  BY <1>2, <1>19 DEF x, n

(* By how many is of no matter to StLines.                                 *)
LEMMA tscrolldownMoves ==
    ASSUME NEW s, IsScreen(s), AtEnd(s), NEW orig \in 0..s.bot, NEW n0 \in Nat \ {0}
    PROVE  \E n \in 1..(s.bot - orig + 1) : DownBy(s, tscrolldown(s, orig, n0), orig, n)
BY tscrolldownMovesBy

(* u holds the same lines as s on both pages and in the history; where the  *)
(* cursor and the view are, what is saved of the cursor and what scrolls    *)
(* may differ.                                                              *)
Keeps(s, u) ==
    /\ Fields(u) /\ u.row = s.row /\ u.alt = s.alt /\ u.hist = s.hist
    /\ u.screen = [x \in BOOLEAN |-> u.screen[x]]
    /\ \A x \in BOOLEAN : /\ IsRing(u.screen[x], s.screen[x].size)
                          /\ u.screen[x].buffer = s.screen[x].buffer
                          /\ u.screen[x].cur = s.screen[x].cur
    /\ u.c \in Cursors /\ u.c.y \in Rows(s)
    /\ u.top \in Rows(s) /\ u.bot \in u.top..(s.row - 1)

(* The scroll region is the same.                                          *)
SameRegion(s, u) == u.top = s.top /\ u.bot = s.bot

(* A screen whose lines are kept is a screen, with the same lines.         *)
LEMMA KeepsScreen ==
    ASSUME NEW s, IsScreen(s), NEW u, Keeps(s, u)
    PROVE  /\ IsScreen(u) /\ Rows(u) = Rows(s)
           /\ \A x \in BOOLEAN : \A y : Line(u, x, y) = Line(s, x, y)
<1>1. IsFrame(s) /\ s.alt \in BOOLEAN
  BY DEF IsScreen, IsFrame
<1>2. Rows(u) = Rows(s)
  BY DEF Keeps, Rows
<1>3. \A x \in BOOLEAN : u.screen[x].size = s.screen[x].size
  BY DEF Keeps, IsRing
<1>4. \A x \in BOOLEAN : \A y : Line(u, x, y) = Line(s, x, y)
  BY <1>3 DEF Keeps, Line
<1>5. s.screen[FALSE].size = HISTSIZE /\ s.screen[TRUE].size = s.row
  BY <1>1 DEF IsFrame, IsRing
<1>6. IsRing(u.screen[FALSE], HISTSIZE) /\ IsRing(u.screen[TRUE], s.row)
  BY <1>5 DEF Keeps
<1>7. IsFrame(u)
  BY <1>1, <1>2, <1>6 DEF IsFrame, Keeps
<1> QED
  BY <1>2, <1>4, <1>7 DEF IsScreen

(* A step that changes nothing keeps the lines.                            *)
LEMMA KeepsReflexive ==
    ASSUME NEW s, IsScreen(s)
    PROVE  Keeps(s, s) /\ SameRegion(s, s)
<1>1. IsFrame(s)
  BY DEF IsScreen
<1>2. \A x \in BOOLEAN : IsRing(s.screen[x], s.screen[x].size)
  <2>1. IsRing(s.screen[FALSE], s.screen[FALSE].size) /\ IsRing(s.screen[TRUE], s.screen[TRUE].size)
    BY <1>1 DEF IsFrame, IsRing
  <2> SUFFICES ASSUME NEW x \in BOOLEAN PROVE IsRing(s.screen[x], s.screen[x].size)
    OBVIOUS
  <2>2. CASE x = TRUE
    BY <2>1, <2>2
  <2>3. CASE x = FALSE
    BY <2>1, <2>3
  <2> QED
    BY <2>2, <2>3
<1> QED
  BY <1>1, <1>2 DEF Keeps, SameRegion, IsFrame

(* So do two steps that each keep them.                                    *)
LEMMA KeepsTransitive ==
    ASSUME NEW s, NEW u, NEW v, Keeps(s, u), Keeps(u, v)
    PROVE  Keeps(s, v)
<1>1. Rows(u) = Rows(s)
  BY DEF Keeps, Rows
<1>2. \A x \in BOOLEAN : u.screen[x].size = s.screen[x].size
  BY DEF Keeps, IsRing
<1>3. \A x \in BOOLEAN : /\ IsRing(v.screen[x], s.screen[x].size)
                         /\ v.screen[x].buffer = s.screen[x].buffer
                         /\ v.screen[x].cur = s.screen[x].cur
  BY <1>2 DEF Keeps
<1> QED
  BY <1>1, <1>3 DEF Keeps

(* Marks and selection are not among what is kept.                         *)
LEMMA SameLinesKeeps ==
    ASSUME NEW s, IsScreen(s), NEW u, SameLines(s, u)
    PROVE  Keeps(s, u) /\ SameRegion(s, u)
<1>1. Keeps(s, s)
  BY KeepsReflexive
<1> QED
  BY <1>1 DEF Keeps, SameLines, SameRegion

(* The cursor moves, or what scrolls changes. *)
LEMMA NewCursorKeeps ==
    ASSUME NEW s, IsScreen(s), NEW u, Fields(u), u.row = s.row, u.screen = s.screen, u.alt = s.alt, u.hist = s.hist,
           u.c \in Cursors, u.c.y \in Rows(s), u.top \in Rows(s), u.bot \in u.top..(s.row - 1)
    PROVE  Keeps(s, u) /\ (AtEnd(s) => AtEnd(u))
<1>1. Keeps(s, s)
  BY KeepsReflexive
<1> QED
  BY <1>1 DEF Keeps, AtEnd, TSCREEN

(* The numbers of rows. *)
LEMMA ScreenRows ==
    ASSUME NEW s, IsScreen(s)
    PROVE  /\ s.row \in Nat \ {0} /\ s.c.y \in 0..(s.row - 1) /\ s.top \in 0..(s.row - 1)
           /\ s.bot \in s.top..(s.row - 1) /\ Rows(s) = 0..(s.row - 1) /\ s.alt \in BOOLEAN
           /\ Fields(s) /\ s.c \in Cursors /\ s.screen = [x \in BOOLEAN |-> s.screen[x]]
<1>1. IsFrame(s)
  BY DEF IsScreen
<1> QED
  BY <1>1 DEF IsFrame, Rows, ScreenAssumption

(* LIMIT returns a number of the range, and numbers of the range           *)
(* themselves.                                                             *)
LEMMA LimitBetween ==
    ASSUME NEW x \in Int, NEW a \in Int, NEW b \in Int, a <= b
    PROVE  LIMIT(x, a, b) \in a..b /\ (x \in a..b => LIMIT(x, a, b) = x)
BY DEF LIMIT

(* tmoveto moves the cursor only.                                          *)
LEMMA tmovetoKeeps ==
    ASSUME NEW s, IsScreen(s), NEW y \in Int
    PROVE  /\ Keeps(s, tmoveto(s, y)) /\ SameRegion(s, tmoveto(s, y)) /\ (AtEnd(s) => AtEnd(tmoveto(s, y)))
           /\ y \in s.top..s.bot => tmoveto(s, y).c.y = y
<1> DEFINE d == IF s.c.origin THEN LIMIT(y, s.top, s.bot) ELSE LIMIT(y, 0, s.row - 1)
           u == tmoveto(s, y)
<1>1. /\ s.row \in Nat \ {0} /\ s.top \in 0..(s.row - 1) /\ s.bot \in s.top..(s.row - 1)
      /\ Rows(s) = 0..(s.row - 1) /\ Fields(s) /\ s.c \in Cursors
  BY ScreenRows
<1>2. d \in 0..(s.row - 1) /\ (y \in s.top..s.bot => d = y)
  <2> DEFINE row == s.row
             top == s.top
             bot == s.bot
  <2>1. row \in Nat \ {0} /\ top \in Nat /\ bot \in Nat /\ top <= bot /\ bot < row
    BY <1>1
  <2> HIDE DEF row, top, bot
  <2>2. LIMIT(y, top, bot) \in 0..(row - 1) /\ LIMIT(y, 0, row - 1) \in 0..(row - 1)
    BY <2>1 DEF LIMIT
  <2>3. y \in top..bot => LIMIT(y, top, bot) = y /\ LIMIT(y, 0, row - 1) = y
    BY <2>1 DEF LIMIT
  <2> QED
    BY <2>2, <2>3 DEF row, top, bot
<1>3. u = [s EXCEPT !.c.wrapnext = FALSE, !.c.y = d]
  BY Zenon DEF tmoveto
<1> HIDE DEF d, u
<1>4. /\ Fields(u) /\ u.row = s.row /\ u.screen = s.screen /\ u.alt = s.alt /\ u.hist = s.hist
      /\ u.top = s.top /\ u.bot = s.bot
      /\ u.c = [s.c EXCEPT !.wrapnext = FALSE, !.y = d]
  BY <1>1, <1>3 DEF Fields
<1>5. u.c \in Cursors /\ u.c.y = d
  <2>1. d \in Nat
    BY <1>1, <1>2
  <2>2. s.c \in [y : Nat, wrapnext : BOOLEAN, origin : BOOLEAN]
    BY <1>1 DEF Cursors
  <2> DEFINE c == s.c
  <2> HIDE DEF c
  <2>3. c \in [y : Nat, wrapnext : BOOLEAN, origin : BOOLEAN] /\ u.c = [c EXCEPT !.wrapnext = FALSE, !.y = d]
    BY <1>4, <2>2 DEF c
  <2>4. u.c = [y |-> d, wrapnext |-> FALSE, origin |-> c.origin]
    BY <2>3
  <2> QED
    BY <2>1, <2>3, <2>4 DEF Cursors
<1>6. Keeps(s, u) /\ (AtEnd(s) => AtEnd(u))
  BY <1>1, <1>2, <1>4, <1>5, NewCursorKeeps
<1> QED
  BY <1>2, <1>4, <1>5, <1>6 DEF u, SameRegion

(* So does tmoveato.                                                       *)
LEMMA tmoveatoKeeps ==
    ASSUME NEW s, IsScreen(s), NEW y \in Int
    PROVE  Keeps(s, tmoveato(s, y)) /\ SameRegion(s, tmoveato(s, y))
<1> DEFINE d == y + (IF s.c.origin THEN s.top ELSE 0)
<1>1. d \in Int
  <2>1. s.top \in Int
    <3>1. s.row \in Nat \ {0} /\ s.top \in 0..(s.row - 1)
      BY ScreenRows
    <3> QED
      BY <3>1
  <2> DEFINE top == s.top
  <2> HIDE DEF top
  <2>2. y + (IF s.c.origin THEN top ELSE 0) \in Int
    BY <2>1 DEF top
  <2> QED
    BY <2>2 DEF top
<1>2. tmoveato(s, y) = tmoveto(s, d)
  BY DEF tmoveato
<1> HIDE DEF d
<1> QED
  BY <1>1, <1>2, tmovetoKeeps

(* And a change of the origin mode.                                        *)
LEMMA originKeeps ==
    ASSUME NEW s, IsScreen(s), NEW set \in BOOLEAN
    PROVE  Keeps(s, [s EXCEPT !.c.origin = set])
<1> DEFINE u == [s EXCEPT !.c.origin = set]
<1>1. /\ Rows(s) = 0..(s.row - 1) /\ Fields(s) /\ s.c \in Cursors /\ s.c.y \in Rows(s)
      /\ s.top \in Rows(s) /\ s.bot \in s.top..(s.row - 1)
  BY ScreenRows
<1>2. /\ Fields(u) /\ u.row = s.row /\ u.screen = s.screen /\ u.alt = s.alt /\ u.hist = s.hist
      /\ u.top = s.top /\ u.bot = s.bot
      /\ u.c = [s.c EXCEPT !.origin = set]
  BY <1>1 DEF Fields
<1> HIDE DEF u
<1>3. u.c \in Cursors /\ u.c.y = s.c.y
  BY <1>1, <1>2 DEF Cursors
<1>4. Keeps(s, u)
  BY <1>1, <1>2, <1>3, NewCursorKeeps
<1> QED
  BY <1>4 DEF u

(* tsetscroll changes the region only.                                     *)
LEMMA tsetscrollKeeps ==
    ASSUME NEW s, IsScreen(s), NEW a \in Int, NEW b \in Int
    PROVE  Keeps(s, tsetscroll(s, a, b))
<1> DEFINE x == LIMIT(a, 0, s.row - 1)
           y == LIMIT(b, 0, s.row - 1)
           u == tsetscroll(s, a, b)
<1>1. /\ s.row \in Nat \ {0} /\ Rows(s) = 0..(s.row - 1) /\ Fields(s) /\ s.c \in Cursors /\ s.c.y \in Rows(s)
  BY ScreenRows
<1>2. x \in 0..(s.row - 1) /\ y \in 0..(s.row - 1)
  <2> DEFINE row == s.row
  <2>1. row \in Nat \ {0}
    BY <1>1
  <2> HIDE DEF row
  <2>2. LIMIT(a, 0, row - 1) \in 0..(row - 1) /\ LIMIT(b, 0, row - 1) \in 0..(row - 1)
    BY <2>1 DEF LIMIT
  <2> QED
    BY <2>2 DEF row
<1>3. u = [s EXCEPT !.top = Least(x, y), !.bot = Most(x, y)]
  BY DEF tsetscroll
<1> HIDE DEF x, y, u
<1>4. /\ Fields(u) /\ u.row = s.row /\ u.screen = s.screen /\ u.alt = s.alt /\ u.hist = s.hist
      /\ u.top = Least(x, y) /\ u.bot = Most(x, y) /\ u.c = s.c
  BY <1>1, <1>3 DEF Fields
<1>5. Least(x, y) \in Rows(s) /\ Most(x, y) \in Least(x, y)..(s.row - 1)
  BY <1>1, <1>2 DEF Least, Most
<1>6. Keeps(s, u)
  BY <1>1, <1>4, <1>5, NewCursorKeeps
<1> QED
  BY <1>6 DEF u

(* Only the view of the shown page or what it saves of the cursor changes. *)
LEMMA NewRingKeeps ==
    ASSUME NEW s, IsScreen(s), NEW b, NEW u, NewRing(s, u, b), u.hist = s.hist,
           IsRing(b, TSCREEN(s).size), b.buffer = TSCREEN(s).buffer, b.cur = TSCREEN(s).cur
    PROVE  Keeps(s, u) /\ SameRegion(s, u)
<1>1. Keeps(s, s) /\ s.alt \in BOOLEAN /\ s.screen = [x \in BOOLEAN |-> s.screen[x]]
  BY KeepsReflexive, ScreenRows
<1>2. /\ u.screen = [x \in BOOLEAN |-> u.screen[x]]
      /\ \A x \in BOOLEAN : u.screen[x] = IF x = s.alt THEN b ELSE s.screen[x]
  BY <1>1 DEF NewRing
<1>3. \A x \in BOOLEAN : /\ IsRing(u.screen[x], s.screen[x].size)
                         /\ u.screen[x].buffer = s.screen[x].buffer
                         /\ u.screen[x].cur = s.screen[x].cur
  BY <1>1, <1>2 DEF Keeps, TSCREEN
<1> QED
  BY <1>1, <1>2, <1>3 DEF Keeps, SameRegion, NewRing

(* The shown page has a sound ring.                                        *)
LEMMA RingOfScreen ==
    ASSUME NEW s, IsScreen(s)
    PROVE  IsRing(TSCREEN(s), TSCREEN(s).size) /\ s.alt \in BOOLEAN /\ s.screen[s.alt] = TSCREEN(s)
BY ShownRing DEF IsScreen, IsFrame, TSCREEN

(* A change of the view changes no line.                                   *)
LEMMA offKeeps ==
    ASSUME NEW s, IsScreen(s), NEW o
    PROVE  /\ Keeps(s, [s EXCEPT !.screen[s.alt].off = o]) /\ SameRegion(s, [s EXCEPT !.screen[s.alt].off = o])
           /\ TSCREEN([s EXCEPT !.screen[s.alt].off = o]).off = o
<1> DEFINE b == [TSCREEN(s) EXCEPT !.off = o]
           u == [s EXCEPT !.screen[s.alt].off = o]
<1>1. IsRing(TSCREEN(s), TSCREEN(s).size) /\ s.alt \in BOOLEAN /\ s.screen[s.alt] = TSCREEN(s)
  BY RingOfScreen
<1>2. Fields(s) /\ s.screen = [x \in BOOLEAN |-> s.screen[x]]
  BY ScreenRows
<1>3. IsRing(b, TSCREEN(s).size) /\ b.buffer = TSCREEN(s).buffer /\ b.cur = TSCREEN(s).cur /\ b.off = o
  BY <1>1 DEF IsRing
<1>4. u = [s EXCEPT !.screen = [s.screen EXCEPT ![s.alt] = b]]
  BY <1>1 DEF TSCREEN
<1> HIDE DEF b, u
<1>5. NewRing(s, u, b) /\ u.hist = s.hist
  BY <1>2, <1>4 DEF NewRing, Fields
<1>6. TSCREEN(u) = b
  BY <1>1, <1>2, <1>5 DEF NewRing, TSCREEN
<1>7. Keeps(s, u) /\ SameRegion(s, u)
  BY <1>3, <1>5, NewRingKeeps
<1> QED
  BY <1>3, <1>6, <1>7 DEF u

(* What twrite does before the first character: the view goes to the end.  *)
LEMMA twriteKeeps ==
    ASSUME NEW s, IsScreen(s)
    PROVE  Keeps(s, twrite(s)) /\ SameRegion(s, twrite(s)) /\ AtEnd(twrite(s))
<1> DEFINE u == [s EXCEPT !.screen[s.alt].off = 0]
<1>1. Keeps(s, u) /\ SameRegion(s, u) /\ TSCREEN(u).off = 0
  BY offKeeps
<1>2. twrite(s) = IF TSCREEN(s).off # 0 THEN tfulldirt(u) ELSE s
  BY DEF twrite
<1> HIDE DEF u
<1>3. CASE TSCREEN(s).off # 0
  <2>1. IsScreen(u)
    BY <1>1, KeepsScreen
  <2>2. SameLines(u, tfulldirt(u))
    BY <2>1, ScreenRows, tsetdirtKeepsLines
  <2> DEFINE v == tfulldirt(u)
  <2> HIDE DEF v
  <2>3. SameLines(u, v)
    BY <2>2 DEF v
  <2>4. Keeps(u, v) /\ SameRegion(u, v)
    BY <2>1, <2>3, SameLinesKeeps
  <2>5. AtEnd(v)
    BY <1>1, <2>3, SameLinesIsScreen DEF AtEnd
  <2>6. Keeps(s, v) /\ SameRegion(s, v)
    BY <1>1, <2>4, KeepsTransitive DEF SameRegion
  <2> QED
    BY <1>2, <1>3, <2>5, <2>6 DEF v
<1>4. CASE TSCREEN(s).off = 0
  BY <1>2, <1>4, KeepsReflexive DEF AtEnd
<1> QED
  BY <1>3, <1>4

(* kscrollup and kscrolldown change the view only.                         *)
LEMMA ScrolledKeeps ==
    ASSUME NEW s, IsScreen(s), NEW n
    PROVE  Keeps(s, Scrolled(s, n)) /\ SameRegion(s, Scrolled(s, n))
<1> DEFINE o == TSCREEN(s).off + n
           u == [s EXCEPT !.screen[s.alt].off = o]
           v == selscroll(u, 0, n)
           w == tfulldirt(v)
<1>1. Scrolled(s, n) = w
  BY ScreenRows DEF Scrolled, TSCREEN
<1> HIDE DEF o
<1>2. Keeps(s, u) /\ SameRegion(s, u)
  BY offKeeps
<1> HIDE DEF u
<1>3. IsScreen(u) /\ Fields(u)
  BY <1>2, KeepsScreen, ScreenRows
<1>4. SameLines(u, v)
  BY <1>3, selscrollKeepsLines
<1> HIDE DEF v
<1>5. SameLines(v, w)
  BY <1>4, tsetdirtKeepsLines DEF SameLines
<1> HIDE DEF w
<1>6. SameLines(u, w)
  BY <1>4, <1>5, SameLinesTransitive
<1>7. Keeps(u, w) /\ SameRegion(u, w)
  BY <1>3, <1>6, SameLinesKeeps
<1>8. Keeps(s, w) /\ SameRegion(s, w)
  BY <1>2, <1>7, KeepsTransitive DEF SameRegion
<1> QED
  BY <1>1, <1>8

(* Saving the cursor changes no line.                                      *)
LEMMA CURSOR_SAVEKeeps ==
    ASSUME NEW s, IsScreen(s)
    PROVE  Keeps(s, CURSOR_SAVE(s)) /\ SameRegion(s, CURSOR_SAVE(s)) /\ (AtEnd(s) => AtEnd(CURSOR_SAVE(s)))
<1> DEFINE b == [TSCREEN(s) EXCEPT !.sc = s.c]
           u == [s EXCEPT !.screen[s.alt].sc = s.c]
<1>1. IsRing(TSCREEN(s), TSCREEN(s).size) /\ s.alt \in BOOLEAN /\ s.screen[s.alt] = TSCREEN(s)
  BY RingOfScreen
<1>2. Fields(s) /\ s.screen = [x \in BOOLEAN |-> s.screen[x]] /\ s.c \in Cursors
  BY ScreenRows
<1>3. IsRing(b, TSCREEN(s).size) /\ b.buffer = TSCREEN(s).buffer /\ b.cur = TSCREEN(s).cur /\ b.off = TSCREEN(s).off
  BY <1>1, <1>2 DEF IsRing
<1>4. u = [s EXCEPT !.screen = [s.screen EXCEPT ![s.alt] = b]]
  BY <1>1 DEF TSCREEN
<1> HIDE DEF b, u
<1>5. NewRing(s, u, b) /\ u.hist = s.hist
  BY <1>2, <1>4 DEF NewRing, Fields
<1>6. TSCREEN(u) = b
  BY <1>1, <1>2, <1>5 DEF NewRing, TSCREEN
<1>7. Keeps(s, u) /\ SameRegion(s, u)
  BY <1>3, <1>5, NewRingKeeps
<1> QED
  BY <1>3, <1>6, <1>7 DEF u, CURSOR_SAVE, AtEnd

(* A saved cursor comes back to a row of the screen.                       *)
LEMMA CursorOnScreen ==
    ASSUME NEW s, IsFrame(s), NEW c \in Cursors, NEW top, NEW bot,
           top \in Rows(s), bot \in top..(s.row - 1)
    PROVE  /\ (IF c.origin THEN LIMIT(c.y, top, bot) ELSE LIMIT(c.y, 0, s.row - 1)) \in Rows(s)
           /\ [c EXCEPT !.wrapnext = FALSE,
                        !.y = IF c.origin THEN LIMIT(c.y, top, bot) ELSE LIMIT(c.y, 0, s.row - 1)] \in Cursors
           /\ [c EXCEPT !.wrapnext = FALSE,
                        !.y = IF c.origin THEN LIMIT(c.y, top, bot) ELSE LIMIT(c.y, 0, s.row - 1)].y \in Rows(s)
<1> DEFINE row == s.row
           y == c.y
<1>1. row \in Nat \ {0} /\ top \in 0..(row - 1) /\ bot \in top..(row - 1)
  BY DEF Rows, IsFrame, ScreenAssumption
<1>2. y \in Nat
  BY DEF Cursors
<1> HIDE DEF row, y
<1> DEFINE d == IF c.origin THEN LIMIT(y, top, bot) ELSE LIMIT(y, 0, row - 1)
<1>3. d \in 0..(row - 1)
  BY <1>1, <1>2 DEF LIMIT
<1>4. d \in Nat
  BY <1>1, <1>3
<1> HIDE DEF d
<1>5. [c EXCEPT !.wrapnext = FALSE, !.y = d] = [y |-> d, wrapnext |-> FALSE, origin |-> c.origin] /\ c.origin \in BOOLEAN
  <2>1. c \in [y : Nat, wrapnext : BOOLEAN, origin : BOOLEAN]
    BY DEF Cursors
  <2>2. c.origin \in BOOLEAN
    BY <2>1
  <2> DEFINE e == [c EXCEPT !.wrapnext = FALSE, !.y = d]
  <2>3. e = [c EXCEPT !.wrapnext = FALSE, !.y = d]
    OBVIOUS
  <2> HIDE DEF e
  <2>4. e = [y |-> d, wrapnext |-> FALSE, origin |-> c.origin]
    BY <2>1, <2>3
  <2> QED
    BY <2>2, <2>4 DEF e
<1>6. [c EXCEPT !.wrapnext = FALSE, !.y = d] \in Cursors /\ [c EXCEPT !.wrapnext = FALSE, !.y = d].y = d
  BY <1>4, <1>5 DEF Cursors
<1> QED
  BY <1>3, <1>6 DEF d, row, y, Rows

(* Restoring the cursor changes no line.                                   *)
LEMMA CURSOR_LOADKeeps ==
    ASSUME NEW s, IsScreen(s)
    PROVE  Keeps(s, CURSOR_LOAD(s)) /\ SameRegion(s, CURSOR_LOAD(s)) /\ (AtEnd(s) => AtEnd(CURSOR_LOAD(s)))
<1> DEFINE c == TSCREEN(s).sc
           d == IF c.origin THEN LIMIT(c.y, s.top, s.bot) ELSE LIMIT(c.y, 0, s.row - 1)
           e == [c EXCEPT !.wrapnext = FALSE, !.y = d]
           u == CURSOR_LOAD(s)
<1>1. /\ Fields(s) /\ s.top \in Rows(s) /\ s.bot \in s.top..(s.row - 1) /\ IsFrame(s) /\ c \in Cursors
  BY ScreenRows, RingOfScreen DEF IsScreen, IsRing
<1>2. e \in Cursors /\ e.y \in Rows(s)
  <2> HIDE DEF c
  <2> QED
    BY <1>1, CursorOnScreen
<1>3. u = [s EXCEPT !.c = e]
  <2> DEFINE v == [s EXCEPT !.c = c]
  <2>1. v.c = c /\ v.top = s.top /\ v.bot = s.bot /\ v.row = s.row
    BY <1>1 DEF Fields
  <2>2. u = [v EXCEPT !.c.wrapnext = FALSE,
                      !.c.y = IF v.c.origin THEN LIMIT(v.c.y, v.top, v.bot) ELSE LIMIT(v.c.y, 0, v.row - 1)]
    BY Zenon DEF CURSOR_LOAD, tmoveto
  <2> HIDE DEF v, c, u
  <2>3. u = [v EXCEPT !.c.wrapnext = FALSE, !.c.y = d]
    BY <2>1, <2>2
  <2> HIDE DEF d
  <2> QED
    BY <1>1, <2>1, <2>3 DEF v, Fields
<1> HIDE DEF e, u
<1>4. /\ Fields(u) /\ u.row = s.row /\ u.screen = s.screen /\ u.alt = s.alt /\ u.hist = s.hist
      /\ u.top = s.top /\ u.bot = s.bot /\ u.c = e
  BY <1>1, <1>3 DEF Fields
<1>5. Keeps(s, u) /\ (AtEnd(s) => AtEnd(u))
  BY <1>1, <1>2, <1>4, NewCursorKeeps
<1> QED
  BY <1>4, <1>5 DEF u, SameRegion

(* The lines of the history are those of s. *)
SamePast(s, u) == u.hist = s.hist /\ \A k \in 1..s.hist : Line(u, FALSE, -k) = Line(s, FALSE, -k)

(* u is s with the rows a..z of the shown page blank.                      *)
Erased(s, u, a, z) ==
    /\ Stays(s, u) /\ SamePast(s, u)
    /\ \A y \in Rows(s) : Line(u, s.alt, y) = IF y \in a..z THEN Blank ELSE Line(s, s.alt, y)

(* The rows and the history of the shown page are less than a ring. *)
LEMMA RowsAndPast ==
    ASSUME NEW s, IsScreen(s)
    PROVE  /\ \A y \in Rows(s) : y \in (s.row - TSCREEN(s).size)..(s.row - 1)
           /\ ~s.alt => \A k \in 1..s.hist : -k \in (s.row - TSCREEN(s).size)..(s.row - 1) /\ -k \notin Rows(s)
<1> DEFINE row == s.row
           m == TSCREEN(s).size
           hist == s.hist
<1>1. row \in Nat \ {0} /\ m \in Nat /\ row <= m /\ (~s.alt => hist \in 0..(m - row)) /\ Rows(s) = 0..(row - 1)
  BY ShownRing DEF IsScreen, IsFrame, Rows
<1> HIDE DEF row, m, hist
<1>2. \A y \in 0..(row - 1) : y \in (row - m)..(row - 1)
  BY <1>1
<1>3. ~s.alt => \A k \in 1..hist : -k \in (row - m)..(row - 1) /\ -k \notin 0..(row - 1)
  BY <1>1
<1> QED
  BY <1>1, <1>2, <1>3 DEF row, m, hist

(* tclearregion blanks the rows it is given, and nothing else.             *)
LEMMA tclearregionErases ==
    ASSUME NEW s, IsScreen(s), AtEnd(s), NEW a \in Rows(s), NEW z \in Rows(s), a <= z
    PROVE  Erased(s, tclearregion(s, a, z), a, z)
<1> DEFINE b == TSCREEN(s)
           u == tclearregion(s, a, z)
<1>1. IsRing(b, TSCREEN(s).size) /\ b.off = 0 /\ s.hist \in 0..(HISTSIZE - s.row) /\ s.alt \in BOOLEAN
  BY ScreenRing, RingOfScreen
<1>2. NewRing(s, s, b)
  BY ScreenRows, RingOfScreen DEF NewRing
<1>3. \A y : Line(s, s.alt, y) = b.buffer[Slot(b.cur, b.size, y)]
  BY ShownRing DEF IsScreen
<1>4. \A y \in Rows(s) : Line(s, s.alt, y) \in Text
  BY <1>1 DEF IsScreen
<1>5. SameLines(u, u)
  <2>1. Fields(u)
    BY tclearregionClears DEF IsScreen, IsFrame
  <2> HIDE DEF u
  <2> QED
    BY <2>1, SameLinesReflexive
<1> DEFINE m == TSCREEN(s).size
<1>6. /\ Stays(s, u) /\ u.hist = s.hist
      /\ \A y \in (s.row - m)..(s.row - 1) : Line(u, s.alt, y) = IF y \in a..z THEN Blank ELSE b.buffer[Slot(b.cur, b.size, y)]
  <2>1. \A y \in Rows(s) : y \in a..z \/ b.buffer[Slot(b.cur, b.size, y)] \in Text
    BY <1>3, <1>4
  <2> HIDE DEF b
  <2>2. /\ Stays(s, u) /\ u.hist = s.hist
        /\ \A y \in (s.row - TSCREEN(s).size)..(s.row - 1) : Line(u, s.alt, y) = IF y \in a..z THEN Blank ELSE b.buffer[Slot(b.cur, b.size, y)]
    BY <1>1, <1>2, <1>5, <2>1, ClearedRing
  <2> QED
    BY <2>2
<1> HIDE DEF u, b
<1>7. \A y \in (s.row - m)..(s.row - 1) : Line(u, s.alt, y) = IF y \in a..z THEN Blank ELSE Line(s, s.alt, y)
  BY <1>3, <1>6
<1> HIDE DEF m
<1>8. SamePast(s, u)
  <2>1. CASE s.alt
    BY <1>1, <1>6, <2>1 DEF SamePast, Stays
  <2>2. CASE ~s.alt
    <3>1. \A k \in 1..s.hist : -k \in (s.row - m)..(s.row - 1) /\ -k \notin a..z
      <4>1. \A k \in 1..s.hist : -k \in (s.row - m)..(s.row - 1) /\ -k \notin Rows(s)
        BY <2>2, RowsAndPast DEF m
      <4>2. \A y \in a..z : y \in Rows(s)
        <5> DEFINE row == s.row
        <5>1. row \in Nat \ {0} /\ a \in 0..(row - 1) /\ z \in 0..(row - 1)
          BY ScreenRows
        <5> HIDE DEF row
        <5>2. \A y \in a..z : y \in 0..(row - 1)
          BY <5>1
        <5> QED
          BY <5>2 DEF row, Rows
      <4> QED
        BY <4>1, <4>2
    <3>2. s.alt = FALSE
      BY <1>1, <2>2
    <3> QED
      BY <1>6, <1>7, <3>1, <3>2 DEF SamePast
  <2> QED
    BY <2>1, <2>2
<1>9. \A y \in Rows(s) : Line(u, s.alt, y) = IF y \in a..z THEN Blank ELSE Line(s, s.alt, y)
  BY <1>7, RowsAndPast DEF m
<1> QED
  BY <1>6, <1>8, <1>9 DEF Erased, u

(* Two ranges that are erased one after the other are erased together.     *)
LEMMA ErasedTwice ==
    ASSUME NEW s, IsScreen(s), NEW u, NEW v, NEW a1, NEW z1, NEW a2, NEW z2, NEW a, NEW z,
           Erased(s, u, a1, z1), Erased(u, v, a2, z2),
           \A y \in Rows(s) : y \in a..z <=> y \in a1..z1 \/ y \in a2..z2
    PROVE  Erased(s, v, a, z)
<1>1. Stays(s, u) /\ Stays(u, v) /\ u.alt = s.alt /\ Rows(u) = Rows(s) /\ s.alt \in BOOLEAN
  BY ScreenRows DEF Erased, Stays
<1>2. Stays(s, v)
  BY <1>1 DEF Stays
<1>3. SamePast(s, v)
  BY DEF Erased, SamePast
<1>4. \A y \in Rows(s) : Line(v, s.alt, y) = IF y \in a..z THEN Blank ELSE Line(s, s.alt, y)
  BY <1>1 DEF Erased
<1> QED
  BY <1>2, <1>3, <1>4 DEF Erased

(* One row is written. *)
Wrote(s, u, y) ==
    /\ Stays(s, u) /\ SamePast(s, u)
    /\ \A z \in Rows(s) : z = y \/ Line(u, s.alt, z) = Line(s, s.alt, z)

(* A character written changes its own row only.                           *)
LEMMA TSetLineWrites ==
    ASSUME NEW s, IsScreen(s), AtEnd(s), NEW y \in Rows(s), NEW x \in Text
    PROVE  Wrote(s, TSetLine(s, y, x), y)
<1> DEFINE T == TSCREEN(s)
           m == T.size
           c == T.cur
           B == T.buffer
           k == TLINEOFFSET(T, y)
           R == [B EXCEPT ![k] = x]
           b == [T EXCEPT !.buffer = R]
           u == TSetLine(s, y, x)
<1>1. /\ m \in Nat \ {0} /\ c \in 0..(m - 1) /\ B \in Rings(m) /\ T.off = 0 /\ s.alt \in BOOLEAN
      /\ s.row \in 1..m /\ s.hist \in 0..(HISTSIZE - s.row)
  BY ScreenRing
<1>2. IsFrame(s) /\ IsRing(T, m) /\ s.screen[s.alt] = T /\ Fields(s) /\ s.screen = [z \in BOOLEAN |-> s.screen[z]]
  BY RingOfScreen, ScreenRows DEF IsScreen
<1>3. k = Slot(c, m, y)
  BY <1>1, ScreenRows DEF TLINEOFFSET, Slot
<1>4. u = [s EXCEPT !.screen = [s.screen EXCEPT ![s.alt] = b], !.dirty = @ \cup {y}]
  BY <1>2 DEF TSetLine
<1>5. \A z : Line(s, s.alt, z) = B[Slot(c, m, z)]
  BY <1>2, ShownRing
<1> HIDE DEF k, B, c, m
<1>6. R \in Rings(m)
  BY <1>1 DEF Rings
<1>7. IsRing(b, m) /\ b.off = 0 /\ b.buffer = R /\ b.cur = c /\ b.size = m
  <2>1. T.cur = c /\ T.size = m
    BY DEF c, m
  <2> HIDE DEF R, T
  <2> QED
    BY <1>1, <1>2, <1>6, <2>1 DEF IsRing
<1> HIDE DEF b, u
<1>8. NewRing(s, u, b) /\ u.hist = s.hist
  BY <1>2, <1>4 DEF NewRing, Fields
<1>9. /\ IsFrame(u) /\ Rows(u) = Rows(s) /\ TSCREEN(u) = b
      /\ \A z : Line(u, s.alt, z) = R[Slot(c, m, z)]
      /\ \A z : Line(u, ~s.alt, z) = Line(s, ~s.alt, z)
      /\ (\A z \in Rows(s) : Line(u, s.alt, z) \in Text) => IsScreen(u)
  <2>1. u.hist \in 0..(HISTSIZE - s.row) /\ IsRing(b, TSCREEN(s).size)
    BY <1>1, <1>7, <1>8 DEF m, T
  <2>2. /\ IsFrame(u) /\ Rows(u) = Rows(s) /\ TSCREEN(u) = b
        /\ \A z : Line(u, s.alt, z) = b.buffer[Slot(b.cur, b.size, z)]
        /\ \A z : Line(u, ~s.alt, z) = Line(s, ~s.alt, z)
        /\ IsScreen(s) /\ (\A z \in Rows(s) : Line(u, s.alt, z) \in Text) => IsScreen(u)
    BY <1>2, <1>8, <2>1, NewRingFacts
  <2> QED
    BY <1>7, <2>2
<1>10. ASSUME NEW z \in (s.row - m)..(s.row - 1), z # y
       PROVE  Line(u, s.alt, z) = Line(s, s.alt, z)
  <2>1. Apart(c, m, s.row - m, s.row - 1) /\ y \in (s.row - m)..(s.row - 1)
    <3>1. s.row - m \in Int /\ s.row - m >= -m /\ s.row - 1 \in Int /\ (s.row - 1) - (s.row - m) < m
      BY <1>1
    <3>2. y \in (s.row - m)..(s.row - 1)
      BY RowsAndPast DEF m, T
    <3> QED
      BY <1>1, <3>1, <3>2, SlotsOfRange
  <2>2. Slot(c, m, z) # k
    BY <1>3, <1>10, <2>1 DEF Apart
  <2>3. R[Slot(c, m, z)] = B[Slot(c, m, z)]
    BY <1>1, <2>2 DEF Rings
  <2> QED
    BY <1>5, <1>9, <2>3
<1>11. Line(u, s.alt, y) = x
  <2>1. Slot(c, m, y) \in 0..(m - 1)
    <3>1. s.row \in Nat \ {0} /\ y \in 0..(s.row - 1)
      BY ScreenRows
    <3>2. y \in Int /\ y >= -m
      BY <1>1, <3>1
    <3> QED
      BY <1>1, <3>2, SlotInRing
  <2>2. R[k] = x
    BY <1>1, <1>3, <2>1 DEF Rings
  <2> QED
    BY <1>3, <1>9, <2>2
<1>12. \A z \in Rows(s) : z = y \/ Line(u, s.alt, z) = Line(s, s.alt, z)
  BY <1>10, RowsAndPast DEF m, T
<1>13. IsScreen(u)
  <2>1. \A z \in Rows(s) : Line(s, s.alt, z) \in Text
    BY <1>1 DEF IsScreen
  <2> QED
    BY <1>9, <1>11, <1>12, <2>1
<1>14. SamePast(s, u)
  <2>1. CASE s.alt
    BY <1>1, <1>8, <1>9, <2>1 DEF SamePast
  <2>2. CASE ~s.alt
    <3>1. \A j \in 1..s.hist : -j \in (s.row - m)..(s.row - 1) /\ -j # y
      BY <2>2, RowsAndPast DEF m, T
    <3>2. s.alt = FALSE
      BY <1>1, <2>2
    <3> QED
      BY <1>8, <1>10, <3>1, <3>2 DEF SamePast
  <2> QED
    BY <2>1, <2>2
<1>15. Stays(s, u)
  BY <1>7, <1>8, <1>9, <1>13 DEF Stays, AtEnd, NewRing
<1> QED
  BY <1>12, <1>14, <1>15 DEF Wrote, u

(* Everything is blank and the main page is shown. *)
ResetTo(s, u) ==
    /\ IsScreen(u) /\ u.row = s.row /\ u.alt = FALSE /\ u.hist = 0 /\ u.top = 0 /\ u.bot = s.row - 1
    /\ \A x \in BOOLEAN : \A y \in Rows(s) : Line(u, x, y) = Blank

(* A ring of m slots from its first one on, with blank rows. *)
Fresh(b, m, row) ==
    /\ IsRing(b, m) /\ b.size = m /\ b.cur = 0
    /\ \A y \in 0..(row - 1) : b.buffer[(y + b.cur + b.size) % b.size] = Blank

(* In a ring that starts at its first slot, lines and slots have the same  *)
(* numbers.                                                                *)
LEMMA FirstSlots ==
    ASSUME NEW m \in Nat \ {0}, NEW y \in 0..(m - 1)
    PROVE  (y + 0 + m) % m = y
<1>1. y \in Nat /\ y + 0 + m = y + m
  OBVIOUS
<1>2. (y + m) % m = y % m /\ y % m = y
  BY <1>1, ModMinus, ModSmall
<1> QED
  BY <1>1, <1>2

(* A ring as treset leaves it.                                             *)
LEMMA ClearedFresh ==
    ASSUME NEW m \in Nat \ {0}, NEW row \in 1..m, NEW b, IsRing(b, m), NEW sc \in Cursors, MaxText \in Nat
    PROVE  Fresh([b EXCEPT !.cur = 0, !.off = 0, !.sc = sc,
                           !.buffer = [k \in DOMAIN @ |-> IF k < row THEN Blank ELSE NULL]], m, row)
<1> DEFINE F == [k \in 0..(m - 1) |-> IF k < row THEN Blank ELSE NULL]
           d == [b EXCEPT !.cur = 0, !.off = 0, !.sc = sc,
                          !.buffer = [k \in DOMAIN @ |-> IF k < row THEN Blank ELSE NULL]]
<1>1. DOMAIN b.buffer = 0..(m - 1)
  BY DEF IsRing, Rings
<1>2. F \in Rings(m)
  BY DEF Rings, Text, Blank, NULL
<1>3. d = [b EXCEPT !.cur = 0, !.off = 0, !.sc = sc, !.buffer = F]
  BY <1>1
<1> HIDE DEF F, d
<1>4. /\ d = [buffer |-> d.buffer, size |-> d.size, cur |-> d.cur, off |-> d.off, sc |-> d.sc]
      /\ d.size = m /\ d.cur = 0 /\ d.buffer = F /\ d.sc = sc
  BY <1>3 DEF IsRing
<1>5. IsRing(d, m)
  BY <1>2, <1>4 DEF IsRing
<1>6. ASSUME NEW y \in 0..(row - 1) PROVE d.buffer[(y + d.cur + d.size) % d.size] = Blank
  <2>1. y \in 0..(m - 1) /\ y < row
    OBVIOUS
  <2>2. (y + 0 + m) % m = y
    BY <2>1, FirstSlots
  <2>3. F[y] = Blank
    BY <2>1 DEF F
  <2> QED
    BY <1>4, <2>2, <2>3
<1> QED
  BY <1>4, <1>5, <1>6 DEF Fresh, d

(* treset blanks both pages and forgets the history.                       *)
LEMMA tresetResets ==
    ASSUME NEW s, IsScreen(s)
    PROVE  ResetTo(s, treset(s))
<1>1. IsFrame(s)
  BY DEF IsScreen
<1>2. /\ Fields(s) /\ s.row \in Nat \ {0} /\ s.row <= HISTSIZE /\ HISTSIZE \in Nat \ {0} /\ MaxText \in Nat
      /\ ScreenAssumption
  BY <1>1 DEF IsFrame, ScreenAssumption
<1>3. /\ s.c \in Cursors /\ s.c.y \in Rows(s) /\ Rows(s) = 0..(s.row - 1)
      /\ IsRing(s.screen[FALSE], HISTSIZE) /\ IsRing(s.screen[TRUE], s.row)
  BY <1>1 DEF IsFrame, Rows
<1> DEFINE sc == [y |-> 0, wrapnext |-> FALSE, origin |-> FALSE]
           cleared(b) == [b EXCEPT !.cur = 0, !.off = 0, !.sc = sc,
                                   !.buffer = [k \in DOMAIN @ |-> IF k < s.row THEN Blank ELSE NULL]]
           screen == [x \in BOOLEAN |-> cleared(s.screen[x])]
           fault == s.fault \/ \E x \in BOOLEAN, k \in Rows(s) : s.screen[x].buffer[k] = NULL
           u == [s EXCEPT !.top = 0, !.bot = s.row - 1, !.alt = FALSE, !.hist = 0,
                          !.fault = fault, !.screen = screen]
           v == CURSOR_LOAD(u)
           w == tfulldirt(v)
<1>4. treset(s) = w
  BY Zenon DEF treset
<1>5. Fresh(screen[FALSE], HISTSIZE, s.row) /\ Fresh(screen[TRUE], s.row, s.row)
  <2>1. sc \in Cursors
    BY DEF Cursors
  <2> HIDE DEF sc
  <2> DEFINE row == s.row
  <2>2. row \in 1..HISTSIZE /\ row \in 1..row /\ row \in Nat \ {0}
    BY <1>2
  <2>3. IsRing(s.screen[FALSE], HISTSIZE) /\ IsRing(s.screen[TRUE], row)
    BY <1>3
  <2> HIDE DEF row
  <2>4. Fresh([s.screen[FALSE] EXCEPT !.cur = 0, !.off = 0, !.sc = sc,
                       !.buffer = [k \in DOMAIN @ |-> IF k < row THEN Blank ELSE NULL]], HISTSIZE, row)
    <3> DEFINE b == s.screen[FALSE]
    <3> HIDE DEF b
    <3>1. IsRing(b, HISTSIZE)
      BY <2>3 DEF b
    <3>2. Fresh([b EXCEPT !.cur = 0, !.off = 0, !.sc = sc,
                       !.buffer = [k \in DOMAIN @ |-> IF k < row THEN Blank ELSE NULL]], HISTSIZE, row)
      BY <1>2, <2>1, <2>2, <3>1, ClearedFresh
    <3> QED
      BY <3>2 DEF b
  <2>5. Fresh([s.screen[TRUE] EXCEPT !.cur = 0, !.off = 0, !.sc = sc,
                       !.buffer = [k \in DOMAIN @ |-> IF k < row THEN Blank ELSE NULL]], row, row)
    <3> DEFINE b == s.screen[TRUE]
    <3> HIDE DEF b
    <3>1. IsRing(b, row)
      BY <2>3 DEF b
    <3>2. Fresh([b EXCEPT !.cur = 0, !.off = 0, !.sc = sc,
                       !.buffer = [k \in DOMAIN @ |-> IF k < row THEN Blank ELSE NULL]], row, row)
      BY <1>2, <2>1, <2>2, <3>1, ClearedFresh
    <3> QED
      BY <3>2 DEF b
  <2>6. Fresh(cleared(s.screen[FALSE]), HISTSIZE, s.row) /\ Fresh(cleared(s.screen[TRUE]), s.row, s.row)
    BY <2>4, <2>5, Zenon DEF row
  <2>7. screen[FALSE] = cleared(s.screen[FALSE]) /\ screen[TRUE] = cleared(s.screen[TRUE])
    BY Zenon
  <2> QED
    BY <2>6, <2>7, Zenon
<1>6. screen = [x \in BOOLEAN |-> screen[x]]
  OBVIOUS
<1> HIDE DEF sc, fault, screen
<1>7. /\ Fields(u) /\ u.row = s.row /\ u.c = s.c /\ u.alt = FALSE /\ u.hist = 0 /\ u.top = 0 /\ u.bot = s.row - 1
      /\ u.screen = screen
  <2> DEFINE bot == s.row - 1
  <2>1. u = [s EXCEPT !.top = 0, !.bot = bot, !.alt = FALSE, !.hist = 0, !.fault = fault, !.screen = screen]
    OBVIOUS
  <2>2. Fields(s)
    BY <1>2
  <2> HIDE DEF u, bot
  <2>3. /\ Fields(u) /\ u.row = s.row /\ u.c = s.c /\ u.alt = FALSE /\ u.hist = 0 /\ u.top = 0 /\ u.bot = bot
        /\ u.screen = screen
    BY <2>1, <2>2 DEF Fields
  <2> QED
    BY <2>3 DEF bot
<1> HIDE DEF u
<1>8. \A x \in BOOLEAN : \A y \in 0..(s.row - 1) : Line(u, x, y) = Blank
  <2> SUFFICES ASSUME NEW x \in BOOLEAN, NEW y \in 0..(s.row - 1) PROVE Line(u, x, y) = Blank
    OBVIOUS
  <2>1. Line(u, x, y) = screen[x].buffer[(y + screen[x].cur + screen[x].size) % screen[x].size]
    BY <1>7 DEF Line
  <2>2. CASE x = TRUE
    <3>1. screen[TRUE].buffer[(y + screen[TRUE].cur + screen[TRUE].size) % screen[TRUE].size] = Blank
      BY <1>5, Zenon DEF Fresh
    <3> QED
      BY <2>1, <2>2, <3>1
  <2>3. CASE x = FALSE
    <3>1. screen[FALSE].buffer[(y + screen[FALSE].cur + screen[FALSE].size) % screen[FALSE].size] = Blank
      BY <1>5, Zenon DEF Fresh
    <3> QED
      BY <2>1, <2>3, <3>1
  <2> QED
    BY <2>2, <2>3
<1>9. IsScreen(u)
  <2>1. Rows(u) = Rows(s)
    BY <1>7 DEF Rows
  <2>2. u.top \in Rows(u) /\ u.bot \in u.top..(u.row - 1) /\ u.hist \in 0..(HISTSIZE - u.row) /\ u.row \in 1..HISTSIZE
    <3> DEFINE row == s.row
    <3>1. row \in Nat \ {0} /\ row <= HISTSIZE /\ HISTSIZE \in Nat
      BY <1>2
    <3> HIDE DEF row
    <3>2. 0 \in 0..(row - 1) /\ row - 1 \in 0..(row - 1) /\ 0 \in 0..(HISTSIZE - row) /\ row \in 1..HISTSIZE
      BY <3>1
    <3> QED
      BY <1>3, <1>7, <2>1, <3>2 DEF row
  <2>3. IsRing(u.screen[FALSE], HISTSIZE) /\ IsRing(u.screen[TRUE], u.row) /\ u.screen = [x \in BOOLEAN |-> u.screen[x]]
    BY <1>5, <1>6, <1>7 DEF Fresh
  <2>4. u.c \in Cursors /\ u.c.y \in Rows(u) /\ u.alt \in BOOLEAN
    BY <1>3, <1>7, <2>1
  <2>5. IsFrame(u)
    BY <1>2, <1>7, <2>2, <2>3, <2>4 DEF IsFrame
  <2>6. Blank \in Text
    BY <1>2 DEF Blank, Text
  <2> QED
    BY <1>3, <1>8, <2>1, <2>5, <2>6 DEF IsScreen
<1>10. Keeps(u, v) /\ SameRegion(u, v)
  BY <1>9, CURSOR_LOADKeeps
<1> HIDE DEF v
<1>11. IsScreen(v)
  BY <1>9, <1>10, KeepsScreen
<1>12. SameLines(v, w)
  BY <1>11, ScreenRows, tsetdirtKeepsLines
<1> HIDE DEF w
<1>13. Keeps(v, w) /\ SameRegion(v, w)
  BY <1>11, <1>12, SameLinesKeeps
<1>14. Keeps(u, w) /\ SameRegion(u, w)
  BY <1>10, <1>13, KeepsTransitive DEF SameRegion
<1>15. /\ IsScreen(w) /\ Rows(w) = Rows(u)
       /\ \A x \in BOOLEAN : \A y : Line(w, x, y) = Line(u, x, y)
  BY <1>9, <1>14, KeepsScreen
<1>16. ResetTo(s, w)
  <2>1. w.row = s.row /\ w.alt = FALSE /\ w.hist = 0 /\ w.top = 0 /\ w.bot = s.row - 1
    BY <1>7, <1>14 DEF Keeps, SameRegion
  <2>2. \A x \in BOOLEAN : \A y \in Rows(s) : Line(w, x, y) = Blank
    BY <1>3, <1>8, <1>15
  <2> QED
    BY <1>15, <2>1, <2>2 DEF ResetTo
<1> QED
  BY <1>4, <1>16

(* The other page is shown; the alternate page is erased. *)
SwapsTo(s, u, set) ==
    /\ IsScreen(u) /\ u.row = s.row /\ u.alt = set /\ u.top = s.top /\ u.bot = s.bot /\ SamePast(s, u)
    /\ \A y \in Rows(s) : Line(u, FALSE, y) = Line(s, FALSE, y)
    /\ \A y \in Rows(s) : Line(u, TRUE, y) = IF s.alt THEN Blank ELSE Line(s, TRUE, y)

(* swapscreen shows the other page and erases the alternate one as it      *)
(* leaves it.                                                              *)
LEMMA swapscreenSwaps ==
    ASSUME NEW s, IsScreen(s), AtEnd(s), NEW set \in BOOLEAN
    PROVE  SwapsTo(s, swapscreen(s, set), set)
<1> DEFINE u == IF s.alt THEN tclearregion(s, 0, s.row - 1) ELSE s
           v == [u EXCEPT !.alt = ~@]
           w == tfulldirt(v)
<1>1. swapscreen(s, set) = IF set # s.alt THEN w ELSE u
  BY Zenon DEF swapscreen
<1>2. /\ s.alt \in BOOLEAN /\ s.row \in Nat \ {0} /\ Rows(s) = 0..(s.row - 1)
  BY ScreenRows
<1>3. /\ IsScreen(u) /\ u.row = s.row /\ u.top = s.top /\ u.bot = s.bot /\ u.alt = s.alt /\ SamePast(s, u)
      /\ \A y \in Rows(s) : Line(u, FALSE, y) = Line(s, FALSE, y)
      /\ \A y \in Rows(s) : Line(u, TRUE, y) = IF s.alt THEN Blank ELSE Line(s, TRUE, y)
  <2>1. CASE s.alt
    <3> DEFINE z == s.row - 1
    <3>1. z \in Rows(s) /\ 0 \in Rows(s) /\ 0 <= z
      BY <1>2
    <3>2. \A y \in Rows(s) : y \in 0..z
      BY <1>2
    <3>3. u = tclearregion(s, 0, z)
      BY <2>1
    <3> HIDE DEF z, u
    <3>4. Erased(s, u, 0, z)
      BY <3>1, <3>3, tclearregionErases
    <3>5. s.alt = TRUE
      BY <1>2, <2>1
    <3> QED
      BY <3>2, <3>4, <3>5 DEF Erased, Stays
  <2>2. CASE ~s.alt
    BY <2>2 DEF SamePast
  <2> QED
    BY <2>1, <2>2
<1> HIDE DEF u
<1>4. CASE set = s.alt
  BY <1>1, <1>3, <1>4 DEF SwapsTo
<1>5. CASE set # s.alt
  <2>1. Fields(u)
    BY <1>3, ScreenRows
  <2>2. /\ Fields(v) /\ v.row = u.row /\ v.screen = u.screen /\ v.c = u.c /\ v.top = u.top /\ v.bot = u.bot
        /\ v.hist = u.hist /\ v.alt = ~u.alt
    BY <2>1 DEF Fields
  <2> HIDE DEF v
  <2>3. Rows(v) = Rows(u) /\ \A x, y : Line(v, x, y) = Line(u, x, y)
    BY <2>2 DEF Rows, Line
  <2>4. IsScreen(v)
    <3>1. IsFrame(u) /\ (~u.alt) \in BOOLEAN
      BY <1>3 DEF IsScreen
    <3>2. IsFrame(v)
      BY <2>2, <2>3, <3>1 DEF IsFrame
    <3>3. \A x \in BOOLEAN : \A y \in Rows(v) : Line(v, x, y) \in Text
      BY <1>3, <2>3 DEF IsScreen
    <3> QED
      BY <3>2, <3>3 DEF IsScreen
  <2>5. SameLines(v, w)
    BY <2>2, tsetdirtKeepsLines
  <2> HIDE DEF w
  <2>6. IsScreen(w) /\ Rows(w) = Rows(v) /\ \A x, y : Line(w, x, y) = Line(v, x, y)
    BY <2>4, <2>5, SameLinesIsScreen
  <2>7. w.row = s.row /\ w.top = s.top /\ w.bot = s.bot /\ w.alt = set /\ w.hist = u.hist
    BY <1>2, <1>3, <1>5, <2>2, <2>5 DEF SameLines
  <2>8. SamePast(s, w)
    BY <1>3, <2>3, <2>6, <2>7, ZenonT(60) DEF SamePast
  <2>9. SwapsTo(s, w, set)
    <3>1. \A x, y : Line(w, x, y) = Line(u, x, y)
      BY <2>3, <2>6
    <3>2. /\ \A y \in Rows(s) : Line(w, FALSE, y) = Line(s, FALSE, y)
          /\ \A y \in Rows(s) : Line(w, TRUE, y) = IF s.alt THEN Blank ELSE Line(s, TRUE, y)
      BY <1>3, <3>1
    <3> QED
      BY <2>6, <2>7, <2>8, <3>2 DEF SwapsTo
  <2> QED
    BY <1>1, <1>5, <2>9
<1> QED
  BY <1>4, <1>5

(* The main page keeps its lines from the k-th on, those before are history *)
(* and new rows are blank.                                                  *)
ResizesTo(s, u, row, k) ==
    /\ IsScreen(u) /\ u.row = row /\ u.alt = s.alt /\ u.top = 0 /\ u.bot = row - 1
    /\ u.hist = Least(s.hist + k, HISTSIZE - row)
    /\ \A y \in 0..(row - 1) : Line(u, FALSE, y) = IF y + k < s.row THEN Line(s, FALSE, y + k) ELSE Blank
    /\ \A j \in 1..u.hist : Line(u, FALSE, -j) = Line(s, FALSE, k - j)

(* What tresize makes of the main buffer B. *)
MainBuffer(B, m, cur, old, row) ==
    LET new   == {(cur + i) % m : i \in old..(row - 1)}
        inView == {(cur + i) % m : i \in 0..(row - 1)}
    IN  [k \in DOMAIN B |-> IF k \in new THEN Blank ELSE IF k \in inView THEN ensureline(B[k]) ELSE B[k]]

(* The rows of a ring hold text. *)
TextRows(B, m, c, row) == \A y \in 0..(row - 1) : B[Slot(c, m, y)] \in Text

(* Where the lines of B are in F. *)
MainMoved(B, F, m, c, cur, old, row, k) ==
    /\ \A y \in 0..(row - 1) : F[Slot(cur, m, y)] = IF y + k < old THEN B[Slot(c, m, y + k)] ELSE Blank
    /\ \A j \in 1..(m - row) : F[Slot(cur, m, -j)] = B[Slot(c, m, k - j)]

(* Where the lines of the main page are after tresize has moved its start. *)
LEMMA MainResized ==
    ASSUME NEW m \in Nat \ {0}, NEW c \in 0..(m - 1), NEW B \in Rings(m), NEW old \in 1..m, NEW row \in 1..m,
           NEW k \in Nat, k # 0 => k + row <= old, MaxText \in Nat,
           TextRows(B, m, c, old),
           NEW cur, cur = (c + k) % m, NEW F, F = MainBuffer(B, m, cur, old, row)
    PROVE  F \in Rings(m) /\ cur \in 0..(m - 1) /\ MainMoved(B, F, m, c, cur, old, row, k)
<1> DEFINE new == {(cur + i) % m : i \in old..(row - 1)}
           inView == {(cur + i) % m : i \in 0..(row - 1)}
           S(y) == Slot(cur, m, y)
<1>1. F = [x \in DOMAIN B |-> IF x \in new THEN Blank ELSE IF x \in inView THEN ensureline(B[x]) ELSE B[x]]
  BY Zenon DEF MainBuffer
<1>2. c + k \in Nat /\ cur \in 0..(m - 1)
  <2> DEFINE x == c + k
  <2>1. x \in Nat
    OBVIOUS
  <2> HIDE DEF x
  <2>2. x % m \in 0..(m - 1)
    BY <2>1, ModBound
  <2> QED
    BY <2>1, <2>2 DEF x
<1>3. \A y \in Int : y >= -m => S(y) = Slot(c, m, y + k)
  <2> SUFFICES ASSUME NEW y \in Int, y >= -m PROVE S(y) = Slot(c, m, y + k)
    OBVIOUS
  <2>1. S(y) = (y + (c + k) + m) % m
    BY <1>2, SlotsMoved DEF S
  <2>2. y + (c + k) + m = (y + k) + c + m
    OBVIOUS
  <2> QED
    BY <2>1, <2>2 DEF Slot
<1>4. \A i \in Nat : (cur + i) % m = S(i)
  <2> SUFFICES ASSUME NEW i \in Nat PROVE (cur + i) % m = S(i)
    OBVIOUS
  <2> DEFINE x == cur + i
  <2>1. x \in Nat /\ i + cur + m = x + m
    BY <1>2
  <2> HIDE DEF x
  <2>2. (x + m) % m = x % m
    BY <2>1, ModMinus
  <2> QED
    BY <2>1, <2>2 DEF Slot, x
<1>5. /\ \A y \in (row - m)..(row - 1) : S(y) \in 0..(m - 1)
      /\ \A y, z \in (row - m)..(row - 1) : y # z => S(y) # S(z)
  <2>1. row - m \in Int /\ row - m >= -m /\ row - 1 \in Int /\ (row - 1) - (row - m) < m
    OBVIOUS
  <2>2. Apart(cur, m, row - m, row - 1)
    BY <1>2, <2>1, SlotsOfRange
  <2> QED
    BY <2>2 DEF Apart
<1>6. /\ \A y \in (row - m)..(row - 1) : S(y) \in new <=> y \in old..(row - 1)
      /\ \A y \in (row - m)..(row - 1) : S(y) \in inView <=> y \in 0..(row - 1)
  <2>1. \A i \in 0..(row - 1) : i \in (row - m)..(row - 1) /\ i \in Nat
    OBVIOUS
  <2>2. \A i \in old..(row - 1) : i \in 0..(row - 1)
    OBVIOUS
  <2> HIDE DEF S
  <2> SUFFICES ASSUME NEW y \in (row - m)..(row - 1)
               PROVE  (S(y) \in new <=> y \in old..(row - 1)) /\ (S(y) \in inView <=> y \in 0..(row - 1))
    BY Zenon
  <2>3. S(y) \in inView <=> y \in 0..(row - 1)
    BY <1>4, <1>5, <2>1, ZenonT(60)
  <2>4. S(y) \in new <=> y \in old..(row - 1)
    BY <1>4, <1>5, <2>1, <2>2, ZenonT(60)
  <2> QED
    BY <2>3, <2>4
<1> HIDE DEF new, inView, S
<1>7. F \in Rings(m)
  BY <1>1 DEF Rings, Text, Blank, ensureline
<1>8. \A y \in (row - m)..(row - 1) :
         F[S(y)] = IF y \in old..(row - 1) THEN Blank ELSE IF y \in 0..(row - 1) THEN ensureline(B[S(y)]) ELSE B[S(y)]
  BY <1>1, <1>5, <1>6 DEF Rings
<1>9. ASSUME NEW y \in 0..(row - 1)
      PROVE  F[S(y)] = IF y + k < old THEN B[Slot(c, m, y + k)] ELSE Blank
  <2>1. y \in (row - m)..(row - 1) /\ y \in Int /\ y >= -m
    OBVIOUS
  <2>2. y \in old..(row - 1) <=> ~(y + k < old)
    OBVIOUS
  <2>3. CASE y + k < old
    <3>1. y + k \in 0..(old - 1)
      BY <2>3
    <3>2. B[Slot(c, m, y + k)] \in Text /\ S(y) = Slot(c, m, y + k)
      BY <1>3, <2>1, <3>1 DEF TextRows
    <3>3. ensureline(B[S(y)]) = B[S(y)]
      BY <3>2 DEF ensureline, Text, NULL
    <3> QED
      BY <1>8, <2>1, <2>2, <2>3, <3>2, <3>3
  <2>4. CASE ~(y + k < old)
    BY <1>8, <2>1, <2>2, <2>4
  <2> QED
    BY <2>3, <2>4
<1>10. ASSUME NEW j \in 1..(m - row)
       PROVE  F[S(-j)] = B[Slot(c, m, k - j)]
  <2>1. -j \in (row - m)..(row - 1) /\ -j \in Int /\ -j >= -m /\ -j \notin old..(row - 1) /\ -j \notin 0..(row - 1)
        /\ (-j) + k = k - j
    OBVIOUS
  <2>2. F[S(-j)] = B[S(-j)]
    BY <1>8, <2>1
  <2>3. S(-j) = Slot(c, m, k - j)
    BY <1>3, <2>1
  <2> QED
    BY <2>2, <2>3
<1> QED
  BY <1>2, <1>7, <1>9, <1>10, Zenon DEF S, MainMoved

(* Each slot of a ring is some line's. *)
LEMMA EverySlot ==
    ASSUME NEW m \in Nat \ {0}, NEW c \in 0..(m - 1), NEW k \in 0..(m - 1)
    PROVE  \E y \in 0..(m - 1) : Slot(c, m, y) = k
<1> DEFINE y == IF k >= c THEN k - c ELSE k - c + m
<1>1. y \in 0..(m - 1)
  OBVIOUS
<1>2. y + c + m = IF k >= c THEN k + m ELSE (k + m) + m
  OBVIOUS
<1>3. k \in Nat /\ k + m \in Nat
  OBVIOUS
<1>4. (k + m) % m = k % m /\ ((k + m) + m) % m = (k + m) % m /\ k % m = k
  BY <1>3, ModMinus, ModSmall
<1> HIDE DEF y
<1>5. Slot(c, m, y) = k
  BY <1>2, <1>4 DEF Slot
<1> QED
  BY <1>1, <1>5

(* The alternate page of another size holds text.                          *)
LEMMA AltResized ==
    ASSUME NEW m \in Nat \ {0}, NEW c \in 0..(m - 1), NEW B \in Rings(m), NEW row \in Nat \ {0}, MaxText \in Nat,
           \A y \in 0..(m - 1) : B[Slot(c, m, y)] \in Text
    PROVE  [k \in 0..(row - 1) |-> IF k < m THEN B[k] ELSE Blank] \in [0..(row - 1) -> Text]
<1>1. \A k \in 0..(m - 1) : B[k] \in Text
  <2> SUFFICES ASSUME NEW k \in 0..(m - 1) PROVE B[k] \in Text
    OBVIOUS
  <2>1. PICK y \in 0..(m - 1) : Slot(c, m, y) = k
    BY EverySlot
  <2> QED
    BY <2>1
<1>2. \A k \in 0..(row - 1) : k < m => k \in 0..(m - 1)
  OBVIOUS
<1> QED
  BY <1>1, <1>2 DEF Text, Blank

(* tresize keeps the lines of the main page from the cursor's window on,   *)
(* makes those before it history and blanks the alternate page's new rows. *)
LEMMA tresizeResizes ==
    ASSUME NEW s, IsScreen(s), NEW row \in 1..MaxRow
    PROVE  Shift(s, row) \in 0..s.row /\ ResizesTo(s, tresize(s, row), row, Shift(s, row))
<1> DEFINE k == Shift(s, row)
           m == HISTSIZE
           M == s.screen[FALSE]
           A == s.screen[TRUE]
           cur == (M.cur + k) % m
           new == {(cur + i) % m : i \in s.row..(row - 1)}
           shown1 == {(cur + i) % m : i \in 0..(row - 1)}
           F == MainBuffer(M.buffer, m, cur, s.row, row)
           G == [j \in 0..(row - 1) |-> IF j < s.row THEN A.buffer[j] ELSE Blank]
           main == [M EXCEPT !.cur = cur, !.buffer = F]
           alt == [A EXCEPT !.cur = 0, !.size = row, !.buffer = G]
           hist == Least(s.hist + k, m - row)
           screen == [x \in BOOLEAN |-> IF x THEN alt ELSE main]
           u == [s EXCEPT !.screen = screen, !.row = row, !.hist = hist]
           v == tsetscroll(u, 0, row - 1)
           w == tmoveto(v, s.c.y)
           x == tfulldirt(w)
<1>1. tresize(s, row) = x
  BY Zenon DEF tresize, MainBuffer
<1>2. IsFrame(s)
  BY DEF IsScreen
<1>3. /\ ScreenAssumption /\ m \in Nat \ {0} /\ row \in 1..m /\ row \in Nat \ {0} /\ MaxText \in Nat
      /\ s.row \in 1..m /\ s.row \in Nat \ {0} /\ s.hist \in 0..(m - s.row) /\ s.c.y \in 0..(s.row - 1)
      /\ s.alt \in BOOLEAN /\ Fields(s) /\ s.c \in Cursors
      /\ IsRing(M, m) /\ IsRing(A, s.row)
  <2>1. ScreenAssumption /\ m \in Nat \ {0} /\ MaxRow \in 1..m /\ MaxText \in Nat
    BY <1>2 DEF IsFrame, ScreenAssumption
  <2>2. s.row \in 1..m /\ s.hist \in 0..(m - s.row) /\ s.alt \in BOOLEAN /\ Fields(s) /\ s.c \in Cursors
        /\ IsRing(M, m) /\ IsRing(A, s.row)
    BY <1>2 DEF IsFrame
  <2>3. s.c.y \in 0..(s.row - 1)
    BY <1>2 DEF IsFrame, Rows
  <2> QED
    BY <2>1, <2>2, <2>3
<1>4. k \in 0..s.row /\ k \in Nat /\ (k # 0 => k + row <= s.row)
  <2> DEFINE y == s.c.y
             old == s.row
  <2>1. y \in 0..(old - 1) /\ old \in Nat \ {0} /\ row \in Nat \ {0}
    BY <1>3
  <2>2. k = IF row <= y THEN y - row + 1 ELSE 0
    BY DEF Shift
  <2> HIDE DEF y, old, k
  <2>3. k \in 0..old /\ k \in Nat /\ (k # 0 => k + row <= old)
    BY <2>1, <2>2
  <2> QED
    BY <2>3 DEF old
<1>5. hist \in 0..(m - row)
  <2> DEFINE h == s.hist
  <2>1. h \in Nat /\ m \in Nat /\ row \in 1..m
    BY <1>3
  <2> HIDE DEF h, m, k
  <2>2. Least(h + k, m - row) \in 0..(m - row)
    BY <1>4, <2>1 DEF Least
  <2> QED
    BY <2>2 DEF h
<1>6. /\ \A y \in 0..(s.row - 1) : M.buffer[Slot(M.cur, m, y)] = Line(s, FALSE, y)
      /\ \A j \in Int : M.buffer[Slot(M.cur, m, j)] = Line(s, FALSE, j)
      /\ \A y \in 0..(s.row - 1) : M.buffer[Slot(M.cur, m, y)] \in Text
      /\ \A y \in 0..(s.row - 1) : A.buffer[Slot(A.cur, s.row, y)] \in Text
  <2>1. M.size = m /\ A.size = s.row
    BY <1>3 DEF IsRing
  <2>2. \A y : M.buffer[Slot(M.cur, m, y)] = Line(s, FALSE, y) /\ A.buffer[Slot(A.cur, s.row, y)] = Line(s, TRUE, y)
    BY <2>1 DEF Line, Slot
  <2>3. \A y \in 0..(s.row - 1) : Line(s, FALSE, y) \in Text /\ Line(s, TRUE, y) \in Text
    BY DEF IsScreen, Rows
  <2> HIDE DEF M, A
  <2> QED
    BY <2>2, <2>3
<1>7. M.cur \in 0..(m - 1) /\ M.buffer \in Rings(m) /\ A.cur \in 0..(s.row - 1) /\ A.buffer \in Rings(s.row)
      /\ M.sc \in Cursors /\ A.sc \in Cursors
  BY <1>3 DEF IsRing
<1> HIDE DEF k, m, M, A
<1>8. /\ F \in Rings(m) /\ cur \in 0..(m - 1)
      /\ \A y \in 0..(row - 1) : F[Slot(cur, m, y)] = IF y + k < s.row THEN M.buffer[Slot(M.cur, m, y + k)] ELSE Blank
      /\ \A j \in 1..(m - row) : F[Slot(cur, m, -j)] = M.buffer[Slot(M.cur, m, k - j)]
  <2> DEFINE B == M.buffer
             c == M.cur
             old == s.row
  <2>0. m \in Nat \ {0} /\ MaxText \in Nat
    BY <1>3
  <2>1. /\ c \in 0..(m - 1) /\ B \in Rings(m) /\ old \in 1..m /\ row \in 1..m /\ k \in Nat /\ (k # 0 => k + row <= old)
        /\ TextRows(B, m, c, old)
    BY <1>3, <1>4, <1>6, <1>7 DEF TextRows
  <2>3. cur = (c + k) % m /\ F = MainBuffer(B, m, cur, old, row)
    BY Zenon DEF c, B, old
  <2> HIDE DEF B, c, old, cur, F
  <2>2. F \in Rings(m) /\ cur \in 0..(m - 1) /\ MainMoved(B, F, m, c, cur, old, row, k)
    BY <2>0, <2>1, <2>3, MainResized
  <2> QED
    BY <2>2, Zenon DEF B, c, old, MainMoved
<1>9. G \in [0..(row - 1) -> Text]
  <2> DEFINE old == s.row
             B == A.buffer
             c == A.cur
  <2>0. row \in Nat \ {0} /\ MaxText \in Nat
    BY <1>3
  <2>1. old \in Nat \ {0} /\ c \in 0..(old - 1) /\ B \in Rings(old) /\ \A y \in 0..(old - 1) : B[Slot(c, old, y)] \in Text
    BY <1>3, <1>6, <1>7
  <2> HIDE DEF old, B, c
  <2>2. [j \in 0..(row - 1) |-> IF j < old THEN B[j] ELSE Blank] \in [0..(row - 1) -> Text]
    BY <2>0, <2>1, AltResized
  <2> QED
    BY <2>2 DEF old, B
<1> HIDE DEF F, G, cur
<1>10. /\ IsRing(main, m) /\ main.cur = cur /\ main.buffer = F /\ main.size = m
       /\ IsRing(alt, row) /\ alt.cur = 0 /\ alt.buffer = G /\ alt.size = row
  <2>1. G \in Rings(row)
    BY <1>9 DEF Rings
  <2>6. IsRing(M, m) /\ IsRing(A, s.row)
    BY <1>3
  <2>7. /\ M = [buffer |-> M.buffer, size |-> M.size, cur |-> M.cur, off |-> M.off, sc |-> M.sc] /\ M.size = m
        /\ A = [buffer |-> A.buffer, size |-> A.size, cur |-> A.cur, off |-> A.off, sc |-> A.sc]
    BY <2>6, Zenon DEF IsRing
  <2>8. main = [M EXCEPT !.cur = cur, !.buffer = F] /\ alt = [A EXCEPT !.cur = 0, !.size = row, !.buffer = G]
    OBVIOUS
  <2> HIDE DEF main, alt
  <2>2. /\ main = [buffer |-> main.buffer, size |-> main.size, cur |-> main.cur, off |-> main.off, sc |-> main.sc]
        /\ main.cur = cur /\ main.buffer = F /\ main.size = m /\ main.sc = M.sc
    BY <2>7, <2>8
  <2>3. /\ alt = [buffer |-> alt.buffer, size |-> alt.size, cur |-> alt.cur, off |-> alt.off, sc |-> alt.sc]
        /\ alt.cur = 0 /\ alt.buffer = G /\ alt.size = row /\ alt.sc = A.sc
    BY <2>7, <2>8
  <2>4. IsRing(main, m)
    BY <1>7, <1>8, <2>2 DEF IsRing
  <2>5. IsRing(alt, row)
    BY <1>3, <1>7, <2>1, <2>3 DEF IsRing
  <2> QED
    BY <2>2, <2>3, <2>4, <2>5
<1> HIDE DEF main, alt
<1>11. screen[FALSE] = main /\ screen[TRUE] = alt /\ screen = [z \in BOOLEAN |-> screen[z]]
  OBVIOUS
<1> HIDE DEF screen, hist
<1>12. /\ Fields(x) /\ x.row = row /\ x.screen = screen /\ x.alt = s.alt /\ x.hist = hist
       /\ x.top = 0 /\ x.bot = row - 1
       /\ x.c = [s.c EXCEPT !.wrapnext = FALSE,
                            !.y = IF s.c.origin THEN LIMIT(s.c.y, 0, row - 1) ELSE LIMIT(s.c.y, 0, row - 1)]
  <2>1. /\ Fields(u) /\ u.row = row /\ u.screen = screen /\ u.alt = s.alt /\ u.hist = hist /\ u.c = s.c
    <3>1. Fields(s)
      BY <1>3
    <3>2. u = [s EXCEPT !.screen = screen, !.row = row, !.hist = hist]
      OBVIOUS
    <3> HIDE DEF u
    <3> QED
      BY <3>1, <3>2 DEF Fields
  <2> HIDE DEF u
  <2>2. /\ Fields(v) /\ v.row = row /\ v.screen = screen /\ v.alt = s.alt /\ v.hist = hist /\ v.c = s.c
        /\ v.top = 0 /\ v.bot = row - 1
    <3>1. LIMIT(0, 0, row - 1) = 0 /\ LIMIT(row - 1, 0, row - 1) = row - 1
      BY <1>3 DEF LIMIT
    <3>2. Least(0, row - 1) = 0 /\ Most(0, row - 1) = row - 1
      BY <1>3 DEF Least, Most
    <3> DEFINE last == row - 1
    <3>3. v = [u EXCEPT !.top = Least(LIMIT(0, 0, u.row - 1), LIMIT(row - 1, 0, u.row - 1)),
                        !.bot = Most(LIMIT(0, 0, u.row - 1), LIMIT(row - 1, 0, u.row - 1))]
      BY Zenon DEF tsetscroll
    <3> HIDE DEF v
    <3>4. v = [u EXCEPT !.top = 0, !.bot = last]
      BY <2>1, <3>1, <3>2, <3>3
    <3> HIDE DEF last
    <3>5. /\ Fields(v) /\ v.row = row /\ v.screen = screen /\ v.alt = s.alt /\ v.hist = hist /\ v.c = s.c
          /\ v.top = 0 /\ v.bot = last
      BY <2>1, <3>4 DEF Fields
    <3> QED
      BY <3>5 DEF last
  <2> HIDE DEF v
  <2>3. /\ Fields(w) /\ w.row = row /\ w.screen = screen /\ w.alt = s.alt /\ w.hist = hist
        /\ w.top = 0 /\ w.bot = row - 1
        /\ w.c = [s.c EXCEPT !.wrapnext = FALSE,
                             !.y = IF s.c.origin THEN LIMIT(s.c.y, 0, row - 1) ELSE LIMIT(s.c.y, 0, row - 1)]
    <3> DEFINE d == IF v.c.origin THEN LIMIT(s.c.y, v.top, v.bot) ELSE LIMIT(s.c.y, 0, v.row - 1)
               e == IF s.c.origin THEN LIMIT(s.c.y, 0, row - 1) ELSE LIMIT(s.c.y, 0, row - 1)
    <3>1. w = [v EXCEPT !.c.wrapnext = FALSE, !.c.y = d]
      BY Zenon DEF tmoveto
    <3>2. d = e
      BY <2>2
    <3> HIDE DEF w, d, e
    <3>3. /\ Fields(w) /\ w.row = v.row /\ w.screen = v.screen /\ w.alt = v.alt /\ w.hist = v.hist
          /\ w.top = v.top /\ w.bot = v.bot /\ w.c = [v.c EXCEPT !.wrapnext = FALSE, !.y = e]
      BY <2>2, <3>1, <3>2 DEF Fields
    <3> QED
      BY <2>2, <3>3 DEF e
  <2> HIDE DEF w
  <2>4. SameLines(w, x)
    BY <2>3, tsetdirtKeepsLines
  <2> HIDE DEF x
  <2> QED
    BY <2>3, <2>4 DEF SameLines
<1> HIDE DEF x
<1>13. x.c \in Cursors /\ x.c.y \in 0..(row - 1)
  <2> DEFINE c == s.c
             r == [row |-> row]
  <2>1. c \in Cursors
    BY <1>3
  <2> HIDE DEF c
  <2> DEFINE y == c.y
             d == IF c.origin THEN LIMIT(y, 0, row - 1) ELSE LIMIT(y, 0, row - 1)
             e == [c EXCEPT !.wrapnext = FALSE, !.y = d]
  <2>2. y \in Nat
    BY <2>1 DEF Cursors
  <2> HIDE DEF y
  <2>3. d \in 0..(row - 1) /\ d \in Nat
    BY <1>3, <2>2 DEF LIMIT
  <2> HIDE DEF d
  <2>4. e \in Cursors /\ e.y = d
    <3>1. c \in [y : Nat, wrapnext : BOOLEAN, origin : BOOLEAN]
      BY <2>1 DEF Cursors
    <3>2. c.origin \in BOOLEAN
      BY <3>1
    <3>3. e = [c EXCEPT !.wrapnext = FALSE, !.y = d]
      OBVIOUS
    <3> HIDE DEF e
    <3>4. e = [y |-> d, wrapnext |-> FALSE, origin |-> c.origin]
      BY <3>1, <3>3
    <3> QED
      BY <2>3, <3>2, <3>4 DEF Cursors
  <2>5. x.c = e
    BY <1>12 DEF e, d, y, c
  <2> QED
    BY <2>3, <2>4, <2>5
<1>14. IsFrame(x)
  <2>1. Rows(x) = 0..(row - 1)
    BY <1>12 DEF Rows
  <2>2. x.top \in 0..(row - 1) /\ x.bot \in x.top..(x.row - 1) /\ x.row \in 1..HISTSIZE /\ x.hist \in 0..(HISTSIZE - x.row)
    BY <1>3, <1>5, <1>12 DEF m
  <2>3. IsRing(x.screen[FALSE], HISTSIZE) /\ IsRing(x.screen[TRUE], x.row) /\ x.screen = [z \in BOOLEAN |-> x.screen[z]]
    BY <1>10, <1>11, <1>12 DEF m
  <2> QED
    BY <1>3, <1>12, <1>13, <2>1, <2>2, <2>3 DEF IsFrame
<1>15. /\ \A y : Line(x, FALSE, y) = F[Slot(cur, m, y)]
       /\ \A y : Line(x, TRUE, y) = G[Slot(0, row, y)]
  BY <1>10, <1>11, <1>12 DEF Line, Slot
<1>16. ASSUME NEW y \in 0..(row - 1)
       PROVE  Line(x, FALSE, y) = IF y + k < s.row THEN Line(s, FALSE, y + k) ELSE Blank
  <2>1. y + k \in Int
    BY <1>4
  <2> DEFINE z == y + k
  <2>2. F[Slot(cur, m, y)] = IF z < s.row THEN M.buffer[Slot(M.cur, m, z)] ELSE Blank
    BY <1>8
  <2> HIDE DEF z
  <2>3. M.buffer[Slot(M.cur, m, z)] = Line(s, FALSE, z)
    BY <1>6, <2>1 DEF z
  <2>4. Line(x, FALSE, y) = IF z < s.row THEN Line(s, FALSE, z) ELSE Blank
    BY <1>15, <2>2, <2>3
  <2> QED
    BY <2>4 DEF z
<1>17. ASSUME NEW j \in 1..x.hist
       PROVE  Line(x, FALSE, -j) = Line(s, FALSE, k - j)
  <2>1. j \in 1..(m - row) /\ j \in Int
    <3>1. x.hist \in 0..(m - row) /\ m - row \in Int
      BY <1>3, <1>5, <1>12
    <3> DEFINE h == x.hist
    <3>2. h \in 0..(m - row) /\ j \in 1..h
      BY <3>1
    <3> HIDE DEF h
    <3> QED
      BY <3>1, <3>2
  <2>2. k - j \in Int
    BY <1>4, <2>1
  <2> DEFINE z == k - j
  <2>3. F[Slot(cur, m, -j)] = M.buffer[Slot(M.cur, m, z)]
    BY <1>8, <2>1
  <2> HIDE DEF z
  <2>4. M.buffer[Slot(M.cur, m, z)] = Line(s, FALSE, z)
    BY <1>6, <2>2 DEF z
  <2> QED
    BY <1>15, <2>3, <2>4 DEF z
<1>18. IsScreen(x)
  <2>1. Blank \in Text
    BY <1>3 DEF Blank, Text
  <2>2. ASSUME NEW y \in 0..(row - 1) PROVE Line(x, FALSE, y) \in Text /\ Line(x, TRUE, y) \in Text
    <3>1. Line(x, FALSE, y) \in Text
      <4> DEFINE old == s.row
                 z == y + k
      <4>1. z < old => z \in 0..(old - 1)
        BY <1>3, <1>4
      <4> HIDE DEF z, old
      <4>2. z < old => Line(s, FALSE, z) \in Text
        BY <4>1 DEF IsScreen, Rows, old
      <4>3. Line(x, FALSE, y) = IF z < old THEN Line(s, FALSE, z) ELSE Blank
        BY <1>16 DEF z, old
      <4> QED
        BY <2>1, <4>2, <4>3
    <3>2. Line(x, TRUE, y) \in Text
      <4>1. 0 \in 0..(row - 1) /\ y \in Int /\ y >= -row
        BY <1>3
      <4>2. Slot(0, row, y) \in 0..(row - 1)
        BY <1>3, <4>1, SlotInRing
      <4> QED
        BY <1>9, <1>15, <4>2
    <3> QED
      BY <3>1, <3>2
  <2>3. Rows(x) = 0..(row - 1)
    BY <1>12 DEF Rows
  <2>4. \A z \in BOOLEAN : \A y \in Rows(x) : Line(x, z, y) \in Text
    BY <2>2, <2>3
  <2> QED
    BY <1>14, <2>4 DEF IsScreen
<1>19. ResizesTo(s, x, row, k)
  BY <1>12, <1>16, <1>17, <1>18 DEF ResizesTo, hist, m
<1> QED
  BY <1>1, <1>4, <1>19 DEF k

(* Sequences as functions on 1..n. *)
LEMMA JoinedPages ==
    ASSUME NEW V, NEW i \in Nat, NEW j \in Nat, NEW f \in [1..i -> V], NEW g \in [1..j -> V]
    PROVE  f \o g = [k \in 1..(i + j) |-> IF k <= i THEN f[k] ELSE g[k - i]] /\ f \o g \in [1..(i + j) -> V]
<1>1. Len(f) = i /\ Len(g) = j /\ f \in Seq(V) /\ g \in Seq(V)
  OBVIOUS
<1>2. f \o g \in Seq(V) /\ Len(f \o g) = i + j
  BY <1>1
<1>3. \A k \in 1..(i + j) : (f \o g)[k] = IF k <= i THEN f[k] ELSE g[k - i]
  BY <1>1
<1> DEFINE h == f \o g
<1> HIDE DEF h
<1>4. h = [k \in 1..Len(h) |-> h[k]] /\ h \in [1..Len(h) -> V]
  <2>1. h \in Seq(V)
    BY <1>2 DEF h
  <2> QED
    BY <2>1
<1>5. Len(h) = i + j /\ \A k \in 1..(i + j) : h[k] = IF k <= i THEN f[k] ELSE g[k - i]
  BY <1>2, <1>3 DEF h
<1> QED
  BY <1>4, <1>5 DEF h

(* A part of a list, as a function.                                        *)
LEMMA CutPages ==
    ASSUME NEW V, NEW l \in Nat, NEW f \in [1..l -> V], NEW i \in 1..(l + 1), NEW j \in (i - 1)..l
    PROVE  SubSeq(f, i, j) = [k \in 1..(j - i + 1) |-> f[k + i - 1]] /\ SubSeq(f, i, j) \in [1..(j - i + 1) -> V]
<1>1. Len(f) = l /\ f \in Seq(V)
  OBVIOUS
<1>2. SubSeq(f, i, j) = [k \in 1..(j - i + 1) |-> f[k + i - 1]]
  BY <1>1
<1>3. \A k \in 1..(j - i + 1) : k + i - 1 \in 1..l
  OBVIOUS
<1> QED
  BY <1>2, <1>3

(* The length of such a list.                                              *)
LEMMA LengthPages ==
    ASSUME NEW V, NEW l \in Nat, NEW f \in [1..l -> V]
    PROVE  Len(f) = l
OBVIOUS

(* Blank lines, as a function.                                             *)
LEMMA BlankPages ==
    ASSUME NEW V, Blank \in V, NEW n \in Nat
    PROVE  Lines!Blanks(n) = [k \in 1..n |-> Blank] /\ Lines!Blanks(n) \in [1..n -> V]
BY DEF Lines!Blanks

(* Three lists one after the other.                                        *)
LEMMA ThreePages ==
    ASSUME NEW V, NEW i \in Nat, NEW j \in Nat, NEW n \in Nat,
           NEW A \in [1..i -> V], NEW B \in [1..j -> V], NEW C \in [1..n -> V]
    PROVE  /\ A \o B \o C = [k \in 1..(i + j + n) |-> IF k <= i THEN A[k] ELSE IF k <= i + j THEN B[k - i]
                                                      ELSE C[k - (i + j)]]
           /\ A \o B \o C \in [1..(i + j + n) -> V]
<1> DEFINE F == A \o B
           h == i + j
<1>1. F = [k \in 1..(i + j) |-> IF k <= i THEN A[k] ELSE B[k - i]] /\ F \in [1..(i + j) -> V]
  BY JoinedPages
<1>2. h \in Nat /\ F \in [1..h -> V]
  BY <1>1
<1> HIDE DEF F, h
<1>3. F \o C = [k \in 1..(h + n) |-> IF k <= h THEN F[k] ELSE C[k - h]] /\ F \o C \in [1..(h + n) -> V]
  BY <1>2, JoinedPages
<1>4. \A k \in 1..(i + j + n) : k <= i + j => F[k] = IF k <= i THEN A[k] ELSE B[k - i]
  BY <1>1
<1>5. h = i + j
  BY DEF h
<1>6. i + j \in Nat /\ (i + j) + n = i + j + n
  OBVIOUS
<1> DEFINE G == F \o C
           W == [k \in 1..(i + j + n) |-> IF k <= i THEN A[k] ELSE IF k <= i + j THEN B[k - i] ELSE C[k - (i + j)]]
<1>7. G = [k \in 1..(i + j + n) |-> IF k <= i + j THEN F[k] ELSE C[k - (i + j)]] /\ G \in [1..(i + j + n) -> V]
  BY <1>3, <1>5
<1> HIDE DEF G
<1>8. ASSUME NEW k \in 1..(i + j + n) PROVE G[k] = W[k]
  <2>1. i <= i + j
    OBVIOUS
  <2> QED
    BY <1>4, <1>7, <2>1
<1>9. G = W
  BY <1>7, <1>8
<1> QED
  BY <1>7, <1>9 DEF G, F

(* U is four lists one after the other, of lengths i, j, n and l.          *)
Four(U, A, B, C, D, i, j, n, l) ==
    U = [k \in 1..(i + j + n + l) |->
            IF k <= i THEN A[k] ELSE IF k <= i + j THEN B[k - i]
            ELSE IF k <= i + j + n THEN C[k - (i + j)] ELSE D[k - (i + j + n)]]

(* Four lists one after the other.                                         *)
LEMMA FourPages ==
    ASSUME NEW V, NEW i \in Nat, NEW j \in Nat, NEW n \in Nat, NEW l \in Nat,
           NEW A \in [1..i -> V], NEW B \in [1..j -> V], NEW C \in [1..n -> V], NEW D \in [1..l -> V]
    PROVE  Four(A \o B \o C \o D, A, B, C, D, i, j, n, l)
<1> DEFINE F == A \o B \o C
           h == i + j + n
<1>1. /\ F = [k \in 1..(i + j + n) |-> IF k <= i THEN A[k] ELSE IF k <= i + j THEN B[k - i] ELSE C[k - (i + j)]]
      /\ F \in [1..(i + j + n) -> V]
  BY ThreePages
<1>2. h \in Nat /\ F \in [1..h -> V]
  BY <1>1
<1> HIDE DEF F, h
<1>3. F \o D = [k \in 1..(h + l) |-> IF k <= h THEN F[k] ELSE D[k - h]] /\ F \o D \in [1..(h + l) -> V]
  BY <1>2, JoinedPages
<1>4. \A k \in 1..(i + j + n + l) : k <= i + j + n =>
          F[k] = IF k <= i THEN A[k] ELSE IF k <= i + j THEN B[k - i] ELSE C[k - (i + j)]
  BY <1>1
<1>5. h = i + j + n
  BY DEF h
<1> DEFINE G == F \o D
           W == [k \in 1..(i + j + n + l) |->
                    IF k <= i THEN A[k] ELSE IF k <= i + j THEN B[k - i]
                    ELSE IF k <= i + j + n THEN C[k - (i + j)] ELSE D[k - (i + j + n)]]
<1>6. G = [k \in 1..(i + j + n + l) |-> IF k <= i + j + n THEN F[k] ELSE D[k - (i + j + n)]]
  BY <1>3, <1>5
<1> HIDE DEF G
<1>7. ASSUME NEW k \in 1..(i + j + n + l) PROVE G[k] = W[k]
  <2>1. i <= i + j /\ i + j <= i + j + n
    OBVIOUS
  <2> QED
    BY <1>4, <1>6, <2>1
<1>8. G = W
  BY <1>6, <1>7
<1> QED
  BY <1>8 DEF G, F, Four

(* U is p with the lines a..b moved up by n.                               *)
Upped(U, p, l, a, b, n) ==
    U = [k \in 1..l |-> IF k \in a..(b - n) THEN p[k + n] ELSE IF k \in a..b THEN Blank ELSE p[k]]

(* Up of StLines, line by line.                                            *)
LEMMA UpPages ==
    ASSUME NEW V, Blank \in V, NEW l \in Nat, NEW p \in [1..l -> V],
           NEW a \in 1..l, NEW b \in a..l, NEW n \in 1..(b - a + 1)
    PROVE  Upped(Lines!Up(p, a, b, n), p, l, a, b, n)
<1> DEFINE A == SubSeq(p, 1, a - 1)
           B == SubSeq(p, a + n, b)
           C == Lines!Blanks(n)
           D == SubSeq(p, b + 1, l)
<1>1. Lines!Up(p, a, b, n) = A \o B \o C \o D
  BY LengthPages DEF Lines!Up, Lines!Upto, Lines!From
<1>2. A = [k \in 1..(a - 1) |-> p[k]] /\ A \in [1..(a - 1) -> V]
  <2>1. /\ SubSeq(p, 1, a - 1) = [k \in 1..((a - 1) - 1 + 1) |-> p[k + 1 - 1]]
        /\ SubSeq(p, 1, a - 1) \in [1..((a - 1) - 1 + 1) -> V]
    BY CutPages
  <2>2. (a - 1) - 1 + 1 = a - 1 /\ \A k \in 1..(a - 1) : k + 1 - 1 = k
    OBVIOUS
  <2> QED
    BY <2>1, <2>2
<1>3. B = [k \in 1..(b - n - a + 1) |-> p[k + a + n - 1]] /\ B \in [1..(b - n - a + 1) -> V]
  <2>1. a + n \in 1..(l + 1) /\ b \in ((a + n) - 1)..l
    OBVIOUS
  <2>2. B = [k \in 1..(b - (a + n) + 1) |-> p[k + (a + n) - 1]] /\ B \in [1..(b - (a + n) + 1) -> V]
    BY <2>1, CutPages
  <2>3. b - (a + n) + 1 = b - n - a + 1 /\ \A k \in 1..(b - n - a + 1) : k + (a + n) - 1 = k + a + n - 1
    OBVIOUS
  <2> QED
    BY <2>2, <2>3
<1>4. C = [k \in 1..n |-> Blank] /\ C \in [1..n -> V]
  BY BlankPages
<1>5. D = [k \in 1..(l - b) |-> p[k + b]] /\ D \in [1..(l - b) -> V]
  <2>1. b + 1 \in 1..(l + 1) /\ l \in ((b + 1) - 1)..l
    OBVIOUS
  <2>2. D = [k \in 1..(l - (b + 1) + 1) |-> p[k + (b + 1) - 1]] /\ D \in [1..(l - (b + 1) + 1) -> V]
    BY <2>1, CutPages
  <2>3. l - (b + 1) + 1 = l - b /\ \A k \in 1..(l - b) : k + (b + 1) - 1 = k + b
    OBVIOUS
  <2> QED
    BY <2>2, <2>3
<1>6. a - 1 \in Nat /\ b - n - a + 1 \in Nat /\ n \in Nat /\ l - b \in Nat
  OBVIOUS
<1> HIDE DEF A, B, C, D
<1> DEFINE i == a - 1
           j == b - n - a + 1
           e == l - b
<1>7. i \in Nat /\ j \in Nat /\ e \in Nat /\ A \in [1..i -> V] /\ B \in [1..j -> V] /\ D \in [1..e -> V]
  BY <1>2, <1>3, <1>5, <1>6
<1> HIDE DEF i, j, e
<1> DEFINE U == A \o B \o C \o D
           W == [k \in 1..l |-> IF k \in a..(b - n) THEN p[k + n] ELSE IF k \in a..b THEN Blank ELSE p[k]]
<1>8. Four(U, A, B, C, D, i, j, n, e)
  BY <1>4, <1>6, <1>7, FourPages
<1>9. i = a - 1 /\ i + j = b - n /\ i + j + n = b /\ i + j + n + e = l
  BY DEF i, j, e
<1> HIDE DEF U
<1>10. U = [k \in 1..l |-> IF k <= a - 1 THEN A[k] ELSE IF k <= b - n THEN B[k - (a - 1)]
                           ELSE IF k <= b THEN C[k - (b - n)] ELSE D[k - b]]
  BY <1>8, <1>9 DEF Four
<1>14. ASSUME NEW k \in 1..l PROVE U[k] = W[k]
  <2>1. CASE k <= a - 1
    <3>1. U[k] = A[k]
      BY <1>10, <2>1
    <3>2. A[k] = p[k]
      BY <1>2, <2>1
    <3> QED
      BY <2>1, <3>1, <3>2
  <2>2. CASE k \in a..(b - n)
    <3>1. U[k] = B[k - (a - 1)]
      BY <1>10, <2>2
    <3>2. B[k - (a - 1)] = p[k + n]
      <4>1. k - (a - 1) \in 1..(b - n - a + 1) /\ k - (a - 1) + a + n - 1 = k + n
        BY <2>2
      <4> QED
        BY <1>3, <4>1
    <3> QED
      BY <2>2, <3>1, <3>2
  <2>3. CASE k \in (b - n + 1)..b
    <3>1. U[k] = C[k - (b - n)]
      BY <1>10, <2>3
    <3>2. k - (b - n) \in 1..n
      BY <2>3
    <3> QED
      BY <1>4, <2>3, <3>1, <3>2
  <2>4. CASE k > b
    <3>1. U[k] = D[k - b]
      BY <1>10, <2>4
    <3>2. k - b \in 1..(l - b) /\ k - b + b = k
      BY <2>4
    <3>3. D[k - b] = p[k]
      BY <1>5, <3>2
    <3> QED
      BY <2>4, <3>1, <3>3
  <2> QED
    BY <2>1, <2>2, <2>3, <2>4
<1>15. U = W
  BY <1>10, <1>14
<1> QED
  BY <1>1, <1>15 DEF U, Upped

(* The first lines of a list.                                              *)
LEMMA PrefixPages ==
    ASSUME NEW V, NEW l \in Nat, NEW p \in [1..l -> V], NEW e \in 0..l
    PROVE  Lines!Upto(p, e) = [k \in 1..e |-> p[k]] /\ Lines!Upto(p, e) \in [1..e -> V]
<1>1. 1 \in 1..(l + 1) /\ e \in (1 - 1)..l /\ e - 1 + 1 = e
  OBVIOUS
<1>2. SubSeq(p, 1, e) = [k \in 1..(e - 1 + 1) |-> p[k + 1 - 1]] /\ SubSeq(p, 1, e) \in [1..(e - 1 + 1) -> V]
  BY <1>1, CutPages
<1>3. \A k \in 1..e : k + 1 - 1 = k
  OBVIOUS
<1> QED
  BY <1>1, <1>2, <1>3 DEF Lines!Upto

(* The last lines of a list.                                               *)
LEMMA SuffixPages ==
    ASSUME NEW V, NEW l \in Nat, NEW p \in [1..l -> V], NEW b \in 0..l
    PROVE  Lines!From(p, b + 1) = [k \in 1..(l - b) |-> p[k + b]] /\ Lines!From(p, b + 1) \in [1..(l - b) -> V]
<1>1. b + 1 \in 1..(l + 1) /\ l \in ((b + 1) - 1)..l
  OBVIOUS
<1>2. /\ SubSeq(p, b + 1, l) = [k \in 1..(l - (b + 1) + 1) |-> p[k + (b + 1) - 1]]
      /\ SubSeq(p, b + 1, l) \in [1..(l - (b + 1) + 1) -> V]
  BY <1>1, CutPages
<1>3. l - (b + 1) + 1 = l - b /\ \A k \in 1..(l - b) : k + (b + 1) - 1 = k + b
  OBVIOUS
<1>4. Len(p) = l
  BY LengthPages
<1> QED
  BY <1>2, <1>3, <1>4 DEF Lines!From

(* U is p with the lines a..b moved down by n.                             *)
Downed(U, p, l, a, b, n) ==
    U = [k \in 1..l |-> IF k \in (a + n)..b THEN p[k - n] ELSE IF k \in a..b THEN Blank ELSE p[k]]

(* Down of StLines, line by line.                                          *)
LEMMA DownPages ==
    ASSUME NEW V, Blank \in V, NEW l \in Nat, NEW p \in [1..l -> V],
           NEW a \in 1..l, NEW b \in a..l, NEW n \in 1..(b - a + 1)
    PROVE  Downed(Lines!Down(p, a, b, n), p, l, a, b, n)
<1> DEFINE A == Lines!Upto(p, a - 1)
           B == Lines!Blanks(n)
           C == SubSeq(p, a, b - n)
           D == Lines!From(p, b + 1)
<1>1. Lines!Down(p, a, b, n) = A \o B \o C \o D
  BY DEF Lines!Down
<1>2. A = [k \in 1..(a - 1) |-> p[k]] /\ A \in [1..(a - 1) -> V]
  <2>1. a - 1 \in 0..l
    OBVIOUS
  <2> QED
    BY <2>1, PrefixPages
<1>3. B = [k \in 1..n |-> Blank] /\ B \in [1..n -> V]
  BY BlankPages
<1>4. C = [k \in 1..(b - n - a + 1) |-> p[k + a - 1]] /\ C \in [1..(b - n - a + 1) -> V]
  <2>1. a \in 1..(l + 1) /\ b - n \in (a - 1)..l
    OBVIOUS
  <2> QED
    BY <2>1, CutPages
<1>5. D = [k \in 1..(l - b) |-> p[k + b]] /\ D \in [1..(l - b) -> V]
  <2>1. b \in 0..l
    OBVIOUS
  <2> QED
    BY <2>1, SuffixPages
<1>6. a - 1 \in Nat /\ b - n - a + 1 \in Nat /\ n \in Nat /\ l - b \in Nat
  OBVIOUS
<1> HIDE DEF A, B, C, D
<1> DEFINE i == a - 1
           j == b - n - a + 1
           e == l - b
<1>7. i \in Nat /\ j \in Nat /\ e \in Nat /\ A \in [1..i -> V] /\ C \in [1..j -> V] /\ D \in [1..e -> V]
  BY <1>2, <1>4, <1>5, <1>6
<1> HIDE DEF i, j, e
<1> DEFINE U == A \o B \o C \o D
           W == [k \in 1..l |-> IF k \in (a + n)..b THEN p[k - n] ELSE IF k \in a..b THEN Blank ELSE p[k]]
<1>8. Four(U, A, B, C, D, i, n, j, e)
  BY <1>3, <1>6, <1>7, FourPages
<1>9. i = a - 1 /\ i + n = a + n - 1 /\ i + n + j = b /\ i + n + j + e = l
  BY DEF i, j, e
<1> HIDE DEF U
<1>10. U = [k \in 1..l |-> IF k <= a - 1 THEN A[k] ELSE IF k <= a + n - 1 THEN B[k - (a - 1)]
                           ELSE IF k <= b THEN C[k - (a + n - 1)] ELSE D[k - b]]
  BY <1>8, <1>9 DEF Four
<1>14. ASSUME NEW k \in 1..l PROVE U[k] = W[k]
  <2>1. CASE k <= a - 1
    <3>1. U[k] = A[k]
      BY <1>10, <2>1
    <3>2. A[k] = p[k]
      BY <1>2, <2>1
    <3> QED
      BY <2>1, <3>1, <3>2
  <2>2. CASE k \in a..(a + n - 1)
    <3>1. U[k] = B[k - (a - 1)]
      BY <1>10, <2>2
    <3>2. k - (a - 1) \in 1..n /\ k <= b
      BY <2>2
    <3> QED
      BY <1>3, <2>2, <3>1, <3>2
  <2>3. CASE k \in (a + n)..b
    <3>1. U[k] = C[k - (a + n - 1)]
      BY <1>10, <2>3
    <3>2. k - (a + n - 1) \in 1..(b - n - a + 1) /\ k - (a + n - 1) + a - 1 = k - n
      BY <2>3
    <3>3. C[k - (a + n - 1)] = p[k - n]
      BY <1>4, <3>2
    <3> QED
      BY <2>3, <3>1, <3>3
  <2>4. CASE k > b
    <3>1. U[k] = D[k - b]
      BY <1>10, <2>4
    <3>2. k - b \in 1..(l - b) /\ k - b + b = k
      BY <2>4
    <3>3. D[k - b] = p[k]
      BY <1>5, <3>2
    <3> QED
      BY <2>4, <3>1, <3>3
  <2> QED
    BY <2>1, <2>2, <2>3, <2>4
<1>15. U = W
  BY <1>10, <1>14
<1> QED
  BY <1>1, <1>15 DEF U, Downed

(* What StLines makes of a page when it erases the lines a..b.             *)
Erasing(p, a, b) == Lines!Upto(p, a - 1) \o Lines!Blanks(b - a + 1) \o Lines!From(p, b + 1)

(* U is p with the lines a..b blank.                                       *)
Cleared(U, p, l, a, b) == U = [k \in 1..l |-> IF k \in a..b THEN Blank ELSE p[k]]

(* Erase of StLines, line by line.                                         *)
LEMMA ErasePages ==
    ASSUME NEW V, Blank \in V, NEW l \in Nat, NEW p \in [1..l -> V], NEW a \in 1..l, NEW b \in a..l
    PROVE  Cleared(Erasing(p, a, b), p, l, a, b)
<1> DEFINE A == Lines!Upto(p, a - 1)
           B == Lines!Blanks(b - a + 1)
           D == Lines!From(p, b + 1)
<1>2. A = [k \in 1..(a - 1) |-> p[k]] /\ A \in [1..(a - 1) -> V]
  <2>1. a - 1 \in 0..l
    OBVIOUS
  <2> QED
    BY <2>1, PrefixPages
<1>3. B = [k \in 1..(b - a + 1) |-> Blank] /\ B \in [1..(b - a + 1) -> V]
  <2>1. b - a + 1 \in Nat
    OBVIOUS
  <2> QED
    BY <2>1, BlankPages
<1>5. D = [k \in 1..(l - b) |-> p[k + b]] /\ D \in [1..(l - b) -> V]
  <2>1. b \in 0..l
    OBVIOUS
  <2> QED
    BY <2>1, SuffixPages
<1> HIDE DEF A, B, D
<1> DEFINE i == a - 1
           j == b - a + 1
           e == l - b
<1>7. i \in Nat /\ j \in Nat /\ e \in Nat /\ A \in [1..i -> V] /\ B \in [1..j -> V] /\ D \in [1..e -> V]
  BY <1>2, <1>3, <1>5
<1> HIDE DEF i, j, e
<1> DEFINE U == A \o B \o D
           W == [k \in 1..l |-> IF k \in a..b THEN Blank ELSE p[k]]
<1>8. U = [k \in 1..(i + j + e) |-> IF k <= i THEN A[k] ELSE IF k <= i + j THEN B[k - i] ELSE D[k - (i + j)]]
      /\ U \in [1..(i + j + e) -> V]
  BY <1>7, ThreePages
<1>9. i = a - 1 /\ i + j = b /\ i + j + e = l
  BY DEF i, j, e
<1> HIDE DEF U
<1>10. U = [k \in 1..l |-> IF k <= a - 1 THEN A[k] ELSE IF k <= b THEN B[k - (a - 1)] ELSE D[k - b]]
  BY <1>8, <1>9
<1>14. ASSUME NEW k \in 1..l PROVE U[k] = W[k]
  <2>1. CASE k <= a - 1
    <3>1. U[k] = A[k]
      BY <1>10, <2>1
    <3>2. A[k] = p[k]
      BY <1>2, <2>1
    <3> QED
      BY <2>1, <3>1, <3>2
  <2>2. CASE k \in a..b
    <3>1. U[k] = B[k - (a - 1)]
      BY <1>10, <2>2
    <3>2. k - (a - 1) \in 1..(b - a + 1)
      BY <2>2
    <3> QED
      BY <1>3, <2>2, <3>1, <3>2
  <2>4. CASE k > b
    <3>1. U[k] = D[k - b]
      BY <1>10, <2>4
    <3>2. k - b \in 1..(l - b) /\ k - b + b = k
      BY <2>4
    <3>3. D[k - b] = p[k]
      BY <1>5, <3>2
    <3> QED
      BY <2>4, <3>1, <3>3
  <2> QED
    BY <2>1, <2>2, <2>4
<1>15. U = W
  BY <1>10, <1>14
<1> QED
  BY <1>15 DEF U, A, B, D, Cleared, Erasing

(* The newest L lines of h followed by e. *)
Ends(w, L, h, lh, e, n) == \A j \in 1..L : w[L + 1 - j] = IF j <= n THEN e[n - j + 1] ELSE h[lh + n + 1 - j]

(* L lines are what is left of q in a history beside row rows.             *)
LeastRoom(L, q, row) == L <= q /\ L <= HISTSIZE - row /\ (L = q \/ L = HISTSIZE - row)

(* w is the history h and then e, as far as there is room.                 *)
Newer(w, h, e, row) == w = Lines!Newest(h \o e, row)

(* Newest of StLines, line by line from the end.                           *)
LEMMA NewestPages ==
    ASSUME NEW V, HISTSIZE \in Nat \ {0}, NEW row \in 1..HISTSIZE, NEW lh \in Nat, NEW n \in Nat,
           NEW h \in [1..lh -> V], NEW e \in [1..n -> V],
           NEW L \in Nat, LeastRoom(L, lh + n, row), NEW w \in [1..L -> V], Ends(w, L, h, lh, e, n)
    PROVE  Newer(w, h, e, row)
<1> DEFINE g == h \o e
           q == lh + n
<1>1. g = [k \in 1..(lh + n) |-> IF k <= lh THEN h[k] ELSE e[k - lh]] /\ g \in [1..(lh + n) -> V]
  BY JoinedPages
<1>2. q \in Nat /\ q = lh + n
  OBVIOUS
<1> HIDE DEF g, q
<1>3. Len(g) = q
  BY <1>1, <1>2, LengthPages
<1>4. L \in 0..(HISTSIZE - row) /\ L \in Nat /\ L <= q /\ (L = q \/ L = HISTSIZE - row) /\ (q <= HISTSIZE - row => L = q)
  BY <1>2 DEF LeastRoom
<1>5. ASSUME NEW k \in 1..L PROVE w[k] = g[k + q - L]
  <2> DEFINE j == L + 1 - k
             z == k + q - L
  <2>1. j \in 1..L /\ L + 1 - j = k /\ z \in 1..(lh + n) /\ z = lh + n + 1 - j
    BY <1>2, <1>4
  <2>2. w[k] = IF j <= n THEN e[n - j + 1] ELSE h[lh + n + 1 - j]
    BY <2>1 DEF Ends
  <2>3. (j <= n <=> ~(z <= lh)) /\ n - j + 1 = z - lh
    BY <1>2, <1>4
  <2> HIDE DEF j, z
  <2>4. g[z] = IF z <= lh THEN h[z] ELSE e[z - lh]
    BY <1>1, <2>1
  <2>5. w[k] = g[z]
    BY <2>1, <2>2, <2>3, <2>4
  <2> QED
    BY <2>5 DEF z
<1>6. CASE q <= HISTSIZE - row
  <2>1. Lines!Newest(g, row) = g /\ L = q
    BY <1>2, <1>3, <1>4, <1>6 DEF Lines!Newest
  <2>2. \A k \in 1..L : w[k] = g[k]
    <3>1. \A k \in 1..L : k + q - L = k
      BY <1>4, <2>1
    <3> QED
      BY <1>5, <3>1
  <2>3. g \in [1..L -> V]
    BY <1>1, <1>2, <2>1
  <2>4. g = w
    BY <2>2, <2>3
  <2> QED
    BY <2>1, <2>4 DEF g, Newer
<1>7. CASE ~(q <= HISTSIZE - row)
  <2>1. Lines!Newest(g, row) = SubSeq(g, q - L + 1, q) /\ L = HISTSIZE - row
    BY <1>2, <1>3, <1>4, <1>7 DEF Lines!Newest
  <2>2. q - L + 1 \in 1..(q + 1) /\ q \in ((q - L + 1) - 1)..q /\ g \in [1..q -> V]
    <3>1. q - L + 1 \in 1..(q + 1) /\ q \in ((q - L + 1) - 1)..q
      BY <1>2, <1>4
    <3>2. g \in [1..q -> V]
      BY <1>1, <1>2
    <3> QED
      BY <3>1, <3>2
  <2>3. /\ SubSeq(g, q - L + 1, q) = [k \in 1..(q - (q - L + 1) + 1) |-> g[k + (q - L + 1) - 1]]
        /\ SubSeq(g, q - L + 1, q) \in [1..(q - (q - L + 1) + 1) -> V]
    BY <1>2, <2>2, CutPages
  <2>4. q - (q - L + 1) + 1 = L /\ \A k \in 1..L : k + (q - L + 1) - 1 = k + q - L
    BY <1>2, <1>4
  <2>5. SubSeq(g, q - L + 1, q) = [k \in 1..L |-> g[k + q - L]]
    BY <2>3, <2>4
  <2>6. w = [k \in 1..L |-> g[k + q - L]]
    BY <1>5
  <2> QED
    BY <2>1, <2>5, <2>6 DEF g, Newer
<1> QED
  BY <1>6, <1>7

(* What StLines makes of the main page p when k lines leave it and row     *)
(* rows are shown.                                                         *)
KeptRows(p, k, row) == Lines!Upto(Lines!From(p, k + 1) \o Lines!Blanks(row), row)

(* U shows p from the k-th line on, with blank rows below.                 *)
FromRow(U, p, l, k, row) == U = [y \in 1..row |-> IF y + k <= l THEN p[y + k] ELSE Blank]

(* A resized page, line by line.                                           *)
LEMMA ResizedPages ==
    ASSUME NEW V, Blank \in V, NEW l \in Nat, NEW p \in [1..l -> V], NEW k \in 0..l, NEW row \in Nat
    PROVE  FromRow(KeptRows(p, k, row), p, l, k, row)
<1> DEFINE A == Lines!From(p, k + 1)
           B == Lines!Blanks(row)
           i == l - k
<1>1. A = [y \in 1..(l - k) |-> p[y + k]] /\ A \in [1..(l - k) -> V]
  BY SuffixPages
<1>2. B = [y \in 1..row |-> Blank] /\ B \in [1..row -> V]
  BY BlankPages
<1>3. i \in Nat
  OBVIOUS
<1>9. i = l - k
  OBVIOUS
<1> HIDE DEF A, B, i
<1> DEFINE F == A \o B
<1>4. A \in [1..i -> V] /\ B \in [1..row -> V]
  BY <1>1, <1>2, <1>9
<1>5. F = [y \in 1..(i + row) |-> IF y <= i THEN A[y] ELSE B[y - i]] /\ F \in [1..(i + row) -> V]
  BY <1>3, <1>4, JoinedPages
<1> HIDE DEF F
<1> DEFINE z == i + row
<1>8. z \in Nat /\ row \in 0..z /\ F \in [1..z -> V]
  BY <1>3, <1>5
<1> HIDE DEF z
<1>6. Lines!Upto(F, row) = [y \in 1..row |-> F[y]] /\ Lines!Upto(F, row) \in [1..row -> V]
  BY <1>8, PrefixPages
<1>7. ASSUME NEW y \in 1..row PROVE F[y] = IF y + k <= l THEN p[y + k] ELSE Blank
  <2>1. F[y] = IF y <= i THEN A[y] ELSE B[y - i]
    BY <1>3, <1>5
  <2>2. (y <= i <=> y + k <= l) /\ (y <= i => y \in 1..(l - k)) /\ (~(y <= i) => y - i \in 1..row)
    BY <1>3, <1>9
  <2> QED
    BY <1>1, <1>2, <2>1, <2>2
<1> QED
  BY <1>6, <1>7 DEF F, A, B, FromRow, KeptRows

-----------------------------------------------------------------------------
(* What StLines sees of a screen.                                          *)

(* The pages are lists of text.                                            *)
LEMMA PageOfScreen ==
    ASSUME NEW s, IsScreen(s)
    PROVE  /\ s.row \in Nat \ {0} /\ Rows(s) = 0..(s.row - 1) /\ s.alt \in BOOLEAN
           /\ Pages(s) = [x \in BOOLEAN |-> Pages(s)[x]]
           /\ \A x \in BOOLEAN : Pages(s)[x] = [k \in 1..s.row |-> Line(s, x, k - 1)]
           /\ \A x \in BOOLEAN : Pages(s)[x] \in [1..s.row -> Text]
<1>1. s.row \in Nat \ {0} /\ Rows(s) = 0..(s.row - 1) /\ s.alt \in BOOLEAN
  BY ScreenRows
<1>2. \A x \in BOOLEAN : \A y \in Rows(s) : Line(s, x, y) \in Text
  BY DEF IsScreen
<1> DEFINE row == s.row
<1>3. row \in Nat \ {0} /\ Rows(s) = 0..(row - 1)
  BY <1>1
<1> HIDE DEF row
<1>4. \A k \in 1..row : k - 1 \in Rows(s)
  BY <1>3
<1>5. \A x \in BOOLEAN : \A k \in 1..row : Line(s, x, k - 1) \in Text
  BY <1>2, <1>4
<1>6. \A x \in BOOLEAN : [k \in 1..row |-> Line(s, x, k - 1)] \in [1..row -> Text]
  BY <1>5
<1>7. Pages(s) = [x \in BOOLEAN |-> [k \in 1..row |-> Line(s, x, k - 1)]]
  BY DEF Pages, row
<1>8. \A x \in BOOLEAN : Pages(s)[x] = [k \in 1..row |-> Line(s, x, k - 1)]
  BY <1>7
<1>9. Pages(s) = [x \in BOOLEAN |-> Pages(s)[x]]
  BY <1>7
<1>10. \A x \in BOOLEAN : Pages(s)[x] \in [1..row -> Text]
  BY <1>6, <1>8
<1> QED
  BY <1>1, <1>8, <1>9, <1>10 DEF row

(* What a slot of the ring can hold: lines of the history may not be       *)
(* allocated.                                                              *)
Slots == Text \cup {NULL, Junk}

(* Every line of the history is in a slot.                                 *)
LEMMA LineInSlots ==
    ASSUME NEW s, IsScreen(s), NEW y \in Int, y >= -HISTSIZE
    PROVE  Line(s, FALSE, y) \in Slots
<1>1. IsRing(s.screen[FALSE], HISTSIZE) /\ HISTSIZE \in Nat \ {0}
  BY DEF IsScreen, IsFrame, ScreenAssumption
<1> DEFINE b == s.screen[FALSE]
<1>2. b.size = HISTSIZE /\ b.buffer \in Rings(HISTSIZE) /\ b.cur \in 0..(HISTSIZE - 1)
  BY <1>1 DEF IsRing
<1>3. Line(s, FALSE, y) = b.buffer[Slot(b.cur, HISTSIZE, y)]
  BY <1>2 DEF Line, Slot
<1> HIDE DEF b
<1>4. Slot(b.cur, HISTSIZE, y) \in 0..(HISTSIZE - 1)
  BY <1>1, <1>2, SlotInRing
<1> QED
  BY <1>2, <1>3, <1>4 DEF Rings, Slots

(* The history is a list of such lines.                                    *)
LEMMA PastOfScreen ==
    ASSUME NEW s, IsScreen(s)
    PROVE  /\ s.hist \in Nat /\ s.hist \in 0..(HISTSIZE - s.row) /\ HISTSIZE \in Nat \ {0} /\ s.row \in 1..HISTSIZE
           /\ Past(s) \in [1..s.hist -> Slots]
           /\ \A j \in 1..s.hist : Past(s)[s.hist + 1 - j] = Line(s, FALSE, -j)
<1>1. s.hist \in 0..(HISTSIZE - s.row) /\ HISTSIZE \in Nat \ {0} /\ s.row \in 1..HISTSIZE
  BY DEF IsScreen, IsFrame, ScreenAssumption
<1> DEFINE h == s.hist
           row == s.row
<1>2. h \in 0..(HISTSIZE - row) /\ row \in 1..HISTSIZE
  BY <1>1
<1> HIDE DEF h, row
<1>3. h \in Nat /\ h <= HISTSIZE
  BY <1>1, <1>2
<1>4. \A k \in 1..h : k - 1 - h \in Int /\ k - 1 - h >= -HISTSIZE
  BY <1>1, <1>3
<1>5. \A k \in 1..h : Line(s, FALSE, k - 1 - h) \in Slots
  BY <1>4, LineInSlots
<1>6. Past(s) = [k \in 1..h |-> Line(s, FALSE, k - 1 - h)]
  BY DEF Past, h
<1>7. Past(s) \in [1..h -> Slots]
  BY <1>5, <1>6
<1>8. ASSUME NEW j \in 1..h PROVE Past(s)[h + 1 - j] = Line(s, FALSE, -j)
  <2>1. h + 1 - j \in 1..h /\ (h + 1 - j) - 1 - h = -j
    BY <1>3
  <2> QED
    BY <1>6, <2>1
<1> QED
  BY <1>1, <1>3, <1>7, <1>8 DEF h

(* Functions on 1..l given from their last element back. *)
LEMMA SameBackwards ==
    ASSUME NEW V, NEW l \in Nat, NEW f \in [1..l -> V], NEW g \in [1..l -> V],
           \A j \in 1..l : f[l + 1 - j] = g[l + 1 - j]
    PROVE  f = g
<1>1. ASSUME NEW k \in 1..l PROVE f[k] = g[k]
  <2>1. l + 1 - k \in 1..l /\ l + 1 - (l + 1 - k) = k
    OBVIOUS
  <2> QED
    BY <2>1
<1> QED
  BY <1>1

(* Lines of the history that are the same are the same list.               *)
LEMMA SamePastIsPast ==
    ASSUME NEW s, IsScreen(s), NEW u, IsScreen(u), SamePast(s, u)
    PROVE  Past(u) = Past(s)
<1> DEFINE h == s.hist
<1>1. h \in Nat /\ Past(s) \in [1..h -> Slots] /\ \A j \in 1..h : Past(s)[h + 1 - j] = Line(s, FALSE, -j)
  BY PastOfScreen
<1>2. u.hist = h /\ \A k \in 1..h : Line(u, FALSE, -k) = Line(s, FALSE, -k)
  BY DEF SamePast
<1>3. Past(u) \in [1..u.hist -> Slots] /\ \A j \in 1..u.hist : Past(u)[u.hist + 1 - j] = Line(u, FALSE, -j)
  BY PastOfScreen
<1> HIDE DEF h
<1>4. Past(u) \in [1..h -> Slots] /\ \A j \in 1..h : Past(u)[h + 1 - j] = Line(u, FALSE, -j)
  BY <1>2, <1>3
<1>5. \A j \in 1..h : Past(u)[h + 1 - j] = Past(s)[h + 1 - j]
  BY <1>1, <1>2, <1>4
<1> QED
  BY <1>1, <1>4, <1>5, SameBackwards

(* What StLines sees of both states is the same. *)
Same(s, u) == Pages(u) = Pages(s) /\ Past(u) = Past(s) /\ u.alt = s.alt

(* What keeps the lines is not seen by StLines.                            *)
LEMMA KeepsSame ==
    ASSUME NEW s, IsScreen(s), NEW u, Keeps(s, u)
    PROVE  Same(s, u) /\ IsScreen(u) /\ (SameRegion(s, u) => Region(u) = Region(s))
<1>1. IsScreen(u) /\ Rows(u) = Rows(s) /\ \A x \in BOOLEAN : \A y : Line(u, x, y) = Line(s, x, y)
  BY KeepsScreen
<1>2. u.row = s.row /\ u.hist = s.hist /\ u.alt = s.alt
  BY DEF Keeps
<1>3. Pages(u) = Pages(s)
  BY <1>1, <1>2 DEF Pages
<1>4. SamePast(s, u)
  BY <1>1, <1>2 DEF SamePast
<1>5. Past(u) = Past(s)
  BY <1>1, <1>4, SamePastIsPast
<1> QED
  BY <1>1, <1>2, <1>3, <1>5 DEF Same, SameRegion, Region

(* When the hidden page stays, the pages differ in the shown one only.     *)
LEMMA PagesBut ==
    ASSUME NEW s, IsScreen(s), NEW u, IsScreen(u), u.row = s.row,
           \A y \in Rows(s) : Line(u, ~s.alt, y) = Line(s, ~s.alt, y),
           NEW W, W = [k \in 1..s.row |-> Line(u, s.alt, k - 1)]
    PROVE  Pages(u) = [Pages(s) EXCEPT ![s.alt] = W]
<1>1. /\ s.row \in Nat \ {0} /\ Rows(s) = 0..(s.row - 1) /\ s.alt \in BOOLEAN
      /\ Pages(s) = [x \in BOOLEAN |-> Pages(s)[x]]
      /\ \A x \in BOOLEAN : Pages(s)[x] = [k \in 1..s.row |-> Line(s, x, k - 1)]
  BY PageOfScreen
<1>2. Pages(u) = [x \in BOOLEAN |-> Pages(u)[x]]
  BY PageOfScreen
<1>3. \A x \in BOOLEAN : Pages(u)[x] = [k \in 1..s.row |-> Line(u, x, k - 1)]
  BY PageOfScreen
<1> DEFINE row == s.row
           o == ~s.alt
<1>4. row \in Nat \ {0} /\ Rows(s) = 0..(row - 1)
  BY <1>1
<1>5. \A y \in Rows(s) : Line(u, o, y) = Line(s, o, y)
  OBVIOUS
<1> HIDE DEF row, o
<1>6. \A k \in 1..row : Line(u, o, k - 1) = Line(s, o, k - 1)
  <2>1. \A k \in 1..row : k - 1 \in Rows(s)
    BY <1>4
  <2> QED
    BY <1>5, <2>1
<1>7. [k \in 1..row |-> Line(u, o, k - 1)] = [k \in 1..row |-> Line(s, o, k - 1)]
  BY <1>6
<1>8. Pages(u)[o] = Pages(s)[o] /\ o \in BOOLEAN
  <2>1. o \in BOOLEAN
    BY <1>1 DEF o
  <2>2. Pages(s)[o] = [k \in 1..row |-> Line(s, o, k - 1)]
    BY <1>1, <2>1 DEF row
  <2>3. Pages(u)[o] = [k \in 1..row |-> Line(u, o, k - 1)]
    BY <1>3, <2>1 DEF row
  <2> QED
    BY <1>7, <2>1, <2>2, <2>3
<1>9. Pages(u)[s.alt] = W
  BY <1>1, <1>3
<1>10. \A x \in BOOLEAN : x = s.alt \/ x = o
  BY <1>1 DEF o
<1>11. \A x \in BOOLEAN : Pages(u)[x] = IF x = s.alt THEN W ELSE Pages(s)[x]
  BY <1>8, <1>9, <1>10
<1> DEFINE F == Pages(s)
           G == Pages(u)
<1>12. F = [x \in BOOLEAN |-> F[x]] /\ G = [x \in BOOLEAN |-> G[x]] /\ \A x \in BOOLEAN : G[x] = IF x = s.alt THEN W ELSE F[x]
  BY <1>1, <1>2, <1>11
<1> HIDE DEF F, G
<1>13. G = [F EXCEPT ![s.alt] = W]
  BY <1>1, <1>12
<1> QED
  BY <1>13 DEF F, G

(* Only the shown page is another: W.                                      *)
Moved(s, u, W) == /\ u.alt = s.alt /\ Region(u) = Region(s)
                  /\ Pages(u) = [Pages(s) EXCEPT ![s.alt] = W]

(* A step that leaves the hidden page and the region alone.                *)
LEMMA StaysMoved ==
    ASSUME NEW s, IsScreen(s), NEW u, Stays(s, u), NEW W, W = [k \in 1..s.row |-> Line(u, s.alt, k - 1)]
    PROVE  Moved(s, u, W) /\ IsScreen(u)
<1>1. IsScreen(u) /\ u.row = s.row /\ u.alt = s.alt /\ u.top = s.top /\ u.bot = s.bot
      /\ \A y \in Rows(s) : Line(u, ~s.alt, y) = Line(s, ~s.alt, y)
  BY DEF Stays
<1>2. Pages(u) = [Pages(s) EXCEPT ![s.alt] = W]
  BY <1>1, PagesBut
<1> QED
  BY <1>1, <1>2 DEF Moved, Region

(* The page that s shows. *)
Shown(s) == Pages(s)[s.alt]

(* The shown page is a list of text.                                       *)
LEMMA ShownPage ==
    ASSUME NEW s, IsScreen(s)
    PROVE  /\ s.row \in Nat \ {0} /\ Rows(s) = 0..(s.row - 1) /\ s.alt \in BOOLEAN
           /\ Shown(s) \in [1..s.row -> Text] /\ Blank \in Text
           /\ \A k \in 1..s.row : Shown(s)[k] = Line(s, s.alt, k - 1)
<1>1. /\ s.row \in Nat \ {0} /\ Rows(s) = 0..(s.row - 1) /\ s.alt \in BOOLEAN
      /\ \A x \in BOOLEAN : Pages(s)[x] = [k \in 1..s.row |-> Line(s, x, k - 1)]
      /\ \A x \in BOOLEAN : Pages(s)[x] \in [1..s.row -> Text]
  BY PageOfScreen
<1>2. MaxText \in Nat
  BY DEF IsScreen, IsFrame, ScreenAssumption
<1>3. Blank \in Text
  BY <1>2 DEF Blank, Text
<1>4. Shown(s) = [k \in 1..s.row |-> Line(s, s.alt, k - 1)] /\ Shown(s) \in [1..s.row -> Text]
  BY <1>1 DEF Shown
<1>5. \A k \in 1..s.row : Shown(s)[k] = Line(s, s.alt, k - 1)
  BY <1>4
<1> QED
  BY <1>1, <1>3, <1>4, <1>5

(* Lines moved up by the ring are Up of the list.                          *)
LEMMA UpByPage ==
    ASSUME NEW s, IsScreen(s), NEW orig \in 0..s.bot, NEW n \in 1..(s.bot - orig + 1), NEW u, UpBy(s, u, orig, n)
    PROVE  Moved(s, u, Lines!Up(Shown(s), orig + 1, s.bot + 1, n)) /\ IsScreen(u)
<1> DEFINE l == s.row
           p == Shown(s)
           bot == s.bot
           a == orig + 1
           b == bot + 1
           W == [k \in 1..l |-> Line(u, s.alt, k - 1)]
<1>1. /\ l \in Nat \ {0} /\ Rows(s) = 0..(l - 1) /\ p \in [1..l -> Text] /\ Blank \in Text
      /\ \A k \in 1..l : p[k] = Line(s, s.alt, k - 1)
  BY ShownPage
<1>2. bot \in 0..(l - 1) /\ orig \in 0..bot /\ n \in 1..(bot - orig + 1)
  <2>1. s.bot \in s.top..(s.row - 1) /\ s.top \in 0..(s.row - 1) /\ s.row \in Nat
    BY ScreenRows
  <2> QED
    BY <2>1
<1>3. \A y \in Rows(s) : Line(u, s.alt, y) = IF y \in orig..(bot - n) THEN Line(s, s.alt, y + n)
                                             ELSE IF y \in orig..bot THEN Blank
                                             ELSE Line(s, s.alt, y)
  BY DEF UpBy
<1>4. Moved(s, u, W) /\ IsScreen(u)
  BY StaysMoved DEF UpBy
<1> HIDE DEF l, p, bot
<1>5. a \in 1..l /\ b \in a..l /\ n \in 1..(b - a + 1) /\ a = orig + 1 /\ b = bot + 1
  BY <1>1, <1>2
<1>6. Lines!Up(p, a, b, n) = [k \in 1..l |-> IF k \in a..(b - n) THEN p[k + n]
                                             ELSE IF k \in a..b THEN Blank ELSE p[k]]
  <2>1. l \in Nat
    BY <1>1
  <2> HIDE DEF a, b
  <2>2. Upped(Lines!Up(p, a, b, n), p, l, a, b, n)
    BY <1>1, <1>5, <2>1, UpPages
  <2> QED
    BY <2>2 DEF Upped
<1>7. ASSUME NEW k \in 1..l
      PROVE  Line(u, s.alt, k - 1) = IF k \in a..(b - n) THEN p[k + n] ELSE IF k \in a..b THEN Blank ELSE p[k]
  <2> DEFINE y == k - 1
  <2>1. y \in Rows(s) /\ (y \in orig..(bot - n) <=> k \in a..(b - n)) /\ (y \in orig..bot <=> k \in a..b)
    BY <1>1, <1>2
  <2>2. p[k] = Line(s, s.alt, y)
    BY <1>1
  <2>3. k \in a..(b - n) => p[k + n] = Line(s, s.alt, y + n)
    <3>1. k \in a..(b - n) => k + n \in 1..l /\ (k + n) - 1 = y + n
      BY <1>1, <1>2
    <3> QED
      BY <1>1, <3>1
  <2> HIDE DEF y, a, b
  <2>4. Line(u, s.alt, y) = IF k \in a..(b - n) THEN p[k + n] ELSE IF k \in a..b THEN Blank ELSE p[k]
    BY <1>3, <2>1, <2>2, <2>3
  <2> QED
    BY <2>4 DEF y
<1>8. W = Lines!Up(p, a, b, n)
  BY <1>6, <1>7
<1> QED
  BY <1>4, <1>8 DEF p, bot

(* Lines moved down by the ring are Down of the list.                      *)
LEMMA DownByPage ==
    ASSUME NEW s, IsScreen(s), NEW orig \in 0..s.bot, NEW n \in 1..(s.bot - orig + 1), NEW u, DownBy(s, u, orig, n)
    PROVE  Moved(s, u, Lines!Down(Shown(s), orig + 1, s.bot + 1, n)) /\ IsScreen(u)
<1> DEFINE l == s.row
           p == Shown(s)
           bot == s.bot
           a == orig + 1
           b == bot + 1
           W == [k \in 1..l |-> Line(u, s.alt, k - 1)]
<1>1. /\ l \in Nat \ {0} /\ Rows(s) = 0..(l - 1) /\ p \in [1..l -> Text] /\ Blank \in Text
      /\ \A k \in 1..l : p[k] = Line(s, s.alt, k - 1)
  BY ShownPage
<1>2. bot \in 0..(l - 1) /\ orig \in 0..bot /\ n \in 1..(bot - orig + 1)
  <2>1. s.bot \in s.top..(s.row - 1) /\ s.top \in 0..(s.row - 1) /\ s.row \in Nat
    BY ScreenRows
  <2> QED
    BY <2>1
<1>3. \A y \in Rows(s) : Line(u, s.alt, y) = IF y \in (orig + n)..bot THEN Line(s, s.alt, y - n)
                                             ELSE IF y \in orig..bot THEN Blank
                                             ELSE Line(s, s.alt, y)
  BY DEF DownBy
<1>4. Moved(s, u, W) /\ IsScreen(u)
  BY StaysMoved DEF DownBy
<1> HIDE DEF l, p, bot
<1>5. a \in 1..l /\ b \in a..l /\ n \in 1..(b - a + 1) /\ a = orig + 1 /\ b = bot + 1
  BY <1>1, <1>2
<1>6. Lines!Down(p, a, b, n) = [k \in 1..l |-> IF k \in (a + n)..b THEN p[k - n]
                                               ELSE IF k \in a..b THEN Blank ELSE p[k]]
  <2>1. l \in Nat
    BY <1>1
  <2> HIDE DEF a, b
  <2>2. Downed(Lines!Down(p, a, b, n), p, l, a, b, n)
    BY <1>1, <1>5, <2>1, DownPages
  <2> QED
    BY <2>2 DEF Downed
<1>7. ASSUME NEW k \in 1..l
      PROVE  Line(u, s.alt, k - 1) = IF k \in (a + n)..b THEN p[k - n] ELSE IF k \in a..b THEN Blank ELSE p[k]
  <2> DEFINE y == k - 1
  <2>1. y \in Rows(s) /\ (y \in (orig + n)..bot <=> k \in (a + n)..b) /\ (y \in orig..bot <=> k \in a..b)
    BY <1>1, <1>2
  <2>2. p[k] = Line(s, s.alt, y)
    BY <1>1
  <2>3. k \in (a + n)..b => p[k - n] = Line(s, s.alt, y - n)
    <3>1. k \in (a + n)..b => k - n \in 1..l /\ (k - n) - 1 = y - n
      BY <1>1, <1>2
    <3> QED
      BY <1>1, <3>1
  <2> HIDE DEF y, a, b
  <2>4. Line(u, s.alt, y) = IF k \in (a + n)..b THEN p[k - n] ELSE IF k \in a..b THEN Blank ELSE p[k]
    BY <1>3, <2>1, <2>2, <2>3
  <2> QED
    BY <2>4 DEF y
<1>8. W = Lines!Down(p, a, b, n)
  BY <1>6, <1>7
<1> QED
  BY <1>4, <1>8 DEF p, bot

(* Rows erased in the ring are lines erased in the list.                   *)
LEMMA ErasedPage ==
    ASSUME NEW s, IsScreen(s), NEW y1 \in Rows(s), NEW y2 \in Rows(s), y1 <= y2, NEW u, Erased(s, u, y1, y2)
    PROVE  Moved(s, u, Erasing(Shown(s), y1 + 1, y2 + 1)) /\ IsScreen(u) /\ Past(u) = Past(s)
<1> DEFINE l == s.row
           p == Shown(s)
           a == y1 + 1
           b == y2 + 1
           W == [k \in 1..l |-> Line(u, s.alt, k - 1)]
<1>1. /\ l \in Nat \ {0} /\ Rows(s) = 0..(l - 1) /\ p \in [1..l -> Text] /\ Blank \in Text
      /\ \A k \in 1..l : p[k] = Line(s, s.alt, k - 1)
  BY ShownPage
<1>3. \A y \in Rows(s) : Line(u, s.alt, y) = IF y \in y1..y2 THEN Blank ELSE Line(s, s.alt, y)
  BY DEF Erased
<1>4. Moved(s, u, W) /\ IsScreen(u)
  BY StaysMoved DEF Erased
<1>10. Past(u) = Past(s)
  BY <1>4, SamePastIsPast DEF Erased
<1> HIDE DEF l, p
<1>5. a \in 1..l /\ b \in a..l /\ y1 \in Int /\ y2 \in Int
  BY <1>1
<1>6. Erasing(p, a, b) = [k \in 1..l |-> IF k \in a..b THEN Blank ELSE p[k]]
  <2>1. l \in Nat
    BY <1>1
  <2> HIDE DEF a, b
  <2>2. Cleared(Erasing(p, a, b), p, l, a, b)
    BY <1>1, <1>5, <2>1, ErasePages
  <2> QED
    BY <2>2 DEF Cleared
<1>7. ASSUME NEW k \in 1..l
      PROVE  Line(u, s.alt, k - 1) = IF k \in a..b THEN Blank ELSE p[k]
  <2> DEFINE y == k - 1
  <2>1. y \in Rows(s) /\ (y \in y1..y2 <=> k \in a..b)
    BY <1>1, <1>5
  <2>2. p[k] = Line(s, s.alt, y)
    BY <1>1
  <2> HIDE DEF y, a, b
  <2>4. Line(u, s.alt, y) = IF k \in a..b THEN Blank ELSE p[k]
    BY <1>3, <2>1, <2>2
  <2> QED
    BY <2>4 DEF y
<1>8. W = Erasing(p, a, b)
  BY <1>6, <1>7
<1> QED
  BY <1>4, <1>8, <1>10 DEF p

(* A row written in the ring is a line written in the list.                *)
LEMMA WrotePage ==
    ASSUME NEW s, IsScreen(s), NEW y \in Rows(s), NEW u, Wrote(s, u, y)
    PROVE  Moved(s, u, [Shown(s) EXCEPT ![y + 1] = Shown(u)[y + 1]]) /\ IsScreen(u) /\ Past(u) = Past(s)
<1> DEFINE l == s.row
           p == Shown(s)
           q == Shown(u)
           W == [k \in 1..l |-> Line(u, s.alt, k - 1)]
<1>1. /\ l \in Nat \ {0} /\ Rows(s) = 0..(l - 1) /\ p \in [1..l -> Text]
      /\ \A k \in 1..l : p[k] = Line(s, s.alt, k - 1)
  BY ShownPage
<1>3. \A z \in Rows(s) : z = y \/ Line(u, s.alt, z) = Line(s, s.alt, z)
  BY DEF Wrote
<1>4. Moved(s, u, W) /\ IsScreen(u)
  BY StaysMoved DEF Wrote
<1>5. Past(u) = Past(s)
  BY <1>4, SamePastIsPast DEF Wrote
<1>6. u.alt = s.alt /\ u.row = l
  BY DEF Wrote, Stays
<1>7. \A k \in 1..l : q[k] = Line(u, s.alt, k - 1)
  BY <1>4, <1>6, ShownPage
<1> HIDE DEF l, p, q
<1>8. ASSUME NEW k \in 1..l PROVE Line(u, s.alt, k - 1) = IF k = y + 1 THEN q[y + 1] ELSE p[k]
  <2>1. k - 1 \in Rows(s) /\ (k - 1 = y <=> k = y + 1)
    BY <1>1
  <2>2. p[k] = Line(s, s.alt, k - 1) /\ q[k] = Line(u, s.alt, k - 1)
    BY <1>1, <1>7
  <2> QED
    BY <1>3, <2>1, <2>2
<1>9. W = [p EXCEPT ![y + 1] = q[y + 1]]
  BY <1>1, <1>8
<1> QED
  BY <1>4, <1>5, <1>9 DEF p, q

(* The lines that s's page loses are in u's history in the order f.         *)
Leaving(s, u, orig, n, f) ==
    /\ u.hist = Least(s.hist + n, HISTSIZE - s.row)
    /\ \A k \in 1..u.hist : Line(u, FALSE, -k) = IF k <= n THEN Line(s, FALSE, orig + f[n - k + 1] - 1)
                                                 ELSE Line(s, FALSE, n - k)

(* The lines that leave the page are the newest of the history. *)
LEMMA ScrolledPast ==
    ASSUME NEW s, IsScreen(s), s.alt = FALSE, NEW u, IsScreen(u),
           NEW orig \in 0..s.bot, NEW n \in 1..(s.bot - orig + 1),
           NEW f \in [1..n -> 1..n], Leaving(s, u, orig, n, f)
    PROVE  Newer(Past(u), Past(s), [k \in 1..n |-> Pages(s)[FALSE][orig + 1 + f[k] - 1]], s.row)
<1> DEFINE l == s.row
           p == Shown(s)
           bot == s.bot
           lh == s.hist
           L == u.hist
           h == Past(s)
           w == Past(u)
           e == [k \in 1..n |-> p[orig + 1 + f[k] - 1]]
<1>1. l \in Nat \ {0} /\ p \in [1..l -> Text] /\ \A k \in 1..l : p[k] = Line(s, FALSE, k - 1)
  BY ShownPage
<1>2. bot \in 0..(l - 1) /\ orig \in 0..bot /\ n \in 1..(bot - orig + 1)
  <2>1. s.bot \in s.top..(s.row - 1) /\ s.top \in 0..(s.row - 1) /\ s.row \in Nat
    BY ScreenRows
  <2> QED
    BY <2>1
<1>3. /\ lh \in Nat /\ lh \in 0..(HISTSIZE - l) /\ HISTSIZE \in Nat \ {0} /\ l \in 1..HISTSIZE
      /\ h \in [1..lh -> Slots] /\ \A j \in 1..lh : h[lh + 1 - j] = Line(s, FALSE, -j)
  BY PastOfScreen
<1>4. L \in Nat /\ w \in [1..L -> Slots] /\ \A j \in 1..L : w[L + 1 - j] = Line(u, FALSE, -j)
  BY PastOfScreen
<1>5. \A k \in 1..L : Line(u, FALSE, -k) = IF k <= n THEN Line(s, FALSE, orig + f[n - k + 1] - 1)
                                           ELSE Line(s, FALSE, n - k)
  BY DEF Leaving
<1>6. LeastRoom(L, lh + n, l)
  <2>1. L = Least(lh + n, HISTSIZE - l)
    BY DEF Leaving
  <2> HIDE DEF L, lh, l
  <2> QED
    BY <1>2, <1>3, <2>1 DEF Least, LeastRoom
<1>7. p = Pages(s)[FALSE]
  BY DEF Shown
<1> HIDE DEF l, p, bot, lh, L, h, w
<1>8. \A k \in 1..n : orig + 1 + f[k] - 1 \in 1..l /\ (orig + 1 + f[k] - 1) - 1 = orig + f[k] - 1
  <2> SUFFICES ASSUME NEW k \in 1..n
               PROVE  orig + 1 + f[k] - 1 \in 1..l /\ (orig + 1 + f[k] - 1) - 1 = orig + f[k] - 1
    OBVIOUS
  <2> DEFINE x == f[k]
  <2>1. x \in 1..n
    OBVIOUS
  <2> HIDE DEF x
  <2>2. orig + 1 + x - 1 \in 1..l /\ (orig + 1 + x - 1) - 1 = orig + x - 1
    BY <1>1, <1>2, <2>1
  <2> QED
    BY <2>2 DEF x
<1>9. \A k \in 1..n : e[k] = Line(s, FALSE, orig + f[k] - 1)
  BY <1>1, <1>8
<1>10. e \in [1..n -> Slots]
  BY <1>1, <1>8 DEF Slots
<1> HIDE DEF e
<1>11. Ends(w, L, h, lh, e, n)
  <2>1. ASSUME NEW j \in 1..L PROVE w[L + 1 - j] = IF j <= n THEN e[n - j + 1] ELSE h[lh + n + 1 - j]
    <3>1. CASE j <= n
      <4>1. n - j + 1 \in 1..n
        BY <3>1
      <4>2. e[n - j + 1] = Line(s, FALSE, orig + f[n - j + 1] - 1)
        BY <1>9, <4>1
      <4> QED
        BY <1>4, <1>5, <3>1, <4>2
    <3>2. CASE ~(j <= n)
      <4>1. j - n \in 1..lh
        BY <1>3, <1>4, <1>6, <3>2 DEF LeastRoom
      <4>2. lh + 1 - (j - n) = lh + n + 1 - j /\ -(j - n) = n - j
        BY <1>3
      <4>3. h[lh + n + 1 - j] = Line(s, FALSE, n - j)
        BY <1>3, <4>1, <4>2
      <4> QED
        BY <1>4, <1>5, <3>2, <4>3
    <3> QED
      BY <3>1, <3>2
  <2> QED
    BY <2>1 DEF Ends
<1>12. n \in Nat
  OBVIOUS
<1>13. Newer(w, h, e, l)
  BY <1>3, <1>4, <1>6, <1>10, <1>11, <1>12, NewestPages
<1> QED
  BY <1>7, <1>13 DEF w, h, e, l

(* From s to u, StLines scrolls the lines a..b up by n.                    *)
UpStep(s, u, a, b, n) ==
    /\ Moved(s, u, Lines!Up(Shown(s), a, b, n))
    /\ Past(u) \in IF s.alt THEN {Past(s)} ELSE Lines!Scrolled(Past(s), Pages(s)[FALSE], a, n)

(* A scroll up of the ring is a scroll up of the lists, history included.  *)
LEMMA UpBySteps ==
    ASSUME NEW s, IsScreen(s), NEW orig \in 0..s.bot, NEW n \in 1..(s.bot - orig + 1), NEW u, UpBy(s, u, orig, n)
    PROVE  UpStep(s, u, orig + 1, s.bot + 1, n) /\ IsScreen(u)
<1>1. Moved(s, u, Lines!Up(Shown(s), orig + 1, s.bot + 1, n)) /\ IsScreen(u)
  BY UpByPage
<1>2. s.alt \in BOOLEAN
  BY ShownPage
<1>3. CASE s.alt = TRUE
  <2>1. SamePast(s, u)
    BY <1>3 DEF UpBy, Stays, SamePast
  <2>2. Past(u) = Past(s)
    BY <1>1, <2>1, SamePastIsPast
  <2> QED
    BY <1>1, <1>3, <2>2 DEF UpStep
<1>4. CASE s.alt = FALSE
  <2> DEFINE Away(g) == /\ Injective(g, n)
                        /\ orig = 0 => \A k \in 1..n : g[k] = k
                        /\ Leaving(s, u, orig, n, g)
  <2>1. \E g \in [1..n -> 1..n] : Away(g)
    BY <1>4 DEF UpBy, Leaving
  <2>2. PICK f \in [1..n -> 1..n] : Away(f)
    BY <2>1
  <2>7. Leaving(s, u, orig, n, f)
    BY <2>2
  <2>3. Newer(Past(u), Past(s), [k \in 1..n |-> Pages(s)[FALSE][orig + 1 + f[k] - 1]], s.row)
    BY <1>1, <1>4, <2>7, ScrolledPast
  <2>4. Len(Pages(s)[FALSE]) = s.row
    BY PageOfScreen, LengthPages
  <2>5. f \in IF orig + 1 = 1 THEN {[k \in 1..n |-> k]} ELSE Lines!Orders(n)
    <3>1. CASE orig = 0
      <4>1. f = [k \in 1..n |-> k]
        BY <2>2, <3>1
      <4> QED
        BY <3>1, <4>1
    <3>2. CASE orig # 0
      <4>1. f \in Lines!Orders(n)
        BY <2>2 DEF Lines!Orders, Injective
      <4>2. orig + 1 # 1
        BY <3>2
      <4> QED
        BY <4>1, <4>2
    <3> QED
      BY <3>1, <3>2
  <2> HIDE DEF Away
  <2>6. Past(u) \in Lines!Scrolled(Past(s), Pages(s)[FALSE], orig + 1, n)
    BY <2>3, <2>4, <2>5 DEF Lines!Scrolled, Newer
  <2> QED
    BY <1>1, <1>4, <2>6 DEF UpStep
<1> QED
  BY <1>2, <1>3, <1>4

(* From s to u, StLines scrolls the lines a..b down by n.                  *)
DownStep(s, u, a, b, n) ==
    /\ Moved(s, u, Lines!Down(Shown(s), a, b, n))
    /\ Past(u) = IF s.alt THEN Past(s)
                 ELSE IF n >= Len(Past(s)) THEN <<>> ELSE Lines!Upto(Past(s), Len(Past(s)) - n)

(* A list without lines is the empty one.                                  *)
LEMMA NoPages ==
    ASSUME NEW V, NEW f \in [1..0 -> V]
    PROVE  f = <<>>
<1>1. f \in Seq(V) /\ Len(f) = 0
  BY LengthPages
<1> QED
  BY <1>1

(* The newest n lines of the history are lost.                             *)
LEMMA TakenPast ==
    ASSUME NEW s, IsScreen(s), s.alt = FALSE, NEW u, IsScreen(u), NEW n \in Nat,
           u.hist = Most(s.hist - n, 0),
           \A k \in 1..u.hist : Line(u, FALSE, -k) = Line(s, FALSE, -k - n)
    PROVE  Past(u) = IF n >= Len(Past(s)) THEN <<>> ELSE Lines!Upto(Past(s), Len(Past(s)) - n)
<1> DEFINE lh == s.hist
           L == u.hist
           h == Past(s)
           w == Past(u)
<1>1. lh \in Nat /\ h \in [1..lh -> Slots] /\ \A j \in 1..lh : h[lh + 1 - j] = Line(s, FALSE, -j)
  BY PastOfScreen
<1>2. L \in Nat /\ w \in [1..L -> Slots] /\ \A j \in 1..L : w[L + 1 - j] = Line(u, FALSE, -j)
  BY PastOfScreen
<1>3. L = Most(lh - n, 0) /\ \A k \in 1..L : Line(u, FALSE, -k) = Line(s, FALSE, -k - n)
  OBVIOUS
<1> HIDE DEF lh, L, h, w
<1>4. (n >= lh => L = 0) /\ (~(n >= lh) => L = lh - n)
  BY <1>1, <1>2, <1>3 DEF Most
<1>5. Len(h) = lh
  BY <1>1, LengthPages
<1>6. CASE n >= lh
  <2>1. w \in [1..0 -> Slots]
    BY <1>2, <1>4, <1>6
  <2>2. w = <<>>
    BY <2>1, NoPages
  <2> QED
    BY <1>5, <1>6, <2>2 DEF w, h
<1>7. CASE ~(n >= lh)
  <2> DEFINE g == Lines!Upto(h, L)
  <2>1. L \in 0..lh /\ L = lh - n
    BY <1>1, <1>2, <1>4, <1>7
  <2>5. lh \in Nat /\ h \in [1..lh -> Slots] /\ L \in 0..lh
    BY <1>1, <2>1
  <2>2. g = [k \in 1..L |-> h[k]] /\ g \in [1..L -> Slots]
    BY <2>5, PrefixPages
  <2> HIDE DEF g
  <2>3. ASSUME NEW j \in 1..L PROVE w[L + 1 - j] = g[L + 1 - j]
    <3>1. j + n \in 1..lh /\ lh + 1 - (j + n) = L + 1 - j /\ -(j + n) = -j - n /\ L + 1 - j \in 1..L
      BY <1>1, <1>2, <2>1
    <3>2. h[L + 1 - j] = Line(s, FALSE, -j - n)
      BY <1>1, <3>1
    <3> QED
      BY <1>2, <1>3, <2>2, <3>1, <3>2
  <2>6. L \in Nat /\ w \in [1..L -> Slots] /\ g \in [1..L -> Slots]
    BY <1>2, <2>2
  <2>7. \A j \in 1..L : w[L + 1 - j] = g[L + 1 - j]
    BY <2>3
  <2>4. w = g
    BY <2>6, <2>7, SameBackwards
  <2> QED
    BY <1>5, <1>7, <2>1, <2>4 DEF w, h, g
<1> QED
  BY <1>6, <1>7

(* A scroll down of the ring is a scroll down of the lists, history        *)
(* included.                                                               *)
LEMMA DownBySteps ==
    ASSUME NEW s, IsScreen(s), NEW orig \in 0..s.bot, NEW n \in 1..(s.bot - orig + 1), NEW u, DownBy(s, u, orig, n)
    PROVE  DownStep(s, u, orig + 1, s.bot + 1, n) /\ IsScreen(u)
<1>1. Moved(s, u, Lines!Down(Shown(s), orig + 1, s.bot + 1, n)) /\ IsScreen(u)
  BY DownByPage
<1>2. s.alt \in BOOLEAN
  BY ShownPage
<1>3. CASE s.alt = TRUE
  <2>1. SamePast(s, u)
    BY <1>3 DEF DownBy, Stays, SamePast
  <2>2. Past(u) = Past(s)
    BY <1>1, <2>1, SamePastIsPast
  <2> QED
    BY <1>1, <1>3, <2>2 DEF DownStep
<1>4. CASE s.alt = FALSE
  <2>1. u.hist = Most(s.hist - n, 0) /\ \A k \in 1..u.hist : Line(u, FALSE, -k) = Line(s, FALSE, -k - n)
    BY <1>4 DEF DownBy
  <2>2. n \in Nat
    OBVIOUS
  <2>3. Past(u) = IF n >= Len(Past(s)) THEN <<>> ELSE Lines!Upto(Past(s), Len(Past(s)) - n)
    BY <1>1, <1>4, <2>1, <2>2, TakenPast
  <2> QED
    BY <1>1, <1>4, <2>3 DEF DownStep
<1> QED
  BY <1>2, <1>3, <1>4

(* Two pairs of pages are equal when both pages are.                       *)
LEMMA SamePages ==
    ASSUME NEW F, F = [x \in BOOLEAN |-> F[x]], NEW G, G = [x \in BOOLEAN |-> G[x]], F[TRUE] = G[TRUE], F[FALSE] = G[FALSE]
    PROVE  F = G
<1>1. \A x \in BOOLEAN : F[x] = G[x]
  OBVIOUS
<1> QED
  BY <1>1

(* Pages with the same rows are equal, and one with blank rows is blank.   *)
LEMMA RowsOfPages ==
    ASSUME NEW s, IsScreen(s), NEW u, IsScreen(u), u.row = s.row, NEW x \in BOOLEAN, NEW z \in BOOLEAN
    PROVE  /\ (\A y \in Rows(s) : Line(u, x, y) = Line(s, z, y)) => Pages(u)[x] = Pages(s)[z]
           /\ (\A y \in Rows(s) : Line(u, x, y) = Blank) => Pages(u)[x] = Lines!Blanks(s.row)
<1>1. s.row \in Nat \ {0} /\ Rows(s) = 0..(s.row - 1) /\ Pages(s)[z] = [k \in 1..s.row |-> Line(s, z, k - 1)]
  BY PageOfScreen
<1>2. Pages(u)[x] = [k \in 1..s.row |-> Line(u, x, k - 1)]
  BY PageOfScreen
<1> DEFINE row == s.row
<1>3. row \in Nat \ {0} /\ Rows(s) = 0..(row - 1)
  BY <1>1
<1> HIDE DEF row
<1>4. \A k \in 1..row : k - 1 \in Rows(s)
  BY <1>3
<1>5. ASSUME \A y \in Rows(s) : Line(u, x, y) = Line(s, z, y) PROVE Pages(u)[x] = Pages(s)[z]
  <2>1. [k \in 1..row |-> Line(u, x, k - 1)] = [k \in 1..row |-> Line(s, z, k - 1)]
    BY <1>4, <1>5
  <2> QED
    BY <1>1, <1>2, <2>1 DEF row
<1>6. ASSUME \A y \in Rows(s) : Line(u, x, y) = Blank PROVE Pages(u)[x] = Lines!Blanks(s.row)
  <2>1. [k \in 1..row |-> Line(u, x, k - 1)] = [k \in 1..row |-> Blank]
    BY <1>4, <1>6
  <2> QED
    BY <1>2, <2>1 DEF row, Lines!Blanks
<1> QED
  BY <1>5, <1>6

(* From s to u, StLines shows the page that set names.                     *)
SwapStep(s, u, set) ==
    /\ u.alt = set /\ Region(u) = Region(s) /\ Past(u) = Past(s)
    /\ Pages(u) = IF s.alt THEN [Pages(s) EXCEPT ![TRUE] = Lines!Blanks(Len(Pages(s)[TRUE]))] ELSE Pages(s)

(* A change of the page in the ring is one in the lists.                   *)
LEMMA SwapsToSteps ==
    ASSUME NEW s, IsScreen(s), NEW set \in BOOLEAN, NEW u, SwapsTo(s, u, set)
    PROVE  SwapStep(s, u, set) /\ IsScreen(u)
<1>1. /\ IsScreen(u) /\ u.row = s.row /\ u.alt = set /\ u.top = s.top /\ u.bot = s.bot /\ SamePast(s, u)
      /\ \A y \in Rows(s) : Line(u, FALSE, y) = Line(s, FALSE, y)
      /\ \A y \in Rows(s) : Line(u, TRUE, y) = IF s.alt THEN Blank ELSE Line(s, TRUE, y)
  BY DEF SwapsTo
<1>2. Past(u) = Past(s) /\ Region(u) = Region(s)
  BY <1>1, SamePastIsPast DEF Region
<1>3. s.alt \in BOOLEAN /\ Pages(s) = [x \in BOOLEAN |-> Pages(s)[x]] /\ s.row \in Nat /\ Pages(s)[TRUE] \in [1..s.row -> Text]
  BY PageOfScreen
<1>4. Pages(u) = [x \in BOOLEAN |-> Pages(u)[x]]
  BY <1>1, PageOfScreen
<1>5. Pages(u)[FALSE] = Pages(s)[FALSE]
  BY <1>1, RowsOfPages
<1>6. CASE s.alt = TRUE
  <2>1. \A y \in Rows(s) : Line(u, TRUE, y) = Blank
    BY <1>1, <1>6
  <2>2. Pages(u)[TRUE] = Lines!Blanks(s.row)
    BY <1>1, <2>1, RowsOfPages
  <2>3. Len(Pages(s)[TRUE]) = s.row
    BY <1>3, LengthPages
  <2> DEFINE F == Pages(s)
             G == Pages(u)
             B == Lines!Blanks(Len(Pages(s)[TRUE]))
  <2>4. F = [x \in BOOLEAN |-> F[x]] /\ G = [x \in BOOLEAN |-> G[x]] /\ G[FALSE] = F[FALSE] /\ G[TRUE] = B
    BY <1>3, <1>4, <1>5, <2>2, <2>3
  <2> HIDE DEF F, G, B
  <2> DEFINE H == [F EXCEPT ![TRUE] = B]
  <2>5. H = [x \in BOOLEAN |-> H[x]] /\ H[TRUE] = B /\ H[FALSE] = F[FALSE]
    BY <2>4
  <2> HIDE DEF H
  <2>6. G = H
    BY <2>4, <2>5, SamePages
  <2> QED
    BY <1>1, <1>2, <1>6, <2>6 DEF SwapStep, F, G, B, H
<1>7. CASE s.alt = FALSE
  <2>1. \A y \in Rows(s) : Line(u, TRUE, y) = Line(s, TRUE, y)
    BY <1>1, <1>7
  <2>2. Pages(u)[TRUE] = Pages(s)[TRUE]
    BY <1>1, <2>1, RowsOfPages
  <2>3. Pages(u) = Pages(s)
    BY <1>3, <1>4, <1>5, <2>2, SamePages
  <2> QED
    BY <1>1, <1>2, <1>7, <2>3 DEF SwapStep
<1> QED
  BY <1>3, <1>6, <1>7

(* From s to u, StLines forgets everything.                                *)
ResetStep(s, u) ==
    /\ Pages(u) = [x \in BOOLEAN |-> Lines!Blanks(Len(Pages(s)[x]))]
    /\ u.alt = FALSE /\ Past(u) = <<>> /\ Region(u) = <<1, Len(Pages(s)[FALSE])>>

(* A reset of the rings is one of the lists.                               *)
LEMMA ResetToSteps ==
    ASSUME NEW s, IsScreen(s), NEW u, ResetTo(s, u)
    PROVE  ResetStep(s, u) /\ IsScreen(u)
<1>1. /\ IsScreen(u) /\ u.row = s.row /\ u.alt = FALSE /\ u.hist = 0 /\ u.top = 0 /\ u.bot = s.row - 1
      /\ \A x \in BOOLEAN : \A y \in Rows(s) : Line(u, x, y) = Blank
  BY DEF ResetTo
<1>2. s.row \in Nat \ {0} /\ \A x \in BOOLEAN : Pages(s)[x] \in [1..s.row -> Text]
  BY PageOfScreen
<1>3. Pages(u) = [x \in BOOLEAN |-> Pages(u)[x]]
  BY <1>1, PageOfScreen
<1>4. ASSUME NEW x \in BOOLEAN PROVE Pages(u)[x] = Lines!Blanks(Len(Pages(s)[x])) /\ Len(Pages(s)[x]) = s.row
  <2>1. Pages(u)[x] = Lines!Blanks(s.row)
    BY <1>1, RowsOfPages
  <2>2. Pages(s)[x] \in [1..s.row -> Text] /\ s.row \in Nat
    BY <1>2
  <2>3. Len(Pages(s)[x]) = s.row
    BY <2>2, LengthPages
  <2> QED
    BY <2>1, <2>3
<1>5. Pages(u) = [x \in BOOLEAN |-> Lines!Blanks(Len(Pages(s)[x]))]
  <2>1. \A x \in BOOLEAN : Pages(u)[x] = Lines!Blanks(Len(Pages(s)[x]))
    BY <1>4
  <2> QED
    BY <1>3, <2>1
<1>6. Past(u) = <<>>
  <2>1. Past(u) \in [1..u.hist -> Slots]
    BY <1>1, PastOfScreen
  <2>2. Past(u) \in [1..0 -> Slots]
    BY <1>1, <2>1
  <2> QED
    BY <2>2, NoPages
<1>7. Region(u) = <<1, Len(Pages(s)[FALSE])>>
  <2>1. Len(Pages(s)[FALSE]) = s.row
    BY <1>4
  <2>2. u.top + 1 = 1 /\ u.bot + 1 = s.row
    BY <1>1, <1>2
  <2> QED
    BY <2>1, <2>2 DEF Region
<1> QED
  BY <1>1, <1>5, <1>6, <1>7 DEF ResetStep

(* From s to u, StLines goes to row rows and the first k lines leave the   *)
(* main page.                                                              *)
ResizeStep(s, u, row, k) ==
    /\ DOMAIN Pages(u) = BOOLEAN
    /\ Pages(u)[FALSE] = Lines!Upto(Lines!From(Pages(s)[FALSE], k + 1) \o Lines!Blanks(row), row)
    /\ Pages(u)[TRUE] \in [1..row -> Text]
    /\ Past(u) = Lines!Newest(Past(s) \o Lines!Upto(Pages(s)[FALSE], k), row)
    /\ Region(u) = <<1, row>> /\ u.alt = s.alt

(* The lines that leave the main page are the newest of the history.       *)
LEMMA ResizedPast ==
    ASSUME NEW s, IsScreen(s), NEW row \in 1..HISTSIZE, NEW k \in 0..s.row, NEW u, ResizesTo(s, u, row, k)
    PROVE  Newer(Past(u), Past(s), Lines!Upto(Pages(s)[FALSE], k), row)
<1> DEFINE l == s.row
           p == Pages(s)[FALSE]
           lh == s.hist
           L == u.hist
           h == Past(s)
           w == Past(u)
           e == Lines!Upto(p, k)
<1>1. l \in Nat \ {0} /\ p \in [1..l -> Text] /\ p = [i \in 1..l |-> Line(s, FALSE, i - 1)]
  BY PageOfScreen
<1>2. k \in 0..l /\ l \in Nat
  BY <1>1
<1>3. /\ lh \in Nat /\ HISTSIZE \in Nat \ {0}
      /\ h \in [1..lh -> Slots] /\ \A j \in 1..lh : h[lh + 1 - j] = Line(s, FALSE, -j)
  BY PastOfScreen
<1>4. L \in Nat /\ w \in [1..L -> Slots] /\ \A j \in 1..L : w[L + 1 - j] = Line(u, FALSE, -j)
  BY PastOfScreen DEF ResizesTo
<1>5. \A j \in 1..L : Line(u, FALSE, -j) = Line(s, FALSE, k - j)
  BY DEF ResizesTo
<1>20. L = Least(lh + k, HISTSIZE - row)
  BY DEF ResizesTo
<1> HIDE DEF l, p, lh, L, h, w
<1>6. LeastRoom(L, lh + k, row)
  BY <1>2, <1>3, <1>20 DEF Least, LeastRoom
<1>21. p \in [1..l -> Text]
  BY <1>1
<1>7. e = [i \in 1..k |-> p[i]] /\ e \in [1..k -> Text]
  BY <1>2, <1>21, PrefixPages
<1> HIDE DEF e
<1>8. e \in [1..k -> Slots]
  BY <1>7 DEF Slots
<1>9. ASSUME NEW i \in 1..k PROVE e[i] = Line(s, FALSE, i - 1)
  <2>1. i \in 1..l
    BY <1>2
  <2> QED
    BY <1>1, <1>7, <2>1
<1>11. Ends(w, L, h, lh, e, k)
  <2>1. ASSUME NEW j \in 1..L PROVE w[L + 1 - j] = IF j <= k THEN e[k - j + 1] ELSE h[lh + k + 1 - j]
    <3>1. CASE j <= k
      <4>1. k - j + 1 \in 1..k /\ (k - j + 1) - 1 = k - j
        BY <1>2, <3>1
      <4>2. e[k - j + 1] = Line(s, FALSE, k - j)
        BY <1>9, <4>1
      <4> QED
        BY <1>4, <1>5, <3>1, <4>2
    <3>2. CASE ~(j <= k)
      <4>1. j - k \in 1..lh
        BY <1>2, <1>3, <1>4, <1>6, <3>2 DEF LeastRoom
      <4>2. lh + 1 - (j - k) = lh + k + 1 - j /\ -(j - k) = k - j
        BY <1>2, <1>3
      <4>3. h[lh + k + 1 - j] = Line(s, FALSE, k - j)
        BY <1>3, <4>1, <4>2
      <4> QED
        BY <1>4, <1>5, <3>2, <4>3
    <3> QED
      BY <3>1, <3>2
  <2> QED
    BY <2>1 DEF Ends
<1>12. k \in Nat
  BY <1>2
<1>13. L \in Nat /\ w \in [1..L -> Slots] /\ h \in [1..lh -> Slots] /\ lh \in Nat /\ HISTSIZE \in Nat \ {0}
  BY <1>3, <1>4
<1>14. Newer(w, h, e, row)
  BY <1>6, <1>8, <1>11, <1>12, <1>13, NewestPages
<1> QED
  BY <1>14 DEF w, h, e, p

(* A resize of the rings is one of the lists.                              *)
LEMMA ResizesToSteps ==
    ASSUME NEW s, IsScreen(s), NEW row \in 1..HISTSIZE, NEW k \in 0..s.row, NEW u, ResizesTo(s, u, row, k)
    PROVE  ResizeStep(s, u, row, k) /\ IsScreen(u)
<1> DEFINE l == s.row
           p == Pages(s)[FALSE]
<1>1. /\ IsScreen(u) /\ u.row = row /\ u.alt = s.alt /\ u.top = 0 /\ u.bot = row - 1
      /\ \A y \in 0..(row - 1) : Line(u, FALSE, y) = IF y + k < l THEN Line(s, FALSE, y + k) ELSE Blank
  BY DEF ResizesTo
<1>2. l \in Nat \ {0} /\ p \in [1..l -> Text] /\ p = [i \in 1..l |-> Line(s, FALSE, i - 1)]
  BY PageOfScreen
<1>3. /\ row \in Nat \ {0} /\ DOMAIN Pages(u) = BOOLEAN /\ Pages(u)[TRUE] \in [1..row -> Text]
      /\ Pages(u)[FALSE] = [i \in 1..row |-> Line(u, FALSE, i - 1)]
  BY <1>1, PageOfScreen
<1>4. k \in 0..l /\ l \in Nat /\ row \in Nat
  BY <1>2, <1>3
<1>5. Blank \in Text
  BY ShownPage
<1> HIDE DEF l, p
<1>6. Lines!Upto(Lines!From(p, k + 1) \o Lines!Blanks(row), row) =
          [y \in 1..row |-> IF y + k <= l THEN p[y + k] ELSE Blank]
  <2>1. p \in [1..l -> Text]
    BY <1>2
  <2>2. FromRow(KeptRows(p, k, row), p, l, k, row)
    BY <1>4, <1>5, <2>1, ResizedPages
  <2> QED
    BY <2>2 DEF FromRow, KeptRows
<1>7. ASSUME NEW i \in 1..row PROVE Line(u, FALSE, i - 1) = IF i + k <= l THEN p[i + k] ELSE Blank
  <2>1. i - 1 \in 0..(row - 1) /\ ((i - 1) + k < l <=> i + k <= l)
    BY <1>4
  <2>2. i + k <= l => p[i + k] = Line(s, FALSE, (i - 1) + k)
    <3>1. i + k <= l => i + k \in 1..l /\ (i + k) - 1 = (i - 1) + k
      BY <1>4
    <3> QED
      BY <1>2, <3>1
  <2> QED
    BY <1>1, <2>1, <2>2
<1>8. Pages(u)[FALSE] = Lines!Upto(Lines!From(p, k + 1) \o Lines!Blanks(row), row)
  BY <1>3, <1>6, <1>7
<1>9. Region(u) = <<1, row>>
  <2>1. u.top + 1 = 1 /\ u.bot + 1 = row
    BY <1>1, <1>4
  <2> QED
    BY <2>1 DEF Region
<1>10. Newer(Past(u), Past(s), Lines!Upto(Pages(s)[FALSE], k), row)
  BY ResizedPast
<1> QED
  BY <1>1, <1>3, <1>8, <1>9, <1>10 DEF ResizeStep, Newer, p

(* The region is a range of rows.                                          *)
LEMMA RegionOfScreen ==
    ASSUME NEW s, IsScreen(s)
    PROVE  /\ DOMAIN Shown(s) = 1..s.row
           /\ s.row \in Nat /\ s.top \in 0..s.bot /\ s.bot \in 0..(s.row - 1)
           /\ Region(s) = <<s.top + 1, s.bot + 1>> /\ s.top + 1 \in 1..s.row /\ s.bot + 1 \in 1..s.row
           /\ s.top + 1 <= s.bot + 1
<1>1. DOMAIN Shown(s) = 1..s.row
  BY ShownPage
<1>2. s.row \in Nat \ {0} /\ s.top \in 0..(s.row - 1) /\ s.bot \in s.top..(s.row - 1)
  BY ScreenRows
<1> QED
  BY <1>1, <1>2 DEF Region

-----------------------------------------------------------------------------
(* Steps of StLines.                                                       *)

(* What is done before and after a scroll up does not matter if StLines    *)
(* does not see it.                                                        *)
LEMMA UpStepSame ==
    ASSUME NEW r, NEW s, NEW u, NEW v, NEW a, NEW b, NEW n,
           Same(r, s), Region(s) = Region(r), UpStep(s, u, a, b, n), Same(u, v), Region(v) = Region(u)
    PROVE  UpStep(r, v, a, b, n)
BY DEF Same, UpStep, Moved, Shown

(* The same of a scroll down.                                              *)
LEMMA DownStepSame ==
    ASSUME NEW r, NEW s, NEW u, NEW v, NEW a, NEW b, NEW n,
           Same(r, s), Region(s) = Region(r), DownStep(s, u, a, b, n), Same(u, v), Region(v) = Region(u)
    PROVE  DownStep(r, v, a, b, n)
BY DEF Same, DownStep, Moved, Shown

(* A step that leaves all lines where they are is a change of the region,  *)
(* or none.                                                                *)
LEMMA MarginsStep ==
    ASSUME IsScreen(t), IsScreen(t'), Same(t, t')
    PROVE  Lines!Margins
<1>1. Pages(t') = Pages(t) /\ Past(t') = Past(t) /\ t'.alt = t.alt
  BY DEF Same
<1>2. DOMAIN Shown(t) = 1..t.row
  BY RegionOfScreen
<1>3. DOMAIN Shown(t') = 1..t'.row /\ Region(t') = <<t'.top + 1, t'.bot + 1>> /\ t'.top + 1 \in 1..t'.row
      /\ t'.bot + 1 \in 1..t'.row /\ t'.top + 1 <= t'.bot + 1
  BY RegionOfScreen
<1>4. Shown(t') = Pages(t)[t.alt]
  BY <1>1 DEF Shown
<1>5. Region(t') \in Lines!Ranges
  <2> DEFINE x == t'.top + 1
             y == t'.bot + 1
             D == DOMAIN Pages(t)[t.alt]
             r == Region(t')
  <2>1. r = <<x, y>> /\ x \in D /\ y \in D /\ x <= y
    BY <1>3, <1>4
  <2> HIDE DEF x, y, D, r
  <2>2. r \in {q \in D \X D : q[1] <= q[2]}
    BY <2>1
  <2> QED
    BY <2>2 DEF D, r, Lines!Ranges
<1> QED
  BY <1>1, <1>5 DEF Lines!Margins

(* The lines from one of the region to its end are one of StLines' ranges. *)
LEMMA RegionsOf ==
    ASSUME IsScreen(t), NEW a \in (t.top + 1)..(t.bot + 1)
    PROVE  <<a, t.bot + 1>> \in Lines!Regions
<1>1. /\ DOMAIN Shown(t) = 1..t.row
      /\ t.row \in Nat /\ t.top \in 0..t.bot /\ t.bot \in 0..(t.row - 1)
      /\ Region(t) = <<t.top + 1, t.bot + 1>> /\ t.bot + 1 \in 1..t.row
  BY RegionOfScreen
<1>2. a \in 1..t.row /\ a <= t.bot + 1 /\ a >= t.top + 1
  BY <1>1
<1>3. DOMAIN Pages(t)[t.alt] = 1..t.row
  BY <1>1 DEF Shown
<1>4. <<a, t.bot + 1>> \in Lines!Ranges
  BY <1>1, <1>2, <1>3 DEF Lines!Ranges
<1> QED
  BY <1>1, <1>2, <1>4 DEF Lines!Regions

(* A scroll up is an action of StLines.                                    *)
LEMMA ScrollUpStep ==
    ASSUME IsScreen(t), NEW a \in (t.top + 1)..(t.bot + 1), NEW b, b = t.bot + 1, NEW n \in 1..(b - a + 1),
           UpStep(t, t', a, b, n)
    PROVE  Lines!ScrollUp
<1> DEFINE r == <<a, b>>
<1>1. r \in Lines!Regions
  BY RegionsOf
<1>5. n \in 1..(b - a + 1)
  OBVIOUS
<1>3. UpStep(t, t', a, b, n)
  OBVIOUS
<1>2. r[1] = a /\ r[2] = b
  OBVIOUS
<1>4. Lines!ScrolledUp(a, b, n)
  BY <1>3 DEF UpStep, Moved, Lines!ScrolledUp, Shown
<1> HIDE DEF r
<1> QED
  BY <1>1, <1>2, <1>4, <1>5 DEF Lines!ScrollUp

(* A scroll down is an action of StLines.                                  *)
LEMMA ScrollDownStep ==
    ASSUME IsScreen(t), NEW a \in (t.top + 1)..(t.bot + 1), NEW b, b = t.bot + 1, NEW n \in 1..(b - a + 1),
           DownStep(t, t', a, b, n)
    PROVE  Lines!ScrollDown
<1> DEFINE r == <<a, b>>
<1>1. r \in Lines!Regions
  BY RegionsOf
<1>5. n \in 1..(b - a + 1)
  OBVIOUS
<1>3. DownStep(t, t', a, b, n)
  OBVIOUS
<1>2. r[1] = a /\ r[2] = b
  OBVIOUS
<1>4. /\ Pages(t') = [Pages(t) EXCEPT ![t.alt] = Lines!Down(Pages(t)[t.alt], a, b, n)]
      /\ Past(t') = IF t.alt THEN Past(t)
                    ELSE IF n >= Len(Past(t)) THEN <<>> ELSE Lines!Upto(Past(t), Len(Past(t)) - n)
      /\ t'.alt = t.alt /\ Region(t') = Region(t)
  BY <1>3 DEF DownStep, Moved, Shown
<1> HIDE DEF r
<1> QED
  BY <1>1, <1>2, <1>4, <1>5 DEF Lines!ScrollDown

(* From s to u, StLines writes the y-th line.                              *)
WriteStep(s, u, y) == Moved(s, u, [Shown(s) EXCEPT ![y] = Shown(u)[y]]) /\ Past(u) = Past(s)

(* What StLines does not see before and after does not matter.             *)
LEMMA WriteStepSame ==
    ASSUME NEW r, NEW s, NEW u, NEW v, NEW y,
           Same(r, s), Region(s) = Region(r), WriteStep(s, u, y), Same(u, v), Region(v) = Region(u)
    PROVE  WriteStep(r, v, y)
BY DEF Same, WriteStep, Moved, Shown

(* From s to u, StLines erases the lines a..b.                             *)
EraseStep(s, u, a, b) == Moved(s, u, Erasing(Shown(s), a, b)) /\ Past(u) = Past(s)

(* What StLines does not see before and after does not matter.             *)
LEMMA EraseStepSame ==
    ASSUME NEW r, NEW s, NEW u, NEW v, NEW a, NEW b,
           Same(r, s), Region(s) = Region(r), EraseStep(s, u, a, b), Same(u, v), Region(v) = Region(u)
    PROVE  EraseStep(r, v, a, b)
BY DEF Same, EraseStep, Moved, Shown

(* The same of a change of the page.                                       *)
LEMMA SwapStepSame ==
    ASSUME NEW r, NEW s, NEW u, NEW v, NEW set,
           Same(r, s), Region(s) = Region(r), SwapStep(s, u, set), Same(u, v), Region(v) = Region(u)
    PROVE  SwapStep(r, v, set)
BY DEF Same, SwapStep

(* The same of a reset.                                                    *)
LEMMA ResetStepSame ==
    ASSUME NEW r, NEW s, NEW u, Same(r, s), ResetStep(s, u)
    PROVE  ResetStep(r, u)
BY DEF Same, ResetStep

(* The same of a resize.                                                   *)
LEMMA ResizeStepSame ==
    ASSUME NEW r, NEW s, NEW u, NEW row, NEW k, Same(r, s), ResizeStep(s, u, row, k)
    PROVE  ResizeStep(r, u, row, k)
BY DEF Same, ResizeStep

(* A line is written after a scroll: both steps are one of StLines.        *)
LEMMA ScrolledWrite ==
    ASSUME IsScreen(t), NEW v, IsScreen(v), IsScreen(t'),
           NEW a \in (t.top + 1)..(t.bot + 1), NEW b, b = t.bot + 1,
           UpStep(t, v, a, b, 1), WriteStep(v, t', b)
    PROVE  Lines!WriteLine
<1> DEFINE r == <<a, b>>
           F == Pages(t)
           p == Pages(t)[t.alt]
           x == Pages(t')[t.alt][b]
           W == Lines!Up(p, a, b, 1)
<1>1. r \in Lines!Regions
  BY RegionsOf
<1>2. r[1] = a /\ r[2] = b
  OBVIOUS
<1>3. /\ v.alt = t.alt /\ Region(v) = Region(t) /\ Pages(v) = [F EXCEPT ![t.alt] = W]
      /\ Past(v) \in IF t.alt THEN {Past(t)} ELSE Lines!Scrolled(Past(t), F[FALSE], a, 1)
  BY DEF UpStep, Moved, Shown
<1>4. /\ t'.alt = t.alt /\ Region(t') = Region(t) /\ Past(t') = Past(v)
      /\ Pages(t') = [Pages(v) EXCEPT ![t.alt] = [Pages(v)[t.alt] EXCEPT ![b] = x]]
  BY <1>3 DEF WriteStep, Moved, Shown
<1>5. F = [z \in BOOLEAN |-> F[z]] /\ t.alt \in BOOLEAN
  BY PageOfScreen
<1>6. DOMAIN Pages(t')[t.alt] = DOMAIN p
  <2>1. DOMAIN Pages(t)[t.alt] = 1..t.row /\ DOMAIN Pages(t')[t'.alt] = 1..t'.row /\ DOMAIN Pages(v)[v.alt] = 1..v.row
    BY RegionOfScreen DEF Shown
  <2>2. Pages(t)[~t.alt] \in [1..t.row -> Text] /\ Pages(v)[~t.alt] \in [1..v.row -> Text] /\ Pages(t')[~t.alt] \in [1..t'.row -> Text]
    BY <1>5, PageOfScreen
  <2>3. Pages(v)[~t.alt] = Pages(t)[~t.alt] /\ Pages(t')[~t.alt] = Pages(t)[~t.alt]
    BY <1>3, <1>4, <1>5
  <2>4. 1..t.row = 1..t'.row
    BY <2>2, <2>3
  <2> QED
    BY <1>4, <2>1, <2>4
<1> HIDE DEF F, W, x
<1>7. Pages(t') = [F EXCEPT ![t.alt] = [W EXCEPT ![b] = x]]
  BY <1>3, <1>4, <1>5
<1>8. Past(t') \in IF t.alt THEN {Past(t)} ELSE Lines!Scrolled(Past(t), F[FALSE], a, 1)
  BY <1>3, <1>4
<1>9. t.alt = FALSE => F[FALSE] = p
  BY DEF F
<1>10. Past(t') \in IF t.alt THEN {Past(t)} ELSE Lines!Scrolled(Past(t), p, a, 1)
  BY <1>5, <1>8, <1>9
<1> HIDE DEF r
<1> QED
  BY <1>1, <1>2, <1>4, <1>6, <1>7, <1>10 DEF Lines!WriteLine, F, W, x

(* A written line is an action of StLines.                                 *)
LEMMA WriteLineStep ==
    ASSUME IsScreen(t), IsScreen(t'), NEW y \in 1..t.row, WriteStep(t, t', y)
    PROVE  Lines!WriteLine
<1> DEFINE F == Pages(t)
           x == Pages(t')[t.alt][y]
<1>1. DOMAIN F[t.alt] = 1..t.row /\ F = [z \in BOOLEAN |-> F[z]] /\ t.alt \in BOOLEAN
  BY RegionOfScreen, PageOfScreen DEF Shown
<1>2. /\ t'.alt = t.alt /\ Region(t') = Region(t) /\ Past(t') = Past(t)
      /\ Pages(t') = [F EXCEPT ![t.alt] = [F[t.alt] EXCEPT ![y] = x]]
  BY DEF WriteStep, Moved, Shown
<1> HIDE DEF F, x
<1>3. Pages(t') = [F EXCEPT ![t.alt][y] = x] /\ DOMAIN Pages(t')[t.alt] = DOMAIN F[t.alt]
  BY <1>1, <1>2
<1> QED
  BY <1>1, <1>2, <1>3 DEF Lines!WriteLine, F, x

(* An erasure is an action of StLines.                                     *)
LEMMA EraseLinesStep ==
    ASSUME IsScreen(t), NEW a \in 1..t.row, NEW b \in 1..t.row, a <= b, EraseStep(t, t', a, b)
    PROVE  Lines!Erase
<1> DEFINE r == <<a, b>>
<1>1. DOMAIN Pages(t)[t.alt] = 1..t.row
  BY RegionOfScreen DEF Shown
<1>2. r \in Lines!Ranges
  BY <1>1 DEF Lines!Ranges
<1>3. r[1] = a /\ r[2] = b
  OBVIOUS
<1> HIDE DEF r
<1>4. /\ Pages(t') = [Pages(t) EXCEPT ![t.alt] = Lines!Upto(Pages(t)[t.alt], a - 1) \o Lines!Blanks(b - a + 1)
                                                \o Lines!From(Pages(t)[t.alt], b + 1)]
      /\ t'.alt = t.alt /\ Region(t') = Region(t) /\ Past(t') = Past(t)
  BY DEF EraseStep, Erasing, Moved, Shown
<1> QED
  BY <1>2, <1>3, <1>4 DEF Lines!Erase

(* A change of the page is an action of StLines.                           *)
LEMMA SwapLinesStep ==
    ASSUME IsScreen(t), NEW set \in BOOLEAN, SwapStep(t, t', set)
    PROVE  Lines!Swap
BY DEF SwapStep, Lines!Swap

(* A reset is an action of StLines.                                        *)
LEMMA ResetLinesStep ==
    ASSUME ResetStep(t, t')
    PROVE  Lines!Reset
BY DEF ResetStep, Lines!Reset

(* A resize is an action of StLines.                                       *)
LEMMA ResizeLinesStep ==
    ASSUME IsScreen(t), NEW row \in 1..HISTSIZE, NEW k \in 0..t.row, ResizeStep(t, t', row, k)
    PROVE  Lines!Resize
<1>1. t.row \in Nat /\ Pages(t)[FALSE] \in [1..t.row -> Text]
  BY PageOfScreen
<1>2. Len(Pages(t)[FALSE]) = t.row
  BY <1>1, LengthPages
<1> QED
  BY <1>2 DEF ResizeStep, Lines!Resize

(* Each action of StLines leaves text on the pages.                        *)
LEMMA TextStep ==
    ASSUME IsScreen(t')
    PROVE  Pages(t') \in [BOOLEAN -> Seq(Text)]
<1>1. \A x \in BOOLEAN : Pages(t')[x] \in [1..t'.row -> Text]
  BY PageOfScreen
<1>2. t'.row \in Nat
  BY ScreenRows
<1>3. \A x \in BOOLEAN : Pages(t')[x] \in Seq(Text)
  BY <1>1, <1>2
<1>4. Pages(t') = [x \in BOOLEAN |-> Pages(t')[x]]
  BY DEF Pages
<1> QED
  BY <1>3, <1>4

(* u is a screen of which StLines sees what it sees of s. *)
Viewed(s, u) == Same(s, u) /\ Region(u) = Region(s) /\ IsScreen(u)

(* Two steps of which StLines sees none are one that it does not see.      *)
LEMMA ViewedTransitive ==
    ASSUME NEW s, NEW u, NEW v, Viewed(s, u), Viewed(u, v)
    PROVE  Viewed(s, v)
BY DEF Viewed, Same

(* StLines does not see what keeps the lines and the region.               *)
LEMMA KeepsViewed ==
    ASSUME NEW s, IsScreen(s), NEW u, Keeps(s, u), SameRegion(s, u)
    PROVE  Viewed(s, u)
BY KeepsSame DEF Viewed

(* StLines does not see marks and selections.                              *)
LEMMA SameLinesViewed ==
    ASSUME NEW s, IsScreen(s), NEW u, SameLines(s, u)
    PROVE  Viewed(s, u)
BY SameLinesKeeps, KeepsViewed

(* StLines does not see the cursor.                                        *)
LEMMA tmovetoViewed ==
    ASSUME NEW s, IsScreen(s), NEW y \in Int
    PROVE  Viewed(s, tmoveto(s, y))
BY tmovetoKeeps, KeepsViewed

(* Each step begins with the screen drawn and its end in view. *)
LEMMA StartViewed ==
    ASSUME NEW s, IsScreen(s)
    PROVE  /\ Viewed(s, drawregion(s)) /\ drawregion(s).row = s.row
           /\ Viewed(s, twrite(drawregion(s))) /\ AtEnd(twrite(drawregion(s)))
<1> DEFINE d == drawregion(s)
<1>1. SameLines(s, d)
  BY tsetdirtKeepsLines, ScreenRows
<1>2. Viewed(s, d) /\ d.row = s.row
  BY <1>1, SameLinesViewed DEF SameLines
<1>3. IsScreen(d)
  BY <1>2 DEF Viewed
<1> HIDE DEF d
<1>4. Viewed(d, twrite(d)) /\ AtEnd(twrite(d))
  BY <1>3, twriteKeeps, KeepsViewed
<1> QED
  BY <1>2, <1>4, ViewedTransitive DEF d

(* What StLines does not see leaves the region alone.                      *)
LEMMA ViewedRegion ==
    ASSUME NEW s, IsScreen(s), NEW u, Viewed(s, u)
    PROVE  u.top = s.top /\ u.bot = s.bot /\ IsScreen(u)
<1>1. IsScreen(u) /\ Region(u) = Region(s)
  BY DEF Viewed
<1>2. s.row \in Nat /\ s.top \in 0..s.bot /\ s.bot \in 0..(s.row - 1) /\ Region(s) = <<s.top + 1, s.bot + 1>>
  BY RegionOfScreen
<1>3. u.row \in Nat /\ u.top \in 0..u.bot /\ u.bot \in 0..(u.row - 1) /\ Region(u) = <<u.top + 1, u.bot + 1>>
  BY <1>1, RegionOfScreen
<1>4. u.top + 1 = s.top + 1 /\ u.bot + 1 = s.bot + 1
  BY <1>1, <1>2, <1>3
<1> DEFINE a == s.top
           b == u.top
           c == s.bot
           d == u.bot
<1>5. a \in Int /\ b \in Int /\ c \in Int /\ d \in Int /\ b + 1 = a + 1 /\ d + 1 = c + 1
  BY <1>2, <1>3, <1>4
<1> HIDE DEF a, b, c, d
<1>6. b = a /\ d = c
  BY <1>5
<1> QED
  BY <1>1, <1>6 DEF a, b, c, d

(* A scroll by one line at the end of the region, or a move of the cursor. *)
LEMMA OneLineUp ==
    ASSUME NEW s, IsScreen(s), AtEnd(s)
    PROVE  /\ UpStep(s, tscrollup(s, s.top, 1), s.top + 1, s.bot + 1, 1)
           /\ IsScreen(tscrollup(s, s.top, 1)) /\ AtEnd(tscrollup(s, s.top, 1))
           /\ tscrollup(s, s.top, 1).top = s.top /\ tscrollup(s, s.top, 1).bot = s.bot
<1> DEFINE u == tscrollup(s, s.top, 1)
           top == s.top
           bot == s.bot
<1>1. top \in 0..bot /\ bot \in Nat
  BY RegionOfScreen
<1>2. \E n \in 1..(s.bot - s.top + 1) : n <= 1 /\ UpBy(s, u, s.top, n)
  BY <1>1, tscrollupMoves
<1> HIDE DEF u
<1>3. UpBy(s, u, top, 1) /\ 1 \in 1..(bot - top + 1)
  <2> HIDE DEF top, bot
  <2>1. \E n \in 1..(bot - top + 1) : n <= 1 /\ UpBy(s, u, top, n)
    BY <1>2 DEF top, bot
  <2> QED
    BY <1>1, <2>1
<1>4. UpStep(s, u, s.top + 1, s.bot + 1, 1) /\ IsScreen(u)
  BY <1>1, <1>3, UpBySteps
<1>5. AtEnd(u) /\ u.top = s.top /\ u.bot = s.bot
  BY <1>3 DEF UpBy, Stays
<1> QED
  BY <1>4, <1>5 DEF u

(* tnewline moves the cursor or scrolls by one line, and then the cursor   *)
(* is at the end of the region.                                            *)
LEMMA tnewlineSteps ==
    ASSUME NEW s, IsScreen(s), AtEnd(s)
    PROVE  /\ IsScreen(tnewline(s)) /\ AtEnd(tnewline(s))
           /\ \/ Viewed(s, tnewline(s))
              \/ UpStep(s, tnewline(s), s.top + 1, s.bot + 1, 1) /\ tnewline(s).c.y = s.bot
<1> DEFINE y == s.c.y
<1>4. s.row \in Nat \ {0} /\ y \in 0..(s.row - 1)
  BY ScreenRows
<1>1. y \in Int /\ y + 1 \in Int
  <2> HIDE DEF y
  <2> QED
    BY <1>4
<1>2. CASE s.c.y = s.bot
  <2> DEFINE u == tscrollup(s, s.top, 1)
             v == tmoveto(u, s.c.y)
  <2>1. UpStep(s, u, s.top + 1, s.bot + 1, 1) /\ IsScreen(u) /\ AtEnd(u) /\ u.top = s.top /\ u.bot = s.bot
    BY OneLineUp
  <2>2. tnewline(s) = v
    BY <1>2 DEF tnewline
  <2>3. s.c.y \in s.top..s.bot
    BY <1>2, RegionOfScreen
  <2> HIDE DEF u
  <2>4. Viewed(u, v) /\ AtEnd(v) /\ v.c.y = s.c.y
    BY <1>1, <2>1, <2>3, tmovetoKeeps, tmovetoViewed
  <2> HIDE DEF v
  <2>5. Same(s, s) /\ Region(s) = Region(s)
    BY DEF Same
  <2>6. UpStep(s, v, s.top + 1, s.bot + 1, 1)
    BY <2>1, <2>4, <2>5, UpStepSame DEF Viewed
  <2> QED
    BY <1>2, <2>2, <2>4, <2>6 DEF Viewed
<1>3. CASE s.c.y # s.bot
  <2>1. tnewline(s) = tmoveto(s, s.c.y + 1)
    BY <1>3 DEF tnewline
  <2>2. Viewed(s, tmoveto(s, s.c.y + 1)) /\ AtEnd(tmoveto(s, s.c.y + 1))
    BY <1>1, tmovetoKeeps, tmovetoViewed
  <2> QED
    BY <2>1, <2>2 DEF Viewed
<1> QED
  BY <1>2, <1>3

-----------------------------------------------------------------------------
(* Steps of the terminal as steps of StLines. *)

(* One of its actions is a step of StLines.                                *)
LEMMA NextOf ==
    ASSUME IsScreen(t'), Lines!Margins \/ Lines!Swap \/ Lines!Reset \/ Lines!Erase \/ Lines!WriteLine
                         \/ Lines!ScrollUp \/ Lines!ScrollDown \/ Lines!Resize
    PROVE  Lines!Next
BY TextStep DEF Lines!Next

(* A step that keeps the lines is one of StLines.                          *)
LEMMA QuietNext ==
    ASSUME IsScreen(t), NEW s, Viewed(t, s), Keeps(s, t')
    PROVE  IsScreen(t') /\ Lines!Next
<1>1. IsScreen(t') /\ Same(s, t')
  BY KeepsSame DEF Viewed
<1>2. Same(t, t')
  BY <1>1 DEF Viewed, Same
<1>3. Lines!Margins
  BY <1>1, <1>2, MarginsStep
<1> QED
  BY <1>1, <1>3, NextOf

(* A step that StLines does not see is one it allows.                      *)
LEMMA ViewedNext ==
    ASSUME IsScreen(t), NEW s, Viewed(t, s), Viewed(s, t')
    PROVE  IsScreen(t') /\ Lines!Next
<1>1. IsScreen(t') /\ Same(t, t')
  BY DEF Viewed, Same
<1>2. Lines!Margins
  BY <1>1, MarginsStep
<1> QED
  BY <1>1, <1>2, NextOf

(* A scroll up is a step of StLines.                                       *)
LEMMA UpNext ==
    ASSUME IsScreen(t), NEW s, Viewed(t, s), NEW orig \in s.top..s.bot, NEW n \in 1..(s.bot - orig + 1),
           UpStep(s, t', orig + 1, s.bot + 1, n), IsScreen(t')
    PROVE  Lines!Next
<1> DEFINE a == orig + 1
           b == s.bot + 1
           top == s.top
           bot == s.bot
<1>1. s.top = t.top /\ s.bot = t.bot /\ IsScreen(s)
  BY ViewedRegion
<1>2. top \in 0..bot /\ bot \in Nat /\ orig \in top..bot /\ n \in 1..(bot - orig + 1) /\ b = bot + 1
  BY <1>1, RegionOfScreen
<1>3. UpStep(s, t', a, b, n)
  OBVIOUS
<1> HIDE DEF top, bot, b
<1>4. a \in (top + 1)..(bot + 1) /\ n \in 1..(b - a + 1) /\ b = bot + 1
  BY <1>2
<1> HIDE DEF a
<1>5. UpStep(t, t', a, b, n)
  <2>1. Same(t, s) /\ Region(s) = Region(t) /\ Same(t', t') /\ Region(t') = Region(t')
    BY DEF Viewed, Same
  <2> QED
    BY <1>3, <2>1, UpStepSame
<1>6. a \in (t.top + 1)..(t.bot + 1) /\ b = t.bot + 1
  BY <1>1, <1>4 DEF top, bot
<1>7. Lines!ScrollUp
  BY <1>4, <1>5, <1>6, ScrollUpStep
<1> QED
  BY <1>7, NextOf

(* A scroll down is a step of StLines.                                     *)
LEMMA DownNext ==
    ASSUME IsScreen(t), NEW s, Viewed(t, s), NEW orig \in s.top..s.bot, NEW n \in 1..(s.bot - orig + 1),
           DownStep(s, t', orig + 1, s.bot + 1, n), IsScreen(t')
    PROVE  Lines!Next
<1> DEFINE a == orig + 1
           b == s.bot + 1
           top == s.top
           bot == s.bot
<1>1. s.top = t.top /\ s.bot = t.bot /\ IsScreen(s)
  BY ViewedRegion
<1>2. top \in 0..bot /\ bot \in Nat /\ orig \in top..bot /\ n \in 1..(bot - orig + 1) /\ b = bot + 1
  BY <1>1, RegionOfScreen
<1>3. DownStep(s, t', a, b, n)
  OBVIOUS
<1> HIDE DEF top, bot, b
<1>4. a \in (top + 1)..(bot + 1) /\ n \in 1..(b - a + 1) /\ b = bot + 1
  BY <1>2
<1> HIDE DEF a
<1>5. DownStep(t, t', a, b, n)
  <2>1. Same(t, s) /\ Region(s) = Region(t) /\ Same(t', t') /\ Region(t') = Region(t')
    BY DEF Viewed, Same
  <2> QED
    BY <1>3, <2>1, DownStepSame
<1>6. a \in (t.top + 1)..(t.bot + 1) /\ b = t.bot + 1
  BY <1>1, <1>4 DEF top, bot
<1>7. Lines!ScrollDown
  BY <1>4, <1>5, <1>6, ScrollDownStep
<1> QED
  BY <1>7, NextOf

(* The screen when the terminal looks at what the program writes. *)
Started(s) == Viewed(t, s) /\ IsScreen(s) /\ AtEnd(s)

(* Every action of the terminal's program starts so.                       *)
LEMMA Starts ==
    ASSUME IsScreen(t)
    PROVE  /\ Started(twrite(shown)) /\ twrite(shown).row = t.row
           /\ Viewed(t, shown) /\ shown.row = t.row
<1>1. /\ Viewed(t, drawregion(t)) /\ drawregion(t).row = t.row
      /\ Viewed(t, twrite(drawregion(t))) /\ AtEnd(twrite(drawregion(t)))
  BY StartViewed
<1>2. twrite(drawregion(t)).row = t.row
  <2>1. IsScreen(drawregion(t))
    BY <1>1 DEF Viewed
  <2>2. Keeps(drawregion(t), twrite(drawregion(t)))
    BY <2>1, twriteKeeps
  <2> QED
    BY <1>1, <2>2 DEF Keeps
<1> QED
  BY <1>1, <1>2 DEF Started, shown, Viewed

(* An action that ends with tscrollup.                                     *)
LEMMA tscrollupNext ==
    ASSUME IsScreen(t), NEW s, Started(s), NEW orig, orig \in s.top..s.bot, NEW n0 \in Nat \ {0}, t' = tscrollup(s, orig, n0)
    PROVE  IsScreen(t') /\ Lines!Next
<1>1. IsScreen(s) /\ AtEnd(s) /\ Viewed(t, s)
  BY DEF Started
<1> DEFINE top == s.top
           bot == s.bot
<1>2. top \in 0..bot /\ bot \in Nat /\ orig \in top..bot
  BY <1>1, RegionOfScreen
<1>3. orig \in 0..bot
  <2> HIDE DEF top, bot
  <2> QED
    BY <1>2
<1>4. PICK n \in 1..(bot - orig + 1) : n <= n0 /\ UpBy(s, t', orig, n)
  BY <1>1, <1>3, tscrollupMoves
<1>5. UpStep(s, t', orig + 1, bot + 1, n) /\ IsScreen(t')
  BY <1>1, <1>3, <1>4, UpBySteps
<1> QED
  BY <1>1, <1>2, <1>5, UpNext

(* An action that ends with tscrolldown.                                   *)
LEMMA tscrolldownNext ==
    ASSUME IsScreen(t), NEW s, Started(s), NEW orig, orig \in s.top..s.bot, NEW n0 \in Nat \ {0}, t' = tscrolldown(s, orig, n0)
    PROVE  IsScreen(t') /\ Lines!Next
<1>1. IsScreen(s) /\ AtEnd(s) /\ Viewed(t, s)
  BY DEF Started
<1> DEFINE top == s.top
           bot == s.bot
<1>2. top \in 0..bot /\ bot \in Nat /\ orig \in top..bot
  BY <1>1, RegionOfScreen
<1>3. orig \in 0..bot
  <2> HIDE DEF top, bot
  <2> QED
    BY <1>2
<1>4. PICK n \in 1..(bot - orig + 1) : DownBy(s, t', orig, n)
  BY <1>1, <1>3, tscrolldownMoves
<1>5. DownStep(s, t', orig + 1, bot + 1, n) /\ IsScreen(t')
  BY <1>1, <1>3, <1>4, DownBySteps
<1> QED
  BY <1>1, <1>2, <1>5, DownNext

(* An action that ends with a move of the cursor.                          *)
LEMMA tmovetoNext ==
    ASSUME IsScreen(t), NEW s, Started(s), NEW y \in Int, t' = tmoveto(s, y) \/ t' = tmoveato(s, y)
    PROVE  IsScreen(t') /\ Lines!Next
<1>1. IsScreen(s) /\ Viewed(t, s)
  BY DEF Started
<1>2. Keeps(s, t')
  BY <1>1, tmovetoKeeps, tmoveatoKeeps
<1> QED
  BY <1>1, <1>2, QuietNext

(* Rows that the actions name.                                             *)
LEMMA RowsNearby ==
    ASSUME NEW s, IsScreen(s)
    PROVE  /\ s.c.y \in Int /\ s.c.y + 1 \in Int /\ s.c.y - 1 \in Int /\ s.top \in s.top..s.bot
           /\ s.row \in Nat /\ s.row - 1 \in Rows(s) /\ 0 \in Rows(s) /\ s.c.y \in Rows(s)
<1> DEFINE y == s.c.y
           row == s.row
           top == s.top
           bot == s.bot
<1>1. row \in Nat \ {0} /\ y \in 0..(row - 1) /\ Rows(s) = 0..(row - 1) /\ top \in 0..(row - 1) /\ bot \in top..(row - 1)
  BY ScreenRows
<1> HIDE DEF y, row, top, bot
<1>2. /\ y \in Int /\ y + 1 \in Int /\ y - 1 \in Int /\ top \in top..bot
      /\ row \in Nat /\ row - 1 \in Rows(s) /\ 0 \in Rows(s) /\ y \in Rows(s)
  BY <1>1
<1> QED
  BY <1>2 DEF y, row, top, bot

(* Rows are integers.                                                      *)
LEMMA RowIsInt ==
    ASSUME NEW s, NEW y \in Rows(s)
    PROVE  y \in Int
BY DEF Rows

-----------------------------------------------------------------------------
(* The actions of StScreen are steps of StLines.                           *)

(* Actions that move the cursor, save it, or set the region.               *)
LEMMA CursorActions ==
    ASSUME IsScreen(t), CarriageReturn \/ CursorTo \/ DECSTBM \/ DECOM \/ DECSC \/ DECRC
    PROVE  IsScreen(t') /\ Lines!Next
<1> DEFINE s == twrite(shown)
<1>1. Started(s) /\ s.row = t.row
  BY Starts
<1>2. IsScreen(s) /\ Viewed(t, s)
  BY <1>1 DEF Started
<1>3. CASE CarriageReturn
  <2>1. t' = tmoveto(s, s.c.y)
    BY <1>3 DEF CarriageReturn, Output
  <2> QED
    BY <1>1, <1>2, <2>1, RowsNearby, tmovetoNext
<1>4. CASE CursorTo
  <2>1. PICK y \in Rows(t) : t' = tmoveato(s, y)
    BY <1>4 DEF CursorTo, Output
  <2>2. y \in Int
    BY RowIsInt
  <2> QED
    BY <1>1, <2>1, <2>2, tmovetoNext
<1>5. CASE DECSTBM
  <2>1. PICK a, b \in Rows(t) : t' = tmoveato(tsetscroll(s, a, b), 0)
    BY <1>5 DEF DECSTBM, Output
  <2> DEFINE u == tsetscroll(s, a, b)
  <2>2. a \in Int /\ b \in Int
    BY RowIsInt
  <2>3. Keeps(s, u)
    BY <1>2, <2>2, tsetscrollKeeps
  <2> HIDE DEF u
  <2>4. IsScreen(u)
    BY <1>2, <2>3, KeepsSame
  <2>5. Keeps(u, tmoveato(u, 0))
    BY <2>4, tmoveatoKeeps
  <2>6. Keeps(s, t')
    BY <2>1, <2>3, <2>5, KeepsTransitive DEF u
  <2> QED
    BY <1>2, <2>6, QuietNext
<1>6. CASE DECOM
  <2>1. PICK set \in BOOLEAN : t' = tmoveato([s EXCEPT !.c.origin = set], 0)
    BY <1>6 DEF DECOM, Output
  <2> DEFINE u == [s EXCEPT !.c.origin = set]
  <2>3. Keeps(s, u)
    BY <1>2, originKeeps
  <2>7. t' = tmoveato(u, 0)
    BY <2>1
  <2> HIDE DEF u
  <2>4. IsScreen(u)
    BY <1>2, <2>3, KeepsSame
  <2>5. Keeps(u, tmoveato(u, 0))
    BY <2>4, tmoveatoKeeps
  <2>6. Keeps(s, t')
    BY <2>7, <2>3, <2>5, KeepsTransitive
  <2> QED
    BY <1>2, <2>6, QuietNext
<1>7. CASE DECSC
  <2>1. t' = CURSOR_SAVE(s)
    BY <1>7 DEF DECSC, Output
  <2> QED
    BY <1>2, <2>1, CURSOR_SAVEKeeps, QuietNext
<1>8. CASE DECRC
  <2>1. t' = CURSOR_LOAD(s)
    BY <1>8 DEF DECRC, Output
  <2> QED
    BY <1>2, <2>1, CURSOR_LOADKeeps, QuietNext
<1> QED
  BY <1>3, <1>4, <1>5, <1>6, <1>7, <1>8

(* LF, IND and RI.                                                         *)
LEMMA IndexActions ==
    ASSUME IsScreen(t), LineFeed \/ Index \/ ReverseIndex
    PROVE  IsScreen(t') /\ Lines!Next
<1> DEFINE s == twrite(shown)
<1>1. Started(s)
  BY Starts
<1>2. IsScreen(s) /\ Viewed(t, s) /\ AtEnd(s)
  BY <1>1 DEF Started
<1>20. s.top \in s.top..s.bot /\ s.c.y + 1 \in Int /\ s.c.y - 1 \in Int
  BY <1>2, RowsNearby
<1>21. 1 \in Nat \ {0}
  OBVIOUS
<1>3. CASE LineFeed
  <2>1. t' = tnewline(s)
    BY <1>3 DEF LineFeed, Output
  <2> HIDE DEF s
  <2>2. IsScreen(t') /\ (Viewed(s, t') \/ UpStep(s, t', s.top + 1, s.bot + 1, 1))
    BY <1>2, <2>1, tnewlineSteps
  <2>3. CASE Viewed(s, t')
    BY <1>2, <2>3, ViewedNext
  <2>4. CASE UpStep(s, t', s.top + 1, s.bot + 1, 1)
    <3> DEFINE top == s.top
               bot == s.bot
    <3>1. top \in 0..bot /\ bot \in Nat
      BY <1>2, RegionOfScreen
    <3>2. 1 \in 1..(bot - top + 1)
      <4> HIDE DEF top, bot
      <4> QED
        BY <3>1
    <3> QED
      BY <1>2, <1>20, <2>2, <2>4, <3>2, UpNext
  <2> QED
    BY <2>2, <2>3, <2>4
<1>4. CASE Index
  <2>1. t' = IF s.c.y = s.bot THEN tscrollup(s, s.top, 1) ELSE tmoveto(s, s.c.y + 1)
    BY <1>4 DEF Index, Output
  <2> HIDE DEF s
  <2>2. CASE t' = tscrollup(s, s.top, 1)
    BY <1>1, <1>20, <1>21, <2>2, tscrollupNext
  <2>3. CASE t' = tmoveto(s, s.c.y + 1)
    BY <1>1, <1>20, <2>3, tmovetoNext
  <2> QED
    BY <2>1, <2>2, <2>3
<1>5. CASE ReverseIndex
  <2>1. t' = IF s.c.y = s.top THEN tscrolldown(s, s.top, 1) ELSE tmoveto(s, s.c.y - 1)
    BY <1>5 DEF ReverseIndex, Output
  <2> HIDE DEF s
  <2>2. CASE t' = tscrolldown(s, s.top, 1)
    BY <1>1, <1>20, <1>21, <2>2, tscrolldownNext
  <2>3. CASE t' = tmoveto(s, s.c.y - 1)
    BY <1>1, <1>20, <2>3, tmovetoNext
  <2> QED
    BY <2>1, <2>2, <2>3
<1> QED
  BY <1>3, <1>4, <1>5

(* SU, SD, IL and DL, with a count that did not overflow.                  *)
LEMMA ScrollActions ==
    ASSUME IsScreen(t), "overflow" \notin uses, SU \/ SD \/ tinsertblankline \/ tdeleteline
    PROVE  IsScreen(t') /\ Lines!Next
<1> DEFINE s == twrite(shown)
<1>1. Started(s)
  BY Starts
<1>2. IsScreen(s) /\ Viewed(t, s)
  BY <1>1 DEF Started
<1>20. s.top \in s.top..s.bot
  BY <1>2, RowsNearby
<1>21. \A n \in Counts : n \in Nat \ {0}
  BY DEF Counts
<1>3. CASE SU
  <2>1. PICK n \in Counts : t' = tscrollup(s, s.top, n)
    BY <1>3 DEF SU, Output
  <2> HIDE DEF s
  <2> QED
    BY <1>1, <1>20, <1>21, <2>1, tscrollupNext
<1>4. CASE SD
  <2>1. PICK n \in Counts : t' = tscrolldown(s, s.top, n)
    BY <1>4 DEF SD, Output
  <2> HIDE DEF s
  <2> QED
    BY <1>1, <1>20, <1>21, <2>1, tscrolldownNext
<1>5. CASE tinsertblankline
  <2>1. PICK n \in Counts : t' = IF InRegion(s) THEN tscrolldown(s, s.c.y, n) ELSE s
    BY <1>5 DEF tinsertblankline, Output
  <2> HIDE DEF s
  <2>2. CASE InRegion(s)
    <3>1. s.c.y \in s.top..s.bot /\ t' = tscrolldown(s, s.c.y, n)
      BY <2>1, <2>2 DEF InRegion
    <3> QED
      BY <1>1, <1>21, <3>1, tscrolldownNext
  <2>3. CASE ~InRegion(s)
    <3>1. t' = s
      BY <2>1, <2>3
    <3> QED
      BY <1>2, <3>1, KeepsReflexive, QuietNext
  <2> QED
    BY <2>2, <2>3
<1>6. CASE tdeleteline
  <2>1. PICK n \in Counts : t' = IF InRegion(s) THEN tscrollup(s, s.c.y, n) ELSE s
    BY <1>6 DEF tdeleteline, Output
  <2> HIDE DEF s
  <2>2. CASE InRegion(s)
    <3>1. s.c.y \in s.top..s.bot /\ t' = tscrollup(s, s.c.y, n)
      BY <2>1, <2>2 DEF InRegion
    <3> QED
      BY <1>1, <1>21, <3>1, tscrollupNext
  <2>3. CASE ~InRegion(s)
    <3>1. t' = s
      BY <2>1, <2>3
    <3> QED
      BY <1>2, <3>1, KeepsReflexive, QuietNext
  <2> QED
    BY <2>2, <2>3
<1> QED
  BY <1>3, <1>4, <1>5, <1>6

(* A row written by the terminal is a line written by StLines.             *)
LEMMA WroteSteps ==
    ASSUME NEW s, IsScreen(s), NEW y \in Rows(s), NEW u, Wrote(s, u, y)
    PROVE  WriteStep(s, u, y + 1) /\ IsScreen(u) /\ u.c.y = s.c.y /\ u.bot = s.bot /\ u.row = s.row
BY WrotePage DEF WriteStep, Wrote, Stays

(* StLines does not see that the next character wraps.                     *)
LEMMA wrapnextViewed ==
    ASSUME NEW s, IsScreen(s)
    PROVE  Viewed(s, [s EXCEPT !.c.wrapnext = TRUE])
<1> DEFINE u == [s EXCEPT !.c.wrapnext = TRUE]
           d == [s.c EXCEPT !.wrapnext = TRUE]
<1>1. /\ s.c \in Cursors /\ s.c.y \in Rows(s) /\ s.top \in Rows(s) /\ s.bot \in s.top..(s.row - 1) /\ Fields(s)
      /\ Rows(s) = 0..(s.row - 1)
  BY ScreenRows
<1>2. d \in Cursors /\ d.y = s.c.y
  BY <1>1 DEF Cursors
<1>3. u = [s EXCEPT !.c = d]
  OBVIOUS
<1> HIDE DEF u, d
<1>4. /\ Fields(u) /\ u.row = s.row /\ u.screen = s.screen /\ u.alt = s.alt /\ u.hist = s.hist
      /\ u.c = d /\ u.top = s.top /\ u.bot = s.bot
  BY <1>1, <1>3 DEF Fields
<1>5. u.c \in Cursors /\ u.c.y \in Rows(s) /\ u.top \in Rows(s) /\ u.bot \in u.top..(s.row - 1)
  BY <1>1, <1>2, <1>4
<1>6. Keeps(s, u) /\ SameRegion(s, u)
  BY <1>4, <1>5, NewCursorKeeps DEF SameRegion
<1> QED
  BY <1>6, KeepsViewed DEF u

(* A written character changes its line, after a scroll at the end of the  *)
(* region.                                                                 *)
LEMMA PutCharAction ==
    ASSUME IsScreen(t), written \in 0..MaxText, PutChar
    PROVE  IsScreen(t') /\ Lines!Next
<1> DEFINE s == twrite(shown)
           u == IF selected(s, s.c.y) THEN selclear(s) ELSE s
           v == IF u.c.wrapnext THEN tnewline(u) ELSE u
           x == written + 1
           w == TSetLine(v, v.c.y, x)
<1>1. IsScreen(s) /\ Viewed(t, s) /\ AtEnd(s)
  BY Starts DEF Started
<1>2. t' = [w EXCEPT !.c.wrapnext = TRUE]
  BY Zenon DEF PutChar, tputc
<1>3. x \in Text
  <2>1. MaxText \in Nat /\ written < MaxText
    BY DEF PutChar, IsScreen, IsFrame, ScreenAssumption
  <2> QED
    BY <2>1 DEF Text
<1> HIDE DEF s, x
<1>4. SameLines(s, u)
  BY <1>1, ScreenRows, selclearKeepsLines, SameLinesReflexive
<1> HIDE DEF u
<1>5. Viewed(s, u) /\ AtEnd(u) /\ IsScreen(u)
  BY <1>1, <1>4, SameLinesViewed, SameLinesIsScreen
<1>6. Viewed(t, u)
  BY <1>1, <1>5, ViewedTransitive
<1>7. /\ IsScreen(v) /\ AtEnd(v)
      /\ Viewed(u, v) \/ (UpStep(u, v, u.top + 1, u.bot + 1, 1) /\ v.c.y = u.bot)
  <2>1. CASE u.c.wrapnext
    BY <1>5, <2>1, tnewlineSteps
  <2>2. CASE ~u.c.wrapnext
    <3>1. v = u
      BY <2>2
    <3> QED
      BY <1>5, <3>1, KeepsReflexive, KeepsViewed
  <2> QED
    BY <2>1, <2>2
<1> HIDE DEF v
<1> DEFINE y == v.c.y
<1>8. y \in Rows(v)
  BY <1>7, RowsNearby
<1>9. WriteStep(v, w, y + 1) /\ IsScreen(w)
  BY <1>3, <1>7, <1>8, TSetLineWrites, WroteSteps
<1> HIDE DEF w
<1>10. Viewed(w, t') /\ IsScreen(t')
  BY <1>2, <1>9, wrapnextViewed DEF Viewed
<1> HIDE DEF y
<1>11. Same(v, v) /\ Region(v) = Region(v)
  BY DEF Same
<1>12. WriteStep(v, t', y + 1)
  BY <1>9, <1>10, <1>11, WriteStepSame DEF Viewed
<1>13. CASE Viewed(u, v)
  <2>1. Viewed(t, v)
    BY <1>6, <1>13, ViewedTransitive
  <2>2. Same(t', t') /\ Region(t') = Region(t')
    BY DEF Same
  <2>3. WriteStep(t, t', y + 1)
    BY <1>12, <2>1, <2>2, WriteStepSame DEF Viewed
  <2>4. DOMAIN Shown(v) = 1..v.row /\ DOMAIN Shown(t) = 1..t.row /\ Rows(v) = 0..(v.row - 1) /\ v.row \in Nat
    BY <1>7, RegionOfScreen, ScreenRows
  <2>5. y + 1 \in 1..v.row
    BY <1>8, <2>4
  <2>6. Shown(v) = Shown(t)
    BY <2>1 DEF Viewed, Same, Shown
  <2>7. y + 1 \in 1..t.row
    BY <2>4, <2>5, <2>6
  <2>8. Lines!WriteLine
    BY <1>10, <2>3, <2>7, WriteLineStep
  <2> QED
    BY <1>10, <2>8, NextOf
<1>14. CASE UpStep(u, v, u.top + 1, u.bot + 1, 1) /\ v.c.y = u.bot
  <2>1. u.top = t.top /\ u.bot = t.bot
    BY <1>6, ViewedRegion
  <2>2. UpStep(t, v, t.top + 1, t.bot + 1, 1)
    BY <1>6, <1>11, <1>14, <2>1, UpStepSame DEF Viewed
  <2> DEFINE top == t.top
             bot == t.bot
             b == bot + 1
  <2>3. top \in 0..bot /\ bot \in Nat
    BY RegionOfScreen
  <2>4. top + 1 \in (top + 1)..(bot + 1)
    <3> HIDE DEF top, bot
    <3> QED
      BY <2>3
  <2>5. WriteStep(v, t', b) /\ b = t.bot + 1
    BY <1>12, <1>14, <2>1 DEF y
  <2>6. UpStep(t, v, top + 1, b, 1)
    BY <2>2
  <2> HIDE DEF b
  <2>7. Lines!WriteLine
    BY <1>7, <1>10, <2>4, <2>5, <2>6, ScrolledWrite
  <2> QED
    BY <1>10, <2>7, NextOf
<1> QED
  BY <1>7, <1>13, <1>14

(* An action that ends with erased rows.                                   *)
LEMMA ErasedNext ==
    ASSUME IsScreen(t), NEW s, Started(s), NEW a \in Rows(s), NEW z \in Rows(s), a <= z, Erased(s, t', a, z)
    PROVE  IsScreen(t') /\ Lines!Next
<1>1. IsScreen(s) /\ Viewed(t, s)
  BY DEF Started
<1>2. EraseStep(s, t', a + 1, z + 1) /\ IsScreen(t')
  BY <1>1, ErasedPage DEF EraseStep
<1>3. Same(t', t') /\ Region(t') = Region(t')
  BY DEF Same
<1>4. EraseStep(t, t', a + 1, z + 1)
  BY <1>1, <1>2, <1>3, EraseStepSame DEF Viewed
<1>5. DOMAIN Shown(s) = 1..s.row /\ DOMAIN Shown(t) = 1..t.row /\ Rows(s) = 0..(s.row - 1) /\ s.row \in Nat
  BY <1>1, RegionOfScreen, ScreenRows
<1>6. Shown(s) = Shown(t)
  BY <1>1 DEF Viewed, Same, Shown
<1>7. a + 1 \in 1..s.row /\ z + 1 \in 1..s.row /\ a + 1 <= z + 1
  BY <1>5
<1>8. a + 1 \in 1..t.row /\ z + 1 \in 1..t.row
  BY <1>5, <1>6, <1>7
<1>9. Lines!Erase
  BY <1>4, <1>7, <1>8, EraseLinesStep
<1> QED
  BY <1>2, <1>9, NextOf

(* ED and EL.                                                              *)
LEMMA EraseActions ==
    ASSUME IsScreen(t), EraseDisplay \/ EraseLine
    PROVE  IsScreen(t') /\ Lines!Next
<1> DEFINE s == twrite(shown)
           y == s.c.y
           e == s.row - 1
<1>1. Started(s)
  BY Starts
<1>2. IsScreen(s) /\ AtEnd(s)
  BY <1>1 DEF Started
<1>3. /\ \/ t' = LET u == tclearregion(s, y, y) IN IF y < e THEN tclearregion(u, y + 1, e) ELSE u
         \/ t' = LET u == IF y > 0 THEN tclearregion(s, 0, y - 1) ELSE s IN tclearregion(u, y, y)
         \/ t' = tclearregion(s, 0, e)
         \/ t' = tclearregion(s, y, y)
  BY Zenon DEF EraseDisplay, EraseLine, Output
<1>4. s.row \in Nat \ {0} /\ y \in 0..(s.row - 1) /\ Rows(s) = 0..(s.row - 1)
  BY <1>2, ScreenRows
<1>5. e \in Nat /\ y \in 0..e /\ Rows(s) = 0..e
  BY <1>4
<1>6. \A u : Erased(s, u, y, y) \/ Erased(s, u, 0, y - 1) => IsScreen(u) /\ AtEnd(u) /\ Rows(u) = Rows(s)
  BY DEF Erased, Stays
<1> HIDE DEF s, y, e
<1>7. CASE t' = LET u == tclearregion(s, y, y) IN IF y < e THEN tclearregion(u, y + 1, e) ELSE u
  <2> DEFINE u == tclearregion(s, y, y)
  <2>1. y \in Rows(s) /\ y <= y
    BY <1>5
  <2>2. Erased(s, u, y, y)
    BY <1>2, <2>1, tclearregionErases
  <2>3. t' = IF y < e THEN tclearregion(u, y + 1, e) ELSE u
    BY <1>7
  <2> HIDE DEF u
  <2>4. CASE y < e
    <3>1. IsScreen(u) /\ AtEnd(u) /\ Rows(u) = Rows(s)
      BY <1>6, <2>2
    <3>2. y + 1 \in Rows(u) /\ e \in Rows(u) /\ y + 1 <= e
      BY <1>5, <2>4, <3>1
    <3>3. Erased(u, t', y + 1, e)
      BY <2>3, <2>4, <3>1, <3>2, tclearregionErases
    <3>4. \A k \in Rows(s) : k \in y..e <=> k \in y..y \/ k \in (y + 1)..e
      BY <1>5
    <3>5. Erased(s, t', y, e)
      BY <1>2, <2>2, <3>3, <3>4, ErasedTwice, ZenonT(60)
    <3>6. e \in Rows(s) /\ y <= e
      BY <1>5
    <3> QED
      BY <1>1, <2>1, <3>5, <3>6, ErasedNext
  <2>5. CASE ~(y < e)
    BY <1>1, <2>1, <2>2, <2>3, <2>5, ErasedNext
  <2> QED
    BY <2>4, <2>5
<1>8. CASE t' = LET u == IF y > 0 THEN tclearregion(s, 0, y - 1) ELSE s IN tclearregion(u, y, y)
  <2>1. y \in Rows(s) /\ y <= y /\ 0 \in Rows(s) /\ 0 <= y
    BY <1>5
  <2>2. CASE y > 0
    <3> DEFINE above == y - 1
               u == tclearregion(s, 0, above)
    <3>1. above \in Rows(s) /\ 0 <= above
      BY <1>5, <2>2
    <3>2. Erased(s, u, 0, above)
      BY <1>2, <2>1, <3>1, tclearregionErases
    <3>3. t' = tclearregion(u, y, y)
      BY <1>8, <2>2
    <3> HIDE DEF u
    <3>4. IsScreen(u) /\ AtEnd(u) /\ Rows(u) = Rows(s)
      BY <1>6, <3>2
    <3>5. Erased(u, t', y, y)
      BY <2>1, <3>3, <3>4, tclearregionErases
    <3>6. \A k \in Rows(s) : k \in 0..y <=> k \in 0..above \/ k \in y..y
      BY <1>5
    <3> HIDE DEF above
    <3>7. Erased(s, t', 0, y)
      BY <1>2, <3>2, <3>5, <3>6, ErasedTwice, ZenonT(60)
    <3> QED
      BY <1>1, <2>1, <3>7, ErasedNext
  <2>3. CASE ~(y > 0)
    <3>1. t' = tclearregion(s, y, y)
      BY <1>8, <2>3
    <3>2. Erased(s, t', y, y)
      BY <1>2, <2>1, <3>1, tclearregionErases
    <3> QED
      BY <1>1, <2>1, <3>2, ErasedNext
  <2> QED
    BY <2>2, <2>3
<1>9. CASE t' = tclearregion(s, 0, e)
  <2>1. 0 \in Rows(s) /\ e \in Rows(s) /\ 0 <= e
    BY <1>5
  <2>2. Erased(s, t', 0, e)
    BY <1>2, <1>9, <2>1, tclearregionErases
  <2> QED
    BY <1>1, <2>1, <2>2, ErasedNext
<1>10. CASE t' = tclearregion(s, y, y)
  <2>1. y \in Rows(s) /\ y <= y
    BY <1>5
  <2>2. Erased(s, t', y, y)
    BY <1>2, <1>10, <2>1, tclearregionErases
  <2> QED
    BY <1>1, <2>1, <2>2, ErasedNext
<1> QED
  BY <1>3, <1>7, <1>8, <1>9, <1>10

(* StLines does not see what mode 1049 does to the cursor.                 *)
LEMMA cursorKeeps ==
    ASSUME NEW s, IsScreen(s), NEW set \in BOOLEAN
    PROVE  Viewed(s, cursor(s, set)) /\ (AtEnd(s) => AtEnd(cursor(s, set)))
<1>1. CASE set = TRUE
  <2>1. cursor(s, set) = CURSOR_SAVE(s)
    BY <1>1 DEF cursor
  <2> QED
    BY <2>1, CURSOR_SAVEKeeps, KeepsViewed
<1>2. CASE set = FALSE
  <2>1. cursor(s, set) = CURSOR_LOAD(s)
    BY <1>2 DEF cursor
  <2> QED
    BY <2>1, CURSOR_LOADKeeps, KeepsViewed
<1> QED
  BY <1>1, <1>2

(* Modes 47, 1047 and 1049.                                                *)
LEMMA SwapActions ==
    ASSUME IsScreen(t), tswapscreen \/ tswapscreen1049
    PROVE  IsScreen(t') /\ Lines!Next
<1> DEFINE s == twrite(shown)
<1>1. IsScreen(s) /\ Viewed(t, s) /\ AtEnd(s)
  BY Starts DEF Started
<1>2. ASSUME NEW set \in BOOLEAN, NEW u, Viewed(s, u), AtEnd(u), Viewed(swapscreen(u, set), t') \/ t' = swapscreen(u, set)
      PROVE  IsScreen(t') /\ Lines!Next
  <2> DEFINE v == swapscreen(u, set)
  <2>1. IsScreen(u)
    BY <1>2 DEF Viewed
  <2>2. SwapStep(u, v, set) /\ IsScreen(v)
    BY <1>2, <2>1, swapscreenSwaps, SwapsToSteps
  <2>3. Viewed(v, t')
    BY <1>2, <2>2, KeepsReflexive, KeepsViewed
  <2> HIDE DEF v, s
  <2>4. Viewed(t, u)
    BY <1>1, <1>2, ViewedTransitive
  <2>5. SwapStep(t, t', set) /\ IsScreen(t')
    BY <2>2, <2>3, <2>4, SwapStepSame DEF Viewed
  <2>6. Lines!Swap
    BY <2>5, SwapLinesStep
  <2> QED
    BY <2>5, <2>6, NextOf
<1>3. CASE tswapscreen
  <2>1. PICK set \in BOOLEAN : t' = swapscreen(s, set)
    BY <1>3 DEF tswapscreen, Output
  <2> HIDE DEF s
  <2>2. Viewed(s, s)
    BY <1>1, KeepsReflexive, KeepsViewed
  <2> QED
    BY <1>1, <1>2, <2>1, <2>2
<1>4. CASE tswapscreen1049
  <2>1. PICK set \in BOOLEAN : t' = cursor(swapscreen(cursor(s, set), set), set)
    BY <1>4 DEF tswapscreen1049, Output
  <2> DEFINE u == cursor(s, set)
  <2>2. Viewed(s, u) /\ AtEnd(u)
    BY <1>1, cursorKeeps
  <2> HIDE DEF u, s
  <2> DEFINE v == swapscreen(u, set)
  <2>3. IsScreen(u)
    BY <2>2 DEF Viewed
  <2>4. IsScreen(v)
    BY <2>2, <2>3, swapscreenSwaps DEF SwapsTo
  <2>5. t' = cursor(v, set)
    BY <2>1 DEF u
  <2> HIDE DEF v
  <2>6. Viewed(v, t')
    BY <2>4, <2>5, cursorKeeps
  <2> QED
    BY <1>2, <2>2, <2>6 DEF v
<1> QED
  BY <1>3, <1>4

(* RIS.                                                                    *)
LEMMA ResetAction ==
    ASSUME IsScreen(t), RIS
    PROVE  IsScreen(t') /\ Lines!Next
<1> DEFINE s == twrite(shown)
<1>1. IsScreen(s) /\ Viewed(t, s)
  BY Starts DEF Started
<1>2. t' = treset(s)
  BY DEF RIS, Output
<1> HIDE DEF s
<1>3. ResetStep(s, t') /\ IsScreen(t')
  BY <1>1, <1>2, tresetResets, ResetToSteps
<1>4. ResetStep(t, t')
  BY <1>1, <1>3, ResetStepSame DEF Viewed
<1>5. Lines!Reset
  BY <1>4, ResetLinesStep
<1> QED
  BY <1>3, <1>5, NextOf

(* The window gets another size.                                           *)
LEMMA ResizeAction ==
    ASSUME IsScreen(t), Resize
    PROVE  IsScreen(t') /\ Lines!Next
<1> DEFINE s == shown
<1>1. IsScreen(s) /\ Viewed(t, s) /\ s.row = t.row
  BY Starts DEF Viewed
<1>2. PICK row \in 1..MaxRow : t' = tresize(s, row)
  BY DEF Resize, Output
<1>3. row \in 1..HISTSIZE
  <2>1. HISTSIZE \in Nat /\ MaxRow \in 1..HISTSIZE
    BY DEF IsScreen, IsFrame, ScreenAssumption
  <2> QED
    BY <2>1
<1> HIDE DEF s
<1> DEFINE k == Shift(s, row)
<1>4. k \in 0..s.row /\ ResizesTo(s, t', row, k)
  BY <1>1, <1>2, tresizeResizes
<1> HIDE DEF k
<1>5. ResizeStep(s, t', row, k) /\ IsScreen(t')
  BY <1>1, <1>3, <1>4, ResizesToSteps
<1>6. ResizeStep(t, t', row, k) /\ k \in 0..t.row
  BY <1>1, <1>4, <1>5, ResizeStepSame DEF Viewed
<1>7. Lines!Resize
  BY <1>3, <1>6, ResizeLinesStep
<1> QED
  BY <1>5, <1>7, NextOf

(* A selection that begins changes no line.                                *)
LEMMA selstartKeepsLines ==
    ASSUME NEW s, Fields(s), NEW y
    PROVE  SameLines(s, selstart(s, y))
<1> DEFINE u == tsetdirt(selclear(s), y, y)
           x == [on |-> TRUE, mode |-> "empty", ob |-> y, oe |-> y, nb |-> y, ne |-> y, alt |-> s.alt]
<1>1. SameLines(s, selclear(s))
  BY selclearKeepsLines
<1>2. SameLines(selclear(s), u)
  BY <1>1, tsetdirtKeepsLines DEF SameLines
<1> HIDE DEF u, x
<1>3. SameLines(u, [u EXCEPT !.sel = x])
  BY <1>2, DirtKeepsLines, ZenonT(60) DEF SameLines
<1>4. selstart(s, y) = [u EXCEPT !.sel = x]
  BY DEF selstart, u, x
<1> QED
  BY <1>1, <1>2, <1>3, <1>4, SameLinesTransitive

(* A selection that grows changes no line.                                 *)
LEMMA selextendKeepsLines ==
    ASSUME NEW s, Fields(s), NEW y, NEW done
    PROVE  SameLines(s, selextend(s, y, done))
<1> DEFINE new == selnormalize([s.sel EXCEPT !.oe = y])
           a == Least(new.nb, s.sel.nb)
           b == Most(new.ne, s.sel.ne)
           u == IF y # s.sel.oe \/ s.sel.mode = "empty" THEN tsetdirt(s, a, b) ELSE s
           x == [new EXCEPT !.mode = IF done THEN "idle" ELSE "ready"]
<1>1. selextend(s, y, done) = IF s.sel.mode = "idle" THEN s
                              ELSE IF done /\ s.sel.mode = "empty" THEN selclear(s)
                              ELSE [u EXCEPT !.sel = x]
  BY Zenon DEF selextend
<1> HIDE DEF a, b, x
<1>2. SameLines(s, u)
  BY tsetdirtKeepsLines, SameLinesReflexive
<1> HIDE DEF u
<1>3. SameLines(u, [u EXCEPT !.sel = x])
  BY <1>2, DirtKeepsLines, ZenonT(60) DEF SameLines
<1>4. SameLines(s, s) /\ SameLines(s, selclear(s)) /\ SameLines(s, [u EXCEPT !.sel = x])
  BY <1>2, <1>3, SameLinesReflexive, selclearKeepsLines, SameLinesTransitive
<1> QED
  BY <1>1, <1>4

(* Page Up, Page Down and the mouse.                                       *)
LEMMA UserActions ==
    ASSUME IsScreen(t), PageUp \/ PageDown \/ SelStart \/ SelExtend \/ SelClear
    PROVE  IsScreen(t') /\ Lines!Next
<1> DEFINE s == shown
<1>1. IsScreen(s) /\ Viewed(t, s)
  BY Starts DEF Viewed
<1>20. Fields(s)
  BY <1>1, ScreenRows
<1>2. ASSUME SameLines(s, t') PROVE IsScreen(t') /\ Lines!Next
  <2> HIDE DEF s
  <2> QED
    BY <1>1, <1>2, SameLinesKeeps, QuietNext
<1>3. CASE PageUp \/ PageDown
  <2>1. t' = kscrollup(s) \/ t' = kscrolldown(s)
    BY <1>3 DEF PageUp, PageDown, Output
  <2> HIDE DEF s
  <2>2. \E n : t' = Scrolled(s, n)
    BY <2>1, Zenon DEF kscrollup, kscrolldown
  <2> QED
    BY <1>1, <2>2, ScrolledKeeps, QuietNext
<1>4. CASE SelStart
  <2>1. \E y \in Rows(t) : t' = selstart(s, y)
    BY <1>4 DEF SelStart, Output
  <2> HIDE DEF s
  <2> QED
    BY <1>2, <1>20, <2>1, selstartKeepsLines
<1>5. CASE SelExtend
  <2>1. \E y \in Rows(t), done \in BOOLEAN : t' = selextend(s, y, done)
    BY <1>5 DEF SelExtend, Output
  <2> HIDE DEF s
  <2> QED
    BY <1>2, <1>20, <2>1, selextendKeepsLines
<1>6. CASE SelClear
  <2>1. t' = selclear(s)
    BY <1>6 DEF SelClear, Output
  <2> HIDE DEF s
  <2> QED
    BY <1>2, <1>20, <2>1, selclearKeepsLines
<1> QED
  BY <1>3, <1>4, <1>5, <1>6

(* The screen as tnew makes it and a program fills it is sound.            *)
LEMMA FilledIsScreen ==
    ASSUME ScreenAssumption, NEW row \in 1..MaxRow
    PROVE  LET s == FilledScreen(row)
           IN  /\ IsScreen(s) /\ s.row = row /\ s.top = 0 /\ s.bot = row - 1 /\ s.alt = FALSE /\ s.hist = 0
               /\ \A y \in Rows(s) : Line(s, TRUE, y) = Blank
<1> DEFINE s == FilledScreen(row)
           n == NewScreen(row)
           sc == [y |-> 0, wrapnext |-> FALSE, origin |-> FALSE]
           B == [k \in 0..(HISTSIZE - 1) |-> IF k < row THEN k + 1 ELSE NULL]
           C == [k \in 0..(row - 1) |-> IF k < row THEN Blank ELSE NULL]
           new(size) == [buffer |-> [k \in 0..(size - 1) |-> IF k < row THEN Blank ELSE NULL],
                         size |-> size, cur |-> 0, off |-> 0, sc |-> sc]
           main == [buffer |-> B, size |-> HISTSIZE, cur |-> 0, off |-> 0, sc |-> sc]
           alt == [buffer |-> C, size |-> row, cur |-> 0, off |-> 0, sc |-> sc]
<1>1. /\ HISTSIZE \in Nat \ {0} /\ MaxRow \in 1..HISTSIZE /\ MaxText \in Nat /\ MaxText >= MaxRow
      /\ row \in 1..HISTSIZE /\ row \in Nat \ {0} /\ row <= MaxText
  BY DEF ScreenAssumption
<1>2. B \in Rings(HISTSIZE) /\ \A y \in 0..(row - 1) : B[y] \in Text
  BY <1>1 DEF Rings, Text
<1>3. C \in Rings(row) /\ \A y \in 0..(row - 1) : C[y] = Blank
  BY <1>1 DEF Rings, Text, Blank
<1>4. /\ n.screen = [x \in BOOLEAN |-> new(IF x THEN row ELSE HISTSIZE)]
      /\ n.row = row /\ n.c = sc /\ n.top = 0 /\ n.bot = row - 1 /\ n.alt = FALSE /\ n.hist = 0 /\ Fields(n)
  BY DEF NewScreen, Fields
<1>20. new(row) = alt
  OBVIOUS
<1>21. new(HISTSIZE).buffer = [k \in 0..(HISTSIZE - 1) |-> IF k < row THEN Blank ELSE NULL]
  OBVIOUS
<1>22. [new(HISTSIZE) EXCEPT !.buffer = B] = main
  <2> DEFINE r == new(HISTSIZE)
  <2>1. r = [buffer |-> r.buffer, size |-> HISTSIZE, cur |-> 0, off |-> 0, sc |-> sc]
    OBVIOUS
  <2> HIDE DEF r, B, sc
  <2>2. [r EXCEPT !.buffer = B] = [buffer |-> B, size |-> HISTSIZE, cur |-> 0, off |-> 0, sc |-> sc]
    BY <2>1
  <2> QED
    BY <2>2 DEF r
<1> HIDE DEF new
<1>23. n.screen[TRUE] = alt /\ n.screen[FALSE] = new(HISTSIZE) /\ n.screen = [x \in BOOLEAN |-> n.screen[x]]
  BY <1>4, <1>20
<1>5. s = [n EXCEPT !.screen[FALSE].buffer = [k \in DOMAIN @ |-> IF k < row THEN k + 1 ELSE NULL]]
  BY DEF FilledScreen
<1> HIDE DEF n, s, B, C
<1> DEFINE m == n.screen[FALSE]
<1>6. DOMAIN m.buffer = 0..(HISTSIZE - 1) /\ [m EXCEPT !.buffer = B] = main
  BY <1>21, <1>22, <1>23
<1>7. [k \in DOMAIN m.buffer |-> IF k < row THEN k + 1 ELSE NULL] = B
  BY <1>6 DEF B
<1>8. s = [n EXCEPT !.screen[FALSE].buffer = B]
  BY <1>5, <1>7
<1> HIDE DEF m, main, alt
<1>9. s.screen = [n.screen EXCEPT ![FALSE] = [m EXCEPT !.buffer = B]]
  BY <1>4, <1>8 DEF m, Fields
<1>10. s.screen[FALSE] = main /\ s.screen[TRUE] = alt /\ s.screen = [x \in BOOLEAN |-> s.screen[x]]
  BY <1>6, <1>9, <1>23
<1>11. s.row = row /\ s.c = sc /\ s.top = 0 /\ s.bot = row - 1 /\ s.alt = FALSE /\ s.hist = 0 /\ Fields(s)
  BY <1>4, <1>8 DEF Fields
<1>12. sc \in Cursors /\ sc.y = 0
  BY DEF Cursors
<1>13. IsRing(main, HISTSIZE) /\ IsRing(alt, row)
  BY <1>1, <1>2, <1>3, <1>12 DEF IsRing, main, alt
<1>14. Rows(s) = 0..(row - 1) /\ 0 \in 0..(row - 1) /\ row - 1 \in 0..(row - 1) /\ 0 \in 0..(HISTSIZE - row)
  BY <1>1, <1>11 DEF Rows
<1>15. IsFrame(s)
  BY <1>1, <1>10, <1>11, <1>12, <1>13, <1>14 DEF IsFrame
<1>16. ASSUME NEW y \in 0..(row - 1) PROVE Line(s, FALSE, y) \in Text /\ Line(s, TRUE, y) = Blank
  <2>1. Line(s, FALSE, y) = B[(y + 0 + HISTSIZE) % HISTSIZE] /\ Line(s, TRUE, y) = C[(y + 0 + row) % row]
    BY <1>10 DEF Line, main, alt
  <2>2. y \in 0..(HISTSIZE - 1)
    BY <1>1
  <2>3. (y + 0 + HISTSIZE) % HISTSIZE = y /\ (y + 0 + row) % row = y
    BY <1>1, <2>2, FirstSlots
  <2> QED
    BY <1>2, <1>3, <2>1, <2>3
<1>17. Blank \in Text
  BY <1>1 DEF Blank, Text
<1>18. IsScreen(s)
  BY <1>14, <1>15, <1>16, <1>17 DEF IsScreen
<1> QED
  BY <1>11, <1>14, <1>16, <1>18 DEF s

(* Initial states are initial states of StLines.                           *)
LEMMA InitLines ==
    ASSUME ScreenAssumption, ScreenInit
    PROVE  IsScreen(t) /\ Lines!Init
<1>1. PICK row \in 1..MaxRow : t = FilledScreen(row)
  BY DEF ScreenInit
<1>2. /\ IsScreen(t) /\ t.row = row /\ t.top = 0 /\ t.bot = row - 1 /\ t.alt = FALSE /\ t.hist = 0
      /\ \A y \in Rows(t) : Line(t, TRUE, y) = Blank
  BY <1>1, FilledIsScreen
<1>3. HISTSIZE \in Nat /\ MaxRow \in 1..HISTSIZE
  BY DEF ScreenAssumption
<1>4. row \in 1..HISTSIZE /\ row \in Nat /\ 0 + 1 = 1 /\ (row - 1) + 1 = row
  BY <1>3
<1>5. Pages(t)[FALSE] \in [1..row -> Text]
  BY <1>2, PageOfScreen
<1>6. Pages(t)[TRUE] = Lines!Blanks(row)
  BY <1>2, RowsOfPages
<1>7. Past(t) = <<>>
  <2>1. Past(t) \in [1..0 -> Slots]
    BY <1>2, PastOfScreen
  <2> QED
    BY <2>1, NoPages
<1>8. Region(t) = <<1, row>>
  BY <1>2, <1>4 DEF Region
<1> QED
  BY <1>2, <1>4, <1>5, <1>6, <1>7, <1>8 DEF Lines!Init

-----------------------------------------------------------------------------
(* The theorem.                                                            *)

(* The inductive invariant: sizes, cursor, region and rings are sound, and *)
(* every row of both pages holds text.                                     *)
ScreenInv == IsScreen(t) /\ written \in 0..MaxText /\ uses \in Uses

(* No run has a count that csiparse turned into -1: tscrollup and          *)
(* tscrolldown then clear rows without moving a line, which StLines does   *)
(* not do.                                                                 *)
Counted == \A u \in Uses : "overflow" \notin u

(* Each step keeps the invariant and is a step of StLines.                 *)
LEMMA NextLines ==
    ASSUME Counted, ScreenInv, ScreenNext
    PROVE  ScreenInv' /\ Lines!Next
<1>1. IsScreen(t) /\ written \in 0..MaxText /\ "overflow" \notin uses
  BY DEF ScreenInv, Counted
<1>2. uses' = uses
  BY Zenon DEF ScreenNext, User, Stream, Resize, PageUp, PageDown, SelStart, SelExtend, SelClear, PutChar, CarriageReturn,
     LineFeed, Index, ReverseIndex, CursorTo, DECSTBM, DECOM, SU, SD, tinsertblankline, tdeleteline,
     EraseDisplay, EraseLine, DECSC, DECRC, tswapscreen, tswapscreen1049, RIS, Output
<1>3. written' = written \/ (written < MaxText /\ written' = written + 1)
  BY Zenon DEF ScreenNext, User, Stream, Resize, PageUp, PageDown, SelStart, SelExtend, SelClear, PutChar, CarriageReturn,
     LineFeed, Index, ReverseIndex, CursorTo, DECSTBM, DECOM, SU, SD, tinsertblankline, tdeleteline,
     EraseDisplay, EraseLine, DECSC, DECRC, tswapscreen, tswapscreen1049, RIS, Output
<1>4. written' \in 0..MaxText
  <2>1. MaxText \in Nat
    BY <1>1 DEF IsScreen, IsFrame, ScreenAssumption
  <2> QED
    BY <1>1, <1>3, <2>1
<1>5. IsScreen(t') /\ Lines!Next
  BY <1>1, PutCharAction, CursorActions, IndexActions, ScrollActions, EraseActions, SwapActions, ResetAction,
     ResizeAction, UserActions DEF ScreenNext, User, Stream
<1> QED
  BY <1>2, <1>4, <1>5 DEF ScreenInv

(* For every size of the window and of the history, the ring buffers of    *)
(* st.c (tscrollup, tscrolldown, tclearregion, tresize, treset, the two    *)
(* pages and the view) hold at each moment the lines that StLines says, in *)
(* its order.                                                              *)
THEOREM LinesImplemented ==
    ASSUME ScreenAssumption, Counted
    PROVE  ScreenSpec => ImplementsLines
<1>1. ScreenInit => ScreenInv /\ Lines!Init
  <2> SUFFICES ASSUME ScreenInit PROVE ScreenInv /\ Lines!Init
    OBVIOUS
  <2>1. IsScreen(t) /\ Lines!Init
    BY InitLines
  <2>2. written \in 0..MaxText /\ uses \in Uses
    BY DEF ScreenInit, ScreenAssumption
  <2> QED
    BY <2>1, <2>2 DEF ScreenInv
<1>2. ScreenInv /\ [ScreenNext]_screenVars => ScreenInv' /\ [Lines!Next]_(Lines!lvars)
  <2> SUFFICES ASSUME ScreenInv, [ScreenNext]_screenVars PROVE ScreenInv' /\ [Lines!Next]_(Lines!lvars)
    OBVIOUS
  <2>1. CASE ScreenNext
    BY <2>1, NextLines
  <2>2. CASE UNCHANGED screenVars
    <3>1. t' = t /\ uses' = uses /\ written' = written
      BY <2>2 DEF screenVars
    <3> QED
      BY <3>1 DEF ScreenInv, Lines!lvars
  <2> QED
    BY <2>1, <2>2
<1> QED
  BY <1>1, <1>2, PTL DEF ScreenSpec, ImplementsLines, Lines!Spec

-----------------------------------------------------------------------------
(* The selection and the rows to be drawn again follow the lines.          *)

(* A selection in the window. *)
Chosen(s) ==
    /\ s.sel = [on |-> TRUE, mode |-> s.sel.mode, ob |-> s.sel.ob, oe |-> s.sel.oe,
                nb |-> Least(s.sel.ob, s.sel.oe), ne |-> Most(s.sel.ob, s.sel.oe), alt |-> s.sel.alt]
    /\ s.sel.ob \in Rows(s) /\ s.sel.oe \in Rows(s)

(* No selection, or one in the window. *)
SelSound(s) == s.sel = NoSel \/ Chosen(s)

(* What the selection needs of a screen. *)
IsWindow(s) ==
    /\ Fields(s) /\ s.row \in Nat \ {0} /\ s.alt \in BOOLEAN
    /\ s.screen = [x \in BOOLEAN |-> s.screen[x]]
    /\ s.top \in Rows(s) /\ s.bot \in s.top..(s.row - 1)

(* Row y reads and is shown as it was. *)
Alike(s, u, y) == TLINE(u, y) = TLINE(s, y) /\ (selected(u, y) <=> selected(s, y))

(* u takes care of the selection of s: rows that changed are marked, and a *)
(* selection that is left is of the same text.                             *)
Attends(s, u) ==
    /\ u.row = s.row /\ u.alt = s.alt /\ s.dirty \subseteq u.dirty
    /\ \A y \in Rows(s) : y \in u.dirty \/ Alike(s, u, y)
    /\ SelSound(u) /\ (s.sel = NoSel => u.sel = NoSel)
    /\ \A x \in BOOLEAN : u.screen[x].off = s.screen[x].off
    /\ Selects(u) => Selects(s) /\ SelText(u) = SelText(s)

(* Two steps that each take care of it do.                                 *)
LEMMA AttendsTransitive ==
    ASSUME NEW s, NEW u, NEW v, Attends(s, u), Attends(u, v)
    PROVE  Attends(s, v)
<1>1. Rows(u) = Rows(s)
  BY DEF Attends, Rows
<1>2. \A y \in Rows(s) : y \in v.dirty \/ Alike(s, v, y)
  BY <1>1 DEF Attends, Alike
<1> QED
  BY <1>2 DEF Attends

(* The same selection of the same lines.                                   *)
LEMMA SameAttends ==
    ASSUME NEW s, SelSound(s), NEW u, u.row = s.row, u.alt = s.alt, u.sel = s.sel, u.dirty = s.dirty,
           \A x \in BOOLEAN : u.screen[x].off = s.screen[x].off,
           \A y : TLINE(u, y) = TLINE(s, y)
    PROVE  Attends(s, u)
<1>1. Rows(u) = Rows(s)
  BY DEF Rows
<1>2. SelSound(u)
  BY <1>1 DEF SelSound, Chosen
<1>3. \A y : selected(u, y) <=> selected(s, y)
  BY DEF selected
<1>4. SelText(u) = SelText(s) /\ (Selects(u) <=> Selects(s))
  BY DEF SelText, Selects
<1> QED
  BY <1>2, <1>3, <1>4 DEF Attends, Alike

(* Nothing at all has happened.                                            *)
LEMMA AttendsReflexive ==
    ASSUME NEW s, SelSound(s)
    PROVE  Attends(s, s)
BY SameAttends

(* A sound frame is a window.                                              *)
LEMMA FrameIsWindow ==
    ASSUME NEW s, IsFrame(s)
    PROVE  IsWindow(s) /\ s.row \in Nat \ {0} /\ Rows(s) = 0..(s.row - 1)
BY ShownRing DEF IsFrame, IsWindow, Rows

(* On a page at its end the rows are the first lines of the ring.          *)
LEMMA TLINEIsLine ==
    ASSUME NEW s, IsFrame(s), AtEnd(s), NEW y \in Int
    PROVE  TLINE(s, y) = Line(s, s.alt, y)
<1> DEFINE b == TSCREEN(s)
           m == b.size
           c == b.cur
<1>1. m \in Nat \ {0} /\ IsRing(b, m) /\ b.off = 0
  BY ShownRing DEF AtEnd
<1>2. c \in Int
  BY <1>1 DEF IsRing
<1> HIDE DEF m, c
<1>3. y + c - 0 + m = y + c + m
  BY <1>1, <1>2
<1>4. TLINE(s, y) = b.buffer[(y + c - 0 + m) % m]
  BY <1>1 DEF TLINE, TLINEOFFSET, m, c
<1>5. Line(s, s.alt, y) = b.buffer[(y + c + m) % m]
  BY DEF Line, TSCREEN, m, c
<1> QED
  BY <1>3, <1>4, <1>5

(* What keeps the buffers, the selection, the marks and the view.          *)
LEMMA KeepsAttends ==
    ASSUME NEW s, IsScreen(s), SelSound(s), NEW u, Keeps(s, u), u.sel = s.sel, u.dirty = s.dirty,
           \A x \in BOOLEAN : u.screen[x].off = s.screen[x].off
    PROVE  Attends(s, u)
<1>1. s.alt \in BOOLEAN /\ u.alt = s.alt /\ u.row = s.row
  BY ScreenRows DEF Keeps
<1>2. /\ TSCREEN(u).buffer = TSCREEN(s).buffer /\ TSCREEN(u).cur = TSCREEN(s).cur
      /\ TSCREEN(u).off = TSCREEN(s).off /\ TSCREEN(u).size = TSCREEN(s).size
  BY <1>1 DEF Keeps, IsRing, TSCREEN
<1>3. \A y : TLINE(u, y) = TLINE(s, y)
  BY <1>2 DEF TLINE, TLINEOFFSET
<1> QED
  BY <1>1, <1>3, SameAttends

(* The rows marked by tsetdirt. *)
LEMMA tsetdirtMarks ==
    ASSUME NEW s, IsWindow(s), NEW a \in Rows(s), NEW b \in Rows(s)
    PROVE  /\ tsetdirt(s, a, b).dirty = s.dirty \cup a..b
           /\ tsetdirt(s, a, b).sel = s.sel /\ SameLines(s, tsetdirt(s, a, b))
           /\ tfulldirt(s).dirty = s.dirty \cup Rows(s)
           /\ tfulldirt(s).sel = s.sel /\ SameLines(s, tfulldirt(s))
<1>1. s.row \in Nat \ {0} /\ Rows(s) = 0..(s.row - 1) /\ Fields(s)
  BY DEF IsWindow, Rows
<1>2. /\ LIMIT(a, 0, s.row - 1) = a /\ LIMIT(b, 0, s.row - 1) = b
      /\ LIMIT(0, 0, s.row - 1) = 0 /\ LIMIT(s.row - 1, 0, s.row - 1) = s.row - 1
  BY <1>1 DEF LIMIT
<1>3. tsetdirt(s, a, b) = [s EXCEPT !.dirty = s.dirty \cup a..b]
  BY <1>2 DEF tsetdirt
<1>4. tfulldirt(s) = [s EXCEPT !.dirty = s.dirty \cup Rows(s)]
  BY <1>1, <1>2 DEF tfulldirt, tsetdirt
<1>5. \A x : [s EXCEPT !.dirty = x].dirty = x /\ [s EXCEPT !.dirty = x].sel = s.sel
  BY <1>1 DEF Fields
<1> QED
  BY <1>1, <1>3, <1>4, <1>5, tsetdirtKeepsLines

(* What changes no line leaves a window.                                   *)
LEMMA SameLinesWindow ==
    ASSUME NEW s, IsWindow(s), NEW u, SameLines(s, u)
    PROVE  IsWindow(u) /\ Rows(u) = Rows(s)
<1>1. Rows(u) = Rows(s)
  BY DEF SameLines, Rows
<1> QED
  BY <1>1 DEF SameLines, IsWindow

(* The ends of a selection in the window are rows, in order.               *)
LEMMA ChosenEnds ==
    ASSUME NEW s, IsWindow(s), Chosen(s)
    PROVE  /\ s.sel.on = TRUE /\ s.sel.nb \in Rows(s) /\ s.sel.ne \in Rows(s) /\ s.sel.nb <= s.sel.ne
           /\ s.sel.ob \in Rows(s) /\ s.sel.oe \in Rows(s)
           /\ s.sel.nb = Least(s.sel.ob, s.sel.oe) /\ s.sel.ne = Most(s.sel.ob, s.sel.oe)
<1>1. Rows(s) = 0..(s.row - 1) /\ s.row \in Nat
  BY DEF IsWindow, Rows
<1>2. /\ s.sel.on = TRUE /\ s.sel.nb = Least(s.sel.ob, s.sel.oe) /\ s.sel.ne = Most(s.sel.ob, s.sel.oe)
      /\ s.sel.ob \in 0..(s.row - 1) /\ s.sel.oe \in 0..(s.row - 1)
  BY <1>1 DEF Chosen
<1> DEFINE x == s.sel.ob
           y == s.sel.oe
<1> HIDE DEF x, y
<1>3. \A i, j \in 0..(s.row - 1) : Least(i, j) \in 0..(s.row - 1) /\ Most(i, j) \in 0..(s.row - 1) /\ Least(i, j) <= Most(i, j)
  BY <1>1 DEF Least, Most
<1> QED
  BY <1>1, <1>2, <1>3

(* u differs from s in the marks and in that a selection may be gone.      *)
Unselects(s, u) ==
    /\ u.row = s.row /\ u.alt = s.alt /\ s.dirty \subseteq u.dirty
    /\ u.sel = s.sel \/ (u.sel = NoSel /\ \A y \in Rows(s) : selected(s, y) => y \in u.dirty)

(* Two steps that at most take it away are one such.                       *)
LEMMA UnselectsTransitive ==
    ASSUME NEW s, NEW u, NEW v, Unselects(s, u), Unselects(u, v)
    PROVE  Unselects(s, v)
<1>1. Rows(u) = Rows(s)
  BY DEF Unselects, Rows
<1>2. u.sel = s.sel => \A y : selected(u, y) <=> selected(s, y)
  BY DEF selected, Unselects
<1>3. CASE v.sel = u.sel
  BY <1>3 DEF Unselects
<1>4. CASE v.sel # u.sel
  BY <1>1, <1>2, <1>4 DEF Unselects
<1> QED
  BY <1>3, <1>4

(* selclear takes the selection away and marks its rows.                   *)
LEMMA selclearUnselects ==
    ASSUME NEW s, IsWindow(s), SelSound(s)
    PROVE  Unselects(s, selclear(s)) /\ selclear(s).sel = NoSel
<1>1. CASE s.sel = NoSel
  BY <1>1 DEF selclear, NoSel, Unselects
<1>2. CASE Chosen(s)
  <2> DEFINE d == tsetdirt(s, s.sel.nb, s.sel.ne)
  <2>1. s.sel.on = TRUE /\ s.sel.nb \in Rows(s) /\ s.sel.ne \in Rows(s)
    BY <1>2, ChosenEnds
  <2>2. d.dirty = s.dirty \cup s.sel.nb..s.sel.ne /\ SameLines(s, d)
    BY <2>1, tsetdirtMarks
  <2>3. selclear(s) = [d EXCEPT !.sel = NoSel]
    BY <2>1 DEF selclear
  <2> HIDE DEF d
  <2>4. selclear(s).sel = NoSel /\ selclear(s).dirty = d.dirty /\ selclear(s).row = s.row /\ selclear(s).alt = s.alt
    BY <2>2, <2>3 DEF SameLines, Fields
  <2> QED
    BY <2>2, <2>4 DEF Unselects, selected
<1> QED
  BY <1>1, <1>2 DEF SelSound

(* Without a selection no row is selected.                                 *)
LEMMA NoSelSelects ==
    ASSUME NEW s, s.sel = NoSel
    PROVE  SelSound(s) /\ ~Selects(s) /\ s.sel.on = FALSE /\ \A y : ~selected(s, y)
BY DEF SelSound, Selects, selected, NoSel

(* tclearregion takes away a selection that it erases a part of.           *)
LEMMA tclearregionUnselects ==
    ASSUME NEW s, IsWindow(s), SelSound(s), NEW a \in Rows(s), NEW z \in Rows(s), a <= z
    PROVE  LET u == tclearregion(s, a, z) IN
           /\ Unselects(s, u) /\ a..z \subseteq u.dirty /\ IsWindow(u) /\ SelSound(u)
           /\ u.top = s.top /\ u.bot = s.bot /\ u.screen[~s.alt] = s.screen[~s.alt]
           /\ u.sel = s.sel => \A y \in a..z : ~selected(s, y)
<1> DEFINE w == IF \E y \in a..z : selected(s, y) THEN selclear(s) ELSE s
           d == tsetdirt(w, a, z)
           F(B) == [k \in DOMAIN B |-> IF k \in {TLINEOFFSET(TSCREEN(s), y) : y \in a..z} THEN Blank ELSE B[k]]
           fault == d.fault \/ \E k \in {TLINEOFFSET(TSCREEN(s), y) : y \in a..z} : TSCREEN(s).buffer[k] = NULL
           u == tclearregion(s, a, z)
<1>1. s.row \in Nat \ {0} /\ Rows(s) = 0..(s.row - 1) /\ Fields(s) /\ s.alt \in BOOLEAN
  BY DEF IsWindow, Rows
<1>2. LIMIT(Least(a, z), 0, s.row - 1) = a /\ LIMIT(Most(a, z), 0, s.row - 1) = z
  BY <1>1 DEF LIMIT, Least, Most
<1>3. u = [d EXCEPT !.fault = fault, !.screen[s.alt].buffer = F(@)]
  BY <1>2, Zenon DEF tclearregion
<1>4. SameLines(s, w) /\ Unselects(s, w) /\ (w.sel = s.sel => \A y \in a..z : ~selected(s, y)) /\ SelSound(w)
  <2>1. CASE \E y \in a..z : selected(s, y)
    <3>1. w = selclear(s)
      BY <2>1
    <3>2. s.sel # NoSel
      BY <2>1, NoSelSelects
    <3> QED
      BY <1>1, <3>1, <3>2, selclearKeepsLines, selclearUnselects DEF SelSound
  <2>2. CASE ~\E y \in a..z : selected(s, y)
    <3>1. w = s
      BY <2>2
    <3> QED
      BY <1>1, <2>2, <3>1, SameLinesReflexive DEF Unselects
  <2> QED
    BY <2>1, <2>2
<1> HIDE DEF w
<1>5. IsWindow(w) /\ Rows(w) = Rows(s)
  BY <1>4, SameLinesWindow
<1>6. d.dirty = w.dirty \cup a..z /\ d.sel = w.sel /\ SameLines(w, d)
  BY <1>5, tsetdirtMarks
<1>7. SameLines(s, d)
  BY <1>4, <1>6, SameLinesTransitive
<1> HIDE DEF d, fault, u, F
<1>8. s.screen = [x \in BOOLEAN |-> s.screen[x]] /\ d.screen = s.screen /\ Fields(d)
  BY <1>7 DEF IsWindow, SameLines
<1>9. /\ u.row = d.row /\ u.alt = d.alt /\ u.top = d.top /\ u.bot = d.bot /\ u.sel = d.sel /\ u.dirty = d.dirty /\ Fields(u)
      /\ u.screen = [d.screen EXCEPT ![s.alt].buffer = F(@)]
  BY <1>3, <1>8 DEF Fields
<1>10. u.screen = [x \in BOOLEAN |-> u.screen[x]] /\ u.screen[~s.alt] = s.screen[~s.alt]
  <2> DEFINE b == [d.screen[s.alt] EXCEPT !.buffer = F(@)]
  <2>1. u.screen = [d.screen EXCEPT ![s.alt] = b]
    BY <1>9, Zenon
  <2> HIDE DEF b
  <2> QED
    BY <1>1, <1>8, <2>1
<1>11. Rows(u) = Rows(s)
  BY <1>7, <1>9 DEF Rows, SameLines
<1>12. IsWindow(u) /\ u.top = s.top /\ u.bot = s.bot
  BY <1>7, <1>9, <1>10, <1>11 DEF IsWindow, SameLines
<1>13. Unselects(s, u) /\ a..z \subseteq u.dirty
  BY <1>4, <1>6, <1>7, <1>9 DEF Unselects, SameLines
<1>14. SelSound(u)
  BY <1>4, <1>5, <1>6, <1>9, <1>11 DEF SelSound, Chosen
<1> QED
  BY <1>4, <1>6, <1>9, <1>10, <1>12, <1>13, <1>14 DEF u

(* u has the selection of s n rows lower.                                  *)
Shifted(s, u, orig, n) ==
    /\ Selects(s) => Selects(u)
    /\ s.sel.on = TRUE /\ u.sel.on = TRUE /\ s.sel.alt = s.alt /\ u.sel.alt = s.alt /\ u.sel.mode = s.sel.mode
    /\ s.sel.nb \in orig..s.bot /\ s.sel.ne \in orig..s.bot
    /\ u.sel.nb = s.sel.nb + n /\ u.sel.ne = s.sel.ne + n
    /\ u.sel.nb \in s.top..s.bot /\ u.sel.ne \in s.top..s.bot
    /\ u.dirty = s.dirty /\ u.row = s.row /\ u.alt = s.alt /\ Chosen(u)

(* Both ends of a selection move by n.                                     *)
LEMMA MovedEnds ==
    ASSUME NEW s, Chosen(s), NEW n
    PROVE  selnormalize([s.sel EXCEPT !.ob = @ + n, !.oe = @ + n])
           = [on |-> TRUE, mode |-> s.sel.mode, ob |-> s.sel.ob + n, oe |-> s.sel.oe + n,
              nb |-> Least(s.sel.ob + n, s.sel.oe + n), ne |-> Most(s.sel.ob + n, s.sel.oe + n), alt |-> s.sel.alt]
<1> DEFINE r == s.sel
           mode == r.mode
           i == r.ob
           j == r.oe
           alt == r.alt
           a == Least(i, j)
           b == Most(i, j)
           m == [r EXCEPT !.ob = @ + n, !.oe = @ + n]
           k == i + n
           l == j + n
           p == Least(k, l)
           q == Most(k, l)
<1>1. r = [on |-> TRUE, mode |-> mode, ob |-> i, oe |-> j, nb |-> a, ne |-> b, alt |-> alt]
  BY DEF Chosen
<1>2. m = [r EXCEPT !.ob = k, !.oe = l]
  OBVIOUS
<1> HIDE DEF r, mode, i, j, alt, a, b, m, k, l
<1>3. m = [on |-> TRUE, mode |-> mode, ob |-> k, oe |-> l, nb |-> a, ne |-> b, alt |-> alt]
  BY <1>1, <1>2
<1>4. selnormalize(m) = [m EXCEPT !.nb = p, !.ne = q]
  BY <1>3 DEF selnormalize
<1> HIDE DEF p, q
<1>5. selnormalize(m) = [on |-> TRUE, mode |-> mode, ob |-> k, oe |-> l, nb |-> p, ne |-> q, alt |-> alt]
  BY <1>3, <1>4
<1> QED
  BY <1>5 DEF m, k, l, p, q, i, j, mode, alt, r

(* selscroll moves the selection, takes it away, or finds it elsewhere.    *)
LEMMA selscrollMoves ==
    ASSUME NEW s, IsWindow(s), SelSound(s), NEW orig \in s.top..s.bot, NEW n \in Int
    PROVE  LET u == selscroll(s, orig, n) IN
           \/ Unselects(s, u) /\ u.sel = NoSel
           \/ /\ Unselects(s, u) /\ u.sel = s.sel
              /\ s.sel.on /\ s.sel.alt = s.alt => s.sel.nb \notin orig..s.bot /\ s.sel.ne \notin orig..s.bot
           \/ Shifted(s, u, orig, n)
<1> DEFINE first == s.sel.nb \in orig..s.bot
           last  == s.sel.ne \in orig..s.bot
           moved == [s.sel EXCEPT !.ob = @ + n, !.oe = @ + n]
           x == selnormalize(moved)
           v == [s EXCEPT !.sel = x]
           u == selscroll(s, orig, n)
           inside == moved.ob \in s.top..s.bot /\ moved.oe \in s.top..s.bot
<1>1. u = IF ~s.sel.on \/ s.sel.alt # s.alt THEN s
          ELSE IF first # last THEN selclear(s)
          ELSE IF ~first THEN s
          ELSE IF inside THEN v ELSE selclear(s)
  BY Zenon DEF selscroll
<1>2. Unselects(s, selclear(s)) /\ selclear(s).sel = NoSel
  BY selclearUnselects
<1>3. Unselects(s, s)
  BY DEF Unselects
<1>4. CASE ~s.sel.on \/ s.sel.alt # s.alt \/ first # last \/ ~first \/ ~inside
  <2> HIDE DEF moved, inside, v
  <2>1. (u = s /\ (~s.sel.on \/ s.sel.alt # s.alt)) \/ u = selclear(s) \/ (u = s /\ ~first /\ ~last)
    BY <1>1, <1>4
  <2> QED
    BY <1>2, <1>3, <2>1
<1>5. CASE s.sel.on /\ s.sel.alt = s.alt /\ first /\ last /\ inside
  <2>1. u = v
    BY <1>1, <1>5
  <2>2. Chosen(s)
    BY <1>5 DEF SelSound, NoSel
  <2>3. /\ s.sel.on = TRUE /\ s.sel.nb = Least(s.sel.ob, s.sel.oe) /\ s.sel.ne = Most(s.sel.ob, s.sel.oe)
        /\ s.sel.ob \in Rows(s) /\ s.sel.oe \in Rows(s)
    BY <2>2, ChosenEnds
  <2> DEFINE i == s.sel.ob
             j == s.sel.oe
  <2>4. i \in Int /\ j \in Int /\ Rows(s) = 0..(s.row - 1) /\ s.row \in Nat /\ s.top \in Rows(s) /\ s.bot \in s.top..(s.row - 1)
    BY <2>3 DEF Rows, IsWindow
  <2>5. x = [on |-> TRUE, mode |-> s.sel.mode, ob |-> i + n, oe |-> j + n,
             nb |-> Least(i + n, j + n), ne |-> Most(i + n, j + n), alt |-> s.sel.alt]
    BY <2>2, MovedEnds
  <2>6. moved.ob = i + n /\ moved.oe = j + n
    BY <2>2 DEF Chosen
  <2>7. i + n \in s.top..s.bot /\ j + n \in s.top..s.bot
    BY <1>5, <2>6
  <2>8. Least(i + n, j + n) = Least(i, j) + n /\ Most(i + n, j + n) = Most(i, j) + n
    BY <2>4 DEF Least, Most
  <2>9. Least(i + n, j + n) \in s.top..s.bot /\ Most(i + n, j + n) \in s.top..s.bot
    BY <2>7 DEF Least, Most
  <2>10. i + n \in Rows(s) /\ j + n \in Rows(s)
    <3> DEFINE top == s.top
               bot == s.bot
               row == s.row
    <3>1. top \in 0..(row - 1) /\ bot \in top..(row - 1) /\ row \in Nat /\ i + n \in top..bot /\ j + n \in top..bot
      BY <2>4, <2>7
    <3> HIDE DEF top, bot, row, i, j
    <3>2. i + n \in 0..(row - 1) /\ j + n \in 0..(row - 1)
      BY <3>1
    <3> QED
      BY <2>4, <3>2 DEF row
  <2> HIDE DEF moved, x
  <2>11. u.sel = x /\ u.dirty = s.dirty /\ u.row = s.row /\ u.alt = s.alt
    BY <2>1 DEF IsWindow, Fields
  <2>12. Rows(u) = Rows(s)
    BY <2>11 DEF Rows
  <2> HIDE DEF u, v, i, j
  <2>13. /\ u.sel.on = TRUE /\ u.sel.mode = s.sel.mode /\ u.sel.ob = i + n /\ u.sel.oe = j + n
         /\ u.sel.nb = Least(i + n, j + n) /\ u.sel.ne = Most(i + n, j + n) /\ u.sel.alt = s.sel.alt
    BY <2>5, <2>11
  <2>14. Chosen(u)
    BY <2>5, <2>10, <2>11, <2>12, <2>13 DEF Chosen
  <2>15. s.sel.nb = Least(i, j) /\ s.sel.ne = Most(i, j)
    BY <2>3 DEF i, j
  <2>16. Selects(s) => Selects(u)
    BY <1>5, <2>11, <2>13 DEF Selects
  <2>17. Shifted(s, u, orig, n)
    BY <1>5, <2>3, <2>8, <2>9, <2>11, <2>13, <2>14, <2>15, <2>16 DEF Shifted
  <2> QED
    BY <2>17 DEF u
<1> QED
  BY <1>4, <1>5

(* The text of a selection that has moved as far as its lines. *)
LEMMA MovedText ==
    ASSUME NEW s, NEW u, NEW d \in Int, s.sel.nb \in Int, s.sel.ne \in Int,
           u.sel.nb = s.sel.nb + d, u.sel.ne = s.sel.ne + d,
           \A y \in s.sel.nb..s.sel.ne : TLINE(u, y + d) = TLINE(s, y)
    PROVE  SelText(u) = SelText(s)
<1> DEFINE a == s.sel.nb
           b == s.sel.ne
           c == u.sel.nb
           e == u.sel.ne
<1>1. a \in Int /\ b \in Int /\ c = a + d /\ e = b + d /\ \A y \in a..b : TLINE(u, y + d) = TLINE(s, y)
  OBVIOUS
<1>2. SelText(u) = [y \in 0..(e - c) |-> TLINE(u, c + y)] /\ SelText(s) = [y \in 0..(b - a) |-> TLINE(s, a + y)]
  BY DEF SelText
<1> HIDE DEF a, b, c, e
<1>3. 0..(e - c) = 0..(b - a)
  <2>1. e - c = b - a
    BY <1>1
  <2> QED
    BY <2>1
<1>4. ASSUME NEW y \in 0..(b - a) PROVE TLINE(u, c + y) = TLINE(s, a + y)
  <2>1. a + y \in a..b /\ c + y = (a + y) + d
    BY <1>1
  <2> QED
    BY <1>1, <2>1
<1> QED
  BY <1>2, <1>3, <1>4

(* The text of a selection that stays where it is, as its lines do.        *)
LEMMA SameText ==
    ASSUME NEW s, NEW u, s.sel.nb \in Int, s.sel.ne \in Int, u.sel = s.sel,
           \A y \in s.sel.nb..s.sel.ne : TLINE(u, y) = TLINE(s, y)
    PROVE  SelText(u) = SelText(s)
<1> DEFINE a == s.sel.nb
           b == s.sel.ne
<1>1. a \in Int /\ b \in Int /\ \A y \in a..b : TLINE(u, y) = TLINE(s, y)
  OBVIOUS
<1>2. SelText(u) = [y \in 0..(b - a) |-> TLINE(u, a + y)] /\ SelText(s) = [y \in 0..(b - a) |-> TLINE(s, a + y)]
  BY DEF SelText
<1> HIDE DEF a, b
<1>3. \A y \in 0..(b - a) : a + y \in a..b
  BY <1>1
<1> QED
  BY <1>1, <1>2, <1>3

(* What tscrollup and tscrolldown do once the lines are where they belong. *)
LEMMA ScrolledAttends ==
    ASSUME NEW s, IsScreen(s), AtEnd(s), SelSound(s), NEW orig \in s.top..s.bot, NEW d \in Int,
           s.sel # NoSel => orig = s.top \/ d >= 0,
           NEW v, IsWindow(v), v.row = s.row, v.alt = s.alt, v.top = s.top, v.bot = s.bot,
           v.sel = s.sel, v.dirty = s.dirty, v.screen[~s.alt] = s.screen[~s.alt],
           NEW a \in orig..s.bot, NEW z \in orig..s.bot, a <= z,
           NEW g \in orig..s.bot, NEW h \in orig..s.bot,
           \A y \in orig..s.bot : y \in a..z \/ y \in g..h,
           NEW u, u = selscroll(tsetdirt(tclearregion(v, a, z), g, h), orig, d),
           Stays(s, u),
           \A y \in Rows(s) : y \in orig..s.bot \/ Line(u, s.alt, y) = Line(s, s.alt, y),
           s.sel # NoSel => \A y \in orig..s.bot : y + d \in s.top..s.bot => Line(u, s.alt, y + d) = Line(s, s.alt, y)
    PROVE  Attends(s, u)
<1> DEFINE w == tclearregion(v, a, z)
           e == tsetdirt(w, g, h)
<1>1. /\ IsFrame(s) /\ IsWindow(s) /\ s.row \in Nat \ {0} /\ Rows(s) = 0..(s.row - 1) /\ Rows(v) = Rows(s)
      /\ s.top \in Rows(s) /\ s.bot \in s.top..(s.row - 1) /\ s.alt \in BOOLEAN
  BY FrameIsWindow DEF IsScreen, IsWindow, Rows
<1>2. a \in Rows(v) /\ z \in Rows(v) /\ g \in Rows(v) /\ h \in Rows(v) /\ orig..s.bot \subseteq Rows(s) /\ orig..s.bot \subseteq Int
  <2> DEFINE top == s.top
             bot == s.bot
             row == s.row
  <2>1. top \in 0..(row - 1) /\ bot \in top..(row - 1) /\ row \in Nat /\ orig \in top..bot
    BY <1>1
  <2> HIDE DEF top, bot, row
  <2>2. orig..bot \subseteq 0..(row - 1) /\ orig..bot \subseteq Int
    BY <2>1
  <2> QED
    BY <1>1, <2>2 DEF row, bot
<1>3. SelSound(v)
  BY <1>1 DEF SelSound, Chosen
<1>4. /\ Unselects(v, w) /\ a..z \subseteq w.dirty /\ IsWindow(w) /\ SelSound(w)
      /\ w.top = v.top /\ w.bot = v.bot /\ w.screen[~v.alt] = v.screen[~v.alt]
      /\ w.sel = v.sel => \A y \in a..z : ~selected(v, y)
  BY <1>2, <1>3, tclearregionUnselects
<1> HIDE DEF w
<1>5. Rows(w) = Rows(s)
  BY <1>1, <1>4 DEF Unselects, Rows
<1>6. e.dirty = w.dirty \cup g..h /\ e.sel = w.sel /\ SameLines(w, e) /\ IsWindow(e) /\ Rows(e) = Rows(s)
  <2>1. g \in Rows(w) /\ h \in Rows(w) /\ IsWindow(w)
    BY <1>1, <1>2, <1>4, <1>5
  <2>2. e.dirty = w.dirty \cup g..h /\ e.sel = w.sel /\ SameLines(w, e)
    BY <2>1, tsetdirtMarks
  <2> HIDE DEF e
  <2> QED
    BY <1>5, <2>1, <2>2, SameLinesWindow
<1> HIDE DEF e
<1>7. SelSound(e)
  BY <1>4, <1>5, <1>6 DEF SelSound, Chosen
<1>8. e.top = s.top /\ e.bot = s.bot /\ e.alt = s.alt /\ e.row = s.row /\ e.screen[~s.alt] = s.screen[~s.alt]
  BY <1>4, <1>6 DEF SameLines, Unselects
<1>9. Unselects(s, e)
  <2>1. Unselects(s, v) /\ Unselects(w, e)
    BY <1>6 DEF Unselects, SameLines
  <2> QED
    BY <1>4, <2>1, UnselectsTransitive
<1>10. orig..s.bot \subseteq e.dirty
  BY <1>4, <1>6
<1>11. e.sel = s.sel => \A y \in a..z : ~selected(s, y)
  BY <1>4, <1>6 DEF selected
<1>12. \/ Unselects(e, u) /\ u.sel = NoSel
       \/ /\ Unselects(e, u) /\ u.sel = e.sel
          /\ e.sel.on /\ e.sel.alt = e.alt => e.sel.nb \notin orig..e.bot /\ e.sel.ne \notin orig..e.bot
       \/ Shifted(e, u, orig, d)
  <2>1. u = selscroll(e, orig, d)
    BY DEF e, w
  <2> QED
    BY <1>6, <1>7, <1>8, <2>1, selscrollMoves
<1>13. SameLines(e, u)
  <2>1. Fields(e)
    BY <1>6 DEF IsWindow
  <2> QED
    BY <2>1, selscrollKeepsLines DEF e, w
<1>14. u.row = s.row /\ u.alt = s.alt /\ Rows(u) = Rows(s) /\ IsFrame(u) /\ AtEnd(u)
  BY DEF Stays, IsScreen
<1>15. \A y \in Int : TLINE(s, y) = Line(s, s.alt, y) /\ TLINE(u, y) = Line(u, s.alt, y)
  BY <1>1, <1>14, TLINEIsLine
<1>16. \A x \in BOOLEAN : u.screen[x].off = s.screen[x].off
  <2>1. u.screen[s.alt].off = s.screen[s.alt].off
    BY <1>14 DEF AtEnd, TSCREEN
  <2>2. u.screen[~s.alt].off = s.screen[~s.alt].off
    BY <1>8, <1>13 DEF SameLines
  <2> QED
    BY <1>1, <2>1, <2>2
<1>17. e.dirty \subseteq u.dirty
  BY <1>12 DEF Unselects, Shifted
<1>18. s.dirty \subseteq u.dirty /\ orig..s.bot \subseteq u.dirty
  BY <1>9, <1>10, <1>17 DEF Unselects
<1>19. \A y \in Rows(s) : y \in orig..s.bot \/ TLINE(u, y) = TLINE(s, y)
  BY <1>1, <1>15
<1>20. CASE u.sel = NoSel /\ Unselects(e, u)
  <2>1. Unselects(s, u)
    BY <1>9, <1>20, UnselectsTransitive
  <2>2. SelSound(u) /\ ~Selects(u) /\ \A y : ~selected(u, y)
    BY <1>20, NoSelSelects
  <2>3. \A y \in Rows(s) : y \in u.dirty \/ Alike(s, u, y)
    <3>1. u.sel = s.sel => \A y : selected(u, y) <=> selected(s, y)
      BY <1>14 DEF selected
    <3>2. \A y \in Rows(s) : y \in u.dirty \/ ~selected(s, y)
      BY <2>1, <2>2, <3>1 DEF Unselects
    <3> QED
      BY <1>18, <1>19, <2>2, <3>2 DEF Alike
  <2> QED
    BY <1>14, <1>16, <1>18, <1>20, <2>2, <2>3 DEF Attends
<1>21. CASE /\ Unselects(e, u) /\ u.sel = e.sel /\ u.sel # NoSel
            /\ e.sel.on /\ e.sel.alt = e.alt => e.sel.nb \notin orig..e.bot /\ e.sel.ne \notin orig..e.bot
  <2>1. e.sel = s.sel /\ u.sel = s.sel
    BY <1>9, <1>21 DEF Unselects
  <2>2. \A y : selected(u, y) <=> selected(s, y)
    BY <1>14, <2>1 DEF selected
  <2>3. \A y \in Rows(s) : y \in u.dirty \/ Alike(s, u, y)
    BY <1>18, <1>19, <2>2 DEF Alike
  <2>4. Chosen(s)
    BY <1>21, <2>1 DEF SelSound
  <2>5. SelSound(u)
    BY <1>14, <2>1, <2>4 DEF SelSound, Chosen
  <2>6. ASSUME Selects(u) PROVE Selects(s) /\ SelText(u) = SelText(s)
    <3>1. Selects(s) /\ s.sel.on /\ s.sel.alt = s.alt
      BY <1>14, <2>1, <2>6 DEF Selects
    <3>2. s.sel.nb \in Rows(s) /\ s.sel.ne \in Rows(s) /\ s.sel.nb <= s.sel.ne
      BY <1>1, <2>4, ChosenEnds
    <3>3. s.sel.nb \notin orig..s.bot /\ s.sel.ne \notin orig..s.bot
      BY <1>8, <1>21, <2>1, <3>1
    <3>4. a \notin s.sel.nb..s.sel.ne
      <4>1. a \in a..z
        BY <1>2
      <4>2. ~selected(s, a)
        BY <1>11, <2>1, <4>1
      <4> QED
        BY <3>1, <4>2 DEF selected, Selects
    <3> DEFINE nb == s.sel.nb
               ne == s.sel.ne
               bot == s.bot
               row == s.row
    <3>5. /\ nb \in 0..(row - 1) /\ ne \in 0..(row - 1) /\ row \in Nat /\ nb <= ne /\ nb \notin orig..bot /\ ne \notin orig..bot
          /\ a \notin nb..ne /\ a \in orig..bot /\ orig \in Int /\ bot \in Int
      BY <1>1, <1>2, <3>2, <3>3, <3>4
    <3> HIDE DEF nb, ne, bot, row
    <3>6. \A y \in nb..ne : y \notin orig..bot /\ y \in 0..(row - 1)
      BY <3>5
    <3>7. \A y \in nb..ne : TLINE(u, y) = TLINE(s, y)
      BY <1>1, <1>19, <3>6 DEF bot, row
    <3>8. nb \in Int /\ ne \in Int
      BY <3>5
    <3>9. SelText(u) = SelText(s)
      BY <2>1, <3>7, <3>8, SameText DEF nb, ne
    <3> QED
      BY <3>1, <3>9
  <2> QED
    BY <1>14, <1>16, <1>18, <1>21, <2>1, <2>3, <2>5, <2>6 DEF Attends
<1>22. CASE Shifted(e, u, orig, d)
  <2>1. e.sel # NoSel
    BY <1>22 DEF Shifted, NoSel
  <2>2. e.sel = s.sel /\ s.sel # NoSel
    BY <1>9, <2>1 DEF Unselects
  <2> DEFINE nb == s.sel.nb
             ne == s.sel.ne
             bot == s.bot
             top == s.top
  <2>3. /\ nb \in orig..bot /\ ne \in orig..bot /\ u.sel.nb = nb + d /\ u.sel.ne = ne + d
        /\ nb + d \in top..bot /\ ne + d \in top..bot /\ u.sel.mode = s.sel.mode
        /\ s.sel.on = TRUE /\ u.sel.on = TRUE /\ s.sel.alt = s.alt /\ u.sel.alt = s.alt
    BY <1>8, <1>22, <2>2 DEF Shifted
  <2>4. top \in Int /\ bot \in Int /\ orig \in Int /\ (orig = top \/ (d >= 0 /\ top <= orig)) /\ orig \in top..bot
    BY <1>1, <1>2, <2>2
  <2> HIDE DEF nb, ne, bot, top
  <2>5. /\ nb \in Int /\ ne \in Int /\ nb..ne \subseteq orig..bot /\ (nb + d)..(ne + d) \subseteq orig..bot
        /\ \A y \in nb..ne : y \in orig..bot /\ y + d \in top..bot
    BY <2>3, <2>4
  <2>6. \A y \in nb..ne : TLINE(u, y + d) = TLINE(s, y)
    <3> TAKE y \in nb..ne
    <3>1. y \in orig..bot /\ y + d \in top..bot /\ y \in Int /\ y + d \in Int
      BY <2>5
    <3>2. Line(u, s.alt, y + d) = Line(s, s.alt, y)
      BY <2>2, <3>1 DEF top, bot
    <3> QED
      BY <1>15, <3>1, <3>2
  <2>7. SelText(u) = SelText(s)
    BY <2>3, <2>5, <2>6, MovedText DEF nb, ne
  <2>8. Selects(s) <=> Selects(u)
    BY <1>14, <2>3 DEF Selects
  <2>9. SelSound(u)
    BY <1>22 DEF Shifted, SelSound
  <2>10. \A y \in Rows(s) : y \in u.dirty \/ Alike(s, u, y)
    <3> TAKE y \in Rows(s)
    <3>1. selected(s, y) => y \in nb..ne
      BY DEF selected, nb, ne
    <3>2. selected(u, y) => y \in (nb + d)..(ne + d)
      BY <2>3 DEF selected
    <3> QED
      BY <1>18, <1>19, <2>5, <3>1, <3>2 DEF Alike, bot
  <2> QED
    BY <1>14, <1>16, <1>18, <2>2, <2>7, <2>8, <2>9, <2>10 DEF Attends
<1> QED
  BY <1>12, <1>20, <1>21, <1>22

(* The ring of the shown page is exchanged, and perhaps the history's      *)
(* length.                                                                 *)
Rerings(s, v) ==
    \E b, x : v = [s EXCEPT !.screen[s.alt] = b] \/ v = [[s EXCEPT !.screen[s.alt] = b] EXCEPT !.hist = x]

(* Nothing else of the window changes with it.                             *)
LEMMA ExchangedWindow ==
    ASSUME NEW s, IsWindow(s), NEW v, Rerings(s, v)
    PROVE  /\ IsWindow(v) /\ v.row = s.row /\ v.alt = s.alt /\ v.top = s.top /\ v.bot = s.bot
           /\ v.sel = s.sel /\ v.dirty = s.dirty /\ v.screen[~s.alt] = s.screen[~s.alt]
<1>0. PICK b, x : v = [s EXCEPT !.screen[s.alt] = b] \/ v = [[s EXCEPT !.screen[s.alt] = b] EXCEPT !.hist = x]
  BY Zenon DEF Rerings
<1> DEFINE u == [s EXCEPT !.screen[s.alt] = b]
<1>1. Fields(s) /\ s.alt \in BOOLEAN /\ s.screen = [z \in BOOLEAN |-> s.screen[z]]
  BY DEF IsWindow
<1>2. /\ Fields(u) /\ u.row = s.row /\ u.alt = s.alt /\ u.top = s.top /\ u.bot = s.bot
      /\ u.sel = s.sel /\ u.dirty = s.dirty /\ u.screen = [s.screen EXCEPT ![s.alt] = b]
  BY <1>1 DEF Fields
<1> HIDE DEF u
<1>3. /\ Fields(v) /\ v.row = s.row /\ v.alt = s.alt /\ v.top = s.top /\ v.bot = s.bot
      /\ v.sel = s.sel /\ v.dirty = s.dirty /\ v.screen = [s.screen EXCEPT ![s.alt] = b]
  <2>1. v = u \/ v = [u EXCEPT !.hist = x]
    BY <1>0, Zenon DEF u
  <2> QED
    BY <1>2, <2>1 DEF Fields
<1>4. v.screen = [z \in BOOLEAN |-> v.screen[z]] /\ v.screen[~s.alt] = s.screen[~s.alt]
  BY <1>1, <1>3
<1>5. Rows(v) = Rows(s)
  BY <1>3 DEF Rows
<1> QED
  BY <1>3, <1>4, <1>5 DEF IsWindow

(* tscrollup takes care of the selection, unless lines that are above      *)
(* orig but in the region stay.                                            *)
LEMMA tscrollupAttends ==
    ASSUME NEW s, IsScreen(s), AtEnd(s), SelSound(s), NEW orig \in s.top..s.bot, NEW n0 \in Nat \ {0},
           orig = s.top \/ s.sel = NoSel
    PROVE  Attends(s, tscrollup(s, orig, n0))
<1> DEFINE n == LIMIT(n0, 0, s.bot - orig + 1)
           e == Ensured(TSCREEN(s), s.row..(s.row + n - 1))
           r == Exchanged(Exchanged(e, Descending(orig - 1, 0), n), Descending(s.row - 1, s.bot + 1), n)
           b == [r EXCEPT !.cur = (@ + n) % r.size]
           u == [s EXCEPT !.screen[s.alt] = b]
           v == IF s.alt THEN u ELSE [u EXCEPT !.hist = Least(@ + n, HISTSIZE - s.row)]
           x == tscrollup(s, orig, n0)
<1>1. IsWindow(s) /\ s.top \in 0..(s.row - 1) /\ s.bot \in s.top..(s.row - 1) /\ s.row \in Nat
  BY FrameIsWindow DEF IsScreen, IsWindow, Rows
<1> DEFINE top == s.top
           bot == s.bot
<1>2. top \in Nat /\ bot \in Nat /\ orig \in top..bot /\ orig \in 0..bot
  <2> DEFINE row == s.row
  <2>1. top \in 0..(row - 1) /\ bot \in top..(row - 1) /\ row \in Nat /\ orig \in top..bot
    BY <1>1
  <2> HIDE DEF top, bot, row
  <2> QED
    BY <2>1
<1>3. n \in 1..(s.bot - orig + 1) /\ UpBy(s, x, orig, n)
  BY <1>2, tscrollupMovesBy
<1>4. x = selscroll(tsetdirt(tclearregion(v, s.bot - n + 1, s.bot), orig, s.bot - n + 1), orig, -n)
  BY Zenon DEF tscrollup
<1> HIDE DEF n, e, r, x, b
<1>5. /\ IsWindow(v) /\ v.row = s.row /\ v.alt = s.alt /\ v.top = s.top /\ v.bot = s.bot
      /\ v.sel = s.sel /\ v.dirty = s.dirty /\ v.screen[~s.alt] = s.screen[~s.alt]
  <2>1. Rerings(s, v)
    BY Zenon DEF Rerings
  <2> HIDE DEF v
  <2> QED
    BY <1>1, <2>1, ExchangedWindow
<1> HIDE DEF v, top, bot
<1> DEFINE a == bot - n + 1
<1>6. /\ a \in orig..bot /\ bot \in orig..bot /\ orig \in orig..bot /\ a <= bot /\ -n \in Int
      /\ \A y \in orig..bot : y \in a..bot \/ y \in orig..a
  <2>1. n \in 1..(bot - orig + 1)
    BY <1>3 DEF bot
  <2> QED
    BY <1>2, <2>1
<1>7. Stays(s, x) /\ \A y \in Rows(s) : y \in orig..s.bot \/ Line(x, s.alt, y) = Line(s, s.alt, y)
  <2>1. \A y \in Rows(s) : y \in orig..(s.bot - n) => y \in orig..s.bot
    <3>1. n \in 1..(bot - orig + 1)
      BY <1>3 DEF bot
    <3>2. \A y : y \in orig..(bot - n) => y \in orig..bot
      BY <1>2, <3>1
    <3> QED
      BY <3>2 DEF bot
  <2> QED
    BY <1>3, <2>1 DEF UpBy
<1>8. ASSUME s.sel # NoSel, NEW y \in orig..s.bot, y + (-n) \in s.top..s.bot
      PROVE  Line(x, s.alt, y + (-n)) = Line(s, s.alt, y)
  <2>1. n \in 1..(bot - orig + 1) /\ orig = top /\ y \in orig..bot /\ y + (-n) \in top..bot
    BY <1>3, <1>8 DEF top, bot
  <2>2. y + (-n) \in orig..(bot - n) /\ (y + (-n)) + n = y
    BY <1>2, <2>1
  <2>3. y + (-n) \in Rows(s)
    <3> DEFINE row == s.row
    <3>1. top \in 0..(row - 1) /\ bot \in top..(row - 1) /\ row \in Nat
      BY <1>1 DEF top, bot
    <3> HIDE DEF row
    <3>2. y + (-n) \in 0..(row - 1)
      BY <2>1, <3>1
    <3> QED
      BY <3>2 DEF Rows, row
  <2> QED
    BY <1>3, <2>2, <2>3 DEF UpBy, bot
<1> DEFINE d == -n
<1>9. x = selscroll(tsetdirt(tclearregion(v, a, s.bot), orig, a), orig, d)
  BY <1>4 DEF a, bot
<1>10. /\ s.sel # NoSel => orig = s.top \/ d >= 0
       /\ s.sel # NoSel => \A y \in orig..s.bot : y + d \in s.top..s.bot => Line(x, s.alt, y + d) = Line(s, s.alt, y)
  BY <1>8
<1>11. /\ a \in orig..s.bot /\ s.bot \in orig..s.bot /\ orig \in orig..s.bot /\ a <= s.bot /\ d \in Int
       /\ \A y \in orig..s.bot : y \in a..s.bot \/ y \in orig..a
  BY <1>6 DEF bot
<1> HIDE DEF a, d
<1>12. Attends(s, x)
  BY <1>5, <1>7, <1>9, <1>10, <1>11, ScrolledAttends
<1> QED
  BY <1>12 DEF x

(* tscrolldown always takes care of it.                                    *)
LEMMA tscrolldownAttends ==
    ASSUME NEW s, IsScreen(s), AtEnd(s), SelSound(s), NEW orig \in s.top..s.bot, NEW n0 \in Nat \ {0}
    PROVE  Attends(s, tscrolldown(s, orig, n0))
<1> DEFINE n == LIMIT(n0, 0, s.bot - orig + 1)
           e == Ensured(TSCREEN(s), (-n)..(-1))
           r == Exchanged(Exchanged(e, Ascending(s.bot + 1, s.row - 1), -n), Ascending(0, orig - 1), -n)
           b == [r EXCEPT !.cur = (@ + r.size - n) % r.size]
           u == [s EXCEPT !.screen[s.alt] = b]
           v == IF s.alt THEN u ELSE [u EXCEPT !.hist = Most(@ - n, 0)]
           x == tscrolldown(s, orig, n0)
<1>1. IsWindow(s) /\ s.top \in 0..(s.row - 1) /\ s.bot \in s.top..(s.row - 1) /\ s.row \in Nat
  BY FrameIsWindow DEF IsScreen, IsWindow, Rows
<1> DEFINE top == s.top
           bot == s.bot
<1>2. top \in Nat /\ bot \in Nat /\ orig \in top..bot /\ orig \in 0..bot
  <2> DEFINE row == s.row
  <2>1. top \in 0..(row - 1) /\ bot \in top..(row - 1) /\ row \in Nat /\ orig \in top..bot
    BY <1>1
  <2> HIDE DEF top, bot, row
  <2> QED
    BY <2>1
<1>3. n \in 1..(s.bot - orig + 1) /\ DownBy(s, x, orig, n)
  BY <1>2, tscrolldownMovesBy
<1>4. x = selscroll(tsetdirt(tclearregion(v, orig, orig + n - 1), orig + n - 1, s.bot), orig, n)
  BY Zenon DEF tscrolldown
<1> HIDE DEF n, e, r, x, b
<1>5. /\ IsWindow(v) /\ v.row = s.row /\ v.alt = s.alt /\ v.top = s.top /\ v.bot = s.bot
      /\ v.sel = s.sel /\ v.dirty = s.dirty /\ v.screen[~s.alt] = s.screen[~s.alt]
  <2>1. Rerings(s, v)
    BY Zenon DEF Rerings
  <2> HIDE DEF v
  <2> QED
    BY <1>1, <2>1, ExchangedWindow
<1> HIDE DEF v, top, bot
<1> DEFINE z == orig + n - 1
<1>6. /\ z \in orig..bot /\ bot \in orig..bot /\ orig \in orig..bot /\ orig <= z /\ n \in Int /\ n >= 0
      /\ \A y \in orig..bot : y \in orig..z \/ y \in z..bot
  <2>1. n \in 1..(bot - orig + 1)
    BY <1>3 DEF bot
  <2> QED
    BY <1>2, <2>1
<1>7. Stays(s, x) /\ \A y \in Rows(s) : y \in orig..s.bot \/ Line(x, s.alt, y) = Line(s, s.alt, y)
  <2>1. \A y \in Rows(s) : y \in (orig + n)..s.bot => y \in orig..s.bot
    <3>1. n \in 1..(bot - orig + 1)
      BY <1>3 DEF bot
    <3>2. \A y : y \in (orig + n)..bot => y \in orig..bot
      BY <1>2, <3>1
    <3> QED
      BY <3>2 DEF bot
  <2> QED
    BY <1>3, <2>1 DEF DownBy
<1>8. ASSUME NEW y \in orig..s.bot, y + n \in s.top..s.bot
      PROVE  Line(x, s.alt, y + n) = Line(s, s.alt, y)
  <2>1. n \in 1..(bot - orig + 1) /\ y \in orig..bot /\ y + n \in top..bot
    BY <1>3, <1>8 DEF top, bot
  <2>2. y + n \in (orig + n)..bot /\ (y + n) - n = y
    BY <1>2, <2>1
  <2>3. y + n \in Rows(s)
    <3> DEFINE row == s.row
    <3>1. top \in 0..(row - 1) /\ bot \in top..(row - 1) /\ row \in Nat
      BY <1>1 DEF top, bot
    <3> HIDE DEF row
    <3>2. y + n \in 0..(row - 1)
      BY <2>1, <3>1
    <3> QED
      BY <3>2 DEF Rows, row
  <2> QED
    BY <1>3, <2>2, <2>3 DEF DownBy, bot
<1>9. x = selscroll(tsetdirt(tclearregion(v, orig, z), z, s.bot), orig, n)
  BY <1>4 DEF z
<1>10. /\ s.sel # NoSel => orig = s.top \/ n >= 0
       /\ s.sel # NoSel => \A y \in orig..s.bot : y + n \in s.top..s.bot => Line(x, s.alt, y + n) = Line(s, s.alt, y)
  BY <1>6, <1>8
<1>11. /\ z \in orig..s.bot /\ s.bot \in orig..s.bot /\ orig \in orig..s.bot /\ orig <= z /\ n \in Int
       /\ \A y \in orig..s.bot : y \in orig..z \/ y \in z..s.bot
  BY <1>6 DEF bot
<1> HIDE DEF z
<1>12. Attends(s, x)
  BY <1>5, <1>7, <1>9, <1>10, <1>11, ScrolledAttends
<1> QED
  BY <1>12 DEF x

(* Erasing rows.                                                           *)
LEMMA tclearregionAttends ==
    ASSUME NEW s, IsScreen(s), AtEnd(s), SelSound(s), NEW a \in Rows(s), NEW z \in Rows(s), a <= z
    PROVE  Attends(s, tclearregion(s, a, z)) /\ Unselects(s, tclearregion(s, a, z))
<1> DEFINE u == tclearregion(s, a, z)
<1>0. IsFrame(s) /\ IsWindow(s)
  BY FrameIsWindow DEF IsScreen
<1>1. IsFrame(s) /\ IsWindow(s) /\ s.row \in Nat \ {0} /\ Rows(s) = 0..(s.row - 1) /\ s.alt \in BOOLEAN
  BY <1>0, FrameIsWindow DEF IsWindow
<1>2. /\ Unselects(s, u) /\ a..z \subseteq u.dirty /\ SelSound(u) /\ u.screen[~s.alt] = s.screen[~s.alt]
      /\ u.sel = s.sel => \A y \in a..z : ~selected(s, y)
  BY <1>0, tclearregionUnselects
<1>3. /\ IsFrame(u) /\ AtEnd(u)
      /\ \A y \in (s.row - TSCREEN(s).size)..(s.row - 1) :
            Line(u, s.alt, y) = IF y \in a..z THEN Blank ELSE Line(s, s.alt, y)
  BY <1>0, tclearregionClears
<1> HIDE DEF u
<1>4. u.row = s.row /\ u.alt = s.alt
  BY <1>2 DEF Unselects
<1>5. \A y \in Rows(s) : y \in a..z \/ TLINE(u, y) = TLINE(s, y)
  <2> TAKE y \in Rows(s)
  <2>1. y \in Int /\ y \in (s.row - TSCREEN(s).size)..(s.row - 1)
    <3>1. TSCREEN(s).size \in Nat /\ s.row <= TSCREEN(s).size
      BY <1>1, ShownRing
    <3> QED
      BY <1>1, <3>1
  <2>2. TLINE(s, y) = Line(s, s.alt, y) /\ TLINE(u, y) = Line(u, s.alt, y)
    BY <1>1, <1>3, <1>4, <2>1, TLINEIsLine
  <2> QED
    BY <1>3, <2>1, <2>2
<1>6. \A x \in BOOLEAN : u.screen[x].off = s.screen[x].off
  <2>1. u.screen[s.alt].off = s.screen[s.alt].off
    BY <1>3, <1>4 DEF AtEnd, TSCREEN
  <2> QED
    BY <1>1, <1>2, <2>1
<1>7. CASE u.sel = s.sel
  <2>1. \A y : selected(u, y) <=> selected(s, y)
    BY <1>4, <1>7 DEF selected
  <2>2. ASSUME Selects(u) PROVE Selects(s) /\ SelText(u) = SelText(s)
    <3>1. Selects(s) /\ s.sel # NoSel
      BY <1>4, <1>7, <2>2 DEF Selects, NoSel
    <3>2. s.sel.nb \in Rows(s) /\ s.sel.ne \in Rows(s)
      BY <1>1, <3>1, ChosenEnds DEF SelSound
    <3>3. \A y \in s.sel.nb..s.sel.ne : selected(s, y) /\ y \in Rows(s)
      BY <1>1, <3>1, <3>2 DEF selected, Selects
    <3>4. \A y \in s.sel.nb..s.sel.ne : TLINE(u, y) = TLINE(s, y)
      BY <1>2, <1>5, <1>7, <3>3
    <3>5. s.sel.nb \in Int /\ s.sel.ne \in Int
      BY <1>1, <3>2
    <3>6. SelText(u) = SelText(s)
      BY <1>7, <3>4, <3>5, SameText
    <3> QED
      BY <3>1, <3>6
  <2> QED
    BY <1>2, <1>4, <1>5, <1>6, <1>7, <2>1, <2>2 DEF Attends, Unselects, Alike, u
<1>8. CASE u.sel # s.sel
  <2>1. u.sel = NoSel /\ \A y \in Rows(s) : selected(s, y) => y \in u.dirty
    BY <1>2, <1>8 DEF Unselects
  <2>2. ~Selects(u) /\ \A y : ~selected(u, y)
    BY <2>1, NoSelSelects
  <2> QED
    BY <1>2, <1>4, <1>5, <1>6, <2>1, <2>2 DEF Attends, Unselects, Alike, u
<1> QED
  BY <1>7, <1>8

(* Moving the cursor, and everything else that leaves the rings alone.     *)
LEMMA FieldsAttend ==
    ASSUME NEW s, IsScreen(s), SelSound(s), NEW u, Keeps(s, u), u.sel = s.sel, u.dirty = s.dirty, u.screen = s.screen
    PROVE  Attends(s, u)
BY KeepsAttends

(* Moving the cursor leaves the selection alone.                           *)
LEMMA tmovetoAttends ==
    ASSUME NEW s, IsScreen(s), SelSound(s), NEW y \in Int
    PROVE  Attends(s, tmoveto(s, y)) /\ Attends(s, tmoveato(s, y))
<1>1. \A z : tmoveto(s, z).sel = s.sel /\ tmoveto(s, z).dirty = s.dirty /\ tmoveto(s, z).screen = s.screen
  BY ScreenRows DEF tmoveto, Fields
<1>2. Keeps(s, tmoveto(s, y)) /\ Keeps(s, tmoveato(s, y))
  BY tmovetoKeeps, tmoveatoKeeps
<1>3. Attends(s, tmoveto(s, y))
  BY <1>1, <1>2, FieldsAttend
<1>4. tmoveato(s, y) = tmoveto(s, y + (IF s.c.origin THEN s.top ELSE 0))
  BY DEF tmoveato
<1>5. Attends(s, tmoveato(s, y))
  BY <1>1, <1>2, <1>4, FieldsAttend
<1> QED
  BY <1>3, <1>5

(* So does setting the region, or origin mode.                             *)
LEMMA MarginsAttend ==
    ASSUME NEW s, IsScreen(s), SelSound(s), NEW a \in Int, NEW b \in Int, NEW set \in BOOLEAN
    PROVE  Attends(s, tsetscroll(s, a, b)) /\ Attends(s, [s EXCEPT !.c.origin = set])
<1>1. /\ tsetscroll(s, a, b).sel = s.sel /\ tsetscroll(s, a, b).dirty = s.dirty /\ tsetscroll(s, a, b).screen = s.screen
  BY ScreenRows DEF tsetscroll, Fields
<1>2. LET u == [s EXCEPT !.c.origin = set] IN u.sel = s.sel /\ u.dirty = s.dirty /\ u.screen = s.screen
  BY ScreenRows DEF Fields
<1> QED
  BY <1>1, <1>2, tsetscrollKeeps, originKeeps, FieldsAttend

(* So does saving or restoring the cursor.                                 *)
LEMMA CursorAttends ==
    ASSUME NEW s, IsScreen(s), SelSound(s)
    PROVE  Attends(s, CURSOR_SAVE(s)) /\ Attends(s, CURSOR_LOAD(s))
<1>1. Fields(s) /\ s.alt \in BOOLEAN /\ s.screen = [x \in BOOLEAN |-> s.screen[x]]
  BY ScreenRows
<1>2. Attends(s, CURSOR_SAVE(s))
  <2> DEFINE u == CURSOR_SAVE(s)
             b == [s.screen[s.alt] EXCEPT !.sc = s.c]
  <2>1. IsRing(s.screen[s.alt], s.screen[s.alt].size)
    BY ShownRing DEF IsScreen, TSCREEN
  <2>2. b.off = s.screen[s.alt].off
    BY <2>1 DEF IsRing
  <2>3. u = [s EXCEPT !.screen[s.alt] = b]
    BY DEF CURSOR_SAVE
  <2> HIDE DEF b
  <2>4. u.sel = s.sel /\ u.dirty = s.dirty /\ u.screen = [s.screen EXCEPT ![s.alt] = b]
    BY <1>1, <2>3 DEF Fields
  <2>5. \A x \in BOOLEAN : u.screen[x].off = s.screen[x].off
    BY <1>1, <2>2, <2>4
  <2>6. Keeps(s, u)
    BY CURSOR_SAVEKeeps
  <2> HIDE DEF u
  <2>7. Attends(s, u)
    BY <2>4, <2>5, <2>6, KeepsAttends
  <2> QED
    BY <2>7 DEF u
<1>3. Attends(s, CURSOR_LOAD(s))
  <2> DEFINE v == [s EXCEPT !.c = TSCREEN(s).sc]
  <2>1. Fields(v) /\ v.sel = s.sel /\ v.dirty = s.dirty /\ v.screen = s.screen
    BY <1>1 DEF Fields
  <2>2. CURSOR_LOAD(s) = tmoveto(v, v.c.y)
    BY DEF CURSOR_LOAD
  <2> HIDE DEF v
  <2>3. CURSOR_LOAD(s).sel = s.sel /\ CURSOR_LOAD(s).dirty = s.dirty /\ CURSOR_LOAD(s).screen = s.screen
    BY <2>1, <2>2 DEF tmoveto, Fields
  <2> QED
    BY <2>3, CURSOR_LOADKeeps, FieldsAttend
<1> QED
  BY <1>2, <1>3

(* A new line. *)
LEMMA tnewlineAttends ==
    ASSUME NEW s, IsScreen(s), AtEnd(s), SelSound(s)
    PROVE  Attends(s, tnewline(s))
<1>1. s.c.y \in Int /\ s.c.y + 1 \in Int /\ s.top \in s.top..s.bot
  BY RowsNearby
<1>2. CASE s.c.y = s.bot
  <2> DEFINE u == tscrollup(s, s.top, 1)
  <2>1. IsScreen(u)
    BY OneLineUp
  <2>2. 1 \in Nat \ {0}
    OBVIOUS
  <2>3. Attends(s, u)
    BY <1>1, <2>2, tscrollupAttends
  <2>4. tnewline(s) = tmoveto(u, s.c.y)
    BY <1>2 DEF tnewline
  <2> HIDE DEF u
  <2>5. Attends(u, tmoveto(u, s.c.y))
    BY <1>1, <2>1, <2>3, tmovetoAttends DEF Attends
  <2> QED
    BY <2>3, <2>4, <2>5, AttendsTransitive
<1>3. CASE s.c.y # s.bot
  <2>1. tnewline(s) = tmoveto(s, s.c.y + 1)
    BY <1>3 DEF tnewline
  <2> QED
    BY <1>1, <2>1, tmovetoAttends
<1> QED
  BY <1>2, <1>3

(* Taking the selection away.                                              *)
LEMMA selclearAttends ==
    ASSUME NEW s, IsScreen(s), SelSound(s)
    PROVE  /\ Attends(s, selclear(s)) /\ IsScreen(selclear(s)) /\ (AtEnd(s) => AtEnd(selclear(s)))
           /\ selclear(s).sel = NoSel /\ SameLines(s, selclear(s))
<1> DEFINE u == selclear(s)
<1>1. IsWindow(s) /\ Fields(s)
  BY FrameIsWindow, ScreenRows DEF IsScreen
<1>2. SameLines(s, u) /\ Unselects(s, u) /\ u.sel = NoSel
  BY <1>1, selclearUnselects, selclearKeepsLines
<1> HIDE DEF u
<1>3. IsScreen(u) /\ (AtEnd(s) => AtEnd(u)) /\ TSCREEN(u) = TSCREEN(s)
  BY <1>2, SameLinesIsScreen
<1>4. \A y : TLINE(u, y) = TLINE(s, y)
  BY <1>3 DEF TLINE
<1>5. SelSound(u) /\ ~Selects(u) /\ \A y : ~selected(u, y)
  BY <1>2, NoSelSelects
<1>6. u.row = s.row /\ u.alt = s.alt /\ u.screen = s.screen
  BY <1>2 DEF SameLines
<1>7. \A y \in Rows(s) : y \in u.dirty \/ ~selected(s, y)
  <2>1. CASE u.sel = s.sel
    BY <1>2, <2>1, NoSelSelects
  <2>2. CASE u.sel # s.sel
    BY <1>2, <2>2 DEF Unselects
  <2> QED
    BY <2>1, <2>2
<1>8. Attends(s, u)
  BY <1>2, <1>4, <1>5, <1>6, <1>7 DEF Attends, Alike, Unselects
<1> QED
  BY <1>2, <1>3, <1>8 DEF u

(* Rows that changed are marked. *)
Marked(s, u) == \A y \in Rows(s) \cap Rows(u) : y \in u.dirty \/ Alike(s, u, y)

(* A selection on the page that is shown is of the same text, unless it    *)
(* has just been written into.                                             *)
Follows(s, u) == Selects(s) /\ Selects(u) /\ u.c.y \notin u.sel.nb..u.sel.ne => SelText(u) = SelText(s)

(* The view of both pages is at their ends.                                *)
AtEnds(s) == \A x \in BOOLEAN : s.screen[x].off = 0

(* What a whole step does for the selection.                               *)
Tends(s, u) == /\ Marked(s, u) /\ Follows(s, u) /\ SelSound(u)
               /\ (s.sel = NoSel => u.sel = NoSel) /\ (AtEnds(s) => AtEnds(u)) /\ s.dirty \subseteq u.dirty

(* Taking care of the selection is enough.                                 *)
LEMMA AttendsTends ==
    ASSUME NEW s, NEW u, Attends(s, u)
    PROVE  Tends(s, u)
BY DEF Attends, Tends, Marked, Follows, AtEnds

(* A character is written, on a new line if it wraps.                      *)
LEMMA tputcTends ==
    ASSUME NEW s, IsScreen(s), AtEnd(s), SelSound(s), NEW x \in Text
    PROVE  Tends(s, tputc(s, x))
<1> DEFINE u == IF selected(s, s.c.y) THEN selclear(s) ELSE s
           v == IF u.c.wrapnext THEN tnewline(u) ELSE u
           w == TSetLine(v, v.c.y, x)
           z == [w EXCEPT !.c.wrapnext = TRUE]
<1>1. tputc(s, x) = z
  BY Zenon DEF tputc
<1>2. Attends(s, u) /\ IsScreen(u) /\ AtEnd(u)
  BY selclearAttends, AttendsReflexive
<1> HIDE DEF u
<1>3. SelSound(u)
  BY <1>2 DEF Attends
<1>4. Attends(u, v) /\ IsScreen(v) /\ AtEnd(v)
  <2>1. CASE u.c.wrapnext
    BY <1>2, <1>3, <2>1, tnewlineAttends, tnewlineSteps
  <2>2. CASE ~u.c.wrapnext
    BY <1>2, <1>3, <2>2, AttendsReflexive
  <2> QED
    BY <2>1, <2>2
<1> HIDE DEF v
<1>5. Attends(s, v) /\ SelSound(v)
  BY <1>2, <1>4, AttendsTransitive DEF Attends
<1> DEFINE y == v.c.y
<1>6. y \in Rows(v) /\ Fields(v) /\ v.alt \in BOOLEAN /\ v.screen = [i \in BOOLEAN |-> v.screen[i]] /\ IsFrame(v)
  BY <1>4, ScreenRows, RowsNearby DEF IsScreen
<1>7. Wrote(v, w, y)
  BY <1>4, <1>6, TSetLineWrites
<1>8. /\ w.dirty = v.dirty \cup {y} /\ w.sel = v.sel /\ w.screen[~v.alt] = v.screen[~v.alt] /\ Fields(w)
  <2> DEFINE b == [v.screen[v.alt] EXCEPT !.buffer[TLINEOFFSET(TSCREEN(v), y)] = x]
  <2>1. w = [v EXCEPT !.screen[v.alt] = b, !.dirty = @ \cup {y}]
    BY Zenon DEF TSetLine
  <2> HIDE DEF b, y, w
  <2>2. w.dirty = v.dirty \cup {y} /\ w.sel = v.sel /\ w.screen = [v.screen EXCEPT ![v.alt] = b] /\ Fields(w)
    BY <1>6, <2>1 DEF Fields
  <2>3. w.screen[~v.alt] = v.screen[~v.alt]
    BY <1>6, <2>2
  <2> QED
    BY <2>2, <2>3
<1> HIDE DEF w
<1>9. /\ IsScreen(w) /\ AtEnd(w) /\ w.row = v.row /\ w.c = v.c /\ w.alt = v.alt
      /\ \A i \in Rows(v) : i = y \/ Line(w, v.alt, i) = Line(v, v.alt, i)
  BY <1>7 DEF Wrote, Stays
<1>10. z.row = v.row /\ z.alt = v.alt /\ z.dirty = w.dirty /\ z.sel = v.sel /\ z.screen = w.screen
  BY <1>8, <1>9 DEF Fields
<1>11. z.c.y = y
  <2>1. w.c \in Cursors
    BY <1>9, ScreenRows
  <2>2. [w.c EXCEPT !.wrapnext = TRUE].y = w.c.y
    BY <2>1 DEF Cursors
  <2>3. z.c = [w.c EXCEPT !.wrapnext = TRUE]
    BY <1>8 DEF Fields
  <2> QED
    BY <1>9, <2>2, <2>3
<1> HIDE DEF z
<1>12. \A i \in Rows(v) : i = y \/ TLINE(z, i) = TLINE(v, i)
  <2> TAKE i \in Rows(v)
  <2>1. i \in Int /\ IsFrame(w)
    BY <1>9, RowIsInt DEF IsScreen
  <2>2. TLINE(w, i) = Line(w, w.alt, i) /\ TLINE(v, i) = Line(v, v.alt, i)
    BY <1>4, <1>6, <1>9, <2>1, TLINEIsLine
  <2>3. TLINE(z, i) = TLINE(w, i)
    BY <1>9, <1>10 DEF TLINE, TSCREEN
  <2> QED
    BY <1>9, <2>2, <2>3
<1>13. \A i : selected(z, i) <=> selected(v, i)
  BY <1>10 DEF selected
<1>14. \A i \in BOOLEAN : z.screen[i].off = v.screen[i].off
  <2>1. w.screen[v.alt].off = v.screen[v.alt].off
    BY <1>4, <1>9 DEF AtEnd, TSCREEN
  <2> QED
    BY <1>6, <1>8, <1>10, <2>1
<1>15. ASSUME Selects(z), z.c.y \notin z.sel.nb..z.sel.ne
       PROVE  Selects(v) /\ SelText(z) = SelText(v)
  <2>1. Selects(v) /\ v.sel # NoSel
    BY <1>10, <1>15 DEF Selects, NoSel
  <2>2. v.sel.nb \in Rows(v) /\ v.sel.ne \in Rows(v) /\ Rows(v) = 0..(v.row - 1) /\ v.row \in Nat
    BY <1>5, <1>6, <2>1, ChosenEnds, FrameIsWindow DEF SelSound
  <2>3. \A i \in v.sel.nb..v.sel.ne : i \in Rows(v) /\ i # y
    BY <1>10, <1>11, <1>15, <2>2
  <2>4. \A i \in v.sel.nb..v.sel.ne : TLINE(z, i) = TLINE(v, i)
    BY <1>12, <2>3
  <2>5. v.sel.nb \in Int /\ v.sel.ne \in Int
    BY <2>2
  <2> QED
    BY <1>10, <2>1, <2>4, <2>5, SameText
<1>16. Rows(z) = Rows(v) /\ Rows(v) = Rows(s)
  BY <1>5, <1>10 DEF Rows, Attends
<1>17. SelSound(z)
  BY <1>5, <1>10, <1>16 DEF SelSound, Chosen
<1>18. Marked(s, z)
  <2>1. \A i \in Rows(s) : i \in v.dirty \/ Alike(s, v, i)
    BY <1>5 DEF Attends
  <2>2. \A i \in Rows(s) : i \in z.dirty \/ Alike(v, z, i)
    BY <1>8, <1>10, <1>12, <1>13, <1>16 DEF Alike
  <2> QED
    BY <1>8, <1>10, <2>1, <2>2 DEF Marked, Alike
<1>19. Follows(s, z)
  BY <1>5, <1>15 DEF Follows, Attends
<1>20. (AtEnds(s) => AtEnds(z)) /\ (s.sel = NoSel => z.sel = NoSel) /\ s.dirty \subseteq z.dirty
  BY <1>5, <1>8, <1>10, <1>14 DEF Attends, AtEnds
<1> QED
  BY <1>1, <1>17, <1>18, <1>19, <1>20 DEF Tends

(* The other page is shown, all of it drawn. *)
Swapped(s, u) ==
    /\ u.row = s.row /\ Rows(s) \subseteq u.dirty /\ s.dirty \subseteq u.dirty /\ SelSound(u)
    /\ s.sel = NoSel => u.sel = NoSel
    /\ \A x \in BOOLEAN : u.screen[x].off = s.screen[x].off
    /\ ~(Selects(s) /\ Selects(u))

(* Every row of a full window is marked.                                   *)
LEMMA tfulldirtMarks ==
    ASSUME NEW s, Fields(s), s.row \in Nat \ {0}
    PROVE  /\ tfulldirt(s).dirty = s.dirty \cup Rows(s) /\ tfulldirt(s).sel = s.sel
           /\ SameLines(s, tfulldirt(s)) /\ Rows(tfulldirt(s)) = Rows(s)
<1>1. LIMIT(0, 0, s.row - 1) = 0 /\ LIMIT(s.row - 1, 0, s.row - 1) = s.row - 1
  BY DEF LIMIT
<1>2. tfulldirt(s) = [s EXCEPT !.dirty = s.dirty \cup Rows(s)]
  BY <1>1 DEF tfulldirt, tsetdirt, Rows
<1>3. \A x : [s EXCEPT !.dirty = x].dirty = x /\ [s EXCEPT !.dirty = x].sel = s.sel
  BY DEF Fields
<1>4. SameLines(s, tfulldirt(s))
  BY tsetdirtKeepsLines
<1> QED
  BY <1>2, <1>3, <1>4 DEF SameLines, Rows

(* swapscreen shows the other page, or takes care of the selection.        *)
LEMMA swapscreenSwapped ==
    ASSUME NEW s, IsScreen(s), AtEnd(s), SelSound(s), NEW set \in BOOLEAN
    PROVE  Attends(s, swapscreen(s, set)) \/ Swapped(s, swapscreen(s, set))
<1> DEFINE u == IF s.alt THEN tclearregion(s, 0, s.row - 1) ELSE s
           v == [u EXCEPT !.alt = ~@]
           w == tfulldirt(v)
<1>1. /\ s.row \in Nat \ {0} /\ Rows(s) = 0..(s.row - 1) /\ s.alt \in BOOLEAN /\ Fields(s)
  BY ScreenRows
<1>0. 0 \in Rows(s) /\ s.row - 1 \in Rows(s) /\ 0 <= s.row - 1
  BY <1>1, RowsNearby
<1>2. Attends(s, u) /\ Unselects(s, u) /\ Fields(u)
  <2>1. CASE s.alt
    <3>2. IsWindow(s)
      BY FrameIsWindow DEF IsScreen
    <3> DEFINE e == s.row - 1
    <3>3. 0 \in Rows(s) /\ e \in Rows(s) /\ 0 <= e
      BY <1>0
    <3>4. u = tclearregion(s, 0, e)
      BY <2>1
    <3> HIDE DEF e, u
    <3>5. IsWindow(tclearregion(s, 0, e)) /\ Attends(s, tclearregion(s, 0, e)) /\ Unselects(s, tclearregion(s, 0, e))
      BY <3>2, <3>3, tclearregionUnselects, tclearregionAttends
    <3> QED
      BY <3>4, <3>5 DEF IsWindow
  <2>2. CASE ~s.alt
    BY <1>1, <2>2, AttendsReflexive DEF Unselects
  <2> QED
    BY <2>1, <2>2
<1>3. swapscreen(s, set) = IF set # s.alt THEN w ELSE u
  BY Zenon DEF swapscreen
<1> HIDE DEF u
<1>4. Fields(v) /\ v.row = u.row /\ v.alt = ~u.alt /\ v.sel = u.sel /\ v.dirty = u.dirty /\ v.screen = u.screen
  BY <1>2 DEF Fields
<1>5. u.row = s.row /\ u.alt = s.alt
  BY <1>2 DEF Attends
<1> HIDE DEF v
<1>6. /\ w.dirty = u.dirty \cup Rows(s) /\ w.sel = u.sel /\ w.alt = ~s.alt /\ w.row = s.row /\ w.screen = u.screen
  BY <1>1, <1>4, <1>5, tfulldirtMarks DEF SameLines, Rows
<1>7. Rows(w) = Rows(u)
  BY <1>5, <1>6 DEF Rows
<1> HIDE DEF w
<1>8. SelSound(w)
  BY <1>2, <1>6, <1>7 DEF SelSound, Chosen, Attends
<1>9. ~(Selects(s) /\ Selects(w))
  <2>1. u.sel = NoSel \/ u.sel = s.sel
    BY <1>2 DEF Unselects
  <2>2. s.alt # w.alt
    BY <1>1, <1>6
  <2> QED
    BY <1>6, <2>1, <2>2 DEF Selects, NoSel
<1>10. Swapped(s, w)
  BY <1>2, <1>6, <1>8, <1>9 DEF Swapped, Attends
<1> QED
  BY <1>2, <1>3, <1>10

(* Between two steps that leave the selection alone a page may be swapped. *)
LEMMA SwappedTends ==
    ASSUME NEW s, NEW a, NEW b, NEW c, Attends(s, a), a.sel = s.sel, Attends(a, b) \/ Swapped(a, b), Attends(b, c)
    PROVE  Tends(s, c)
<1>1. CASE Attends(a, b)
  BY <1>1, AttendsTransitive, AttendsTends
<1>2. CASE Swapped(a, b)
  <2>1. a.row = s.row /\ b.row = s.row /\ c.row = s.row
    BY <1>2 DEF Attends, Swapped
  <2>2. Rows(a) = Rows(s) /\ Rows(b) = Rows(s)
    BY <2>1 DEF Rows
  <2>3. Rows(s) \subseteq c.dirty /\ s.dirty \subseteq c.dirty
    BY <1>2, <2>2 DEF Attends, Swapped
  <2>4. ~(Selects(s) /\ Selects(c))
    <3>1. Selects(s) <=> Selects(a)
      BY DEF Selects, Attends
    <3>2. Selects(c) => Selects(b)
      BY DEF Attends
    <3> QED
      BY <1>2, <3>1, <3>2 DEF Swapped
  <2>5. SelSound(c) /\ (s.sel = NoSel => c.sel = NoSel) /\ (AtEnds(s) => AtEnds(c))
    BY <1>2 DEF Attends, Swapped, AtEnds
  <2> QED
    BY <2>3, <2>4, <2>5 DEF Tends, Marked, Follows
<1> QED
  BY <1>1, <1>2

-----------------------------------------------------------------------------
(* The actions of StScreen take care of the selection.                     *)

(* The inductive invariant of the selection: it is in the window, and the  *)
(* view is at the end where there may be one.                              *)
SelInv == /\ SelSound(t)
          /\ t.sel # NoSel => "select" \in uses
          /\ "select" \in uses => AtEnds(t)

(* A selection comes with no action that changes the view or the window,   *)
(* and none that deletes lines inside of the region: with each of these    *)
(* the code leaves a selection where other text is.                        *)
Undisturbed == \A u \in Uses : "select" \in u => u \cap {"delete", "resize", "view", "reset"} = {}

(* What the properties ask of a step. *)
Kept == /\ SelInv' /\ Marked(t, t')
        /\ Selects(t) /\ Selects(t') /\ t'.c.y \notin t'.sel.nb..t'.sel.ne
             => SelText(t') = SelText(t) \/ User

(* Each step begins with the screen drawn.                                 *)
LEMMA ShownAlike ==
    ASSUME IsScreen(t), SelSound(t)
    PROVE  /\ shown.row = t.row /\ shown.alt = t.alt /\ shown.screen = t.screen /\ shown.sel = t.sel /\ shown.dirty = {}
           /\ \A y : Alike(t, shown, y)
           /\ (Selects(shown) <=> Selects(t)) /\ SelText(shown) = SelText(t)
           /\ SelSound(shown) /\ (AtEnds(shown) <=> AtEnds(t)) /\ IsScreen(shown) /\ Rows(shown) = Rows(t)
<1> DEFINE d == [t EXCEPT !.dirty = {}]
<1>1. d.row = t.row /\ d.alt = t.alt /\ d.screen = t.screen /\ d.sel = t.sel /\ d.dirty = {}
  BY ScreenRows DEF Fields
<1>2. shown = d
  BY DEF shown, drawregion
<1>3. IsScreen(shown)
  BY Starts DEF Viewed
<1> HIDE DEF d
<1>4. Rows(d) = Rows(t)
  BY <1>1 DEF Rows
<1>5. \A y : TLINE(d, y) = TLINE(t, y)
  BY <1>1 DEF TLINE, TSCREEN
<1>6. \A y : selected(d, y) <=> selected(t, y)
  BY <1>1 DEF selected
<1>7. (Selects(d) <=> Selects(t)) /\ SelText(d) = SelText(t)
  BY <1>1, <1>5 DEF Selects, SelText
<1>8. SelSound(d)
  BY <1>1, <1>4 DEF SelSound, Chosen
<1>9. AtEnds(d) <=> AtEnds(t)
  BY <1>1 DEF AtEnds
<1> QED
  BY <1>1, <1>2, <1>3, <1>4, <1>5, <1>6, <1>7, <1>8, <1>9 DEF Alike

(* What the terminal's program does begins with the view at the end; where *)
(* that moves the view, there is no selection and every row is marked.     *)
LEMMA StartTends ==
    ASSUME IsScreen(t), SelInv
    PROVE  LET s == twrite(shown) IN
           /\ IsScreen(s) /\ AtEnd(s) /\ SelSound(s) /\ s.sel = t.sel
           /\ \/ s = shown /\ AtEnd(shown)
              \/ t.sel = NoSel /\ ~AtEnds(t) /\ Rows(t) \subseteq s.dirty
<1> DEFINE s == twrite(shown)
           d == [shown EXCEPT !.screen[shown.alt].off = 0]
<1>1. IsScreen(s) /\ AtEnd(s) /\ s.row = t.row
  BY Starts DEF Started
<1>2. /\ shown.row = t.row /\ shown.sel = t.sel /\ SelSound(shown) /\ IsScreen(shown) /\ (AtEnds(shown) <=> AtEnds(t))
      /\ Rows(shown) = Rows(t)
  BY ShownAlike DEF SelInv
<1>3. CASE TSCREEN(shown).off = 0
  BY <1>1, <1>2, <1>3 DEF twrite, AtEnd
<1>4. CASE TSCREEN(shown).off # 0
  <2>1. shown.row \in Nat \ {0} /\ shown.alt \in BOOLEAN /\ Fields(shown)
    BY <1>2, ScreenRows
  <2>2. s = tfulldirt(d)
    BY <1>4, Zenon DEF twrite
  <2>3. Fields(d) /\ d.row = shown.row /\ d.sel = shown.sel
    BY <2>1 DEF Fields
  <2> HIDE DEF d
  <2>4. s.dirty = d.dirty \cup Rows(d) /\ s.sel = d.sel /\ Rows(d) = Rows(shown)
    BY <2>1, <2>2, <2>3, tfulldirtMarks DEF Rows
  <2>5. ~AtEnds(shown)
    BY <1>4, <2>1 DEF AtEnds, TSCREEN
  <2>6. t.sel = NoSel
    BY <1>2, <2>5 DEF SelInv
  <2> QED
    BY <1>1, <1>2, <2>3, <2>4, <2>5, <2>6, NoSelSelects
<1> QED
  BY <1>3, <1>4

(* So does a step that takes care of the selection from there on.          *)
LEMMA TendsKept ==
    ASSUME IsScreen(t), SelInv, uses' = uses, Tends(twrite(shown), t') \/ Attends(twrite(shown), t')
    PROVE  Kept
<1> DEFINE s == twrite(shown)
<1>1. Tends(s, t')
  BY AttendsTends
<1>2. /\ s.sel = t.sel
      /\ \/ s = shown /\ AtEnd(shown)
         \/ t.sel = NoSel /\ ~AtEnds(t) /\ Rows(t) \subseteq s.dirty
  BY StartTends
<1>3. SelSound(t') /\ (t.sel = NoSel => t'.sel = NoSel)
  BY <1>1, <1>2 DEF Tends
<1>4. CASE s = shown
  <2>1. /\ \A y : Alike(t, shown, y)
        /\ (Selects(shown) <=> Selects(t)) /\ SelText(shown) = SelText(t)
        /\ (AtEnds(shown) <=> AtEnds(t)) /\ Rows(shown) = Rows(t)
    BY ShownAlike DEF SelInv
  <2>2. Marked(t, t')
    BY <1>1, <1>4, <2>1 DEF Tends, Marked, Alike
  <2>3. AtEnds(t) => AtEnds(t')
    BY <1>1, <1>4, <2>1 DEF Tends
  <2>4. Selects(t) /\ Selects(t') /\ t'.c.y \notin t'.sel.nb..t'.sel.ne => SelText(t') = SelText(t)
    BY <1>1, <1>4, <2>1 DEF Tends, Follows
  <2>5. SelInv'
    BY <1>3, <2>3 DEF SelInv
  <2> QED
    BY <2>2, <2>4, <2>5 DEF Kept
<1>5. CASE t.sel = NoSel /\ ~AtEnds(t) /\ Rows(t) \subseteq s.dirty
  <2>1. Marked(t, t')
    BY <1>1, <1>5 DEF Tends, Marked
  <2>2. ~Selects(t)
    BY <1>5, NoSelSelects
  <2>3. SelInv'
    BY <1>3, <1>5 DEF SelInv
  <2> QED
    BY <2>1, <2>2, <2>3 DEF Kept
<1> QED
  BY <1>2, <1>4, <1>5

(* Where there is no selection, and the whole window is marked, all is     *)
(* well.                                                                   *)
LEMMA FullKept ==
    ASSUME IsScreen(t), SelInv, uses' = uses, "select" \notin uses, t'.sel = NoSel, Rows(t') \subseteq t'.dirty
    PROVE  Kept
<1>1. SelSound(t') /\ ~Selects(t')
  BY NoSelSelects
<1>2. SelInv'
  BY <1>1 DEF SelInv
<1>3. Marked(t, t')
  BY DEF Marked
<1> QED
  BY <1>1, <1>2, <1>3 DEF Kept

(* Actions that move the cursor, save it, or set the region.               *)
LEMMA CursorActionsKeep ==
    ASSUME IsScreen(t), SelInv, uses' = uses, CarriageReturn \/ CursorTo \/ DECSTBM \/ DECOM \/ DECSC \/ DECRC
    PROVE  Kept
<1> DEFINE s == twrite(shown)
<1>1. IsScreen(s) /\ SelSound(s)
  BY StartTends
<1>2. SUFFICES Attends(s, t')
  BY TendsKept
<1>3. CASE CarriageReturn
  <2>1. t' = tmoveto(s, s.c.y)
    BY <1>3 DEF CarriageReturn, Output
  <2> HIDE DEF s
  <2> QED
    BY <1>1, <2>1, RowsNearby, tmovetoAttends
<1>4. CASE CursorTo
  <2>1. PICK y \in Rows(t) : t' = tmoveato(s, y)
    BY <1>4 DEF CursorTo, Output
  <2> HIDE DEF s
  <2> QED
    BY <1>1, <2>1, RowIsInt, tmovetoAttends
<1>5. CASE DECSTBM
  <2>1. PICK a, b \in Rows(t) : t' = tmoveato(tsetscroll(s, a, b), 0)
    BY <1>5 DEF DECSTBM, Output
  <2> HIDE DEF s
  <2> DEFINE u == tsetscroll(s, a, b)
  <2>2. a \in Int /\ b \in Int
    BY RowIsInt
  <2>3. Attends(s, u) /\ IsScreen(u)
    BY <1>1, <2>2, MarginsAttend, tsetscrollKeeps, KeepsSame
  <2>4. t' = tmoveato(u, 0)
    BY <2>1
  <2> HIDE DEF u
  <2>5. Attends(u, t')
    BY <2>3, <2>4, tmovetoAttends DEF Attends
  <2> QED
    BY <2>3, <2>5, AttendsTransitive
<1>6. CASE DECOM
  <2>1. PICK set \in BOOLEAN : t' = tmoveato([s EXCEPT !.c.origin = set], 0)
    BY <1>6 DEF DECOM, Output
  <2> HIDE DEF s
  <2> DEFINE u == [s EXCEPT !.c.origin = set]
  <2>3. Attends(s, u) /\ IsScreen(u)
    BY <1>1, MarginsAttend, originKeeps, KeepsSame
  <2>4. t' = tmoveato(u, 0)
    BY <2>1
  <2> HIDE DEF u
  <2>5. Attends(u, t')
    BY <2>3, <2>4, tmovetoAttends DEF Attends
  <2> QED
    BY <2>3, <2>5, AttendsTransitive
<1>7. CASE DECSC \/ DECRC
  <2>1. t' = CURSOR_SAVE(s) \/ t' = CURSOR_LOAD(s)
    BY <1>7 DEF DECSC, DECRC, Output
  <2> HIDE DEF s
  <2> QED
    BY <1>1, <2>1, CursorAttends
<1> QED
  BY <1>3, <1>4, <1>5, <1>6, <1>7

(* LF, IND and RI.                                                         *)
LEMMA IndexActionsKeep ==
    ASSUME IsScreen(t), SelInv, uses' = uses, LineFeed \/ Index \/ ReverseIndex
    PROVE  Kept
<1> DEFINE s == twrite(shown)
<1>1. IsScreen(s) /\ SelSound(s) /\ AtEnd(s)
  BY StartTends
<1>2. SUFFICES Attends(s, t')
  BY TendsKept
<1>3. \/ t' = tnewline(s)
      \/ t' = tscrollup(s, s.top, 1) \/ t' = tmoveto(s, s.c.y + 1)
      \/ t' = tscrolldown(s, s.top, 1) \/ t' = tmoveto(s, s.c.y - 1)
  BY Zenon DEF LineFeed, Index, ReverseIndex, Output
<1> HIDE DEF s
<1>4. s.top \in s.top..s.bot /\ s.c.y + 1 \in Int /\ s.c.y - 1 \in Int /\ 1 \in Nat \ {0}
  BY <1>1, RowsNearby
<1>5. Attends(s, tnewline(s)) /\ Attends(s, tscrollup(s, s.top, 1)) /\ Attends(s, tscrolldown(s, s.top, 1))
  BY <1>1, <1>4, tnewlineAttends, tscrollupAttends, tscrolldownAttends
<1>6. Attends(s, tmoveto(s, s.c.y + 1)) /\ Attends(s, tmoveto(s, s.c.y - 1))
  BY <1>1, <1>4, tmovetoAttends
<1> QED
  BY <1>3, <1>5, <1>6

(* SU, SD, IL and DL.                                                      *)
LEMMA ScrollActionsKeep ==
    ASSUME IsScreen(t), SelInv, uses' = uses, "overflow" \notin uses, "select" \in uses => "delete" \notin uses,
           SU \/ SD \/ tinsertblankline \/ tdeleteline
    PROVE  Kept
<1> DEFINE s == twrite(shown)
<1>1. IsScreen(s) /\ SelSound(s) /\ AtEnd(s) /\ s.sel = t.sel
  BY StartTends
<1>2. SUFFICES Attends(s, t')
  BY TendsKept
<1>3. \A n \in Counts : n \in Nat \ {0}
  BY DEF Counts
<1>4. Attends(s, s) /\ s.top \in s.top..s.bot
  BY <1>1, AttendsReflexive, RowsNearby
<1>5. CASE SU \/ SD
  <2>1. PICK n \in Counts : t' = tscrollup(s, s.top, n) \/ t' = tscrolldown(s, s.top, n)
    BY <1>5 DEF SU, SD, Output
  <2> HIDE DEF s
  <2> QED
    BY <1>1, <1>3, <1>4, <2>1, tscrollupAttends, tscrolldownAttends
<1>6. CASE tinsertblankline
  <2>1. PICK n \in Counts : t' = IF InRegion(s) THEN tscrolldown(s, s.c.y, n) ELSE s
    BY <1>6 DEF tinsertblankline, Output
  <2> HIDE DEF s
  <2>2. InRegion(s) => Attends(s, tscrolldown(s, s.c.y, n))
    BY <1>1, <1>3, tscrolldownAttends DEF InRegion
  <2> QED
    BY <1>4, <2>1, <2>2
<1>7. CASE tdeleteline
  <2>1. PICK n \in Counts : t' = IF InRegion(s) THEN tscrollup(s, s.c.y, n) ELSE s
    BY <1>7 DEF tdeleteline, Output
  <2>2. "delete" \in uses
    BY <1>7 DEF tdeleteline, Output
  <2>3. s.sel = NoSel
    BY <1>1, <2>2 DEF SelInv
  <2> HIDE DEF s
  <2>4. InRegion(s) => Attends(s, tscrollup(s, s.c.y, n))
    BY <1>1, <1>3, <2>3, tscrollupAttends DEF InRegion
  <2> QED
    BY <1>4, <2>1, <2>4
<1> QED
  BY <1>5, <1>6, <1>7

(* ED and EL.                                                              *)
LEMMA EraseActionsKeep ==
    ASSUME IsScreen(t), SelInv, uses' = uses, EraseDisplay \/ EraseLine
    PROVE  Kept
<1> DEFINE s == twrite(shown)
           y == s.c.y
           e == s.row - 1
           R(u, a, z) == tclearregion(u, a, z)
<1>1. IsScreen(s) /\ SelSound(s) /\ AtEnd(s)
  BY StartTends
<1>2. SUFFICES Attends(s, t')
  BY TendsKept
<1>3. \/ t' = IF y < e THEN R(R(s, y, y), y + 1, e) ELSE R(s, y, y)
      \/ t' = IF y > 0 THEN R(R(s, 0, y - 1), y, y) ELSE R(s, y, y)
      \/ t' = R(s, 0, e)
      \/ t' = R(s, y, y)
  <2>1. CASE EraseLine
    BY <2>1 DEF EraseLine, Output
  <2>2. CASE EraseDisplay
    <3>1. \/ t' = LET u == R(s, y, y) IN IF y < e THEN R(u, y + 1, e) ELSE u
          \/ t' = LET u == IF y > 0 THEN R(s, 0, y - 1) ELSE s IN R(u, y, y)
          \/ t' = R(s, 0, e)
      BY <2>2, Zenon DEF EraseDisplay, Output
    <3> QED
      BY <3>1, Zenon
  <2> QED
    BY <2>1, <2>2
<1> HIDE DEF s
<1>12. s.row \in Nat \ {0} /\ y \in 0..e /\ Rows(s) = 0..e
  BY <1>1, ScreenRows
<1>13. y \in Rows(s) /\ 0 \in Rows(s) /\ e \in Rows(s)
  BY <1>1, RowsNearby
<1>14. e \in Nat
  BY <1>12
<1> HIDE DEF y, e
<1>4. /\ y \in 0..e /\ Rows(s) = 0..e /\ e \in Nat
      /\ y \in Rows(s) /\ 0 \in Rows(s) /\ e \in Rows(s)
  BY <1>12, <1>13, <1>14
<1>5. ASSUME NEW a \in Rows(s), NEW z \in Rows(s), a <= z
      PROVE  /\ Attends(s, R(s, a, z)) /\ IsScreen(R(s, a, z)) /\ AtEnd(R(s, a, z)) /\ SelSound(R(s, a, z))
             /\ Rows(R(s, a, z)) = Rows(s)
  <2>1. Attends(s, R(s, a, z))
    BY <1>1, <1>5, tclearregionAttends
  <2>2. Erased(s, R(s, a, z), a, z)
    BY <1>1, <1>5, tclearregionErases
  <2> HIDE DEF R
  <2> QED
    BY <2>1, <2>2 DEF Erased, Stays, Attends
<1>6. ASSUME NEW a \in Rows(s), NEW z \in Rows(s), a <= z, NEW b \in Rows(s), NEW x \in Rows(s), b <= x
      PROVE  Attends(s, R(R(s, a, z), b, x))
  <2> DEFINE u == R(s, a, z)
  <2>1. Attends(s, u) /\ IsScreen(u) /\ AtEnd(u) /\ SelSound(u) /\ Rows(u) = Rows(s)
    BY <1>5, <1>6
  <2> HIDE DEF u
  <2>2. Attends(u, R(u, b, x))
    BY <1>6, <2>1, tclearregionAttends
  <2>3. Attends(s, R(u, b, x))
    BY <2>1, <2>2, AttendsTransitive
  <2> QED
    BY <2>3 DEF u
<1> HIDE DEF R
<1>7. /\ y <= y /\ 0 <= y /\ 0 <= e
      /\ y < e => y + 1 \in Rows(s) /\ y + 1 <= e
      /\ y > 0 => y - 1 \in Rows(s) /\ 0 <= y - 1
  BY <1>4
<1>8. Attends(s, R(s, y, y)) /\ Attends(s, R(s, 0, e))
  BY <1>4, <1>5, <1>7
<1>9. y < e => Attends(s, R(R(s, y, y), y + 1, e))
  BY <1>4, <1>6, <1>7
<1>10. y > 0 => Attends(s, R(R(s, 0, y - 1), y, y))
  BY <1>4, <1>6, <1>7
<1> QED
  BY <1>3, <1>8, <1>9, <1>10

(* A character.                                                            *)
LEMMA PutCharKeeps ==
    ASSUME IsScreen(t), SelInv, uses' = uses, written \in 0..MaxText, PutChar
    PROVE  Kept
<1> DEFINE s == twrite(shown)
<1>1. IsScreen(s) /\ SelSound(s) /\ AtEnd(s)
  BY StartTends
<1>2. t' = tputc(s, written + 1)
  BY DEF PutChar
<1>3. written + 1 \in Text
  <2>1. MaxText \in Nat /\ written < MaxText
    BY DEF PutChar, IsScreen, IsFrame, ScreenAssumption
  <2> QED
    BY <2>1 DEF Text
<1>4. Tends(s, t')
  <2> HIDE DEF s
  <2> QED
    BY <1>1, <1>2, <1>3, tputcTends
<1> QED
  BY <1>4, TendsKept

(* Mode 1049 leaves the selection as it is when it saves or restores the   *)
(* cursor.                                                                 *)
LEMMA cursorAttends ==
    ASSUME NEW s, IsScreen(s), SelSound(s), NEW set \in BOOLEAN
    PROVE  Attends(s, cursor(s, set)) /\ cursor(s, set).sel = s.sel
<1>1. cursor(s, set) = CURSOR_SAVE(s) \/ cursor(s, set) = CURSOR_LOAD(s)
  BY DEF cursor
<1>2. CURSOR_SAVE(s).sel = s.sel /\ CURSOR_LOAD(s).sel = s.sel
  BY ScreenRows DEF CURSOR_SAVE, CURSOR_LOAD, tmoveto, Fields
<1> QED
  BY <1>1, <1>2, CursorAttends

(* Modes 47, 1047 and 1049.                                                *)
LEMMA SwapActionsKeep ==
    ASSUME IsScreen(t), SelInv, uses' = uses, tswapscreen \/ tswapscreen1049
    PROVE  Kept
<1> DEFINE s == twrite(shown)
<1>1. IsScreen(s) /\ SelSound(s) /\ AtEnd(s)
  BY StartTends
<1>2. SUFFICES Tends(s, t')
  BY TendsKept
<1>3. ASSUME NEW a, IsScreen(a), AtEnd(a), SelSound(a), NEW set \in BOOLEAN
      PROVE  LET b == swapscreen(a, set) IN IsScreen(b) /\ SelSound(b) /\ (Attends(a, b) \/ Swapped(a, b))
  <2>1. IsScreen(swapscreen(a, set))
    BY <1>3, swapscreenSwaps DEF SwapsTo
  <2>2. Attends(a, swapscreen(a, set)) \/ Swapped(a, swapscreen(a, set))
    BY <1>3, swapscreenSwapped
  <2> QED
    BY <2>1, <2>2 DEF Attends, Swapped
<1>4. CASE tswapscreen
  <2>1. PICK set \in BOOLEAN : t' = swapscreen(s, set)
    BY <1>4 DEF tswapscreen, Output
  <2> HIDE DEF s
  <2>2. SelSound(t') /\ (Attends(s, t') \/ Swapped(s, t'))
    BY <1>1, <1>3, <2>1
  <2>3. Attends(s, s) /\ Attends(t', t')
    BY <1>1, <2>2, AttendsReflexive
  <2> QED
    BY <2>2, <2>3, SwappedTends
<1>5. CASE tswapscreen1049
  <2>1. PICK set \in BOOLEAN : t' = cursor(swapscreen(cursor(s, set), set), set)
    BY <1>5 DEF tswapscreen1049, Output
  <2> HIDE DEF s
  <2> DEFINE a == cursor(s, set)
             b == swapscreen(a, set)
  <2>2. Attends(s, a) /\ a.sel = s.sel /\ IsScreen(a) /\ AtEnd(a)
    BY <1>1, cursorAttends, cursorKeeps DEF Viewed
  <2>3. t' = cursor(b, set)
    BY <2>1
  <2> HIDE DEF a
  <2>4. SelSound(a)
    BY <2>2 DEF Attends
  <2>5. IsScreen(b) /\ SelSound(b) /\ (Attends(a, b) \/ Swapped(a, b))
    BY <1>3, <2>2, <2>4
  <2> HIDE DEF b
  <2>6. Attends(b, t')
    BY <2>3, <2>5, cursorAttends
  <2> QED
    BY <2>2, <2>5, <2>6, SwappedTends
<1> QED
  BY <1>4, <1>5

(* Where the cursor goes, the size and the selection stay.                 *)
LEMMA tmovetoFields ==
    ASSUME NEW s, Fields(s), NEW y
    PROVE  Fields(tmoveto(s, y)) /\ tmoveto(s, y).row = s.row /\ tmoveto(s, y).sel = s.sel
<1> DEFINE d == IF s.c.origin THEN LIMIT(y, s.top, s.bot) ELSE LIMIT(y, 0, s.row - 1)
           u == tmoveto(s, y)
<1>1. u = [s EXCEPT !.c.wrapnext = FALSE, !.c.y = d]
  BY Zenon DEF tmoveto
<1> HIDE DEF d, u
<1>2. Fields(u) /\ u.row = s.row /\ u.sel = s.sel
  BY <1>1 DEF Fields
<1> QED
  BY <1>2 DEF u

(* All of a window without a selection is drawn again.                     *)
LEMMA FullDirt ==
    ASSUME NEW s, Fields(s), s.row \in Nat \ {0}, s.sel = NoSel
    PROVE  tfulldirt(s).sel = NoSel /\ Rows(tfulldirt(s)) \subseteq tfulldirt(s).dirty
BY tfulldirtMarks

(* RIS.                                                                    *)
LEMMA ResetKeeps ==
    ASSUME IsScreen(t), SelInv, uses' = uses, "select" \notin uses, RIS
    PROVE  Kept
<1> DEFINE s == twrite(shown)
<1>1. IsScreen(s) /\ s.sel = NoSel
  BY StartTends DEF SelInv
<1>2. t' = treset(s)
  BY DEF RIS, Output
<1>3. Fields(s) /\ s.row \in Nat \ {0}
  BY <1>1, ScreenRows
<1> HIDE DEF s
<1> DEFINE cleared(b) == [b EXCEPT !.cur = 0, !.off = 0, !.sc = [y |-> 0, wrapnext |-> FALSE, origin |-> FALSE],
                                   !.buffer = [k \in DOMAIN @ |-> IF k < s.row THEN Blank ELSE NULL]]
           bot == s.row - 1
           fault == s.fault \/ \E x \in BOOLEAN, k \in Rows(s) : s.screen[x].buffer[k] = NULL
           pages == [x \in BOOLEAN |-> cleared(s.screen[x])]
           u == [s EXCEPT !.top = 0, !.bot = bot, !.alt = FALSE, !.hist = 0, !.fault = fault, !.screen = pages]
           v == [u EXCEPT !.c = TSCREEN(u).sc]
           w == tmoveto(v, v.c.y)
<1>4. treset(s) = tfulldirt(w)
  BY Zenon DEF treset, CURSOR_LOAD
<1>5. Fields(u) /\ u.row = s.row /\ u.sel = s.sel
  <2>1. u = [s EXCEPT !.top = 0, !.bot = bot, !.alt = FALSE, !.hist = 0, !.fault = fault, !.screen = pages]
    OBVIOUS
  <2> HIDE DEF u, bot, fault, pages, cleared
  <2> QED
    BY <1>3, <2>1 DEF Fields
<1> HIDE DEF u
<1>6. Fields(v) /\ v.row = s.row /\ v.sel = s.sel
  BY <1>5 DEF Fields
<1> HIDE DEF v
<1>7. Fields(w) /\ w.row = s.row /\ w.sel = s.sel
  BY <1>6, tmovetoFields
<1> HIDE DEF w
<1>8. t'.sel = NoSel /\ Rows(t') \subseteq t'.dirty
  BY <1>1, <1>2, <1>3, <1>4, <1>7, FullDirt
<1> QED
  BY <1>8, FullKept

(* The window gets another size.                                           *)
LEMMA ResizeKeeps ==
    ASSUME IsScreen(t), SelInv, uses' = uses, "select" \notin uses, Resize
    PROVE  Kept
<1> DEFINE s == shown
<1>1. IsScreen(s) /\ s.sel = NoSel
  BY ShownAlike DEF SelInv
<1>2. PICK row \in 1..MaxRow : t' = tresize(s, row)
  BY DEF Resize, Output
<1>3. row \in Nat \ {0} /\ Fields(s)
  <2>1. HISTSIZE \in Nat /\ MaxRow \in 1..HISTSIZE
    BY DEF IsScreen, IsFrame, ScreenAssumption
  <2>2. row \in Nat \ {0}
    BY <2>1
  <2> QED
    BY <1>1, <2>2, ScreenRows
<1> HIDE DEF s
<1> DEFINE v(x, h) == [s EXCEPT !.screen = x, !.row = row, !.hist = h]
           w(x, h) == tsetscroll(v(x, h), 0, row - 1)
<1>4. \E x, h : t' = tfulldirt(tmoveto(w(x, h), s.c.y))
  BY <1>2, Zenon DEF tresize
<1>5. ASSUME NEW x, NEW h
      PROVE  LET z == tmoveto(w(x, h), s.c.y) IN Fields(z) /\ z.row = row /\ z.sel = s.sel
  <2> DEFINE u == v(x, h)
  <2>1. Fields(u) /\ u.row = row /\ u.sel = s.sel
    <3>1. u = [s EXCEPT !.screen = x, !.row = row, !.hist = h]
      OBVIOUS
    <3> HIDE DEF u, w, v
    <3> QED
      BY <1>3, <3>1 DEF Fields
  <2>2. w(x, h) = tsetscroll(u, 0, row - 1)
    OBVIOUS
  <2> HIDE DEF u, w
  <2>3. Fields(w(x, h)) /\ w(x, h).row = row /\ w(x, h).sel = s.sel
    BY <2>1, <2>2 DEF Fields, tsetscroll
  <2> QED
    BY <2>3, tmovetoFields
<1> HIDE DEF v, w
<1>6. t'.sel = NoSel /\ Rows(t') \subseteq t'.dirty
  BY <1>1, <1>3, <1>4, <1>5, FullDirt
<1> QED
  BY <1>6, FullKept

(* Page Up and Page Down.                                                  *)
LEMMA ViewKeeps ==
    ASSUME IsScreen(t), SelInv, uses' = uses, "select" \notin uses, PageUp \/ PageDown
    PROVE  Kept
<1> DEFINE s == shown
<1>1. IsScreen(s) /\ s.sel = NoSel
  BY ShownAlike DEF SelInv
<1>2. \E n : t' = Scrolled(s, n)
  <2>1. t' = kscrollup(s) \/ t' = kscrolldown(s)
    BY DEF PageUp, PageDown, Output
  <2> HIDE DEF s
  <2> QED
    BY <2>1, Zenon DEF kscrollup, kscrolldown
<1>3. Fields(s) /\ s.row \in Nat \ {0}
  BY <1>1, ScreenRows
<1> HIDE DEF s
<1>4. PICK n : t' = Scrolled(s, n)
  BY <1>2
<1> DEFINE u == [s EXCEPT !.screen[s.alt].off = @ + n]
<1>5. t' = tfulldirt(selscroll(u, 0, n))
  BY <1>4 DEF Scrolled
<1>6. Fields(u) /\ u.row = s.row /\ u.sel = NoSel
  BY <1>1, <1>3 DEF Fields
<1> HIDE DEF u
<1>7. selscroll(u, 0, n) = u
  BY <1>6, NoSelSelects, Zenon DEF selscroll
<1>8. t'.sel = NoSel /\ Rows(t') \subseteq t'.dirty
  BY <1>3, <1>5, <1>6, <1>7, FullDirt
<1> QED
  BY <1>8, FullKept

(* A step of the user that changes no line, and marks what it selects.     *)
LEMMA UserKept ==
    ASSUME IsScreen(t), SelInv, uses' = uses, "select" \in uses, User,
           SelSound(t'), Marked(shown, t'), SameLines(shown, t')
    PROVE  Kept
<1>1. /\ shown.screen = t.screen /\ Rows(shown) = Rows(t) /\ \A y : Alike(t, shown, y)
  BY ShownAlike DEF SelInv
<1>2. Marked(t, t')
  BY <1>1 DEF Marked, Alike
<1>3. AtEnds(t')
  BY <1>1 DEF SelInv, AtEnds, SameLines
<1>4. SelInv'
  BY <1>3 DEF SelInv
<1> QED
  BY <1>2, <1>4 DEF Kept

(* A selection begins.                                                     *)
LEMMA selstartMarks ==
    ASSUME NEW s, IsScreen(s), SelSound(s), NEW y \in Rows(s)
    PROVE  SelSound(selstart(s, y)) /\ Marked(s, selstart(s, y)) /\ SameLines(s, selstart(s, y))
<1> DEFINE c == selclear(s)
           d == tsetdirt(c, y, y)
           x == [on |-> TRUE, mode |-> "empty", ob |-> y, oe |-> y, nb |-> y, ne |-> y, alt |-> s.alt]
           u == selstart(s, y)
<1>1. IsWindow(s) /\ Fields(s) /\ y \in Int
  BY FrameIsWindow, ScreenRows, RowIsInt DEF IsScreen
<1>2. SameLines(s, u) /\ u = [d EXCEPT !.sel = x]
  BY <1>1, selstartKeepsLines DEF selstart
<1>3. Attends(s, c) /\ SameLines(s, c) /\ c.sel = NoSel
  BY selclearAttends
<1> HIDE DEF c
<1>4. IsWindow(c) /\ Rows(c) = Rows(s)
  BY <1>1, <1>3, SameLinesWindow
<1>12. y \in Rows(c)
  BY <1>4
<1>5. d.dirty = c.dirty \cup y..y /\ SameLines(c, d)
  <2>1. \A a, b \in Rows(c) : tsetdirt(c, a, b).dirty = c.dirty \cup a..b /\ SameLines(c, tsetdirt(c, a, b))
    BY <1>4, tsetdirtMarks
  <2> QED
    BY <1>12, <2>1
<1> HIDE DEF d
<1>6. u.sel = x /\ u.dirty = d.dirty
  <2> HIDE DEF x
  <2> QED
    BY <1>2, <1>5 DEF SameLines, Fields
<1> HIDE DEF u
<1>7. Rows(u) = Rows(s) /\ \A z : TLINE(u, z) = TLINE(s, z)
  BY <1>2 DEF SameLines, Rows, TLINE, TSCREEN
<1>8. \A z : ~selected(u, z)
  BY <1>6 DEF selected
<1>9. Marked(s, u)
  BY <1>3, <1>5, <1>6, <1>7, <1>8, NoSelSelects DEF Marked, Alike, Attends
<1>10. Least(y, y) = y /\ Most(y, y) = y
  BY DEF Least, Most
<1>11. Chosen(u)
  BY <1>6, <1>7, <1>10 DEF Chosen
<1> QED
  BY <1>2, <1>9, <1>11 DEF SelSound, u

(* The selection that ends in row y instead.                               *)
LEMMA ExtendedEnds ==
    ASSUME NEW s, Chosen(s), NEW y, NEW m
    PROVE  LET new == selnormalize([s.sel EXCEPT !.oe = y]) IN
           /\ new.nb = Least(s.sel.ob, y) /\ new.ne = Most(s.sel.ob, y)
           /\ [new EXCEPT !.mode = m] = [on |-> s.sel.on, mode |-> m, ob |-> s.sel.ob, oe |-> y,
                                         nb |-> Least(s.sel.ob, y), ne |-> Most(s.sel.ob, y), alt |-> s.sel.alt]
<1> DEFINE r == s.sel
           on == r.on
           mode == r.mode
           i == r.ob
           j == r.oe
           alt == r.alt
           a == Least(i, j)
           b == Most(i, j)
           k == [r EXCEPT !.oe = y]
           p == Least(i, y)
           q == Most(i, y)
           n == selnormalize(k)
<1>1. r = [on |-> on, mode |-> mode, ob |-> i, oe |-> j, nb |-> a, ne |-> b, alt |-> alt]
  BY DEF Chosen
<1> HIDE DEF r, on, mode, i, j, alt, a, b
<1>2. k = [on |-> on, mode |-> mode, ob |-> i, oe |-> y, nb |-> a, ne |-> b, alt |-> alt]
  BY <1>1
<1> HIDE DEF k
<1>3. n = [k EXCEPT !.nb = p, !.ne = q]
  BY <1>2 DEF selnormalize
<1> HIDE DEF n, p, q
<1>4. n = [on |-> on, mode |-> mode, ob |-> i, oe |-> y, nb |-> p, ne |-> q, alt |-> alt]
  BY <1>2, <1>3
<1>5. n.nb = p /\ n.ne = q
      /\ [n EXCEPT !.mode = m] = [on |-> on, mode |-> m, ob |-> i, oe |-> y, nb |-> p, ne |-> q, alt |-> alt]
  BY <1>4
<1> QED
  BY <1>5 DEF n, k, p, q, i, alt, r, on

(* A selection grows, ends, or was none.                                   *)
LEMMA selextendMarks ==
    ASSUME NEW s, IsScreen(s), SelSound(s), NEW y \in Rows(s), NEW done \in BOOLEAN
    PROVE  SelSound(selextend(s, y, done)) /\ Marked(s, selextend(s, y, done)) /\ SameLines(s, selextend(s, y, done))
<1> DEFINE e == s.sel
           new == selnormalize([e EXCEPT !.oe = y])
           a == Least(new.nb, e.nb)
           b == Most(new.ne, e.ne)
           d == IF y # e.oe \/ e.mode = "empty" THEN tsetdirt(s, a, b) ELSE s
           m == IF done THEN "idle" ELSE "ready"
           u == selextend(s, y, done)
<1>1. IsWindow(s) /\ Fields(s) /\ y \in Int
  BY FrameIsWindow, ScreenRows, RowIsInt DEF IsScreen
<1>2. SameLines(s, u)
  BY <1>1, selextendKeepsLines
<1>3. u = IF e.mode = "idle" THEN s ELSE IF done /\ e.mode = "empty" THEN selclear(s)
          ELSE [d EXCEPT !.sel = [new EXCEPT !.mode = m]]
  BY Zenon DEF selextend
<1> HIDE DEF new, a, b, d, m, u
<1>4. CASE u = s
  BY <1>2, <1>4 DEF u, Marked, Alike
<1>5. CASE u = selclear(s)
  <2>1. Attends(s, selclear(s))
    BY selclearAttends
  <2> QED
    BY <1>2, <1>5, <2>1, AttendsTends DEF u, Tends
<1>6. CASE e.mode # "idle" /\ u = [d EXCEPT !.sel = [new EXCEPT !.mode = m]]
  <2>1. Chosen(s)
    BY <1>6 DEF SelSound, NoSel
  <2>2. /\ e.on = TRUE /\ e.ob \in Rows(s) /\ e.oe \in Rows(s) /\ e.nb \in Rows(s) /\ e.ne \in Rows(s)
        /\ e.nb = Least(e.ob, e.oe) /\ e.ne = Most(e.ob, e.oe)
    BY <1>1, <2>1, ChosenEnds
  <2> DEFINE x == [on |-> e.on, mode |-> m, ob |-> e.ob, oe |-> y, nb |-> Least(e.ob, y), ne |-> Most(e.ob, y),
                   alt |-> e.alt]
  <2>4. [new EXCEPT !.mode = m] = x /\ new.nb = Least(e.ob, y) /\ new.ne = Most(e.ob, y)
    BY <2>1, ExtendedEnds DEF new
  <2>5. Rows(s) = 0..(s.row - 1) /\ s.row \in Nat
    BY <1>1 DEF IsWindow, Rows
  <2>6. \A i, j \in Rows(s) : Least(i, j) \in Rows(s) /\ Most(i, j) \in Rows(s)
    BY DEF Least, Most
  <2>7. new.nb \in Rows(s) /\ new.ne \in Rows(s) /\ a \in Rows(s) /\ b \in Rows(s)
    BY <2>2, <2>4, <2>6 DEF a, b
  <2>8. /\ SameLines(s, d)
        /\ d.dirty = IF y # e.oe \/ e.mode = "empty" THEN s.dirty \cup a..b ELSE s.dirty
    <3>1. \A i, j \in Rows(s) : tsetdirt(s, i, j).dirty = s.dirty \cup i..j /\ SameLines(s, tsetdirt(s, i, j))
      BY <1>1, tsetdirtMarks
    <3>2. SameLines(s, s)
      BY <1>1, SameLinesReflexive
    <3> HIDE DEF e
    <3> QED
      BY <2>7, <3>1, <3>2 DEF d
  <2>9. u.sel = x /\ u.dirty = d.dirty
    <3>1. u = [d EXCEPT !.sel = x]
      BY <1>6, <2>4
    <3> HIDE DEF x
    <3> QED
      BY <2>8, <3>1 DEF SameLines, Fields
  <2>10. Rows(u) = Rows(s) /\ u.alt = s.alt /\ \A z : TLINE(u, z) = TLINE(s, z)
    BY <1>2 DEF SameLines, Rows, TLINE, TSCREEN
  <2>11. Chosen(u)
    <3> DEFINE on == e.on
               ob == e.ob
               alt == e.alt
               nb == Least(ob, y)
               ne == Most(ob, y)
    <3>1. x = [on |-> on, mode |-> m, ob |-> ob, oe |-> y, nb |-> nb, ne |-> ne, alt |-> alt]
      OBVIOUS
    <3> HIDE DEF x, on, ob, alt, nb, ne
    <3>2. /\ x = [on |-> on, mode |-> x.mode, ob |-> x.ob, oe |-> x.oe, nb |-> nb, ne |-> ne, alt |-> x.alt]
          /\ x.ob = ob /\ x.oe = y
      BY <3>1
    <3>3. /\ u.sel = [on |-> on, mode |-> u.sel.mode, ob |-> u.sel.ob, oe |-> u.sel.oe,
                      nb |-> Least(u.sel.ob, u.sel.oe), ne |-> Most(u.sel.ob, u.sel.oe), alt |-> u.sel.alt]
          /\ u.sel.ob = ob /\ u.sel.oe = y
      BY <2>9, <3>2 DEF nb, ne
    <3>4. on = TRUE /\ ob \in Rows(s)
      BY <2>2 DEF on, ob
    <3> QED
      BY <2>10, <3>3, <3>4, Zenon DEF Chosen
  <2>12. \A z \in Rows(s) : selected(s, z) \/ selected(u, z) => z \in e.nb..e.ne \/ z \in new.nb..new.ne
    BY <2>4, <2>9 DEF selected
  <2>13. CASE y # e.oe \/ e.mode = "empty"
    <3>1. \A i, j, z \in Rows(s) : \A p, q \in Rows(s) :
             z \in p..q \/ z \in i..j => z \in Least(i, p)..Most(j, q)
      BY <2>5 DEF Least, Most
    <3>2. \A z \in Rows(s) : z \in e.nb..e.ne \/ z \in new.nb..new.ne => z \in a..b
      BY <2>2, <2>7, <3>1 DEF a, b
    <3>3. \A z \in Rows(s) : selected(s, z) \/ selected(u, z) => z \in u.dirty
      BY <2>8, <2>9, <2>12, <2>13, <3>2
    <3>4. Marked(s, u)
      BY <2>10, <3>3 DEF Marked, Alike
    <3> QED
      BY <1>2, <2>11, <3>4 DEF SelSound, u
  <2>14. CASE y = e.oe /\ e.mode # "empty"
    <3>1. m # "empty"
      BY DEF m
    <3>2. u.sel.nb = e.nb /\ u.sel.ne = e.ne /\ u.sel.on = e.on /\ u.sel.alt = e.alt /\ u.sel.mode = m
      <4>1. x.nb = Least(e.ob, y) /\ x.ne = Most(e.ob, y) /\ x.on = e.on /\ x.alt = e.alt /\ x.mode = m
        OBVIOUS
      <4> HIDE DEF x, e
      <4> QED
        BY <2>2, <2>9, <2>14, <4>1
    <3>3. \A z : selected(u, z) <=> selected(s, z)
      BY <2>10, <2>14, <3>1, <3>2 DEF selected
    <3>4. Marked(s, u)
      BY <2>10, <3>3 DEF Marked, Alike
    <3> QED
      BY <1>2, <2>11, <3>4 DEF SelSound, u
  <2> QED
    BY <2>13, <2>14
<1> QED
  BY <1>3, <1>4, <1>5, <1>6

(* The mouse, and another window.                                          *)
LEMMA MouseKeeps ==
    ASSUME IsScreen(t), SelInv, uses' = uses, SelStart \/ SelExtend \/ SelClear
    PROVE  Kept
<1> DEFINE s == shown
<1>1. IsScreen(s) /\ SelSound(s) /\ Rows(s) = Rows(t)
  BY ShownAlike DEF SelInv
<1>2. "select" \in uses
  BY Zenon DEF SelStart, SelExtend, SelClear, Output
<1>3. User
  BY DEF User
<1>4. SUFFICES SelSound(t') /\ Marked(s, t') /\ SameLines(s, t')
  BY <1>2, <1>3, UserKept
<1>5. \/ \E y \in Rows(t) : t' = selstart(s, y)
      \/ \E y \in Rows(t), done \in BOOLEAN : t' = selextend(s, y, done)
      \/ t' = selclear(s)
  BY Zenon DEF SelStart, SelExtend, SelClear, Output
<1> HIDE DEF s
<1>6. SelSound(selclear(s)) /\ Marked(s, selclear(s)) /\ SameLines(s, selclear(s))
  BY <1>1, selclearAttends, AttendsTends DEF Tends
<1> QED
  BY <1>1, <1>5, <1>6, selstartMarks, selextendMarks

(* Each step takes care of the selection.                                  *)
LEMMA NextKeepsSelection ==
    ASSUME Counted, Undisturbed, ScreenInv, SelInv, ScreenNext
    PROVE  Kept
<1>1. IsScreen(t) /\ written \in 0..MaxText /\ uses \in Uses /\ "overflow" \notin uses
  BY DEF ScreenInv, Counted
<1>2. uses' = uses
  BY Zenon DEF ScreenNext, User, Stream, Resize, PageUp, PageDown, SelStart, SelExtend, SelClear, PutChar, CarriageReturn,
     LineFeed, Index, ReverseIndex, CursorTo, DECSTBM, DECOM, SU, SD, tinsertblankline, tdeleteline,
     EraseDisplay, EraseLine, DECSC, DECRC, tswapscreen, tswapscreen1049, RIS, Output
<1>3. "select" \in uses => "delete" \notin uses /\ "resize" \notin uses /\ "view" \notin uses /\ "reset" \notin uses
  BY <1>1 DEF Undisturbed
<1>4. CASE RIS
  <2>1. "reset" \in uses
    BY <1>4 DEF RIS, Output
  <2> QED
    BY <1>1, <1>2, <1>3, <1>4, <2>1, ResetKeeps
<1>5. CASE Resize
  <2>1. "resize" \in uses
    BY <1>5 DEF Resize, Output
  <2> QED
    BY <1>1, <1>2, <1>3, <1>5, <2>1, ResizeKeeps
<1>6. CASE PageUp \/ PageDown
  <2>1. "view" \in uses
    BY <1>6 DEF PageUp, PageDown, Output
  <2> QED
    BY <1>1, <1>2, <1>3, <1>6, <2>1, ViewKeeps
<1>7. CASE SU \/ SD \/ tinsertblankline \/ tdeleteline
  BY <1>1, <1>2, <1>3, <1>7, ScrollActionsKeep
<1> QED
  BY <1>1, <1>2, <1>4, <1>5, <1>6, <1>7, PutCharKeeps, CursorActionsKeep, IndexActionsKeep, EraseActionsKeep,
     SwapActionsKeep, MouseKeeps DEF ScreenNext, User, Stream

(* Nothing is selected at the start.                                       *)
LEMMA InitSelection ==
    ASSUME ScreenAssumption, ScreenInit
    PROVE  SelInv
<1>1. PICK row \in 1..MaxRow : t = FilledScreen(row)
  BY DEF ScreenInit
<1> DEFINE n == NewScreen(row)
           B == [k \in DOMAIN n.screen[FALSE].buffer |-> IF k < row THEN k + 1 ELSE NULL]
<1>2. n.sel = NoSel /\ Fields(n) /\ n.screen = [x \in BOOLEAN |-> n.screen[x]] /\ \A x \in BOOLEAN : n.screen[x].off = 0
  BY DEF NewScreen, Fields
<1>3. t = [n EXCEPT !.screen[FALSE].buffer = B]
  BY <1>1, Zenon DEF FilledScreen
<1> HIDE DEF n, B
<1>4. t.sel = NoSel /\ t.screen = [n.screen EXCEPT ![FALSE] = [n.screen[FALSE] EXCEPT !.buffer = B]]
  BY <1>2, <1>3 DEF Fields
<1>5. [n.screen[FALSE] EXCEPT !.buffer = B].off = n.screen[FALSE].off
  OBVIOUS
<1>6. AtEnds(t)
  BY <1>2, <1>4, <1>5 DEF AtEnds
<1> QED
  BY <1>4, <1>6, NoSelSelects DEF SelInv

(* A selection that survives a step of the terminal's program holds the    *)
(* same text, wherever selscroll has moved it, and every row of the window *)
(* whose text changed, or which was selected or no longer is, has been     *)
(* marked by tsetdirt: for every size, and every order of writing,         *)
(* scrolling, erasing, swapping of pages and dragging of the mouse.        *)
THEOREM SelectionKeptHolds ==
    ASSUME ScreenAssumption, Counted, Undisturbed
    PROVE  ScreenSpec => SelectionKept
<1> DEFINE Scrolls == Selects(t) /\ Selects(t') /\ t'.c.y \notin t'.sel.nb..t'.sel.ne
                         => SelText(t') = SelText(t) \/ User
           Dirties == \A y \in Rows(t) \cap Rows(t') :
                         TLINE(t, y) # TLINE(t', y) \/ selected(t, y) # selected(t', y) => y \in t'.dirty
<1>1. ScreenInit => ScreenInv /\ SelInv
  <2> SUFFICES ASSUME ScreenInit PROVE ScreenInv /\ SelInv
    OBVIOUS
  <2>1. IsScreen(t) /\ SelInv
    BY InitLines, InitSelection
  <2>2. written \in 0..MaxText /\ uses \in Uses
    BY DEF ScreenInit, ScreenAssumption
  <2> QED
    BY <2>1, <2>2 DEF ScreenInv
<1>2. ScreenInv /\ SelInv /\ [ScreenNext]_screenVars
         => (ScreenInv /\ SelInv)' /\ [Scrolls]_screenVars /\ [Dirties]_screenVars
  <2> SUFFICES ASSUME ScreenInv, SelInv, [ScreenNext]_screenVars
               PROVE  (ScreenInv /\ SelInv)' /\ [Scrolls]_screenVars /\ [Dirties]_screenVars
    OBVIOUS
  <2>1. CASE ScreenNext
    <3>1. ScreenInv' /\ Kept
      BY <2>1, NextLines, NextKeepsSelection
    <3>2. \A y : (selected(t, y) <=> selected(t', y)) => selected(t, y) = selected(t', y)
      BY Zenon DEF selected
    <3>3. Dirties
      BY <3>1, <3>2 DEF Kept, Marked, Alike
    <3>4. Scrolls
      BY <3>1 DEF Kept
    <3> QED
      BY <3>1, <3>3, <3>4 DEF Kept
  <2>2. CASE UNCHANGED screenVars
    <3>1. t' = t /\ uses' = uses /\ written' = written
      BY <2>2 DEF screenVars
    <3> QED
      BY <2>2, <3>1 DEF ScreenInv, SelInv
  <2> QED
    BY <2>1, <2>2
<1>3. ScreenSpec => [][Scrolls]_screenVars /\ [][Dirties]_screenVars
  BY <1>1, <1>2, PTL DEF ScreenSpec
<1> QED
  BY <1>3 DEF SelectionKept, SelectionScrolls, RowsDirtied
=============================================================================
