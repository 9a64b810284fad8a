---------------------------- MODULE StTtyProofs ----------------------------
(***************************************************************************)
(* st and its program lose nothing, double nothing and change no order:    *)
(* InOrder as a theorem of StTty, for queues, pastes and writes of every   *)
(* size and any number of bytes typed and written.                         *)
(*                                                                         *)
(* InOrder speaks of what has arrived.  The invariant IInv adds what is on *)
(* its way: in one direction what the program has read, its queue, the     *)
(* rest of the paste that ttywriteraw holds and the event that st has not  *)
(* taken; in the other the screen, what twrite has still to process and    *)
(* the queue.  Each step hands bytes from one part to the next one.  Which *)
(* part holds what depends on the calls on the stack, so the invariant     *)
(* also says how ttyread, twrite and ttywriteraw may nest: a ttyread that  *)
(* runs inside of a twrite, on the same buffer, processes bytes twice.     *)
(* That is what happens when a program asks for reports and takes none;    *)
(* Roomy excludes it, and the rest of the module shows that nothing else   *)
(* leads to it.                                                            *)
(***************************************************************************)
EXTENDS StTty, AlgorithmProofs, FiniteSetTheorems

-----------------------------------------------------------------------------
(* Counting bytes.                                                         *)

LEMMA UptoIsNat ==
    ASSUME NEW s, NEW i \in Nat, NEW kinds
    PROVE  /\ IsFiniteSet({j \in 1..i : s[j][1] \in kinds})
           /\ Upto(s, i, kinds) \in Nat
<1>1. IsFiniteSet(1..i)
  BY FS_Interval
<1>2. IsFiniteSet({j \in 1..i : s[j][1] \in kinds})
  BY <1>1, FS_Subset
<1> QED
  BY <1>2, FS_CardinalityType DEF Upto

(* One byte more. *)
LEMMA UptoStep ==
    ASSUME NEW s, NEW i \in Nat, NEW kinds
    PROVE  /\ Upto(s, 0, kinds) = 0
           /\ Upto(s, i + 1, kinds) =
                Upto(s, i, kinds) + (IF s[i + 1][1] \in kinds THEN 1 ELSE 0)
<1> DEFINE A(k) == {j \in 1..k : s[j][1] \in kinds}
<1>1. Upto(s, 0, kinds) = 0
  <2>1. A(0) = {}
    OBVIOUS
  <2> QED
    BY <2>1, FS_EmptySet DEF Upto
<1>2. CASE s[i + 1][1] \in kinds
  <2>1. A(i + 1) = A(i) \cup {i + 1} /\ i + 1 \notin A(i)
    BY <1>2
  <2>2. IsFiniteSet(A(i))
    BY UptoIsNat
  <2>3. Cardinality(A(i) \cup {i + 1}) = Cardinality(A(i)) + 1
    BY <2>1, <2>2, FS_AddElement
  <2> QED
    BY <1>1, <1>2, <2>1, <2>3 DEF Upto
<1>3. CASE s[i + 1][1] \notin kinds
  <2>1. A(i + 1) = A(i)
    BY <1>3
  <2>2. Upto(s, i, kinds) \in Nat
    BY UptoIsNat
  <2>3. Upto(s, i + 1, kinds) = Upto(s, i, kinds)
    BY <2>1 DEF Upto
  <2> QED
    BY <1>1, <1>3, <2>2, <2>3
<1> QED
  BY <1>2, <1>3

LEMMA UptoHit ==
    ASSUME NEW s, NEW i \in Nat, NEW k \in Nat, k = i + 1, NEW kinds, s[k][1] \in kinds
    PROVE  Upto(s, k, kinds) = Upto(s, i, kinds) + 1
BY UptoStep

(* The count depends on the bytes up to i only. *)
LEMMA UptoSame ==
    ASSUME NEW s, NEW t, NEW i \in Nat, NEW kinds, \A j \in 1..i : s[j] = t[j]
    PROVE  Upto(s, i, kinds) = Upto(t, i, kinds)
<1>1. {j \in 1..i : s[j][1] \in kinds} = {j \in 1..i : t[j][1] \in kinds}
  OBVIOUS
<1> QED
  BY <1>1 DEF Upto

LEMMA UptoGrows ==
    ASSUME NEW s, NEW i \in Nat, NEW k \in Nat, i <= k, NEW kinds
    PROVE  Upto(s, i, kinds) <= Upto(s, k, kinds)
<1> DEFINE A == {j \in 1..i : s[j][1] \in kinds}
           B == {j \in 1..k : s[j][1] \in kinds}
<1>1. A \subseteq B
  OBVIOUS
<1>2. IsFiniteSet(B)
  BY UptoIsNat
<1>3. Upto(s, i, kinds) = Cardinality(A) /\ Upto(s, k, kinds) = Cardinality(B)
  BY DEF Upto
<1> HIDE DEF A, B
<1> QED
  BY <1>1, <1>2, <1>3, FS_Subset

LEMMA UptoOfMore ==
    ASSUME NEW s, NEW i \in Nat, NEW kinds, NEW more, kinds \subseteq more
    PROVE  Upto(s, i, kinds) <= Upto(s, i, more)
<1> DEFINE A == {j \in 1..i : s[j][1] \in kinds}
           B == {j \in 1..i : s[j][1] \in more}
<1>1. A \subseteq B
  OBVIOUS
<1>2. IsFiniteSet(B)
  BY UptoIsNat
<1>3. Upto(s, i, kinds) = Cardinality(A) /\ Upto(s, i, more) = Cardinality(B)
  BY DEF Upto
<1> HIDE DEF A, B
<1> QED
  BY <1>1, <1>2, <1>3, FS_Subset

Only(s, kinds) == \A i \in 1..Len(s) : s[i][1] \in kinds

(* Where every byte is of one of two kinds, the counts add up. *)
LEMMA UptoOfAll ==
    ASSUME NEW s, NEW n \in Nat, n = Len(s), NEW k1, NEW k2, k1 # k2, Only(s, {k1, k2})
    PROVE  n = Upto(s, n, {k1}) + Upto(s, n, {k2})
<1> DEFINE A == {j \in 1..n : s[j][1] \in {k1}}
           B == {j \in 1..n : s[j][1] \in {k2}}
<1>1. A \cup B = 1..n /\ A \cap B = {}
  BY DEF Only
<1>2. IsFiniteSet(A) /\ IsFiniteSet(B)
  BY UptoIsNat, ZenonT(60)
<1>3. Cardinality(A \cup B) = Cardinality(A) + Cardinality(B) - Cardinality(A \cap B)
  <2> HIDE DEF A, B
  <2> QED
    BY <1>2, FS_Union
<1>4. Cardinality(A \cap B) = 0
  BY <1>1, FS_EmptySet
<1>5. Cardinality(1..n) = n
  BY ONLY n \in Nat, FS_Interval
<1>6. Cardinality(A) \in Nat /\ Cardinality(B) \in Nat
  BY <1>2, FS_CardinalityType
<1>7. Upto(s, n, {k1}) = Cardinality(A) /\ Upto(s, n, {k2}) = Cardinality(B)
  BY DEF Upto
<1>8. Cardinality(A \cup B) = n
  BY <1>1, <1>5
<1> HIDE DEF A, B
<1>9. n = Cardinality(A) + Cardinality(B)
  BY <1>3, <1>4, <1>6, <1>8
<1> QED
  BY <1>7, <1>9

(* t is s with a byte of another kind put in after the first m of n.       *)
Inserted(s, t, m, n, kinds) ==
    /\ \A j \in 1..m : t[j] = s[j]
    /\ t[m + 1][1] \notin kinds
    /\ \A j \in (m + 1)..n : t[j + 1] = s[j]

(* Then every count is as before. *)
LEMMA UptoInsert ==
    ASSUME NEW s, NEW t, NEW m \in Nat, NEW n \in Nat, NEW kinds, Inserted(s, t, m, n, kinds)
    PROVE  \A i \in m..n : Upto(t, i + 1, kinds) = Upto(s, i, kinds)
<1> DEFINE Bad == {i \in m..n : Upto(t, i + 1, kinds) # Upto(s, i, kinds)}
<1> SUFFICES ASSUME Bad # {} PROVE FALSE
  OBVIOUS
<1>1. PICK i \in Bad : \A j \in Bad : i <= j
  <2>1. Bad \in SUBSET Nat
    OBVIOUS
  <2> HIDE DEF Bad
  <2> QED
    BY <2>1, LeastElement
<1>2. i \in m..n /\ i \in Nat /\ Upto(s, i, kinds) \in Nat /\ Upto(t, i, kinds) \in Nat
  <2>1. i \in m..n /\ i \in Nat
    OBVIOUS
  <2> QED
    BY <2>1, UptoIsNat
<1>3. CASE i = m
  <2>1. Upto(t, m, kinds) = Upto(s, m, kinds)
    BY UptoSame DEF Inserted
  <2> QED
    BY <1>1, <1>2, <1>3, <2>1, UptoStep DEF Inserted
<1>4. CASE i # m
  <2>1. i - 1 \in m..n /\ i - 1 \notin Bad /\ i - 1 \in Nat
    BY <1>1, <1>2, <1>4
  <2>2. Upto(t, i, kinds) = Upto(s, i - 1, kinds)
    BY <1>2, <2>1
  <2>3. t[i + 1] = s[i]
    BY <1>2, <1>4 DEF Inserted
  <2>4. Upto(s, i, kinds) = Upto(s, i - 1, kinds) + (IF s[i][1] \in kinds THEN 1 ELSE 0)
    <3>1. (i - 1) + 1 = i
      BY <1>2
    <3> QED
      BY <2>1, <3>1, UptoStep
  <2>5. Upto(t, i + 1, kinds) = Upto(t, i, kinds) + (IF t[i + 1][1] \in kinds THEN 1 ELSE 0)
    BY <1>2, UptoStep
  <2> QED
    BY <1>1, <2>2, <2>3, <2>4, <2>5
<1> QED
  BY <1>3, <1>4

-----------------------------------------------------------------------------
(* Numbered sequences.                                                     *)

LEMMA CountedFront ==
    ASSUME NEW S, NEW s \in Seq(S), NEW t \in Seq(S), NEW kinds, Counted(s \o t, kinds)
    PROVE  Counted(s, kinds)
<1> DEFINE u == s \o t
<1>1. /\ u \in Seq(S) /\ Len(u) = Len(s) + Len(t)
      /\ \A j \in 1..Len(s) : u[j] = s[j]
  BY ConcatProperties
<1> HIDE DEF u
<1>2. \A i \in 1..Len(s) : Upto(u, i, kinds) = Upto(s, i, kinds)
  <2> TAKE i \in 1..Len(s)
  <2>1. i \in Nat /\ \A j \in 1..i : u[j] = s[j]
    BY <1>1
  <2> QED
    BY <2>1, UptoSame
<1> QED
  BY <1>1, <1>2 DEF Counted, u

LEMMA CountFront ==
    ASSUME NEW S, NEW s \in Seq(S), NEW t \in Seq(S), NEW kinds
    PROVE  /\ Count(s, kinds) \in Nat
           /\ Count(s, kinds) <= Count(s \o t, kinds)
<1>1. PICK u \in Seq(S) : u = s \o t
  BY ConcatProperties
<1>2. Len(u) = Len(s) + Len(t) /\ \A j \in 1..Len(s) : u[j] = s[j]
  BY <1>1, ConcatProperties
<1>3. PICK m \in Nat, n \in Nat : m = Len(s) /\ n = Len(u) /\ m <= n
  <2>1. Len(s) \in Nat /\ Len(t) \in Nat
    OBVIOUS
  <2> QED
    BY <1>2, <2>1
<1>4. Upto(u, m, kinds) = Upto(s, m, kinds) /\ Upto(s, m, kinds) \in Nat
  <2>1. \A j \in 1..m : u[j] = s[j]
    BY <1>2, <1>3
  <2>2. Upto(u, m, kinds) = Upto(s, m, kinds)
    BY ONLY m \in Nat, <2>1, UptoSame
  <2>3. Upto(s, m, kinds) \in Nat
    BY UptoIsNat
  <2> QED
    BY <2>2, <2>3
<1>5. Upto(u, m, kinds) <= Upto(u, n, kinds)
  BY <1>3, UptoGrows
<1> QED
  BY <1>1, <1>3, <1>4, <1>5 DEF Count

LEMMA CountAppend ==
    ASSUME NEW S, NEW s \in Seq(S), NEW x \in S, NEW kinds
    PROVE  /\ Count(s, kinds) \in Nat
           /\ Count(Append(s, x), kinds) = Count(s, kinds) + (IF x[1] \in kinds THEN 1 ELSE 0)
           /\ Counted(s, kinds) /\ (x[1] \in kinds => x[2] = Count(s, kinds) + 1)
                 => Counted(Append(s, x), kinds)
<1> DEFINE u == Append(s, x)
<1>1. /\ Len(u) = Len(s) + 1 /\ u[Len(s) + 1] = x /\ u \in Seq(S) /\ Len(s) \in Nat
      /\ \A j \in 1..Len(s) : u[j] = s[j]
  BY AppendProperties
<1> HIDE DEF u
<1>2. \A i \in 1..Len(s) : Upto(u, i, kinds) = Upto(s, i, kinds)
  <2> TAKE i \in 1..Len(s)
  <2>1. i \in Nat /\ \A j \in 1..i : u[j] = s[j]
    BY <1>1
  <2> QED
    BY <2>1, UptoSame
<1>3. Upto(u, Len(s), kinds) = Upto(s, Len(s), kinds)
  BY <1>1, UptoSame
<1>4. Upto(u, Len(s) + 1, kinds) = Upto(s, Len(s), kinds) + (IF x[1] \in kinds THEN 1 ELSE 0)
  <2>1. PICK k \in Nat : k = Len(s)
    BY <1>1
  <2>2. Upto(u, k + 1, kinds) = Upto(u, k, kinds) + (IF u[k + 1][1] \in kinds THEN 1 ELSE 0)
    BY UptoStep
  <2>3. u[k + 1] = x
    BY <1>1, <2>1
  <2> QED
    BY <1>3, <2>1, <2>2, <2>3
<1>5. Upto(s, Len(s), kinds) \in Nat
  BY <1>1, UptoIsNat
<1>6. ASSUME Counted(s, kinds), x[1] \in kinds => x[2] = Count(s, kinds) + 1,
             NEW i \in DOMAIN u, u[i][1] \in kinds
      PROVE  u[i][2] = Upto(u, i, kinds)
  <2>1. CASE i = Len(s) + 1
    BY <1>1, <1>4, <1>6, <2>1 DEF Count
  <2>2. CASE i # Len(s) + 1
    <3>1. i \in 1..Len(s)
      BY <1>1, <2>2
    <3> QED
      BY <1>1, <1>2, <1>6, <3>1 DEF Counted
  <2> QED
    BY <2>1, <2>2
<1>7. Counted(s, kinds) /\ (x[1] \in kinds => x[2] = Count(s, kinds) + 1) => Counted(u, kinds)
  BY <1>6 DEF Counted
<1> QED
  BY <1>1, <1>4, <1>5, <1>7 DEF Count, u

(* A byte of another kind in the middle, after the first m. *)
LEMMA CountedInsertAt ==
    ASSUME NEW S, NEW u \in Seq(S), NEW v \in Seq(S), NEW m \in Nat, NEW n \in Nat, NEW kinds,
           m <= n, Len(u) = n, Len(v) = n + 1, Inserted(u, v, m, n, kinds)
    PROVE  /\ Count(v, kinds) = Count(u, kinds)
           /\ Counted(v, kinds) <=> Counted(u, kinds)
<1>6. \A i \in m..n : Upto(v, i + 1, kinds) = Upto(u, i, kinds)
  BY UptoInsert
<1>7. \A i \in 1..m : Upto(v, i, kinds) = Upto(u, i, kinds)
  <2> TAKE i \in 1..m
  <2>1. i \in Nat /\ \A j \in 1..i : v[j] = u[j]
    BY DEF Inserted
  <2> QED
    BY <2>1, UptoSame
<1>8. Upto(v, n + 1, kinds) = Upto(u, n, kinds)
  BY <1>6
<1>9. DOMAIN u = 1..n /\ DOMAIN v = 1..(n + 1)
  OBVIOUS
<1>10. ASSUME Counted(u, kinds), NEW i \in 1..(n + 1), v[i][1] \in kinds
       PROVE  v[i][2] = Upto(v, i, kinds)
  <2>1. CASE i \in 1..m
    <3>1. i \in 1..n
      BY <2>1
    <3> QED
      BY <1>7, <1>9, <1>10, <2>1, <3>1 DEF Counted, Inserted
  <2>2. CASE i \in (m + 2)..(n + 1)
    <3>1. i - 1 \in (m + 1)..n /\ i - 1 \in 1..n /\ i - 1 \in m..n /\ (i - 1) + 1 = i
      BY <2>2
    <3>2. v[i] = u[i - 1] /\ Upto(v, i, kinds) = Upto(u, i - 1, kinds)
      BY <1>6, <3>1 DEF Inserted
    <3> QED
      BY <1>9, <1>10, <3>1, <3>2 DEF Counted
  <2>3. i # m + 1
    BY <1>10 DEF Inserted
  <2> QED
    BY <2>1, <2>2, <2>3
<1>11. ASSUME Counted(v, kinds), NEW i \in 1..n, u[i][1] \in kinds
       PROVE  u[i][2] = Upto(u, i, kinds)
  <2>1. CASE i \in 1..m
    <3>1. i \in 1..(n + 1)
      BY <2>1
    <3> QED
      BY <1>7, <1>9, <1>11, <2>1, <3>1 DEF Counted, Inserted
  <2>2. CASE i \in (m + 1)..n
    <3>1. i \in m..n /\ i + 1 \in 1..(n + 1)
      BY <2>2
    <3>2. v[i + 1] = u[i] /\ Upto(v, i + 1, kinds) = Upto(u, i, kinds)
      BY <1>6, <2>2, <3>1 DEF Inserted
    <3> QED
      BY <1>9, <1>11, <3>1, <3>2 DEF Counted
  <2> QED
    BY <2>1, <2>2
<1>12. Counted(v, kinds) <=> Counted(u, kinds)
  BY <1>9, <1>10, <1>11 DEF Counted
<1> QED
  BY <1>8, <1>12 DEF Count

LEMMA CountedInsert ==
    ASSUME NEW S, NEW s \in Seq(S), NEW t \in Seq(S), NEW x \in S, NEW kinds, x[1] \notin kinds
    PROVE  /\ Count(Append(s, x) \o t, kinds) = Count(s \o t, kinds)
           /\ Counted(Append(s, x) \o t, kinds) <=> Counted(s \o t, kinds)
<1>1. PICK w \in Seq(S) : w = Append(s, x)
  BY AppendProperties
<1>2. PICK m \in Nat, n \in Nat : m = Len(s) /\ n = Len(s) + Len(t) /\ Len(t) = n - m /\ m <= n
  <2>1. Len(s) \in Nat /\ Len(t) \in Nat
    OBVIOUS
  <2> QED
    BY <2>1
<1>3. Len(w) = m + 1 /\ w[m + 1] = x /\ \A j \in 1..m : w[j] = s[j]
  BY <1>1, <1>2, AppendProperties
<1>4. PICK u \in Seq(S) : u = s \o t
  BY ConcatProperties
<1>5. PICK v \in Seq(S) : v = w \o t
  BY ConcatProperties
<1>6. Len(u) = n /\ \A j \in 1..n : u[j] = IF j <= m THEN s[j] ELSE t[j - m]
  BY <1>2, <1>4, ConcatProperties
<1>7. /\ Len(v) = n + 1
      /\ \A j \in 1..(n + 1) : v[j] = IF j <= m + 1 THEN w[j] ELSE t[j - (m + 1)]
  <2>1. Len(v) = Len(w) + Len(t)
    BY <1>5, ConcatProperties
  <2>2. Len(v) = n + 1
    BY <1>2, <1>3, <2>1
  <2>3. \A j \in 1..Len(v) : v[j] = IF j <= Len(w) THEN w[j] ELSE t[j - Len(w)]
    BY <1>5, ConcatProperties
  <2> QED
    BY <1>3, <2>2, <2>3
<1>8. \A j \in 1..m : v[j] = u[j]
  <2> TAKE j \in 1..m
  <2>1. j \in 1..n /\ j \in 1..(n + 1) /\ j <= m /\ j <= m + 1
    BY <1>2
  <2> QED
    BY <1>3, <1>6, <1>7, <2>1
<1>9. v[m + 1] = x
  <2>1. m + 1 \in 1..(n + 1) /\ m + 1 <= m + 1
    BY <1>2
  <2> QED
    BY <1>3, <1>7, <2>1
<1>10. \A j \in (m + 1)..n : v[j + 1] = u[j]
  <2> TAKE j \in (m + 1)..n
  <2>1. /\ j \in 1..n /\ j + 1 \in 1..(n + 1) /\ ~(j <= m) /\ ~(j + 1 <= m + 1)
        /\ (j + 1) - (m + 1) = j - m
    BY <1>2
  <2> QED
    BY <1>6, <1>7, <2>1
<1>11. Count(v, kinds) = Count(u, kinds) /\ (Counted(v, kinds) <=> Counted(u, kinds))
  BY <1>2, <1>6, <1>7, <1>8, <1>9, <1>10, CountedInsertAt DEF Inserted
<1> QED
  BY <1>1, <1>4, <1>5, <1>11

(* A run of n new bytes at the end. *)
LEMMA CountedRun ==
    ASSUME NEW S, NEW s \in Seq(S), NEW t \in Seq(S), NEW kinds,
           Counted(s, kinds),
           \A k \in 1..Len(t) : t[k][1] \in kinds /\ t[k][2] = Count(s, kinds) + k
    PROVE  /\ Counted(s \o t, kinds)
           /\ Count(s \o t, kinds) = Count(s, kinds) + Len(t)
<1> DEFINE m == Len(s)
           n == Len(t)
           c == Count(s, kinds)
<1>0. PICK u \in Seq(S) : u = s \o t
  BY ConcatProperties
<1> DEFINE Bad == {k \in 0..n : Upto(u, m + k, kinds) # c + k}
<1>1. /\ Len(u) = m + n /\ m \in Nat /\ n \in Nat
      /\ \A j \in 1..m : u[j] = s[j]
      /\ \A k \in 1..n : u[m + k] = t[k]
  BY <1>0, ConcatProperties
<1>2. DOMAIN u = 1..(m + n)
  BY <1>1
<1>3. c \in Nat
  BY <1>1, UptoIsNat DEF Count
<1>4. \A i \in 0..m : Upto(u, i, kinds) = Upto(s, i, kinds)
  <2> TAKE i \in 0..m
  <2>1. i \in Nat /\ \A j \in 1..i : u[j] = s[j]
    BY <1>1
  <2> QED
    BY <2>1, UptoSame
<1>5. Bad = {}
  <2> SUFFICES ASSUME Bad # {} PROVE FALSE
    OBVIOUS
  <2>1. PICK k \in Bad : \A j \in Bad : k <= j
    <3>1. Bad \in SUBSET Nat
      OBVIOUS
    <3> HIDE DEF Bad
    <3> QED
      BY <3>1, LeastElement
  <2>2. k \in 0..n
    OBVIOUS
  <2>3. CASE k = 0
    BY <1>1, <1>3, <1>4, <2>1, <2>3 DEF Count
  <2>4. CASE k # 0
    <3>1. k - 1 \in 0..n /\ k - 1 \notin Bad /\ k \in 1..n
      BY <1>1, <2>1, <2>2, <2>4
    <3>2. Upto(u, m + (k - 1), kinds) = c + (k - 1)
      BY <3>1
    <3>3. m + (k - 1) \in Nat /\ (m + (k - 1)) + 1 = m + k
      BY <1>1, <3>1
    <3>4. u[m + k][1] \in kinds
      BY <1>1, <3>1
    <3>5. Upto(u, m + k, kinds) = Upto(u, m + (k - 1), kinds) + 1
      <4>1. PICK p \in Nat : p = m + (k - 1) /\ p + 1 = m + k
        BY <3>3
      <4>2. PICK q \in Nat : q = m + k
        BY <1>1, <2>2
      <4>3. u[q][1] \in kinds /\ q = p + 1
        BY <3>4, <4>1, <4>2
      <4>4. Upto(u, q, kinds) = Upto(u, p, kinds) + 1
        BY <4>3, UptoHit
      <4> QED
        BY <4>1, <4>2, <4>4
    <3>6. Upto(u, m + k, kinds) = c + k
      BY <1>3, <3>1, <3>2, <3>5
    <3> QED
      BY <2>1, <3>6
  <2> QED
    BY <2>3, <2>4
<1>6. \A k \in 0..n : Upto(u, m + k, kinds) = c + k
  BY <1>5
<1> HIDE DEF Bad
<1>7. ASSUME NEW i \in 1..(m + n), u[i][1] \in kinds
      PROVE  u[i][2] = Upto(u, i, kinds)
  <2>1. CASE i \in 1..m
    <3>1. i \in 0..m
      BY <1>1, <2>1
    <3> QED
      BY <1>1, <1>4, <1>7, <2>1, <3>1 DEF Counted
  <2>2. CASE i \notin 1..m
    <3>1. PICK k \in 1..n : i = m + k
      <4>1. i - m \in 1..n /\ i = m + (i - m)
        BY <1>1, <2>2
      <4> QED
        BY <4>1
    <3> QED
      BY <1>1, <1>6, <3>1
  <2> QED
    BY <2>1, <2>2
<1>8. Counted(u, kinds)
  BY <1>2, <1>7 DEF Counted
<1>9. Count(u, kinds) = c + n
  BY <1>1, <1>6 DEF Count
<1> QED
  BY <1>0, <1>8, <1>9

(* A byte that goes from the head of one sequence to the end of the one    *)
(* before. *)
LEMMA Handed ==
    ASSUME NEW S, NEW s \in Seq(S), NEW t \in Seq(S), t # <<>>
    PROVE  Append(s, Head(t)) \o Tail(t) = s \o t
<1> DEFINE h == Head(t)
           r == Tail(t)
<1>1. h \in S /\ r \in Seq(S) /\ t = <<h>> \o r /\ <<h>> \in Seq(S)
  BY HeadTailProperties
<1>2. Append(s, h) = s \o <<h>>
  BY <1>1, AppendIsConcat
<1>3. (s \o <<h>>) \o r = s \o (<<h>> \o r)
  BY <1>1, ConcatAssociative, SMTT(30)
<1> QED
  BY <1>1, <1>2, <1>3

LEMMA HandedInto ==
    ASSUME NEW S, NEW s \in Seq(S), NEW t \in Seq(S), NEW r \in Seq(S), t # <<>>
    PROVE  Append(s, Head(t)) \o (Tail(t) \o r) = s \o (t \o r)
<1>1. PICK h \in S, v \in Seq(S) : h = Head(t) /\ v = Tail(t)
  BY HeadTailProperties
<1>2. PICK a \in Seq(S) : a = Append(s, h)
  BY AppendProperties
<1>3. a \o (v \o r) = (a \o v) \o r
  BY ConcatAssociative, SMTT(30)
<1>4. (s \o t) \o r = s \o (t \o r)
  BY ConcatAssociative, SMTT(30)
<1>5. a \o v = s \o t
  BY <1>1, <1>2, Handed
<1>6. a \o (v \o r) = s \o (t \o r)
  BY <1>3, <1>4, <1>5
<1> QED
  BY <1>1, <1>2, <1>6

LEMMA AppendInto ==
    ASSUME NEW S, NEW s \in Seq(S), NEW t \in Seq(S), NEW x \in S
    PROVE  s \o Append(t, x) = Append(s \o t, x)
<1>1. Append(t, x) = t \o <<x>> /\ <<x>> \in Seq(S)
  BY AppendIsConcat
<1>2. s \o t \in Seq(S)
  BY ConcatProperties
<1>3. Append(s \o t, x) = (s \o t) \o <<x>>
  BY <1>2, AppendIsConcat
<1>4. (s \o t) \o <<x>> = s \o (t \o <<x>>)
  BY <1>1, ConcatAssociative, SMTT(30)
<1> QED
  BY <1>1, <1>3, <1>4

-----------------------------------------------------------------------------
(* What is on its way, in both directions.  To the program: what it has    *)
(* got, the queue, the rest of the paste that ttywriteraw is writing and   *)
(* the event that st has not taken hold all that was typed, in order, with *)
(* the replies in between.  From the program: the screen, what twrite has  *)
(* not processed and the queue.                                            *)
Byte == {"key", "reply", "text", "query", "flood"} \X Nat

Numbering      == {"text", "query"}
FromProgram(u) == {"text", "flood"} \cup (IF "query" \in u THEN {"query"} ELSE {})

ToLine(g, q, p, x, k) ==
    /\ Counted((g \o q) \o (p \o x), {"key"})
    /\ Count((g \o q) \o (p \o x), {"key"}) = k
    /\ Only(g, {"key", "reply"}) /\ Only(q, {"key", "reply"})
    /\ Only(p, {"key"}) /\ Only(x, {"key"})

FromLine(s, r, q, o, u) ==
    /\ Counted(s \o (r \o q), Numbering)
    /\ Count(s \o (r \o q), Numbering) = o
    /\ Only(r, FromProgram(u)) /\ Only(q, FromProgram(u))

Answered(g, q, s, asked) == Count(g \o q, {"reply"}) + asked = Count(s, {"query"})

LEMMA BytesRegroup ==
    \A s, t, r \in Seq(Byte) : s \o (t \o r) = (s \o t) \o r
BY ConcatAssociative, SMTT(30)

LEMMA BytesHanded ==
    \A s, t, r \in Seq(Byte) :
        t # <<>> => Append(s, Head(t)) \o (Tail(t) \o r) = s \o (t \o r)
BY HandedInto, SMTT(30)

LEMMA OnlyParts ==
    ASSUME NEW s \in Seq(Byte), NEW kinds, Only(s, kinds)
    PROVE  /\ s # <<>> => Head(s)[1] \in kinds /\ Only(Tail(s), kinds)
           /\ Only(<<>>, kinds)
           /\ \A x \in Byte : x[1] \in kinds => Only(Append(s, x), kinds)
<1>1. ASSUME s # <<>> PROVE Head(s)[1] \in kinds /\ Only(Tail(s), kinds)
  <2>1. Head(s) = s[1] /\ 1 \in 1..Len(s) /\ Len(Tail(s)) = Len(s) - 1
        /\ \A i \in 1..Len(Tail(s)) : Tail(s)[i] = s[i + 1] /\ i + 1 \in 1..Len(s)
    BY <1>1, HeadTailProperties
  <2> QED
    BY <2>1 DEF Only
<1>2. Only(<<>>, kinds)
  BY DEF Only
<1>3. ASSUME NEW x \in Byte, x[1] \in kinds PROVE Only(Append(s, x), kinds)
  <2>1. /\ Len(Append(s, x)) = Len(s) + 1 /\ Append(s, x)[Len(s) + 1] = x /\ Len(s) \in Nat
        /\ \A i \in 1..Len(s) : Append(s, x)[i] = s[i]
    BY AppendProperties
  <2>2. \A i \in 1..Len(Append(s, x)) : i = Len(s) + 1 \/ i \in 1..Len(s)
    BY <2>1
  <2> QED
    BY <1>3, <2>1, <2>2 DEF Only
<1> QED
  BY <1>1, <1>2, <1>3

LEMMA OnlyConcat ==
    ASSUME NEW s \in Seq(Byte), NEW t \in Seq(Byte), NEW kinds, Only(s, kinds), Only(t, kinds)
    PROVE  Only(s \o t, kinds)
<1>1. /\ Len(s \o t) = Len(s) + Len(t) /\ Len(s) \in Nat /\ Len(t) \in Nat
      /\ \A i \in 1..Len(s \o t) : (s \o t)[i] = IF i <= Len(s) THEN s[i] ELSE t[i - Len(s)]
  BY ConcatProperties
<1> SUFFICES ASSUME NEW i \in 1..Len(s \o t) PROVE (s \o t)[i][1] \in kinds
  BY DEF Only
<1>2. CASE i <= Len(s)
  <2>1. i \in 1..Len(s)
    BY <1>1, <1>2
  <2> QED
    BY <1>1, <1>2, <2>1 DEF Only
<1>3. CASE ~(i <= Len(s))
  <2>1. i - Len(s) \in 1..Len(t)
    BY <1>1, <1>3
  <2> QED
    BY <1>1, <1>3, <2>1 DEF Only
<1> QED
  BY <1>2, <1>3

(* The line takes a byte of the paste. *)
LEMMA KeySent ==
    ASSUME NEW g \in Seq(Byte), NEW q \in Seq(Byte), NEW p \in Seq(Byte), NEW x \in Seq(Byte),
           NEW k, NEW s, NEW asked, p # <<>>,
           ToLine(g, q, p, x, k), Answered(g, q, s, asked)
    PROVE  /\ ToLine(g, Append(q, Head(p)), Tail(p), x, k)
           /\ Answered(g, Append(q, Head(p)), s, asked)
<1>1. PICK h \in Byte : h = Head(p)
  BY HeadTailProperties
<1>2. PICK a \in Seq(Byte) : a = g \o q
  BY ConcatProperties
<1>3. g \o Append(q, h) = Append(a, h)
  BY <1>2, AppendInto
<1>4. Append(a, h) \o (Tail(p) \o x) = a \o (p \o x)
  <2>1. Append(a, Head(p)) \o (Tail(p) \o x) = a \o (p \o x)
    BY BytesHanded
  <2> QED
    BY <1>1, <2>1
<1>5. h[1] = "key" /\ Only(Tail(p), {"key"})
  BY <1>1, OnlyParts DEF ToLine
<1>6. Only(Append(q, h), {"key", "reply"})
  BY <1>5, OnlyParts DEF ToLine
<1>7. Count(Append(a, h), {"reply"}) = Count(a, {"reply"})
  BY <1>5, CountAppend
<1>8. ToLine(g, Append(q, h), Tail(p), x, k)
  BY <1>2, <1>3, <1>4, <1>5, <1>6 DEF ToLine
<1>9. Answered(g, Append(q, h), s, asked)
  BY <1>2, <1>3, <1>7 DEF Answered
<1> QED
  BY <1>1, <1>8, <1>9

(* The line takes a reply. *)
LEMMA ReplySent ==
    ASSUME NEW g \in Seq(Byte), NEW q \in Seq(Byte), NEW p \in Seq(Byte), NEW x \in Seq(Byte),
           NEW k, NEW s, ToLine(g, q, p, x, k), Answered(g, q, s, 1)
    PROVE  /\ ToLine(g, Append(q, Reply), p, x, k)
           /\ Answered(g, Append(q, Reply), s, 0)
<1>1. PICK h \in Byte : h = Reply /\ h[1] = "reply"
  <2>1. Reply = <<"reply", 0>> /\ <<"reply", 0>> \in Byte
    BY DEF Byte, Reply
  <2>2. Reply[1] = "reply"
    BY <2>1
  <2> QED
    BY <2>1, <2>2
<1>2. PICK a \in Seq(Byte) : a = g \o q
  BY ConcatProperties
<1>3. g \o Append(q, h) = Append(a, h)
  BY <1>2, AppendInto
<1>4. PICK b \in Seq(Byte) : b = p \o x
  BY ConcatProperties
<1>5. /\ Count(Append(a, h) \o b, {"key"}) = Count(a \o b, {"key"})
      /\ Counted(Append(a, h) \o b, {"key"}) <=> Counted(a \o b, {"key"})
  <2>1. h[1] \notin {"key"}
    BY <1>1
  <2> QED
    BY <2>1, CountedInsert
<1>6. Only(Append(q, h), {"key", "reply"})
  BY <1>1, OnlyParts DEF ToLine
<1>7. Count(Append(a, h), {"reply"}) = Count(a, {"reply"}) + 1 /\ Count(a, {"reply"}) \in Nat
  BY <1>1, CountAppend
<1>8. ToLine(g, Append(q, h), p, x, k)
  BY <1>2, <1>3, <1>4, <1>5, <1>6 DEF ToLine
<1>9. Answered(g, Append(q, h), s, 0)
  BY <1>2, <1>3, <1>7 DEF Answered
<1> QED
  BY <1>1, <1>8, <1>9

(* The program reads a byte. *)
LEMMA ByteRead ==
    ASSUME NEW g \in Seq(Byte), NEW q \in Seq(Byte), NEW p \in Seq(Byte), NEW x \in Seq(Byte),
           NEW k, NEW s, NEW asked, q # <<>>, ToLine(g, q, p, x, k), Answered(g, q, s, asked)
    PROVE  /\ ToLine(Append(g, Head(q)), Tail(q), p, x, k)
           /\ Answered(Append(g, Head(q)), Tail(q), s, asked)
<1>1. PICK h \in Byte : h = Head(q)
  BY HeadTailProperties
<1>2. Append(g, h) \o Tail(q) = g \o q
  BY <1>1, Handed
<1>3. h[1] \in {"key", "reply"} /\ Only(Tail(q), {"key", "reply"})
  BY <1>1, OnlyParts DEF ToLine
<1>4. Only(Append(g, h), {"key", "reply"})
  BY <1>3, OnlyParts DEF ToLine
<1>5. ToLine(Append(g, h), Tail(q), p, x, k)
  BY <1>2, <1>3, <1>4 DEF ToLine
<1>6. Answered(Append(g, h), Tail(q), s, asked)
  BY <1>2 DEF Answered
<1> QED
  BY <1>1, <1>5, <1>6

(* st takes the event of the keys. *)
LEMMA KeysTaken ==
    ASSUME NEW g \in Seq(Byte), NEW q \in Seq(Byte), NEW x \in Seq(Byte), NEW k,
           ToLine(g, q, <<>>, x, k)
    PROVE  ToLine(g, q, x, <<>>, k)
<1>1. <<>> \o x = x /\ x \o <<>> = x
  BY ConcatEmptySeq
<1> QED
  BY <1>1 DEF ToLine

(* The user types. *)
LEMMA KeysTyped ==
    ASSUME NEW g \in Seq(Byte), NEW q \in Seq(Byte), NEW p \in Seq(Byte), NEW k \in Nat,
           NEW n \in Nat, ToLine(g, q, p, <<>>, k)
    PROVE  ToLine(g, q, p, [i \in 1..n |-> Key(k + i)], k + n)
<1>1. PICK x \in Seq(Byte) : x = [i \in 1..n |-> Key(k + i)]
  <2>1. [i \in 1..n |-> Key(k + i)] \in [1..n -> Byte]
    BY DEF Key, Byte
  <2> QED
    BY <2>1, FunctionIsSeq
<1>2. Len(x) = n /\ \A i \in 1..n : x[i] = <<"key", k + i>>
  BY <1>1 DEF Key
<1>3. PICK a \in Seq(Byte) : a = g \o q
  BY ConcatProperties
<1>4. p \o <<>> = p /\ a \o (p \o x) = (a \o p) \o x /\ a \o p \in Seq(Byte)
  <2>1. p \o <<>> = p
    BY ConcatEmptySeq
  <2>2. a \o (p \o x) = (a \o p) \o x
    BY BytesRegroup, SMTT(30)
  <2>3. a \o p \in Seq(Byte)
    BY ConcatProperties
  <2> QED
    BY <2>1, <2>2, <2>3
<1>5. Counted(a \o p, {"key"}) /\ Count(a \o p, {"key"}) = k
  BY <1>3, <1>4 DEF ToLine
<1>6. \A i \in 1..Len(x) : x[i][1] \in {"key"} /\ x[i][2] = Count(a \o p, {"key"}) + i
  BY <1>2, <1>5
<1>7. Counted((a \o p) \o x, {"key"}) /\ Count((a \o p) \o x, {"key"}) = k + n
  <2>1. PICK b \in Seq(Byte) : b = a \o p
    BY <1>4
  <2>2. Counted(b \o x, {"key"}) /\ Count(b \o x, {"key"}) = Count(b, {"key"}) + Len(x)
    BY <1>5, <1>6, <2>1, CountedRun
  <2> QED
    BY <1>2, <1>5, <2>1, <2>2
<1>8. Only(x, {"key"})
  BY <1>2 DEF Only
<1> QED
  BY <1>1, <1>3, <1>4, <1>7, <1>8 DEF ToLine

(* ttyread. *)
LEMMA OutputRead ==
    ASSUME NEW s \in Seq(Byte), NEW q \in Seq(Byte), NEW o, NEW u, FromLine(s, <<>>, q, o, u)
    PROVE  FromLine(s, q, <<>>, o, u)
<1>1. <<>> \o q = q /\ q \o <<>> = q
  BY ConcatEmptySeq
<1> QED
  BY <1>1 DEF FromLine

(* The program writes a byte. *)
LEMMA ByteWritten ==
    ASSUME NEW s \in Seq(Byte), NEW r \in Seq(Byte), NEW q \in Seq(Byte), NEW o, NEW u,
           NEW x \in Byte, x[1] \in FromProgram(u), FromLine(s, r, q, o, u),
           x[1] \in Numbering => x[2] = o + 1
    PROVE  FromLine(s, r, Append(q, x), IF x[1] \in Numbering THEN o + 1 ELSE o, u)
<1>1. PICK w \in Seq(Byte) : w = s \o (r \o q)
  BY ConcatProperties
<1>2. s \o (r \o Append(q, x)) = Append(w, x)
  <2>1. r \o Append(q, x) = Append(r \o q, x) /\ r \o q \in Seq(Byte)
    BY AppendInto, ConcatProperties
  <2> QED
    BY <1>1, <2>1, AppendInto, SMTT(30)
<1>3. Counted(w, Numbering) /\ Count(w, Numbering) = o
  BY <1>1 DEF FromLine
<1>4. /\ Count(w, Numbering) \in Nat
      /\ Count(Append(w, x), Numbering) = Count(w, Numbering) + (IF x[1] \in Numbering THEN 1 ELSE 0)
      /\ Counted(Append(w, x), Numbering)
  BY <1>3, CountAppend
<1>5. Only(Append(q, x), FromProgram(u))
  BY OnlyParts DEF FromLine
<1> QED
  BY <1>2, <1>3, <1>4, <1>5 DEF FromLine

(* twrite processes a byte: it comes to the screen, or, if nobody counts   *)
(* it, not. *)
LEMMA ByteProcessed ==
    ASSUME NEW s \in Seq(Byte), NEW r \in Seq(Byte), NEW q \in Seq(Byte), NEW o, NEW u,
           r # <<>>, FromLine(s, r, q, o, u)
    PROVE  /\ FromLine(Append(s, Head(r)), Tail(r), q, o, u)
           /\ Head(r)[1] \notin Numbering => FromLine(s, Tail(r), q, o, u)
<1>1. PICK h \in Byte : h = Head(r)
  BY HeadTailProperties
<1>2. PICK b \in Seq(Byte) : b = Tail(r) \o q
  BY HeadTailProperties, ConcatProperties
<1>3. Append(s, h) \o b = s \o (r \o q)
  BY <1>1, <1>2, HandedInto, SMTT(30)
<1>4. Only(Tail(r), FromProgram(u))
  BY OnlyParts DEF FromLine
<1>5. FromLine(Append(s, h), Tail(r), q, o, u)
  BY <1>2, <1>3, <1>4 DEF FromLine
<1>6. ASSUME h[1] \notin Numbering PROVE FromLine(s, Tail(r), q, o, u)
  <2>1. /\ Count(Append(s, h) \o b, Numbering) = Count(s \o b, Numbering)
        /\ Counted(Append(s, h) \o b, Numbering) <=> Counted(s \o b, Numbering)
    BY <1>6, CountedInsert
  <2> QED
    BY <1>2, <1>4, <1>5, <2>1 DEF FromLine
<1> QED
  BY <1>1, <1>5, <1>6

(* There is room for a reply. *)
LEMMA RoomForReply ==
    ASSUME NEW g \in Seq(Byte), NEW q \in Seq(Byte), NEW p \in Seq(Byte), NEW x \in Seq(Byte),
           NEW s \in Seq(Byte), NEW r \in Seq(Byte), NEW t \in Seq(Byte),
           NEW k \in Nat, NEW o \in Nat, NEW u, NEW asked \in {0, 1},
           ToLine(g, q, p, x, k), FromLine(s, r, t, o, u), Answered(g, q, s, asked)
    PROVE  Len(q) + asked <= k + o
<1>1. PICK a \in Seq(Byte) : a = g \o q
  BY ConcatProperties
<1>2. Only(a, {"key", "reply"})
  BY <1>1, OnlyConcat DEF ToLine
<1>3. PICK n \in Nat : n = Len(a)
  OBVIOUS
<1>4. PICK i \in Nat, j \in Nat : i = Count(a, {"key"}) /\ j = Count(a, {"reply"})
  BY CountFront
<1>5. n = i + j
  <2>2. n = Upto(a, n, {"key"}) + Upto(a, n, {"reply"})
    <3>1. "key" # "reply"
      OBVIOUS
    <3> QED
      BY <1>2, <1>3, <3>1, UptoOfAll
  <2> QED
    BY <1>3, <1>4, <2>2 DEF Count
<1>6. i <= k
  <2>1. p \o x \in Seq(Byte)
    BY ConcatProperties
  <2> QED
    BY <1>1, <1>4, <2>1, CountFront DEF ToLine
<1>7. PICK c \in Nat : c = Count(s, {"query"}) /\ c <= o
  <2>1. PICK d \in Nat : d = Count(s, Numbering) /\ d <= o
    <3>1. r \o t \in Seq(Byte)
      BY ConcatProperties
    <3>2. Count(s, Numbering) \in Nat /\ Count(s, Numbering) <= o
      BY <3>1, CountFront DEF FromLine
    <3> QED
      BY <3>2
  <2>2. Count(s, {"query"}) <= Count(s, Numbering)
    <3>1. {"query"} \subseteq Numbering
      BY DEF Numbering
    <3> QED
      BY <3>1, UptoOfMore DEF Count
  <2>3. PICK c \in Nat : c = Count(s, {"query"})
    BY CountFront
  <2> QED
    BY <2>1, <2>2, <2>3
<1>8. j + asked = c
  BY <1>1, <1>4, <1>7 DEF Answered
<1>9. Len(q) <= n
  BY <1>1, <1>3, ConcatProperties
<1>10. PICK m \in Nat : m = Len(q)
  OBVIOUS
<1> QED
  BY <1>5, <1>6, <1>7, <1>8, <1>9, <1>10

-----------------------------------------------------------------------------
(* The calls on the stack: ttywriteraw for a key or paste, if one is being *)
(* written; above it the twrite of a ttyread; above that the ttywriteraw   *)
(* of the reply to a request. *)
Frame == [call : {"ttywriteraw", "twrite"}, rest : Seq(Byte), lim : Nat,
          at : {"", "select", "write", "read"}, left : Nat, reads : {0, 1}, n : Nat, len : Nat]

Sends(s)     == s # <<>> /\ s[1].call = "ttywriteraw"
ReadAt(s)    == IF Sends(s) THEN 2 ELSE 1
Rest(s)      == IF Sends(s) THEN s[1].rest ELSE <<>>
Unread(s, b) == IF Len(s) >= ReadAt(s) THEN SubSeq(b, s[ReadAt(s)].n, Len(b)) ELSE <<>>
Asked(s)     == IF Len(s) > ReadAt(s) THEN 1 ELSE 0

Sending(f) == /\ f.call = "ttywriteraw" /\ f.rest # <<>> /\ f.lim # 0
              /\ f.at \in {"select", "write", "read"}
              /\ f.at = "write" => f.left \in 1..Len(f.rest)
Reading(f, b) == f.call = "twrite" /\ f.len = Len(b) /\ f.n \in 1..(Len(b) + 1)
Ahead(f, b) == SubSeq(b, f.n, Len(b))
Replying(f) == /\ f.call = "ttywriteraw" /\ f.rest = <<Reply>> /\ f.lim = LIM
               /\ f.at \in {"select", "write"}
               /\ f.at = "write" => f.left = 1

CallsNest(s, b, u) ==
    /\ Len(s) <= ReadAt(s) + 1
    /\ Sends(s) => Sending(s[1])
    /\ Len(s) >= ReadAt(s) => Reading(s[ReadAt(s)], b)
    /\ Len(s) > ReadAt(s) => "query" \in u /\ Replying(s[ReadAt(s) + 1])
    /\ Len(s) < ReadAt(s) => b = <<>>

LEMMA FrontOf ==
    ASSUME NEW S, NEW s \in Seq(S), s # <<>>
    PROVE  /\ Front(s) \in Seq(S) /\ Len(Front(s)) = Len(s) - 1 /\ Len(s) \in Nat \ {0}
           /\ \A i \in 1..(Len(s) - 1) : Front(s)[i] = s[i]
           /\ Last(s) \in S /\ Last(s) = s[Len(s)]
<1>1. Len(s) \in Nat \ {0}
  OBVIOUS
<1>2. Front(s) = SubSeq(s, 1, Len(s) - 1) /\ Last(s) = s[Len(s)] /\ s[Len(s)] \in S
  BY <1>1 DEF Front, Last
<1>3. /\ SubSeq(s, 1, Len(s) - 1) \in Seq(S)
      /\ Len(SubSeq(s, 1, Len(s) - 1)) = Len(s) - 1
      /\ \A i \in 1..(Len(s) - 1) : SubSeq(s, 1, Len(s) - 1)[i] = s[i]
  <2>1. PICK n \in Nat : n = Len(s) - 1 /\ n + 1 = Len(s)
    BY <1>1
  <2>2. \A i \in 1..n : s[i] \in S
    BY <2>1
  <2>3. /\ SubSeq(s, 1, n) \in Seq(S) /\ Len(SubSeq(s, 1, n)) = IF 1 <= n THEN n - 1 + 1 ELSE 0
        /\ \A i \in 1..(n - 1 + 1) : SubSeq(s, 1, n)[i] = s[1 + i - 1]
    BY <2>2, SubSeqProperties
  <2>4. Len(SubSeq(s, 1, n)) = n /\ \A i \in 1..n : SubSeq(s, 1, n)[i] = s[i]
    BY <2>3
  <2> QED
    BY <2>1, <2>3, <2>4
<1> QED
  BY <1>1, <1>2, <1>3

LEMMA LastReplaced ==
    ASSUME NEW S, NEW s \in Seq(S), s # <<>>, NEW g \in S
    PROVE  LET r == Append(Front(s), g)
           IN  /\ r \in Seq(S) /\ Len(r) = Len(s) /\ r # <<>> /\ r[Len(s)] = g
               /\ \A i \in 1..(Len(s) - 1) : r[i] = s[i]
<1>1. PICK f \in Seq(S) : f = Front(s)
  BY FrontOf
<1>2. Len(f) = Len(s) - 1 /\ Len(s) \in Nat \ {0} /\ \A i \in 1..(Len(s) - 1) : f[i] = s[i]
  BY <1>1, FrontOf
<1>3. /\ Append(f, g) \in Seq(S) /\ Len(Append(f, g)) = Len(f) + 1 /\ Append(f, g) # <<>>
      /\ Append(f, g)[Len(f) + 1] = g
      /\ \A i \in 1..Len(f) : Append(f, g)[i] = f[i]
  BY AppendProperties
<1> QED
  BY <1>1, <1>2, <1>3

LEMMA FrameReplaced ==
    \A s \in Seq(Frame), g \in Frame : s # <<>> =>
        LET r == Append(Front(s), g)
        IN  /\ r \in Seq(Frame) /\ Len(r) = Len(s) /\ r # <<>> /\ r[Len(s)] = g
            /\ \A i \in 1..(Len(s) - 1) : r[i] = s[i]
BY LastReplaced

LEMMA OneFrame ==
    \A g \in Frame : <<g>> \in Seq(Frame) /\ Len(<<g>>) = 1 /\ <<g>>[1] = g /\ <<g>> # <<>>
OBVIOUS

LEMMA TwoFrames ==
    \A g, h \in Frame : LET s == Append(<<g>>, h)
                        IN  s \in Seq(Frame) /\ Len(s) = 2 /\ s[1] = g /\ s[2] = h /\ s # <<>>
<1> TAKE g, h \in Frame
<1>1. <<g>> \in Seq(Frame) /\ Len(<<g>>) = 1 /\ <<g>>[1] = g
  BY OneFrame
<1> QED
  BY <1>1, AppendProperties

(* Which call is on top. *)
LEMMA TopCall ==
    ASSUME NEW s \in Seq(Frame), NEW b \in Seq(Byte), NEW u, CallsNest(s, b, u), s # <<>>
    PROVE  /\ Last(s) \in Frame
           /\ \/ /\ Sends(s) /\ Len(s) = 1 /\ Sending(Last(s)) /\ b = <<>> /\ Front(s) = <<>>
                 /\ Rest(s) = Last(s).rest /\ Unread(s, b) = <<>> /\ Asked(s) = 0
              \/ /\ Len(s) = ReadAt(s) /\ Reading(Last(s), b)
                 /\ Unread(s, b) = SubSeq(b, Last(s).n, Len(b)) /\ Asked(s) = 0
              \/ /\ Len(s) = ReadAt(s) + 1 /\ Replying(Last(s)) /\ "query" \in u /\ Asked(s) = 1
<1>1. Len(s) \in Nat \ {0} /\ Last(s) \in Frame /\ Last(s) = s[Len(s)]
      /\ Front(s) \in Seq(Frame) /\ Len(Front(s)) = Len(s) - 1
  BY FrontOf
<1>2. ReadAt(s) \in {1, 2} /\ (ReadAt(s) = 2 <=> Sends(s))
  BY DEF ReadAt
<1>3. Len(s) < ReadAt(s) \/ Len(s) = ReadAt(s) \/ Len(s) = ReadAt(s) + 1
  BY <1>1, <1>2 DEF CallsNest
<1>4. CASE Len(s) < ReadAt(s)
  <2>1. Len(s) = 1 /\ Sends(s) /\ Last(s) = s[1]
    BY <1>1, <1>2, <1>4
  <2>2. Front(s) = <<>>
    BY <1>1, <2>1
  <2>3. Sending(Last(s)) /\ b = <<>> /\ Rest(s) = Last(s).rest
    BY <1>4, <2>1 DEF CallsNest, Rest
  <2>4. Unread(s, b) = <<>> /\ Asked(s) = 0
    <3>1. ~(Len(s) >= ReadAt(s)) /\ ~(Len(s) > ReadAt(s))
      BY <1>1, <1>2, <1>4
    <3> QED
      BY <3>1 DEF Unread, Asked
  <2> QED
    BY <1>1, <2>1, <2>2, <2>3, <2>4
<1>5. CASE Len(s) = ReadAt(s)
  <2>1. Len(s) >= ReadAt(s) /\ ~(Len(s) > ReadAt(s))
    BY <1>1, <1>2, <1>5
  <2>2. Reading(Last(s), b)
    BY <1>1, <1>5, <2>1 DEF CallsNest
  <2>3. Unread(s, b) = SubSeq(b, Last(s).n, Len(b)) /\ Asked(s) = 0
    BY <1>1, <1>5, <2>1 DEF Unread, Asked
  <2> QED
    BY <1>1, <1>5, <2>2, <2>3
<1>6. CASE Len(s) = ReadAt(s) + 1
  <2>1. Len(s) > ReadAt(s)
    BY <1>1, <1>2, <1>6
  <2>2. Replying(Last(s)) /\ "query" \in u /\ Asked(s) = 1
    BY <1>1, <1>6, <2>1 DEF CallsNest, Asked
  <2> QED
    BY <1>1, <1>6, <2>2
<1> QED
  BY <1>3, <1>4, <1>5, <1>6

(* What the stack is with these calls on it. *)
LEMMA NoCall ==
    ASSUME NEW u
    PROVE  CallsNest(<<>>, <<>>, u) /\ Rest(<<>>) = <<>> /\ Unread(<<>>, <<>>) = <<>> /\ Asked(<<>>) = 0
BY DEF CallsNest, Rest, Unread, Asked, ReadAt, Sends

LEMMA OneSends ==
    ASSUME NEW g \in Frame, Sending(g), NEW u
    PROVE  /\ CallsNest(<<g>>, <<>>, u) /\ <<g>> \in Seq(Frame)
           /\ Rest(<<g>>) = g.rest /\ Unread(<<g>>, <<>>) = <<>> /\ Asked(<<g>>) = 0
<1>1. PICK s \in Seq(Frame) : s = <<g>> /\ Len(s) = 1 /\ s[1] = g /\ s # <<>>
  BY OneFrame
<1>2. Sends(s) /\ ReadAt(s) = 2
  BY <1>1 DEF Sends, Sending, ReadAt
<1>3. CallsNest(s, <<>>, u) /\ Rest(s) = g.rest /\ Unread(s, <<>>) = <<>> /\ Asked(s) = 0
  BY <1>1, <1>2 DEF CallsNest, Rest, Unread, Asked
<1> QED
  BY <1>1, <1>3

LEMMA TwriteReads ==
    ASSUME NEW b \in Seq(Byte)
    PROVE  /\ Twrite(Len(b)) \in Frame /\ Reading(Twrite(Len(b)), b)
           /\ SubSeq(b, Twrite(Len(b)).n, Len(b)) = b
<1>1. Len(b) \in Nat
  OBVIOUS
<1>2. <<>> \in Seq(Byte)
  OBVIOUS
<1> QED
  BY <1>1, <1>2 DEF Twrite, Frame, Reading

LEMMA OneReads ==
    ASSUME NEW b \in Seq(Byte), NEW u
    PROVE  LET s == <<Twrite(Len(b))>>
           IN  /\ CallsNest(s, b, u) /\ s \in Seq(Frame)
               /\ Rest(s) = <<>> /\ Unread(s, b) = b /\ Asked(s) = 0
<1>1. PICK g \in Frame : g = Twrite(Len(b)) /\ Reading(g, b) /\ SubSeq(b, g.n, Len(b)) = b
  BY TwriteReads
<1>2. PICK s \in Seq(Frame) : s = <<g>> /\ Len(s) = 1 /\ s[1] = g /\ s # <<>>
  BY OneFrame
<1>3. ~Sends(s) /\ ReadAt(s) = 1
  BY <1>1, <1>2 DEF Sends, Reading, ReadAt
<1>4. CallsNest(s, b, u) /\ Rest(s) = <<>> /\ Unread(s, b) = b /\ Asked(s) = 0
  BY <1>1, <1>2, <1>3 DEF CallsNest, Rest, Unread, Asked
<1> QED
  BY <1>1, <1>2, <1>4

(* ttyread from within ttywriteraw. *)
LEMMA SendsAndReads ==
    ASSUME NEW g \in Frame, Sending(g), NEW b \in Seq(Byte), NEW u
    PROVE  LET s == Append(<<g>>, Twrite(Len(b)))
           IN  /\ CallsNest(s, b, u) /\ s \in Seq(Frame)
               /\ Rest(s) = g.rest /\ Unread(s, b) = b /\ Asked(s) = 0
<1>1. PICK h \in Frame : h = Twrite(Len(b)) /\ Reading(h, b) /\ SubSeq(b, h.n, Len(b)) = b
  BY TwriteReads
<1>2. PICK s \in Seq(Frame) : s = Append(<<g>>, h) /\ Len(s) = 2 /\ s[1] = g /\ s[2] = h /\ s # <<>>
  BY TwoFrames
<1>3. Sends(s) /\ ReadAt(s) = 2
  BY <1>1, <1>2 DEF Sends, Sending, ReadAt
<1>4. CallsNest(s, b, u) /\ Rest(s) = g.rest /\ Unread(s, b) = b /\ Asked(s) = 0
  BY <1>1, <1>2, <1>3 DEF CallsNest, Rest, Unread, Asked
<1> QED
  BY <1>1, <1>2, <1>4

(* twrite goes on, asks for a reply, ends. *)
LEMMA ReadsOn ==
    ASSUME NEW s \in Seq(Frame), s # <<>>, NEW b \in Seq(Byte), NEW u, CallsNest(s, b, u),
           Len(s) = ReadAt(s), NEW g \in Frame, Reading(g, b), NEW r, r = Append(Front(s), g)
    PROVE  /\ CallsNest(r, b, u) /\ r \in Seq(Frame) /\ r # <<>> /\ Len(r) = ReadAt(r)
           /\ Rest(r) = Rest(s) /\ Unread(r, b) = Ahead(g, b) /\ Asked(r) = 0
<1>1. /\ r \in Seq(Frame) /\ Len(r) = Len(s) /\ r # <<>> /\ r[Len(s)] = g
      /\ \A i \in 1..(Len(s) - 1) : r[i] = s[i]
  BY FrameReplaced
<1>2. PICK k \in {1, 2} : k = Len(s) /\ k = Len(r) /\ k = ReadAt(s)
  BY <1>1 DEF ReadAt
<1>3. Reading(s[k], b)
  BY <1>2 DEF CallsNest
<1>4. (Sends(r) <=> Sends(s)) /\ (Sends(s) => r[1] = s[1])
  <2>1. CASE k = 1
    BY <1>1, <1>2, <1>3, <2>1 DEF Sends, Reading
  <2>2. CASE k = 2
    BY <1>1, <1>2, <2>2 DEF Sends
  <2> QED
    BY <2>1, <2>2
<1>5. ReadAt(r) = k /\ r[k] = g /\ Rest(r) = Rest(s)
  BY <1>1, <1>2, <1>4 DEF ReadAt, Rest
<1>6. CallsNest(r, b, u)
  BY <1>2, <1>4, <1>5 DEF CallsNest
<1>7. Unread(r, b) = Ahead(g, b) /\ Asked(r) = 0
  <2>1. Len(r) >= ReadAt(r) /\ ~(Len(r) > ReadAt(r)) /\ r[ReadAt(r)] = g
    BY <1>2, <1>5
  <2> QED
    BY <2>1 DEF Unread, Asked, Ahead
<1> QED
  BY <1>1, <1>2, <1>5, <1>6, <1>7

LEMMA ReadsAndReplies ==
    ASSUME NEW s \in Seq(Frame), s # <<>>, NEW b \in Seq(Byte), NEW u, CallsNest(s, b, u),
           Len(s) = ReadAt(s), "query" \in u, NEW r, r = Append(s, WriteRaw(<<Reply>>))
    PROVE  /\ CallsNest(r, b, u) /\ r \in Seq(Frame)
           /\ Rest(r) = Rest(s) /\ Unread(r, b) = Unread(s, b) /\ Asked(r) = 1
<1>1. PICK g \in Frame : g = WriteRaw(<<Reply>>) /\ Replying(g)
  <2>1. <<Reply>> \in Seq(Byte) /\ LIM \in Nat
    BY TtyAssumption DEF Reply, Byte
  <2>2. WriteRaw(<<Reply>>) \in Frame
    BY <2>1 DEF WriteRaw, Frame
  <2>3. Replying(WriteRaw(<<Reply>>))
    BY DEF WriteRaw, Replying
  <2> QED
    BY <2>2, <2>3
<1>2. /\ r \in Seq(Frame) /\ r # <<>> /\ Len(r) = Len(s) + 1 /\ r[Len(s) + 1] = g
      /\ \A i \in 1..Len(s) : r[i] = s[i]
  BY <1>1, AppendProperties
<1>3. PICK k \in {1, 2} : k = Len(s) /\ Len(r) = k + 1 /\ k = ReadAt(s)
  BY <1>2 DEF ReadAt
<1>4. r[1] = s[1] /\ r[k] = s[k] /\ r[k + 1] = g
  BY <1>2, <1>3
<1>5. (Sends(r) <=> Sends(s)) /\ ReadAt(r) = k /\ Rest(r) = Rest(s)
  BY <1>2, <1>3, <1>4 DEF Sends, ReadAt, Rest
<1>6. CallsNest(r, b, u)
  BY <1>1, <1>3, <1>4, <1>5 DEF CallsNest
<1>7. Unread(r, b) = Unread(s, b) /\ Asked(r) = 1
  BY <1>3, <1>4, <1>5 DEF Unread, Asked
<1> QED
  BY <1>2, <1>5, <1>6, <1>7

LEMMA ReadsNoMore ==
    ASSUME NEW s \in Seq(Frame), s # <<>>, NEW b \in Seq(Byte), NEW u, CallsNest(s, b, u),
           Len(s) = ReadAt(s), NEW r, r = Front(s)
    PROVE  /\ CallsNest(r, <<>>, u) /\ r \in Seq(Frame)
           /\ Rest(r) = Rest(s) /\ Unread(r, <<>>) = <<>> /\ Asked(r) = 0
<1>1. /\ r \in Seq(Frame) /\ Len(r) = Len(s) - 1 /\ Len(s) \in Nat \ {0}
      /\ \A i \in 1..(Len(s) - 1) : r[i] = s[i]
  BY FrontOf
<1>2. PICK k \in {1, 2} : k = Len(s) /\ Len(r) = k - 1 /\ k = ReadAt(s)
  BY <1>1 DEF ReadAt
<1>3. CASE k = 1
  <2>1. r = <<>> /\ ~Sends(s)
    BY <1>1, <1>2, <1>3 DEF ReadAt
  <2> QED
    BY <1>1, <2>1, NoCall DEF Rest
<1>4. CASE k = 2
  <2>1. Sends(s) /\ Sending(s[1]) /\ r[1] = s[1] /\ Len(r) = 1 /\ r # <<>>
    BY <1>1, <1>2, <1>4 DEF ReadAt, CallsNest
  <2>2. Sends(r) /\ ReadAt(r) = 2 /\ Rest(r) = Rest(s)
    BY <2>1 DEF Sends, ReadAt, Rest
  <2>3. CallsNest(r, <<>>, u) /\ Unread(r, <<>>) = <<>> /\ Asked(r) = 0
    BY <2>1, <2>2 DEF CallsNest, Unread, Asked
  <2> QED
    BY <1>1, <2>2, <2>3
<1> QED
  BY <1>3, <1>4

(* The reply is written, and then it is. *)
LEMMA RepliesOn ==
    ASSUME NEW s \in Seq(Frame), s # <<>>, NEW b \in Seq(Byte), NEW u, CallsNest(s, b, u),
           Len(s) = ReadAt(s) + 1, NEW g \in Frame, Replying(g), NEW r, r = Append(Front(s), g)
    PROVE  /\ CallsNest(r, b, u) /\ r \in Seq(Frame)
           /\ Rest(r) = Rest(s) /\ Unread(r, b) = Unread(s, b) /\ Asked(r) = 1
<1>1. /\ r \in Seq(Frame) /\ Len(r) = Len(s) /\ r # <<>> /\ r[Len(s)] = g
      /\ \A i \in 1..(Len(s) - 1) : r[i] = s[i]
  BY FrameReplaced
<1>2. PICK k \in {1, 2} : Len(s) = k + 1 /\ Len(r) = k + 1 /\ k = ReadAt(s) /\ 1..(Len(s) - 1) = 1..k
  <2>1. PICK k \in {1, 2} : k = ReadAt(s)
    BY DEF ReadAt
  <2>2. Len(s) = k + 1 /\ Len(r) = k + 1
    BY <1>1, <2>1
  <2>3. 1..(Len(s) - 1) = 1..k
    BY <2>2
  <2> QED
    BY <2>1, <2>2, <2>3
<1>3. r[1] = s[1] /\ r[k] = s[k] /\ r[k + 1] = g
  <2>1. 1 \in 1..k /\ k \in 1..k
    OBVIOUS
  <2> QED
    BY <1>1, <1>2, <2>1
<1>4. (Sends(r) <=> Sends(s)) /\ ReadAt(r) = k /\ Rest(r) = Rest(s)
  BY <1>1, <1>2, <1>3 DEF Sends, ReadAt, Rest
<1>5. CallsNest(r, b, u)
  BY <1>2, <1>3, <1>4 DEF CallsNest
<1>6. Unread(r, b) = Unread(s, b) /\ Asked(r) = 1
  <2>1. /\ Len(r) >= ReadAt(r) /\ Len(r) > ReadAt(r) /\ Len(s) >= ReadAt(s)
        /\ r[ReadAt(r)] = s[ReadAt(s)]
    <3>1. k + 1 >= k /\ k + 1 > k
      OBVIOUS
    <3> QED
      BY <1>2, <1>3, <1>4, <3>1
  <2> QED
    BY <2>1 DEF Unread, Asked
<1> QED
  BY <1>1, <1>4, <1>5, <1>6

LEMMA RepliesNoMore ==
    ASSUME NEW s \in Seq(Frame), s # <<>>, NEW b \in Seq(Byte), NEW u, CallsNest(s, b, u),
           Len(s) = ReadAt(s) + 1, NEW r, r = Front(s)
    PROVE  /\ CallsNest(r, b, u) /\ r \in Seq(Frame)
           /\ Rest(r) = Rest(s) /\ Unread(r, b) = Unread(s, b) /\ Asked(r) = 0
<1>1. /\ r \in Seq(Frame) /\ Len(r) = Len(s) - 1
      /\ \A i \in 1..(Len(s) - 1) : r[i] = s[i]
  BY FrontOf
<1>2. PICK k \in {1, 2} : Len(s) = k + 1 /\ Len(r) = k /\ k = ReadAt(s) /\ 1..(Len(s) - 1) = 1..k
  <2>1. PICK k \in {1, 2} : k = ReadAt(s)
    BY DEF ReadAt
  <2>2. Len(s) = k + 1 /\ Len(r) = k
    BY <1>1, <2>1
  <2>3. 1..(Len(s) - 1) = 1..k
    BY <2>2
  <2> QED
    BY <2>1, <2>2, <2>3
<1>3. r[1] = s[1] /\ r[k] = s[k] /\ r # <<>>
  <2>1. 1 \in 1..k /\ k \in 1..k /\ k # 0
    OBVIOUS
  <2>2. r # <<>>
    BY <1>2, <2>1
  <2> QED
    BY <1>1, <1>2, <2>1, <2>2
<1>4. (Sends(r) <=> Sends(s)) /\ ReadAt(r) = k /\ Rest(r) = Rest(s)
  BY <1>2, <1>3 DEF Sends, ReadAt, Rest
<1>5. CallsNest(r, b, u)
  BY <1>2, <1>3, <1>4 DEF CallsNest
<1>6. Unread(r, b) = Unread(s, b) /\ Asked(r) = 0
  BY <1>2, <1>3, <1>4 DEF Unread, Asked
<1> QED
  BY <1>1, <1>4, <1>5, <1>6

-----------------------------------------------------------------------------
(* The invariant.                                                          *)

StState == [stack : Seq(Frame), pc : {"select", "events", "decide"}, buf : Seq(Byte),
            timeout : BOOLEAN, drawing : BOOLEAN, elapsed : Nat, content : BOOLEAN,
            visible : BOOLEAN, dirty : BOOLEAN, fault : BOOLEAN]
XEvent == {e \in [type : {"key", "visible", "obscured"}, bytes : Seq(Byte)] :
              e.type = "key" <=> e.bytes # <<>>}
Taken(x) == IF x = <<>> THEN <<>> ELSE x[1].bytes

TtyTypes ==
    /\ st \in StState
    /\ inq \in Seq(Byte) /\ outq \in Seq(Byte) /\ got \in Seq(Byte) /\ screen \in Seq(Byte)
    /\ xq \in Seq(XEvent) /\ Len(xq) <= 1
    /\ keys \in 0..MaxKeys /\ outs \in 0..MaxOut /\ tuses \in TtyUses

InTransit ==
    /\ ~st.fault
    /\ CallsNest(st.stack, st.buf, tuses)
    /\ ToLine(got, inq, Rest(st.stack), Taken(xq), keys)
    /\ FromLine(screen, Unread(st.stack, st.buf), outq, outs, tuses)
    /\ Answered(got, inq, screen, Asked(st.stack))

IInv == TtyTypes /\ InTransit

(* A program that asks for reports takes them: no behaviour both asks and  *)
(* clogs the line. *)
Roomy == \A u \in TtyUses : "query" \in u => "clog" \notin u

LEMMA PartsAreBytes ==
    ASSUME NEW s \in Seq(Frame), NEW b \in Seq(Byte), NEW u, CallsNest(s, b, u),
           NEW x \in Seq(XEvent)
    PROVE  Rest(s) \in Seq(Byte) /\ Unread(s, b) \in Seq(Byte) /\ Taken(x) \in Seq(Byte)
<1>1. Rest(s) \in Seq(Byte)
  <2>1. CASE Sends(s)
    <3>1. 1 \in 1..Len(s)
      BY <2>1 DEF Sends
    <3>2. s[1] \in Frame
      BY <3>1
    <3> QED
      BY <2>1, <3>2 DEF Rest, Frame
  <2>2. CASE ~Sends(s)
    BY <2>2 DEF Rest
  <2> QED
    BY <2>1, <2>2
<1>2. Unread(s, b) \in Seq(Byte)
  <2>1. CASE Len(s) >= ReadAt(s)
    <3>1. PICK n : n = s[ReadAt(s)].n /\ n \in 1..(Len(b) + 1)
      BY <2>1 DEF CallsNest, Reading
    <3>2. SubSeq(b, n, Len(b)) \in Seq(Byte)
      <4>1. PICK m \in Nat : m = Len(b)
        OBVIOUS
      <4>2. \A i \in n..m : b[i] \in Byte
        BY <3>1, <4>1
      <4>3. n \in Int /\ m \in Int
        BY <3>1, <4>1
      <4>4. SubSeq(b, n, m) \in Seq(Byte)
        BY <4>2, <4>3, SubSeqProperties
      <4> QED
        BY <4>1, <4>4
    <3> QED
      BY <2>1, <3>1, <3>2 DEF Unread
  <2>2. CASE ~(Len(s) >= ReadAt(s))
    BY <2>2 DEF Unread
  <2> QED
    BY <2>1, <2>2
<1>3. Taken(x) \in Seq(Byte)
  <2>1. CASE x = <<>>
    BY <2>1 DEF Taken
  <2>2. CASE x # <<>>
    <3>1. x[1] \in XEvent
      BY <2>2
    <3> QED
      BY <2>2, <3>1 DEF Taken, XEvent
  <2> QED
    BY <2>1, <2>2
<1> QED
  BY <1>1, <1>2, <1>3

LEMMA InTransitParts ==
    ASSUME IInv
    PROVE  /\ st.stack \in Seq(Frame) /\ st.buf \in Seq(Byte)
           /\ Rest(st.stack) \in Seq(Byte) /\ Unread(st.stack, st.buf) \in Seq(Byte)
           /\ Taken(xq) \in Seq(Byte) /\ Asked(st.stack) \in {0, 1}
<1>1. st.stack \in Seq(Frame) /\ st.buf \in Seq(Byte) /\ xq \in Seq(XEvent)
  BY DEF IInv, TtyTypes, StState
<1>2. CallsNest(st.stack, st.buf, tuses)
  BY DEF IInv, InTransit
<1>3. Asked(st.stack) \in {0, 1}
  BY DEF Asked
<1> QED
  BY <1>1, <1>2, <1>3, PartsAreBytes

LEMMA TtyInit == Init => IInv
<1> SUFFICES ASSUME Init PROVE IInv
  OBVIOUS
<1>1. /\ st.stack = <<>> /\ st.buf = <<>> /\ ~st.fault
      /\ inq = <<>> /\ outq = <<>> /\ xq = <<>> /\ got = <<>> /\ screen = <<>>
      /\ keys = 0 /\ outs = 0
  BY DEF Init
<1>2. TtyTypes
  <2>1. <<>> \in Seq(Frame) /\ <<>> \in Seq(Byte) /\ <<>> \in Seq(XEvent) /\ Len(<<>>) <= 1
    OBVIOUS
  <2>2. st \in StState
    BY <2>1 DEF Init, StState
  <2>3. keys \in 0..MaxKeys /\ outs \in 0..MaxOut /\ tuses \in TtyUses
    BY <1>1, TtyAssumption DEF Init
  <2> QED
    BY <1>1, <2>1, <2>2, <2>3 DEF TtyTypes
<1>3. \A kinds : Count(<<>>, kinds) = 0 /\ Counted(<<>>, kinds) /\ Only(<<>>, kinds)
  <2> TAKE kinds
  <2>1. Len(<<>>) = 0 /\ 0 \in Nat /\ DOMAIN <<>> = {}
    OBVIOUS
  <2>2. Upto(<<>>, 0, kinds) = 0
    BY <2>1, UptoStep
  <2> QED
    BY <2>1, <2>2 DEF Count, Counted, Only
<1>4. <<>> \o <<>> = <<>> /\ Taken(<<>>) = <<>>
  BY DEF Taken
<1>5. InTransit
  <2>1. ToLine(<<>>, <<>>, <<>>, <<>>, 0)
    BY <1>3, <1>4 DEF ToLine
  <2>2. FromLine(<<>>, <<>>, <<>>, 0, tuses)
    BY <1>3, <1>4 DEF FromLine
  <2>3. Answered(<<>>, <<>>, <<>>, 0)
    <3>1. Count(<<>>, {"reply"}) = 0 /\ Count(<<>>, {"query"}) = 0
      BY <1>3
    <3> QED
      BY <1>4, <3>1 DEF Answered
  <2> QED
    BY <1>1, <1>4, <2>1, <2>2, <2>3, NoCall DEF InTransit
<1> QED
  BY <1>2, <1>5 DEF IInv

(* A step that leaves the calls and the lines alone. *)
LEMMA LinesAlone ==
    ASSUME IInv, TtyTypes', st'.stack = st.stack, st'.buf = st.buf, st'.fault = st.fault,
           UNCHANGED <<inq, outq, keys, outs, got, screen, tuses>>, Taken(xq') = Taken(xq)
    PROVE  IInv'
<1>1. InTransit
  BY DEF IInv
<1>2. InTransit'
  BY <1>1 DEF InTransit
<1> QED
  BY <1>2 DEF IInv

LEMMA DecideKeeps ==
    ASSUME IInv, Decide
    PROVE  IInv'
<1>1. st \in StState
  BY DEF IInv, TtyTypes
<1> DEFINE elapsed == IF st.drawing THEN st.elapsed ELSE 0
           wait == st.content /\ elapsed < MAXLATENCY
           dirty == IF wait THEN st.dirty ELSE st.dirty /\ ~st.visible
<1>2. st' = [st EXCEPT !.pc = "select", !.timeout = wait, !.drawing = wait,
                       !.elapsed = IF wait THEN elapsed ELSE 0, !.dirty = dirty]
  BY DEF Decide
<1>3. elapsed \in Nat
  BY <1>1 DEF StState
<1>4. wait \in BOOLEAN /\ dirty \in BOOLEAN
  BY <1>1 DEF StState
<1> HIDE DEF elapsed, wait, dirty
<1>5. (IF wait THEN elapsed ELSE 0) \in Nat
  BY <1>3
<1>6. st' \in StState /\ st'.stack = st.stack /\ st'.buf = st.buf /\ st'.fault = st.fault
  BY <1>1, <1>2, <1>4, <1>5 DEF StState
<1>7. UNCHANGED <<inq, outq, xq, keys, outs, got, screen, echoing, tuses>>
  BY DEF Decide
<1>8. TtyTypes'
  BY <1>6, <1>7 DEF IInv, TtyTypes
<1> QED
  BY <1>6, <1>7, <1>8, LinesAlone

LEMMA TickKeeps ==
    ASSUME IInv, Tick
    PROVE  IInv'
<1>1. st \in StState /\ st' = [st EXCEPT !.elapsed = @ + 1]
      /\ UNCHANGED <<inq, outq, xq, keys, outs, got, screen, echoing, tuses>>
  BY DEF IInv, TtyTypes, Tick
<1>2. st' \in StState /\ st'.stack = st.stack /\ st'.buf = st.buf /\ st'.fault = st.fault
  BY <1>1, SMTT(30) DEF StState
<1>3. TtyTypes'
  BY <1>1, <1>2 DEF IInv, TtyTypes
<1> QED
  BY <1>1, <1>2, <1>3, LinesAlone

LEMMA VisibilityKeeps ==
    ASSUME IInv, Visibility
    PROVE  IInv'
<1>1. xq = <<>> /\ UNCHANGED <<st, inq, outq, keys, outs, got, screen, tuses>>
  BY DEF Visibility
<1>2. PICK e : xq' = <<e>> /\ e = [type |-> IF st.visible THEN "obscured" ELSE "visible", bytes |-> <<>>]
  BY DEF Visibility
<1>3. e \in XEvent /\ e.bytes = <<>>
  <2>1. <<>> \in Seq(Byte) /\ e.type # "key" /\ e.bytes = <<>> /\ e.type \in {"visible", "obscured"}
    BY <1>2
  <2> QED
    BY <1>2, <2>1 DEF XEvent
<1>4. <<e>> \in Seq(XEvent) /\ Len(<<e>>) = 1 /\ <<e>>[1] = e /\ <<e>> # <<>>
  BY <1>3
<1>5. TtyTypes'
  BY <1>1, <1>2, <1>4 DEF IInv, TtyTypes
<1>6. Taken(xq') = Taken(xq)
  BY <1>1, <1>2, <1>3, <1>4 DEF Taken
<1>7. st'.stack = st.stack /\ st'.buf = st.buf /\ st'.fault = st.fault
  BY <1>1
<1> QED
  BY <1>1, <1>5, <1>6, <1>7, LinesAlone

LEMMA TypeKeeps ==
    ASSUME IInv, Type
    PROVE  IInv'
<1>1. xq = <<>> /\ UNCHANGED <<st, inq, outq, outs, got, screen, tuses>>
  BY DEF Type
<1>2. PICK n \in 1..MaxPaste :
          /\ keys + n <= MaxKeys /\ keys' = keys + n
          /\ xq' = <<[type |-> "key", bytes |-> [k \in 1..n |-> Key(keys + k)]]>>
  BY DEF Type
<1>3. keys \in Nat /\ n \in Nat /\ n # 0
  BY <1>2, TtyAssumption DEF IInv, TtyTypes
<1>4. PICK b : b = [k \in 1..n |-> Key(keys + k)]
  OBVIOUS
<1>5. b \in Seq(Byte) /\ b # <<>>
  <2>1. b \in [1..n -> Byte]
    BY <1>3, <1>4 DEF Key, Byte
  <2>2. b \in Seq(Byte) /\ Len(b) = n
    BY <1>3, <2>1, FunctionIsSeq
  <2> QED
    BY <1>3, <2>2
<1>6. PICK e \in XEvent : e = [type |-> "key", bytes |-> b] /\ e.bytes = b
  <2>1. PICK e : e = [type |-> "key", bytes |-> b]
    OBVIOUS
  <2>2. e \in [type : {"key", "visible", "obscured"}, bytes : Seq(Byte)]
    BY <1>5, <2>1
  <2>3. e.type = "key" /\ e.bytes = b
    BY <2>1
  <2>4. e \in XEvent
    BY <1>5, <2>2, <2>3 DEF XEvent
  <2> QED
    BY <2>1, <2>3, <2>4
<1>7. xq' = <<e>> /\ <<e>> \in Seq(XEvent) /\ Len(<<e>>) = 1 /\ <<e>>[1] = e /\ <<e>> # <<>>
  BY <1>2, <1>4, <1>6
<1>8. TtyTypes'
  BY <1>1, <1>2, <1>3, <1>7 DEF IInv, TtyTypes
<1>9. Taken(xq) = <<>> /\ Taken(xq') = b
  BY <1>1, <1>6, <1>7 DEF Taken
<1>10. got \in Seq(Byte) /\ inq \in Seq(Byte) /\ Rest(st.stack) \in Seq(Byte)
       /\ ToLine(got, inq, Rest(st.stack), <<>>, keys)
  BY <1>9, InTransitParts DEF IInv, TtyTypes, InTransit
<1>11. ToLine(got, inq, Rest(st.stack), b, keys + n)
  BY <1>3, <1>4, <1>10, KeysTyped
<1>12. InTransit'
  <2>1. InTransit
    BY DEF IInv
  <2> QED
    BY <1>1, <1>2, <1>9, <1>11, <2>1 DEF InTransit
<1> QED
  BY <1>8, <1>12 DEF IInv

LEMMA ProgramReadsKeeps ==
    ASSUME IInv, ProgramReads
    PROVE  IInv'
<1>1. /\ inq # <<>> /\ inq' = Tail(inq) /\ got' = Append(got, Head(inq))
      /\ UNCHANGED <<st, outq, xq, keys, outs, screen, tuses>>
  BY DEF ProgramReads
<1>2. got \in Seq(Byte) /\ inq \in Seq(Byte)
  BY DEF IInv, TtyTypes
<1>3. inq' \in Seq(Byte) /\ got' \in Seq(Byte)
  <2>1. Head(inq) \in Byte /\ Tail(inq) \in Seq(Byte)
    BY <1>1, <1>2, HeadTailProperties
  <2> QED
    BY <1>1, <1>2, <2>1, AppendProperties
<1>4. TtyTypes'
  BY <1>1, <1>3 DEF IInv, TtyTypes
<1>5. PICK p \in Seq(Byte), x \in Seq(Byte), a \in {0, 1} :
         p = Rest(st.stack) /\ x = Taken(xq) /\ a = Asked(st.stack)
  BY InTransitParts
<1>6. ToLine(got, inq, p, x, keys) /\ Answered(got, inq, screen, a)
  BY <1>5 DEF IInv, InTransit
<1>7. ToLine(got', inq', p, x, keys) /\ Answered(got', inq', screen, a)
  BY <1>1, <1>2, <1>6, ByteRead
<1>8. InTransit'
  <2>1. InTransit
    BY DEF IInv
  <2> QED
    BY <1>1, <1>5, <1>7, <2>1 DEF InTransit
<1> QED
  BY <1>4, <1>8 DEF IInv

LEMMA ProgramWritesKeeps ==
    ASSUME IInv, ProgramWrites
    PROVE  IInv'
<1>1. UNCHANGED <<st, inq, xq, keys, got, screen, tuses>>
  BY DEF ProgramWrites
<1>2. outs \in Nat /\ outs <= MaxOut
  BY DEF IInv, TtyTypes
<1>3. PICK x \in Byte :
         /\ outq' = Append(outq, x) /\ x[1] \in FromProgram(tuses)
         /\ x[1] \in Numbering => x[2] = outs + 1
         /\ outs' = IF x[1] \in Numbering THEN outs + 1 ELSE outs
         /\ outs' <= MaxOut
  <2>0. MaxOut \in Nat
    BY TtyAssumption
  <2>1. CASE outs < MaxOut /\ outs' = outs + 1 /\ outq' = Append(outq, Text(outs + 1))
    <3>1. Text(outs + 1) = <<"text", outs + 1>> /\ <<"text", outs + 1>> \in Byte
          /\ "text" \in FromProgram(tuses) /\ "text" \in Numbering
      BY <1>2 DEF Text, Byte, FromProgram, Numbering
    <3> QED
      BY <1>2, <2>0, <2>1, <3>1
  <2>2. CASE "query" \in tuses /\ outs < MaxOut /\ outs' = outs + 1 /\ outq' = Append(outq, Query(outs + 1))
    <3>1. Query(outs + 1) = <<"query", outs + 1>> /\ <<"query", outs + 1>> \in Byte
          /\ "query" \in FromProgram(tuses) /\ "query" \in Numbering
      BY <1>2, <2>2 DEF Query, Byte, FromProgram, Numbering
    <3> QED
      BY <1>2, <2>0, <2>2, <3>1
  <2>3. CASE outs' = outs /\ outq' = Append(outq, Flood)
    <3>1. Flood = <<"flood", 0>> /\ <<"flood", 0>> \in Byte
          /\ "flood" \in FromProgram(tuses) /\ "flood" \notin Numbering
      BY DEF Flood, Byte, FromProgram, Numbering
    <3> QED
      BY <1>2, <2>0, <2>3, <3>1
  <2> QED
    BY <2>1, <2>2, <2>3 DEF ProgramWrites
<1>4. outq \in Seq(Byte) /\ screen \in Seq(Byte)
  BY DEF IInv, TtyTypes
<1>5. outq' \in Seq(Byte)
  BY <1>3, <1>4, AppendProperties
<1>6. outs' \in 0..MaxOut
  BY <1>2, <1>3, TtyAssumption
<1>7. TtyTypes'
  BY <1>1, <1>5, <1>6 DEF IInv, TtyTypes
<1>8. PICK r \in Seq(Byte) : r = Unread(st.stack, st.buf)
  BY InTransitParts
<1>9. FromLine(screen, r, outq, outs, tuses)
  BY <1>8 DEF IInv, InTransit
<1>10. FromLine(screen, r, outq', outs', tuses)
  BY <1>3, <1>4, <1>9, ByteWritten
<1>11. InTransit'
  <2>1. InTransit
    BY DEF IInv
  <2> QED
    BY <1>1, <1>8, <1>10, <2>1 DEF InTransit
<1> QED
  BY <1>7, <1>11 DEF IInv

LEMMA TailOfOne ==
    ASSUME NEW S, NEW s \in Seq(S), s # <<>>, Len(s) <= 1
    PROVE  Tail(s) = <<>>
<1>1. PICK r \in Seq(S) : r = Tail(s) /\ Len(r) = Len(s) - 1
  BY HeadTailProperties
<1>2. Len(s) \in Nat \ {0}
  OBVIOUS
<1>3. PICK n \in Nat \ {0} : n = Len(s) /\ n <= 1
  BY <1>2
<1>4. Len(r) = 0
  <2>1. n = 1
    BY <1>3
  <2> QED
    BY <1>1, <1>3, <2>1
<1>5. r = <<>>
  BY <1>4
<1> QED
  BY <1>1, <1>5

(* run takes output, or nothing, or an event.                              *)
LEMMA SelectKeeps ==
    ASSUME IInv, Select
    PROVE  IInv'
<1>1. st \in StState /\ outq \in Seq(Byte) /\ screen \in Seq(Byte) /\ InTransit
  BY DEF IInv, TtyTypes
<1>2. st.stack = <<>> /\ UNCHANGED <<inq, xq, keys, outs, got, screen, echoing, tuses>>
  BY DEF Select, Idle
<1>3. Len(st.stack) < ReadAt(st.stack) /\ st.buf = <<>>
  <2>1. Len(<<>>) < ReadAt(<<>>)
    BY DEF ReadAt
  <2> QED
    BY <1>1, <1>2, <2>1 DEF InTransit, CallsNest
<1>4. CASE outq # <<>>
  <2>1. /\ outq' = <<>>
        /\ st' = [st EXCEPT !.pc = "events", !.content = TRUE, !.buf = @ \o outq,
                            !.stack = <<Twrite(Len(st.buf) + Len(outq))>>]
    BY <1>4 DEF Select
  <2>2. st.buf \o outq = outq /\ Len(st.buf) + Len(outq) = Len(outq)
    <3>1. <<>> \o outq = outq /\ Len(<<>>) = 0 /\ Len(outq) \in Nat
      BY <1>1, ConcatEmptySeq
    <3> QED
      BY <1>3, <3>1
  <2>3. PICK s \in Seq(Frame) :
           /\ s = <<Twrite(Len(outq))>> /\ CallsNest(s, outq, tuses)
           /\ Rest(s) = <<>> /\ Unread(s, outq) = outq /\ Asked(s) = 0
    BY <1>1, OneReads
  <2>4. st' = [st EXCEPT !.pc = "events", !.content = TRUE, !.buf = outq, !.stack = s]
    BY <2>1, <2>2, <2>3
  <2>5. st' \in StState /\ st'.stack = s /\ st'.buf = outq /\ st'.fault = st.fault
    BY <1>1, <2>4 DEF StState
  <2>6. TtyTypes'
    <3>1. <<>> \in Seq(Byte)
      OBVIOUS
    <3> QED
      BY <1>2, <2>1, <2>5, <3>1 DEF IInv, TtyTypes
  <2>7. Rest(st.stack) = <<>> /\ Unread(st.stack, st.buf) = <<>> /\ Asked(st.stack) = 0
    BY <1>2, <1>3, NoCall
  <2>8. FromLine(screen, outq, <<>>, outs, tuses)
    BY <1>1, <2>7, OutputRead DEF InTransit
  <2>9. InTransit'
    BY <1>1, <1>2, <2>1, <2>3, <2>5, <2>7, <2>8 DEF InTransit
  <2> QED
    BY <2>6, <2>9 DEF IInv
<1>5. CASE outq = <<>>
  <2>1. st' = [st EXCEPT !.pc = "events", !.content = FALSE] /\ UNCHANGED outq
    BY <1>5 DEF Select
  <2>2. st' \in StState /\ st'.stack = st.stack /\ st'.buf = st.buf /\ st'.fault = st.fault
    BY <1>1, <2>1 DEF StState
  <2>3. TtyTypes'
    BY <1>2, <2>1, <2>2 DEF IInv, TtyTypes
  <2> QED
    BY <1>2, <2>1, <2>2, <2>3, LinesAlone
<1> QED
  BY <1>4, <1>5

LEMMA EventKeeps ==
    ASSUME IInv, Event
    PROVE  IInv'
<1>1. /\ st \in StState /\ got \in Seq(Byte) /\ inq \in Seq(Byte)
      /\ xq \in Seq(XEvent) /\ Len(xq) <= 1 /\ InTransit
  BY DEF IInv, TtyTypes
<1>2. st.stack = <<>> /\ UNCHANGED <<inq, outq, keys, outs, got, screen, echoing, tuses>>
  BY DEF Event, Idle
<1>3. CASE xq = <<>>
  <2>1. st' = [st EXCEPT !.pc = "decide"] /\ UNCHANGED xq
    BY <1>3 DEF Event
  <2>2. st' \in StState /\ st'.stack = st.stack /\ st'.buf = st.buf /\ st'.fault = st.fault
    BY <1>1, <2>1 DEF StState
  <2>3. TtyTypes'
    BY <1>2, <2>1, <2>2 DEF IInv, TtyTypes
  <2> QED
    BY <1>2, <2>1, <2>2, <2>3, LinesAlone
<1>4. CASE xq # <<>>
  <2>1. PICK e \in XEvent : e = Head(xq) /\ e = xq[1]
    BY <1>1, <1>4
  <2>2. xq' = <<>>
    <3>1. Tail(xq) = <<>>
      BY <1>1, <1>4, TailOfOne
    <3> QED
      BY <1>4, <3>1 DEF Event
  <2>3. Taken(xq) = e.bytes /\ Taken(xq') = <<>> /\ e.bytes \in Seq(Byte)
        /\ (e.type = "key" <=> e.bytes # <<>>)
    BY <1>4, <2>1, <2>2 DEF Taken, XEvent
  <2>4. /\ Rest(st.stack) = <<>> /\ Unread(st.stack, st.buf) = <<>> /\ Asked(st.stack) = 0
        /\ st.buf = <<>>
    <3>1. Len(<<>>) < ReadAt(<<>>)
      BY DEF ReadAt
    <3>2. st.buf = <<>>
      BY <1>1, <1>2, <3>1 DEF InTransit, CallsNest
    <3> QED
      BY <1>2, <3>2, NoCall
  <2>5. CASE e.type = "key"
    <3>1. PICK g : g = WriteRaw(e.bytes)
      OBVIOUS
    <3>2. g \in Frame /\ g.rest = e.bytes /\ Sending(g)
      <4>1. LIM \in Nat /\ LIM # 0
        BY TtyAssumption
      <4>2. g \in Frame
        BY <2>3, <3>1, <4>1 DEF WriteRaw, Frame
      <4>3. g.call = "ttywriteraw" /\ g.rest = e.bytes /\ g.lim = LIM /\ g.at = "select"
        BY <3>1 DEF WriteRaw
      <4>4. Sending(g)
        BY <2>3, <2>5, <4>1, <4>3 DEF Sending
      <4> QED
        BY <4>2, <4>3, <4>4
    <3>3. st' = [st EXCEPT !.content = TRUE, !.stack = <<g>>]
      BY <1>4, <2>1, <2>5, <3>1 DEF Event
    <3>4. /\ CallsNest(<<g>>, <<>>, tuses) /\ <<g>> \in Seq(Frame) /\ Rest(<<g>>) = e.bytes
          /\ Unread(<<g>>, <<>>) = <<>> /\ Asked(<<g>>) = 0
      BY <3>2, OneSends
    <3>5. st' \in StState /\ st'.stack = <<g>> /\ st'.buf = st.buf /\ st'.fault = st.fault
      BY <1>1, <3>3, <3>4 DEF StState
    <3>6. TtyTypes'
      <4>1. <<>> \in Seq(XEvent) /\ Len(<<>>) <= 1
        OBVIOUS
      <4> QED
        BY <1>2, <2>2, <3>5, <4>1 DEF IInv, TtyTypes
    <3>7. ToLine(got, inq, e.bytes, <<>>, keys)
      <4>1. PICK b \in Seq(Byte) : b = e.bytes
        BY <2>3
      <4>2. ToLine(got, inq, <<>>, b, keys)
        BY <1>1, <2>3, <2>4, <4>1 DEF InTransit
      <4> QED
        BY <1>1, <4>1, <4>2, KeysTaken
    <3>8. InTransit'
      BY <1>1, <1>2, <2>3, <2>4, <3>4, <3>5, <3>7 DEF InTransit
    <3> QED
      BY <3>6, <3>8 DEF IInv
  <2>6. CASE e.type # "key"
    <3>1. st' = [st EXCEPT !.content = TRUE, !.visible = (e.type = "visible")]
      BY <1>4, <2>1, <2>6 DEF Event
    <3>2. (e.type = "visible") \in BOOLEAN
      OBVIOUS
    <3>3. st' \in StState /\ st'.stack = st.stack /\ st'.buf = st.buf /\ st'.fault = st.fault
      BY <1>1, <3>1, <3>2 DEF StState
    <3>4. TtyTypes'
      <4>1. <<>> \in Seq(XEvent) /\ Len(<<>>) <= 1
        OBVIOUS
      <4> QED
        BY <1>2, <2>2, <3>3, <4>1 DEF IInv, TtyTypes
    <3>5. Taken(xq') = Taken(xq)
      BY <2>3, <2>6
    <3> QED
      BY <1>2, <3>3, <3>4, <3>5, LinesAlone
  <2> QED
    BY <2>5, <2>6
<1> QED
  BY <1>3, <1>4

(* ttywriteraw waits. *)
LEMMA TtyreadFrom ==
    ASSUME IInv, NEW g \in Frame, Sending(g), g.rest = Rest(st.stack),
           st.stack # <<>>, st.buf = <<>>, Unread(st.stack, st.buf) = <<>>, Asked(st.stack) = 0,
           outq # <<>>, outq' = <<>>,
           st' = [st EXCEPT !.buf = @ \o outq,
                            !.stack = Append(<<g>>, Twrite(Len(st.buf) + Len(outq)))],
           UNCHANGED <<inq, xq, keys, outs, got, screen, echoing, tuses>>
    PROVE  IInv'
<1>1. st \in StState /\ outq \in Seq(Byte) /\ screen \in Seq(Byte) /\ InTransit
  BY DEF IInv, TtyTypes
<1>2. st.buf \o outq = outq /\ Len(st.buf) + Len(outq) = Len(outq)
  <2>1. <<>> \o outq = outq /\ Len(<<>>) = 0 /\ Len(outq) \in Nat
    BY <1>1, ConcatEmptySeq
  <2> QED
    BY <2>1
<1>3. PICK s \in Seq(Frame) :
         /\ s = Append(<<g>>, Twrite(Len(outq))) /\ CallsNest(s, outq, tuses)
         /\ Rest(s) = g.rest /\ Unread(s, outq) = outq /\ Asked(s) = 0
  BY <1>1, SendsAndReads
<1>4. st' = [st EXCEPT !.buf = outq, !.stack = s]
  BY <1>2, <1>3
<1>5. st' \in StState /\ st'.stack = s /\ st'.buf = outq /\ st'.fault = st.fault
  BY <1>1, <1>4 DEF StState
<1>6. TtyTypes'
  <2>1. <<>> \in Seq(Byte)
    OBVIOUS
  <2> QED
    BY <1>5, <2>1 DEF IInv, TtyTypes
<1>7. FromLine(screen, outq, <<>>, outs, tuses)
  BY <1>1, OutputRead DEF InTransit
<1>8. InTransit'
  BY <1>1, <1>3, <1>5, <1>7 DEF InTransit
<1> QED
  BY <1>6, <1>8 DEF IInv

(* twrite has processed another byte. *)
LEMMA FrameMoved ==
    ASSUME NEW f \in Frame, NEW k \in Nat
    PROVE  [f EXCEPT !.n = k] \in Frame
  BY DEF Frame

LEMMA LesserOf ==
    ASSUME NEW a \in Nat \ {0}, NEW b \in Nat \ {0}
    PROVE  Lesser(a, b) \in 1..a /\ (a = 1 => Lesser(a, b) = 1)
BY DEF Lesser

LEMMA WriteSelectKeeps ==
    ASSUME IInv, WriteSelect, Roomy
    PROVE  IInv'
<1>1. /\ st \in StState /\ outq \in Seq(Byte) /\ InTransit /\ st.stack \in Seq(Frame)
      /\ st.buf \in Seq(Byte) /\ st.stack # <<>> /\ CallsNest(st.stack, st.buf, tuses)
      /\ UNCHANGED <<inq, xq, keys, outs, got, screen, echoing, tuses>>
  BY DEF IInv, TtyTypes, StState, InTransit, WriteSelect
<1>2. PICK f \in Frame : f = Last(st.stack)
  BY <1>1, TopCall
<1>3. f.call = "ttywriteraw" /\ f.at = "select"
  BY <1>2 DEF WriteSelect, Top
<1>4. f.rest \in Seq(Byte) /\ f.lim \in Nat
  BY DEF Frame
<1>5. \/ Sends(st.stack) /\ Len(st.stack) = 1 /\ Sending(f) /\ st.buf = <<>> /\ Front(st.stack) = <<>>
         /\ Rest(st.stack) = f.rest /\ Unread(st.stack, st.buf) = <<>> /\ Asked(st.stack) = 0
      \/ Len(st.stack) = ReadAt(st.stack) + 1 /\ Replying(f) /\ "query" \in tuses /\ Asked(st.stack) = 1
  BY <1>1, <1>2, <1>3, TopCall DEF Reading
<1>6. f.rest # <<>> /\ f.lim # 0
  <2>1. ASSUME Sending(f) PROVE f.rest # <<>> /\ f.lim # 0
    BY <2>1 DEF Sending
  <2>2. ASSUME Replying(f) PROVE f.rest # <<>> /\ f.lim # 0
    BY <2>2, TtyAssumption DEF Replying
  <2> QED
    BY <1>5, <2>1, <2>2
<1>7. CASE Writable
  <2> DEFINE left == Lesser(Len(f.rest), f.lim)
             reads == IF outq # <<>> THEN 1 ELSE 0
             g == [f EXCEPT !.at = "write", !.left = left, !.reads = reads]
  <2>1. left \in 1..Len(f.rest) /\ left \in Nat /\ (Len(f.rest) = 1 => left = 1) /\ reads \in {0, 1}
    <3>1. PICK n \in Nat \ {0} : n = Len(f.rest)
      BY <1>4, <1>6
    <3>2. Lesser(n, f.lim) \in 1..n /\ (n = 1 => Lesser(n, f.lim) = 1)
      BY <1>4, <1>6, LesserOf
    <3> QED
      BY <3>1, <3>2
  <2>2. st' = [st EXCEPT !.stack = Append(Front(st.stack), g)] /\ UNCHANGED outq
    <3>1. \/ /\ Writable
             /\ st' = [st EXCEPT !.stack = Append(Front(st.stack), g)]
             /\ UNCHANGED outq
          \/ ~Writable
      BY <1>2 DEF WriteSelect, Top, Pop
    <3> QED
      BY <1>7, <3>1
  <2> HIDE DEF left, reads
  <2>3. g \in Frame /\ g.call = f.call /\ g.rest = f.rest /\ g.lim = f.lim /\ g.left = left /\ g.at = "write"
    BY <2>1 DEF Frame
  <2> HIDE DEF g
  <2>4. PICK r \in Seq(Frame) :
           /\ r = Append(Front(st.stack), g) /\ CallsNest(r, st.buf, tuses)
           /\ Rest(r) = Rest(st.stack) /\ Unread(r, st.buf) = Unread(st.stack, st.buf)
           /\ Asked(r) = Asked(st.stack)
    <3>1. CASE Sends(st.stack) /\ Len(st.stack) = 1 /\ Sending(f) /\ st.buf = <<>> /\ Front(st.stack) = <<>>
               /\ Rest(st.stack) = f.rest /\ Unread(st.stack, st.buf) = <<>> /\ Asked(st.stack) = 0
      <4>1. Sending(g)
        BY <2>1, <2>3, <3>1 DEF Sending
      <4>2. Append(Front(st.stack), g) = <<g>>
        BY <3>1
      <4>3. /\ CallsNest(<<g>>, <<>>, tuses) /\ <<g>> \in Seq(Frame) /\ Rest(<<g>>) = g.rest
            /\ Unread(<<g>>, <<>>) = <<>> /\ Asked(<<g>>) = 0
        BY <2>3, <4>1, OneSends
      <4> QED
        BY <2>3, <3>1, <4>2, <4>3
    <3>2. CASE Len(st.stack) = ReadAt(st.stack) + 1 /\ Replying(f) /\ "query" \in tuses /\ Asked(st.stack) = 1
      <4>1. Replying(g)
        <5>1. Len(f.rest) = 1
          BY <3>2 DEF Replying
        <5> QED
          BY <2>1, <2>3, <3>2, <5>1 DEF Replying
      <4>2. PICK s \in Seq(Frame), b \in Seq(Byte), h \in Frame :
               s = st.stack /\ b = st.buf /\ h = g
        BY <1>1, <2>3
      <4>3. PICK r : r = Append(Front(s), h)
        OBVIOUS
      <4>4. s # <<>> /\ CallsNest(s, b, tuses) /\ Len(s) = ReadAt(s) + 1 /\ Replying(h)
        BY <1>1, <3>2, <4>1, <4>2
      <4>5. /\ CallsNest(r, b, tuses) /\ r \in Seq(Frame) /\ Rest(r) = Rest(s)
            /\ Unread(r, b) = Unread(s, b) /\ Asked(r) = 1
        BY <4>3, <4>4, RepliesOn, ZenonT(60)
      <4> QED
        BY <3>2, <4>2, <4>3, <4>5
    <3> QED
      BY <1>5, <3>1, <3>2
  <2>5. st' \in StState /\ st'.stack = r /\ st'.buf = st.buf /\ st'.fault = st.fault
    BY <1>1, <2>2, <2>4 DEF StState
  <2>6. TtyTypes'
    BY <1>1, <2>2, <2>5 DEF IInv, TtyTypes
  <2>7. InTransit'
    BY <1>1, <2>2, <2>4, <2>5 DEF InTransit
  <2> QED
    BY <2>6, <2>7 DEF IInv
<1>8. CASE ~Writable
  <2>1. Ttyread(Append(Pop, [Top EXCEPT !.lim = Len(outq)]))
    BY <1>8 DEF WriteSelect
  <2>2. CASE Sends(st.stack) /\ Len(st.stack) = 1 /\ Sending(f) /\ st.buf = <<>> /\ Front(st.stack) = <<>>
             /\ Rest(st.stack) = f.rest /\ Unread(st.stack, st.buf) = <<>> /\ Asked(st.stack) = 0
    <3>1. Len(outq) \in Nat /\ outq # <<>> /\ Len(outq) # 0 /\ outq' = <<>>
      BY <1>1, <2>1 DEF Ttyread
    <3>2. PICK g : g = [f EXCEPT !.lim = Len(outq)]
      OBVIOUS
    <3>3. g \in Frame /\ g.call = f.call /\ g.rest = f.rest /\ g.lim = Len(outq) /\ g.at = f.at
      BY <3>1, <3>2 DEF Frame
    <3>4. Sending(g)
      BY <1>3, <2>2, <3>1, <3>3 DEF Sending
    <3>5. Append(Pop, [Top EXCEPT !.lim = Len(outq)]) = <<g>>
      BY <1>2, <2>2, <3>2 DEF Pop, Top
    <3>6. st' = [st EXCEPT !.buf = @ \o outq,
                           !.stack = Append(<<g>>, Twrite(Len(st.buf) + Len(outq)))]
      BY <2>1, <3>5 DEF Ttyread
    <3> QED
      BY <1>1, <2>2, <3>1, <3>3, <3>4, <3>6, TtyreadFrom
  <2>3. CASE Len(st.stack) = ReadAt(st.stack) + 1 /\ Replying(f) /\ "query" \in tuses /\ Asked(st.stack) = 1
    <3>1. PICK p \in Seq(Byte), x \in Seq(Byte), d \in Seq(Byte) :
             p = Rest(st.stack) /\ x = Taken(xq) /\ d = Unread(st.stack, st.buf)
      BY InTransitParts
    <3>2. keys \in Nat /\ outs \in Nat /\ keys <= MaxKeys /\ outs <= MaxOut /\ tuses \in TtyUses
      BY DEF IInv, TtyTypes
    <3>3. got \in Seq(Byte) /\ inq \in Seq(Byte) /\ screen \in Seq(Byte)
      BY DEF IInv, TtyTypes
    <3>4. ToLine(got, inq, p, x, keys) /\ FromLine(screen, d, outq, outs, tuses)
          /\ Answered(got, inq, screen, 1)
      BY <1>1, <2>3, <3>1 DEF InTransit
    <3>5. Len(inq) + 1 <= keys + outs
      BY <1>1, <3>2, <3>3, <3>4, RoomForReply
    <3>6. "clog" \notin tuses
      BY <2>3, <3>2 DEF Roomy
    <3>7. Capacity = MaxKeys + MaxOut + LIM
      BY <2>3, <3>6 DEF Capacity
    <3>8. MaxKeys \in Nat /\ MaxOut \in Nat /\ LIM \in Nat \ {0} /\ Len(inq) \in Nat
      BY <3>3, TtyAssumption
    <3>9. Len(inq) + LIM <= Capacity /\ Len(inq) + 1 <= Capacity
      BY <3>2, <3>5, <3>7, <3>8
    <3> QED
      BY <1>8, <3>9 DEF Writable
  <2> QED
    BY <1>5, <2>2, <2>3
<1> QED
  BY <1>7, <1>8

LEMMA WriteReadsKeeps ==
    ASSUME IInv, WriteReads
    PROVE  IInv'
<1>1. /\ st \in StState /\ outq \in Seq(Byte) /\ st.stack \in Seq(Frame)
      /\ st.buf \in Seq(Byte) /\ st.stack # <<>> /\ CallsNest(st.stack, st.buf, tuses)
      /\ UNCHANGED <<inq, xq, keys, outs, got, screen, echoing, tuses>>
  BY DEF IInv, TtyTypes, StState, InTransit, WriteReads
<1>2. PICK f \in Frame : f = Last(st.stack)
  BY <1>1, TopCall
<1>3. f.call = "ttywriteraw" /\ f.at = "read"
  BY <1>2 DEF WriteReads, Top
<1>4. /\ Sending(f) /\ st.buf = <<>> /\ Front(st.stack) = <<>>
      /\ Rest(st.stack) = f.rest /\ Unread(st.stack, st.buf) = <<>> /\ Asked(st.stack) = 0
  <2>1. ~Replying(f) /\ ~Reading(f, st.buf)
    BY <1>3 DEF Replying, Reading
  <2> QED
    BY <1>1, <1>2, <2>1, TopCall
<1>5. Ttyread(Append(Pop, [Top EXCEPT !.lim = Len(outq), !.reads = 0, !.at = "select"]))
  BY DEF WriteReads
<1>6. Len(outq) \in Nat /\ outq # <<>> /\ Len(outq) # 0 /\ outq' = <<>>
  BY <1>1, <1>5 DEF Ttyread
<1>7. PICK g : g = [f EXCEPT !.lim = Len(outq), !.reads = 0, !.at = "select"]
  OBVIOUS
<1>8. g \in Frame /\ g.call = f.call /\ g.rest = f.rest /\ g.lim = Len(outq) /\ g.at = "select"
  BY <1>6, <1>7 DEF Frame
<1>9. Sending(g)
  BY <1>3, <1>4, <1>6, <1>8 DEF Sending
<1>10. Append(Pop, [Top EXCEPT !.lim = Len(outq), !.reads = 0, !.at = "select"]) = <<g>>
  BY <1>2, <1>4, <1>7 DEF Pop, Top
<1>11. st' = [st EXCEPT !.buf = @ \o outq,
                        !.stack = Append(<<g>>, Twrite(Len(st.buf) + Len(outq)))]
  BY <1>5, <1>10 DEF Ttyread
<1> QED
  BY <1>1, <1>4, <1>6, <1>8, <1>9, <1>11, TtyreadFrom

(* A byte of the paste is accepted. *)
LEMMA KeyAccepted ==
    ASSUME IInv, NEW f \in Frame, f.rest # <<>>, f.rest = Rest(st.stack), Asked(st.stack) = 0,
           Unread(st.stack, st.buf) = <<>>, st.buf = <<>>,
           NEW s \in Seq(Frame), CallsNest(s, <<>>, tuses), Rest(s) = Tail(f.rest),
           Unread(s, <<>>) = <<>>, Asked(s) = 0,
           st' = [st EXCEPT !.stack = s], inq' = Append(inq, Head(f.rest)),
           UNCHANGED <<outq, xq, keys, outs, got, screen, echoing, tuses>>
    PROVE  IInv'
<1>1. /\ st \in StState /\ inq \in Seq(Byte) /\ got \in Seq(Byte) /\ InTransit
      /\ f.rest \in Seq(Byte)
  BY DEF IInv, TtyTypes, Frame
<1>2. st' \in StState /\ st'.stack = s /\ st'.buf = <<>> /\ st'.fault = st.fault
  BY <1>1 DEF StState
<1>3. Head(f.rest) \in Byte
  BY <1>1, HeadTailProperties
<1>4. inq' \in Seq(Byte)
  BY <1>1, <1>3, AppendProperties
<1>5. TtyTypes'
  BY <1>2, <1>4 DEF IInv, TtyTypes
<1>6. PICK p \in Seq(Byte), x \in Seq(Byte) : p = f.rest /\ x = Taken(xq)
  BY <1>1, InTransitParts
<1>7. ToLine(got, inq, p, x, keys) /\ Answered(got, inq, screen, 0) /\ p # <<>>
  BY <1>1, <1>6 DEF InTransit
<1>8. ToLine(got, Append(inq, Head(p)), Tail(p), x, keys)
      /\ Answered(got, Append(inq, Head(p)), screen, 0)
  BY <1>1, <1>7, KeySent
<1>9. InTransit'
  BY <1>1, <1>2, <1>6, <1>8 DEF InTransit
<1> QED
  BY <1>5, <1>9 DEF IInv

(* The reply is accepted. *)
LEMMA ReplyAccepted ==
    ASSUME IInv, Asked(st.stack) = 1, NEW s \in Seq(Frame), CallsNest(s, st.buf, tuses),
           Rest(s) = Rest(st.stack), Unread(s, st.buf) = Unread(st.stack, st.buf), Asked(s) = 0,
           st' = [st EXCEPT !.stack = s], inq' = Append(inq, Reply),
           UNCHANGED <<outq, xq, keys, outs, got, screen, echoing, tuses>>
    PROVE  IInv'
<1>1. st \in StState /\ inq \in Seq(Byte) /\ got \in Seq(Byte) /\ InTransit
  BY DEF IInv, TtyTypes
<1>2. st' \in StState /\ st'.stack = s /\ st'.buf = st.buf /\ st'.fault = st.fault
  BY <1>1 DEF StState
<1>3. Reply \in Byte
  <2>1. Reply = <<"reply", 0>> /\ <<"reply", 0>> \in Byte
    BY DEF Byte, Reply
  <2> QED
    BY <2>1
<1>4. inq' \in Seq(Byte)
  BY <1>1, <1>3, AppendProperties
<1>5. TtyTypes'
  BY <1>2, <1>4 DEF IInv, TtyTypes
<1>6. PICK p \in Seq(Byte), x \in Seq(Byte) : p = Rest(st.stack) /\ x = Taken(xq)
  BY InTransitParts
<1>7. ToLine(got, inq, p, x, keys) /\ Answered(got, inq, screen, 1)
  BY <1>1, <1>6 DEF InTransit
<1>8. ToLine(got, Append(inq, Reply), p, x, keys) /\ Answered(got, Append(inq, Reply), screen, 0)
  BY <1>1, <1>7, ReplySent
<1>9. InTransit'
  BY <1>1, <1>2, <1>6, <1>8 DEF InTransit
<1> QED
  BY <1>5, <1>9 DEF IInv

LEMMA WriteByteKeeps ==
    ASSUME IInv, WriteByte
    PROVE  IInv'
<1>1. /\ st \in StState /\ st.stack \in Seq(Frame)
      /\ st.buf \in Seq(Byte) /\ st.stack # <<>> /\ CallsNest(st.stack, st.buf, tuses)
      /\ UNCHANGED <<outq, xq, keys, outs, got, screen, echoing, tuses>>
  BY DEF IInv, TtyTypes, StState, InTransit, WriteByte
<1>2. PICK f \in Frame : f = Last(st.stack)
  BY <1>1, TopCall
<1>3. f.call = "ttywriteraw" /\ f.at = "write" /\ inq' = Append(inq, Head(f.rest))
  BY <1>2 DEF WriteByte, Top
<1>4. PICK g : g = [f EXCEPT !.rest = Tail(@), !.left = @ - 1]
  OBVIOUS
<1>5. st' = [st EXCEPT !.stack =
                IF g.left > 0 THEN Append(Front(st.stack), g)
                ELSE IF g.rest = <<>> THEN Front(st.stack)
                ELSE Append(Front(st.stack), [g EXCEPT !.at = IF g.reads = 0 THEN "select" ELSE "read"])]
  BY <1>2, <1>4 DEF WriteByte, AfterWrite, Top, Pop
<1>6. f.rest \in Seq(Byte) /\ f.lim \in Nat /\ f.left \in Nat /\ f.reads \in {0, 1}
  BY DEF Frame
<1>7. CASE Sends(st.stack) /\ Len(st.stack) = 1 /\ Sending(f) /\ st.buf = <<>> /\ Front(st.stack) = <<>>
           /\ Rest(st.stack) = f.rest /\ Unread(st.stack, st.buf) = <<>> /\ Asked(st.stack) = 0
  <2>1. f.rest # <<>> /\ f.lim # 0 /\ f.left \in 1..Len(f.rest)
    BY <1>3, <1>7 DEF Sending
  <2>2. /\ Tail(f.rest) \in Seq(Byte) /\ Len(Tail(f.rest)) = Len(f.rest) - 1
        /\ f.left - 1 \in 0..Len(Tail(f.rest)) /\ f.left - 1 \in Nat
    <3>1. Tail(f.rest) \in Seq(Byte) /\ Len(Tail(f.rest)) = Len(f.rest) - 1
      BY <1>6, <2>1, HeadTailProperties
    <3>2. PICK n \in Nat : n = Len(f.rest)
      BY <1>6
    <3>3. f.left - 1 \in 0..(n - 1) /\ f.left - 1 \in Nat
      BY <1>6, <2>1, <3>2
    <3> QED
      BY <3>1, <3>2, <3>3
  <2>3. /\ g \in Frame /\ g.call = f.call /\ g.rest = Tail(f.rest) /\ g.lim = f.lim
        /\ g.left = f.left - 1 /\ g.at = f.at /\ g.reads = f.reads
    BY <1>4, <1>6, <2>2 DEF Frame
  <2>4. CASE g.left > 0
    <3>1. st' = [st EXCEPT !.stack = <<g>>]
      BY <1>5, <1>7, <2>4
    <3>2. Sending(g)
      <4>1. g.left \in 1..Len(g.rest)
        BY <2>2, <2>3, <2>4
      <4>2. g.rest # <<>>
        BY <4>1
      <4> QED
        BY <1>3, <2>1, <2>3, <4>1, <4>2 DEF Sending
    <3>3. /\ CallsNest(<<g>>, <<>>, tuses) /\ <<g>> \in Seq(Frame) /\ Rest(<<g>>) = Tail(f.rest)
          /\ Unread(<<g>>, <<>>) = <<>> /\ Asked(<<g>>) = 0
      BY <2>3, <3>2, OneSends
    <3> QED
      BY <1>1, <1>3, <1>7, <2>1, <3>1, <3>3, KeyAccepted
  <2>5. CASE ~(g.left > 0) /\ g.rest = <<>>
    <3>1. st' = [st EXCEPT !.stack = <<>>]
      BY <1>5, <1>7, <2>5
    <3>2. /\ CallsNest(<<>>, <<>>, tuses) /\ <<>> \in Seq(Frame) /\ Rest(<<>>) = Tail(f.rest)
          /\ Unread(<<>>, <<>>) = <<>> /\ Asked(<<>>) = 0
      <4>1. Tail(f.rest) = <<>>
        BY <2>3, <2>5
      <4>3. <<>> \in Seq(Frame)
        OBVIOUS
      <4>2. /\ CallsNest(<<>>, <<>>, tuses) /\ Rest(<<>>) = <<>>
            /\ Unread(<<>>, <<>>) = <<>> /\ Asked(<<>>) = 0
        BY NoCall
      <4> QED
        BY <4>1, <4>2, <4>3
    <3> QED
      BY <1>1, <1>3, <1>7, <2>1, <3>1, <3>2, KeyAccepted
  <2>6. CASE ~(g.left > 0) /\ g.rest # <<>>
    <3>1. PICK h : h = [g EXCEPT !.at = IF g.reads = 0 THEN "select" ELSE "read"]
      OBVIOUS
    <3>2. st' = [st EXCEPT !.stack = <<h>>]
      BY <1>5, <1>7, <2>6, <3>1
    <3>3. h \in Frame /\ h.call = f.call /\ h.rest = Tail(f.rest) /\ h.lim = f.lim
          /\ h.at \in {"select", "read"}
      BY <2>3, <3>1 DEF Frame
    <3>4. Sending(h)
      BY <1>3, <2>1, <2>3, <2>6, <3>3 DEF Sending
    <3>5. /\ CallsNest(<<h>>, <<>>, tuses) /\ <<h>> \in Seq(Frame) /\ Rest(<<h>>) = Tail(f.rest)
          /\ Unread(<<h>>, <<>>) = <<>> /\ Asked(<<h>>) = 0
      BY <3>3, <3>4, OneSends
    <3> QED
      BY <1>1, <1>3, <1>7, <2>1, <3>2, <3>5, KeyAccepted
  <2> QED
    BY <2>4, <2>5, <2>6
<1>8. CASE Len(st.stack) = ReadAt(st.stack) + 1 /\ Replying(f) /\ "query" \in tuses /\ Asked(st.stack) = 1
  <2>1. f.rest = <<Reply>> /\ f.left = 1
    BY <1>3, <1>8 DEF Replying
  <2>2. Head(f.rest) = Reply /\ Tail(f.rest) = <<>>
    BY <2>1
  <2>3. g.left = 0 /\ g.rest = <<>>
    <3>1. g.left = f.left - 1 /\ g.rest = Tail(f.rest)
      BY <1>4 DEF Frame
    <3> QED
      BY <2>1, <2>2, <3>1
  <2>4. st' = [st EXCEPT !.stack = Front(st.stack)]
    BY <1>5, <2>3
  <2>5. PICK s \in Seq(Frame), b \in Seq(Byte) : s = st.stack /\ b = st.buf
    BY <1>1
  <2>6. PICK r : r = Front(s)
    OBVIOUS
  <2>7. /\ CallsNest(r, b, tuses) /\ r \in Seq(Frame)
        /\ Rest(r) = Rest(s) /\ Unread(r, b) = Unread(s, b) /\ Asked(r) = 0
    BY <1>1, <1>8, <2>5, <2>6, RepliesNoMore
  <2> QED
    BY <1>1, <1>3, <1>8, <2>2, <2>4, <2>5, <2>6, <2>7, ReplyAccepted
<1> QED
  <2>1. ~Reading(f, st.buf)
    BY <1>3 DEF Reading
  <2> QED
    BY <1>1, <1>2, <1>7, <1>8, <2>1, TopCall

LEMMA TwriteByteKeeps ==
    ASSUME IInv, TwriteByte
    PROVE  IInv'
<1>1. /\ st \in StState /\ outq \in Seq(Byte) /\ screen \in Seq(Byte) /\ InTransit
      /\ st.stack # <<>> /\ CallsNest(st.stack, st.buf, tuses)
      /\ UNCHANGED <<inq, outq, xq, keys, outs, got, echoing, tuses>>
  BY DEF IInv, TtyTypes, InTransit, TwriteByte
<1>2. PICK s \in Seq(Frame), b \in Seq(Byte) : s = st.stack /\ b = st.buf
  BY <1>1 DEF StState
<1>3. s # <<>> /\ CallsNest(s, b, tuses)
  BY <1>1, <1>2
<1>4. PICK f \in Frame : f = Last(s)
  BY <1>3, TopCall
<1>5. f.call = "twrite" /\ f.n <= f.len
  BY <1>2, <1>4 DEF TwriteByte, Top
<1>6. Len(s) = ReadAt(s) /\ Reading(f, b) /\ Unread(s, b) = SubSeq(b, f.n, Len(b)) /\ Asked(s) = 0
  <2>1. ~Sending(f) /\ ~Replying(f)
    BY <1>5 DEF Sending, Replying
  <2> QED
    BY <1>3, <1>4, <2>1, TopCall
<1>7. f.n \in 1..Len(b) /\ f.len = Len(b) /\ f.n \in Nat
  <2>1. PICK m \in Nat : m = Len(b)
    OBVIOUS
  <2>2. f.len = m /\ f.n \in 1..(m + 1)
    BY <1>6, <2>1 DEF Reading
  <2>3. f.n <= m
    BY <1>5, <2>2
  <2>4. f.n \in 1..m /\ f.n \in Nat
    BY <2>2, <2>3
  <2> QED
    BY <2>1, <2>2, <2>4
<1>8. PICK r \in Seq(Byte) :
         r = Unread(s, b) /\ r # <<>> /\ Head(r) = b[f.n] /\ Tail(r) = SubSeq(b, f.n + 1, Len(b))
  <2>1. Unread(s, b) \in Seq(Byte)
    BY <1>2, InTransitParts
  <2>2. Head(SubSeq(b, f.n, Len(b))) = b[f.n] /\ Tail(SubSeq(b, f.n, Len(b))) = SubSeq(b, f.n + 1, Len(b))
    <3>1. Len(b) \in f.n..Len(b)
      BY <1>7
    <3> QED
      BY <1>7, <3>1, HeadTailOfSubSeq
  <2>3. SubSeq(b, f.n, Len(b)) # <<>>
    <3>1. PICK m \in Nat : m = Len(b)
      OBVIOUS
    <3>2. \A i \in f.n..m : b[i] \in Byte
      BY <1>7, <3>1
    <3>3. Len(SubSeq(b, f.n, m)) = IF f.n <= m THEN m - f.n + 1 ELSE 0
      BY <1>7, <3>1, <3>2, SubSeqProperties
    <3>4. Len(SubSeq(b, f.n, m)) # 0
      BY <1>7, <3>1, <3>3
    <3> QED
      BY <3>1, <3>4
  <2> QED
    BY <1>6, <2>1, <2>2, <2>3
<1>9. PICK x \in Byte : x = Head(r) /\ x = b[f.n]
  BY <1>8, HeadTailProperties
<1>10. PICK g \in Frame : g = [f EXCEPT !.n = @ + 1]
  <2>1. f.n + 1 \in Nat
    BY <1>7
  <2>2. [f EXCEPT !.n = f.n + 1] \in Frame
    BY <2>1, FrameMoved
  <2> QED
    BY <2>2
<1>11. g \in Frame /\ g.call = f.call /\ g.n = f.n + 1 /\ g.len = f.len
  BY <1>10 DEF Frame
<1>12. Reading(g, b)
  BY <1>5, <1>7, <1>11 DEF Reading
<1>13. PICK v : v = Append(Front(s), g)
  OBVIOUS
<1>14. /\ CallsNest(v, b, tuses) /\ v \in Seq(Frame) /\ v # <<>> /\ Len(v) = ReadAt(v)
       /\ Rest(v) = Rest(s) /\ Unread(v, b) = Ahead(g, b) /\ Asked(v) = 0
  <2>1. s \in Seq(Frame) /\ s # <<>> /\ b \in Seq(Byte) /\ CallsNest(s, b, tuses)
        /\ Len(s) = ReadAt(s) /\ g \in Frame /\ Reading(g, b)
    BY <1>3, <1>6, <1>12
  <2> QED
    BY ONLY <2>1, <1>13, ReadsOn
<1>15. Unread(v, b) = Tail(r) /\ Tail(r) \in Seq(Byte)
  BY <1>8, <1>11, <1>14, HeadTailProperties DEF Ahead
<1>16. PICK w \in Seq(Frame) :
          /\ w = IF x[1] = "query" THEN Append(v, WriteRaw(<<Reply>>)) ELSE v
          /\ CallsNest(w, b, tuses) /\ Rest(w) = Rest(s) /\ Unread(w, b) = Tail(r)
          /\ Asked(w) = IF x[1] = "query" THEN 1 ELSE 0
  <2>1. CASE x[1] = "query"
    <3>1. "query" \in tuses
      <4>1. Only(r, FromProgram(tuses))
        BY <1>1, <1>2, <1>8 DEF InTransit, FromLine
      <4>2. x[1] \in FromProgram(tuses)
        BY <1>8, <1>9, <4>1, OnlyParts
      <4> QED
        BY <2>1, <4>2 DEF FromProgram
    <3>2. PICK w : w = Append(v, WriteRaw(<<Reply>>))
      OBVIOUS
    <3>3. /\ CallsNest(w, b, tuses) /\ w \in Seq(Frame) /\ Rest(w) = Rest(v)
          /\ Unread(w, b) = Unread(v, b) /\ Asked(w) = 1
      BY <1>14, <3>1, <3>2, ReadsAndReplies
    <3> QED
      BY <1>14, <1>15, <2>1, <3>2, <3>3
  <2>2. CASE x[1] # "query"
    BY <1>14, <1>15, <2>2
  <2> QED
    BY <2>1, <2>2
<1>17. st' = [st EXCEPT !.stack = w, !.dirty = TRUE]
  <2>1. PICK y : y = [st EXCEPT !.stack = v, !.dirty = TRUE]
    OBVIOUS
  <2>2. st' = IF x[1] = "query" THEN [y EXCEPT !.stack = Append(@, WriteRaw(<<Reply>>))] ELSE y
    BY <1>2, <1>4, <1>9, <1>10, <1>13, <2>1 DEF TwriteByte, Top, Pop
  <2>3. CASE x[1] = "query"
    BY <1>1, <1>16, <2>1, <2>2, <2>3 DEF StState
  <2>4. CASE x[1] # "query"
    BY <1>16, <2>1, <2>2, <2>4
  <2> QED
    BY <2>3, <2>4
<1>18. screen' = IF x = Flood THEN screen ELSE Append(screen, x)
  BY <1>2, <1>4, <1>9 DEF TwriteByte, Top
<1>19. st' \in StState /\ st'.stack = w /\ st'.buf = b /\ st'.fault = st.fault
  BY <1>1, <1>2, <1>16, <1>17 DEF StState
<1>20. screen' \in Seq(Byte)
  BY <1>1, <1>18, AppendProperties
<1>21. TtyTypes'
  BY <1>1, <1>19, <1>20 DEF IInv, TtyTypes
<1>22. FromLine(screen, r, outq, outs, tuses) /\ Answered(got, inq, screen, 0)
  BY <1>1, <1>2, <1>6, <1>8 DEF InTransit
<1>23. /\ FromLine(Append(screen, x), Tail(r), outq, outs, tuses)
       /\ x[1] \notin Numbering => FromLine(screen, Tail(r), outq, outs, tuses)
  <2>1. /\ FromLine(Append(screen, Head(r)), Tail(r), outq, outs, tuses)
        /\ Head(r)[1] \notin Numbering => FromLine(screen, Tail(r), outq, outs, tuses)
    BY <1>1, <1>8, <1>22, ByteProcessed
  <2> QED
    BY <1>9, <2>1
<1>24. FromLine(screen', Tail(r), outq, outs, tuses) /\ Answered(got, inq, screen', Asked(w))
  <2>1. CASE x = Flood
    <3>1. x[1] = "flood" /\ x[1] \notin Numbering /\ x[1] # "query"
      BY <2>1 DEF Flood, Numbering
    <3> QED
      BY <1>16, <1>18, <1>22, <1>23, <2>1, <3>1
  <2>2. CASE x # Flood
    <3>1. /\ Count(screen, {"query"}) \in Nat
          /\ Count(Append(screen, x), {"query"}) =
                Count(screen, {"query"}) + (IF x[1] \in {"query"} THEN 1 ELSE 0)
      BY <1>1, CountAppend
    <3>2. Count(got \o inq, {"reply"}) + 0 = Count(screen, {"query"})
      BY <1>22 DEF Answered
    <3>3. Count(got \o inq, {"reply"}) \in Nat
      <4>1. got \in Seq(Byte) /\ inq \in Seq(Byte)
        BY DEF IInv, TtyTypes
      <4>2. got \o inq \in Seq(Byte)
        BY <4>1, ConcatProperties
      <4> QED
        BY <4>2, CountFront
    <3>4. Count(got \o inq, {"reply"}) + Asked(w) = Count(Append(screen, x), {"query"})
      BY <1>16, <3>1, <3>2, <3>3
    <3> QED
      BY <1>18, <1>23, <2>2, <3>4 DEF Answered
  <2> QED
    BY <2>1, <2>2
<1>25. InTransit'
  BY <1>1, <1>2, <1>16, <1>19, <1>24 DEF InTransit
<1> QED
  BY <1>21, <1>25 DEF IInv

LEMMA TtyreadEndKeeps ==
    ASSUME IInv, TtyreadEnd
    PROVE  IInv'
<1>1. /\ st \in StState /\ InTransit
      /\ st.stack # <<>> /\ CallsNest(st.stack, st.buf, tuses)
      /\ UNCHANGED <<inq, outq, xq, keys, outs, got, screen, echoing, tuses>>
  BY DEF IInv, TtyTypes, InTransit, TtyreadEnd
<1>2. PICK s \in Seq(Frame), b \in Seq(Byte) : s = st.stack /\ b = st.buf
  BY <1>1 DEF StState
<1>3. s # <<>> /\ CallsNest(s, b, tuses)
  BY <1>1, <1>2
<1>4. PICK f \in Frame : f = Last(s)
  BY <1>3, TopCall
<1>5. f.call = "twrite" /\ f.n > f.len
  BY <1>2, <1>4 DEF TtyreadEnd, Top
<1>6. Len(s) = ReadAt(s) /\ Reading(f, b) /\ Unread(s, b) = SubSeq(b, f.n, Len(b)) /\ Asked(s) = 0
  <2>1. ~Sending(f) /\ ~Replying(f)
    BY <1>5 DEF Sending, Replying
  <2> QED
    BY <1>3, <1>4, <2>1, TopCall
<1>7. f.len = Len(b) /\ f.n = Len(b) + 1 /\ Len(b) \in Nat
  <2>1. PICK m \in Nat : m = Len(b)
    OBVIOUS
  <2>2. f.len = m /\ f.n \in 1..(m + 1)
    BY <1>6, <2>1 DEF Reading
  <2>3. f.n = m + 1
    BY <1>5, <2>2
  <2> QED
    BY <2>1, <2>2, <2>3
<1>8. SubSeq(b, Len(b) + 1, Len(b)) = <<>>
  <2>1. Len(b) < Len(b) + 1 /\ Len(b) \in Int /\ Len(b) + 1 \in Int
    BY <1>7
  <2> QED
    BY <2>1, SubSeqEmpty
<1>9. st' = [st EXCEPT !.stack = Front(s), !.buf = <<>>]
  <2>1. ~(Len(st.buf) < Top.len) /\ SubSeq(st.buf, Top.len + 1, Len(st.buf)) = <<>>
    BY <1>2, <1>4, <1>7, <1>8 DEF Top
  <2> QED
    BY <1>2, <2>1 DEF TtyreadEnd, Pop
<1>10. PICK r : r = Front(s)
  OBVIOUS
<1>11. /\ CallsNest(r, <<>>, tuses) /\ r \in Seq(Frame)
       /\ Rest(r) = Rest(s) /\ Unread(r, <<>>) = <<>> /\ Asked(r) = 0
  BY <1>3, <1>6, <1>10, ReadsNoMore
<1>12. st' \in StState /\ st'.stack = r /\ st'.buf = <<>> /\ st'.fault = st.fault
  <2>1. <<>> \in Seq(Byte)
    OBVIOUS
  <2> QED
    BY <1>1, <1>9, <1>10, <1>11, <2>1 DEF StState
<1>13. TtyTypes'
  BY <1>1, <1>12 DEF IInv, TtyTypes
<1>14. InTransit'
  BY <1>1, <1>2, <1>6, <1>7, <1>8, <1>11, <1>12 DEF InTransit
<1> QED
  BY <1>13, <1>14 DEF IInv

-----------------------------------------------------------------------------
LEMMA TtyStep ==
    ASSUME Roomy
    PROVE  IInv /\ [Next]_ttyvars => IInv'
<1> SUFFICES ASSUME IInv, [Next]_ttyvars PROVE IInv'
  OBVIOUS
<1>1. CASE WriteSelect
  BY <1>1, WriteSelectKeeps
<1>2. CASE WriteByte
  BY <1>2, WriteByteKeeps
<1>3. CASE WriteReads
  BY <1>3, WriteReadsKeeps
<1>4. CASE TwriteByte
  BY <1>4, TwriteByteKeeps
<1>5. CASE TtyreadEnd
  BY <1>5, TtyreadEndKeeps
<1>6. CASE Select
  BY <1>6, SelectKeeps
<1>7. CASE Event
  BY <1>7, EventKeeps
<1>8. CASE Decide
  BY <1>8, DecideKeeps
<1>9. CASE Tick
  BY <1>9, TickKeeps
<1>10. CASE Type
  BY <1>10, TypeKeeps
<1>11. CASE Visibility
  BY <1>11, VisibilityKeeps
<1>12. CASE ProgramReads
  BY <1>12, ProgramReadsKeeps
<1>13. CASE ProgramWrites
  BY <1>13, ProgramWritesKeeps
<1>14. CASE UNCHANGED ttyvars
  BY <1>14 DEF ttyvars, IInv, TtyTypes, InTransit
<1> QED
  BY <1>1, <1>2, <1>3, <1>4, <1>5, <1>6, <1>7, <1>8, <1>9, <1>10, <1>11, <1>12, <1>13, <1>14
     DEF Next, St

(* At most one twrite at a time works on the buffer of ttyread, inside at  *)
(* most one paste and around at most one reply; the buffer is empty in     *)
(* between; and everything on its way, in either direction, is there once  *)
(* and in order (ttyread, ttywriteraw, run). *)
THEOREM TransportHolds == Roomy => (Spec => []IInv)
<1> SUFFICES ASSUME Roomy PROVE Spec => []IInv
  OBVIOUS
<1>1. IInv /\ [Next]_ttyvars => IInv'
  BY TtyStep
<1> QED
  BY <1>1, TtyInit, PTL DEF Spec

(* For every capacity of the two queues, every size of a paste and of one  *)
(* write, whether the program floods, echoes or asks: what is typed and    *)
(* what is written arrives in order, nothing is lost or doubled, and no    *)
(* request is answered twice - if a program that asks also reads.          *)
THEOREM InOrderHolds == Roomy => (Spec => []InOrder)
<1> SUFFICES ASSUME Roomy PROVE Spec => []InOrder
  OBVIOUS
<1>1. ASSUME IInv PROVE InOrder
  <2>1. got \in Seq(Byte) /\ inq \in Seq(Byte) /\ screen \in Seq(Byte) /\ outq \in Seq(Byte) /\ InTransit
    BY <1>1 DEF IInv, TtyTypes
  <2>2. PICK p \in Seq(Byte), x \in Seq(Byte), r \in Seq(Byte), a \in {0, 1} :
           p = Rest(st.stack) /\ x = Taken(xq) /\ r = Unread(st.stack, st.buf) /\ a = Asked(st.stack)
    BY <1>1, InTransitParts
  <2>3. ToLine(got, inq, p, x, keys) /\ FromLine(screen, r, outq, outs, tuses)
        /\ Answered(got, inq, screen, a)
    BY <2>1, <2>2 DEF InTransit
  <2>4. got \o inq \in Seq(Byte) /\ p \o x \in Seq(Byte) /\ r \o outq \in Seq(Byte)
    BY <2>1, ConcatProperties
  <2>5. Counted(got, {"key"})
    <3>1. Counted(got \o inq, {"key"})
      BY <2>3, <2>4, CountedFront DEF ToLine
    <3> QED
      BY <2>1, <3>1, CountedFront
  <2>6. Counted(screen, Numbering)
    BY <2>1, <2>3, <2>4, CountedFront DEF FromLine
  <2>7. Count(got, {"reply"}) <= Count(screen, {"query"})
    <3>1. Count(got, {"reply"}) \in Nat /\ Count(got, {"reply"}) <= Count(got \o inq, {"reply"})
      BY <2>1, CountFront
    <3>2. Count(got \o inq, {"reply"}) \in Nat
      BY <2>4, CountFront
    <3>3. Count(got \o inq, {"reply"}) + a = Count(screen, {"query"})
      BY <2>3 DEF Answered
    <3> QED
      BY <3>1, <3>2, <3>3
  <2> QED
    BY <2>5, <2>6, <2>7 DEF InOrder, Numbering
<1> QED
  BY <1>1, TransportHolds, PTL
=============================================================================
