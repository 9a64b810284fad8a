--------------------------- MODULE AlgorithmProofs --------------------------
(***************************************************************************)
(* What the sequential algorithms of the code compute, for every input,    *)
(* and what the other proofs share.                                        *)
(*                                                                         *)
(* First, least elements and loops written as recursive functions.  Then   *)
(* attach, detach and attachx on a list of clients, for every list: which  *)
(* clients it holds and that none is in it twice.  Last, the functions of  *)
(* timer.c, for every number of blocks and every interval: Euclid's        *)
(* algorithm terminates on a common divisor, the tick divides every        *)
(* interval, and the reset value is positive and bounds them.              *)
(*                                                                         *)
(* A recursive function is first shown to exist (RunningMaxExists,         *)
(* RunningGcdExists, gcd_unfold): one that satisfies the recursion is      *)
(* built below every bound, by the least counterexample, and two of them   *)
(* agree where both are defined.                                           *)
(***************************************************************************)
EXTENDS ClientList, BlockTimer, TLAPS, SequenceTheorems, WellFoundedInduction

(* A nonempty set of naturals has a least element. *)
LEMMA LeastElement ==
    ASSUME NEW S \in SUBSET Nat, S # {}
    PROVE  \E i \in S : \A j \in S : i <= j
<1> DEFINE R == {ss \in Nat \X Nat : ss[1] < ss[2]}
<1>1. R = OpToRel(<, Nat)
  BY DEF OpToRel
<1>2. IsWellFoundedOn(R, Nat)
  BY <1>1, NatLessThanWellFounded
<1>3. PICK i \in S : \A j \in S : <<j, i>> \notin R
  BY <1>2, WFMin
<1>4. ASSUME NEW j \in S PROVE i <= j
  <2>1. i \in Nat /\ j \in Nat
    OBVIOUS
  <2>2. j < i => <<j, i>> \in R
    BY <2>1
  <2> QED
    BY <1>3, <2>1, <2>2
<1> QED
  BY <1>4

(* A loop over an array: value v after the first i elements.               *)
Loop(f, n, base, step) ==
    f = [i \in 0..n |-> IF i = 0 THEN base ELSE step[i][f[i-1]]]

(* Such a function exists and its values stay in T. *)
LEMMA LoopExists ==
    ASSUME NEW n \in Nat, NEW T, NEW base \in T, NEW step \in [1..n -> [T -> T]]
    PROVE  \E f \in [0..n -> T] : Loop(f, n, base, step)
<1> DEFINE Bad == {k \in 0..n : ~ \E f \in [0..k -> T] : Loop(f, k, base, step)}
<1>1. Bad \in SUBSET Nat
  OBVIOUS
<1>2. CASE Bad = {}
  BY <1>2
<1>3. CASE Bad # {}
  <2>1. PICK k \in Bad : \A j \in Bad : k <= j
    BY <1>1, <1>3, LeastElement
  <2>2. CASE k = 0
    <3>1. [i \in 0..0 |-> base] \in [0..0 -> T]
      OBVIOUS
    <3>2. Loop([i \in 0..0 |-> base], 0, base, step)
      BY DEF Loop
    <3> QED
      BY <2>1, <2>2, <3>1, <3>2
  <2>3. CASE k > 0
    <3>1. k-1 \in 0..n /\ k-1 \notin Bad /\ k \in 1..n
      BY <2>1, <2>3
    <3>2. PICK f \in [0..(k-1) -> T] : Loop(f, k-1, base, step)
      BY <3>1
    <3> DEFINE g == [i \in 0..k |-> IF i = k THEN step[k][f[k-1]] ELSE f[i]]
    <3>3. f[k-1] \in T /\ step[k][f[k-1]] \in T
      BY <3>1, <3>2
    <3>4. g \in [0..k -> T]
      BY <3>1, <3>3
    <3>5. ASSUME NEW i \in 0..k PROVE g[i] = IF i = 0 THEN base ELSE step[i][g[i-1]]
      <4>1. CASE i = 0
        <5>1. 0 \in 0..(k-1) /\ f[0] = base
          BY <2>3, <3>1, <3>2 DEF Loop
        <5> QED
          BY <2>3, <4>1, <5>1
      <4>2. CASE i \in 1..(k-1)
        <5>1. i \in 0..(k-1) /\ f[i] = step[i][f[i-1]]
          BY <2>3, <3>1, <3>2, <4>2 DEF Loop
        <5>2. g[i] = f[i] /\ g[i-1] = f[i-1]
          BY <3>1, <4>2
        <5> QED
          BY <4>2, <5>1, <5>2
      <4>3. CASE i = k
        <5>1. g[k] = step[k][f[k-1]] /\ g[k-1] = f[k-1]
          BY <2>3, <3>1
        <5> QED
          BY <2>3, <4>3, <5>1
      <4> QED
        BY <3>1, <4>1, <4>2, <4>3
    <3>6. Loop(g, k, base, step)
      BY <3>5 DEF Loop
    <3> QED
      BY <2>1, <3>4, <3>6
  <2> QED
    BY <2>1, <2>2, <2>3
<1> QED
  BY <1>2, <1>3

-----------------------------------------------------------------------------
(* The members of a list are its values at 1..Len(list). *)
LEMMA MembersOf ==
    ASSUME NEW S, NEW list \in Seq(S)
    PROVE  /\ Members(list) = {list[k] : k \in 1..Len(list)}
           /\ Members(list) \subseteq S
           /\ Len(list) \in Nat
           /\ DOMAIN list = 1..Len(list)
           /\ (Members(list) = {}) <=> (list = <<>>)
<1>1. Len(list) \in Nat /\ DOMAIN list = 1..Len(list) /\ list \in [1..Len(list) -> S]
  BY LenProperties
<1>2. Members(list) = {list[k] : k \in 1..Len(list)}
  BY <1>1 DEF Members
<1>3. Members(list) \subseteq S
  BY <1>1, <1>2
<1>4. list = <<>> => Members(list) = {}
  BY <1>1 DEF Members
<1>5. list # <<>> => list[1] \in Members(list)
  <2>1. list # <<>> => Len(list) >= 1
    BY <1>1
  <2> QED
    BY <1>1, <1>2, <2>1
<1> QED
  BY <1>1, <1>2, <1>3, <1>4, <1>5

(* 1..n determines n. *)
LEMMA SameSegment ==
    ASSUME NEW k \in Nat, NEW n \in Nat, 1..k = 1..n
    PROVE  k = n
<1>1. (k \in 1..k <=> k \in 1..n) /\ (n \in 1..k <=> n \in 1..n)
  OBVIOUS
<1> QED
  BY <1>1

(* A function of 1..n is a sequence of length n. *)
LEMMA FunctionIsSeq ==
    ASSUME NEW S, NEW n \in Nat, NEW f \in [1..n -> S]
    PROVE  f \in Seq(S) /\ Len(f) = n
<1>1. f \in UNION {[1..m -> S] : m \in Nat}
  OBVIOUS
<1>2. f \in Seq(S)
  BY <1>1, SeqDef
<1>3. Len(f) \in Nat /\ DOMAIN f = 1..Len(f) /\ DOMAIN f = 1..n
  BY <1>2, LenProperties
<1> QED
  BY <1>2, <1>3, SameSegment

(* PositionOf finds a member of the list. *)
LEMMA PositionIn ==
    ASSUME NEW S, NEW list \in Seq(S), NEW c \in Members(list)
    PROVE  PositionOf(list, c) \in 1..Len(list) /\ list[PositionOf(list, c)] = c
<1>1. \E k \in DOMAIN list : list[k] = c
  BY DEF Members
<1> QED
  BY <1>1, MembersOf DEF PositionOf

(* The concatenation of lists without a common member. *)
LEMMA ConcatMembers ==
    ASSUME NEW S, NEW a \in Seq(S), NEW b \in Seq(S)
    PROVE  /\ a \o b \in Seq(S)
           /\ Members(a \o b) = Members(a) \cup Members(b)
           /\ Distinct(a) /\ Distinct(b) /\ Members(a) \cap Members(b) = {} => Distinct(a \o b)
<1> DEFINE ab == a \o b
<1>1. /\ ab \in Seq(S) /\ Len(ab) = Len(a) + Len(b)
      /\ \A i \in 1..(Len(a) + Len(b)) : ab[i] = IF i <= Len(a) THEN a[i] ELSE b[i - Len(a)]
  BY ConcatProperties
<1>2. /\ Len(a) \in Nat /\ Len(b) \in Nat
      /\ DOMAIN a = 1..Len(a) /\ DOMAIN b = 1..Len(b) /\ DOMAIN ab = 1..Len(ab)
  BY <1>1, LenProperties
<1> HIDE DEF ab
<1>3. \A i \in DOMAIN a : i \in DOMAIN ab /\ ab[i] = a[i]
  BY <1>1, <1>2
<1>4. \A i \in DOMAIN b : i + Len(a) \in DOMAIN ab /\ ab[i + Len(a)] = b[i]
  BY <1>1, <1>2
<1>5. \A i \in DOMAIN ab :
         \/ i \in DOMAIN a /\ ab[i] = a[i]
         \/ i - Len(a) \in DOMAIN b /\ ab[i] = b[i - Len(a)]
  BY <1>1, <1>2
<1>6. Members(ab) = Members(a) \cup Members(b)
  BY <1>3, <1>4, <1>5 DEF Members
<1>7. ASSUME Distinct(a), Distinct(b), Members(a) \cap Members(b) = {} PROVE Distinct(ab)
  <2> SUFFICES ASSUME NEW i \in DOMAIN ab, NEW j \in DOMAIN ab, ab[i] = ab[j] PROVE i = j
    BY DEF Distinct
  <2>1. CASE i \in DOMAIN a /\ ab[i] = a[i] /\ j \in DOMAIN a /\ ab[j] = a[j]
    BY <1>7, <2>1 DEF Distinct
  <2>2. CASE /\ i - Len(a) \in DOMAIN b /\ ab[i] = b[i - Len(a)]
             /\ j - Len(a) \in DOMAIN b /\ ab[j] = b[j - Len(a)]
    <3>1. i - Len(a) = j - Len(a)
      BY <1>7, <2>2 DEF Distinct
    <3> QED
      BY <1>1, <1>2, <3>1
  <2>3. ASSUME NEW x \in DOMAIN a, NEW y \in DOMAIN b PROVE a[x] # b[y]
    BY <1>7 DEF Members
  <2> QED
    BY <1>5, <2>1, <2>2, <2>3
<1> QED
  BY <1>1, <1>6, <1>7 DEF ab

(* The part of a list between two places. *)
LEMMA SubSeqMembers ==
    ASSUME NEW S, NEW list \in Seq(S), NEW m \in 1..(Len(list) + 1), NEW n \in 0..Len(list)
    PROVE  /\ SubSeq(list, m, n) \in Seq(S)
           /\ Members(SubSeq(list, m, n)) = {list[k] : k \in m..n}
           /\ Distinct(list) => Distinct(SubSeq(list, m, n))
<1> DEFINE sub == SubSeq(list, m, n)
<1>1. Len(list) \in Nat /\ DOMAIN list = 1..Len(list) /\ list \in [1..Len(list) -> S]
  BY LenProperties
<1>2. \A i \in m..n : list[i] \in S
  BY <1>1
<1>3. /\ sub \in Seq(S) /\ Len(sub) = IF m <= n THEN n - m + 1 ELSE 0
      /\ \A i \in 1..(n - m + 1) : sub[i] = list[m + i - 1]
  BY <1>1, <1>2, SubSeqProperties
<1>4. DOMAIN sub = 1..Len(sub)
  BY <1>3, LenProperties
<1> HIDE DEF sub
<1>5. \A i \in DOMAIN sub : m + i - 1 \in m..n /\ sub[i] = list[m + i - 1]
  <2> TAKE i \in DOMAIN sub
  <2>1. m <= n /\ i \in 1..(n - m + 1)
    BY <1>1, <1>3, <1>4
  <2> QED
    BY <1>1, <1>3, <2>1
<1>6. \A k \in m..n : k - m + 1 \in DOMAIN sub /\ sub[k - m + 1] = list[k]
  <2> TAKE k \in m..n
  <2>1. k - m + 1 \in 1..(n - m + 1) /\ m <= n /\ m + (k - m + 1) - 1 = k
    BY <1>1
  <2>2. sub[k - m + 1] = list[m + (k - m + 1) - 1]
    BY <1>3, <2>1
  <2> QED
    BY <1>3, <1>4, <2>1, <2>2
<1>7. Members(sub) = {list[k] : k \in m..n}
  BY <1>5, <1>6 DEF Members
<1>8. ASSUME Distinct(list) PROVE Distinct(sub)
  <2> SUFFICES ASSUME NEW i \in DOMAIN sub, NEW j \in DOMAIN sub, sub[i] = sub[j] PROVE i = j
    BY DEF Distinct
  <2>1. m + i - 1 \in DOMAIN list /\ m + j - 1 \in DOMAIN list
    BY <1>1, <1>5
  <2>2. m + i - 1 = m + j - 1
    BY <1>5, <1>8, <2>1 DEF Distinct
  <2> QED
    BY <1>1, <1>3, <1>4, <2>2
<1> QED
  BY <1>3, <1>7, <1>8 DEF sub

(* attach: the client is the first one. *)
LEMMA AttachMembers ==
    ASSUME NEW S, NEW list \in Seq(S), NEW c \in S
    PROVE  /\ attach(list, c) \in Seq(S)
           /\ Members(attach(list, c)) = Members(list) \cup {c}
           /\ 1 \in DOMAIN attach(list, c) /\ attach(list, c)[1] = c
           /\ Distinct(list) /\ c \notin Members(list) => Distinct(attach(list, c))
<1> DEFINE u == <<c>>
<1>1. /\ u \in Seq(S) /\ Members(u) = {c} /\ Distinct(u) /\ Len(u) = 1 /\ u[1] = c
      /\ attach(list, c) = u \o list
  BY DEF Members, Distinct, attach
<1>2. Len(list) \in Nat
  BY LenProperties
<1> HIDE DEF u
<1>3. /\ u \o list \in Seq(S) /\ Len(u \o list) = 1 + Len(list)
      /\ \A i \in 1..(1 + Len(list)) : (u \o list)[i] = IF i <= 1 THEN u[i] ELSE list[i - 1]
  BY <1>1, ConcatProperties
<1>4. 1 \in DOMAIN (u \o list) /\ (u \o list)[1] = c
  BY <1>1, <1>2, <1>3, LenProperties
<1>5. Members(u \o list) = {c} \cup Members(list)
  BY <1>1, ConcatMembers
<1>6. ASSUME Distinct(list), c \notin Members(list) PROVE Distinct(u \o list)
  <2>1. Members(u) \cap Members(list) = {}
    BY <1>1, <1>6
  <2> QED
    BY <1>1, <1>6, <2>1, ConcatMembers
<1> QED
  BY <1>1, <1>3, <1>4, <1>5, <1>6

(* detach: the client is out, and the others are still there once.         *)
LEMMA DetachMembers ==
    ASSUME NEW S, NEW list \in Seq(S), NEW c \in Members(list), Distinct(list)
    PROVE  /\ detach(list, c) \in Seq(S)
           /\ Members(detach(list, c)) = Members(list) \ {c}
           /\ Distinct(detach(list, c))
<1> DEFINE p == PositionOf(list, c)
           a == SubSeq(list, 1, p - 1)
           b == SubSeq(list, p + 1, Len(list))
<1>1. p \in 1..Len(list) /\ list[p] = c
  BY PositionIn
<1>2. Len(list) \in Nat /\ DOMAIN list = 1..Len(list)
  BY LenProperties
<1>3. \A j \in 1..Len(list) : list[j] = c => j = p
  BY <1>1, <1>2 DEF Distinct
<1> HIDE DEF p
<1>4. /\ a \in Seq(S) /\ Distinct(a)
      /\ Members(a) = {list[k] : k \in 1..(p - 1)}
  BY <1>1, <1>2, SubSeqMembers
<1>5. /\ b \in Seq(S) /\ Distinct(b)
      /\ Members(b) = {list[k] : k \in (p + 1)..Len(list)}
  BY <1>1, <1>2, SubSeqMembers
<1> HIDE DEF a, b
<1>6. \A k \in 1..(p - 1), l \in (p + 1)..Len(list) : list[k] # list[l]
  BY <1>1, <1>2 DEF Distinct
<1>7. Members(a) \cap Members(b) = {}
  BY <1>4, <1>5, <1>6
<1>8. Members(a) \cup Members(b) = Members(list) \ {c}
  <2>1. Members(list) = {list[k] : k \in 1..Len(list)}
    BY MembersOf
  <2>2. \A k \in 1..Len(list) : k \in 1..(p - 1) \/ k = p \/ k \in (p + 1)..Len(list)
    BY <1>1, <1>2
  <2>3. \A k \in 1..(p - 1) : k \in 1..Len(list) /\ list[k] # c
    BY <1>1, <1>2, <1>3
  <2>4. \A k \in (p + 1)..Len(list) : k \in 1..Len(list) /\ list[k] # c
    BY <1>1, <1>2, <1>3
  <2> QED
    BY <1>1, <1>4, <1>5, <2>1, <2>2, <2>3, <2>4
<1>9. detach(list, c) = a \o b
  BY DEF detach, p, a, b
<1>10. a \o b \in Seq(S) /\ Members(a \o b) = Members(a) \cup Members(b)
  BY <1>4, <1>5, ConcatMembers
<1>11. Distinct(a \o b)
  BY <1>4, <1>5, <1>7, ConcatMembers
<1> QED
  BY <1>8, <1>9, <1>10, <1>11

(* attachx stops at the last client at the latest, and where it stops it   *)
(* drops nothing: it stops before a client with a larger index only at the *)
(* first one.                                                              *)
LEMMA AttachxMembers ==
    ASSUME NEW S, NEW list \in Seq(S), NEW c \in S, NEW idx \in [S -> Nat]
    PROVE  /\ attachx(list, c, idx) \in Seq(S)
           /\ Members(attachx(list, c, idx)) = Members(list) \cup {c}
           /\ Distinct(list) /\ c \notin Members(list) => Distinct(attachx(list, c, idx))
<1>1. CASE ~(idx[c] > 0 /\ list # <<>>)
  BY <1>1, AttachMembers DEF attachx
<1>2. CASE idx[c] > 0 /\ list # <<>>
  <2> DEFINE Stops == {i \in DOMAIN list : StopsAt(list, c, idx, i)}
  <2>1. /\ Len(list) \in Nat /\ Len(list) >= 1
        /\ DOMAIN list = 1..Len(list) /\ list \in [1..Len(list) -> S]
    BY <1>2, LenProperties, EmptySeq
  <2>2. \A i \in 1..Len(list) : idx[list[i]] \in Nat
    BY <2>1
  <2>3. Len(list) \in Stops
    BY <2>1, <2>2 DEF StopsAt
  <2>4. Stops \in SUBSET Nat
    BY <2>1
  <2> HIDE DEF Stops
  <2>5. PICK i \in Stops : \A j \in Stops : i <= j
    BY <2>3, <2>4, LeastElement
  <2> DEFINE stop(n) == /\ StopsAt(list, c, idx, n)
                        /\ \A j \in 1..(n - 1) : ~StopsAt(list, c, idx, j)
             k == CHOOSE n \in DOMAIN list : stop(n)
  <2>6. i \in DOMAIN list /\ stop(i)
    BY <2>1, <2>5, SMTT(30) DEF Stops
  <2>7. k \in DOMAIN list /\ stop(k)
    BY <2>6
  <2>8. attachx(list, c, idx) =
            IF idx[c] < idx[list[k]] THEN attach(SubSeq(list, k, Len(list)), c)
            ELSE SubSeq(list, 1, k) \o <<c>> \o SubSeq(list, k + 1, Len(list))
    BY <1>2 DEF attachx
  <2> HIDE DEF k
  <2>9. CASE idx[c] < idx[list[k]]
    <3>1. k = 1
      <4> SUFFICES ASSUME k # 1 PROVE FALSE
        OBVIOUS
      <4>1. k - 1 \in 1..(k - 1) /\ k - 1 \in 1..Len(list) /\ k - 1 # Len(list) /\ (k - 1) + 1 = k
        BY <2>1, <2>7
      <4>2. ~StopsAt(list, c, idx, k - 1)
        BY <2>7, <4>1
      <4> QED
        BY <2>2, <2>7, <2>9, <4>1, <4>2 DEF StopsAt
    <3>2. SubSeq(list, 1, Len(list)) = list
      BY <2>1, SubSeqFull
    <3>3. attachx(list, c, idx) = attach(list, c)
      BY <2>8, <2>9, <3>1, <3>2
    <3> HIDE DEF stop
    <3> QED
      BY <3>3, AttachMembers
  <2>10. CASE ~(idx[c] < idx[list[k]])
    <3> DEFINE a == SubSeq(list, 1, k)
               b == SubSeq(list, k + 1, Len(list))
               u == <<c>>
    <3>0. 1 \in 1..(Len(list) + 1) /\ k \in 0..Len(list) /\ k + 1 \in 1..(Len(list) + 1)
          /\ Len(list) \in 0..Len(list)
      BY <2>1, <2>7
    <3> HIDE DEF stop
    <3>1. /\ a \in Seq(S) /\ (Distinct(list) => Distinct(a))
          /\ Members(a) = {list[n] : n \in 1..k}
      BY <3>0, SubSeqMembers
    <3>2. /\ b \in Seq(S) /\ (Distinct(list) => Distinct(b))
          /\ Members(b) = {list[n] : n \in (k + 1)..Len(list)}
      <4>1. PICK p \in 1..(Len(list) + 1) : p = k + 1
        BY <3>0
      <4>2. PICK e \in 0..Len(list) : e = Len(list)
        BY <3>0
      <4>3. /\ SubSeq(list, p, e) \in Seq(S) /\ (Distinct(list) => Distinct(SubSeq(list, p, e)))
            /\ Members(SubSeq(list, p, e)) = {list[n] : n \in p..e}
        BY SubSeqMembers
      <4> QED
        BY <4>1, <4>2, <4>3
    <3>3. u \in Seq(S) /\ Members(u) = {c} /\ Distinct(u)
      BY DEF Members, Distinct
    <3> HIDE DEF a, b, u
    <3>4. Members(list) = Members(a) \cup Members(b)
      <4>1. Members(list) = {list[n] : n \in 1..Len(list)}
        BY MembersOf
      <4>2. \A n \in 1..Len(list) : n \in 1..k \/ n \in (k + 1)..Len(list)
        BY <2>1, <2>7
      <4>3. (\A n \in 1..k : n \in 1..Len(list)) /\ \A n \in (k + 1)..Len(list) : n \in 1..Len(list)
        BY <2>1, <2>7
      <4> QED
        BY <3>1, <3>2, <4>1, <4>2, <4>3
    <3>5. ASSUME Distinct(list) PROVE Members(a) \cap Members(b) = {}
      <4>1. \A m \in 1..k, n \in (k + 1)..Len(list) : list[m] # list[n]
        BY <2>1, <2>7, <3>5, SMTT(30) DEF Distinct
      <4> QED
        BY <3>1, <3>2, <4>1
    <3>6. attachx(list, c, idx) = (a \o u) \o b
      BY <2>8, <2>10 DEF a, b, u
    <3>7. a \o u \in Seq(S) /\ Members(a \o u) = Members(a) \cup {c}
      <4>1. a \o u \in Seq(S) /\ Members(a \o u) = Members(a) \cup Members(u)
        BY <3>1, <3>3, ConcatMembers, ZenonT(60)
      <4> QED
        BY <3>3, <4>1
    <3>8. ASSUME Distinct(list), c \notin Members(list) PROVE Distinct(a \o u)
      <4>1. Members(a) \cap Members(u) = {}
        BY <3>3, <3>4, <3>8
      <4> QED
        BY <3>1, <3>3, <3>8, <4>1, ConcatMembers
    <3> DEFINE au == a \o u
    <3> HIDE DEF au
    <3>9. au \o b \in Seq(S) /\ Members(au \o b) = Members(list) \cup {c}
      <4>1. au \in Seq(S) /\ Members(au) = Members(a) \cup {c}
        BY <3>7 DEF au
      <4>2. au \o b \in Seq(S) /\ Members(au \o b) = Members(au) \cup Members(b)
        BY <3>2, <4>1, ConcatMembers
      <4> QED
        BY <3>4, <4>1, <4>2
    <3>10. ASSUME Distinct(list), c \notin Members(list) PROVE Distinct(au \o b)
      <4>1. au \in Seq(S) /\ Distinct(au) /\ Members(au) = Members(a) \cup {c}
        BY <3>7, <3>8, <3>10 DEF au
      <4>2. Members(au) \cap Members(b) = {}
        BY <3>4, <3>5, <3>10, <4>1
      <4> QED
        BY <3>2, <3>10, <4>1, <4>2, ConcatMembers
    <3> QED
      BY <3>6, <3>9, <3>10 DEF au
  <2> QED
    BY <2>9, <2>10
<1> QED
  BY <1>1, <1>2

-----------------------------------------------------------------------------
(* The loop of compute_reset_value: `upto` satisfies its recursion, and    *)
(* the running maximum is a positive bound of the intervals it has passed. *)
RunningMax(interval, n, f) ==
    f = [i \in 0..n |-> IF i = 0 THEN 1
                        ELSE IF interval[i] > f[i-1] THEN interval[i] ELSE f[i-1]]

LEMMA RunningMaxExists ==
    ASSUME NEW n \in Nat, NEW interval \in [1..n -> Nat]
    PROVE  \E f : RunningMax(interval, n, f)
<1> DEFINE T == Nat \ {0}
           step == [i \in 1..n |-> [v \in T |-> IF interval[i] > v THEN interval[i] ELSE v]]
<1>1. step \in [1..n -> [T -> T]] /\ 1 \in T
  OBVIOUS
<1>2. PICK g \in [0..n -> T] : Loop(g, n, 1, step)
  <2> HIDE DEF step, T
  <2> QED
    BY <1>1, LoopExists
<1>3. ASSUME NEW i \in 0..n
      PROVE  g[i] = IF i = 0 THEN 1
                    ELSE IF interval[i] > g[i-1] THEN interval[i] ELSE g[i-1]
  <2>1. CASE i = 0
    BY <1>2, <2>1 DEF Loop
  <2>2. CASE i # 0
    <3>1. i \in 1..n /\ i-1 \in 0..n /\ g[i-1] \in T
      BY <1>2, <2>2
    <3>2. g[i] = step[i][g[i-1]]
      BY <1>2, <2>2 DEF Loop
    <3> QED
      BY <2>2, <3>1, <3>2
  <2> QED
    BY <2>1, <2>2
<1> QED
  BY <1>2, <1>3 DEF RunningMax

LEMMA RunningMaxBounds ==
    ASSUME NEW n \in Nat, NEW interval \in [1..n -> Nat], NEW f, RunningMax(interval, n, f)
    PROVE  \A k \in 0..n : /\ f[k] \in Nat \ {0}
                           /\ \A i \in 1..k : interval[i] <= f[k]
<1> DEFINE Good(k) == f[k] \in Nat \ {0} /\ \A i \in 1..k : interval[i] <= f[k]
           Bad == {k \in 0..n : ~Good(k)}
<1> SUFFICES ASSUME Bad # {} PROVE FALSE
  OBVIOUS
<1>1. PICK k \in Bad : \A j \in Bad : k <= j
  <2>1. Bad \in SUBSET Nat
    OBVIOUS
  <2> HIDE DEF Bad
  <2> QED
    BY <2>1, LeastElement
<1>2. CASE k = 0
  <2>1. f[0] = 1
    BY DEF RunningMax
  <2> QED
    BY <1>1, <1>2, <2>1
<1>3. CASE k # 0
  <2>1. k \in 1..n /\ k-1 \in 0..n /\ Good(k-1)
    BY <1>1, <1>3
  <2>2. f[k] = IF interval[k] > f[k-1] THEN interval[k] ELSE f[k-1]
    BY <1>3, <2>1 DEF RunningMax
  <2>3. f[k] \in Nat \ {0} /\ interval[k] <= f[k] /\ f[k-1] <= f[k]
    BY <2>1, <2>2
  <2>4. ASSUME NEW i \in 1..k PROVE interval[i] <= f[k]
    <3>1. CASE i = k
      BY <2>3, <3>1
    <3>2. CASE i # k
      <4>1. i \in 1..(k-1) /\ interval[i] \in Nat /\ f[k-1] \in Nat
        BY <2>1, <3>2
      <4>2. interval[i] <= f[k-1]
        BY <2>1, <4>1
      <4> QED
        BY <2>3, <4>1, <4>2
    <3> QED
      BY <3>1, <3>2
  <2>5. Good(k)
    BY <2>3, <2>4
  <2> QED
    BY <1>1, <2>5
<1> QED
  BY <1>2, <1>3

(* The reset value is positive, so the wrap of timer_arm never divides by  *)
(* zero, and no interval is longer.                                        *)
THEOREM ResetValueBounds ==
    ASSUME NEW n \in Nat, NEW interval \in [1..n -> Nat]
    PROVE  /\ compute_reset_value(interval, n) \in Nat \ {0}
           /\ \A i \in 1..n : interval[i] <= compute_reset_value(interval, n)
<1> DEFINE upto == CHOOSE f : RunningMax(interval, n, f)
<1>1. compute_reset_value(interval, n) = upto[n]
  BY DEF compute_reset_value, RunningMax
<1>2. RunningMax(interval, n, upto)
  BY RunningMaxExists
<1> HIDE DEF upto
<1> QED
  BY <1>1, <1>2, RunningMaxBounds

-----------------------------------------------------------------------------
(* A function that satisfies the recursion of gcd for second arguments up  *)
(* to k.                                                                   *)
Euclid(f, k) ==
    f = [ab \in Nat \X (0..k) |->
            IF ab[2] = 0 THEN ab[1] ELSE f[<<ab[2], ab[1] % ab[2]>>]]

LEMMA ModBound ==
    ASSUME NEW a \in Nat, NEW b \in Nat \ {0}
    PROVE  a % b \in 0..(b-1)
OBVIOUS

LEMMA EuclidUnfold ==
    ASSUME NEW k \in Nat, NEW f, Euclid(f, k), NEW a \in Nat, NEW b \in 0..k
    PROVE  f[<<a, b>>] = IF b = 0 THEN a ELSE f[<<b, a % b>>]
<1>1. <<a, b>> \in Nat \X (0..k)
  OBVIOUS
<1> QED
  BY <1>1 DEF Euclid

LEMMA EuclidBase ==
    ASSUME NEW k \in Nat, NEW f, Euclid(f, k), NEW a \in Nat
    PROVE  f[<<a, 0>>] = a
<1>1. <<a, 0>> \in Nat \X (0..k)
  OBVIOUS
<1> QED
  BY <1>1 DEF Euclid

LEMMA EuclidExists ==
    ASSUME NEW n \in Nat
    PROVE  \E f : Euclid(f, n)
<1> DEFINE Bad == {k \in Nat : ~ \E f : Euclid(f, k)}
<1> SUFFICES ASSUME Bad # {} PROVE FALSE
  OBVIOUS
<1>1. PICK k \in Bad : \A j \in Bad : k <= j
  <2>1. Bad \in SUBSET Nat
    OBVIOUS
  <2> HIDE DEF Bad
  <2> QED
    BY <2>1, LeastElement
<1>2. CASE k = 0
  <2> DEFINE g == [ab \in Nat \X (0..0) |-> ab[1]]
  <2>1. Euclid(g, 0)
    BY DEF Euclid
  <2> QED
    BY <1>1, <1>2, <2>1
<1>3. CASE k # 0
  <2>1. k-1 \in Nat /\ k \in Nat /\ k-1 \notin Bad
    BY <1>1, <1>3
  <2>2. PICK f : Euclid(f, k-1)
    BY <2>1
  <2> DEFINE g == [ab \in Nat \X (0..k) |->
                      IF ab[2] = k THEN f[<<k, ab[1] % k>>] ELSE f[ab]]
  <2>3. ASSUME NEW a \in Nat, NEW b \in 0..k
        PROVE  g[<<a, b>>] = IF b = 0 THEN a ELSE g[<<b, a % b>>]
    <3>1. <<a, b>> \in Nat \X (0..k)
      OBVIOUS
    <3>2. CASE b = k
      <4>1. a % k \in 0..(k-1) /\ k \in Nat
        BY <1>3, <2>1, ModBound
      <4>2. g[<<a, b>>] = f[<<k, a % k>>]
        BY <3>1, <3>2
      <4>3. <<k, a % k>> \in Nat \X (0..k) /\ a % k # k
        BY <2>1, <4>1
      <4>4. g[<<k, a % k>>] = f[<<k, a % k>>]
        BY <4>3
      <4> QED
        BY <1>3, <3>2, <4>2, <4>4
    <3>3. CASE b \in 1..(k-1)
      <4>1. g[<<a, b>>] = f[<<a, b>>]
        BY <2>1, <3>1, <3>3
      <4>2. f[<<a, b>>] = f[<<b, a % b>>]
        BY <2>1, <2>2, <3>3, EuclidUnfold
      <4>3. a % b \in 0..(b-1)
        BY <3>3, ModBound
      <4>4. <<b, a % b>> \in Nat \X (0..k) /\ a % b # k
        BY <2>1, <3>3, <4>3
      <4>5. g[<<b, a % b>>] = f[<<b, a % b>>]
        BY <4>4
      <4> QED
        BY <3>3, <4>1, <4>2, <4>5
    <3>4. CASE b = 0
      <4>1. g[<<a, b>>] = f[<<a, b>>]
        <5>1. b # k
          BY <1>3, <3>4
        <5> QED
          BY <3>1, <5>1
      <4>2. f[<<a, 0>>] = a
        BY <2>1, <2>2, EuclidBase
      <4> QED
        BY <3>4, <4>1, <4>2
    <3> QED
      BY <2>1, <3>2, <3>3, <3>4
  <2>4. Euclid(g, k)
    <3>1. ASSUME NEW ab \in Nat \X (0..k)
          PROVE  g[ab] = IF ab[2] = 0 THEN ab[1] ELSE g[<<ab[2], ab[1] % ab[2]>>]
      <4>1. PICK a \in Nat, b \in 0..k : ab = <<a, b>>
        OBVIOUS
      <4> HIDE DEF g
      <4> QED
        BY <2>3, <4>1
    <3> QED
      BY <3>1 DEF Euclid
  <2> HIDE DEF g
  <2> QED
    BY <1>1, <2>4
<1> QED
  BY <1>2, <1>3

LEMMA EuclidAgree ==
    ASSUME NEW k \in Nat, NEW m \in Nat, k <= m, NEW f, NEW h, Euclid(f, k), Euclid(h, m)
    PROVE  \A b \in 0..k : \A a \in Nat : f[<<a, b>>] = h[<<a, b>>]
<1> DEFINE Bad == {b \in 0..k : \E a \in Nat : f[<<a, b>>] # h[<<a, b>>]}
<1> SUFFICES ASSUME Bad # {} PROVE FALSE
  OBVIOUS
<1>1. PICK b \in Bad : \A j \in Bad : b <= j
  <2>1. Bad \in SUBSET Nat
    OBVIOUS
  <2> HIDE DEF Bad
  <2> QED
    BY <2>1, LeastElement
<1>2. b \in 0..k /\ b \in 0..m
  OBVIOUS
<1>3. PICK a \in Nat : f[<<a, b>>] # h[<<a, b>>]
  OBVIOUS
<1>4. /\ f[<<a, b>>] = IF b = 0 THEN a ELSE f[<<b, a % b>>]
      /\ h[<<a, b>>] = IF b = 0 THEN a ELSE h[<<b, a % b>>]
  BY <1>2, EuclidUnfold
<1>5. CASE b = 0
  BY <1>3, <1>4, <1>5
<1>6. CASE b # 0
  <2>1. a % b \in 0..(b-1) /\ b \in Nat
    BY <1>2, <1>6, ModBound
  <2>2. a % b \in 0..k /\ a % b \notin Bad
    BY <1>1, <1>2, <2>1
  <2>3. f[<<b, a % b>>] = h[<<b, a % b>>]
    BY <2>1, <2>2
  <2> QED
    BY <1>3, <1>4, <1>6, <2>3
<1> QED
  BY <1>5, <1>6

(* The recursion of gcd has a solution on all pairs of naturals. *)
LEMMA gcd_unfold ==
    ASSUME NEW a \in Nat, NEW b \in Nat
    PROVE  gcd[<<a, b>>] = IF b = 0 THEN a ELSE gcd[<<b, a % b>>]
<1> DEFINE Sol(g) == g = [ab \in Nat \X Nat |->
                            IF ab[2] = 0 THEN ab[1] ELSE g[<<ab[2], ab[1] % ab[2]>>]]
           Below(k) == CHOOSE f : Euclid(f, k)
           G == [ab \in Nat \X Nat |-> Below(ab[2])[ab]]
<1>1. \A k \in Nat : Euclid(Below(k), k)
  BY EuclidExists
<1> HIDE DEF Below
<1>2. ASSUME NEW x \in Nat, NEW y \in Nat
      PROVE  G[<<x, y>>] = IF y = 0 THEN x ELSE G[<<y, x % y>>]
  <2>1. G[<<x, y>>] = Below(y)[<<x, y>>]
    OBVIOUS
  <2>2. Below(y)[<<x, y>>] = IF y = 0 THEN x ELSE Below(y)[<<y, x % y>>]
    BY <1>1, EuclidUnfold
  <2>3. CASE y = 0
    BY <2>1, <2>2, <2>3
  <2>4. CASE y # 0
    <3>1. x % y \in 0..(y-1) /\ x % y \in Nat
      BY <2>4, ModBound
    <3>2. G[<<y, x % y>>] = Below(x % y)[<<y, x % y>>]
      BY <3>1
    <3>3. Below(x % y)[<<y, x % y>>] = Below(y)[<<y, x % y>>]
      BY <1>1, <3>1, EuclidAgree
    <3> QED
      BY <2>1, <2>2, <2>4, <3>2, <3>3
  <2> QED
    BY <2>3, <2>4
<1> HIDE DEF G
<1>3. Sol(G)
  <2>1. ASSUME NEW ab \in Nat \X Nat
        PROVE  G[ab] = IF ab[2] = 0 THEN ab[1] ELSE G[<<ab[2], ab[1] % ab[2]>>]
    <3>1. PICK x \in Nat, y \in Nat : ab = <<x, y>>
      OBVIOUS
    <3> QED
      BY <1>2, <3>1
  <2>2. G = [ab \in Nat \X Nat |-> G[ab]]
    BY DEF G
  <2> QED
    BY <2>1, <2>2
<1>4. gcd = CHOOSE g : Sol(g)
  BY DEF gcd
<1>5. Sol(gcd)
  BY <1>3, <1>4
<1>6. <<a, b>> \in Nat \X Nat
  OBVIOUS
<1> QED
  BY <1>5, <1>6

-----------------------------------------------------------------------------
DividesNat(d, n) == \E q \in Nat : n = q * d

LEMMA DivMod ==
    ASSUME NEW a \in Nat, NEW b \in Nat \ {0}
    PROVE  a \div b \in Nat /\ a = b * (a \div b) + (a % b)
<1>1. a \div b \in Int /\ a \div b >= 0
  OBVIOUS
<1>2. a = b * (a \div b) + (a % b)
  BY SMTT(30)
<1> QED
  BY <1>1, <1>2

(* Multiples of d are closed under sum, and under difference in Nat. *)
LEMMA MulDistr ==
    ASSUME NEW x \in Int, NEW y \in Int, NEW d \in Int
    PROVE  x * d + y * d = (x + y) * d /\ x * d - y * d = (x - y) * d
OBVIOUS

LEMMA MulAssoc ==
    ASSUME NEW x \in Int, NEW y \in Int, NEW d \in Int
    PROVE  x * (y * d) = (x * y) * d /\ x * y \in Int
OBVIOUS

LEMMA MulSign ==
    ASSUME NEW x \in Int, NEW d \in Nat \ {0}, x * d \in Nat
    PROVE  x \in Nat
<1> SUFFICES ASSUME x < 0 PROVE FALSE
  OBVIOUS
<1>1. x * d < 0
  BY SMT
<1> QED
  BY <1>1

LEMMA DividesSum ==
    ASSUME NEW a \in Nat, NEW b \in Nat \ {0}, NEW d \in Nat,
           DividesNat(d, b), DividesNat(d, a % b)
    PROVE  DividesNat(d, a)
<1>1. PICK x \in Nat : b = x * d
  BY DEF DividesNat
<1>2. PICK y \in Nat : a % b = y * d
  BY DEF DividesNat
<1>3. PICK q \in Nat : a = b * q + (a % b)
  BY DivMod
<1>4. b * q = (q * x) * d /\ q * x \in Nat
  <2>1. b * q = q * (x * d)
    BY <1>1
  <2> QED
    BY <2>1, MulAssoc
<1>5. a = (q * x + y) * d
  BY <1>2, <1>3, <1>4, MulDistr
<1> QED
  BY <1>4, <1>5 DEF DividesNat

LEMMA DividesRest ==
    ASSUME NEW a \in Nat, NEW b \in Nat \ {0}, NEW d \in Nat,
           DividesNat(d, a), DividesNat(d, b)
    PROVE  DividesNat(d, a % b)
<1>1. PICK x \in Nat : a = x * d
  BY DEF DividesNat
<1>2. PICK y \in Nat : b = y * d
  BY DEF DividesNat
<1>3. PICK q \in Nat : a = b * q + (a % b)
  BY DivMod
<1>4. a % b \in Nat /\ q * y \in Nat
  BY ModBound
<1>5. b * q = (q * y) * d /\ b * q \in Nat
  <2>1. b * q = q * (y * d) /\ b * q \in Nat
    BY <1>2
  <2> QED
    BY <2>1, MulAssoc
<1>6. a % b = x * d - (q * y) * d
  <2> DEFINE m == b * q
             r == a % b
  <2>1. m \in Nat /\ r \in Nat /\ a = m + r
    BY <1>3, <1>4, <1>5
  <2> HIDE DEF m, r
  <2>2. r = a - m
    BY <2>1
  <2> QED
    BY <1>1, <1>5, <2>2 DEF m, r
<1>7. a % b = (x - q * y) * d
  BY <1>4, <1>6, MulDistr
<1>8. d # 0
  BY <1>2
<1>9. x - q * y \in Nat
  BY <1>4, <1>7, <1>8, MulSign
<1> QED
  BY <1>7, <1>9 DEF DividesNat

(* Euclid's algorithm ends with a common divisor of its arguments, and one *)
(* that every common divisor divides.                                      *)
THEOREM gcd_correct ==
    ASSUME NEW n \in Nat
    PROVE  \A a \in Nat :
              /\ gcd[<<a, n>>] \in Nat
              /\ DividesNat(gcd[<<a, n>>], a)
              /\ DividesNat(gcd[<<a, n>>], n)
              /\ \A d \in Nat : DividesNat(d, a) /\ DividesNat(d, n)
                                 => DividesNat(d, gcd[<<a, n>>])
<1> DEFINE Good(a, b) == /\ gcd[<<a, b>>] \in Nat
                         /\ DividesNat(gcd[<<a, b>>], a)
                         /\ DividesNat(gcd[<<a, b>>], b)
                         /\ \A d \in Nat : DividesNat(d, a) /\ DividesNat(d, b)
                                            => DividesNat(d, gcd[<<a, b>>])
           Bad == {b \in Nat : \E a \in Nat : ~Good(a, b)}
<1> SUFFICES ASSUME Bad # {} PROVE FALSE
  OBVIOUS
<1>1. PICK b \in Bad : \A j \in Bad : b <= j
  <2>1. Bad \in SUBSET Nat
    OBVIOUS
  <2> HIDE DEF Bad
  <2> QED
    BY <2>1, LeastElement
<1>2. PICK a \in Nat : ~Good(a, b)
  OBVIOUS
<1>3. b \in Nat
  OBVIOUS
<1>4. CASE b = 0
  <2>1. gcd[<<a, b>>] = a
    BY <1>3, <1>4, gcd_unfold
  <2>2. DividesNat(a, a) /\ DividesNat(a, 0)
    <3>1. a = 1 * a /\ 0 = 0 * a
      OBVIOUS
    <3> QED
      BY <3>1 DEF DividesNat
  <2> QED
    BY <1>2, <1>4, <2>1, <2>2
<1>5. CASE b # 0
  <2> DEFINE r == a % b
             g == gcd[<<b, r>>]
  <2>1. r \in 0..(b-1) /\ r \in Nat
    BY <1>3, <1>5, ModBound
  <2>2. Good(b, r)
    <3>1. r \notin Bad
      <4>1. ~(b <= r)
        BY <1>3, <2>1
      <4> HIDE DEF Bad, r
      <4> QED
        BY <1>1, <4>1
    <3> QED
      BY <1>3, <2>1, <3>1
  <2>3. gcd[<<a, b>>] = g
    BY <1>3, <1>5, gcd_unfold
  <2>4. g \in Nat /\ DividesNat(g, b) /\ DividesNat(g, r)
    BY <2>2
  <2> HIDE DEF g
  <2>5. DividesNat(g, a)
    BY <1>3, <1>5, <2>4, DividesSum
  <2>6. ASSUME NEW d \in Nat, DividesNat(d, a), DividesNat(d, b) PROVE DividesNat(d, g)
    <3>1. DividesNat(d, r)
      BY <1>3, <1>5, <2>6, DividesRest
    <3> QED
      BY <2>2, <2>6, <3>1 DEF g
  <2> QED
    BY <1>2, <2>3, <2>4, <2>5, <2>6
<1> QED
  BY <1>4, <1>5

-----------------------------------------------------------------------------
(* The loop of compute_tick. *)
RunningGcd(interval, n, f) ==
    f = [i \in 0..n |-> IF i = 0 THEN 0 ELSE gcd[<<interval[i], f[i-1]>>]]

(* d divides the first k intervals *)
Common(d, interval, k) == \A i \in 1..k : DividesNat(d, interval[i])

LEMMA RunningGcdExists ==
    ASSUME NEW n \in Nat, NEW interval \in [1..n -> Nat]
    PROVE  \E f : RunningGcd(interval, n, f)
<1> DEFINE step == [i \in 1..n |-> [v \in Nat |-> gcd[<<interval[i], v>>]]]
<1>1. step \in [1..n -> [Nat -> Nat]] /\ 0 \in Nat
  BY gcd_correct
<1>2. PICK g \in [0..n -> Nat] : Loop(g, n, 0, step)
  <2> HIDE DEF step
  <2> QED
    BY <1>1, LoopExists
<1>3. ASSUME NEW i \in 0..n
      PROVE  g[i] = IF i = 0 THEN 0 ELSE gcd[<<interval[i], g[i-1]>>]
  <2>1. CASE i = 0
    BY <1>2, <2>1 DEF Loop
  <2>2. CASE i # 0
    <3>1. i \in 1..n /\ i-1 \in 0..n /\ g[i-1] \in Nat
      BY <1>2, <2>2, SMTT(30)
    <3>2. g[i] = step[i][g[i-1]]
      BY <1>2, <2>2 DEF Loop
    <3> QED
      BY <2>2, <3>1, <3>2
  <2> QED
    BY <2>1, <2>2
<1> QED
  BY <1>2, <1>3 DEF RunningGcd

LEMMA RunningGcdCorrect ==
    ASSUME NEW n \in Nat, NEW interval \in [1..n -> Nat], NEW f, RunningGcd(interval, n, f)
    PROVE  \A k \in 0..n : /\ f[k] \in Nat
                           /\ Common(f[k], interval, k)
                           /\ \A d \in Nat : Common(d, interval, k) => DividesNat(d, f[k])
<1> DEFINE Good(k) == /\ f[k] \in Nat
                      /\ Common(f[k], interval, k)
                      /\ \A d \in Nat : Common(d, interval, k) => DividesNat(d, f[k])
           Bad == {k \in 0..n : ~Good(k)}
<1> SUFFICES ASSUME Bad # {} PROVE FALSE
  OBVIOUS
<1>1. PICK k \in Bad : \A j \in Bad : k <= j
  <2>1. Bad \in SUBSET Nat
    OBVIOUS
  <2> HIDE DEF Bad
  <2> QED
    BY <2>1, LeastElement
<1>2. CASE k = 0
  <2>1. f[0] = 0
    <3>1. 0 \in 0..n
      OBVIOUS
    <3> QED
      BY <3>1 DEF RunningGcd
  <2>2. \A d \in Nat : DividesNat(d, 0)
    <3>1. \A d \in Nat : 0 = 0 * d
      OBVIOUS
    <3> QED
      BY <3>1 DEF DividesNat
  <2>3. Common(0, interval, 0)
    BY DEF Common
  <2>4. Good(0)
    BY <2>1, <2>2, <2>3
  <2> QED
    BY <1>1, <1>2, <2>4
<1>3. CASE k # 0
  <2> DEFINE a == interval[k]
             b == f[k-1]
             g == gcd[<<a, b>>]
  <2>1. k \in 1..n /\ k-1 \in 0..n /\ k-1 \notin Bad /\ a \in Nat
    BY <1>1, <1>3
  <2>2. Good(k-1)
    BY <2>1
  <2>3. f[k] = g
    BY <1>3, <2>1 DEF RunningGcd
  <2>4. /\ g \in Nat /\ DividesNat(g, a) /\ DividesNat(g, b)
        /\ \A d \in Nat : DividesNat(d, a) /\ DividesNat(d, b) => DividesNat(d, g)
    BY <2>1, <2>2, gcd_correct
  <2> HIDE DEF g
  <2>5. Common(g, interval, k-1)
    <3> SUFFICES ASSUME NEW i \in 1..(k-1) PROVE DividesNat(g, interval[i])
      BY DEF Common
    <3>1. PICK x \in Nat : b = x * g
      BY <2>4 DEF DividesNat
    <3>2. PICK y \in Nat : interval[i] = y * b
      BY <2>2 DEF Common, DividesNat
    <3>3. interval[i] = (y * x) * g /\ y * x \in Nat
      BY <2>4, <3>1, <3>2, MulAssoc
    <3> QED
      BY <3>3 DEF DividesNat
  <2>6. Common(g, interval, k)
    <3>1. \A i \in 1..k : i = k \/ i \in 1..(k-1)
      BY <2>1
    <3> QED
      BY <2>4, <2>5, <3>1 DEF Common
  <2>7. \A d \in Nat : Common(d, interval, k) => DividesNat(d, g)
    <3> SUFFICES ASSUME NEW d \in Nat, Common(d, interval, k) PROVE DividesNat(d, g)
      OBVIOUS
    <3>1. DividesNat(d, a) /\ Common(d, interval, k-1)
      BY <2>1 DEF Common
    <3> QED
      BY <2>2, <2>4, <3>1
  <2>8. Good(k)
    BY <2>3, <2>4, <2>6, <2>7
  <2> QED
    BY <1>1, <2>8
<1> QED
  BY <1>2, <1>3

(* The period of the alarm divides the interval of every block, so every   *)
(* block's turn falls on an alarm, and every common divisor of the         *)
(* intervals divides it, so that there is no useless alarm.                *)
THEOREM TickCorrect ==
    ASSUME NEW n \in Nat, NEW interval \in [1..n -> Nat]
    PROVE  LET tick == compute_tick(interval, n)
           IN  /\ tick \in Nat
               /\ \A i \in 1..n : DividesNat(tick, interval[i])
               /\ \A d \in Nat : (\A i \in 1..n : DividesNat(d, interval[i]))
                                   => DividesNat(d, tick)
<1> DEFINE upto == CHOOSE f : RunningGcd(interval, n, f)
<1>1. compute_tick(interval, n) = upto[n]
  BY DEF compute_tick, RunningGcd
<1>2. RunningGcd(interval, n, upto)
  BY RunningGcdExists
<1> HIDE DEF upto
<1>3. n \in 0..n
  OBVIOUS
<1> QED
  BY <1>1, <1>2, <1>3, RunningGcdCorrect DEF Common

=============================================================================
