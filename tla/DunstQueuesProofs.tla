------------------------- MODULE DunstQueuesProofs -------------------------
(***************************************************************************)
(* The queues of dunst, for every number of notifications and ids, every   *)
(* limit, and every set of kinds and behaviours that is named below.       *)
(*                                                                         *)
(* The inductive invariant is QueuesInv; its part about the queues is      *)
(* Good(s, H, L): no notification is in two queues (Apart), what is held   *)
(* has an id that was given (Known), the ids in use and the notifications  *)
(* to be signalled are paired (Paired, where clients are Tidy), the queues *)
(* are sorted (Ordered, where replacements are Graded).  Every function of *)
(* queues.c keeps Good; H and L say what it may hold and what may be       *)
(* locked, so that the answer of a menu can unlock one notification after  *)
(* the other and free the rest.  Settled says what the last update left    *)
(* behind: how full the window is, and by whom.                            *)
(*                                                                         *)
(* The loops of queues_update visit a queue that they take elements from.  *)
(* Suffix says that what has not been visited is still at the end of it,   *)
(* also when closing by id takes another element than the one visited.     *)
(* The last loop swaps one pair after the other: ServedBut says that those *)
(* who have not been served yet become fewer.                              *)
(***************************************************************************)
EXTENDS DunstQueues, AlgorithmProofs, FiniteSetTheorems

(* A struct notification, as far as the queues read it. *)
NoteRec == [kind : Kinds \cup {NoKind}, id : Nat, valid : BOOLEAN, expires : BOOLEAN,
            actions : BOOLEAN, redisplayed : BOOLEAN, locked : BOOLEAN,
            closure : BOOLEAN, removal : BOOLEAN]

(* The values that q can have. *)
Memory == [displayed : Seq(Note), waiting : Seq(Note), history : Seq(Note),
           n : [Note -> NoteRec], next : Nat, open : SUBSET Nat]

(* No notification is in two queues, or twice in one. *)
Apart(s) ==
    /\ Distinct(s.displayed) /\ Distinct(s.waiting) /\ Distinct(s.history)
    /\ Elems(s.displayed) \cap Elems(s.waiting) = {}
    /\ Elems(s.displayed) \cap Elems(s.history) = {}
    /\ Elems(s.waiting) \cap Elems(s.history) = {}

(* What is in a queue has been received, under an id that has been given. *)
Known(s) ==
    /\ \A o \in Held(s) : s.n[o].id \in 1..s.next /\ s.n[o].kind \in Kinds
    /\ s.open \subseteq 1..s.next

(* Programs only ask to replace ids in use, and what they replace by has   *)
(* text: the others break the promises about ids.                          *)
Tidy ==
    \A use \in Uses :
        /\ "replace closed" \notin use
        /\ "replace" \in use \/ "regrade" \in use => \A kind \in Kinds : ~kind.empty

(* An id belongs to one notification, and the ids in use to those that     *)
(* will be signalled as closed: they are displayed or wait, and have not   *)
(* come back from the history.                                             *)
Paired(s) ==
    /\ \A o, p \in Held(s) : s.n[o].id = s.n[p].id => o = p
    /\ \A o \in Held(s) : s.n[o].valid =>
          /\ o \in Elems(s.displayed) \cup Elems(s.waiting)
          /\ ~s.n[o].redisplayed /\ s.n[o].id \in s.open
    /\ \A id \in s.open : \E o \in Held(s) : s.n[o].valid /\ s.n[o].id = id

(* The urgent ones come first. *)
Falling(n, list) ==
    \A i, j \in 1..Len(list) : i < j => n[list[j]].kind.urgency <= n[list[i]].kind.urgency

Ordered(s) == Falling(s.n, s.displayed) /\ Falling(s.n, s.waiting)

(* What takes the place of another notification is as urgent: the others   *)
(* leave the queues unsorted.                                              *)
Graded ==
    /\ \A use \in Uses : "regrade" \notin use /\ "replace closed" \notin use
    /\ \A a, b \in Kinds : a.tag # 0 /\ a.tag = b.tag => a.urgency = b.urgency

(* The queues hold some of H, and what is locked is in L.                  *)
Good(s, H, L) ==
    /\ s \in Memory /\ Apart(s) /\ Known(s)
    /\ HistoryLength > 0 => Len(s.history) <= HistoryLength
    /\ Held(s) \subseteq H
    /\ \A o \in Note : s.n[o].locked => o \in L
    /\ Tidy => Paired(s)
    /\ Graded => Ordered(s)

-----------------------------------------------------------------------------
(* A loop of visits: after the k-th the state is in I[k].                  *)
LEMMA VisitsKeep ==
    ASSUME NEW n \in Nat, NEW I, NEW f, f[0] \in I[0],
           \A k \in 1..n : f[k - 1] \in I[k - 1] => f[k] \in I[k]
    PROVE  \A k \in 0..n : f[k] \in I[k]
<1> DEFINE Bad == {k \in 0..n : f[k] \notin I[k]}
<1>1. Bad \in SUBSET Nat
  OBVIOUS
<1>2. Bad = {}
  <2> SUFFICES ASSUME Bad # {} PROVE FALSE
    OBVIOUS
  <2>1. PICK k \in Bad : \A j \in Bad : k <= j
    <3> HIDE DEF Bad
    <3> QED
      BY <1>1, LeastElement
  <2>2. k \in 0..n /\ k # 0
    BY <2>1
  <2>3. k \in 1..n /\ k - 1 \in 0..n /\ k - 1 \notin Bad
    BY <2>1, <2>2
  <2> QED
    BY <2>1, <2>3
<1> QED
  BY <1>2

(* f[k] is what the first k visits make of s; V[k] is the k-th visit. *)
Visited(f, n, s, V) == f = [k \in 0..n |-> IF k = 0 THEN s ELSE V[k][f[k - 1]]]

(* The loop exists, and its values satisfy what the visits preserve. *)
LEMMA VisitsExist ==
    ASSUME NEW n \in Nat, NEW I, NEW V, NEW s \in I[0],
           \A k \in 1..n : \A t \in I[k - 1] : V[k][t] \in I[k]
    PROVE  \E f : Visited(f, n, s, V) /\ \A k \in 0..n : f[k] \in I[k]
<1> DEFINE T == UNION {I[k] : k \in 0..n}
           step == [k \in 1..n |-> [t \in T |-> IF t \in I[k - 1] THEN V[k][t] ELSE s]]
<1>1. s \in T
  OBVIOUS
<1>2. \A k \in 1..n : \A t \in T : (IF t \in I[k - 1] THEN V[k][t] ELSE s) \in T
  BY <1>1
<1> HIDE DEF T
<1>3. step \in [1..n -> [T -> T]]
  BY <1>2
<1>4. \A k \in 1..n : \A t \in I[k - 1] : t \in T
  <2>1. \A k \in 1..n : k - 1 \in 0..n
    OBVIOUS
  <2> QED
    BY <2>1 DEF T
<1>5. \A k \in 1..n : \A t \in I[k - 1] : step[k][t] = V[k][t]
  BY <1>4
<1> HIDE DEF step
<1>6. PICK f \in [0..n -> T] : Loop(f, n, s, step)
  BY <1>1, <1>3, LoopExists
<1>7. \A k \in 0..n : f[k] = IF k = 0 THEN s ELSE step[k][f[k - 1]]
  BY <1>6 DEF Loop
<1>8. \A k \in 0..n : f[k] \in I[k]
  <2>1. f[0] \in I[0]
    BY <1>7
  <2>2. ASSUME NEW k \in 1..n, f[k - 1] \in I[k - 1] PROVE f[k] \in I[k]
    <3>1. f[k] = step[k][f[k - 1]] /\ step[k][f[k - 1]] = V[k][f[k - 1]]
      BY <1>5, <1>7, <2>2
    <3> QED
      BY <2>2, <3>1
  <2> QED
    BY <2>1, <2>2, VisitsKeep
<1>9. ASSUME NEW k \in 0..n PROVE f[k] = IF k = 0 THEN s ELSE V[k][f[k - 1]]
  <2>1. CASE k = 0
    BY <1>7, <2>1
  <2>2. CASE k # 0
    <3>1. k \in 1..n /\ k - 1 \in 0..n
      BY <2>2
    <3> QED
      BY <1>5, <1>7, <1>8, <2>2, <3>1
  <2> QED
    BY <2>1, <2>2
<1>10. f = [k \in 0..n |-> f[k]]
  BY <1>6
<1>11. Visited(f, n, s, V)
  BY <1>9, <1>10 DEF Visited
<1> QED
  BY <1>8, <1>11

(* move_back with one visit after the other. *)
LEMMA MoveBackIs ==
    ASSUME NEW s, NEW st, s.displayed \in Seq(Note), NEW I, s \in I[0],
           \A k \in 1..Len(s.displayed) : \A t \in I[k - 1] :
               stays_or_goes(t, st, s.displayed[k]) \in I[k]
    PROVE  move_back(s, st) \in I[Len(s.displayed)]
<1> DEFINE list == s.displayed
           n == Len(list)
           Is(f) == f = [k \in 0..n |->
                           IF k = 0 THEN s
                           ELSE CHOOSE r \in {stays_or_goes(t, st, list[k]) : t \in {f[k - 1]}} : TRUE]
           V == [k \in 1..n |-> [t \in I[k - 1] |-> stays_or_goes(t, st, list[k])]]
           after == CHOOSE f : Is(f)
<1>1. n \in Nat
  BY LenProperties
<1>2. \A k \in 1..n : \A t \in I[k - 1] : V[k][t] \in I[k]
  OBVIOUS
<1>3. PICK f : Visited(f, n, s, V) /\ \A k \in 0..n : f[k] \in I[k]
  <2> HIDE DEF n, V, list, Is, after
  <2>1. s \in I[0]
    OBVIOUS
  <2>2. \A k \in 1..n : \A t \in I[k - 1] : V[k][t] \in I[k]
    BY <1>2
  <2>3. \E f : Visited(f, n, s, V) /\ \A k \in 0..n : f[k] \in I[k]
    BY ONLY <1>1, <2>1, <2>2, VisitsExist
  <2> QED
    BY <2>3
<1>4. \A x : (CHOOSE r \in {x} : TRUE) = x
  OBVIOUS
<1>5. Is(f)
  <2>1. ASSUME NEW k \in 0..n
        PROVE  f[k] = IF k = 0 THEN s
                      ELSE CHOOSE r \in {stays_or_goes(t, st, list[k]) : t \in {f[k - 1]}} : TRUE
    <3>1. CASE k = 0
      BY <1>3, <3>1 DEF Visited
    <3>2. CASE k # 0
      <4>1. k \in 1..n /\ f[k - 1] \in I[k - 1]
        <5>1. k \in 1..n /\ k - 1 \in 0..n
          BY <1>1, <3>2
        <5> QED
          BY <1>3, <5>1
      <4>2. f[k] = V[k][f[k - 1]]
        BY <1>3, <3>2 DEF Visited
      <4>3. {stays_or_goes(t, st, list[k]) : t \in {f[k - 1]}} = {V[k][f[k - 1]]}
        BY <4>1
      <4> QED
        BY <1>4, <3>2, <4>2, <4>3
    <3> QED
      BY <3>1, <3>2
  <2> QED
    BY <1>3, <2>1 DEF Visited
<1>6. Is(after)
  BY <1>5
<1> HIDE DEF after
<1>7. after[0] \in I[0]
  BY <1>1, <1>6
<1>8. ASSUME NEW k \in 1..n, after[k - 1] \in I[k - 1] PROVE after[k] \in I[k]
  <2>1. after[k] = CHOOSE r \in {stays_or_goes(t, st, list[k]) : t \in {after[k - 1]}} : TRUE
    BY <1>6
  <2>2. {stays_or_goes(t, st, list[k]) : t \in {after[k - 1]}} = {stays_or_goes(after[k - 1], st, list[k])}
    OBVIOUS
  <2>3. after[k] = stays_or_goes(after[k - 1], st, list[k])
    BY <1>4, <2>1, <2>2
  <2> QED
    BY <1>8, <2>3
<1>9. after[n] \in I[n]
  <2> HIDE DEF n
  <2>1. \A k \in 0..n : after[k] \in I[k]
    BY <1>1, <1>7, <1>8, VisitsKeep
  <2> QED
    BY <1>1, <2>1
<1>10. move_back(s, st) = after[n]
  BY DEF move_back, InTurn, after
<1> QED
  BY <1>9, <1>10

(* show_waiting. *)
LEMMA ShowWaitingIs ==
    ASSUME NEW s, NEW st, NEW limit, s.waiting \in Seq(Note), NEW I, s \in I[0],
           \A k \in 1..Len(s.waiting) : \A t \in I[k - 1] :
               shown_if_ready(t, st, limit, s.waiting[k]) \in I[k]
    PROVE  show_waiting(s, st, limit) \in I[Len(s.waiting)]
<1> DEFINE list == s.waiting
           n == Len(list)
           Is(f) == f = [k \in 0..n |->
                           IF k = 0 THEN s
                           ELSE CHOOSE r \in {shown_if_ready(t, st, limit, list[k]) : t \in {f[k - 1]}} : TRUE]
           V == [k \in 1..n |-> [t \in I[k - 1] |-> shown_if_ready(t, st, limit, list[k])]]
           after == CHOOSE f : Is(f)
<1>1. n \in Nat
  BY LenProperties
<1>2. \A k \in 1..n : \A t \in I[k - 1] : V[k][t] \in I[k]
  OBVIOUS
<1>3. PICK f : Visited(f, n, s, V) /\ \A k \in 0..n : f[k] \in I[k]
  <2> HIDE DEF n, V, list, Is, after
  <2>1. s \in I[0]
    OBVIOUS
  <2>2. \A k \in 1..n : \A t \in I[k - 1] : V[k][t] \in I[k]
    BY <1>2
  <2>3. \E f : Visited(f, n, s, V) /\ \A k \in 0..n : f[k] \in I[k]
    BY ONLY <1>1, <2>1, <2>2, VisitsExist
  <2> QED
    BY <2>3
<1>4. \A x : (CHOOSE r \in {x} : TRUE) = x
  OBVIOUS
<1>5. Is(f)
  <2>1. ASSUME NEW k \in 0..n
        PROVE  f[k] = IF k = 0 THEN s
                      ELSE CHOOSE r \in {shown_if_ready(t, st, limit, list[k]) : t \in {f[k - 1]}} : TRUE
    <3>1. CASE k = 0
      BY <1>3, <3>1 DEF Visited
    <3>2. CASE k # 0
      <4>1. k \in 1..n /\ f[k - 1] \in I[k - 1]
        <5>1. k \in 1..n /\ k - 1 \in 0..n
          BY <1>1, <3>2
        <5> QED
          BY <1>3, <5>1
      <4>2. f[k] = V[k][f[k - 1]]
        BY <1>3, <3>2 DEF Visited
      <4>3. {shown_if_ready(t, st, limit, list[k]) : t \in {f[k - 1]}} = {V[k][f[k - 1]]}
        BY <4>1
      <4> QED
        BY <1>4, <3>2, <4>2, <4>3
    <3> QED
      BY <3>1, <3>2
  <2> QED
    BY <1>3, <2>1 DEF Visited
<1>6. Is(after)
  BY <1>5
<1> HIDE DEF after
<1>7. after[0] \in I[0]
  BY <1>1, <1>6
<1>8. ASSUME NEW k \in 1..n, after[k - 1] \in I[k - 1] PROVE after[k] \in I[k]
  <2>1. after[k] = CHOOSE r \in {shown_if_ready(t, st, limit, list[k]) : t \in {after[k - 1]}} : TRUE
    BY <1>6
  <2>2. {shown_if_ready(t, st, limit, list[k]) : t \in {after[k - 1]}} = {shown_if_ready(after[k - 1], st, limit, list[k])}
    OBVIOUS
  <2>3. after[k] = shown_if_ready(after[k - 1], st, limit, list[k])
    BY <1>4, <2>1, <2>2
  <2> QED
    BY <1>8, <2>3
<1>9. after[n] \in I[n]
  <2> HIDE DEF n
  <2>1. \A k \in 0..n : after[k] \in I[k]
    BY <1>1, <1>7, <1>8, VisitsKeep
  <2> QED
    BY <1>1, <2>1
<1>10. show_waiting(s, st, limit) = after[n]
  BY DEF show_waiting, InTurn, after
<1> QED
  BY <1>9, <1>10

(* push_back, with more displayed than the limit. *)
LEMMA PushBackIs ==
    ASSUME NEW s, NEW limit \in Nat, s.displayed \in Seq(Note),
           Len(s.displayed) > limit, NEW I, s \in I[0],
           \A k \in 1..(Len(s.displayed) - limit) : \A t \in I[k - 1] :
               last_waits(t) \in I[k]
    PROVE  push_back(s, limit) \in I[(Len(s.displayed) - limit)]
<1> DEFINE list == [k \in 1..(Len(s.displayed) - limit) |-> k]
           n == Len(list)
           Is(f) == f = [k \in 0..n |->
                           IF k = 0 THEN s
                           ELSE CHOOSE r \in {last_waits(t) : t \in {f[k - 1]}} : TRUE]
           V == [k \in 1..n |-> [t \in I[k - 1] |-> last_waits(t)]]
           after == CHOOSE f : Is(f)
<1>1. n \in Nat /\ n = (Len(s.displayed) - limit)
  <2>1. list \in [1..(Len(s.displayed) - limit) -> Nat] /\ (Len(s.displayed) - limit) \in Nat
    BY LenProperties
  <2> HIDE DEF list
  <2> QED
    BY <2>1, FunctionIsSeq
<1> HIDE DEF n
<1>2. \A k \in 1..n : \A t \in I[k - 1] : V[k][t] \in I[k]
  BY <1>1
<1>3. PICK f : Visited(f, n, s, V) /\ \A k \in 0..n : f[k] \in I[k]
  <2> HIDE DEF V, list, Is, after
  <2>1. s \in I[0]
    OBVIOUS
  <2>2. \A k \in 1..n : \A t \in I[k - 1] : V[k][t] \in I[k]
    BY <1>2
  <2>3. \E f : Visited(f, n, s, V) /\ \A k \in 0..n : f[k] \in I[k]
    BY ONLY <1>1, <2>1, <2>2, VisitsExist
  <2> QED
    BY <2>3
<1>4. \A x : (CHOOSE r \in {x} : TRUE) = x
  OBVIOUS
<1>5. Is(f)
  <2>1. ASSUME NEW k \in 0..n
        PROVE  f[k] = IF k = 0 THEN s
                      ELSE CHOOSE r \in {last_waits(t) : t \in {f[k - 1]}} : TRUE
    <3>1. CASE k = 0
      BY <1>3, <3>1 DEF Visited
    <3>2. CASE k # 0
      <4>1. k \in 1..n /\ f[k - 1] \in I[k - 1]
        <5>1. k \in 1..n /\ k - 1 \in 0..n
          BY <1>1, <3>2
        <5> QED
          BY <1>3, <5>1
      <4>2. f[k] = V[k][f[k - 1]]
        BY <1>3, <3>2 DEF Visited
      <4>3. {last_waits(t) : t \in {f[k - 1]}} = {V[k][f[k - 1]]}
        BY <4>1
      <4> QED
        BY <1>4, <3>2, <4>2, <4>3
    <3> QED
      BY <3>1, <3>2
  <2> QED
    BY <1>3, <2>1 DEF Visited
<1>6. Is(after)
  BY <1>5
<1> HIDE DEF after
<1>7. after[0] \in I[0]
  BY <1>1, <1>6
<1>8. ASSUME NEW k \in 1..n, after[k - 1] \in I[k - 1] PROVE after[k] \in I[k]
  <2>1. after[k] = CHOOSE r \in {last_waits(t) : t \in {after[k - 1]}} : TRUE
    BY <1>6
  <2>2. {last_waits(t) : t \in {after[k - 1]}} = {last_waits(after[k - 1])}
    OBVIOUS
  <2>3. after[k] = last_waits(after[k - 1])
    BY <1>4, <2>1, <2>2
  <2>4. last_waits(after[k - 1]) \in I[k]
    BY <1>1, <1>8
  <2> QED
    BY <2>3, <2>4
<1>9. after[n] \in I[n]
  <2>1. \A k \in 0..n : after[k] \in I[k]
    BY <1>1, <1>7, <1>8, VisitsKeep
  <2> QED
    BY <1>1, <2>1
<1>10. push_back(s, limit) = after[n]
  <2>1. ~(Len(s.displayed) <= limit)
    BY LenProperties
  <2>2. push_back(s, limit) = InTurn(LAMBDA t, k : last_waits(t), s, [k \in 1..(Len(s.displayed) - limit) |-> k])
    BY <2>1 DEF push_back
  <2> QED
    BY <2>2 DEF InTurn, after, n
<1> QED
  BY <1>1, <1>9, <1>10

(* seep, with as many displayed as the limit. *)
LEMMA SeepIs ==
    ASSUME NEW s, NEW st, NEW limit, s.waiting \in Seq(Note),
           Len(s.displayed) = limit, NEW I, s \in I[0],
           \A k \in 1..Len(s.waiting) : \A t \in I[k - 1] :
               swap_notifications(t, st) \in I[k]
    PROVE  seep(s, st, limit) \in I[Len(s.waiting)]
<1> DEFINE list == [k \in 1..Len(s.waiting) |-> k]
           n == Len(list)
           Is(f) == f = [k \in 0..n |->
                           IF k = 0 THEN s
                           ELSE CHOOSE r \in {swap_notifications(t, st) : t \in {f[k - 1]}} : TRUE]
           V == [k \in 1..n |-> [t \in I[k - 1] |-> swap_notifications(t, st)]]
           after == CHOOSE f : Is(f)
<1>1. n \in Nat /\ n = Len(s.waiting)
  <2>1. list \in [1..Len(s.waiting) -> Nat] /\ Len(s.waiting) \in Nat
    BY LenProperties
  <2> HIDE DEF list
  <2> QED
    BY <2>1, FunctionIsSeq
<1> HIDE DEF n
<1>2. \A k \in 1..n : \A t \in I[k - 1] : V[k][t] \in I[k]
  BY <1>1
<1>3. PICK f : Visited(f, n, s, V) /\ \A k \in 0..n : f[k] \in I[k]
  <2> HIDE DEF V, list, Is, after
  <2>1. s \in I[0]
    OBVIOUS
  <2>2. \A k \in 1..n : \A t \in I[k - 1] : V[k][t] \in I[k]
    BY <1>2
  <2>3. \E f : Visited(f, n, s, V) /\ \A k \in 0..n : f[k] \in I[k]
    BY ONLY <1>1, <2>1, <2>2, VisitsExist
  <2> QED
    BY <2>3
<1>4. \A x : (CHOOSE r \in {x} : TRUE) = x
  OBVIOUS
<1>5. Is(f)
  <2>1. ASSUME NEW k \in 0..n
        PROVE  f[k] = IF k = 0 THEN s
                      ELSE CHOOSE r \in {swap_notifications(t, st) : t \in {f[k - 1]}} : TRUE
    <3>1. CASE k = 0
      BY <1>3, <3>1 DEF Visited
    <3>2. CASE k # 0
      <4>1. k \in 1..n /\ f[k - 1] \in I[k - 1]
        <5>1. k \in 1..n /\ k - 1 \in 0..n
          BY <1>1, <3>2
        <5> QED
          BY <1>3, <5>1
      <4>2. f[k] = V[k][f[k - 1]]
        BY <1>3, <3>2 DEF Visited
      <4>3. {swap_notifications(t, st) : t \in {f[k - 1]}} = {V[k][f[k - 1]]}
        BY <4>1
      <4> QED
        BY <1>4, <3>2, <4>2, <4>3
    <3> QED
      BY <3>1, <3>2
  <2> QED
    BY <1>3, <2>1 DEF Visited
<1>6. Is(after)
  BY <1>5
<1> HIDE DEF after
<1>7. after[0] \in I[0]
  BY <1>1, <1>6
<1>8. ASSUME NEW k \in 1..n, after[k - 1] \in I[k - 1] PROVE after[k] \in I[k]
  <2>1. after[k] = CHOOSE r \in {swap_notifications(t, st) : t \in {after[k - 1]}} : TRUE
    BY <1>6
  <2>2. {swap_notifications(t, st) : t \in {after[k - 1]}} = {swap_notifications(after[k - 1], st)}
    OBVIOUS
  <2>3. after[k] = swap_notifications(after[k - 1], st)
    BY <1>4, <2>1, <2>2
  <2>4. swap_notifications(after[k - 1], st) \in I[k]
    BY <1>1, <1>8
  <2> QED
    BY <2>3, <2>4
<1>9. after[n] \in I[n]
  <2>1. \A k \in 0..n : after[k] \in I[k]
    BY <1>1, <1>7, <1>8, VisitsKeep
  <2> QED
    BY <1>1, <2>1
<1>10. seep(s, st, limit) = after[n]
  <2>1. Len(s.displayed) = limit
    BY LenProperties
  <2>2. seep(s, st, limit) = InTurn(LAMBDA t, k : swap_notifications(t, st), s, [k \in 1..Len(s.waiting) |-> k])
    BY <2>1 DEF seep
  <2> QED
    BY <2>2 DEF InTurn, after, n
<1> QED
  BY <1>1, <1>9, <1>10

(* close_each. *)
LEMMA CloseEachIs ==
    ASSUME NEW s, NEW list \in Seq(Note), NEW I, s \in I[0],
           \A k \in 1..Len(list) : \A t \in I[k - 1] :
               close(t, list[k]) \in I[k]
    PROVE  close_each(s, list) \in I[Len(list)]
<1> DEFINE n == Len(list)
           Is(f) == f = [k \in 0..n |->
                           IF k = 0 THEN s
                           ELSE CHOOSE r \in {close(t, list[k]) : t \in {f[k - 1]}} : TRUE]
           V == [k \in 1..n |-> [t \in I[k - 1] |-> close(t, list[k])]]
           after == CHOOSE f : Is(f)
<1>1. n \in Nat
  BY LenProperties
<1>2. \A k \in 1..n : \A t \in I[k - 1] : V[k][t] \in I[k]
  OBVIOUS
<1>3. PICK f : Visited(f, n, s, V) /\ \A k \in 0..n : f[k] \in I[k]
  <2> HIDE DEF n, V, Is, after
  <2>1. s \in I[0]
    OBVIOUS
  <2>2. \A k \in 1..n : \A t \in I[k - 1] : V[k][t] \in I[k]
    BY <1>2
  <2>3. \E f : Visited(f, n, s, V) /\ \A k \in 0..n : f[k] \in I[k]
    BY ONLY <1>1, <2>1, <2>2, VisitsExist
  <2> QED
    BY <2>3
<1>4. \A x : (CHOOSE r \in {x} : TRUE) = x
  OBVIOUS
<1>5. Is(f)
  <2>1. ASSUME NEW k \in 0..n
        PROVE  f[k] = IF k = 0 THEN s
                      ELSE CHOOSE r \in {close(t, list[k]) : t \in {f[k - 1]}} : TRUE
    <3>1. CASE k = 0
      BY <1>3, <3>1 DEF Visited
    <3>2. CASE k # 0
      <4>1. k \in 1..n /\ f[k - 1] \in I[k - 1]
        <5>1. k \in 1..n /\ k - 1 \in 0..n
          BY <1>1, <3>2
        <5> QED
          BY <1>3, <5>1
      <4>2. f[k] = V[k][f[k - 1]]
        BY <1>3, <3>2 DEF Visited
      <4>3. {close(t, list[k]) : t \in {f[k - 1]}} = {V[k][f[k - 1]]}
        BY <4>1
      <4> QED
        BY <1>4, <3>2, <4>2, <4>3
    <3> QED
      BY <3>1, <3>2
  <2> QED
    BY <1>3, <2>1 DEF Visited
<1>6. Is(after)
  BY <1>5
<1> HIDE DEF after
<1>7. after[0] \in I[0]
  BY <1>1, <1>6
<1>8. ASSUME NEW k \in 1..n, after[k - 1] \in I[k - 1] PROVE after[k] \in I[k]
  <2>1. after[k] = CHOOSE r \in {close(t, list[k]) : t \in {after[k - 1]}} : TRUE
    BY <1>6
  <2>2. {close(t, list[k]) : t \in {after[k - 1]}} = {close(after[k - 1], list[k])}
    OBVIOUS
  <2>3. after[k] = close(after[k - 1], list[k])
    BY <1>4, <2>1, <2>2
  <2> QED
    BY <1>8, <2>3
<1>9. after[n] \in I[n]
  <2> HIDE DEF n
  <2>1. \A k \in 0..n : after[k] \in I[k]
    BY <1>1, <1>7, <1>8, VisitsKeep
  <2> QED
    BY <1>1, <2>1
<1>10. close_each(s, list) = after[n]
  BY DEF close_each, InTurn, after
<1> QED
  BY <1>9, <1>10

(* dispatch_all. *)
LEMMA DispatchAllIs ==
    ASSUME NEW s, NEW list \in Seq(Note), NEW seen, NEW chosen, NEW I, s \in I[0],
           \A k \in 1..Len(list) : \A t \in I[k - 1] :
               (IF list[k] \in seen THEN dispatch(t, list[k], chosen) ELSE t) \in I[k]
    PROVE  dispatch_all(s, list, seen, chosen) \in I[Len(list)]
<1> DEFINE n == Len(list)
           Is(f) == f = [k \in 0..n |->
                           IF k = 0 THEN s
                           ELSE CHOOSE r \in {IF list[k] \in seen THEN dispatch(t, list[k], chosen) ELSE t : t \in {f[k - 1]}} : TRUE]
           V == [k \in 1..n |-> [t \in I[k - 1] |-> IF list[k] \in seen THEN dispatch(t, list[k], chosen) ELSE t]]
           after == CHOOSE f : Is(f)
<1>1. n \in Nat
  BY LenProperties
<1>2. \A k \in 1..n : \A t \in I[k - 1] : V[k][t] \in I[k]
  OBVIOUS
<1>3. PICK f : Visited(f, n, s, V) /\ \A k \in 0..n : f[k] \in I[k]
  <2> HIDE DEF n, V, Is, after
  <2>1. s \in I[0]
    OBVIOUS
  <2>2. \A k \in 1..n : \A t \in I[k - 1] : V[k][t] \in I[k]
    BY <1>2
  <2>3. \E f : Visited(f, n, s, V) /\ \A k \in 0..n : f[k] \in I[k]
    BY ONLY <1>1, <2>1, <2>2, VisitsExist
  <2> QED
    BY <2>3
<1>4. \A x : (CHOOSE r \in {x} : TRUE) = x
  OBVIOUS
<1>5. Is(f)
  <2>1. ASSUME NEW k \in 0..n
        PROVE  f[k] = IF k = 0 THEN s
                      ELSE CHOOSE r \in {IF list[k] \in seen THEN dispatch(t, list[k], chosen) ELSE t : t \in {f[k - 1]}} : TRUE
    <3>1. CASE k = 0
      BY <1>3, <3>1 DEF Visited
    <3>2. CASE k # 0
      <4>1. k \in 1..n /\ f[k - 1] \in I[k - 1]
        <5>1. k \in 1..n /\ k - 1 \in 0..n
          BY <1>1, <3>2
        <5> QED
          BY <1>3, <5>1
      <4>2. f[k] = V[k][f[k - 1]]
        BY <1>3, <3>2 DEF Visited
      <4>3. {IF list[k] \in seen THEN dispatch(t, list[k], chosen) ELSE t : t \in {f[k - 1]}} = {V[k][f[k - 1]]}
        BY <4>1
      <4> QED
        BY <1>4, <3>2, <4>2, <4>3
    <3> QED
      BY <3>1, <3>2
  <2> QED
    BY <1>3, <2>1 DEF Visited
<1>6. Is(after)
  BY <1>5
<1> HIDE DEF after
<1>7. after[0] \in I[0]
  BY <1>1, <1>6
<1>8. ASSUME NEW k \in 1..n, after[k - 1] \in I[k - 1] PROVE after[k] \in I[k]
  <2>1. after[k] = CHOOSE r \in {IF list[k] \in seen THEN dispatch(t, list[k], chosen) ELSE t : t \in {after[k - 1]}} : TRUE
    BY <1>6
  <2>2. {IF list[k] \in seen THEN dispatch(t, list[k], chosen) ELSE t : t \in {after[k - 1]}} = {IF list[k] \in seen THEN dispatch(after[k - 1], list[k], chosen) ELSE after[k - 1]}
    OBVIOUS
  <2>3. after[k] = IF list[k] \in seen THEN dispatch(after[k - 1], list[k], chosen) ELSE after[k - 1]
    BY <1>4, <2>1, <2>2
  <2> QED
    BY <1>8, <2>3
<1>9. after[n] \in I[n]
  <2> HIDE DEF n
  <2>1. \A k \in 0..n : after[k] \in I[k]
    BY <1>1, <1>7, <1>8, VisitsKeep
  <2> QED
    BY <1>1, <2>1
<1>10. dispatch_all(s, list, seen, chosen) = after[n]
  BY DEF dispatch_all, InTurn, after
<1> QED
  BY <1>9, <1>10

(* get_actionable_notifications. *)
LEMMA ActionableIs ==
    ASSUME q.displayed \in Seq(Note), NEW I, <<>> \in I[0],
           \A k \in 1..Len(q.displayed) : \A t \in I[k - 1] :
               lock_if_actionable(t, q.displayed[k]) \in I[k]
    PROVE  get_actionable_notifications \in I[Len(q.displayed)]
<1> DEFINE list == q.displayed
           n == Len(list)
           Is(f) == f = [k \in 0..n |->
                           IF k = 0 THEN <<>>
                           ELSE CHOOSE r \in {lock_if_actionable(t, list[k]) : t \in {f[k - 1]}} : TRUE]
           V == [k \in 1..n |-> [t \in I[k - 1] |-> lock_if_actionable(t, list[k])]]
           after == CHOOSE f : Is(f)
<1>1. n \in Nat
  BY LenProperties
<1>2. \A k \in 1..n : \A t \in I[k - 1] : V[k][t] \in I[k]
  OBVIOUS
<1>3. PICK f : Visited(f, n, <<>>, V) /\ \A k \in 0..n : f[k] \in I[k]
  <2> HIDE DEF n, V, list, Is, after
  <2>1. <<>> \in I[0]
    OBVIOUS
  <2>2. \A k \in 1..n : \A t \in I[k - 1] : V[k][t] \in I[k]
    BY <1>2
  <2>3. \E f : Visited(f, n, <<>>, V) /\ \A k \in 0..n : f[k] \in I[k]
    BY ONLY <1>1, <2>1, <2>2, VisitsExist
  <2> QED
    BY <2>3
<1>4. \A x : (CHOOSE r \in {x} : TRUE) = x
  OBVIOUS
<1>5. Is(f)
  <2>1. ASSUME NEW k \in 0..n
        PROVE  f[k] = IF k = 0 THEN <<>>
                      ELSE CHOOSE r \in {lock_if_actionable(t, list[k]) : t \in {f[k - 1]}} : TRUE
    <3>1. CASE k = 0
      BY <1>3, <3>1 DEF Visited
    <3>2. CASE k # 0
      <4>1. k \in 1..n /\ f[k - 1] \in I[k - 1]
        <5>1. k \in 1..n /\ k - 1 \in 0..n
          BY <1>1, <3>2
        <5> QED
          BY <1>3, <5>1
      <4>2. f[k] = V[k][f[k - 1]]
        BY <1>3, <3>2 DEF Visited
      <4>3. {lock_if_actionable(t, list[k]) : t \in {f[k - 1]}} = {V[k][f[k - 1]]}
        BY <4>1
      <4> QED
        BY <1>4, <3>2, <4>2, <4>3
    <3> QED
      BY <3>1, <3>2
  <2> QED
    BY <1>3, <2>1 DEF Visited
<1>6. Is(after)
  BY <1>5
<1> HIDE DEF after
<1>7. after[0] \in I[0]
  BY <1>1, <1>6
<1>8. ASSUME NEW k \in 1..n, after[k - 1] \in I[k - 1] PROVE after[k] \in I[k]
  <2>1. after[k] = CHOOSE r \in {lock_if_actionable(t, list[k]) : t \in {after[k - 1]}} : TRUE
    BY <1>6, SMTT(30)
  <2>2. {lock_if_actionable(t, list[k]) : t \in {after[k - 1]}} = {lock_if_actionable(after[k - 1], list[k])}
    OBVIOUS
  <2>3. after[k] = lock_if_actionable(after[k - 1], list[k])
    BY <1>4, <2>1, <2>2
  <2> QED
    BY <1>8, <2>3
<1>9. after[n] \in I[n]
  <2> HIDE DEF n
  <2>1. \A k \in 0..n : after[k] \in I[k]
    BY <1>1, <1>7, <1>8, VisitsKeep
  <2> QED
    BY <1>1, <2>1
<1>10. get_actionable_notifications = after[n]
  BY DEF get_actionable_notifications, InTurn, after
<1> QED
  BY <1>9, <1>10

-----------------------------------------------------------------------------
(* What the operators on lists make of them: Elems and Members are the     *)
(* same, and None is no notification.                                      *)
LEMMA ElemsOf ==
    ASSUME NEW S, NEW list \in Seq(S)
    PROVE  /\ Elems(list) = Members(list) /\ Elems(list) = {list[k] : k \in 1..Len(list)}
           /\ Elems(list) \subseteq S /\ Len(list) \in Nat /\ DOMAIN list = 1..Len(list)
           /\ list \in [1..Len(list) -> S]
<1>1. Elems(list) = Members(list)
  BY DEF Elems, Members
<1>2. list \in [1..Len(list) -> S]
  BY LenProperties
<1> QED
  BY <1>1, <1>2, MembersOf

(* The list without its i-th element. *)
LEMMA RemoveAtIs ==
    ASSUME NEW S, NEW list \in Seq(S), NEW i \in 1..Len(list)
    PROVE  /\ RemoveAt(list, i) \in Seq(S)
           /\ Len(RemoveAt(list, i)) = Len(list) - 1
           /\ \A j \in 1..(Len(list) - 1) :
                 RemoveAt(list, i)[j] = IF j < i THEN list[j] ELSE list[j + 1]
<1> DEFINE a == SubSeq(list, 1, i - 1)
           b == SubSeq(list, i + 1, Len(list))
<1>1. Len(list) \in Nat /\ list \in [1..Len(list) -> S]
  BY LenProperties
<1>2. \A k \in 1..(i - 1) : list[k] \in S
  BY <1>1
<1>3. \A k \in (i + 1)..Len(list) : list[k] \in S
  BY <1>1
<1>4. /\ a \in Seq(S) /\ Len(a) = i - 1
      /\ \A j \in 1..(i - 1) : a[j] = list[j]
  <2>1. /\ a \in Seq(S) /\ Len(a) = IF 1 <= i - 1 THEN (i - 1) - 1 + 1 ELSE 0
        /\ \A j \in 1..((i - 1) - 1 + 1) : a[j] = list[1 + j - 1]
    BY <1>1, <1>2, SubSeqProperties
  <2> HIDE DEF a
  <2>2. \A j \in 1..(i - 1) : j \in 1..((i - 1) - 1 + 1) /\ 1 + j - 1 = j
    BY <1>1
  <2> QED
    BY <1>1, <2>1, <2>2
<1>5. /\ b \in Seq(S) /\ Len(b) = Len(list) - i
      /\ \A j \in 1..(Len(list) - i) : b[j] = list[i + j]
  <2>1. /\ b \in Seq(S) /\ Len(b) = IF i + 1 <= Len(list) THEN Len(list) - (i + 1) + 1 ELSE 0
        /\ \A j \in 1..(Len(list) - (i + 1) + 1) : b[j] = list[(i + 1) + j - 1]
    BY <1>1, <1>3, SubSeqProperties
  <2> HIDE DEF b
  <2>2. Len(b) = Len(list) - i
    <3>1. CASE i + 1 <= Len(list)
      BY <1>1, <2>1, <3>1
    <3>2. CASE ~(i + 1 <= Len(list))
      <4>1. i = Len(list)
        <5>1. Len(list) \in Nat /\ i \in Nat /\ i <= Len(list)
          BY <1>1
        <5> QED
          BY ONLY <3>2, <5>1
      <4> QED
        BY <1>1, <2>1, <3>2, <4>1
    <3> QED
      BY <3>1, <3>2
  <2>3. ASSUME NEW j \in 1..(Len(list) - i) PROVE b[j] = list[i + j]
    <3>1. j \in 1..(Len(list) - (i + 1) + 1) /\ (i + 1) + j - 1 = i + j
      BY <1>1
    <3>2. b[j] = list[(i + 1) + j - 1]
      BY <2>1, <3>1
    <3> QED
      BY <3>1, <3>2
  <2> QED
    BY <2>1, <2>2, <2>3
<1> HIDE DEF a, b
<1>6. /\ a \o b \in Seq(S) /\ Len(a \o b) = Len(a) + Len(b)
      /\ \A j \in 1..(Len(a) + Len(b)) : (a \o b)[j] = IF j <= Len(a) THEN a[j] ELSE b[j - Len(a)]
  BY <1>4, <1>5, ConcatProperties
<1>7. ASSUME NEW j \in 1..(Len(list) - 1)
      PROVE  (a \o b)[j] = IF j < i THEN list[j] ELSE list[j + 1]
  <2>1. (a \o b)[j] = IF j <= Len(a) THEN a[j] ELSE b[j - Len(a)]
    BY <1>1, <1>4, <1>5, <1>6
  <2>2. CASE j < i
    BY <1>1, <1>4, <2>1, <2>2
  <2>3. CASE ~(j < i)
    <3>1. j - (i - 1) \in 1..(Len(list) - i) /\ i + (j - (i - 1)) = j + 1
      BY <1>1, <2>3
    <3>2. b[j - (i - 1)] = list[j + 1]
      BY <1>5, <3>1
    <3> QED
      BY <1>1, <1>4, <2>1, <2>3, <3>2
  <2> QED
    BY <2>2, <2>3
<1>8. RemoveAt(list, i) = a \o b
  BY DEF RemoveAt, a, b
<1>9. Len(a) + Len(b) = Len(list) - 1
  BY <1>1, <1>4, <1>5
<1> QED
  BY <1>6, <1>7, <1>8, <1>9

(* The least element of a set of positions, as Min chooses it.             *)
LEMMA FirstPosition ==
    ASSUME NEW n \in Nat, NEW I \in SUBSET (1..n), I # {}
    PROVE  /\ Min(I) \in I
           /\ \A j \in I : Min(I) <= j
<1>1. I \in SUBSET Nat
  OBVIOUS
<1>2. PICK i \in I : \A j \in I : i <= j
  BY <1>1, LeastElement
<1>3. Min(I) = CHOOSE x \in I : \A y \in I : x <= y
  BY DEF Min
<1> QED
  BY <1>2, <1>3

(* RemoveFirst takes out the first occurrence, if there is one.            *)
LEMMA RemoveFirstAt ==
    ASSUME NEW S, NEW list \in Seq(S), NEW e
    PROVE  \/ e \notin Elems(list) /\ RemoveFirst(list, e) = list
           \/ \E i \in 1..Len(list) :
                 /\ list[i] = e /\ \A j \in 1..(i - 1) : list[j] # e
                 /\ RemoveFirst(list, e) = RemoveAt(list, i)
<1> DEFINE I == {i \in 1..Len(list) : list[i] = e}
<1>1. Elems(list) = {list[k] : k \in 1..Len(list)} /\ Len(list) \in Nat
  BY ElemsOf
<1>2. CASE I = {}
  <2>1. ~ \E i \in 1..Len(list) : list[i] = e
    BY <1>2
  <2>2. RemoveFirst(list, e) = list
    BY <2>1 DEF RemoveFirst
  <2> QED
    BY <1>1, <2>1, <2>2
<1>3. CASE I # {}
  <2>1. \E i \in 1..Len(list) : list[i] = e
    BY <1>3
  <2>2. SelectInSeq(list, LAMBDA v : v = e) = Min(I)
    BY <1>3 DEF SelectInSeq
  <2>3. RemoveFirst(list, e) = RemoveAt(list, Min(I))
    BY <2>1, <2>2 DEF RemoveFirst
  <2>4. I \in SUBSET (1..Len(list))
    OBVIOUS
  <2>5. Min(I) \in I /\ \A j \in I : Min(I) <= j
    <3> HIDE DEF I
    <3> QED
      BY <1>1, <1>3, <2>4, FirstPosition
  <2>6. ASSUME NEW j \in 1..(Min(I) - 1) PROVE list[j] # e
    BY <1>1, <2>5
  <2> QED
    BY <2>3, <2>5, <2>6
<1> QED
  BY <1>2, <1>3

(* The others are still there, in their order. *)
LEMMA RemovedElems ==
    ASSUME NEW S, NEW list \in Seq(S), NEW e, Distinct(list)
    PROVE  /\ RemoveFirst(list, e) \in Seq(S)
           /\ Elems(RemoveFirst(list, e)) = Elems(list) \ {e}
           /\ Distinct(RemoveFirst(list, e))
           /\ Len(RemoveFirst(list, e)) <= Len(list)
           /\ e \in Elems(list) => Len(RemoveFirst(list, e)) = Len(list) - 1
<1>1. Elems(list) = {list[k] : k \in 1..Len(list)} /\ Len(list) \in Nat /\ DOMAIN list = 1..Len(list)
  BY ElemsOf
<1>2. CASE e \notin Elems(list) /\ RemoveFirst(list, e) = list
  <2>1. Elems(list) \ {e} = Elems(list)
    BY <1>2
  <2> HIDE <1>1
  <2>2. Elems(RemoveFirst(list, e)) = Elems(list) \ {e}
    BY <1>2, <2>1
  <2>3. Len(RemoveFirst(list, e)) <= Len(list)
    BY <1>1, <1>2
  <2> QED
    BY <1>2, <2>2, <2>3
<1>3. ASSUME NEW i \in 1..Len(list), list[i] = e, RemoveFirst(list, e) = RemoveAt(list, i)
      PROVE  /\ RemoveFirst(list, e) \in Seq(S)
             /\ Elems(RemoveFirst(list, e)) = Elems(list) \ {e}
             /\ Distinct(RemoveFirst(list, e))
             /\ Len(RemoveFirst(list, e)) = Len(list) - 1
  <2> DEFINE r == RemoveFirst(list, e)
  <2>1. /\ r \in Seq(S) /\ Len(r) = Len(list) - 1
        /\ \A j \in 1..(Len(list) - 1) : r[j] = IF j < i THEN list[j] ELSE list[j + 1]
    BY <1>3, RemoveAtIs
  <2> HIDE DEF r
  <2>2. Elems(r) = {r[k] : k \in 1..Len(r)} /\ DOMAIN r = 1..Len(r)
    BY <2>1, ElemsOf
  <2>3. \A j, k \in 1..Len(list) : list[j] = list[k] => j = k
    BY <1>1 DEF Distinct
  <2>4. ASSUME NEW j \in 1..Len(r)
        PROVE  \E k \in 1..Len(list) : k # i /\ r[j] = list[k] /\ k = IF j < i THEN j ELSE j + 1
    BY <1>1, <2>1
  <2>5. ASSUME NEW k \in 1..Len(list), k # i PROVE \E j \in 1..Len(r) : r[j] = list[k]
    <3>1. CASE k < i
      BY <1>1, <2>1, <3>1
    <3>2. CASE k > i
      <4>1. k - 1 \in 1..(Len(list) - 1) /\ ~(k - 1 < i) /\ (k - 1) + 1 = k
        BY <1>1, <3>2
      <4> QED
        BY <2>1, <4>1
    <3> QED
      BY <1>1, <2>5, <3>1, <3>2
  <2>6. Elems(r) = Elems(list) \ {e}
    BY <1>1, <1>3, <2>2, <2>3, <2>4, <2>5
  <2>7. Distinct(r)
    <3> SUFFICES ASSUME NEW j \in 1..Len(r), NEW k \in 1..Len(r), r[j] = r[k] PROVE j = k
      BY <2>2 DEF Distinct
    <3>1. PICK jj \in 1..Len(list) : r[j] = list[jj] /\ jj = IF j < i THEN j ELSE j + 1
      BY <2>4
    <3>2. PICK kk \in 1..Len(list) : r[k] = list[kk] /\ kk = IF k < i THEN k ELSE k + 1
      BY <2>4
    <3>3. jj = kk
      BY <2>3, <3>1, <3>2
    <3> QED
      BY <1>1, <2>1, <3>1, <3>2, <3>3
  <2> QED
    BY <2>1, <2>6, <2>7 DEF r
<1>4. CASE \E i \in 1..Len(list) : list[i] = e /\ RemoveFirst(list, e) = RemoveAt(list, i)
  <2>1. e \in Elems(list)
    BY <1>1, <1>4
  <2>2. /\ RemoveFirst(list, e) \in Seq(S)
        /\ Elems(RemoveFirst(list, e)) = Elems(list) \ {e}
        /\ Distinct(RemoveFirst(list, e))
        /\ Len(RemoveFirst(list, e)) = Len(list) - 1
    BY <1>3, <1>4
  <2> QED
    BY <1>1, <2>2
<1> QED
  BY <1>2, <1>4, RemoveFirstAt

(* The elements after the removed one keep their place from the end.       *)
LEMMA RemovedSuffix ==
    ASSUME NEW S, NEW list \in Seq(S), NEW e,
           NEW p \in 1..Len(list), \E i \in 1..p : list[i] = e
    PROVE  /\ Len(RemoveFirst(list, e)) = Len(list) - 1
           /\ \A j \in p..(Len(list) - 1) : RemoveFirst(list, e)[j] = list[j + 1]
<1>1. Elems(list) = {list[k] : k \in 1..Len(list)} /\ Len(list) \in Nat
  BY ElemsOf
<1>2. PICK h \in 1..p : list[h] = e
  OBVIOUS
<1>3. e \in Elems(list)
  BY <1>1, <1>2
<1>4. PICK i \in 1..Len(list) : /\ list[i] = e /\ \A j \in 1..(i - 1) : list[j] # e
                                /\ RemoveFirst(list, e) = RemoveAt(list, i)
  BY <1>3, RemoveFirstAt
<1>5. i <= h
  BY <1>1, <1>2, <1>4
<1>6. /\ Len(RemoveFirst(list, e)) = Len(list) - 1
      /\ \A j \in 1..(Len(list) - 1) :
            RemoveFirst(list, e)[j] = IF j < i THEN list[j] ELSE list[j + 1]
  BY <1>4, RemoveAtIs, ZenonT(60)
<1> QED
  BY <1>1, <1>2, <1>5, <1>6

(* One more element at the i-th place, the others around it.               *)
LEMMA InsertAtIs ==
    ASSUME NEW S, NEW list \in Seq(S), NEW i \in 1..(Len(list) + 1), NEW e \in S
    PROVE  /\ InsertAt(list, i, e) \in Seq(S)
           /\ Len(InsertAt(list, i, e)) = Len(list) + 1
           /\ Elems(InsertAt(list, i, e)) = Elems(list) \cup {e}
           /\ Distinct(list) /\ e \notin Elems(list) => Distinct(InsertAt(list, i, e))
<1> DEFINE a == SubSeq(list, 1, i - 1)
           b == SubSeq(list, i, Len(list))
           u == <<e>>
           au == a \o u
<1>1. Elems(list) = {list[k] : k \in 1..Len(list)} /\ Len(list) \in Nat
  BY ElemsOf
<1>2. 1 \in 1..(Len(list) + 1) /\ i - 1 \in 0..Len(list) /\ Len(list) \in 0..Len(list)
  BY <1>1
<1>3. /\ a \in Seq(S) /\ Members(a) = {list[k] : k \in 1..(i - 1)}
      /\ Distinct(list) => Distinct(a)
  BY <1>2, SubSeqMembers
<1>4. /\ b \in Seq(S) /\ Members(b) = {list[k] : k \in i..Len(list)}
      /\ Distinct(list) => Distinct(b)
  BY <1>2, SubSeqMembers
<1>5. u \in Seq(S) /\ Members(u) = {e} /\ Distinct(u) /\ Len(u) = 1
  BY DEF Members, Distinct
<1>6. Len(a) = i - 1 /\ Len(b) = Len(list) - (i - 1)
  <2>1. list \in [1..Len(list) -> S]
    BY LenProperties
  <2>2. (\A k \in 1..(i - 1) : list[k] \in S) /\ \A k \in i..Len(list) : list[k] \in S
    BY <1>1, <2>1
  <2>3. Len(a) = IF 1 <= i - 1 THEN (i - 1) - 1 + 1 ELSE 0
    BY <1>1, <2>2, SubSeqProperties
  <2>4. Len(b) = IF i <= Len(list) THEN Len(list) - i + 1 ELSE 0
    BY <1>1, <2>2, SubSeqProperties
  <2>5. i \in Nat /\ 1 <= i /\ i <= Len(list) + 1
    BY <1>1
  <2> HIDE DEF a, b
  <2> QED
    BY ONLY <1>1, <2>3, <2>4, <2>5
<1> HIDE DEF a, b, u
<1>7. au \in Seq(S) /\ Members(au) = Members(a) \cup Members(u) /\ Len(au) = i
  <2>1. Len(au) = Len(a) + Len(u)
    BY <1>3, <1>5, ConcatProperties
  <2> QED
    BY <1>1, <1>3, <1>5, <1>6, <2>1, ConcatMembers, SMTT(30)
<1>8. Distinct(list) /\ e \notin Elems(list) => Distinct(au)
  <2>1. e \notin Elems(list) => Members(a) \cap Members(u) = {}
    <3>1. \A k \in 1..(i - 1) : k \in 1..Len(list)
      BY <1>1
    <3> QED
      BY <1>1, <1>3, <1>5, <3>1
  <2> QED
    BY <1>3, <1>5, <2>1, ConcatMembers
<1> HIDE DEF au
<1>9. /\ au \o b \in Seq(S) /\ Members(au \o b) = Members(au) \cup Members(b)
      /\ Len(au \o b) = Len(list) + 1
  <2>1. Len(au \o b) = Len(au) + Len(b)
    BY <1>4, <1>7, ConcatProperties
  <2>2. au \o b \in Seq(S) /\ Members(au \o b) = Members(au) \cup Members(b)
    BY <1>4, <1>7, ConcatMembers
  <2> QED
    BY <1>1, <1>6, <1>7, <2>1, <2>2
<1>10. Members(au \o b) = Elems(list) \cup {e}
  <2>1. \A k \in 1..Len(list) : k \in 1..(i - 1) \/ k \in i..Len(list)
    BY <1>1
  <2>2. (\A k \in 1..(i - 1) : k \in 1..Len(list)) /\ \A k \in i..Len(list) : k \in 1..Len(list)
    BY <1>1
  <2> QED
    BY <1>1, <1>3, <1>4, <1>5, <1>7, <1>9, <2>1, <2>2
<1>11. Distinct(list) /\ e \notin Elems(list) => Distinct(au \o b)
  <2> SUFFICES ASSUME Distinct(list), e \notin Elems(list) PROVE Distinct(au \o b)
    OBVIOUS
  <2>1. \A k \in 1..(i - 1) : \A l \in i..Len(list) : list[k] # list[l]
    <3>1. DOMAIN list = 1..Len(list)
      BY ElemsOf
    <3> QED
      BY <1>1, <3>1 DEF Distinct
  <2>2. \A l \in i..Len(list) : list[l] # e
    BY <1>1
  <2>3. Members(au) \cap Members(b) = {}
    BY <1>3, <1>4, <1>5, <1>7, <2>1, <2>2
  <2> QED
    BY <1>4, <1>7, <1>8, <2>3, ConcatMembers
<1>12. InsertAt(list, i, e) = au \o b
  BY DEF InsertAt, au, a, b, u
<1>13. Elems(au \o b) = Members(au \o b)
  BY <1>9, ElemsOf
<1> QED
  BY <1>9, <1>10, <1>11, <1>12, <1>13

(* The element at each place after one more has gone to the i-th.          *)
LEMMA InsertAtPlaces ==
    ASSUME NEW S, NEW list \in Seq(S), NEW i \in 1..(Len(list) + 1), NEW e \in S
    PROVE  \A j \in 1..(Len(list) + 1) :
              InsertAt(list, i, e)[j] = IF j < i THEN list[j] ELSE IF j = i THEN e ELSE list[j - 1]
<1> DEFINE a == SubSeq(list, 1, i - 1)
           b == SubSeq(list, i, Len(list))
           u == <<e>>
           au == a \o u
<1>1. Len(list) \in Nat /\ list \in [1..Len(list) -> S] /\ i \in Nat /\ 1 <= i /\ i <= Len(list) + 1
  BY LenProperties
<1>2. /\ a \in Seq(S) /\ Len(a) = i - 1
      /\ \A j \in 1..(i - 1) : a[j] = list[j]
  <2>1. \A k \in 1..(i - 1) : list[k] \in S
    BY <1>1
  <2>2. /\ a \in Seq(S) /\ Len(a) = IF 1 <= i - 1 THEN (i - 1) - 1 + 1 ELSE 0
        /\ \A j \in 1..((i - 1) - 1 + 1) : a[j] = list[1 + j - 1]
    BY <1>1, <2>1, SubSeqProperties
  <2> HIDE DEF a
  <2>3. \A j \in 1..(i - 1) : j \in 1..((i - 1) - 1 + 1) /\ 1 + j - 1 = j
    BY <1>1
  <2> QED
    BY <1>1, <2>2, <2>3
<1>3. /\ b \in Seq(S) /\ Len(b) = Len(list) - (i - 1)
      /\ \A j \in 1..(Len(list) - (i - 1)) : b[j] = list[i + j - 1]
  <2>1. \A k \in i..Len(list) : list[k] \in S
    BY <1>1
  <2>2. /\ b \in Seq(S) /\ Len(b) = IF i <= Len(list) THEN Len(list) - i + 1 ELSE 0
        /\ \A j \in 1..(Len(list) - i + 1) : b[j] = list[i + j - 1]
    BY <1>1, <2>1, SubSeqProperties
  <2> HIDE DEF b
  <2>3. Len(list) - i + 1 = Len(list) - (i - 1)
    BY <1>1
  <2> QED
    BY <1>1, <2>2, <2>3
<1>4. u \in Seq(S) /\ Len(u) = 1 /\ u[1] = e
  OBVIOUS
<1> HIDE DEF a, b, u
<1>5. /\ au \in Seq(S) /\ Len(au) = i
      /\ \A j \in 1..i : au[j] = IF j < i THEN list[j] ELSE e
  <2>1. /\ au \in Seq(S) /\ Len(au) = Len(a) + Len(u)
        /\ \A j \in 1..(Len(a) + Len(u)) : au[j] = IF j <= Len(a) THEN a[j] ELSE u[j - Len(a)]
    BY <1>2, <1>4, ConcatProperties
  <2> HIDE DEF au
  <2>2. ASSUME NEW j \in 1..i PROVE au[j] = IF j < i THEN list[j] ELSE e
    <3>1. CASE j < i
      BY <1>1, <1>2, <1>4, <2>1, <3>1
    <3>2. CASE j = i
      <4>1. ~(j <= Len(a)) /\ j - Len(a) = 1 /\ j \in 1..(Len(a) + Len(u))
        BY <1>1, <1>2, <1>4, <3>2
      <4> QED
        BY <1>4, <2>1, <3>2, <4>1
    <3> QED
      BY <1>1, <3>1, <3>2
  <2> QED
    BY <1>1, <1>2, <1>4, <2>1, <2>2
<1> HIDE DEF au
<1>6. \A j \in 1..(Len(au) + Len(b)) : (au \o b)[j] = IF j <= Len(au) THEN au[j] ELSE b[j - Len(au)]
  BY <1>3, <1>5, ConcatProperties
<1>7. InsertAt(list, i, e) = au \o b
  BY DEF InsertAt, au, a, b, u
<1>8. ASSUME NEW j \in 1..(Len(list) + 1)
      PROVE  (au \o b)[j] = IF j < i THEN list[j] ELSE IF j = i THEN e ELSE list[j - 1]
  <2>1. (au \o b)[j] = IF j <= i THEN au[j] ELSE b[j - i]
    BY <1>1, <1>3, <1>5, <1>6
  <2>2. CASE j <= i
    BY <1>1, <1>5, <2>1, <2>2
  <2>3. CASE ~(j <= i)
    <3>1. j - i \in 1..(Len(list) - (i - 1)) /\ i + (j - i) - 1 = j - 1
      BY <1>1, <2>3
    <3>2. b[j - i] = list[j - 1]
      BY <1>3, <3>1
    <3> QED
      BY <1>1, <2>1, <2>3, <3>2
  <2> QED
    BY <2>2, <2>3
<1> QED
  BY <1>7, <1>8

(* Notifications in memory, received or not, can be compared. *)
LEMMA NoteIs ==
    ASSUME NEW s \in Memory, NEW o \in Note
    PROVE  s.n[o] \in NoteRec /\ s.n[o].id \in Nat /\ s.n[o].kind.urgency \in Nat
<1>1. s.n[o] \in NoteRec
  BY DEF Memory
<1>2. s.n[o].id \in Nat /\ s.n[o].kind \in Kinds \cup {NoKind}
  BY <1>1 DEF NoteRec
<1>3. NoKind \in Kind
  BY DEF NoKind, Kind
<1>4. s.n[o].kind \in Kind
  BY <1>2, <1>3, DunstAssumption
<1>5. s.n[o].kind.urgency \in 0..2
  BY <1>4 DEF Kind
<1> QED
  BY <1>1, <1>2, <1>5

(* insert_sorted: wherever it goes, it is one more element.                *)
LEMMA InsertedElems ==
    ASSUME NEW s \in Memory, NEW list \in Seq(Note), NEW o \in Note
    PROVE  /\ insert_sorted(s, list, o) \in Seq(Note)
           /\ Len(insert_sorted(s, list, o)) = Len(list) + 1
           /\ Elems(insert_sorted(s, list, o)) = Elems(list) \cup {o}
           /\ Distinct(list) /\ o \notin Elems(list) => Distinct(insert_sorted(s, list, o))
<1> DEFINE more == Append(list, o)
           I == {i \in 1..Len(more) : ~ComesBefore(s, more[i], o)}
           k == SelectInSeq(more, LAMBDA p : ~ComesBefore(s, p, o))
<1>1. /\ more \in Seq(Note) /\ Len(more) = Len(list) + 1
      /\ more[Len(list) + 1] = o /\ Len(list) \in Nat
  BY AppendProperties, LenProperties
<1>2. k = IF I # {} THEN Min(I) ELSE 0
  BY DEF SelectInSeq
<1>3. insert_sorted(s, list, o) = InsertAt(list, k, o)
  BY DEF insert_sorted
<1>4. ~ComesBefore(s, o, o)
  BY NoteIs DEF ComesBefore
<1> HIDE DEF k
<1>5. Len(list) + 1 \in I
  <2> HIDE DEF more
  <2> QED
    BY <1>1, <1>4
<1>6. I \in SUBSET (1..(Len(list) + 1)) /\ Len(list) + 1 \in Nat
  BY <1>1
<1> HIDE DEF I
<1>7. k \in 1..(Len(list) + 1)
  BY <1>2, <1>5, <1>6, FirstPosition
<1> QED
  BY <1>3, <1>7, InsertAtIs

(* S with the new one in the place of the old one. *)
Exchanged(S, old, new) == IF old \in S THEN (S \ {old}) \cup {new} ELSE S

(* ReplaceAll: the new one has the place of the old one.                   *)
LEMMA ReplacedElems ==
    ASSUME NEW S, NEW list \in Seq(S), NEW old, NEW new \in S
    PROVE  /\ ReplaceAll(list, old, new) \in Seq(S)
           /\ Len(ReplaceAll(list, old, new)) = Len(list)
           /\ Elems(ReplaceAll(list, old, new)) = Exchanged(Elems(list), old, new)
           /\ Distinct(list) /\ new \notin Elems(list) => Distinct(ReplaceAll(list, old, new))
<1> DEFINE r == ReplaceAll(list, old, new)
<1>1. /\ Elems(list) = {list[k] : k \in 1..Len(list)} /\ Len(list) \in Nat
      /\ list \in [1..Len(list) -> S] /\ DOMAIN list = 1..Len(list)
  BY ElemsOf
<1>2. r = [i \in 1..Len(list) |-> IF list[i] = old THEN new ELSE list[i]]
  BY DEF ReplaceAll
<1>3. r \in [1..Len(list) -> S]
  BY <1>1, <1>2
<1> HIDE DEF r
<1>4. r \in Seq(S) /\ Len(r) = Len(list)
  BY <1>1, <1>3, FunctionIsSeq
<1>5. Elems(r) = {r[k] : k \in 1..Len(list)} /\ DOMAIN r = 1..Len(list)
  BY <1>4, ElemsOf
<1>6. \A k \in 1..Len(list) : r[k] = IF list[k] = old THEN new ELSE list[k]
  BY <1>2
<1>7. CASE old \in Elems(list)
  <2>1. Elems(r) = (Elems(list) \ {old}) \cup {new}
    BY <1>1, <1>5, <1>6, <1>7
  <2>2. Distinct(list) /\ new \notin Elems(list) => Distinct(r)
    BY <1>1, <1>5, <1>6 DEF Distinct
  <2> QED
    BY <1>4, <1>7, <2>1, <2>2 DEF r, Exchanged
<1>8. CASE old \notin Elems(list)
  <2>1. Elems(r) = Elems(list)
    BY <1>1, <1>5, <1>6, <1>8
  <2>2. Distinct(list) => Distinct(r)
    BY <1>1, <1>5, <1>6, <1>8 DEF Distinct
  <2> QED
    BY <1>4, <1>8, <2>1, <2>2 DEF r, Exchanged
<1> QED
  BY <1>7, <1>8

(* Append, for a list that does not have it.                               *)
LEMMA AppendedElems ==
    ASSUME NEW S, NEW list \in Seq(S), NEW o \in S
    PROVE  /\ Append(list, o) \in Seq(S)
           /\ Len(Append(list, o)) = Len(list) + 1
           /\ Elems(Append(list, o)) = Elems(list) \cup {o}
           /\ Distinct(list) /\ o \notin Elems(list) => Distinct(Append(list, o))
<1> DEFINE r == Append(list, o)
<1>1. Elems(list) = {list[k] : k \in 1..Len(list)} /\ Len(list) \in Nat /\ DOMAIN list = 1..Len(list)
  BY ElemsOf
<1>2. /\ r \in Seq(S) /\ Len(r) = Len(list) + 1
      /\ \A k \in 1..Len(list) : r[k] = list[k]
      /\ r[Len(list) + 1] = o
  BY AppendProperties
<1> HIDE DEF r
<1>3. Elems(r) = {r[k] : k \in 1..(Len(list) + 1)} /\ DOMAIN r = 1..(Len(list) + 1)
  BY <1>2, ElemsOf
<1>4. \A k \in 1..(Len(list) + 1) : k \in 1..Len(list) \/ k = Len(list) + 1
  BY <1>1
<1>5. (\A k \in 1..Len(list) : k \in 1..(Len(list) + 1)) /\ Len(list) + 1 \in 1..(Len(list) + 1)
  BY <1>1
<1>6. Elems(r) = Elems(list) \cup {o}
  <2>1. \A x : x \in Elems(r) => x \in Elems(list) \cup {o}
    BY <1>1, <1>2, <1>3, <1>4
  <2>2. \A x : x \in Elems(list) \cup {o} => x \in Elems(r)
    BY <1>1, <1>2, <1>3, <1>5
  <2> QED
    BY <2>1, <2>2
<1>7. ASSUME Distinct(list), o \notin Elems(list) PROVE Distinct(r)
  <2> SUFFICES ASSUME NEW j \in 1..(Len(list) + 1), NEW k \in 1..(Len(list) + 1), r[j] = r[k]
               PROVE  j = k
    BY <1>3 DEF Distinct
  <2>1. \A i \in 1..Len(list) : list[i] # o
    BY <1>1, <1>7
  <2>2. CASE j \in 1..Len(list) /\ k \in 1..Len(list)
    BY <1>1, <1>2, <1>7, <2>2 DEF Distinct
  <2> QED
    BY <1>2, <1>4, <2>1, <2>2
<1> QED
  BY <1>2, <1>6, <1>7 DEF r

(* The first element and the others. *)
LEMMA HeadElems ==
    ASSUME NEW S, NEW list \in Seq(S), list # <<>>
    PROVE  /\ Head(list) \in S /\ Head(list) \in Elems(list)
           /\ Tail(list) \in Seq(S) /\ Len(Tail(list)) = Len(list) - 1
           /\ Elems(list) = Elems(Tail(list)) \cup {Head(list)}
           /\ Distinct(list) => Distinct(Tail(list)) /\ Head(list) \notin Elems(Tail(list))
<1> DEFINE r == Tail(list)
<1>1. /\ Elems(list) = {list[k] : k \in 1..Len(list)} /\ Len(list) \in Nat
      /\ DOMAIN list = 1..Len(list) /\ list \in [1..Len(list) -> S]
  BY ElemsOf
<1>2. /\ r \in Seq(S) /\ Len(r) = Len(list) - 1
      /\ \A k \in 1..Len(r) : r[k] = list[k + 1]
      /\ Head(list) \in S
  BY HeadTailProperties
<1>3. Head(list) = list[1] /\ Len(list) >= 1
  BY <1>1, EmptySeq
<1> HIDE DEF r
<1>4. Elems(r) = {r[k] : k \in 1..Len(r)} /\ DOMAIN r = 1..Len(r)
  BY <1>2, ElemsOf
<1>5. \A k \in 1..Len(list) : k = 1 \/ (k - 1 \in 1..Len(r) /\ r[k - 1] = list[k])
  <2> TAKE k \in 1..Len(list)
  <2>1. CASE k # 1
    <3>1. k - 1 \in 1..Len(r) /\ (k - 1) + 1 = k
      BY <1>1, <1>2, <2>1
    <3> QED
      BY <1>2, <3>1
  <2> QED
    BY <2>1
<1>6. \A k \in 1..Len(r) : k + 1 \in 1..Len(list) /\ k + 1 # 1
  BY <1>1, <1>2
<1>7. 1 \in 1..Len(list)
  BY <1>1, <1>3
<1>8. Elems(list) = Elems(r) \cup {list[1]}
  <2>1. \A x : x \in Elems(list) => x \in Elems(r) \cup {list[1]}
    BY <1>1, <1>4, <1>5
  <2>2. \A x : x \in Elems(r) \cup {list[1]} => x \in Elems(list)
    BY <1>1, <1>2, <1>4, <1>6, <1>7
  <2> QED
    BY <2>1, <2>2
<1>9. ASSUME Distinct(list) PROVE Distinct(r) /\ list[1] \notin Elems(r)
  <2>1. \A j, k \in 1..Len(list) : list[j] = list[k] => j = k
    BY <1>1, <1>9 DEF Distinct
  <2>2. ASSUME NEW j \in 1..Len(r), NEW k \in 1..Len(r), r[j] = r[k] PROVE j = k
    <3>1. j + 1 = k + 1
      BY <1>2, <1>6, <2>1, <2>2
    <3> QED
      BY <1>1, <1>2, <3>1
  <2>3. \A k \in 1..Len(r) : r[k] # list[1]
    BY <1>2, <1>6, <1>7, <2>1
  <2> QED
    BY <1>4, <2>2, <2>3 DEF Distinct
<1>10. list[1] \in Elems(list)
  BY <1>8
<1> QED
  BY <1>2, <1>3, <1>8, <1>9, <1>10 DEF r

(* The last element and the others. *)
LEMMA LastElems ==
    ASSUME NEW S, NEW list \in Seq(S), list # <<>>
    PROVE  /\ Last(list) \in S /\ Last(list) \in Elems(list)
           /\ Front(list) \in Seq(S) /\ Len(Front(list)) = Len(list) - 1
           /\ Elems(list) = Elems(Front(list)) \cup {Last(list)}
           /\ Distinct(list) => Distinct(Front(list)) /\ Last(list) \notin Elems(Front(list))
<1> DEFINE r == Front(list)
           n == Len(list)
<1>1. /\ Elems(list) = {list[k] : k \in 1..n} /\ n \in Nat
      /\ DOMAIN list = 1..n /\ list \in [1..n -> S]
  BY ElemsOf
<1>2. n >= 1
  BY <1>1, EmptySeq
<1>3. r = SubSeq(list, 1, n - 1)
  BY DEF Front
<1>4. Last(list) = list[n]
  BY DEF Last
<1> HIDE DEF n
<1>5. 1 \in 1..(n + 1) /\ n - 1 \in 0..n /\ n \in 1..n
  BY <1>1, <1>2
<1>6. /\ r \in Seq(S) /\ Members(r) = {list[k] : k \in 1..(n - 1)}
      /\ Distinct(list) => Distinct(r)
  BY <1>3, <1>5, SubSeqMembers DEF n
<1>7. Len(r) = n - 1
  <2>1. \A k \in 1..(n - 1) : list[k] \in S
    BY <1>1, <1>2
  <2>2. Len(r) = IF 1 <= n - 1 THEN (n - 1) - 1 + 1 ELSE 0
    BY <1>1, <1>3, <2>1, SubSeqProperties
  <2> HIDE DEF r
  <2> QED
    BY ONLY <1>1, <1>2, <2>2
<1> HIDE DEF r
<1>8. Elems(r) = Members(r)
  BY <1>6, ElemsOf
<1>9. Elems(list) = Elems(r) \cup {list[n]}
  <2>1. \A k \in 1..n : k \in 1..(n - 1) \/ k = n
    BY <1>1
  <2>2. \A k \in 1..(n - 1) : k \in 1..n
    BY <1>1
  <2>3. \A x : x \in Elems(list) => x \in Elems(r) \cup {list[n]}
    BY <1>1, <1>6, <1>8, <2>1
  <2>4. \A x : x \in Elems(r) \cup {list[n]} => x \in Elems(list)
    BY <1>1, <1>5, <1>6, <1>8, <2>2
  <2> QED
    BY <2>3, <2>4
<1>10. Distinct(list) => list[n] \notin Elems(r)
  <2>1. \A k \in 1..(n - 1) : k \in 1..n /\ k # n
    BY <1>1
  <2> QED
    BY <1>1, <1>5, <1>6, <1>8, <2>1 DEF Distinct
<1>11. list[n] \in S /\ list[n] \in Elems(list)
  BY <1>1, <1>5
<1> QED
  BY <1>4, <1>6, <1>7, <1>9, <1>10, <1>11 DEF r, n

(* o is the first one of the list with the id, or None.                    *)
IsFirst(s, list, id, o) ==
    \/ o = None /\ \A p \in Elems(list) : s.n[p].id # id
    \/ \E k \in 1..Len(list) :
          /\ o = list[k] /\ s.n[o].id = id
          /\ \A j \in 1..(k - 1) : s.n[list[j]].id # id

(* WithId finds it. *)
LEMMA WithIdIs ==
    ASSUME NEW s, NEW list \in Seq(Note), NEW id
    PROVE  IsFirst(s, list, id, WithId(s, list, id))
<1> DEFINE is(k) == s.n[list[k]].id = id
           I == {k \in 1..Len(list) : is(k)}
           first(k) == is(k) /\ \A j \in 1..(k - 1) : ~is(j)
           c == CHOOSE k \in DOMAIN list : first(k)
<1>1. /\ Elems(list) = {list[k] : k \in 1..Len(list)} /\ Len(list) \in Nat
      /\ DOMAIN list = 1..Len(list)
  BY ElemsOf
<1>2. WithId(s, list, id) = IF \E k \in DOMAIN list : is(k) THEN list[c] ELSE None
  BY DEF WithId, FirstWith
<1>3. CASE I = {}
  <2>1. ~ \E k \in DOMAIN list : is(k)
    BY <1>1, <1>3
  <2>2. WithId(s, list, id) = None
    BY <1>2, <2>1
  <2>3. \A o \in Elems(list) : s.n[o].id # id
    BY <1>1, <2>1
  <2> QED
    BY <2>2, <2>3 DEF IsFirst
<1>4. CASE I # {}
  <2>1. I \in SUBSET Nat
    OBVIOUS
  <2>2. PICK i \in I : \A j \in I : i <= j
    <3> HIDE DEF I
    <3> QED
      BY <1>4, <2>1, LeastElement
  <2>3. i \in DOMAIN list /\ first(i)
    BY <1>1, <2>2
  <2>4. c \in DOMAIN list /\ first(c)
    <3> HIDE DEF first
    <3> QED
      BY <2>3
  <2>5. WithId(s, list, id) = list[c]
    <3>1. \E k \in DOMAIN list : is(k)
      BY <2>3, SMTT(30)
    <3> HIDE DEF c, is
    <3> QED
      BY <1>2, <3>1
  <2> HIDE DEF c
  <2> QED
    BY <1>1, <2>4, <2>5 DEF IsFirst
<1> QED
  BY <1>3, <1>4

(* stacked_on finds one with the same tag that is displayed or waits.      *)
LEMMA StackedIsIn ==
    ASSUME NEW s, s.displayed \in Seq(Note), s.waiting \in Seq(Note), NEW o
    PROVE  \/ stacked_on(s, o) = None
           \/ /\ stacked_on(s, o) \in Elems(s.displayed) \cup Elems(s.waiting)
              /\ s.n[stacked_on(s, o)].kind.tag # 0
              /\ s.n[stacked_on(s, o)].kind.tag = s.n[o].kind.tag
<1> DEFINE list == s.displayed \o s.waiting
           is(k) == s.n[list[k]].kind.tag # 0 /\ s.n[list[k]].kind.tag = s.n[o].kind.tag
           I == {k \in 1..Len(list) : is(k)}
           first(k) == is(k) /\ \A j \in 1..(k - 1) : ~is(j)
           c == CHOOSE k \in DOMAIN list : first(k)
<1>1. /\ Elems(list) = {list[k] : k \in 1..Len(list)} /\ Len(list) \in Nat
      /\ DOMAIN list = 1..Len(list)
  <2>1. list \in Seq(Note)
    BY ConcatProperties
  <2> HIDE DEF list
  <2> QED
    BY <2>1, ElemsOf
<1>2. Elems(list) = Elems(s.displayed) \cup Elems(s.waiting)
  <2>1. Members(list) = Members(s.displayed) \cup Members(s.waiting)
    BY ConcatMembers
  <2> QED
    BY <2>1 DEF Members, Elems
<1>3. stacked_on(s, o) = IF \E k \in DOMAIN list : is(k) THEN list[c] ELSE None
  BY DEF stacked_on, FirstWith
<1>4. CASE I # {}
  <2>1. I \in SUBSET Nat
    <3> HIDE DEF list, is
    <3> QED
      BY <1>1
  <2>2. PICK i \in I : \A j \in I : i <= j
    <3> HIDE DEF I
    <3> QED
      BY <1>4, <2>1, LeastElement
  <2>3. i \in DOMAIN list /\ first(i)
    <3> HIDE DEF list
    <3> QED
      BY <1>1, <2>2
  <2>4. c \in DOMAIN list /\ is(c)
    <3>1. c \in DOMAIN list /\ first(c)
      <4> HIDE DEF first, list
      <4> QED
        BY <2>3
    <3> HIDE DEF c, list
    <3> QED
      BY <3>1
  <2>5. list[c] \in Elems(list)
    <3> HIDE DEF c, list
    <3> QED
      BY <1>1, <2>4
  <2>6. stacked_on(s, o) = list[c]
    <3>1. \E k \in DOMAIN list : is(k)
      <4> HIDE DEF list
      <4> QED
        BY <2>3
    <3> HIDE DEF c, is, list
    <3> QED
      BY <1>3, <3>1
  <2> HIDE DEF c, list
  <2> QED
    BY <1>2, <2>4, <2>5, <2>6
<1>5. CASE I = {}
  <2>1. ~ \E k \in DOMAIN list : is(k)
    <3> HIDE DEF list
    <3> QED
      BY <1>1, <1>5
  <2> HIDE DEF list, is
  <2> QED
    BY <1>3, <2>1
<1> QED
  BY <1>4, <1>5

-----------------------------------------------------------------------------
(* The order of a queue.                                                   *)

(* The order is that of the kinds, which do not change. *)
LEMMA FallingSame ==
    ASSUME NEW n, NEW m, NEW list \in Seq(Note), Falling(n, list),
           \A o \in Elems(list) : m[o].kind = n[o].kind
    PROVE  Falling(m, list)
<1>1. \A i \in 1..Len(list) : list[i] \in Elems(list)
  BY ElemsOf
<1> QED
  BY <1>1 DEF Falling

(* One that leaves leaves the others in order. *)
LEMMA FallingRemoved ==
    ASSUME NEW n, NEW list \in Seq(Note), NEW e, Falling(n, list)
    PROVE  Falling(n, RemoveFirst(list, e))
<1>1. Len(list) \in Nat
  BY LenProperties
<1>2. ASSUME NEW i \in 1..Len(list), RemoveFirst(list, e) = RemoveAt(list, i)
      PROVE  Falling(n, RemoveFirst(list, e))
  <2> DEFINE r == RemoveFirst(list, e)
             at(j) == IF j < i THEN j ELSE j + 1
  <2>1. /\ Len(r) = Len(list) - 1
        /\ \A j \in 1..(Len(list) - 1) : r[j] = IF j < i THEN list[j] ELSE list[j + 1]
    BY <1>2, RemoveAtIs
  <2> HIDE DEF r
  <2>2. \A j \in 1..Len(r) : at(j) \in 1..Len(list) /\ r[j] = list[at(j)]
    BY <1>1, <2>1
  <2>3. \A j, k \in 1..Len(r) : j < k => at(j) < at(k)
    BY <1>1, <2>1
  <2> HIDE DEF at
  <2>4. Falling(n, r)
    BY <2>2, <2>3 DEF Falling
  <2> QED
    BY <2>4 DEF r
<1> QED
  BY <1>2, RemoveFirstAt

(* One that takes the place of one as urgent keeps the order. *)
LEMMA FallingReplaced ==
    ASSUME NEW n, NEW list \in Seq(Note), NEW old, NEW new \in Note, Falling(n, list),
           old \in Elems(list) => n[new].kind.urgency = n[old].kind.urgency
    PROVE  Falling(n, ReplaceAll(list, old, new))
<1> DEFINE r == ReplaceAll(list, old, new)
<1>1. DOMAIN list = 1..Len(list) /\ \A k \in 1..Len(list) : list[k] \in Elems(list)
  BY ElemsOf
<1>2. \A k \in 1..Len(list) : r[k] = IF list[k] = old THEN new ELSE list[k]
  BY <1>1 DEF ReplaceAll
<1>3. Len(r) = Len(list)
  BY ReplacedElems
<1> HIDE DEF r
<1>4. \A k \in 1..Len(r) : n[r[k]].kind.urgency = n[list[k]].kind.urgency
  BY <1>1, <1>2, <1>3
<1>5. Falling(n, r)
  BY <1>3, <1>4 DEF Falling
<1> QED
  BY <1>5 DEF r

(* The first one is the most urgent, the last one the least. *)
LEMMA FallingEnds ==
    ASSUME NEW s \in Memory, NEW list \in Seq(Note), list # <<>>, Falling(s.n, list)
    PROVE  /\ Falling(s.n, Tail(list)) /\ Falling(s.n, Front(list))
           /\ \A o \in Elems(list) : /\ s.n[o].kind.urgency <= s.n[Head(list)].kind.urgency
                                     /\ s.n[Last(list)].kind.urgency <= s.n[o].kind.urgency
<1> DEFINE t == Tail(list)
           f == Front(list)
           len == Len(list)
           urgency(k) == s.n[list[k]].kind.urgency
<1>1. /\ Elems(list) = {list[k] : k \in 1..len} /\ len \in Nat /\ list \in [1..len -> Note]
  BY ElemsOf
<1>2. Head(list) = list[1] /\ len >= 1 /\ Last(list) = list[len]
  BY <1>1, EmptySeq DEF Last
<1>3. /\ Len(t) = len - 1
      /\ \A k \in 1..Len(t) : t[k] = list[k + 1]
  BY HeadTailProperties
<1>4. /\ Len(f) = len - 1
      /\ \A k \in 1..Len(f) : f[k] = list[k]
  <2>1. f = SubSeq(list, 1, len - 1)
    BY DEF Front
  <2>2. \A k \in 1..(len - 1) : list[k] \in Note
    BY <1>1
  <2>3. /\ Len(f) = IF 1 <= len - 1 THEN (len - 1) - 1 + 1 ELSE 0
        /\ \A j \in 1..((len - 1) - 1 + 1) : f[j] = list[1 + j - 1]
    BY <1>1, <2>1, <2>2, SubSeqProperties
  <2> HIDE DEF f, len
  <2>4. Len(f) = len - 1
    BY ONLY <1>1, <1>2, <2>3
  <2>5. \A j \in 1..(len - 1) : j \in 1..((len - 1) - 1 + 1) /\ 1 + j - 1 = j
    BY ONLY <1>1, <1>2
  <2> QED
    BY <2>3, <2>4, <2>5
<1>5. \A i, j \in 1..len : i < j => urgency(j) <= urgency(i)
  BY DEF Falling
<1>6. \A i \in 1..len : urgency(i) \in Nat
  BY <1>1, NoteIs
<1> HIDE DEF t, f, len
<1>7. Falling(s.n, t)
  <2>1. \A i \in 1..Len(t) : i + 1 \in 1..len /\ t[i] = list[i + 1]
    BY <1>1, <1>2, <1>3
  <2>2. ASSUME NEW i \in 1..Len(t), NEW j \in 1..Len(t), i < j
        PROVE s.n[t[j]].kind.urgency <= s.n[t[i]].kind.urgency
    <3>1. i + 1 < j + 1
      BY <1>1, <1>3, <2>2
    <3>2. urgency(j + 1) <= urgency(i + 1)
      BY <1>5, <2>1, <3>1
    <3> QED
      BY <2>1, <3>2
  <2> QED
    BY <2>2 DEF Falling
<1>8. Falling(s.n, f)
  <2>1. \A i \in 1..Len(f) : i \in 1..len /\ f[i] = list[i]
    BY <1>1, <1>2, <1>4
  <2> QED
    BY <1>5, <2>1 DEF Falling
<1>9. 1 \in 1..len /\ len \in 1..len
  BY <1>1, <1>2
<1>10. ASSUME NEW k \in 1..len PROVE urgency(k) <= urgency(1) /\ urgency(len) <= urgency(k)
  <2>1. k = 1 \/ 1 < k
    BY <1>1
  <2>2. k = len \/ k < len
    BY <1>1
  <2>3. urgency(k) <= urgency(1)
    BY <1>5, <1>6, <1>9, <2>1
  <2>4. urgency(len) <= urgency(k)
    BY <1>5, <1>6, <1>9, <2>2
  <2> QED
    BY <2>3, <2>4
<1>11. ASSUME NEW o \in Elems(list)
       PROVE  /\ s.n[o].kind.urgency <= s.n[list[1]].kind.urgency
              /\ s.n[list[len]].kind.urgency <= s.n[o].kind.urgency
  <2>1. PICK k \in 1..len : o = list[k]
    BY <1>1
  <2> QED
    BY <1>10, <2>1
<1> QED
  BY <1>2, <1>7, <1>8, <1>11 DEF t, f

(* g_queue_insert_sorted keeps the order. *)
LEMMA FallingInserted ==
    ASSUME NEW s \in Memory, NEW list \in Seq(Note), NEW o \in Note, Falling(s.n, list)
    PROVE  Falling(s.n, insert_sorted(s, list, o))
<1> DEFINE more == Append(list, o)
           I == {i \in 1..Len(more) : ~ComesBefore(s, more[i], o)}
           k == SelectInSeq(more, LAMBDA p : ~ComesBefore(s, p, o))
           r == insert_sorted(s, list, o)
           len == Len(list)
           urgency(p) == s.n[p].kind.urgency
<1>1. /\ Len(more) = len + 1 /\ more[len + 1] = o /\ len \in Nat
      /\ \A i \in 1..len : more[i] = list[i]
      /\ list \in [1..len -> Note]
  BY AppendProperties, LenProperties
<1>2. k = IF I # {} THEN Min(I) ELSE 0
  BY DEF SelectInSeq
<1>3. r = InsertAt(list, k, o)
  BY DEF insert_sorted
<1>4. ~ComesBefore(s, o, o)
  BY NoteIs DEF ComesBefore
<1> HIDE DEF k, r, more, len
<1>5. len + 1 \in I
  BY <1>1, <1>4
<1>6. I \in SUBSET (1..(len + 1)) /\ len + 1 \in Nat
  BY <1>1
<1>7. k \in I /\ \A j \in I : k <= j
  <2> HIDE DEF I
  <2> QED
    BY <1>2, <1>5, <1>6, FirstPosition
<1>8. k \in 1..(len + 1)
  BY <1>6, <1>7
<1>9. /\ Len(r) = len + 1
      /\ \A j \in 1..(len + 1) : r[j] = IF j < k THEN list[j] ELSE IF j = k THEN o ELSE list[j - 1]
  BY <1>3, <1>8, InsertAtIs, InsertAtPlaces DEF len
<1>10. \A p \in Note : urgency(p) \in Nat
  BY NoteIs
<1>11. \A i \in 1..len : list[i] \in Note
  BY <1>1
<1>12. \A i, j \in 1..len : i < j => urgency(list[j]) <= urgency(list[i])
  BY DEF Falling, len
<1>13. ASSUME NEW j \in 1..len, j < k PROVE urgency(o) <= urgency(list[j])
  <2>1. j \notin I /\ j \in 1..Len(more)
    BY <1>1, <1>6, <1>7, <1>13
  <2>2. ComesBefore(s, list[j], o)
    BY <1>1, <2>1
  <2> QED
    BY <1>10, <1>11, <2>2 DEF ComesBefore
<1>14. ASSUME NEW j \in 1..len, k <= j PROVE urgency(list[j]) <= urgency(o)
  <2>1. k \in 1..len /\ ~ComesBefore(s, more[k], o)
    BY <1>1, <1>7, <1>8, <1>14
  <2>2. urgency(list[k]) <= urgency(o)
    BY <1>1, <1>10, <1>11, <2>1 DEF ComesBefore
  <2>3. urgency(list[j]) <= urgency(list[k])
    <3>1. k = j \/ k < j
      BY <1>14, <2>1
    <3> QED
      BY <1>10, <1>11, <1>12, <2>1, <3>1
  <2> QED
    BY <1>10, <1>11, <2>1, <2>2, <2>3
<1> HIDE DEF I
<1>15. ASSUME NEW i \in 1..(len + 1), NEW j \in 1..(len + 1), i < j
       PROVE  urgency(r[j]) <= urgency(r[i])
  <2>1. CASE j < k
    <3>1. i \in 1..len /\ j \in 1..len /\ i < k
      BY <1>1, <1>8, <1>15, <2>1
    <3> QED
      BY <1>9, <1>12, <1>15, <2>1, <3>1
  <2>2. CASE j = k
    <3>1. i \in 1..len /\ i < k
      BY <1>1, <1>8, <1>15, <2>2
    <3> QED
      BY <1>8, <1>9, <1>13, <2>2, <3>1
  <2>3. CASE k < j
    <3>1. j - 1 \in 1..len /\ k <= j - 1 /\ ~(j < k) /\ j # k
      BY <1>1, <1>8, <2>3
    <3>2. r[j] = list[j - 1]
      BY <1>9, <3>1
    <3>3. CASE i = k
      BY <1>8, <1>9, <1>14, <3>1, <3>2, <3>3
    <3>4. CASE i < k
      <4>1. i \in 1..len /\ i < j - 1
        BY <1>1, <1>8, <1>15, <2>3, <3>4
      <4> QED
        BY <1>9, <1>12, <3>1, <3>2, <3>4, <4>1
    <3>5. CASE k < i
      <4>1. i - 1 \in 1..len /\ i - 1 < j - 1 /\ ~(i < k) /\ i # k
        BY <1>1, <1>8, <1>15, <3>5
      <4> QED
        BY <1>9, <1>12, <3>1, <3>2, <4>1
    <3> QED
      BY <1>8, <3>3, <3>4, <3>5
  <2> QED
    BY <1>8, <2>1, <2>2, <2>3
<1> QED
  BY <1>9, <1>15 DEF Falling, r

-----------------------------------------------------------------------------
(* What the functions of queues.c keep.                                    *)

(* The fields of a value of q. *)
LEMMA MemoryIs ==
    ASSUME NEW s \in Memory
    PROVE  /\ s.displayed \in Seq(Note) /\ s.waiting \in Seq(Note) /\ s.history \in Seq(Note)
           /\ s.n \in [Note -> NoteRec] /\ s.next \in Nat /\ s.open \in SUBSET Nat
           /\ s = [displayed |-> s.displayed, waiting |-> s.waiting, history |-> s.history,
                   n |-> s.n, next |-> s.next, open |-> s.open]
           /\ Held(s) \subseteq Note
<1>1. /\ s.displayed \in Seq(Note) /\ s.waiting \in Seq(Note) /\ s.history \in Seq(Note)
      /\ s.n \in [Note -> NoteRec] /\ s.next \in Nat /\ s.open \in SUBSET Nat
      /\ s = [displayed |-> s.displayed, waiting |-> s.waiting, history |-> s.history,
              n |-> s.n, next |-> s.next, open |-> s.open]
  BY DEF Memory
<1>2. Elems(s.displayed) \subseteq Note /\ Elems(s.waiting) \subseteq Note /\ Elems(s.history) \subseteq Note
  BY <1>1, ElemsOf
<1> QED
  BY <1>1, <1>2 DEF Held

(* b is what has become of a: the same notification, not locked anew.      *)
Same(a, b) ==
    /\ b.id = a.id /\ b.kind = a.kind
    /\ b.valid <=> a.valid
    /\ b.redisplayed <=> a.redisplayed
    /\ b.locked => a.locked

(* Notifications that change places between displayed and waiting, or are  *)
(* marked.                                                                 *)
LEMMA Rearranged ==
    ASSUME NEW s, NEW H, NEW L, Good(s, H, L), NEW t \in Memory, Apart(t),
           Elems(t.displayed) \cup Elems(t.waiting) = Elems(s.displayed) \cup Elems(s.waiting),
           t.history = s.history, t.next = s.next, t.open = s.open,
           \A o \in Note : Same(s.n[o], t.n[o]), Graded => Ordered(t)
    PROVE  Good(t, H, L)
<1>1. Held(t) = Held(s) /\ Held(s) \subseteq Note
  BY MemoryIs DEF Held, Good
<1>2. Known(t)
  BY <1>1 DEF Good, Known, Same
<1>3. HistoryLength > 0 => Len(t.history) <= HistoryLength
  BY DEF Good
<1>4. Held(t) \subseteq H
  BY <1>1 DEF Good
<1>5. \A o \in Note : t.n[o].locked => o \in L
  BY DEF Good, Same
<1>6. ASSUME Tidy PROVE Paired(t)
  <2>1. Paired(s)
    BY <1>6 DEF Good
  <2>2. \A o, p \in Held(t) : t.n[o].id = t.n[p].id => o = p
    BY <1>1, <2>1 DEF Paired, Same
  <2>3. \A o \in Held(t) : t.n[o].valid =>
          /\ o \in Elems(t.displayed) \cup Elems(t.waiting)
          /\ ~t.n[o].redisplayed /\ t.n[o].id \in t.open
    BY <1>1, <2>1 DEF Paired, Same
  <2>4. \A id \in t.open : \E o \in Held(t) : t.n[o].valid /\ t.n[o].id = id
    BY <1>1, <2>1 DEF Paired, Same
  <2> QED
    BY <2>2, <2>3, <2>4 DEF Paired
<1> QED
  BY <1>2, <1>3, <1>4, <1>5, <1>6 DEF Good

(* The same queues of notifications of the same kinds are in order. *)
LEMMA OrderedSame ==
    ASSUME NEW s \in Memory, NEW t, t.displayed = s.displayed, t.waiting = s.waiting,
           \A o \in Elems(s.displayed) \cup Elems(s.waiting) : t.n[o].kind = s.n[o].kind, Ordered(s)
    PROVE  Ordered(t)
<1>1. s.displayed \in Seq(Note) /\ s.waiting \in Seq(Note)
  BY MemoryIs
<1>2. Falling(t.n, s.displayed) /\ Falling(t.n, s.waiting)
  BY <1>1, FallingSame DEF Ordered
<1> QED
  BY <1>2 DEF Ordered

(* to_waiting and to_displayed add one to a queue. *)
LEMMA ToWaiting ==
    ASSUME NEW s \in Memory, NEW o \in Note
    PROVE  /\ to_waiting(s, o) \in Memory
           /\ to_waiting(s, o).displayed = s.displayed /\ to_waiting(s, o).history = s.history
           /\ to_waiting(s, o).n = s.n /\ to_waiting(s, o).next = s.next
           /\ to_waiting(s, o).open = s.open
           /\ Elems(to_waiting(s, o).waiting) = Elems(s.waiting) \cup {o}
           /\ Len(to_waiting(s, o).waiting) = Len(s.waiting) + 1
           /\ Distinct(s.waiting) /\ o \notin Elems(s.waiting) => Distinct(to_waiting(s, o).waiting)
           /\ Ordered(s) => Ordered(to_waiting(s, o))
<1> DEFINE list == insert_sorted(s, s.waiting, o)
<1>1. s.waiting \in Seq(Note)
  BY MemoryIs
<1>2. /\ list \in Seq(Note) /\ Len(list) = Len(s.waiting) + 1
      /\ Elems(list) = Elems(s.waiting) \cup {o}
      /\ Distinct(s.waiting) /\ o \notin Elems(s.waiting) => Distinct(list)
      /\ Falling(s.n, s.waiting) => Falling(s.n, list)
  BY <1>1, InsertedElems, FallingInserted
<1>3. to_waiting(s, o) = [s EXCEPT !.waiting = list]
  BY DEF to_waiting
<1> HIDE DEF list
<1>4. [s EXCEPT !.waiting = list] \in Memory
  BY <1>2 DEF Memory
<1>5. /\ [s EXCEPT !.waiting = list].waiting = list
      /\ [s EXCEPT !.waiting = list].displayed = s.displayed
      /\ [s EXCEPT !.waiting = list].history = s.history
      /\ [s EXCEPT !.waiting = list].n = s.n
      /\ [s EXCEPT !.waiting = list].next = s.next
      /\ [s EXCEPT !.waiting = list].open = s.open
  BY DEF Memory
<1>6. Ordered(s) => Ordered([s EXCEPT !.waiting = list])
  BY <1>2, <1>5 DEF Ordered
<1> QED
  BY <1>2, <1>3, <1>4, <1>5, <1>6

(* to_displayed adds one to displayed. *)
LEMMA ToDisplayed ==
    ASSUME NEW s \in Memory, NEW o \in Note
    PROVE  /\ to_displayed(s, o) \in Memory
           /\ to_displayed(s, o).waiting = s.waiting /\ to_displayed(s, o).history = s.history
           /\ to_displayed(s, o).n = s.n /\ to_displayed(s, o).next = s.next
           /\ to_displayed(s, o).open = s.open
           /\ Elems(to_displayed(s, o).displayed) = Elems(s.displayed) \cup {o}
           /\ Len(to_displayed(s, o).displayed) = Len(s.displayed) + 1
           /\ Distinct(s.displayed) /\ o \notin Elems(s.displayed) =>
                 Distinct(to_displayed(s, o).displayed)
           /\ Ordered(s) => Ordered(to_displayed(s, o))
<1> DEFINE list == insert_sorted(s, s.displayed, o)
<1>1. s.displayed \in Seq(Note)
  BY MemoryIs
<1>2. /\ list \in Seq(Note) /\ Len(list) = Len(s.displayed) + 1
      /\ Elems(list) = Elems(s.displayed) \cup {o}
      /\ Distinct(s.displayed) /\ o \notin Elems(s.displayed) => Distinct(list)
      /\ Falling(s.n, s.displayed) => Falling(s.n, list)
  BY <1>1, InsertedElems, FallingInserted
<1>3. to_displayed(s, o) = [s EXCEPT !.displayed = list]
  BY DEF to_displayed
<1> HIDE DEF list
<1>4. [s EXCEPT !.displayed = list] \in Memory
  BY <1>2 DEF Memory
<1>5. /\ [s EXCEPT !.displayed = list].displayed = list
      /\ [s EXCEPT !.displayed = list].waiting = s.waiting
      /\ [s EXCEPT !.displayed = list].history = s.history
      /\ [s EXCEPT !.displayed = list].n = s.n
      /\ [s EXCEPT !.displayed = list].next = s.next
      /\ [s EXCEPT !.displayed = list].open = s.open
  BY DEF Memory
<1>6. Ordered(s) => Ordered([s EXCEPT !.displayed = list])
  BY <1>2, <1>5 DEF Ordered
<1> QED
  BY <1>2, <1>3, <1>4, <1>5, <1>6

(* s with another list displayed. *)
LEMMA WithDisplayed ==
    ASSUME NEW s \in Memory, NEW d \in Seq(Note)
    PROVE  /\ [s EXCEPT !.displayed = d] \in Memory
           /\ [s EXCEPT !.displayed = d].displayed = d
           /\ [s EXCEPT !.displayed = d].waiting = s.waiting
           /\ [s EXCEPT !.displayed = d].history = s.history
           /\ [s EXCEPT !.displayed = d].n = s.n
           /\ [s EXCEPT !.displayed = d].next = s.next
           /\ [s EXCEPT !.displayed = d].open = s.open
  BY DEF Memory

(* s with another list waiting. *)
LEMMA WithWaiting ==
    ASSUME NEW s \in Memory, NEW w \in Seq(Note)
    PROVE  /\ [s EXCEPT !.waiting = w] \in Memory
           /\ [s EXCEPT !.waiting = w].displayed = s.displayed
           /\ [s EXCEPT !.waiting = w].waiting = w
           /\ [s EXCEPT !.waiting = w].history = s.history
           /\ [s EXCEPT !.waiting = w].n = s.n
           /\ [s EXCEPT !.waiting = w].next = s.next
           /\ [s EXCEPT !.waiting = w].open = s.open
  BY DEF Memory

(* s with another history. *)
LEMMA WithHistory ==
    ASSUME NEW s \in Memory, NEW h \in Seq(Note)
    PROVE  /\ [s EXCEPT !.history = h] \in Memory
           /\ [s EXCEPT !.history = h].displayed = s.displayed
           /\ [s EXCEPT !.history = h].waiting = s.waiting
           /\ [s EXCEPT !.history = h].history = h
           /\ [s EXCEPT !.history = h].n = s.n
           /\ [s EXCEPT !.history = h].next = s.next
           /\ [s EXCEPT !.history = h].open = s.open
  BY DEF Memory

MovedBack(s, d, o) == to_waiting([s EXCEPT !.displayed = d], o)
MovedIn(s, w, o)   == to_displayed([s EXCEPT !.waiting = w], o)

(* A displayed one goes back to those that wait. *)
LEMMA MovesBack ==
    ASSUME NEW s, NEW H, NEW L, Good(s, H, L), NEW o \in Elems(s.displayed),
           NEW d \in Seq(Note), Distinct(d), Elems(d) = Elems(s.displayed) \ {o},
           Falling(s.n, s.displayed) => Falling(s.n, d)
    PROVE  /\ Good(MovedBack(s, d, o), H, L)
           /\ MovedBack(s, d, o).displayed = d
           /\ MovedBack(s, d, o).n = s.n
           /\ Len(MovedBack(s, d, o).waiting) = Len(s.waiting) + 1
           /\ Elems(MovedBack(s, d, o).waiting) = Elems(s.waiting) \cup {o}
<1> DEFINE u == [s EXCEPT !.displayed = d]
           t == to_waiting(u, o)
<1>1. s \in Memory /\ Apart(s)
  BY DEF Good
<1>2. o \in Note /\ s.waiting \in Seq(Note)
  <2>1. s.displayed \in Seq(Note) /\ s.waiting \in Seq(Note)
    BY <1>1, MemoryIs
  <2> QED
    BY <2>1, ElemsOf
<1>3. /\ u \in Memory /\ u.displayed = d /\ u.waiting = s.waiting /\ u.history = s.history
      /\ u.n = s.n /\ u.next = s.next /\ u.open = s.open
  BY <1>1, <1>2, WithDisplayed
<1> HIDE DEF u
<1>4. /\ t \in Memory /\ t.displayed = u.displayed /\ t.history = u.history
      /\ t.n = u.n /\ t.next = u.next /\ t.open = u.open
      /\ Elems(t.waiting) = Elems(u.waiting) \cup {o}
      /\ Len(t.waiting) = Len(u.waiting) + 1
      /\ Distinct(u.waiting) /\ o \notin Elems(u.waiting) => Distinct(t.waiting)
      /\ Ordered(u) => Ordered(t)
  BY <1>2, <1>3, ToWaiting
<1> HIDE DEF t
<1>5. Apart(t)
  BY <1>1, <1>3, <1>4 DEF Apart
<1>6. Elems(t.displayed) \cup Elems(t.waiting) = Elems(s.displayed) \cup Elems(s.waiting)
  BY <1>3, <1>4
<1>7. \A p \in Note : Same(s.n[p], t.n[p])
  BY <1>3, <1>4 DEF Same
<1>8. t.history = s.history /\ t.next = s.next /\ t.open = s.open
  BY <1>3, <1>4
<1>9. Good(t, H, L)
  <2>1. Graded => Ordered(t)
    BY <1>3, <1>4 DEF Good, Ordered
  <2> QED
    BY <1>4, <1>5, <1>6, <1>7, <1>8, <2>1, Rearranged
<1>10. MovedBack(s, d, o) = t
  BY DEF MovedBack, t, u
<1> QED
  BY <1>3, <1>4, <1>9, <1>10

(* One that waits is displayed. *)
LEMMA MovesIn ==
    ASSUME NEW s, NEW H, NEW L, Good(s, H, L), NEW o \in Elems(s.waiting),
           NEW w \in Seq(Note), Distinct(w), Elems(w) = Elems(s.waiting) \ {o},
           Falling(s.n, s.waiting) => Falling(s.n, w)
    PROVE  /\ Good(MovedIn(s, w, o), H, L)
           /\ MovedIn(s, w, o).waiting = w
           /\ MovedIn(s, w, o).n = s.n
           /\ Len(MovedIn(s, w, o).displayed) = Len(s.displayed) + 1
           /\ Elems(MovedIn(s, w, o).displayed) = Elems(s.displayed) \cup {o}
<1> DEFINE u == [s EXCEPT !.waiting = w]
           t == to_displayed(u, o)
<1>1. s \in Memory /\ Apart(s)
  BY DEF Good
<1>2. o \in Note /\ s.displayed \in Seq(Note)
  <2>1. s.displayed \in Seq(Note) /\ s.waiting \in Seq(Note)
    BY <1>1, MemoryIs
  <2> QED
    BY <2>1, ElemsOf
<1>3. /\ u \in Memory /\ u.waiting = w /\ u.displayed = s.displayed /\ u.history = s.history
      /\ u.n = s.n /\ u.next = s.next /\ u.open = s.open
  BY <1>1, <1>2, WithWaiting
<1> HIDE DEF u
<1>4. /\ t \in Memory /\ t.waiting = u.waiting /\ t.history = u.history
      /\ t.n = u.n /\ t.next = u.next /\ t.open = u.open
      /\ Elems(t.displayed) = Elems(u.displayed) \cup {o}
      /\ Len(t.displayed) = Len(u.displayed) + 1
      /\ Distinct(u.displayed) /\ o \notin Elems(u.displayed) => Distinct(t.displayed)
      /\ Ordered(u) => Ordered(t)
  BY <1>2, <1>3, ToDisplayed
<1> HIDE DEF t
<1>5. Apart(t)
  BY <1>1, <1>3, <1>4 DEF Apart
<1>6. Elems(t.displayed) \cup Elems(t.waiting) = Elems(s.displayed) \cup Elems(s.waiting)
  BY <1>3, <1>4
<1>7. \A p \in Note : Same(s.n[p], t.n[p])
  BY <1>3, <1>4 DEF Same
<1>8. t.history = s.history /\ t.next = s.next /\ t.open = s.open
  BY <1>3, <1>4
<1>9. Good(t, H, L)
  <2>1. Graded => Ordered(t)
    BY <1>3, <1>4 DEF Good, Ordered
  <2> QED
    BY <1>4, <1>5, <1>6, <1>7, <1>8, <2>1, Rearranged
<1>10. MovedIn(s, w, o) = t
  BY DEF MovedIn, t, u
<1> QED
  BY <1>3, <1>4, <1>9, <1>10

(* One that its sender is told is closed has the same id, and is not valid. *)
LEMMA SignalledIs ==
    ASSUME NEW s \in Memory, NEW o \in Note
    PROVE  LET t == signal_notification_closed(s, o)
           IN  /\ t \in Memory
               /\ t.displayed = s.displayed /\ t.waiting = s.waiting /\ t.history = s.history
               /\ t.next = s.next
               /\ \A p \in Note : /\ p # o => t.n[p] = s.n[p]
                                  /\ t.n[p].id = s.n[p].id /\ t.n[p].kind = s.n[p].kind
                                  /\ t.n[p].redisplayed <=> s.n[p].redisplayed
                                  /\ t.n[p].locked <=> s.n[p].locked
               /\ ~t.n[o].valid
               /\ s.n[o].valid => t.open = s.open \ {s.n[o].id}
               /\ ~s.n[o].valid => t.open = s.open
<1> DEFINE r == [s.n[o] EXCEPT !.valid = FALSE, !.actions = FALSE]
           m == [s.n EXCEPT ![o] = r]
           out == s.open \ {s.n[o].id}
           u == [s EXCEPT !.n = m, !.open = out]
<1>1. s.n \in [Note -> NoteRec] /\ s.open \in SUBSET Nat /\ s.n[o] \in NoteRec
  BY MemoryIs
<1>2. r \in NoteRec /\ r.id = s.n[o].id /\ r.kind = s.n[o].kind /\ r.valid = FALSE
      /\ r.redisplayed = s.n[o].redisplayed /\ r.locked = s.n[o].locked
  BY <1>1 DEF NoteRec
<1>3. CASE s.n[o].valid
  <2>1. signal_notification_closed(s, o) = u
    <3>1. signal_notification_closed(s, o) =
             [s EXCEPT !.n[o].valid = FALSE, !.n[o].actions = FALSE, !.open = @ \ {s.n[o].id}]
      BY <1>3 DEF signal_notification_closed
    <3> QED
      BY <1>1, <3>1 DEF Memory, NoteRec
  <2> HIDE DEF r
  <2>2. m \in [Note -> NoteRec] /\ m[o] = r /\ \A p \in Note : p # o => m[p] = s.n[p]
    BY <1>1, <1>2
  <2> HIDE DEF m
  <2>3. out \in SUBSET Nat
    BY <1>1
  <2> HIDE DEF out
  <2>4. /\ u \in Memory /\ u.displayed = s.displayed /\ u.waiting = s.waiting
        /\ u.history = s.history /\ u.next = s.next /\ u.n = m /\ u.open = out
    BY <2>2, <2>3 DEF Memory
  <2> HIDE DEF u
  <2>5. \A p \in Note : /\ u.n[p].id = s.n[p].id /\ u.n[p].kind = s.n[p].kind
                        /\ u.n[p].redisplayed = s.n[p].redisplayed
                        /\ u.n[p].locked = s.n[p].locked
    BY <1>2, <2>2, <2>4
  <2>6. ~u.n[o].valid /\ \A p \in Note : p # o => u.n[p] = s.n[p]
    BY <1>2, <2>2, <2>4
  <2> QED
    BY <1>3, <2>1, <2>4, <2>5, <2>6 DEF out
<1>4. CASE ~s.n[o].valid
  <2>1. signal_notification_closed(s, o) = s
    BY <1>4 DEF signal_notification_closed
  <2> QED
    BY <1>4, <2>1
<1> QED
  BY <1>3, <1>4

(* history_push drops the oldest one if there would be too many. *)
LEMMA PushedIs ==
    ASSUME NEW s \in Memory, NEW o \in Note, Distinct(s.history), o \notin Elems(s.history),
           HistoryLength > 0 => Len(s.history) <= HistoryLength
    PROVE  LET t == history_push(s, o)
           IN  /\ t \in Memory
               /\ t.displayed = s.displayed /\ t.waiting = s.waiting
               /\ t.n = s.n /\ t.next = s.next /\ t.open = s.open
               /\ Distinct(t.history) /\ Elems(t.history) \subseteq Elems(s.history) \cup {o}
               /\ HistoryLength > 0 => Len(t.history) <= HistoryLength
<1> DEFINE full == HistoryLength > 0 /\ Len(s.history) >= HistoryLength
           kept == IF full THEN Tail(s.history) ELSE s.history
           h == Append(kept, o)
<1>1. s.history \in Seq(Note) /\ HistoryLength \in Nat
  BY MemoryIs, DunstAssumption
<1>2. Len(s.history) \in Nat
  BY <1>1, LenProperties
<1>3. /\ kept \in Seq(Note) /\ Distinct(kept) /\ Elems(kept) \subseteq Elems(s.history)
      /\ HistoryLength > 0 => Len(kept) < HistoryLength
  <2>1. CASE full
    <3>1. s.history # <<>>
      BY <1>1, <1>2, <2>1, EmptySeq
    <3>2. /\ Tail(s.history) \in Seq(Note) /\ Len(Tail(s.history)) = Len(s.history) - 1
          /\ Elems(s.history) = Elems(Tail(s.history)) \cup {Head(s.history)}
          /\ Distinct(Tail(s.history))
      BY <1>1, <3>1, HeadElems
    <3>3. kept = Tail(s.history)
      BY <2>1
    <3> HIDE DEF kept
    <3>4. Len(kept) < HistoryLength
      BY <1>1, <1>2, <2>1, <3>2, <3>3
    <3> QED
      BY <3>2, <3>3, <3>4
  <2>2. CASE ~full
    <3>1. kept = s.history
      BY <2>2
    <3> HIDE DEF kept
    <3>2. HistoryLength > 0 => Len(kept) < HistoryLength
      BY <1>1, <1>2, <2>2, <3>1
    <3> QED
      BY <1>1, <3>1, <3>2
  <2> QED
    BY <2>1, <2>2
<1>4. /\ h \in Seq(Note) /\ Len(h) = Len(kept) + 1 /\ Elems(h) = Elems(kept) \cup {o}
      /\ Distinct(h) /\ Len(kept) \in Nat
  <2>1. o \notin Elems(kept)
    BY <1>3
  <2> HIDE DEF kept
  <2> QED
    BY <1>3, <2>1, AppendedElems, LenProperties
<1>5. history_push(s, o) = IF s.n[o].kind.ignore THEN s ELSE [s EXCEPT !.history = h]
  BY DEF history_push
<1> HIDE DEF kept, h
<1>6. HistoryLength > 0 => Len(h) <= HistoryLength
  BY <1>1, <1>3, <1>4
<1>7. CASE s.n[o].kind.ignore
  BY <1>5, <1>7
<1>8. CASE ~s.n[o].kind.ignore
  <2>1. LET t == [s EXCEPT !.history = h]
        IN  /\ t \in Memory /\ t.displayed = s.displayed /\ t.waiting = s.waiting
            /\ t.history = h /\ t.n = s.n /\ t.next = s.next /\ t.open = s.open
    BY <1>4, WithHistory
  <2> QED
    BY <1>3, <1>4, <1>5, <1>6, <1>8, <2>1
<1> QED
  BY <1>7, <1>8

(* What closing by id does to the queues: the first one with the id leaves *)
(* each of the two.                                                        *)
Closed(s, t, id) ==
    /\ t.displayed = RemoveFirst(s.displayed, WithId(s, s.displayed, id))
    /\ t.waiting = RemoveFirst(s.waiting, WithId(s, s.waiting, id))
    /\ \A p \in Note : /\ t.n[p].id = s.n[p].id /\ t.n[p].kind = s.n[p].kind
                       /\ t.n[p].redisplayed <=> s.n[p].redisplayed
                       /\ t.n[p].locked <=> s.n[p].locked

(* queues_notification_close_id *)
LEMMA CloseKeeps ==
    ASSUME NEW s, NEW H, NEW L, Good(s, H, L), NEW id
    PROVE  Good(close_id(s, id), H, L) /\ Closed(s, close_id(s, id), id)
<1> DEFINE d == WithId(s, s.displayed, id)
           w == WithId(s, s.waiting, id)
           target == IF w # None THEN w ELSE d
           ds == RemoveFirst(s.displayed, d)
           ws == RemoveFirst(s.waiting, w)
           r == [s EXCEPT !.displayed = ds, !.waiting = ws]
           u == IF s.n[target].redisplayed THEN r ELSE signal_notification_closed(r, target)
           t == history_push(u, target)
<1>1. s \in Memory /\ Apart(s) /\ Known(s)
  BY DEF Good
<1>2. /\ s.displayed \in Seq(Note) /\ s.waiting \in Seq(Note) /\ s.history \in Seq(Note)
      /\ Held(s) \subseteq Note
  BY <1>1, MemoryIs
<1>3. /\ Distinct(s.displayed) /\ Distinct(s.waiting) /\ Distinct(s.history)
      /\ Elems(s.displayed) \cap Elems(s.waiting) = {}
      /\ Elems(s.displayed) \cap Elems(s.history) = {}
      /\ Elems(s.waiting) \cap Elems(s.history) = {}
  BY <1>1 DEF Apart
<1>4. /\ d # None => d \in Elems(s.displayed) /\ s.n[d].id = id
      /\ w # None => w \in Elems(s.waiting) /\ s.n[w].id = id
      /\ d = None => d \notin Elems(s.displayed)
      /\ w = None => w \notin Elems(s.waiting)
  <2>1. IsFirst(s, s.displayed, id, d) /\ IsFirst(s, s.waiting, id, w)
    BY <1>2, WithIdIs
  <2>2. /\ Elems(s.displayed) = {s.displayed[k] : k \in 1..Len(s.displayed)}
        /\ Elems(s.waiting) = {s.waiting[k] : k \in 1..Len(s.waiting)}
        /\ Elems(s.displayed) \subseteq Note /\ Elems(s.waiting) \subseteq Note
    BY <1>2, ElemsOf
  <2>3. None \notin Note
    BY DEF None, Note
  <2> HIDE DEF d, w
  <2> QED
    BY <2>1, <2>2, <2>3 DEF IsFirst
<1>5. /\ ds \in Seq(Note) /\ Elems(ds) = Elems(s.displayed) \ {d} /\ Distinct(ds)
      /\ ws \in Seq(Note) /\ Elems(ws) = Elems(s.waiting) \ {w} /\ Distinct(ws)
  <2> HIDE DEF d, w
  <2> QED
    BY <1>2, <1>3, RemovedElems
<1>6. close_id(s, id) = IF target = None THEN s ELSE t
  BY DEF close_id, drop
<1> HIDE DEF d, w
<1>7. CASE target = None
  <2>1. d = None /\ w = None
    BY <1>7
  <2>2. ds = s.displayed /\ ws = s.waiting
    BY <1>2, <1>4, <2>1, RemoveFirstAt, ElemsOf, SMTT(30)
  <2>3. Closed(s, s, id)
    BY <2>2 DEF Closed, d, w
  <2> QED
    BY <1>6, <1>7, <2>3
<1>8. CASE target # None
  <2>1. /\ target \in Elems(s.displayed) \cup Elems(s.waiting) /\ s.n[target].id = id
        /\ (target = d /\ w = None) \/ (target = w /\ w # None)
    BY <1>4, <1>8
  <2>2. target \in Note /\ target \in Held(s)
    BY <1>2, <2>1 DEF Held
  <2> HIDE DEF target, ds, ws
  <2>3. /\ r \in Memory /\ r.displayed = ds /\ r.waiting = ws /\ r.history = s.history
        /\ r.n = s.n /\ r.next = s.next /\ r.open = s.open
    <3>1. ds \in Seq(Note) /\ ws \in Seq(Note)
      BY <1>5
    <3> QED
      BY <1>1, <3>1 DEF Memory
  <2> HIDE DEF r
  <2>4. /\ u \in Memory /\ u.displayed = ds /\ u.waiting = ws /\ u.history = s.history
        /\ u.next = s.next
        /\ \A p \in Note : /\ p # target => u.n[p] = s.n[p]
                           /\ u.n[p].id = s.n[p].id /\ u.n[p].kind = s.n[p].kind
                           /\ u.n[p].redisplayed <=> s.n[p].redisplayed
                           /\ u.n[p].locked <=> s.n[p].locked
        /\ s.n[target].redisplayed => u.n = s.n /\ u.open = s.open
        /\ ~s.n[target].redisplayed => ~u.n[target].valid
        /\ ~s.n[target].redisplayed /\ s.n[target].valid => u.open = s.open \ {id}
        /\ ~s.n[target].redisplayed /\ ~s.n[target].valid => u.open = s.open
    <3>1. CASE s.n[target].redisplayed
      BY <2>3, <3>1
    <3>2. CASE ~s.n[target].redisplayed
      <4> DEFINE v == signal_notification_closed(r, target)
      <4>1. /\ v \in Memory
            /\ v.displayed = r.displayed /\ v.waiting = r.waiting /\ v.history = r.history
            /\ v.next = r.next
            /\ \A p \in Note : /\ p # target => v.n[p] = r.n[p]
                               /\ v.n[p].id = r.n[p].id /\ v.n[p].kind = r.n[p].kind
                               /\ v.n[p].redisplayed <=> r.n[p].redisplayed
                               /\ v.n[p].locked <=> r.n[p].locked
            /\ ~v.n[target].valid
            /\ r.n[target].valid => v.open = r.open \ {r.n[target].id}
            /\ ~r.n[target].valid => v.open = r.open
        BY <2>2, <2>3, SignalledIs
      <4>2. u = v
        BY <3>2
      <4> HIDE DEF v, u
      <4> QED
        BY <2>1, <2>3, <3>2, <4>1, <4>2
    <3> QED
      BY <3>1, <3>2
  <2> HIDE DEF u
  <2>5. /\ t \in Memory /\ t.displayed = ds /\ t.waiting = ws
        /\ t.n = u.n /\ t.next = s.next /\ t.open = u.open
        /\ Distinct(t.history) /\ Elems(t.history) \subseteq Elems(s.history) \cup {target}
        /\ HistoryLength > 0 => Len(t.history) <= HistoryLength
    <3>1. target \notin Elems(s.history)
      BY <1>3, <2>1
    <3>2. HistoryLength > 0 => Len(s.history) <= HistoryLength
      BY DEF Good
    <3>3. /\ t \in Memory /\ t.displayed = u.displayed /\ t.waiting = u.waiting
          /\ t.n = u.n /\ t.next = u.next /\ t.open = u.open
          /\ Distinct(t.history) /\ Elems(t.history) \subseteq Elems(u.history) \cup {target}
          /\ HistoryLength > 0 => Len(t.history) <= HistoryLength
      BY <1>3, <2>2, <2>4, <3>1, <3>2, PushedIs
    <3> QED
      BY <2>4, <3>3
  <2> HIDE DEF t
  <2>6. target \notin Elems(ds) /\ target \notin Elems(ws)
    BY <1>3, <1>4, <1>5, <2>1
  <2>7. Apart(t)
    BY <1>3, <1>5, <2>5, <2>6 DEF Apart
  <2>8. Held(t) \subseteq Held(s)
    BY <1>5, <2>2, <2>5 DEF Held
  <2>9. u.open \subseteq s.open
    BY <2>4
  <2>10. Known(t)
    <3>1. \A p \in Held(t) : u.n[p].id = s.n[p].id /\ u.n[p].kind = s.n[p].kind
      BY <1>2, <2>4, <2>8
    <3> QED
      BY <1>1, <2>5, <2>8, <2>9, <3>1 DEF Known
  <2>11. Held(t) \subseteq H
    BY <2>8 DEF Good
  <2>12. \A p \in Note : t.n[p].locked => p \in L
    BY <2>4, <2>5 DEF Good
  <2>13. ASSUME Tidy PROVE Paired(t)
    <3>1. Paired(s)
      BY <2>13 DEF Good
    <3>2. \A o, p \in Held(s) : s.n[o].id = s.n[p].id => o = p
      BY <3>1 DEF Paired
    <3>3. ~(d # None /\ w # None)
      <4> SUFFICES ASSUME d # None, w # None PROVE FALSE
        OBVIOUS
      <4>1. d \in Held(s) /\ w \in Held(s) /\ s.n[d].id = s.n[w].id
        BY <1>4 DEF Held
      <4>2. d = w
        BY <3>2, <4>1
      <4> QED
        BY <1>3, <1>4, <4>2
    <3>4. Elems(ds) \cup Elems(ws) = (Elems(s.displayed) \cup Elems(s.waiting)) \ {target}
      <4>1. d = target \/ d \notin Elems(s.displayed)
        BY <1>4, <2>1, <3>3
      <4>2. w = target \/ w \notin Elems(s.waiting)
        BY <1>4, <2>1
      <4> QED
        BY <1>3, <1>4, <1>5, <2>1, <3>3, <4>1, <4>2
    <3>5. ~u.n[target].valid
      BY <2>2, <2>4, <3>1 DEF Paired
    <3>6. ASSUME NEW o \in Held(t), u.n[o].valid
          PROVE  /\ o \in Elems(t.displayed) \cup Elems(t.waiting)
                 /\ ~u.n[o].redisplayed /\ u.n[o].id \in u.open
      <4>1. o \in Held(s) /\ o \in Note /\ o # target
        BY <1>2, <2>8, <3>5, <3>6
      <4>2. u.n[o] = s.n[o]
        BY <2>4, <4>1
      <4>3. /\ o \in Elems(s.displayed) \cup Elems(s.waiting)
            /\ ~s.n[o].redisplayed /\ s.n[o].id \in s.open
        BY <3>1, <3>6, <4>1, <4>2 DEF Paired
      <4>4. s.n[o].id # id
        BY <2>1, <2>2, <3>2, <4>1
      <4>5. s.n[o].id \in u.open
        BY <2>4, <4>3, <4>4
      <4> QED
        BY <2>5, <3>4, <4>1, <4>2, <4>3, <4>5
    <3>7. ASSUME NEW i \in u.open PROVE \E o \in Held(t) : u.n[o].valid /\ u.n[o].id = i
      <4>1. PICK o \in Held(s) : s.n[o].valid /\ s.n[o].id = i
        BY <2>9, <3>1 DEF Paired
      <4>2. o # target
        <5> SUFFICES ASSUME o = target PROVE FALSE
          OBVIOUS
        <5>1. ~s.n[target].redisplayed /\ s.n[target].valid
          BY <3>1, <4>1 DEF Paired
        <5>2. u.open = s.open \ {id}
          BY <2>4, <5>1
        <5> QED
          BY <2>1, <3>7, <4>1, <5>2
      <4>3. o \in Elems(s.displayed) \cup Elems(s.waiting)
        BY <3>1, <4>1 DEF Paired
      <4>4. o \in Held(t)
        BY <2>5, <3>4, <4>2, <4>3 DEF Held
      <4>5. u.n[o] = s.n[o]
        BY <1>2, <2>4, <4>1, <4>2
      <4> QED
        BY <4>1, <4>4, <4>5
    <3>8. \A o, p \in Held(t) : u.n[o].id = u.n[p].id => o = p
      <4>1. \A o \in Held(t) : o \in Held(s) /\ u.n[o].id = s.n[o].id
        BY <1>2, <2>4, <2>8
      <4> QED
        BY <3>2, <4>1
    <3> QED
      BY <2>5, <3>6, <3>7, <3>8 DEF Paired
  <2>14. ASSUME Graded PROVE Ordered(t)
    <3>1. Falling(s.n, s.displayed) /\ Falling(s.n, s.waiting)
      BY <2>14 DEF Good, Ordered
    <3>2. Falling(s.n, ds) /\ Falling(s.n, ws)
      BY <1>2, <3>1, FallingRemoved DEF ds, ws
    <3>3. /\ \A p \in Elems(ds) : u.n[p].kind = s.n[p].kind
          /\ \A p \in Elems(ws) : u.n[p].kind = s.n[p].kind
      BY <1>2, <1>5, <2>4 DEF Held
    <3>4. Falling(u.n, ds) /\ Falling(u.n, ws)
      BY <1>5, <3>2, <3>3, FallingSame
    <3> QED
      BY <2>5, <3>4 DEF Ordered
  <2>15. Good(t, H, L)
    BY <2>5, <2>7, <2>10, <2>11, <2>12, <2>13, <2>14 DEF Good
  <2>16. Closed(s, t, id)
    BY <2>4, <2>5 DEF Closed, ds, ws, d, w
  <2> QED
    BY <1>6, <1>8, <2>15, <2>16
<1> QED
  BY <1>7, <1>8

(* A notification that is marked, or no longer. *)
LEMMA Remarked ==
    ASSUME NEW s, NEW H, NEW L, Good(s, H, L), NEW o \in Note,
           NEW r \in NoteRec, Same(s.n[o], r)
    PROVE  LET t == [s EXCEPT !.n = [s.n EXCEPT ![o] = r]]
           IN  /\ Good(t, H, L)
               /\ t.displayed = s.displayed /\ t.waiting = s.waiting /\ t.history = s.history
               /\ t.n = [s.n EXCEPT ![o] = r]
<1> DEFINE m == [s.n EXCEPT ![o] = r]
           t == [s EXCEPT !.n = m]
<1>1. s \in Memory /\ Apart(s)
  BY DEF Good
<1>2. s.n \in [Note -> NoteRec]
  BY <1>1, MemoryIs
<1>3. m \in [Note -> NoteRec] /\ m[o] = r /\ \A p \in Note : p # o => m[p] = s.n[p]
  BY <1>2
<1> HIDE DEF m
<1>4. /\ t \in Memory /\ t.displayed = s.displayed /\ t.waiting = s.waiting
      /\ t.history = s.history /\ t.n = m /\ t.next = s.next /\ t.open = s.open
  BY <1>1, <1>3 DEF Memory
<1> HIDE DEF t
<1>5. \A p \in Note : Same(s.n[p], t.n[p])
  BY <1>3, <1>4 DEF Same
<1>6. Apart(t)
  BY <1>1, <1>4 DEF Apart
<1>7. Elems(t.displayed) \cup Elems(t.waiting) = Elems(s.displayed) \cup Elems(s.waiting)
  BY <1>4
<1>8. t.history = s.history /\ t.next = s.next /\ t.open = s.open
  BY <1>4
<1>9. ASSUME Graded PROVE Ordered(t)
  <2>1. Ordered(s) /\ Elems(s.displayed) \cup Elems(s.waiting) \subseteq Note
    BY <1>1, <1>9, MemoryIs DEF Good, Held
  <2>2. \A p \in Elems(s.displayed) \cup Elems(s.waiting) : t.n[p].kind = s.n[p].kind
    BY <1>5, <2>1 DEF Same
  <2> QED
    BY <1>1, <1>4, <2>1, <2>2, OrderedSame
<1>10. Good(t, H, L)
  BY <1>4, <1>5, <1>6, <1>7, <1>8, <1>9, Rearranged
<1> QED
  BY <1>4, <1>10 DEF t, m

(* The marks of a click, once they are obeyed. *)
LEMMA Unmarked ==
    ASSUME NEW s, NEW H, NEW L, Good(s, H, L), NEW o \in Note
    PROVE  /\ LET t == [s EXCEPT !.n[o].closure = FALSE]
              IN  /\ Good(t, H, L) /\ t.displayed = s.displayed
                  /\ t.waiting = s.waiting /\ t.history = s.history
                  /\ \A p \in Note : t.n[p].locked <=> s.n[p].locked
           /\ LET t == [s EXCEPT !.n[o].removal = FALSE]
              IN  /\ Good(t, H, L) /\ t.displayed = s.displayed
                  /\ t.waiting = s.waiting /\ t.history = s.history
                  /\ \A p \in Note : t.n[p].locked <=> s.n[p].locked
<1> DEFINE a == [s.n[o] EXCEPT !.closure = FALSE]
           b == [s.n[o] EXCEPT !.removal = FALSE]
<1>1. s \in Memory
  BY DEF Good
<1>2. s.n \in [Note -> NoteRec] /\ s.n[o] \in NoteRec
  BY <1>1, MemoryIs
<1>3. /\ a \in NoteRec /\ Same(s.n[o], a)
      /\ b \in NoteRec /\ Same(s.n[o], b)
      /\ a.locked = s.n[o].locked /\ b.locked = s.n[o].locked
  BY <1>2 DEF NoteRec, Same
<1>4. /\ [s EXCEPT !.n[o].closure = FALSE] = [s EXCEPT !.n = [s.n EXCEPT ![o] = a]]
      /\ [s EXCEPT !.n[o].removal = FALSE] = [s EXCEPT !.n = [s.n EXCEPT ![o] = b]]
  BY <1>1, <1>2 DEF Memory, NoteRec
<1> HIDE DEF a, b
<1>5. LET t == [s EXCEPT !.n = [s.n EXCEPT ![o] = a]]
      IN  /\ Good(t, H, L)
          /\ t.displayed = s.displayed /\ t.waiting = s.waiting /\ t.history = s.history
          /\ t.n = [s.n EXCEPT ![o] = a]
  BY <1>3, Remarked
<1>6. LET t == [s EXCEPT !.n = [s.n EXCEPT ![o] = b]]
      IN  /\ Good(t, H, L)
          /\ t.displayed = s.displayed /\ t.waiting = s.waiting /\ t.history = s.history
          /\ t.n = [s.n EXCEPT ![o] = b]
  BY <1>3, Remarked
<1>7. /\ \A p \in Note : [s.n EXCEPT ![o] = a][p].locked = s.n[p].locked
      /\ \A p \in Note : [s.n EXCEPT ![o] = b][p].locked = s.n[p].locked
  BY <1>2, <1>3
<1> QED
  BY <1>4, <1>5, <1>6, <1>7

(* A history without some of its notifications: none of them was in use.   *)
LEMMA Forgotten ==
    ASSUME NEW s, NEW H, NEW L, Good(s, H, L), NEW h \in Seq(Note), Distinct(h),
           Elems(h) \subseteq Elems(s.history), Len(h) <= Len(s.history)
    PROVE  LET t == [s EXCEPT !.history = h]
           IN  /\ Good(t, H, L) /\ t.displayed = s.displayed /\ t.waiting = s.waiting
               /\ t.history = h /\ t.n = s.n /\ t.next = s.next /\ t.open = s.open
<1> DEFINE t == [s EXCEPT !.history = h]
<1>1. s \in Memory /\ Apart(s) /\ Known(s)
  BY DEF Good
<1>2. /\ t \in Memory /\ t.displayed = s.displayed /\ t.waiting = s.waiting
      /\ t.history = h /\ t.n = s.n /\ t.next = s.next /\ t.open = s.open
  BY <1>1, WithHistory
<1> HIDE DEF t
<1>3. Held(t) \subseteq Held(s)
  BY <1>2 DEF Held
<1>4. Apart(t)
  BY <1>1, <1>2 DEF Apart
<1>5. Known(t)
  BY <1>1, <1>2, <1>3 DEF Known
<1>6. HistoryLength > 0 => Len(t.history) <= HistoryLength
  <2>1. s.history \in Seq(Note)
    BY <1>1, MemoryIs
  <2>2. Len(h) \in Nat /\ Len(s.history) \in Nat /\ HistoryLength \in Nat
    BY <2>1, LenProperties, DunstAssumption
  <2>3. HistoryLength > 0 => Len(s.history) <= HistoryLength
    BY DEF Good
  <2> QED
    BY <1>2, <2>2, <2>3
<1>7. ASSUME Tidy PROVE Paired(t)
  <2>1. Paired(s)
    BY <1>7 DEF Good
  <2>2. \A o \in Held(s) : s.n[o].valid => o \in Held(t)
    BY <1>2, <2>1 DEF Paired, Held
  <2> QED
    BY <1>2, <1>3, <2>1, <2>2 DEF Paired
<1>8. Held(t) \subseteq H /\ \A o \in Note : t.n[o].locked => o \in L
  BY <1>2, <1>3 DEF Good
<1>9. Good(t, H, L)
  <2>1. Graded => Ordered(t)
    BY <1>2 DEF Good, Ordered
  <2> QED
    BY <1>2, <1>4, <1>5, <1>6, <1>7, <1>8, <2>1 DEF Good
<1> QED
  BY <1>2, <1>9 DEF t

(* queues_history_remove_by_id *)
LEMMA HistoryRemoveKeeps ==
    ASSUME NEW s, NEW H, NEW L, Good(s, H, L), NEW id
    PROVE  LET t == history_remove_by_id(s, id)
           IN  Good(t, H, L) /\ t.displayed = s.displayed /\ t.waiting = s.waiting /\ t.n = s.n
<1> DEFINE h == RemoveFirst(s.history, WithId(s, s.history, id))
<1>1. s.history \in Seq(Note) /\ Distinct(s.history)
  <2>1. s \in Memory /\ Apart(s)
    BY DEF Good
  <2> QED
    BY <2>1, MemoryIs DEF Apart
<1>2. /\ h \in Seq(Note) /\ Elems(h) = Elems(s.history) \ {WithId(s, s.history, id)}
      /\ Distinct(h) /\ Len(h) <= Len(s.history)
  BY <1>1, RemovedElems
<1>3. history_remove_by_id(s, id) = [s EXCEPT !.history = h]
  BY DEF history_remove_by_id
<1> HIDE DEF h
<1>4. Elems(h) \subseteq Elems(s.history)
  BY <1>2
<1>5. LET t == [s EXCEPT !.history = h]
      IN  /\ Good(t, H, L) /\ t.displayed = s.displayed /\ t.waiting = s.waiting
          /\ t.history = h /\ t.n = s.n /\ t.next = s.next /\ t.open = s.open
  BY <1>2, <1>4, Forgotten
<1> QED
  BY <1>3, <1>5

(* queues_notification_close, queues_notification_remove *)
LEMMA RemoveKeeps ==
    ASSUME NEW s, NEW H, NEW L, Good(s, H, L), NEW o
    PROVE  /\ Good(close(s, o), H, L) /\ Closed(s, close(s, o), s.n[o].id)
           /\ Good(remove(s, o), H, L) /\ Closed(s, remove(s, o), s.n[o].id)
<1> DEFINE t == close(s, o)
<1>1. Good(t, H, L) /\ Closed(s, t, s.n[o].id)
  BY CloseKeeps DEF close
<1> HIDE DEF t
<1> DEFINE u == history_remove_by_id(t, s.n[o].id)
<1>2. Good(u, H, L) /\ u.displayed = t.displayed /\ u.waiting = t.waiting /\ u.n = t.n
  BY <1>1, HistoryRemoveKeeps
<1>3. remove(s, o) = u
  BY DEF remove, t
<1> HIDE DEF u
<1>4. Closed(s, u, s.n[o].id)
  BY <1>1, <1>2 DEF Closed
<1> QED
  BY <1>1, <1>2, <1>3, <1>4 DEF t

-----------------------------------------------------------------------------
(* A new notification.                                                     *)

(* One that no queue holds may become any other.                           *)
LEMMA Received ==
    ASSUME NEW s, NEW H, NEW L, Good(s, H, L), NEW o \in Note, o \notin Held(s),
           NEW r \in NoteRec, ~r.locked
    PROVE  LET t == [s EXCEPT !.n[o] = r]
           IN  /\ Good(t, H, L) /\ Held(t) = Held(s) /\ t.n[o] = r
               /\ t.next = s.next /\ t.open = s.open
<1> DEFINE m == [s.n EXCEPT ![o] = r]
           t == [s EXCEPT !.n = m]
<1>1. s \in Memory /\ Apart(s) /\ Known(s)
  BY DEF Good
<1>2. s.n \in [Note -> NoteRec]
  BY <1>1, MemoryIs
<1>3. m \in [Note -> NoteRec] /\ m[o] = r /\ \A p \in Note : p # o => m[p] = s.n[p]
  BY <1>2
<1>4. [s EXCEPT !.n[o] = r] = t
  BY <1>1, <1>2 DEF Memory
<1> HIDE DEF m
<1>5. /\ t \in Memory /\ t.displayed = s.displayed /\ t.waiting = s.waiting
      /\ t.history = s.history /\ t.n = m /\ t.next = s.next /\ t.open = s.open
  BY <1>1, <1>3 DEF Memory
<1> HIDE DEF t
<1>6. Held(t) = Held(s)
  BY <1>5 DEF Held
<1>7. \A p \in Held(s) : t.n[p] = s.n[p]
  <2>1. \A p \in Held(s) : p \in Note /\ p # o
    BY <1>1, MemoryIs
  <2> QED
    BY <1>3, <1>5, <2>1
<1>8. Apart(t)
  BY <1>1, <1>5 DEF Apart
<1>9. Known(t)
  BY <1>1, <1>5, <1>6, <1>7 DEF Known
<1>10. \A p \in Note : t.n[p].locked => p \in L
  BY <1>3, <1>5 DEF Good
<1>11. Tidy => Paired(t)
  BY <1>5, <1>6, <1>7 DEF Good, Paired
<1>12. Held(t) \subseteq H /\ (HistoryLength > 0 => Len(t.history) <= HistoryLength)
  BY <1>5, <1>6 DEF Good
<1>13. Good(t, H, L)
  <2>1. ASSUME Graded PROVE Ordered(t)
    <3>1. \A p \in Elems(s.displayed) \cup Elems(s.waiting) : t.n[p].kind = s.n[p].kind
      BY <1>7 DEF Held
    <3> QED
      BY <1>1, <1>5, <2>1, <3>1, OrderedSame DEF Good
  <2> QED
    BY <1>5, <1>8, <1>9, <1>10, <1>11, <1>12, <2>1 DEF Good
<1> QED
  BY <1>3, <1>4, <1>5, <1>6, <1>13

(* take_place: the new one is where the old one was. *)
LEMMA TakesPlace ==
    ASSUME NEW s \in Memory, Apart(s), NEW old \in Elems(s.displayed) \cup Elems(s.waiting),
           NEW o \in Note, o \notin Held(s)
    PROVE  LET t == take_place(s, old, o)
           IN  /\ t \in Memory /\ Apart(t) /\ t.history = s.history /\ t.n = s.n
               /\ t.next = s.next /\ t.open = s.open
               /\ Elems(t.displayed) \cup Elems(t.waiting) =
                     ((Elems(s.displayed) \cup Elems(s.waiting)) \ {old}) \cup {o}
               /\ Ordered(s) /\ s.n[o].kind.urgency = s.n[old].kind.urgency => Ordered(t)
<1> DEFINE d == ReplaceAll(s.displayed, old, o)
           w == ReplaceAll(s.waiting, old, o)
           t == [s EXCEPT !.displayed = d, !.waiting = w]
<1>1. s.displayed \in Seq(Note) /\ s.waiting \in Seq(Note)
  BY MemoryIs
<1>2. o \notin Elems(s.displayed) /\ o \notin Elems(s.waiting) /\ o \notin Elems(s.history)
  BY DEF Held
<1>3. /\ Distinct(s.displayed) /\ Distinct(s.waiting) /\ Distinct(s.history)
      /\ Elems(s.displayed) \cap Elems(s.waiting) = {}
      /\ Elems(s.displayed) \cap Elems(s.history) = {}
      /\ Elems(s.waiting) \cap Elems(s.history) = {}
  BY DEF Apart
<1>4. /\ d \in Seq(Note) /\ Distinct(d)
      /\ Elems(d) = Exchanged(Elems(s.displayed), old, o)
  <2>1. s.displayed \in Seq(Note) /\ Distinct(s.displayed) /\ o \notin Elems(s.displayed)
    BY <1>1, <1>2, <1>3
  <2> QED
    BY ONLY <2>1, o \in Note, ReplacedElems
<1>5. Ordered(s) /\ s.n[o].kind.urgency = s.n[old].kind.urgency =>
          Falling(s.n, d) /\ Falling(s.n, w)
  BY <1>1, FallingReplaced DEF Ordered
<1>6. /\ w \in Seq(Note) /\ Distinct(w)
      /\ Elems(w) = Exchanged(Elems(s.waiting), old, o)
  <2>1. s.waiting \in Seq(Note) /\ Distinct(s.waiting) /\ o \notin Elems(s.waiting)
    BY <1>1, <1>2, <1>3
  <2> QED
    BY ONLY <2>1, o \in Note, ReplacedElems
<1>7. take_place(s, old, o) = t
  BY DEF take_place
<1> HIDE DEF d, w
<1>8. /\ t \in Memory /\ t.displayed = d /\ t.waiting = w /\ t.history = s.history
      /\ t.n = s.n /\ t.next = s.next /\ t.open = s.open
  BY <1>4, <1>6 DEF Memory
<1> HIDE DEF t
<1>9. Ordered(s) /\ s.n[o].kind.urgency = s.n[old].kind.urgency => Ordered(t)
  BY <1>8, <1>5 DEF Ordered
<1>10. CASE old \in Elems(s.displayed)
  <2>1. old \notin Elems(s.waiting)
    BY <1>3, <1>10
  <2>2. Elems(d) = (Elems(s.displayed) \ {old}) \cup {o} /\ Elems(w) = Elems(s.waiting)
    BY <1>4, <1>6, <1>10, <2>1 DEF Exchanged
  <2>3. Apart(t)
    BY <1>2, <1>3, <1>4, <1>6, <1>8, <2>2 DEF Apart
  <2>4. Elems(d) \cup Elems(w) = ((Elems(s.displayed) \cup Elems(s.waiting)) \ {old}) \cup {o}
    BY <2>1, <2>2
  <2> QED
    BY <1>7, <1>8, <1>9, <2>3, <2>4
<1>11. CASE old \in Elems(s.waiting)
  <2>1. old \notin Elems(s.displayed)
    BY <1>3, <1>11
  <2>2. Elems(w) = (Elems(s.waiting) \ {old}) \cup {o} /\ Elems(d) = Elems(s.displayed)
    BY <1>4, <1>6, <1>11, <2>1 DEF Exchanged
  <2>3. Apart(t)
    BY <1>2, <1>3, <1>4, <1>6, <1>8, <2>2 DEF Apart
  <2>4. Elems(d) \cup Elems(w) = ((Elems(s.displayed) \cup Elems(s.waiting)) \ {old}) \cup {o}
    BY <2>1, <2>2
  <2> QED
    BY <1>7, <1>8, <1>9, <2>3, <2>4
<1> QED
  BY <1>10, <1>11

(* A new one among those displayed or waiting, in the place of those in X, *)
(* if its id is that of nobody else and the ids in use are still those of  *)
(* the valid ones.                                                         *)
LEMMA Placed ==
    ASSUME NEW s, NEW H, NEW L, Good(s, H, L), NEW o \in Note, o \notin Held(s), NEW X,
           NEW t \in Memory, Apart(t),
           Elems(t.displayed) \cup Elems(t.waiting) =
              ((Elems(s.displayed) \cup Elems(s.waiting)) \ X) \cup {o},
           X \subseteq Elems(s.displayed) \cup Elems(s.waiting),
           t.history = s.history, s.next <= t.next, t.open \subseteq 1..t.next,
           \A p \in Held(s) \ X : t.n[p] = s.n[p],
           \A p \in Note : t.n[p].locked => p \in L,
           t.n[o].id \in 1..t.next, t.n[o].kind \in Kinds, ~t.n[o].redisplayed,
           Tidy => /\ \A p \in Held(s) \ X : s.n[p].id # t.n[o].id
                   /\ t.n[o].valid /\ t.n[o].id \in t.open
                   /\ \A p \in Held(s) \ X : s.n[p].valid => s.n[p].id \in t.open
                   /\ \A id \in t.open : \/ id = t.n[o].id
                                         \/ \E p \in Held(s) \ X : s.n[p].valid /\ s.n[p].id = id,
           Graded => Ordered(t)
    PROVE  Good(t, H \cup {o}, L)
<1>1. s \in Memory /\ Apart(s) /\ Known(s)
  BY DEF Good
<1>2. Held(t) = (Held(s) \ X) \cup {o}
  <2>1. X \cap Elems(s.history) = {}
    BY <1>1 DEF Apart
  <2> QED
    BY <2>1 DEF Held
<1>3. Known(t)
  <2>1. s.next \in Nat /\ t.next \in Nat
    BY <1>1, MemoryIs
  <2>2. \A p \in Held(s) \ X : t.n[p].id \in 1..t.next /\ t.n[p].kind \in Kinds
    BY <1>1, <2>1 DEF Known
  <2> QED
    BY <1>2, <2>2 DEF Known
<1>4. HistoryLength > 0 => Len(t.history) <= HistoryLength
  BY DEF Good
<1>5. Held(t) \subseteq H \cup {o}
  BY <1>2 DEF Good
<1>6. ASSUME Tidy PROVE Paired(t)
  <2>1. Paired(s)
    BY <1>6 DEF Good
  <2>2. o \notin Held(s) \ X
    OBVIOUS
  <2>3. \A p, r \in Held(t) : t.n[p].id = t.n[r].id => p = r
    BY <1>2, <1>6, <2>1 DEF Paired
  <2>4. \A p \in Held(s) \ X : t.n[p].valid =>
          /\ p \in Elems(t.displayed) \cup Elems(t.waiting)
          /\ ~t.n[p].redisplayed /\ t.n[p].id \in t.open
    BY <1>6, <2>1 DEF Paired
  <2>5. \A id \in t.open : \E p \in Held(t) : t.n[p].valid /\ t.n[p].id = id
    BY <1>2, <1>6
  <2> QED
    BY <1>2, <1>6, <2>3, <2>4, <2>5 DEF Paired
<1> QED
  BY <1>3, <1>4, <1>5, <1>6 DEF Good

(* s with other ids in use. *)
LEMMA WithOpen ==
    ASSUME NEW s \in Memory, NEW u \in SUBSET Nat
    PROVE  /\ [s EXCEPT !.open = u] \in Memory
           /\ [s EXCEPT !.open = u].displayed = s.displayed
           /\ [s EXCEPT !.open = u].waiting = s.waiting
           /\ [s EXCEPT !.open = u].history = s.history
           /\ [s EXCEPT !.open = u].n = s.n
           /\ [s EXCEPT !.open = u].next = s.next
           /\ [s EXCEPT !.open = u].open = u
  BY DEF Memory

(* The state in which a new notification is identified.                    *)
Arrives(s, o) ==
    /\ o \in Note /\ o \notin Held(s)
    /\ s.n[o].id \in 0..s.next /\ s.n[o].kind \in Kinds
    /\ s.n[o].valid /\ ~s.n[o].redisplayed

(* One that replaces an id. *)
LEMMA ReplaceIdKeeps ==
    ASSUME NEW s, NEW H, NEW L, Good(s, H, L), NEW o, Arrives(s, o),
           s.n[o].id # 0, Tidy => s.n[o].id \in s.open,
           Graded => \A p \in Held(s) : s.n[p].id = s.n[o].id =>
                        s.n[o].kind.urgency = s.n[p].kind.urgency
    PROVE  Good(replace_id(s, o, WithId(s, s.displayed \o s.waiting, s.n[o].id)), H \cup {o}, L)
<1> DEFINE id == s.n[o].id
           both == s.displayed \o s.waiting
           old == WithId(s, both, id)
           u == IF old # None THEN take_place(s, old, o) ELSE to_waiting(s, o)
           X == IF old # None THEN {old} ELSE {}
           out == s.open \cup {id}
           t == [u EXCEPT !.open = out]
<1>1. s \in Memory /\ Apart(s) /\ Known(s) /\ o \in Note /\ o \notin Held(s)
  BY DEF Good, Arrives
<1>2. /\ s.displayed \in Seq(Note) /\ s.waiting \in Seq(Note) /\ s.open \in SUBSET Nat
      /\ s.next \in Nat /\ Held(s) \subseteq Note
  BY <1>1, MemoryIs
<1>3. /\ both \in Seq(Note) /\ Elems(both) = Elems(s.displayed) \cup Elems(s.waiting)
  <2>1. both \in Seq(Note) /\ Members(both) = Members(s.displayed) \cup Members(s.waiting)
    BY <1>2, ConcatMembers
  <2> QED
    BY <2>1 DEF Members, Elems
<1> HIDE DEF both
<1>4. IsFirst(s, both, id, old)
  BY <1>3, WithIdIs
<1>5. /\ old # None => old \in Elems(s.displayed) \cup Elems(s.waiting) /\ s.n[old].id = id
      /\ old = None => \A p \in Elems(s.displayed) \cup Elems(s.waiting) : s.n[p].id # id
  <2>1. /\ Elems(both) = {both[k] : k \in 1..Len(both)} /\ Elems(both) \subseteq Note
    BY <1>3, ElemsOf
  <2>2. None \notin Note
    BY DEF None, Note
  <2> HIDE DEF old, id
  <2> QED
    BY <1>3, <1>4, <2>1, <2>2 DEF IsFirst
<1>6. replace_id(s, o, old) = [u EXCEPT !.open = u.open \cup {id}]
  BY DEF replace_id
<1> HIDE DEF old
<1>7. /\ u \in Memory /\ Apart(u) /\ u.history = s.history /\ u.n = s.n /\ u.next = s.next
      /\ u.open = s.open
      /\ Elems(u.displayed) \cup Elems(u.waiting) =
            ((Elems(s.displayed) \cup Elems(s.waiting)) \ X) \cup {o}
      /\ Graded => Ordered(u)
  <2>1. CASE old # None
    <3>1. LET v == take_place(s, old, o)
          IN  /\ v \in Memory /\ Apart(v) /\ v.history = s.history /\ v.n = s.n
              /\ v.next = s.next /\ v.open = s.open
              /\ Elems(v.displayed) \cup Elems(v.waiting) =
                    ((Elems(s.displayed) \cup Elems(s.waiting)) \ {old}) \cup {o}
              /\ Ordered(s) /\ s.n[o].kind.urgency = s.n[old].kind.urgency => Ordered(v)
      BY <1>1, <1>5, <2>1, TakesPlace
    <3>2. Graded => Ordered(s) /\ s.n[o].kind.urgency = s.n[old].kind.urgency
      BY <1>5, <2>1 DEF Good, Held
    <3> QED
      BY <2>1, <3>1, <3>2
  <2>2. CASE old = None
    <3> DEFINE v == to_waiting(s, o)
    <3>1. /\ v \in Memory
          /\ v.displayed = s.displayed /\ v.history = s.history
          /\ v.n = s.n /\ v.next = s.next /\ v.open = s.open
          /\ Elems(v.waiting) = Elems(s.waiting) \cup {o}
          /\ Distinct(s.waiting) /\ o \notin Elems(s.waiting) => Distinct(v.waiting)
          /\ Ordered(s) => Ordered(v)
      BY <1>1, ToWaiting
    <3>2. u = v /\ X = {}
      BY <2>2
    <3> HIDE DEF v, u, X
    <3>3. Apart(v)
      BY <1>1, <3>1 DEF Apart, Held
    <3>4. Graded => Ordered(v)
      BY <3>1 DEF Good
    <3> QED
      BY <3>1, <3>2, <3>3, <3>4
  <2> QED
    BY <2>1, <2>2
<1> HIDE DEF u
<1>8. id \in 1..s.next /\ out \in SUBSET Nat
  BY <1>1, <1>2 DEF Arrives
<1>9. /\ t \in Memory /\ t.displayed = u.displayed /\ t.waiting = u.waiting
      /\ t.history = u.history /\ t.n = u.n /\ t.next = u.next /\ t.open = out
  <2> HIDE DEF out
  <2> QED
    BY <1>7, <1>8, WithOpen
<1> HIDE DEF t
<1>10. Apart(t)
  BY <1>7, <1>9 DEF Apart
<1>11. /\ Elems(t.displayed) \cup Elems(t.waiting) =
             ((Elems(s.displayed) \cup Elems(s.waiting)) \ X) \cup {o}
       /\ X \subseteq Elems(s.displayed) \cup Elems(s.waiting)
       /\ t.history = s.history /\ s.next <= t.next /\ t.n = s.n /\ t.next = s.next
  BY <1>2, <1>5, <1>7, <1>9
<1>12. t.open \subseteq 1..t.next
  BY <1>1, <1>8, <1>9, <1>11 DEF Known
<1>13. /\ \A p \in Note : t.n[p].locked => p \in L
       /\ t.n[o].id \in 1..t.next /\ t.n[o].kind \in Kinds /\ ~t.n[o].redisplayed
  BY <1>8, <1>11 DEF Good, Arrives
<1>14. ASSUME Tidy
       PROVE  /\ \A p \in Held(s) \ X : s.n[p].id # id
              /\ t.open = s.open /\ id \in s.open
              /\ \A i \in s.open : i = id \/ \E p \in Held(s) \ X : s.n[p].valid /\ s.n[p].id = i
  <2>1. Paired(s) /\ id \in s.open
    BY <1>14 DEF Good
  <2>2. PICK p \in Held(s) : s.n[p].valid /\ s.n[p].id = id
    BY <2>1 DEF Paired
  <2>3. p \in Elems(s.displayed) \cup Elems(s.waiting)
    BY <2>1, <2>2 DEF Paired
  <2>4. old # None /\ old \in Held(s)
    BY <1>5, <2>2, <2>3 DEF Held
  <2>5. X = {old}
    BY <2>4
  <2>6. \A r \in Held(s) \ X : s.n[r].id # id
    BY <1>5, <2>1, <2>4, <2>5 DEF Paired
  <2>7. t.open = s.open
    BY <1>9, <2>1
  <2>8. ASSUME NEW i \in s.open, i # id PROVE \E r \in Held(s) \ X : s.n[r].valid /\ s.n[r].id = i
    <3>1. PICK r \in Held(s) : s.n[r].valid /\ s.n[r].id = i
      BY <2>1 DEF Paired
    <3>2. r # old
      BY <1>5, <2>4, <2>8, <3>1
    <3> QED
      BY <2>5, <3>1, <3>2
  <2> QED
    BY <2>1, <2>6, <2>7, <2>8
<1>15. Tidy => /\ \A p \in Held(s) \ X : s.n[p].id # t.n[o].id
               /\ t.n[o].valid /\ t.n[o].id \in t.open
               /\ \A p \in Held(s) \ X : s.n[p].valid => s.n[p].id \in t.open
               /\ \A i \in t.open : \/ i = t.n[o].id
                                    \/ \E p \in Held(s) \ X : s.n[p].valid /\ s.n[p].id = i
  <2> SUFFICES ASSUME Tidy
               PROVE  /\ \A p \in Held(s) \ X : s.n[p].id # t.n[o].id
                      /\ t.n[o].valid /\ t.n[o].id \in t.open
                      /\ \A p \in Held(s) \ X : s.n[p].valid => s.n[p].id \in t.open
                      /\ \A i \in t.open : \/ i = t.n[o].id
                                           \/ \E p \in Held(s) \ X : s.n[p].valid /\ s.n[p].id = i
    OBVIOUS
  <2>1. Paired(s) /\ t.n[o].id = id /\ t.n[o].valid
    BY <1>11 DEF Good, Arrives
  <2>2. \A p \in Held(s) \ X : s.n[p].valid => s.n[p].id \in s.open
    BY <2>1 DEF Paired
  <2> HIDE DEF X, id
  <2> QED
    BY <1>14, <2>1, <2>2
<1>16. \A p \in Held(s) \ X : t.n[p] = s.n[p]
  BY <1>11
<1>17. Good(t, H \cup {o}, L)
  <2>1. Graded => Ordered(t)
    BY <1>7, <1>9, OrderedSame
  <2> HIDE DEF X
  <2> QED
    BY <1>1, <1>9, <1>10, <1>11, <1>12, <1>13, <1>15, <1>16, <1>7, <2>1, Placed
<1>18. replace_id(s, o, old) = t
  BY <1>6, <1>7 DEF t
<1> QED
  BY <1>17, <1>18 DEF old, both

(* One without an id is given the next one; it takes the place of the one  *)
(* on which it stacks, whose sender is told, or waits.                     *)
LEMMA StackOrWaitKeeps ==
    ASSUME NEW s, NEW H, NEW L, Good(s, H, L), NEW o, Arrives(s, o)
    PROVE  Good(stack_or_wait(with_new_id(s, o), o, stacked_on(s, o)), H \cup {o}, L)
<1> DEFINE i == s.next + 1
           r == [s.n[o] EXCEPT !.id = i]
           m == [s.n EXCEPT ![o] = r]
           out == s.open \cup {i}
           g == with_new_id(s, o)
           under == stacked_on(s, o)
           u == IF under # None THEN take_place(g, under, o) ELSE to_waiting(g, o)
           X == IF under # None THEN {under} ELSE {}
           t == IF under # None THEN signal_notification_closed(u, under) ELSE u
<1>1. s \in Memory /\ Apart(s) /\ Known(s) /\ o \in Note /\ o \notin Held(s)
  BY DEF Good, Arrives
<1>2. /\ s.displayed \in Seq(Note) /\ s.waiting \in Seq(Note) /\ s.open \in SUBSET Nat
      /\ s.next \in Nat /\ Held(s) \subseteq Note /\ s.n \in [Note -> NoteRec]
  BY <1>1, MemoryIs
<1>3. s.n[o] \in NoteRec /\ i \in Nat /\ out \in SUBSET Nat
  BY <1>1, <1>2
<1>4. /\ r \in NoteRec /\ r.id = i /\ r.kind \in Kinds /\ r.kind = s.n[o].kind /\ r.valid /\ ~r.redisplayed
      /\ r.locked => o \in L
  <2> HIDE DEF i
  <2>1. r \in NoteRec /\ r.id = i /\ r.kind = s.n[o].kind /\ r.valid = s.n[o].valid
        /\ r.redisplayed = s.n[o].redisplayed /\ r.locked = s.n[o].locked
    BY <1>3 DEF NoteRec
  <2> HIDE DEF r
  <2> QED
    BY <1>1, <2>1 DEF Arrives, Good
<1>5. g = [s EXCEPT !.next = i, !.n = m, !.open = out]
  <2>1. g = [s EXCEPT !.next = @ + 1, !.n[o].id = s.next + 1, !.open = @ \cup {s.next + 1}]
    BY DEF with_new_id
  <2> QED
    BY <1>1, <1>2, <1>3, <2>1 DEF Memory, NoteRec
<1> HIDE DEF r
<1>6. m \in [Note -> NoteRec] /\ m[o] = r /\ \A p \in Note : p # o => m[p] = s.n[p]
  BY <1>1, <1>2, <1>4
<1> HIDE DEF m, g, i, out
<1>7. /\ g \in Memory /\ g.displayed = s.displayed /\ g.waiting = s.waiting
      /\ g.history = s.history /\ g.n = m /\ g.next = i /\ g.open = out
  BY <1>1, <1>3, <1>5, <1>6 DEF Memory
<1>8. Apart(g) /\ Held(g) = Held(s)
  BY <1>1, <1>7 DEF Apart, Held
<1>9. under # None => /\ under \in Elems(s.displayed) \cup Elems(s.waiting)
                      /\ s.n[under].kind.tag # 0 /\ s.n[under].kind.tag = s.n[o].kind.tag
  <2>1. \/ under = None
        \/ /\ under \in Elems(s.displayed) \cup Elems(s.waiting)
           /\ s.n[under].kind.tag # 0 /\ s.n[under].kind.tag = s.n[o].kind.tag
    BY <1>2, StackedIsIn
  <2> HIDE DEF under
  <2> QED
    BY <2>1
<1>10. stack_or_wait(g, o, under) = t
  BY DEF stack_or_wait
<1> HIDE DEF under
<1>11. /\ u \in Memory /\ Apart(u) /\ u.history = s.history /\ u.n = m /\ u.next = i /\ u.open = out
       /\ Elems(u.displayed) \cup Elems(u.waiting) =
             ((Elems(s.displayed) \cup Elems(s.waiting)) \ X) \cup {o}
       /\ Graded => Ordered(u)
  <2>1. Graded => Ordered(g)
    <3>1. \A p \in Held(s) : m[p] = s.n[p]
      BY <1>1, <1>2, <1>6
    <3>2. \A p \in Elems(s.displayed) \cup Elems(s.waiting) : g.n[p].kind = s.n[p].kind
      BY <1>7, <3>1 DEF Held
    <3> QED
      BY <1>1, <1>7, <3>2, OrderedSame DEF Good
  <2>2. CASE under # None
    <3>1. LET v == take_place(g, under, o)
          IN  /\ v \in Memory /\ Apart(v) /\ v.history = g.history /\ v.n = g.n
              /\ v.next = g.next /\ v.open = g.open
              /\ Elems(v.displayed) \cup Elems(v.waiting) =
                    ((Elems(g.displayed) \cup Elems(g.waiting)) \ {under}) \cup {o}
              /\ Ordered(g) /\ g.n[o].kind.urgency = g.n[under].kind.urgency => Ordered(v)
      BY <1>1, <1>7, <1>8, <1>9, <2>2, TakesPlace
    <3>2. ASSUME Graded PROVE g.n[o].kind.urgency = g.n[under].kind.urgency
      <4>1. under \in Held(s) /\ under \in Note /\ under # o
        BY <1>1, <1>2, <1>9, <2>2 DEF Held
      <4>2. g.n[under] = s.n[under] /\ g.n[o].kind = s.n[o].kind
        BY <1>4, <1>6, <1>7, <4>1
      <4>3. s.n[under].kind \in Kinds /\ s.n[o].kind \in Kinds
        BY <1>1, <4>1 DEF Known, Arrives
      <4>4. s.n[under].kind.urgency = s.n[o].kind.urgency
        BY <1>9, <2>2, <3>2, <4>3 DEF Graded
      <4> QED
        BY <4>2, <4>4
    <3> QED
      BY <1>7, <2>1, <2>2, <3>1, <3>2
  <2>3. CASE under = None
    <3> DEFINE v == to_waiting(g, o)
    <3>1. /\ v \in Memory
          /\ v.displayed = g.displayed /\ v.history = g.history
          /\ v.n = g.n /\ v.next = g.next /\ v.open = g.open
          /\ Elems(v.waiting) = Elems(g.waiting) \cup {o}
          /\ Distinct(g.waiting) /\ o \notin Elems(g.waiting) => Distinct(v.waiting)
          /\ Ordered(g) => Ordered(v)
      BY <1>1, <1>7, ToWaiting
    <3>2. u = v /\ X = {}
      BY <2>3
    <3> HIDE DEF v, u, X
    <3>3. Apart(v)
      BY <1>1, <1>7, <1>8, <3>1 DEF Apart, Held
    <3> QED
      BY <1>7, <2>1, <3>1, <3>2, <3>3
  <2> QED
    BY <2>2, <2>3
<1> HIDE DEF u
<1>12. /\ t \in Memory /\ t.displayed = u.displayed /\ t.waiting = u.waiting
       /\ t.history = u.history /\ t.next = u.next
       /\ \A p \in Note : /\ p \notin X => t.n[p] = m[p]
                          /\ t.n[p].kind = m[p].kind
                          /\ t.n[p].locked => m[p].locked
       /\ under = None => t.open = out
       /\ under # None /\ m[under].valid => t.open = out \ {m[under].id}
       /\ under # None /\ ~m[under].valid => t.open = out
  <2>1. CASE under # None
    <3> DEFINE v == signal_notification_closed(u, under)
    <3>1. under \in Note
      BY <1>2, <1>9, <2>1 DEF Held
    <3>2. /\ v \in Memory
          /\ v.displayed = u.displayed /\ v.waiting = u.waiting /\ v.history = u.history
          /\ v.next = u.next
          /\ \A p \in Note : /\ p # under => v.n[p] = u.n[p]
                             /\ v.n[p].id = u.n[p].id /\ v.n[p].kind = u.n[p].kind
                             /\ v.n[p].redisplayed <=> u.n[p].redisplayed
                             /\ v.n[p].locked <=> u.n[p].locked
          /\ ~v.n[under].valid
          /\ u.n[under].valid => v.open = u.open \ {u.n[under].id}
          /\ ~u.n[under].valid => v.open = u.open
      BY <1>11, <3>1, SignalledIs
    <3>3. t = v /\ X = {under}
      BY <2>1
    <3> HIDE DEF v, t, X
    <3> QED
      BY <1>11, <2>1, <3>2, <3>3
  <2>2. CASE under = None
    BY <1>11, <2>2
  <2> QED
    BY <2>1, <2>2
<1> HIDE DEF t
<1>13. o \notin X /\ X \subseteq Elems(s.displayed) \cup Elems(s.waiting)
  BY <1>1, <1>9 DEF Held
<1>14. t.n[o] = r
  BY <1>1, <1>6, <1>12, <1>13
<1>15. \A p \in Held(s) \ X : t.n[p] = s.n[p] /\ p # o
  <2>1. \A p \in Held(s) \ X : p \in Note /\ p # o
    BY <1>1, <1>2
  <2> HIDE DEF X
  <2> QED
    BY <1>6, <1>12, <2>1
<1>16. Apart(t)
  BY <1>11, <1>12 DEF Apart
<1>17. /\ Elems(t.displayed) \cup Elems(t.waiting) =
             ((Elems(s.displayed) \cup Elems(s.waiting)) \ X) \cup {o}
       /\ t.history = s.history /\ t.next = i
  BY <1>11, <1>12
<1>18. /\ s.next <= t.next /\ t.open \subseteq 1..t.next /\ t.n[o].id \in 1..t.next
       /\ s.next < i
  <2>1. i = s.next + 1
    BY DEF i
  <2>2. out \subseteq 1..i
    <3>1. s.open \subseteq 1..s.next
      BY <1>1 DEF Known
    <3> QED
      BY <1>2, <2>1, <3>1 DEF out
  <2>3. t.open \subseteq out
    BY <1>12
  <2>4. t.n[o].id = i /\ t.next = i
    BY <1>4, <1>14, <1>17
  <2>5. s.next <= i /\ s.next < i /\ i \in 1..i
    BY <1>2, <2>1
  <2> QED
    BY <2>2, <2>3, <2>4, <2>5
<1>19. \A p \in Note : t.n[p].locked => p \in L
  <2>1. \A p \in Note : m[p].locked => p \in L
    BY <1>4, <1>6 DEF Good
  <2> QED
    BY <1>12, <2>1
<1>20. Tidy => /\ \A p \in Held(s) \ X : s.n[p].id # t.n[o].id
               /\ t.n[o].valid /\ t.n[o].id \in t.open
               /\ \A p \in Held(s) \ X : s.n[p].valid => s.n[p].id \in t.open
               /\ \A id \in t.open : \/ id = t.n[o].id
                                     \/ \E p \in Held(s) \ X : s.n[p].valid /\ s.n[p].id = id
  <2> SUFFICES ASSUME Tidy
               PROVE  /\ \A p \in Held(s) \ X : s.n[p].id # t.n[o].id
                      /\ t.n[o].valid /\ t.n[o].id \in t.open
                      /\ \A p \in Held(s) \ X : s.n[p].valid => s.n[p].id \in t.open
                      /\ \A id \in t.open : \/ id = t.n[o].id
                                            \/ \E p \in Held(s) \ X : s.n[p].valid /\ s.n[p].id = id
    OBVIOUS
  <2>1. Paired(s) /\ t.n[o].id = i /\ t.n[o].valid
    BY <1>4, <1>14 DEF Good
  <2>2. \A p \in Held(s) : s.n[p].id \in 1..s.next /\ s.n[p].id # i
    BY <1>1, <1>2, <1>18 DEF Known
  <2>3. out = s.open \cup {i}
    BY DEF out
  <2>4. CASE under = None
    <3>1. X = {} /\ t.open = out
      BY <1>12, <2>4
    <3> QED
      BY <2>1, <2>2, <2>3, <3>1 DEF Paired
  <2>5. CASE under # None
    <3>1. X = {under} /\ under \in Held(s) /\ m[under] = s.n[under]
      BY <1>1, <1>2, <1>6, <1>9, <2>5 DEF Held
    <3>2. t.open = IF s.n[under].valid THEN out \ {s.n[under].id} ELSE out
      BY <1>12, <2>5, <3>1
    <3>3. t.n[o].id \in t.open
      BY <2>1, <2>2, <2>3, <3>1, <3>2
    <3>4. ASSUME NEW p \in Held(s) \ X, s.n[p].valid PROVE s.n[p].id \in t.open
      <4>1. s.n[p].id \in s.open /\ s.n[p].id # s.n[under].id
        BY <2>1, <3>1, <3>4 DEF Paired
      <4> QED
        BY <2>3, <3>2, <4>1
    <3>5. ASSUME NEW id \in t.open, id # i PROVE \E p \in Held(s) \ X : s.n[p].valid /\ s.n[p].id = id
      <4>1. id \in s.open
        BY <2>3, <3>2, <3>5
      <4>2. PICK p \in Held(s) : s.n[p].valid /\ s.n[p].id = id
        BY <2>1, <4>1 DEF Paired
      <4>3. p # under
        BY <3>2, <3>5, <4>2
      <4> QED
        BY <3>1, <4>2, <4>3
    <3> HIDE DEF X
    <3> QED
      BY <2>1, <2>2, <3>3, <3>4, <3>5
  <2> QED
    BY <2>4, <2>5
<1>21. \A p \in Held(s) \ X : t.n[p] = s.n[p]
  BY <1>15
<1>22. t.n[o].kind \in Kinds /\ ~t.n[o].redisplayed
  BY <1>4, <1>14
<1>23. Good(t, H \cup {o}, L)
  <2>1. Graded => Ordered(t)
    <3>1. Elems(u.displayed) \cup Elems(u.waiting) \subseteq Note
      BY <1>11, MemoryIs DEF Held
    <3>2. \A p \in Elems(u.displayed) \cup Elems(u.waiting) : t.n[p].kind = u.n[p].kind
      BY <1>11, <1>12, <3>1
    <3> QED
      BY <1>11, <1>12, <3>2, OrderedSame
  <2> HIDE DEF X
  <2> QED
    BY <1>1, <1>12, <1>13, <1>16, <1>17, <1>18, <1>19, <1>20, <1>21, <1>22, <2>1, Placed
<1> QED
  BY <1>10, <1>23 DEF under, g

(* queues_notification_insert *)
LEMMA InsertKeeps ==
    ASSUME NEW s, NEW H, NEW L, Good(s, H, L), NEW o, Arrives(s, o), NEW full,
           Tidy => s.n[o].id = 0 \/ (s.n[o].id \in s.open /\ ~s.n[o].kind.empty),
           Graded => \A p \in Held(s) : s.n[p].id = s.n[o].id =>
                        s.n[o].kind.urgency = s.n[p].kind.urgency
    PROVE  Good(insert(s, o, full), H \cup {o}, L)
<1>1. s \in Memory /\ Apart(s) /\ Known(s) /\ o \in Note /\ o \notin Held(s)
  BY DEF Good, Arrives
<1>2. CASE s.n[o].kind.empty
  <2> DEFINE t == signal_notification_closed(s, o)
  <2>1. insert(s, o, full) = t
    BY <1>2 DEF insert
  <2>2. /\ t \in Memory
        /\ t.displayed = s.displayed /\ t.waiting = s.waiting /\ t.history = s.history
        /\ t.next = s.next
        /\ \A p \in Note : /\ p # o => t.n[p] = s.n[p]
                           /\ t.n[p].id = s.n[p].id /\ t.n[p].kind = s.n[p].kind
                           /\ t.n[p].redisplayed <=> s.n[p].redisplayed
                           /\ t.n[p].locked <=> s.n[p].locked
        /\ ~t.n[o].valid
        /\ s.n[o].valid => t.open = s.open \ {s.n[o].id}
        /\ ~s.n[o].valid => t.open = s.open
    BY <1>1, SignalledIs
  <2> HIDE DEF t
  <2>3. Held(t) = Held(s)
    BY <2>2 DEF Held
  <2>4. \A p \in Held(s) : t.n[p] = s.n[p]
    <3>1. \A p \in Held(s) : p \in Note /\ p # o
      BY <1>1, MemoryIs
    <3> QED
      BY <2>2, <3>1
  <2>5. t.open \subseteq s.open
    BY <2>2
  <2>6. Apart(t) /\ Known(t)
    BY <1>1, <2>2, <2>3, <2>4, <2>5 DEF Apart, Known
  <2>7. ASSUME Tidy PROVE Paired(t)
    <3>1. Paired(s) /\ s.n[o].id = 0
      BY <1>2, <2>7 DEF Good
    <3>2. t.open = s.open
      <4>1. 0 \notin s.open
        BY <1>1 DEF Known
      <4> QED
        BY <2>2, <3>1, <4>1
    <3> QED
      BY <2>2, <2>3, <2>4, <3>1, <3>2 DEF Paired
  <2>8. /\ HistoryLength > 0 => Len(t.history) <= HistoryLength
        /\ Held(t) \subseteq H \cup {o} /\ \A p \in Note : t.n[p].locked => p \in L
    BY <2>2, <2>3 DEF Good
  <2>9. Graded => Ordered(t)
    <3>1. \A p \in Elems(s.displayed) \cup Elems(s.waiting) : t.n[p].kind = s.n[p].kind
      BY <2>4 DEF Held
    <3> QED
      BY <1>1, <2>2, <3>1, OrderedSame DEF Good
  <2> QED
    BY <2>1, <2>2, <2>6, <2>7, <2>8, <2>9 DEF Good
<1>3. CASE ~s.n[o].kind.empty
  <2>1. Good(identify(s, o), H \cup {o}, L)
    <3>1. CASE s.n[o].id # 0
      <4>1. Tidy => s.n[o].id \in s.open
        BY <3>1
      <4>2. Good(replace_id(s, o, WithId(s, s.displayed \o s.waiting, s.n[o].id)), H \cup {o}, L)
        BY <3>1, <4>1, ReplaceIdKeeps
      <4> QED
        BY <3>1, <4>2 DEF identify
    <3>2. CASE s.n[o].id = 0
      <4>1. Good(stack_or_wait(with_new_id(s, o), o, stacked_on(s, o)), H \cup {o}, L)
        BY StackOrWaitKeeps
      <4> QED
        BY <3>2, <4>1 DEF identify
    <3> QED
      BY <3>1, <3>2
  <2>2. Good(close(identify(s, o), o), H \cup {o}, L)
    BY <2>1, RemoveKeeps
  <2> QED
    BY <1>3, <2>1, <2>2 DEF insert
<1> QED
  BY <1>2, <1>3

(* queues_history_pop: it is one that nobody takes to be in use.           *)
LEMMA HistoryPopKeeps ==
    ASSUME NEW s, NEW H, NEW L, Good(s, H, L), NEW o \in Elems(s.history)
    PROVE  Good(history_pop(s, o), H, L)
<1> DEFINE h == RemoveFirst(s.history, o)
           e == s.n[o].expires /\ ~StickyHistory
           r == [s.n[o] EXCEPT !.redisplayed = TRUE, !.expires = e]
           m == [s.n EXCEPT ![o] = r]
           u == [s EXCEPT !.history = h, !.n = m]
           t == to_waiting(u, o)
<1>1. s \in Memory /\ Apart(s) /\ Known(s)
  BY DEF Good
<1>2. /\ s.waiting \in Seq(Note) /\ s.history \in Seq(Note)
      /\ Held(s) \subseteq Note /\ s.n \in [Note -> NoteRec] /\ Distinct(s.history)
  BY <1>1, MemoryIs DEF Apart
<1>3. o \in Note /\ o \in Held(s)
  BY <1>2 DEF Held
<1>4. /\ h \in Seq(Note) /\ Elems(h) = Elems(s.history) \ {o} /\ Distinct(h)
      /\ Len(h) <= Len(s.history) /\ Len(h) \in Nat /\ Len(s.history) \in Nat
  <2>1. h \in Seq(Note) /\ Elems(h) = Elems(s.history) \ {o} /\ Distinct(h)
        /\ Len(h) <= Len(s.history)
    BY <1>2, RemovedElems
  <2> HIDE DEF h
  <2> QED
    BY <1>2, <2>1, LenProperties
<1>5. s.n[o] \in NoteRec
  BY <1>2, <1>3
<1>6. /\ e \in BOOLEAN /\ r \in NoteRec /\ r.id = s.n[o].id /\ r.kind = s.n[o].kind
      /\ r.valid = s.n[o].valid /\ r.locked = s.n[o].locked
  BY <1>5 DEF NoteRec
<1>7. history_pop(s, o) = t
  <2>1. [s EXCEPT !.history = RemoveFirst(@, o), !.n[o].redisplayed = TRUE,
                  !.n[o].expires = @ /\ ~StickyHistory] = u
    <3>1. [s EXCEPT !.history = RemoveFirst(@, o), !.n[o].redisplayed = TRUE,
                    !.n[o].expires = @ /\ ~StickyHistory] =
          [s EXCEPT !.history = h, !.n[o].redisplayed = TRUE, !.n[o].expires = e]
      OBVIOUS
    <3> HIDE DEF h, e
    <3>2. [s EXCEPT !.history = h, !.n[o].redisplayed = TRUE, !.n[o].expires = e] = u
      BY <1>1, <1>2, <1>3, <1>5 DEF Memory, NoteRec
    <3> QED
      BY ONLY <3>1, <3>2
  <2> HIDE DEF u
  <2> QED
    BY <2>1 DEF history_pop
<1> HIDE DEF r, h, e
<1>8. m \in [Note -> NoteRec] /\ m[o] = r /\ \A p \in Note : p # o => m[p] = s.n[p]
  BY <1>2, <1>3, <1>6
<1> HIDE DEF m
<1>9. /\ u \in Memory /\ u.displayed = s.displayed /\ u.waiting = s.waiting
      /\ u.history = h /\ u.n = m /\ u.next = s.next /\ u.open = s.open
  BY <1>1, <1>4, <1>8 DEF Memory
<1> HIDE DEF u
<1>10. /\ t \in Memory
       /\ t.displayed = u.displayed /\ t.history = u.history
       /\ t.n = u.n /\ t.next = u.next /\ t.open = u.open
       /\ Elems(t.waiting) = Elems(u.waiting) \cup {o}
       /\ Distinct(u.waiting) /\ o \notin Elems(u.waiting) => Distinct(t.waiting)
       /\ Ordered(u) => Ordered(t)
  BY <1>3, <1>9, ToWaiting
<1> HIDE DEF t
<1>11. Apart(t)
  BY <1>1, <1>4, <1>9, <1>10 DEF Apart
<1>12. Held(t) = Held(s)
  BY <1>4, <1>9, <1>10 DEF Held
<1>13. \A p \in Held(s) : m[p].id = s.n[p].id /\ m[p].kind = s.n[p].kind
  BY <1>2, <1>6, <1>8
<1>14. Known(t)
  BY <1>1, <1>9, <1>10, <1>12, <1>13 DEF Known
<1>15. HistoryLength > 0 => Len(t.history) <= HistoryLength
  BY <1>4, <1>9, <1>10, DunstAssumption DEF Good
<1>16. Held(t) \subseteq H
  BY <1>12 DEF Good
<1>17. \A p \in Note : t.n[p].locked => p \in L
  BY <1>6, <1>8, <1>9, <1>10 DEF Good
<1>18. ASSUME Tidy PROVE Paired(t)
  <2>1. Paired(s)
    BY <1>18 DEF Good
  <2>2. ~s.n[o].valid /\ ~m[o].valid
    <3>1. o \notin Elems(s.displayed) \cup Elems(s.waiting)
      BY <1>1 DEF Apart
    <3> QED
      BY <1>3, <1>6, <1>8, <2>1, <3>1 DEF Paired
  <2>3. \A p, q1 \in Held(t) : t.n[p].id = t.n[q1].id => p = q1
    BY <1>9, <1>10, <1>12, <1>13, <2>1 DEF Paired
  <2>4. \A p \in Held(t) : t.n[p].valid => p # o /\ t.n[p] = s.n[p]
    BY <1>2, <1>8, <1>9, <1>10, <1>12, <2>2
  <2>5. \A p \in Held(s) : s.n[p].valid => p # o /\ t.n[p] = s.n[p]
    BY <1>2, <1>8, <1>9, <1>10, <2>2
  <2>6. \A p \in Held(t) : t.n[p].valid =>
          /\ p \in Elems(t.displayed) \cup Elems(t.waiting)
          /\ ~t.n[p].redisplayed /\ t.n[p].id \in t.open
    BY <1>9, <1>10, <1>12, <2>1, <2>4 DEF Paired
  <2>7. \A id \in t.open : \E p \in Held(t) : t.n[p].valid /\ t.n[p].id = id
    <3> SUFFICES ASSUME NEW id \in t.open PROVE \E p \in Held(t) : t.n[p].valid /\ t.n[p].id = id
      OBVIOUS
    <3>1. PICK p \in Held(s) : s.n[p].valid /\ s.n[p].id = id
      BY <1>9, <1>10, <2>1 DEF Paired
    <3> QED
      BY <1>12, <2>5, <3>1
  <2> QED
    BY <2>3, <2>6, <2>7 DEF Paired
<1>19. Graded => Ordered(t)
  <2>1. \A p \in Elems(s.displayed) \cup Elems(s.waiting) : u.n[p].kind = s.n[p].kind
    BY <1>9, <1>13 DEF Held
  <2> QED
    BY <1>1, <1>9, <1>10, <2>1, OrderedSame DEF Good
<1> QED
  BY <1>7, <1>10, <1>11, <1>14, <1>15, <1>16, <1>17, <1>18, <1>19 DEF Good

-----------------------------------------------------------------------------
(* queues_update: the loop over a queue removes from it while it runs.     *)

(* What has not been visited is still at the end of the queue.             *)
Suffix(queue, list, k) ==
    /\ Len(queue) >= Len(list) - k
    /\ \A j \in (k + 1)..Len(list) : queue[j + Len(queue) - Len(list)] = list[j]

(* The next to be visited is in the queue. *)
LEMMA SuffixNext ==
    ASSUME NEW queue \in Seq(Note), NEW list \in Seq(Note), NEW k \in 1..Len(list),
           Suffix(queue, list, k - 1)
    PROVE  /\ k + Len(queue) - Len(list) \in 1..Len(queue)
           /\ queue[k + Len(queue) - Len(list)] = list[k]
           /\ list[k] \in Elems(queue)
           /\ Suffix(queue, list, k)
<1>1. /\ Len(queue) \in Nat /\ Len(list) \in Nat
      /\ Elems(queue) = {queue[j] : j \in 1..Len(queue)}
  BY ElemsOf
<1>2. k + Len(queue) - Len(list) \in 1..Len(queue)
  BY <1>1 DEF Suffix
<1>3. k \in ((k - 1) + 1)..Len(list) /\ \A j \in (k + 1)..Len(list) : j \in ((k - 1) + 1)..Len(list)
  BY <1>1
<1>4. queue[k + Len(queue) - Len(list)] = list[k]
  BY <1>3 DEF Suffix
<1>5. Suffix(queue, list, k)
  BY <1>1, <1>3 DEF Suffix
<1>6. list[k] \in Elems(queue)
  BY <1>1, <1>2, <1>4
<1> QED
  BY <1>2, <1>4, <1>5, <1>6

(* If it leaves, or one before it, the others are still at the end. *)
LEMMA SuffixLeft ==
    ASSUME NEW queue \in Seq(Note), NEW list \in Seq(Note), NEW k \in 1..Len(list),
           Suffix(queue, list, k - 1), NEW e,
           \E i \in 1..(k + Len(queue) - Len(list)) : queue[i] = e
    PROVE  Suffix(RemoveFirst(queue, e), list, k)
<1> DEFINE p == k + Len(queue) - Len(list)
           r == RemoveFirst(queue, e)
<1>1. Len(queue) \in Nat /\ Len(list) \in Nat
  BY LenProperties
<1>2. p \in 1..Len(queue)
  BY SuffixNext
<1>3. /\ Len(r) = Len(queue) - 1
      /\ \A j \in p..(Len(queue) - 1) : r[j] = queue[j + 1]
  <2> HIDE DEF p
  <2>1. \E i \in 1..p : queue[i] = e
    BY DEF p
  <2> QED
    BY <1>2, <2>1, RemovedSuffix
<1> HIDE DEF r
<1>4. Len(r) >= Len(list) - k
  BY <1>1, <1>2, <1>3
<1>5. ASSUME NEW j \in (k + 1)..Len(list) PROVE r[j + Len(r) - Len(list)] = list[j]
  <2>1. j \in ((k - 1) + 1)..Len(list) /\ j \in Int /\ k \in Int
    BY <1>1
  <2>2. queue[j + Len(queue) - Len(list)] = list[j]
    BY <2>1 DEF Suffix
  <2> DEFINE h == j + Len(r) - Len(list)
  <2>3. h \in p..(Len(queue) - 1) /\ h + 1 = j + Len(queue) - Len(list)
    BY <1>1, <1>3, <2>1
  <2> HIDE DEF h
  <2>4. r[h] = queue[h + 1]
    BY <1>3, <2>3
  <2> QED
    BY <2>2, <2>3, <2>4 DEF h
<1> QED
  BY <1>4, <1>5 DEF Suffix, r

(* To close the next one removes the first one with its id.                *)
LEMMA SuffixClosed ==
    ASSUME NEW s, NEW queue \in Seq(Note), NEW list \in Seq(Note), NEW k \in 1..Len(list),
           Suffix(queue, list, k - 1)
    PROVE  LET e == WithId(s, queue, s.n[list[k]].id)
           IN  /\ Suffix(RemoveFirst(queue, e), list, k)
               /\ e \in Elems(queue) /\ s.n[e].id = s.n[list[k]].id
<1> DEFINE id == s.n[list[k]].id
           e == WithId(s, queue, id)
           p == k + Len(queue) - Len(list)
<1>1. p \in 1..Len(queue) /\ queue[p] = list[k]
  BY SuffixNext
<1>2. Len(queue) \in Nat /\ Elems(queue) = {queue[j] : j \in 1..Len(queue)}
  BY ElemsOf
<1>3. IsFirst(s, queue, id, e)
  BY WithIdIs
<1>4. s.n[queue[p]].id = id /\ queue[p] \in Elems(queue)
  <2> HIDE DEF p
  <2> QED
    BY <1>1, <1>2
<1> HIDE DEF e, p, id
<1>5. PICK i \in 1..Len(queue) : /\ e = queue[i] /\ s.n[e].id = id
                                 /\ \A j \in 1..(i - 1) : s.n[queue[j]].id # id
  BY <1>3, <1>4 DEF IsFirst
<1>6. i \in 1..p
  BY <1>1, <1>2, <1>4, <1>5
<1>7. \E h \in 1..(k + Len(queue) - Len(list)) : queue[h] = e
  BY <1>5, <1>6 DEF p
<1>8. Suffix(RemoveFirst(queue, e), list, k)
  BY <1>7, SuffixLeft
<1>9. e \in Elems(queue)
  BY <1>2, <1>5
<1> QED
  BY <1>5, <1>8, <1>9 DEF e, id

(* move_back takes it from displayed. *)
LEMMA LeavesDisplayed ==
    ASSUME NEW s, NEW H, NEW L, Good(s, H, L), NEW o \in Elems(s.displayed)
    PROVE  LET t == MovedBack(s, RemoveFirst(s.displayed, o), o)
           IN  /\ Good(t, H, L) /\ t.displayed = RemoveFirst(s.displayed, o) /\ t.n = s.n
               /\ Elems(t.displayed) = Elems(s.displayed) \ {o}
               /\ Elems(t.waiting) = Elems(s.waiting) \cup {o}
<1>1. s.displayed \in Seq(Note) /\ Distinct(s.displayed)
  BY MemoryIs DEF Good, Apart
<1>2. PICK d \in Seq(Note) : /\ d = RemoveFirst(s.displayed, o) /\ Distinct(d)
                            /\ Elems(d) = Elems(s.displayed) \ {o}
  BY <1>1, RemovedElems
<1>3. /\ Good(MovedBack(s, d, o), H, L)
      /\ MovedBack(s, d, o).displayed = d
      /\ MovedBack(s, d, o).n = s.n
      /\ Len(MovedBack(s, d, o).waiting) = Len(s.waiting) + 1
      /\ Elems(MovedBack(s, d, o).waiting) = Elems(s.waiting) \cup {o}
  <2>1. Elems(d) = Elems(s.displayed) \ {o}
    BY <1>2
  <2>2. Distinct(d)
    BY <1>2
  <2>3. Falling(s.n, s.displayed) => Falling(s.n, d)
    BY <1>1, <1>2, FallingRemoved
  <2> QED
    BY ONLY Good(s, H, L), <2>1, <2>2, <2>3, MovesBack
<1> QED
  BY <1>2, <1>3

(* show_waiting takes it from waiting. *)
LEMMA LeavesWaiting ==
    ASSUME NEW s, NEW H, NEW L, Good(s, H, L), NEW o \in Elems(s.waiting)
    PROVE  LET t == MovedIn(s, RemoveFirst(s.waiting, o), o)
           IN  /\ Good(t, H, L) /\ t.waiting = RemoveFirst(s.waiting, o) /\ t.n = s.n
               /\ Len(t.displayed) = Len(s.displayed) + 1
               /\ Elems(t.displayed) = Elems(s.displayed) \cup {o}
               /\ Elems(t.waiting) = Elems(s.waiting) \ {o}
<1>1. s.waiting \in Seq(Note) /\ Distinct(s.waiting)
  BY MemoryIs DEF Good, Apart
<1>2. PICK w \in Seq(Note) : /\ w = RemoveFirst(s.waiting, o) /\ Distinct(w)
                            /\ Elems(w) = Elems(s.waiting) \ {o}
  BY <1>1, RemovedElems
<1>3. /\ Good(MovedIn(s, w, o), H, L)
      /\ MovedIn(s, w, o).waiting = w
      /\ MovedIn(s, w, o).n = s.n
      /\ Len(MovedIn(s, w, o).displayed) = Len(s.displayed) + 1
      /\ Elems(MovedIn(s, w, o).displayed) = Elems(s.displayed) \cup {o}
  <2>1. Elems(w) = Elems(s.waiting) \ {o}
    BY <1>2
  <2>2. Distinct(w)
    BY <1>2
  <2>3. Falling(s.n, s.waiting) => Falling(s.n, w)
    BY <1>1, <1>2, FallingRemoved
  <2> QED
    BY ONLY Good(s, H, L), <2>1, <2>2, <2>3, MovesIn
<1> QED
  BY <1>2, <1>3

(* Those of K are locked and displayed. *)
Stay(s, K) == Tidy => \A o \in K : o \in Elems(s.displayed) /\ s.n[o].locked

(* To close the next displayed one closes no other that is locked. *)
LEMMA CloseNext ==
    ASSUME NEW s, NEW H, NEW L, Good(s, H, L), NEW K, Stay(s, K),
           NEW list \in Seq(Note), NEW k \in 1..Len(list), Suffix(s.displayed, list, k - 1),
           list[k] \notin K, NEW t, Closed(s, t, s.n[list[k]].id)
    PROVE  Suffix(t.displayed, list, k) /\ Stay(t, K)
<1> DEFINE id == s.n[list[k]].id
           e == WithId(s, s.displayed, id)
<1>1. s \in Memory /\ Apart(s)
  BY DEF Good
<1>2. s.displayed \in Seq(Note) /\ Distinct(s.displayed) /\ Held(s) \subseteq Note
  BY <1>1, MemoryIs DEF Apart
<1>3. /\ Suffix(RemoveFirst(s.displayed, e), list, k)
      /\ e \in Elems(s.displayed) /\ s.n[e].id = id
  BY <1>2, SuffixClosed
<1>4. list[k] \in Elems(s.displayed)
  BY <1>2, SuffixNext
<1>5. t.displayed = RemoveFirst(s.displayed, e) /\ \A p \in Note : t.n[p].locked <=> s.n[p].locked
  BY DEF Closed
<1>6. Elems(t.displayed) = Elems(s.displayed) \ {e}
  <2> HIDE DEF e
  <2> QED
    BY <1>2, <1>5, RemovedElems
<1> HIDE DEF e
<1>7. ASSUME Tidy, NEW o \in K PROVE o \in Elems(t.displayed) /\ t.n[o].locked
  <2>1. o \in Elems(s.displayed) /\ s.n[o].locked
    BY <1>7 DEF Stay
  <2>2. e = list[k]
    <3>1. e \in Held(s) /\ list[k] \in Held(s)
      BY <1>3, <1>4 DEF Held
    <3> QED
      BY <1>3, <1>7, <3>1 DEF Good, Paired
  <2>3. o \in Note
    BY <1>2, <2>1 DEF Held
  <2> QED
    BY <1>5, <1>6, <1>7, <2>1, <2>2, <2>3
<1> QED
  BY <1>3, <1>5, <1>7 DEF Stay

(* The visits of move_back. *)
LEMMA StaysOrGoes ==
    ASSUME NEW s, NEW H, NEW L, Good(s, H, L), NEW K, Stay(s, K), NEW st,
           NEW list \in Seq(Note), NEW k \in 1..Len(list), Suffix(s.displayed, list, k - 1)
    PROVE  LET t == stays_or_goes(s, st, list[k])
           IN  Good(t, H, L) /\ Suffix(t.displayed, list, k) /\ Stay(t, K)
<1> DEFINE o == list[k]
           Kept(t) == Good(t, H, L) /\ Suffix(t.displayed, list, k) /\ Stay(t, K)
<1>1. s \in Memory /\ Apart(s)
  BY DEF Good
<1>2. s.displayed \in Seq(Note) /\ Distinct(s.displayed)
  BY <1>1, MemoryIs DEF Apart
<1>3. /\ o \in Elems(s.displayed) /\ o \in Note /\ Suffix(s.displayed, list, k)
      /\ k + Len(s.displayed) - Len(list) \in 1..Len(s.displayed)
      /\ s.displayed[k + Len(s.displayed) - Len(list)] = o
  BY <1>2, SuffixNext, ElemsOf
<1>4. CASE s.n[o].locked
  <2>1. stays_or_goes(s, st, o) = s
    BY <1>4 DEF stays_or_goes
  <2> QED
    BY <1>3, <2>1
<1>5. CASE ~s.n[o].locked
  <2>1. Tidy => o \notin K
    BY <1>5 DEF Stay
  <2>2. ASSUME NEW t, Good(t, H, L), Closed(s, t, s.n[o].id) PROVE Kept(t)
    <3>1. CASE Tidy
      <4>1. list[k] \notin K
        BY <2>1, <3>1
      <4> QED
        BY <2>2, <4>1, CloseNext
    <3>2. CASE ~Tidy
      <4>1. Stay(s, {}) /\ list[k] \notin {}
        BY DEF Stay
      <4>2. Suffix(t.displayed, list, k)
        BY <2>2, <4>1, CloseNext
      <4> QED
        BY <2>2, <3>2, <4>2 DEF Stay
    <3> QED
      BY <3>1, <3>2
  <2>3. Kept(close(s, o)) /\ Kept(remove(s, o))
    <3>1. /\ Good(close(s, o), H, L) /\ Closed(s, close(s, o), s.n[o].id)
          /\ Good(remove(s, o), H, L) /\ Closed(s, remove(s, o), s.n[o].id)
      BY RemoveKeeps
    <3> HIDE DEF Kept
    <3> QED
      BY <2>2, <3>1
  <2>4. Kept([close(s, o) EXCEPT !.n[o].closure = FALSE])
    <3> DEFINE c == close(s, o)
               t == [c EXCEPT !.n[o].closure = FALSE]
    <3>1. Good(c, H, L) /\ Suffix(c.displayed, list, k) /\ Stay(c, K)
      BY <2>3
    <3> HIDE DEF c
    <3>2. /\ Good(t, H, L) /\ t.displayed = c.displayed
          /\ \A p \in Note : t.n[p].locked <=> c.n[p].locked
      BY <1>3, <3>1, Unmarked
    <3>3. c \in Memory /\ Elems(c.displayed) \subseteq Note
      BY <3>1, MemoryIs DEF Good, Held
    <3> HIDE DEF t
    <3>4. Stay(t, K)
      BY <3>1, <3>2, <3>3 DEF Stay
    <3>5. Kept(t)
      BY <3>1, <3>2, <3>4
    <3> QED
      BY <3>5 DEF t, c
  <2>5. Kept([remove(s, o) EXCEPT !.n[o].removal = FALSE])
    <3> DEFINE c == remove(s, o)
               t == [c EXCEPT !.n[o].removal = FALSE]
    <3>1. Good(c, H, L) /\ Suffix(c.displayed, list, k) /\ Stay(c, K)
      BY <2>3
    <3> HIDE DEF c
    <3>2. /\ Good(t, H, L) /\ t.displayed = c.displayed
          /\ \A p \in Note : t.n[p].locked <=> c.n[p].locked
      BY <1>3, <3>1, Unmarked
    <3>3. c \in Memory /\ Elems(c.displayed) \subseteq Note
      BY <3>1, MemoryIs DEF Good, Held
    <3> HIDE DEF t
    <3>4. Stay(t, K)
      BY <3>1, <3>2, <3>3 DEF Stay
    <3>5. Kept(t)
      BY <3>1, <3>2, <3>4
    <3> QED
      BY <3>5 DEF t, c
  <2>6. Kept(MovedBack(s, RemoveFirst(s.displayed, o), o))
    <3> DEFINE t == MovedBack(s, RemoveFirst(s.displayed, o), o)
    <3>1. /\ Good(t, H, L) /\ t.displayed = RemoveFirst(s.displayed, o) /\ t.n = s.n
          /\ Elems(t.displayed) = Elems(s.displayed) \ {o}
      BY <1>3, LeavesDisplayed
    <3>2. Suffix(RemoveFirst(s.displayed, o), list, k)
      <4>1. \E i \in 1..(k + Len(s.displayed) - Len(list)) : s.displayed[i] = o
        BY <1>3
      <4> HIDE DEF o
      <4> QED
        BY <1>2, <4>1, SuffixLeft
    <3> HIDE DEF t
    <3>3. Stay(t, K)
      <4> HIDE DEF o
      <4> QED
        BY <2>1, <3>1 DEF Stay
    <3>4. Kept(t)
      BY <3>1, <3>2, <3>3
    <3> QED
      BY <3>4 DEF t
  <2>7. Kept(s)
    BY <1>3
  <2> HIDE DEF Kept, o
  <2>8. Kept(stays_or_goes(s, st, o))
    BY <1>5, <2>3, <2>4, <2>5, <2>6, <2>7 DEF stays_or_goes, MovedBack
  <2> QED
    BY <2>8 DEF Kept, o
<1> QED
  BY <1>4, <1>5

(* Nothing has been visited yet. *)
LEMMA SuffixWhole ==
    ASSUME NEW list \in Seq(Note)
    PROVE  Suffix(list, list, 0)
<1>1. Len(list) \in Nat
  BY LenProperties
<1>2. ASSUME NEW j \in (0 + 1)..Len(list) PROVE list[j + Len(list) - Len(list)] = list[j]
  <2>1. j + Len(list) - Len(list) = j
    BY <1>1
  <2> QED
    BY <2>1
<1> QED
  BY <1>1, <1>2 DEF Suffix

(* The first loop of queues_update. *)
LEMMA MoveBackKeeps ==
    ASSUME NEW s, NEW H, NEW L, Good(s, H, L), NEW K, Stay(s, K), NEW st
    PROVE  Good(move_back(s, st), H, L) /\ Stay(move_back(s, st), K)
<1> DEFINE list == s.displayed
           Kept(t, k) == Good(t, H, L) /\ Suffix(t.displayed, list, k) /\ Stay(t, K)
           I == [k \in 0..Len(list) |-> {t \in Memory : Kept(t, k)}]
<1>1. list \in Seq(Note) /\ Len(list) \in Nat /\ s \in Memory
  BY MemoryIs, LenProperties DEF Good
<1>2. s \in I[0]
  BY <1>1, SuffixWhole
<1>3. ASSUME NEW k \in 1..Len(list), NEW t \in I[k - 1] PROVE stays_or_goes(t, st, list[k]) \in I[k]
  <2>1. k \in 0..Len(list) /\ k - 1 \in 0..Len(list)
    BY <1>1
  <2>2. Good(t, H, L) /\ Suffix(t.displayed, list, k - 1) /\ Stay(t, K)
    BY <2>1
  <2>3. Kept(stays_or_goes(t, st, list[k]), k)
    BY <1>1, <2>2, StaysOrGoes
  <2>4. stays_or_goes(t, st, list[k]) \in Memory
    BY <2>3 DEF Good
  <2> QED
    BY <2>1, <2>3, <2>4
<1>4. move_back(s, st) \in I[Len(list)]
  <2> HIDE DEF I
  <2> QED
    BY <1>1, <1>2, <1>3, MoveBackIs
<1> QED
  BY <1>1, <1>4

(* To close one that waits closes none that is displayed. *)
LEMMA CloseWaiting ==
    ASSUME NEW s, NEW H, NEW L, Good(s, H, L), NEW K, Stay(s, K),
           NEW list \in Seq(Note), NEW k \in 1..Len(list), Suffix(s.waiting, list, k - 1),
           NEW t, Closed(s, t, s.n[list[k]].id)
    PROVE  Suffix(t.waiting, list, k) /\ Stay(t, K)
<1> DEFINE id == s.n[list[k]].id
           e == WithId(s, s.displayed, id)
<1>1. s \in Memory /\ Apart(s)
  BY DEF Good
<1>2. /\ s.waiting \in Seq(Note) /\ s.displayed \in Seq(Note) /\ Distinct(s.displayed)
      /\ Held(s) \subseteq Note
  BY <1>1, MemoryIs DEF Apart
<1>3. Suffix(t.waiting, list, k)
  <2>1. Suffix(RemoveFirst(s.waiting, WithId(s, s.waiting, id)), list, k)
    BY <1>2, SuffixClosed
  <2> QED
    BY <2>1 DEF Closed
<1>4. list[k] \in Elems(s.waiting)
  BY <1>2, SuffixNext
<1>5. t.displayed = RemoveFirst(s.displayed, e) /\ \A p \in Note : t.n[p].locked <=> s.n[p].locked
  BY DEF Closed
<1>6. IsFirst(s, s.displayed, id, e)
  BY <1>2, WithIdIs
<1>7. Elems(t.displayed) = Elems(s.displayed) \ {e}
  <2> HIDE DEF e
  <2> QED
    BY <1>2, <1>5, RemovedElems
<1>8. ASSUME Tidy, NEW o \in K PROVE o \in Elems(t.displayed) /\ t.n[o].locked
  <2>1. o \in Elems(s.displayed) /\ s.n[o].locked
    BY <1>8 DEF Stay
  <2>2. o \in Note /\ o \in Held(s) /\ list[k] \in Held(s) /\ o # list[k]
    BY <1>1, <1>2, <1>4, <2>1 DEF Held, Apart
  <2>3. s.n[o].id # id
    BY <1>8, <2>2 DEF Good, Paired
  <2>4. o # e
    <3> HIDE DEF e, id
    <3>1. None \notin Note
      BY DEF None, Note
    <3> QED
      BY <1>6, <2>2, <2>3, <3>1 DEF IsFirst
  <2> QED
    BY <1>5, <1>7, <2>1, <2>2, <2>4
<1> QED
  BY <1>3, <1>5, <1>8 DEF Stay

(* The visits of the second loop. *)
LEMMA ShownIfReady ==
    ASSUME NEW s, NEW H, NEW L, Good(s, H, L), NEW K, Stay(s, K), NEW st, NEW limit,
           NEW list \in Seq(Note), NEW k \in 1..Len(list), Suffix(s.waiting, list, k - 1)
    PROVE  LET t == shown_if_ready(s, st, limit, list[k])
           IN  Good(t, H, L) /\ Suffix(t.waiting, list, k) /\ Stay(t, K)
<1> DEFINE o == list[k]
           Kept(t) == Good(t, H, L) /\ Suffix(t.waiting, list, k) /\ Stay(t, K)
<1>1. s.waiting \in Seq(Note)
  BY MemoryIs DEF Good
<1>2. /\ o \in Elems(s.waiting) /\ Suffix(s.waiting, list, k)
      /\ k + Len(s.waiting) - Len(list) \in 1..Len(s.waiting)
      /\ s.waiting[k + Len(s.waiting) - Len(list)] = o
  BY <1>1, SuffixNext
<1>3. Kept(s)
  BY <1>2
<1>4. Kept(close(s, o))
  <2>1. Good(close(s, o), H, L) /\ Closed(s, close(s, o), s.n[o].id)
    BY RemoveKeeps
  <2>2. Suffix(close(s, o).waiting, list, k) /\ Stay(close(s, o), K)
    BY <2>1, CloseWaiting
  <2> QED
    BY <2>1, <2>2
<1>5. Kept(MovedIn(s, RemoveFirst(s.waiting, o), o))
  <2> DEFINE t == MovedIn(s, RemoveFirst(s.waiting, o), o)
  <2>1. /\ Good(t, H, L) /\ t.waiting = RemoveFirst(s.waiting, o) /\ t.n = s.n
        /\ Elems(t.displayed) = Elems(s.displayed) \cup {o}
    BY <1>2, LeavesWaiting
  <2>2. Suffix(RemoveFirst(s.waiting, o), list, k)
    <3>1. \E i \in 1..(k + Len(s.waiting) - Len(list)) : s.waiting[i] = o
      BY <1>2
    <3> HIDE DEF o
    <3> QED
      BY <1>1, <3>1, SuffixLeft
  <2> HIDE DEF t
  <2>3. Stay(t, K)
    <3> HIDE DEF o
    <3> QED
      BY <2>1 DEF Stay
  <2>4. Kept(t)
    BY <2>1, <2>2, <2>3
  <2> QED
    BY <2>4 DEF t
<1> HIDE DEF Kept, o
<1>6. Kept(shown_if_ready(s, st, limit, o))
  BY <1>3, <1>4, <1>5 DEF shown_if_ready, MovedIn
<1> QED
  BY <1>6 DEF Kept, o

(* The second loop. *)
LEMMA ShowWaitingKeeps ==
    ASSUME NEW s, NEW H, NEW L, Good(s, H, L), NEW K, Stay(s, K), NEW st, NEW limit
    PROVE  Good(show_waiting(s, st, limit), H, L) /\ Stay(show_waiting(s, st, limit), K)
<1> DEFINE list == s.waiting
           Kept(t, k) == Good(t, H, L) /\ Suffix(t.waiting, list, k) /\ Stay(t, K)
           I == [k \in 0..Len(list) |-> {t \in Memory : Kept(t, k)}]
<1>1. list \in Seq(Note) /\ Len(list) \in Nat /\ s \in Memory
  BY MemoryIs, LenProperties DEF Good
<1>2. s \in I[0]
  BY <1>1, SuffixWhole
<1>3. ASSUME NEW k \in 1..Len(list), NEW t \in I[k - 1]
      PROVE  shown_if_ready(t, st, limit, list[k]) \in I[k]
  <2>1. k \in 0..Len(list) /\ k - 1 \in 0..Len(list)
    BY <1>1
  <2>2. Good(t, H, L) /\ Suffix(t.waiting, list, k - 1) /\ Stay(t, K)
    BY <2>1
  <2>3. Kept(shown_if_ready(t, st, limit, list[k]), k)
    BY <1>1, <2>2, ShownIfReady
  <2>4. shown_if_ready(t, st, limit, list[k]) \in Memory
    BY <2>3 DEF Good
  <2> QED
    BY <2>1, <2>3, <2>4
<1>4. show_waiting(s, st, limit) \in I[Len(list)]
  <2> HIDE DEF I
  <2> QED
    BY <1>1, <1>2, <1>3, ShowWaitingIs
<1> QED
  BY <1>1, <1>4

(* What is displayed or waits. *)
Active(s) == Elems(s.displayed) \cup Elems(s.waiting)

(* t has the notifications of s, perhaps in other places. *)
Shuffled(s, t) == Active(t) = Active(s) /\ t.n = s.n

(* One step of the third loop: the last displayed one waits. *)
LEMMA LastWaits ==
    ASSUME NEW s, NEW H, NEW L, Good(s, H, L), s.displayed # <<>>
    PROVE  LET t == last_waits(s)
           IN  /\ Good(t, H, L) /\ Shuffled(s, t)
               /\ Len(t.displayed) = Len(s.displayed) - 1 /\ Len(t.waiting) = Len(s.waiting) + 1
<1>1. s.displayed \in Seq(Note) /\ Distinct(s.displayed)
  BY MemoryIs DEF Good, Apart
<1>2. /\ Last(s.displayed) \in Elems(s.displayed)
      /\ Front(s.displayed) \in Seq(Note) /\ Len(Front(s.displayed)) = Len(s.displayed) - 1
      /\ Elems(s.displayed) = Elems(Front(s.displayed)) \cup {Last(s.displayed)}
      /\ Distinct(Front(s.displayed)) /\ Last(s.displayed) \notin Elems(Front(s.displayed))
  BY <1>1, LastElems
<1>3. PICK o \in Elems(s.displayed), d \in Seq(Note) :
         /\ o = Last(s.displayed) /\ d = Front(s.displayed)
         /\ Distinct(d) /\ Elems(d) = Elems(s.displayed) \ {o}
  BY <1>2
<1>4. /\ Good(MovedBack(s, d, o), H, L)
      /\ MovedBack(s, d, o).displayed = d
      /\ MovedBack(s, d, o).n = s.n
      /\ Len(MovedBack(s, d, o).waiting) = Len(s.waiting) + 1
      /\ Elems(MovedBack(s, d, o).waiting) = Elems(s.waiting) \cup {o}
  <2>1. Distinct(d)
    BY <1>3
  <2>2. Elems(d) = Elems(s.displayed) \ {o}
    BY <1>3
  <2>3. Falling(s.n, s.displayed) => Falling(s.n, d)
    BY <1>1, <1>3, FallingEnds DEF Good
  <2> QED
    BY ONLY Good(s, H, L), <2>1, <2>2, <2>3, MovesBack
<1>5. last_waits(s) = MovedBack(s, d, o)
  BY <1>3 DEF last_waits, MovedBack
<1>6. Active(MovedBack(s, d, o)) = Active(s)
  BY <1>3, <1>4 DEF Active
<1> QED
  BY <1>2, <1>3, <1>4, <1>5, <1>6 DEF Shuffled

(* The third loop leaves no more than the limit. *)
LEMMA PushBackKeeps ==
    ASSUME NEW s, NEW H, NEW L, Good(s, H, L), NEW limit \in Nat
    PROVE  LET t == push_back(s, limit)
           IN  /\ Good(t, H, L) /\ Shuffled(s, t)
               /\ IF Len(s.displayed) <= limit THEN t = s
                  ELSE /\ Len(t.displayed) = limit
                       /\ Len(t.waiting) = Len(s.waiting) + (Len(s.displayed) - limit)
<1>1. /\ s.displayed \in Seq(Note) /\ Len(s.displayed) \in Nat
      /\ Len(s.waiting) \in Nat /\ s \in Memory
  BY MemoryIs, LenProperties DEF Good
<1>2. CASE Len(s.displayed) <= limit
  BY <1>2 DEF push_back, Shuffled
<1>3. CASE Len(s.displayed) > limit
  <2> DEFINE n == Len(s.displayed) - limit
             Kept(t, k) == /\ Good(t, H, L) /\ Shuffled(s, t)
                           /\ Len(t.displayed) = Len(s.displayed) - k
                           /\ Len(t.waiting) = Len(s.waiting) + k
             I == [k \in 0..n |-> {t \in Memory : Kept(t, k)}]
  <2>1. n \in Nat
    BY <1>1, <1>3
  <2>2. s \in I[0]
    BY <1>1, <2>1 DEF Shuffled
  <2>3. ASSUME NEW k \in 1..n, NEW t \in I[k - 1] PROVE last_waits(t) \in I[k]
    <3>1. k \in 0..n /\ k - 1 \in 0..n
      BY <2>1
    <3>2. /\ Good(t, H, L) /\ Shuffled(s, t)
          /\ Len(t.displayed) = Len(s.displayed) - (k - 1)
          /\ Len(t.waiting) = Len(s.waiting) + (k - 1)
      BY <3>1
    <3>3. Len(t.displayed) > 0
      BY <1>1, <3>2
    <3>4. t.displayed # <<>>
      BY <3>3
    <3>5. /\ Good(last_waits(t), H, L) /\ Shuffled(t, last_waits(t))
          /\ Len(last_waits(t).displayed) = Len(t.displayed) - 1
          /\ Len(last_waits(t).waiting) = Len(t.waiting) + 1
      BY <3>2, <3>4, LastWaits
    <3>6. /\ Len(last_waits(t).displayed) = Len(s.displayed) - k
          /\ Len(last_waits(t).waiting) = Len(s.waiting) + k
      BY <1>1, <3>2, <3>5
    <3>7. Kept(last_waits(t), k)
      BY <3>2, <3>5, <3>6 DEF Shuffled
    <3>8. last_waits(t) \in Memory
      BY <3>5 DEF Good
    <3> QED
      BY <3>1, <3>7, <3>8
  <2>4. push_back(s, limit) \in I[n]
    <3> HIDE DEF I
    <3> QED
      BY <1>1, <1>3, <2>2, <2>3, PushBackIs
  <2>5. n \in 0..n /\ Len(s.displayed) - n = limit /\ ~(Len(s.displayed) <= limit)
    BY <1>1, <1>3, <2>1
  <2> QED
    BY <2>4, <2>5
<1>4. Len(s.displayed) <= limit \/ Len(s.displayed) > limit
  BY <1>1
<1> QED
  BY ONLY <1>2, <1>3, <1>4

(* Nothing can change places: one of the queues is empty, or the first     *)
(* that waits is not ready or not more important.                          *)
Stuck(s, st) ==
    \/ s.waiting = <<>> \/ s.displayed = <<>>
    \/ ~is_ready(s, st, Head(s.waiting), FALSE)
    \/ ~ComesBefore(s, Head(s.waiting), Last(s.displayed))

(* The first that waits and the last displayed have changed places.        *)
Swapped(s, t) ==
    /\ Elems(t.displayed) = (Elems(s.displayed) \ {Last(s.displayed)}) \cup {Head(s.waiting)}
    /\ Elems(t.waiting) = (Elems(s.waiting) \ {Head(s.waiting)}) \cup {Last(s.displayed)}

(* One step of the last loop: the first that waits and the last displayed  *)
(* change places, or nothing happens.                                      *)
LEMMA SwapKeeps ==
    ASSUME NEW s, NEW H, NEW L, Good(s, H, L), NEW st
    PROVE  LET t == swap_notifications(s, st)
           IN  /\ Good(t, H, L) /\ Shuffled(s, t)
               /\ Len(t.displayed) = Len(s.displayed) /\ Len(t.waiting) = Len(s.waiting)
               /\ IF Stuck(s, st) THEN t = s ELSE Swapped(s, t)
<1> DEFINE first == Head(s.waiting)
           last  == Last(s.displayed)
           u == [s EXCEPT !.displayed = Front(s.displayed), !.waiting = Tail(s.waiting)]
           v == to_displayed(u, first)
           t == to_waiting(v, last)
<1>1. CASE \/ s.waiting = <<>> \/ s.displayed = <<>>
           \/ ~is_ready(s, st, first, FALSE)
           \/ ~ComesBefore(s, first, last)
  BY <1>1 DEF swap_notifications, Shuffled, Stuck
<1>2. CASE ~(\/ s.waiting = <<>> \/ s.displayed = <<>>
             \/ ~is_ready(s, st, first, FALSE)
             \/ ~ComesBefore(s, first, last))
  <2>1. swap_notifications(s, st) = t
    BY <1>2 DEF swap_notifications
  <2>2. /\ s \in Memory /\ Apart(s)
        /\ s.displayed \in Seq(Note) /\ s.waiting \in Seq(Note)
        /\ Distinct(s.displayed) /\ Distinct(s.waiting)
        /\ s.displayed # <<>> /\ s.waiting # <<>>
    BY <1>2, MemoryIs DEF Good, Apart
  <2>3. /\ last \in Note /\ last \in Elems(s.displayed)
        /\ Front(s.displayed) \in Seq(Note) /\ Len(Front(s.displayed)) = Len(s.displayed) - 1
        /\ Elems(s.displayed) = Elems(Front(s.displayed)) \cup {last}
        /\ Distinct(Front(s.displayed)) /\ last \notin Elems(Front(s.displayed))
    BY <2>2, LastElems
  <2>4. /\ first \in Note /\ first \in Elems(s.waiting)
        /\ Tail(s.waiting) \in Seq(Note) /\ Len(Tail(s.waiting)) = Len(s.waiting) - 1
        /\ Elems(s.waiting) = Elems(Tail(s.waiting)) \cup {first}
        /\ Distinct(Tail(s.waiting)) /\ first \notin Elems(Tail(s.waiting))
    BY <2>2, HeadElems
  <2>5. /\ u \in Memory /\ u.displayed = Front(s.displayed) /\ u.waiting = Tail(s.waiting)
        /\ u.history = s.history /\ u.n = s.n /\ u.next = s.next /\ u.open = s.open
    <3>1. PICK d \in Seq(Note), w \in Seq(Note) :
             d = Front(s.displayed) /\ w = Tail(s.waiting)
      BY <2>3, <2>4
    <3>2. u = [s EXCEPT !.displayed = d, !.waiting = w]
      BY <3>1
    <3>3. s \in Memory
      BY <2>2
    <3>4. /\ [s EXCEPT !.displayed = d, !.waiting = w] \in Memory
          /\ [s EXCEPT !.displayed = d, !.waiting = w].displayed = d
          /\ [s EXCEPT !.displayed = d, !.waiting = w].waiting = w
          /\ [s EXCEPT !.displayed = d, !.waiting = w].history = s.history
          /\ [s EXCEPT !.displayed = d, !.waiting = w].n = s.n
          /\ [s EXCEPT !.displayed = d, !.waiting = w].next = s.next
          /\ [s EXCEPT !.displayed = d, !.waiting = w].open = s.open
      BY ONLY <3>3 DEF Memory
    <3> HIDE DEF u
    <3> QED
      BY <3>1, <3>2, <3>4
  <2> HIDE DEF u
  <2>6. /\ v \in Memory /\ v.waiting = u.waiting /\ v.history = u.history
        /\ v.n = u.n /\ v.next = u.next /\ v.open = u.open
        /\ Elems(v.displayed) = Elems(u.displayed) \cup {first}
        /\ Len(v.displayed) = Len(u.displayed) + 1
        /\ Distinct(u.displayed) /\ first \notin Elems(u.displayed) => Distinct(v.displayed)
        /\ Ordered(u) => Ordered(v)
    BY <2>4, <2>5, ToDisplayed
  <2> HIDE DEF v
  <2>7. /\ t \in Memory /\ t.displayed = v.displayed /\ t.history = v.history
        /\ t.n = v.n /\ t.next = v.next /\ t.open = v.open
        /\ Elems(t.waiting) = Elems(v.waiting) \cup {last}
        /\ Len(t.waiting) = Len(v.waiting) + 1
        /\ Distinct(v.waiting) /\ last \notin Elems(v.waiting) => Distinct(t.waiting)
        /\ Ordered(v) => Ordered(t)
    BY <2>3, <2>6, ToWaiting
  <2> HIDE DEF t
  <2>8. Elems(t.displayed) = Elems(Front(s.displayed)) \cup {first}
    BY <2>5, <2>6, <2>7
  <2>9. Elems(t.waiting) = Elems(Tail(s.waiting)) \cup {last}
    BY <2>5, <2>6, <2>7
  <2> HIDE DEF first, last
  <2>10. Distinct(t.displayed) /\ Distinct(t.waiting)
    BY <2>2, <2>3, <2>4, <2>5, <2>6, <2>7 DEF Apart
  <2>11. Apart(t)
    BY <2>2, <2>3, <2>4, <2>5, <2>6, <2>7, <2>8, <2>9, <2>10 DEF Apart
  <2>12. Elems(t.displayed) \cup Elems(t.waiting) = Elems(s.displayed) \cup Elems(s.waiting)
    BY <2>3, <2>4, <2>8, <2>9
  <2>13. t.history = s.history /\ t.next = s.next /\ t.open = s.open /\ t.n = s.n
    BY <2>5, <2>6, <2>7
  <2>14. \A p \in Note : Same(s.n[p], t.n[p])
    BY <2>13 DEF Same
  <2>15. Good(t, H, L)
    <3>1. Ordered(s) => Ordered(u)
      BY <2>2, <2>5, FallingEnds DEF Ordered
    <3>2. Graded => Ordered(t)
      BY <2>6, <2>7, <3>1 DEF Good
    <3> QED
      BY <2>7, <2>11, <2>12, <2>13, <2>14, <3>2, Rearranged
  <2>16. Len(t.displayed) = Len(s.displayed) /\ Len(t.waiting) = Len(s.waiting)
    <3>1. Len(s.displayed) \in Nat /\ Len(s.waiting) \in Nat
      BY <2>2, LenProperties
    <3>2. Len(u.displayed) = Len(s.displayed) - 1 /\ Len(u.waiting) = Len(s.waiting) - 1
      BY <2>3, <2>4, <2>5
    <3>3. Len(t.displayed) = Len(u.displayed) + 1 /\ Len(t.waiting) = Len(u.waiting) + 1
      BY <2>6, <2>7
    <3> QED
      BY ONLY <3>1, <3>2, <3>3
  <2>17. Swapped(s, t)
    <3>1. /\ Elems(s.displayed) \ {last} = Elems(Front(s.displayed))
          /\ Elems(s.waiting) \ {first} = Elems(Tail(s.waiting))
      BY <2>3, <2>4
    <3> QED
      BY <2>8, <2>9, <3>1 DEF Swapped, first, last
  <2>18. ~Stuck(s, st)
    BY <1>2 DEF Stuck, first, last
  <2> QED
    BY <2>1, <2>12, <2>13, <2>15, <2>16, <2>17, <2>18 DEF Shuffled, Active
<1> QED
  BY <1>1, <1>2

(* The last loop. *)
LEMMA SeepKeeps ==
    ASSUME NEW s, NEW H, NEW L, Good(s, H, L), NEW st, NEW limit
    PROVE  LET t == seep(s, st, limit)
           IN  /\ Good(t, H, L) /\ Shuffled(s, t)
               /\ Len(t.displayed) = Len(s.displayed) /\ Len(t.waiting) = Len(s.waiting)
<1>1. s.waiting \in Seq(Note) /\ Len(s.waiting) \in Nat /\ s \in Memory
  BY MemoryIs, LenProperties DEF Good
<1>2. CASE Len(s.displayed) # limit
  BY <1>2 DEF seep, Shuffled
<1>3. CASE Len(s.displayed) = limit
  <2> DEFINE n == Len(s.waiting)
             Kept(t) == /\ Good(t, H, L) /\ Shuffled(s, t)
                        /\ Len(t.displayed) = Len(s.displayed) /\ Len(t.waiting) = Len(s.waiting)
             I == [k \in 0..n |-> {t \in Memory : Kept(t)}]
  <2>1. s \in I[0]
    BY <1>1 DEF Shuffled
  <2>2. ASSUME NEW k \in 1..n, NEW t \in I[k - 1] PROVE swap_notifications(t, st) \in I[k]
    <3>1. k \in 0..n /\ k - 1 \in 0..n
      BY <1>1
    <3>2. Kept(t)
      BY <3>1
    <3> DEFINE r == swap_notifications(t, st)
    <3>3. /\ Good(r, H, L) /\ Shuffled(t, r)
          /\ Len(r.displayed) = Len(t.displayed) /\ Len(r.waiting) = Len(t.waiting)
          /\ IF Stuck(t, st) THEN r = t ELSE Swapped(t, r)
      BY <3>2, SwapKeeps
    <3> HIDE DEF r
    <3>4. Kept(r)
      BY <3>2, <3>3 DEF Shuffled
    <3>5. r \in Memory
      BY <3>3 DEF Good
    <3> HIDE DEF Kept
    <3>6. r \in I[k]
      BY <3>1, <3>4, <3>5
    <3> QED
      BY <3>6 DEF r
  <2>3. seep(s, st, limit) \in I[n]
    <3> HIDE DEF I
    <3> QED
      BY <1>1, <1>3, <2>1, <2>2, SeepIs
  <2>4. n \in 0..n
    BY <1>1
  <2> QED
    BY <2>3, <2>4
<1> QED
  BY <1>2, <1>3

(* The limit is a number. *)
LEMMA LimitIs ==
    ASSUME NEW s
    PROVE  displayed_limit(s) \in Nat
<1>1. MaxNotes \in Nat /\ Limit \in Nat
  BY DunstAssumption
<1>2. MaxNotes + 1 \in Nat /\ (Limit > 1 => Limit - 1 \in Nat)
  BY <1>1
<1> DEFINE more == Len(s.displayed) + Len(s.waiting) > Limit
<1>3. displayed_limit(s) = IF Limit = 0 THEN MaxNotes + 1
                           ELSE IF IndicateHidden /\ Limit > 1 /\ more
                           THEN Limit - 1 ELSE Limit
  BY DEF displayed_limit
<1> HIDE DEF more
<1> QED
  BY <1>1, <1>2, <1>3

(* queues_update: those of K, locked and displayed, stay. *)
LEMMA UpdateKeeps ==
    ASSUME NEW s, NEW H, NEW L, Good(s, H, L), NEW K, Stay(s, K), NEW st
    PROVE  LET t == queues_update(s, st)
           IN  Good(t, H, L) /\ (Tidy => K \subseteq Active(t))
<1> DEFINE a == move_back(s, st)
           limit == displayed_limit(a)
           b == show_waiting(a, st, limit)
           c == push_back(b, limit)
           d == seep(c, st, limit)
<1>1. Good(a, H, L) /\ Stay(a, K)
  BY MoveBackKeeps
<1>2. limit \in Nat
  BY LimitIs
<1> HIDE DEF a, limit
<1>3. Good(b, H, L) /\ Stay(b, K)
  BY <1>1, ShowWaitingKeeps
<1> HIDE DEF b
<1>4. /\ Good(c, H, L) /\ Shuffled(b, c)
      /\ IF Len(b.displayed) <= limit THEN c = b
         ELSE /\ Len(c.displayed) = limit
              /\ Len(c.waiting) = Len(b.waiting) + (Len(b.displayed) - limit)
  BY <1>2, <1>3, PushBackKeeps
<1> HIDE DEF c
<1>5. Good(d, H, L) /\ Shuffled(c, d)
  BY <1>4, SeepKeeps
<1>6. queues_update(s, st) = d
  BY DEF queues_update, let_in, fill, a, b, c, d, limit
<1> HIDE DEF d
<1>7. ASSUME Tidy PROVE K \subseteq Active(d)
  <2>1. K \subseteq Active(b)
    BY <1>3, <1>7 DEF Stay, Active
  <2> QED
    BY <1>4, <1>5, <2>1 DEF Shuffled
<1> QED
  BY <1>5, <1>6, <1>7

-----------------------------------------------------------------------------
(* How full the window is, and by whom, after an update.                   *)

(* The number of those that are displayed or wait. *)
Total(s) == Len(s.displayed) + Len(s.waiting)

(* The lengths as numbers. *)
LEMMA LengthsAre ==
    ASSUME NEW s \in Memory
    PROVE  \E d, w \in Nat : Len(s.displayed) = d /\ Len(s.waiting) = w /\ Total(s) = d + w
<1>1. PICK d \in Nat, w \in Nat : d = Len(s.displayed) /\ w = Len(s.waiting)
  BY MemoryIs, LenProperties
<1> QED
  BY <1>1 DEF Total

(* What is closed by its id is closed itself, or nothing skips the display *)
(* to be closed while it waits.                                            *)
Sound == Tidy \/ \A kind \in Kinds : ~kind.skip

(* To close one that waits does not add to what is displayed or waits.     *)
LEMMA ClosingFills ==
    ASSUME NEW s, NEW H, NEW L, Good(s, H, L), NEW o \in Elems(s.waiting)
    PROVE  LET t == close(s, o)
           IN  /\ Len(t.displayed) <= Len(s.displayed) /\ Total(t) <= Total(s)
               /\ Elems(t.waiting) \subseteq Elems(s.waiting)
               /\ \A p \in Note : t.n[p].kind = s.n[p].kind
               /\ Tidy => o \notin Elems(t.waiting)
<1> DEFINE t == close(s, o)
           id == s.n[o].id
           w == WithId(s, s.waiting, id)
           d == WithId(s, s.displayed, id)
<1>1. Good(t, H, L) /\ Closed(s, t, id)
  BY RemoveKeeps
<1>2. /\ s.waiting \in Seq(Note) /\ s.displayed \in Seq(Note)
      /\ Distinct(s.waiting) /\ Distinct(s.displayed) /\ s \in Memory
      /\ t.waiting \in Seq(Note) /\ t.displayed \in Seq(Note)
  BY <1>1, MemoryIs DEF Good, Apart
<1>3. /\ Len(s.waiting) \in Nat /\ Len(s.displayed) \in Nat
      /\ Len(t.waiting) \in Nat /\ Len(t.displayed) \in Nat
  BY <1>2, LenProperties
<1> HIDE DEF t
<1>4. IsFirst(s, s.waiting, id, w)
  BY <1>2, WithIdIs
<1>5. t.displayed = RemoveFirst(s.displayed, d) /\ t.waiting = RemoveFirst(s.waiting, w)
  BY <1>1 DEF Closed
<1> HIDE DEF w, d
<1>6. Len(t.displayed) <= Len(s.displayed)
  BY <1>2, <1>5, RemovedElems
<1>7. Len(t.waiting) <= Len(s.waiting) /\ Elems(t.waiting) = Elems(s.waiting) \ {w}
  BY <1>2, <1>5, RemovedElems
<1>8. ASSUME Tidy PROVE w = o
  <2>1. \A p \in Held(s) : s.n[p].id = id => p = o
    BY <1>8 DEF Good, Paired, Held
  <2>2. \E p \in Elems(s.waiting) : s.n[p].id = id
    OBVIOUS
  <2>3. w \in Elems(s.waiting) /\ s.n[w].id = id
    BY <1>2, <1>4, <2>2, ElemsOf DEF IsFirst
  <2> QED
    BY <2>1, <2>3 DEF Held
<1>9. Total(t) <= Total(s)
  <2>1. PICK a, b \in Nat : Len(s.displayed) = a /\ Len(s.waiting) = b /\ Total(s) = a + b
    BY <1>2, LengthsAre
  <2>2. PICK c, e \in Nat : Len(t.displayed) = c /\ Len(t.waiting) = e /\ Total(t) = c + e
    BY <1>1, LengthsAre DEF Good
  <2>3. c <= a /\ e <= b
    BY <1>6, <1>7, <2>1, <2>2
  <2> QED
    BY <2>1, <2>2, <2>3
<1> QED
  BY <1>1, <1>6, <1>7, <1>8, <1>9 DEF Closed, t

(* A visit of the second loop: while there is room, one that is ready does *)
(* not go on waiting, and only one that is suppressed or skips the display *)
(* goes.                                                                   *)
LEMMA VisitFills ==
    ASSUME NEW s, NEW H, NEW L, Good(s, H, L), NEW st, NEW limit \in Nat,
           NEW o \in Elems(s.waiting)
    PROVE  LET t == shown_if_ready(s, st, limit, o)
           IN  /\ Total(t) <= Total(s) /\ Elems(t.waiting) \subseteq Elems(s.waiting)
               /\ \A p \in Note : t.n[p].kind = s.n[p].kind
               /\ Len(s.displayed) >= limit => t = s
               /\ Len(s.displayed) < limit /\ suppressed(s, st, o) => Len(t.displayed) < limit
               /\ Len(s.displayed) < limit /\ Sound =>
                     o \notin Elems(t.waiting) \/ ~is_ready(s, st, o, FALSE)
               /\ \/ Total(t) = Total(s)
                  \/ /\ Len(t.displayed) < limit
                     /\ suppressed(s, st, o) \/ s.n[o].kind.skip
<1> DEFINE Fills(t) ==
             /\ Total(t) <= Total(s) /\ Elems(t.waiting) \subseteq Elems(s.waiting)
             /\ \A p \in Note : t.n[p].kind = s.n[p].kind
             /\ Len(s.displayed) >= limit => t = s
             /\ Len(s.displayed) < limit /\ suppressed(s, st, o) => Len(t.displayed) < limit
             /\ Len(s.displayed) < limit /\ Sound =>
                   o \notin Elems(t.waiting) \/ ~is_ready(s, st, o, FALSE)
             /\ \/ Total(t) = Total(s)
                \/ /\ Len(t.displayed) < limit
                   /\ suppressed(s, st, o) \/ s.n[o].kind.skip
           c == close(s, o)
           m == MovedIn(s, RemoveFirst(s.waiting, o), o)
<1>1. /\ s.waiting \in Seq(Note) /\ s.displayed \in Seq(Note) /\ Distinct(s.waiting) /\ s \in Memory
      /\ Len(s.waiting) \in Nat /\ Len(s.displayed) \in Nat
  BY MemoryIs, LenProperties DEF Good, Apart
<1>2. /\ Len(c.displayed) <= Len(s.displayed) /\ Total(c) <= Total(s)
      /\ Elems(c.waiting) \subseteq Elems(s.waiting)
      /\ \A p \in Note : c.n[p].kind = s.n[p].kind
      /\ Tidy => o \notin Elems(c.waiting)
  BY ClosingFills
<1>3. Len(c.displayed) \in Nat
  BY RemoveKeeps, MemoryIs, LenProperties DEF Good
<1>4. /\ m.waiting = RemoveFirst(s.waiting, o) /\ m.n = s.n
      /\ Len(m.displayed) = Len(s.displayed) + 1
      /\ Elems(m.waiting) = Elems(s.waiting) \ {o} /\ m \in Memory
  <2> HIDE DEF m
  <2>1. /\ Good(m, H, L) /\ m.waiting = RemoveFirst(s.waiting, o) /\ m.n = s.n
        /\ Len(m.displayed) = Len(s.displayed) + 1
        /\ Elems(m.displayed) = Elems(s.displayed) \cup {o}
        /\ Elems(m.waiting) = Elems(s.waiting) \ {o}
    BY LeavesWaiting DEF m
  <2> QED
    BY <2>1 DEF Good
<1>5. Len(RemoveFirst(s.waiting, o)) = Len(s.waiting) - 1
  BY <1>1, RemovedElems
<1> HIDE DEF c, m
<1>6. Total(m) = Total(s) /\ Total(s) \in Nat
  <2>1. PICK a, b \in Nat : Len(s.displayed) = a /\ Len(s.waiting) = b /\ Total(s) = a + b
    BY <1>1, LengthsAre
  <2>2. Len(m.waiting) = b - 1 /\ Len(m.displayed) = a + 1
    BY <1>4, <1>5, <2>1
  <2>3. Total(m) = (a + 1) + (b - 1)
    BY <2>2 DEF Total
  <2> QED
    BY <2>1, <2>3
<1>7. CASE Len(s.displayed) >= limit
  <2>1. shown_if_ready(s, st, limit, o) = s
    BY <1>7 DEF shown_if_ready
  <2>2. Total(s) <= Total(s) /\ ~(Len(s.displayed) < limit)
    BY <1>1, <1>6, <1>7
  <2>3. Fills(s)
    BY <2>2
  <2> QED
    BY <2>1, <2>3
<1>8. CASE Len(s.displayed) < limit
  <2>1. ~(Len(s.displayed) >= limit) /\ Len(c.displayed) < limit
    BY <1>1, <1>2, <1>3, <1>8
  <2>2. CASE suppressed(s, st, o)
    <3>1. shown_if_ready(s, st, limit, o) = c
      BY <2>1, <2>2 DEF shown_if_ready, c
    <3>2. ~is_ready(s, st, o, FALSE)
      BY <2>2 DEF is_ready, suppressed
    <3>3. Fills(c)
      BY <1>2, <2>1, <2>2, <3>2
    <3> QED
      BY <3>1, <3>3
  <2>3. CASE ~suppressed(s, st, o) /\ ~is_ready(s, st, o, FALSE)
    <3>1. shown_if_ready(s, st, limit, o) = s
      BY <2>1, <2>3 DEF shown_if_ready
    <3>2. Total(s) <= Total(s)
      BY <1>6
    <3>3. Fills(s)
      BY <2>1, <2>3, <3>2
    <3> QED
      BY <3>1, <3>3
  <2>4. CASE /\ ~suppressed(s, st, o) /\ is_ready(s, st, o, FALSE)
             /\ s.n[o].kind.skip /\ ~s.n[o].redisplayed
    <3>1. shown_if_ready(s, st, limit, o) = c
      BY <2>1, <2>4 DEF shown_if_ready, c
    <3>2. s.n[o].kind \in Kinds
      BY DEF Good, Known, Held
    <3>3. Sound => Tidy
      BY <2>4, <3>2 DEF Sound
    <3>4. Fills(c)
      BY <1>2, <2>1, <2>4, <3>3
    <3> QED
      BY <3>1, <3>4
  <2>5. CASE /\ ~suppressed(s, st, o) /\ is_ready(s, st, o, FALSE)
             /\ ~(s.n[o].kind.skip /\ ~s.n[o].redisplayed)
    <3>1. shown_if_ready(s, st, limit, o) = m
      BY <2>1, <2>5 DEF shown_if_ready, m, MovedIn
    <3>2. Fills(m)
      BY <1>4, <1>6, <2>1, <2>5
    <3> QED
      BY <3>1, <3>2
  <2> QED
    BY <2>2, <2>3, <2>4, <2>5
<1>9. Len(s.displayed) >= limit \/ Len(s.displayed) < limit
  BY <1>1
<1> QED
  BY ONLY <1>7, <1>8, <1>9

(* Of those that wait, the suppressed ones come last, and none skips the   *)
(* display.                                                                *)
Orderly(s, st) ==
    /\ \A o \in Elems(s.waiting) : ~s.n[o].kind.skip
    /\ \A i, j \in 1..Len(s.waiting) :
          i < j /\ suppressed(s, st, s.waiting[i]) => suppressed(s, st, s.waiting[j])

(* While there is room, none waits that is ready. *)
Filled(s, st, limit) ==
    Len(s.displayed) >= limit \/ \A o \in Elems(s.waiting) : ~is_ready(s, st, o, FALSE)

(* is_ready and suppressed read the kind. *)
LEMMA KindDecides ==
    ASSUME NEW s, NEW t, NEW st, NEW o, t.n[o].kind = s.n[o].kind
    PROVE  /\ is_ready(t, st, o, FALSE) <=> is_ready(s, st, o, FALSE)
           /\ suppressed(t, st, o) <=> suppressed(s, st, o)
  BY DEF is_ready, suppressed

(* The second loop fills what it can, and only what is suppressed or skips *)
(* the display goes.                                                       *)
LEMMA ShowWaitingFills ==
    ASSUME NEW s, NEW H, NEW L, Good(s, H, L), NEW st, NEW limit \in Nat
    PROVE  LET t == show_waiting(s, st, limit)
           IN  /\ Total(t) <= Total(s)
               /\ Sound => Filled(t, st, limit)
               /\ Orderly(s, st) => Total(t) = Total(s) \/ Len(t.displayed) < limit
<1> DEFINE list == s.waiting
           n == Len(list)
           S == {}
           Alive(t, k) == Good(t, H, L) /\ Suffix(t.waiting, list, k) /\ Stay(t, S)
           Less(t) == Total(t) <= Total(s) /\ \A p \in Note : t.n[p].kind = s.n[p].kind
           Rest(o, k) == \E j \in (k + 1)..n : o = list[j]
           Full(t, k) ==
             \/ Len(t.displayed) >= limit
             \/ \A o \in Elems(t.waiting) : ~is_ready(s, st, o, FALSE) \/ Rest(o, k)
           Even(t, k) ==
             \/ Total(t) = Total(s)
             \/ Len(t.displayed) < limit /\ \A j \in (k + 1)..n : suppressed(s, st, list[j])
           Kept(t, k) == /\ Alive(t, k) /\ Less(t)
                         /\ Sound => Full(t, k)
                         /\ Orderly(s, st) => Even(t, k)
           I == [k \in 0..n |-> {t \in Memory : Kept(t, k)}]
<1>1. list \in Seq(Note) /\ n \in Nat /\ s \in Memory /\ Elems(list) = {list[k] : k \in 1..n}
  BY MemoryIs, ElemsOf DEF Good
<1>2. s \in I[0]
  <2>1. Total(s) <= Total(s)
    BY <1>1, LengthsAre
  <2>2. Suffix(s.waiting, list, 0) /\ Stay(s, S)
    BY <1>1, SuffixWhole DEF Stay
  <2>3. Full(s, 0)
    <3>1. \A o \in Elems(list) : \E j \in (0 + 1)..n : o = list[j]
      BY <1>1
    <3> QED
      BY <3>1
  <2>4. Kept(s, 0)
    BY <2>1, <2>2, <2>3
  <2> HIDE DEF Kept
  <2> QED
    BY <1>1, <2>4
<1>3. ASSUME NEW k \in 1..n, NEW t \in I[k - 1]
      PROVE  shown_if_ready(t, st, limit, list[k]) \in I[k]
  <2> DEFINE r == shown_if_ready(t, st, limit, list[k])
             o == list[k]
  <2>1. k \in 0..n /\ k - 1 \in 0..n /\ (k - 1) + 1 = k
    BY <1>1
  <2>2. Kept(t, k - 1) /\ t \in Memory
    <3> HIDE DEF Kept
    <3> QED
      BY <2>1
  <2>3. Alive(r, k)
    BY <1>1, <2>2, ShownIfReady
  <2>4. o \in Elems(t.waiting) /\ o \in Note /\ o \in Elems(list)
    BY <1>1, <2>2, MemoryIs, SuffixNext, SMTT(30)
  <2>5. /\ Total(r) <= Total(t) /\ Elems(r.waiting) \subseteq Elems(t.waiting)
        /\ \A p \in Note : r.n[p].kind = t.n[p].kind
        /\ Len(t.displayed) >= limit => r = t
        /\ Len(t.displayed) < limit /\ suppressed(t, st, o) => Len(r.displayed) < limit
        /\ Len(t.displayed) < limit /\ Sound =>
              o \notin Elems(r.waiting) \/ ~is_ready(t, st, o, FALSE)
        /\ \/ Total(r) = Total(t)
           \/ /\ Len(r.displayed) < limit
              /\ suppressed(t, st, o) \/ t.n[o].kind.skip
    <3>1. Good(t, H, L)
      BY <2>2
    <3>2. PICK p \in Elems(t.waiting) : p = list[k]
      BY <2>4
    <3> DEFINE u == shown_if_ready(t, st, limit, p)
    <3>3. /\ Total(u) <= Total(t) /\ Elems(u.waiting) \subseteq Elems(t.waiting)
          /\ \A x \in Note : u.n[x].kind = t.n[x].kind
          /\ Len(t.displayed) >= limit => u = t
          /\ Len(t.displayed) < limit /\ suppressed(t, st, p) => Len(u.displayed) < limit
          /\ Len(t.displayed) < limit /\ Sound =>
                p \notin Elems(u.waiting) \/ ~is_ready(t, st, p, FALSE)
          /\ \/ Total(u) = Total(t)
             \/ /\ Len(u.displayed) < limit
                /\ suppressed(t, st, p) \/ t.n[p].kind.skip
      BY <3>1, VisitFills
    <3>4. u = r
      BY <3>2
    <3> HIDE DEF u, r
    <3> QED
      BY <3>2, <3>3, <3>4
  <2>6. t.n[o].kind = s.n[o].kind
    BY <2>2, <2>4
  <2>7. /\ is_ready(t, st, o, FALSE) <=> is_ready(s, st, o, FALSE)
        /\ suppressed(t, st, o) <=> suppressed(s, st, o)
    BY <2>6, KindDecides
  <2>8. r \in Memory
    BY <2>3 DEF Good
  <2>9. Less(r)
    <3>1. PICK a, b \in Nat : Total(r) = a + b
      BY <2>8, LengthsAre
    <3>2. PICK c, d \in Nat : Total(t) = c + d
      BY <2>2, LengthsAre
    <3>3. PICK e, f \in Nat : Total(s) = e + f
      BY <1>1, LengthsAre
    <3>4. a + b <= c + d /\ c + d <= e + f
      BY <2>2, <2>5, <3>1, <3>2, <3>3
    <3>5. Total(r) <= Total(s)
      BY <3>1, <3>3, <3>4
    <3> HIDE DEF r
    <3> QED
      BY <2>2, <2>5, <3>5
  <2>10. PICK l \in Nat : Len(t.displayed) = l
    BY <2>2, LengthsAre
  <2> HIDE DEF r
  <2>11. ASSUME Sound PROVE Full(r, k)
    <3>1. CASE l >= limit
      BY <2>5, <2>10, <3>1
    <3>2. CASE l < limit
      <4>1. \A p \in Elems(t.waiting) : ~is_ready(s, st, p, FALSE) \/ Rest(p, k - 1)
        <5>1. ~(Len(t.displayed) >= limit)
          BY <2>10, <3>2
        <5>2. Full(t, k - 1)
          BY <2>2, <2>11
        <5> HIDE DEF Rest
        <5> QED
          BY <5>1, <5>2
      <4>2. ASSUME NEW p, Rest(p, k - 1) PROVE p = o \/ Rest(p, k)
        <5>1. PICK j \in ((k - 1) + 1)..n : p = list[j]
          BY <4>2
        <5>2. j = k \/ j \in (k + 1)..n
          BY <1>1
        <5> QED
          BY <5>1, <5>2
      <4>3. o \notin Elems(r.waiting) \/ ~is_ready(s, st, o, FALSE)
        BY <2>5, <2>7, <2>10, <2>11, <3>2
      <4> HIDE DEF Rest, o
      <4> QED
        BY <2>5, <4>1, <4>2, <4>3
    <3>3. l >= limit \/ l < limit
      BY <2>10
    <3> HIDE DEF Full
    <3> QED
      BY <3>1, <3>2, <3>3
  <2>12. ASSUME Orderly(s, st) PROVE Even(r, k)
    <3>1. Even(t, k - 1) /\ ~s.n[o].kind.skip
      BY <2>2, <2>4, <2>12 DEF Orderly
    <3>2. CASE Total(r) = Total(t) /\ Total(t) = Total(s)
      BY <3>2
    <3>3. CASE Len(r.displayed) < limit /\ suppressed(s, st, o)
      <4>1. ASSUME NEW j \in (k + 1)..n PROVE suppressed(s, st, list[j])
        <5>1. j \in 1..n /\ k < j
          BY <1>1
        <5> QED
          BY <2>12, <3>3, <5>1 DEF Orderly
      <4> QED
        BY <3>3, <4>1
    <3>4. CASE Len(t.displayed) < limit /\ \A j \in ((k - 1) + 1)..n : suppressed(s, st, list[j])
      <4>1. suppressed(s, st, o) /\ Len(t.displayed) < limit
        BY <1>1, <3>4
      <4>2. Len(r.displayed) < limit
        BY <2>5, <2>7, <4>1
      <4> HIDE DEF Even, o
      <4> QED
        BY <3>3, <4>1, <4>2
    <3>5. Total(r) = Total(t) \/ (Len(r.displayed) < limit /\ suppressed(s, st, o))
      <4>1. ~t.n[o].kind.skip
        BY <2>6, <3>1
      <4> QED
        BY <2>5, <2>7, <4>1
    <3> HIDE DEF o
    <3> QED
      BY <3>1, <3>2, <3>3, <3>4, <3>5
  <2>13. Kept(r, k)
    BY <2>3, <2>9, <2>11, <2>12
  <2> HIDE DEF Kept
  <2>14. r \in I[k]
    BY <2>1, <2>8, <2>13
  <2> QED
    BY <2>14 DEF r
<1>4. show_waiting(s, st, limit) \in I[n]
  <2> HIDE DEF I
  <2> QED
    BY <1>1, <1>2, <1>3, ShowWaitingIs
<1> DEFINE b == show_waiting(s, st, limit)
<1>5. Kept(b, n)
  <2>1. n \in 0..n
    BY <1>1
  <2> HIDE DEF Kept
  <2> QED
    BY <1>4, <2>1
<1> HIDE DEF b
<1>6. (n + 1)..n = {}
  BY <1>1
<1>7. ASSUME Sound PROVE Filled(b, st, limit)
  <2>1. Full(b, n)
    BY <1>5, <1>7
  <2>2. CASE Len(b.displayed) >= limit
    BY <2>2 DEF Filled
  <2>3. CASE \A o \in Elems(b.waiting) : ~is_ready(s, st, o, FALSE) \/ Rest(o, n)
    <3>1. \A o \in Elems(b.waiting) : o \in Note
      BY <1>5, MemoryIs DEF Good, Held
    <3>2. \A o \in Elems(b.waiting) : ~is_ready(s, st, o, FALSE)
      BY <1>6, <2>3
    <3>3. \A o \in Elems(b.waiting) : b.n[o].kind = s.n[o].kind
      BY <1>5, <3>1
    <3>4. \A o \in Elems(b.waiting) : ~is_ready(b, st, o, FALSE)
      BY <3>2, <3>3, KindDecides
    <3> QED
      BY <3>4 DEF Filled
  <2> QED
    BY <2>1, <2>2, <2>3
<1>8. ASSUME Orderly(s, st) PROVE Total(b) = Total(s) \/ Len(b.displayed) < limit
  BY <1>5, <1>8
<1>9. Total(b) <= Total(s)
  BY <1>5
<1> QED
  BY <1>7, <1>8, <1>9 DEF b

(* A queue has as many elements as places, and no more than there are      *)
(* notifications in memory.                                                *)
LEMMA LengthCounts ==
    ASSUME NEW list \in Seq(Note), Distinct(list)
    PROVE  /\ IsFiniteSet(Note)
           /\ Cardinality(Elems(list)) = Len(list) /\ Len(list) <= MaxNotes
<1> DEFINE n == Len(list)
           S == Elems(list)
<1>1. S = {list[k] : k \in 1..n} /\ S \subseteq Note /\ n \in Nat /\ list \in [1..n -> Note]
  BY ElemsOf
<1>2. MaxNotes \in Nat
  BY DunstAssumption
<1>3. IsFiniteSet(Note) /\ Cardinality(Note) = MaxNotes
  BY <1>2, FS_Interval DEF Note
<1>4. IsFiniteSet(1..n) /\ Cardinality(1..n) = n
  <2>1. PICK m \in Nat : m = n
    BY <1>1
  <2>2. IsFiniteSet(1..m) /\ Cardinality(1..m) = IF 1 > m THEN 0 ELSE m - 1 + 1
    BY FS_Interval
  <2>3. Cardinality(1..m) = m
    BY <2>2
  <2> QED
    BY <2>1, <2>2, <2>3
<1>5. list \in Bijection(1..n, S)
  <2>1. list \in [1..n -> S]
    BY <1>1
  <2>2. IsInjective(list)
    BY <1>1 DEF Distinct, IsInjective
  <2> HIDE DEF S, n
  <2>3. \A o \in S : \E k \in 1..n : list[k] = o
    BY <1>1
  <2> QED
    BY <2>1, <2>2, <2>3 DEF Bijection, Injection, Surjection
<1> HIDE DEF S, n
<1>6. ExistsBijection(1..n, S)
  BY <1>5 DEF ExistsBijection
<1>7. Cardinality(S) = n
  BY <1>4, <1>6, FS_Bijection
<1>8. Cardinality(S) <= MaxNotes
  BY <1>1, <1>3, FS_Subset
<1> QED
  BY <1>3, <1>7, <1>8 DEF S, n

(* None waits, except those of X, that is more urgent than one that is     *)
(* displayed.                                                              *)
ServedBut(s, X) ==
    \A o \in Elems(s.waiting) \ X, p \in Elems(s.displayed) :
        s.n[o].kind.urgency <= s.n[p].kind.urgency

Served(s) == ServedBut(s, {})

(* When the first that waits takes the place of the last displayed, it is  *)
(* served, and the other one need not be.                                  *)
LEMMA SwapServes ==
    ASSUME NEW s, NEW H, NEW L, Good(s, H, L), Graded, NEW st, ~Stuck(s, st),
           NEW X, ServedBut(s, X), NEW t, Swapped(s, t), t.n = s.n
    PROVE  IF Head(s.waiting) \in X THEN ServedBut(t, X \ {Head(s.waiting)}) ELSE Served(t)
<1> DEFINE first == Head(s.waiting)
           last == Last(s.displayed)
           W == Elems(s.waiting)
           D == Elems(s.displayed)
           u == [o \in Note |-> s.n[o].kind.urgency]
<1>1. /\ s \in Memory /\ s.waiting \in Seq(Note) /\ s.displayed \in Seq(Note)
      /\ Falling(s.n, s.waiting) /\ Falling(s.n, s.displayed)
      /\ s.waiting # <<>> /\ s.displayed # <<>>
  BY MemoryIs DEF Good, Ordered, Stuck
<1>2. W \subseteq Note /\ D \subseteq Note /\ first \in W /\ last \in D
  BY <1>1, ElemsOf, HeadElems, LastElems
<1>3. \A o \in Note : s.n[o].kind.urgency \in Nat
  BY <1>1, NoteIs
<1>4. /\ u \in [Note -> Nat]
      /\ \A o \in Note : t.n[o].kind.urgency = u[o] /\ s.n[o].kind.urgency = u[o]
  BY <1>3
<1>5. /\ \A o \in W : s.n[o].kind.urgency <= s.n[first].kind.urgency
      /\ \A o \in D : s.n[last].kind.urgency <= s.n[o].kind.urgency
  BY <1>1, FallingEnds
<1>6. s.n[first].kind.urgency >= s.n[last].kind.urgency
  <2>1. ComesBefore(s, first, last)
    BY DEF Stuck
  <2> QED
    BY <1>2, <1>3, <2>1 DEF ComesBefore
<1> HIDE DEF first, last, W, D, u
<1>7. (\A o \in W : u[o] <= u[first]) /\ (\A o \in D : u[last] <= u[o]) /\ u[last] <= u[first]
  BY <1>2, <1>3, <1>4, <1>5, <1>6
<1>8. \A o \in W \ X, p \in D : u[o] <= u[p]
  BY <1>2, <1>4 DEF ServedBut, W, D
<1>9. /\ Elems(t.displayed) = (D \ {last}) \cup {first}
      /\ Elems(t.waiting) = (W \ {first}) \cup {last}
  BY DEF Swapped, first, last, W, D
<1>10. CASE first \in X
  <2>1. ASSUME NEW o \in Elems(t.waiting) \ (X \ {first}), NEW p \in Elems(t.displayed)
        PROVE  u[o] <= u[p]
    <3>1. (o = last \/ o \in W \ X) /\ (p = first \/ p \in D)
      BY <1>9
    <3>2. /\ u[o] \in Nat /\ u[p] \in Nat
      BY <1>2, <1>4, <3>1
    <3> QED
      BY <1>2, <1>7, <1>8, <3>1, <3>2
  <2>2. \A o \in Elems(t.waiting), p \in Elems(t.displayed) : o \in Note /\ p \in Note
    BY <1>2, <1>9
  <2> QED
    BY <1>4, <1>10, <2>1, <2>2 DEF ServedBut, first
<1>11. CASE first \notin X
  <2>1. u[first] <= u[last]
    BY <1>2, <1>8, <1>11
  <2>2. ASSUME NEW o \in Elems(t.waiting), NEW p \in Elems(t.displayed)
        PROVE  u[o] <= u[p]
    <3>1. (o = last \/ o \in W) /\ (p = first \/ p \in D)
      BY <1>9
    <3>2. u[o] \in Nat /\ u[p] \in Nat /\ u[first] \in Nat /\ u[last] \in Nat
      BY <1>2, <1>4, <3>1
    <3>3. u[o] <= u[last] /\ u[last] <= u[p]
      BY <1>2, <1>4, <1>7, <2>1, <3>1, <3>2
    <3> QED
      BY <3>2, <3>3
  <2>3. \A o \in Elems(t.waiting), p \in Elems(t.displayed) : o \in Note /\ p \in Note
    BY <1>2, <1>9
  <2> QED
    BY <1>4, <1>11, <2>2, <2>3 DEF Served, ServedBut, first
<1> QED
  BY <1>10, <1>11

(* The last loop: of those that waited, each one has been served, or       *)
(* nothing more could change places.                                       *)
LEMMA SeepServes ==
    ASSUME NEW s, NEW H, NEW L, Good(s, H, L), Graded, NEW st
    PROVE  LET t == seep(s, st, Len(s.displayed)) IN Served(t) \/ Stuck(t, st)
<1> DEFINE n == Len(s.waiting)
           Left(t, k) == \E X \in SUBSET Note : ServedBut(t, X) /\ Cardinality(X) <= n - k
           Kept(t, k) == Good(t, H, L) /\ (Stuck(t, st) \/ Left(t, k))
           I == [k \in 0..n |-> {t \in Memory : Kept(t, k)}]
<1>1. /\ s.waiting \in Seq(Note) /\ n \in Nat /\ s \in Memory /\ Distinct(s.waiting)
      /\ Elems(s.waiting) \subseteq Note
  BY MemoryIs, LenProperties DEF Good, Apart, Held
<1>2. IsFiniteSet(Note) /\ Cardinality(Elems(s.waiting)) = n
  BY <1>1, LengthCounts
<1>3. s \in I[0]
  <2>1. ServedBut(s, Elems(s.waiting))
    BY DEF ServedBut
  <2>2. Cardinality(Elems(s.waiting)) <= n - 0
    BY <1>1, <1>2
  <2>3. Left(s, 0)
    BY <1>1, <2>1, <2>2
  <2>4. Kept(s, 0)
    BY <2>3
  <2> HIDE DEF Kept
  <2> QED
    BY <1>1, <2>4
<1>4. ASSUME NEW k \in 1..n, NEW t \in I[k - 1] PROVE swap_notifications(t, st) \in I[k]
  <2>1. k \in 0..n /\ k - 1 \in 0..n
    BY <1>1
  <2>2. Kept(t, k - 1)
    <3> HIDE DEF Kept
    <3> QED
      BY <2>1
  <2> DEFINE r == swap_notifications(t, st)
  <2>3. /\ Good(r, H, L) /\ Shuffled(t, r)
        /\ Len(r.displayed) = Len(t.displayed) /\ Len(r.waiting) = Len(t.waiting)
        /\ IF Stuck(t, st) THEN r = t ELSE Swapped(t, r)
    BY <2>2, SwapKeeps
  <2> HIDE DEF r
  <2>4. ASSUME Stuck(t, st) PROVE Stuck(r, st)
    BY <2>3, <2>4
  <2>5. ASSUME ~Stuck(t, st) PROVE Left(r, k)
    <3>1. PICK X \in SUBSET Note : ServedBut(t, X) /\ Cardinality(X) <= n - (k - 1)
      BY <2>2, <2>5
    <3>2. IsFiniteSet(X) /\ Cardinality(X) \in Nat
      BY <1>2, FS_Subset, FS_CardinalityType
    <3>3. r.n = t.n /\ Swapped(t, r)
      BY <2>3, <2>5 DEF Shuffled
    <3>4. IF Head(t.waiting) \in X THEN ServedBut(r, X \ {Head(t.waiting)}) ELSE Served(r)
      <4>1. Good(t, H, L)
        BY <2>2
      <4> QED
        BY <2>5, <3>1, <3>3, <4>1, SwapServes
    <3>5. CASE Head(t.waiting) \in X
      <4>1. PICK Y \in SUBSET Note : Y = X \ {Head(t.waiting)}
        OBVIOUS
      <4>2. Cardinality(Y) = Cardinality(X) - 1
        BY <3>2, <3>5, <4>1, FS_RemoveElement, ZenonT(60)
      <4>3. Cardinality(Y) <= n - k
        <5>1. PICK c \in Nat, m \in Nat : c = Cardinality(X) /\ m = n
          BY <1>1, <3>2
        <5> QED
          BY <3>1, <4>2, <5>1
      <4>4. ServedBut(r, Y)
        BY <3>4, <3>5, <4>1
      <4> QED
        BY <4>3, <4>4
    <3>6. CASE Head(t.waiting) \notin X
      <4>1. Cardinality({}) <= n - k
        BY <1>1, FS_EmptySet
      <4>2. ServedBut(r, {})
        BY <3>4, <3>6 DEF Served
      <4> QED
        BY <4>1, <4>2
    <3> QED
      BY <3>5, <3>6
  <2>6. Kept(r, k)
    <3>1. Stuck(r, st) \/ Left(r, k)
      BY <2>4, <2>5
    <3> QED
      BY <2>3, <3>1
  <2>7. r \in Memory
    BY <2>3 DEF Good
  <2> HIDE DEF Kept
  <2>8. r \in I[k]
    BY <2>1, <2>6, <2>7
  <2> QED
    BY <2>8 DEF r
<1>5. seep(s, st, Len(s.displayed)) \in I[n]
  <2> HIDE DEF I
  <2> QED
    BY <1>1, <1>3, <1>4, SeepIs
<1> DEFINE t == seep(s, st, Len(s.displayed))
<1>6. Kept(t, n)
  <2>1. n \in 0..n
    BY <1>1
  <2> HIDE DEF Kept
  <2> QED
    BY <1>5, <2>1
<1> HIDE DEF t
<1>7. ASSUME NEW X \in SUBSET Note, ServedBut(t, X), Cardinality(X) <= n - n PROVE Served(t)
  <2>1. IsFiniteSet(X) /\ Cardinality(X) \in Nat
    BY <1>2, FS_Subset, FS_CardinalityType
  <2>2. n - n = 0
    BY <1>1
  <2>3. Cardinality(X) = 0
    BY <1>7, <2>1, <2>2
  <2>4. X = {}
    BY <2>1, <2>3, FS_EmptySet
  <2> QED
    BY <1>7, <2>4 DEF Served
<1> QED
  BY <1>6, <1>7 DEF t

(* The two parts of LimitHolds. *)
LinesFit(s) == Limit > 0 => Lines(Len(s.displayed), Len(s.waiting)) <= Limit

RoomUsed(s, st) ==
    Limit = 0 \/ Lines(Len(s.displayed) + 1, Len(s.waiting) - 1) <= Limit =>
        \A o \in Elems(s.waiting) : ~is_ready(s, st, o, FALSE)

(* The room that is lost to the line for the hidden ones is not found free *)
(* afterwards: what goes in the second loop only goes when all that could  *)
(* be shown is.                                                            *)
Steady ==
    /\ Sound
    /\ IndicateHidden /\ Limit > 1 =>
          /\ \A kind \in Kinds : ~kind.skip
          /\ \/ \A use \in Uses : "fullscreen" \notin use
             \/ \A kind \in Kinds : kind.fullscreen # "suppress"
             \/ /\ Graded
                /\ \A a, b \in Kinds : a.fullscreen = "suppress" /\ b.fullscreen # "suppress" =>
                      a.urgency < b.urgency

(* What every update leaves behind. *)
Settled(s, st) ==
    /\ LinesFit(s)
    /\ Steady => RoomUsed(s, st)
    /\ Graded /\ Sound =>
          ((\A o \in Elems(s.waiting) : is_ready(s, st, o, FALSE)) => Served(s))

(* What is suppressed comes last if it is the least urgent. *)
LEMMA SteadyOrderly ==
    ASSUME NEW s, NEW H, NEW L, Good(s, H, L), NEW st, st.full \in FullscreenNow, uses \in Uses,
           Steady, IndicateHidden, Limit > 1
    PROVE  Orderly(s, st)
<1>1. /\ s.waiting \in Seq(Note) /\ Elems(s.waiting) = {s.waiting[k] : k \in 1..Len(s.waiting)}
      /\ Elems(s.waiting) \subseteq Note /\ s \in Memory
  BY MemoryIs, ElemsOf DEF Good
<1>2. \A o \in Elems(s.waiting) : s.n[o].kind \in Kinds
  BY DEF Good, Known, Held
<1>3. \A o \in Elems(s.waiting) : ~s.n[o].kind.skip
  BY <1>2 DEF Steady
<1>4. ASSUME NEW i \in 1..Len(s.waiting), NEW j \in 1..Len(s.waiting), i < j,
             suppressed(s, st, s.waiting[i])
      PROVE  suppressed(s, st, s.waiting[j])
  <2> DEFINE o == s.waiting[i]
             p == s.waiting[j]
  <2>1. /\ o \in Elems(s.waiting) /\ p \in Elems(s.waiting)
        /\ s.n[o].kind \in Kinds /\ s.n[p].kind \in Kinds
    BY <1>1, <1>2
  <2>2. st.full /\ s.n[o].kind.fullscreen = "suppress"
    BY <1>4 DEF suppressed
  <2>3. "fullscreen" \in uses
    BY <2>2 DEF FullscreenNow
  <2>4. /\ Graded
        /\ \A a, b \in Kinds : a.fullscreen = "suppress" /\ b.fullscreen # "suppress" =>
              a.urgency < b.urgency
    BY <2>1, <2>2, <2>3 DEF Steady
  <2>5. s.n[p].kind.urgency <= s.n[o].kind.urgency
    BY <1>4, <2>4 DEF Good, Ordered, Falling
  <2>6. s.n[p].kind.urgency \in Nat /\ s.n[o].kind.urgency \in Nat
    BY <1>1, <2>1, NoteIs
  <2> HIDE DEF o, p
  <2>7. s.n[p].kind.fullscreen = "suppress"
    BY <2>1, <2>2, <2>4, <2>5, <2>6
  <2> QED
    BY <2>2, <2>7 DEF suppressed, p
<1> QED
  BY <1>3, <1>4 DEF Orderly

(* An update fits the limit, uses the room there is, and serves the urgent *)
(* ones first.                                                             *)
LEMMA UpdateSettles ==
    ASSUME NEW s, NEW H, NEW L, Good(s, H, L), NEW st, st.full \in FullscreenNow, uses \in Uses
    PROVE  Settled(queues_update(s, st), st)
<1> DEFINE a == move_back(s, st)
           limit == displayed_limit(a)
           b == show_waiting(a, st, limit)
           c == push_back(b, limit)
           d == seep(c, st, limit)
           S == {}
           Busy == \A o \in Elems(d.waiting) : ~is_ready(d, st, o, FALSE)
<1>1. Good(a, H, L) /\ a \in Memory
  <2>1. Stay(s, S)
    BY DEF Stay
  <2> QED
    BY <2>1, MoveBackKeeps DEF Good
<1>2. limit \in Nat
  BY LimitIs
<1>3. PICK ad, aw \in Nat : Len(a.displayed) = ad /\ Len(a.waiting) = aw /\ Total(a) = ad + aw
  BY <1>1, LengthsAre
<1>4. limit = IF Limit = 0 THEN MaxNotes + 1
              ELSE IF IndicateHidden /\ Limit > 1 /\ ad + aw > Limit THEN Limit - 1 ELSE Limit
  BY <1>3 DEF displayed_limit
<1> HIDE DEF a, limit
<1>5. /\ Good(b, H, L) /\ b \in Memory
      /\ Total(b) <= Total(a)
      /\ Sound => Filled(b, st, limit)
      /\ Orderly(a, st) => Total(b) = Total(a) \/ Len(b.displayed) < limit
  <2>1. Stay(a, S)
    BY DEF Stay
  <2> QED
    BY <1>1, <1>2, <2>1, ShowWaitingKeeps, ShowWaitingFills DEF Good
<1>6. PICK bd, bw \in Nat : Len(b.displayed) = bd /\ Len(b.waiting) = bw /\ Total(b) = bd + bw
  BY <1>5, LengthsAre
<1> HIDE DEF b
<1>7. /\ Good(c, H, L) /\ Shuffled(b, c)
      /\ IF Len(b.displayed) <= limit THEN c = b
         ELSE /\ Len(c.displayed) = limit
              /\ Len(c.waiting) = Len(b.waiting) + (Len(b.displayed) - limit)
  BY <1>2, <1>5, PushBackKeeps
<1> HIDE DEF c
<1>8. /\ Good(d, H, L) /\ d \in Memory
      /\ Len(d.displayed) = Len(c.displayed) /\ Len(d.waiting) = Len(c.waiting)
      /\ Len(c.displayed) # limit => d = c
  <2>1. /\ Good(d, H, L) /\ Shuffled(c, d)
        /\ Len(d.displayed) = Len(c.displayed) /\ Len(d.waiting) = Len(c.waiting)
    BY <1>7, SeepKeeps
  <2>2. Len(c.displayed) # limit => d = c
    BY DEF seep
  <2> QED
    BY <2>1, <2>2 DEF Good
<1>9. queues_update(s, st) = d
  BY DEF queues_update, let_in, fill, a, b, c, d, limit
<1>10. Len(c.displayed) = limit /\ Graded => Served(d) \/ Stuck(d, st)
  BY <1>7, SeepServes
<1> HIDE DEF d
<1>11. PICK dd, dw \in Nat : Len(d.displayed) = dd /\ Len(d.waiting) = dw
  BY <1>8, LengthsAre
<1>12. /\ dd <= limit /\ dd + dw = bd + bw
       /\ dd < limit => d = b
       /\ bd <= limit => dd = bd
  <2>1. CASE bd <= limit
    <3>1. c = b /\ dd = bd /\ dw = bw
      BY <1>6, <1>7, <1>8, <1>11, <2>1
    <3> QED
      BY <1>2, <1>6, <1>8, <2>1, <3>1
  <2>2. CASE bd > limit
    <3>1. ~(bd <= limit)
      BY <1>2, <2>2
    <3>2. dd = limit /\ dw = bw + (bd - limit)
      BY <1>6, <1>7, <1>8, <1>11, <3>1
    <3> QED
      BY <1>2, <3>1, <3>2
  <2> QED
    BY <1>2, <2>1, <2>2
<1>13. ASSUME Sound, dd < limit PROVE Busy
  <2>1. d = b /\ ~(Len(b.displayed) >= limit)
    BY <1>2, <1>11, <1>12, <1>13
  <2> QED
    BY <1>5, <1>13, <2>1 DEF Filled
<1>14. /\ MaxNotes \in Nat /\ Limit \in Nat
       /\ dd <= MaxNotes
  <2>1. d.displayed \in Seq(Note) /\ Distinct(d.displayed)
    BY <1>8, MemoryIs DEF Good, Apart
  <2>2. Len(d.displayed) <= MaxNotes
    BY <2>1, LengthCounts
  <2> QED
    BY <1>11, <2>2, DunstAssumption
<1>15. bd + bw <= ad + aw
  BY <1>3, <1>5, <1>6
<1>16. LinesFit(d)
  <2>1. ASSUME Limit > 0 PROVE Lines(dd, dw) <= Limit
    <3>1. CASE ~(IndicateHidden /\ Limit > 1)
      <4>1. Lines(dd, dw) = dd + 0 /\ limit = Limit
        BY <1>4, <1>14, <2>1, <3>1 DEF Lines
      <4> QED
        BY <1>12, <4>1
    <3>2. CASE IndicateHidden /\ Limit > 1 /\ ad + aw > Limit
      <4>1. limit = Limit - 1 /\ (Lines(dd, dw) = dd + 1 \/ Lines(dd, dw) = dd + 0)
        BY <1>4, <1>14, <2>1, <3>2 DEF Lines
      <4> QED
        BY <1>12, <1>14, <4>1
    <3>3. CASE IndicateHidden /\ Limit > 1 /\ ~(ad + aw > Limit)
      <4>1. \/ dw > 0 /\ Lines(dd, dw) = dd + 1
            \/ Lines(dd, dw) = dd + 0
        BY DEF Lines
      <4>2. dd + dw <= Limit
        BY <1>12, <1>14, <1>15, <3>3
      <4> QED
        BY <1>14, <4>1, <4>2
    <3> QED
      BY <3>1, <3>2, <3>3
  <2> QED
    BY <1>11, <2>1 DEF LinesFit
<1>17. ASSUME Steady, Limit = 0 \/ Lines(dd + 1, dw - 1) <= Limit PROVE Busy
  <2>1. Sound
    BY <1>17 DEF Steady
  <2>2. CASE Limit = 0
    <3>1. dd < limit
      BY <1>4, <1>14, <2>2
    <3> QED
      BY <1>13, <2>1, <3>1
  <2>3. CASE Limit # 0 /\ limit = Limit
    <3>1. dd + 1 <= Limit
      <4>1. Lines(dd + 1, dw - 1) = dd + 1 + 1 \/ Lines(dd + 1, dw - 1) = dd + 1 + 0
        BY DEF Lines
      <4> QED
        BY <1>14, <1>17, <2>3, <4>1
    <3>2. dd < limit
      BY <1>14, <2>3, <3>1
    <3> QED
      BY <1>13, <2>1, <3>2
  <2>4. CASE Limit # 0 /\ limit # Limit
    <3>1. IndicateHidden /\ Limit > 1 /\ ad + aw > Limit /\ limit = Limit - 1
      BY <1>4, <2>4
    <3>2. Orderly(a, st)
      BY <1>1, <1>17, <3>1, SteadyOrderly
    <3>3. bd + bw = ad + aw \/ bd < limit
      BY <1>3, <1>5, <1>6, <3>2
    <3>4. CASE dd < limit
      BY <1>13, <2>1, <3>4
    <3>5. CASE dd = limit /\ dw = 0
      <4>1. d.waiting = <<>>
        BY <1>8, <1>11, <3>5, MemoryIs, EmptySeq
      <4> QED
        BY <4>1 DEF Elems
    <3>6. CASE dd = limit /\ dw > 0
      <4>1. \/ dw - 1 > 0 /\ Lines(dd + 1, dw - 1) = dd + 1 + 1
            \/ ~(dw - 1 > 0)
        BY <3>1 DEF Lines
      <4>2. dw = 1
        BY <1>14, <1>17, <2>4, <3>1, <3>6, <4>1
      <4>3. bd + bw = Limit
        BY <1>12, <1>14, <3>1, <3>6, <4>2
      <4>4. bd < limit
        BY <1>14, <3>1, <3>3, <4>3
      <4> QED
        BY <1>2, <1>12, <3>6, <4>4
    <3>7. dd < limit \/ (dd = limit /\ dw = 0) \/ (dd = limit /\ dw > 0)
      BY <1>2, <1>12
    <3> QED
      BY ONLY <3>4, <3>5, <3>6, <3>7
  <2> QED
    BY <2>2, <2>3, <2>4
<1>18. Steady => RoomUsed(d, st)
  BY <1>11, <1>17 DEF RoomUsed
<1>19. ASSUME Graded, Sound, \A o \in Elems(d.waiting) : is_ready(d, st, o, FALSE) PROVE Served(d)
  <2>1. CASE dd < limit
    <3>1. Elems(d.waiting) = {}
      BY <1>13, <1>19, <2>1
    <3> QED
      BY <3>1 DEF Served, ServedBut
  <2>2. CASE Stuck(d, st)
    <3>1. /\ d.waiting \in Seq(Note) /\ d.displayed \in Seq(Note)
          /\ Falling(d.n, d.waiting) /\ Falling(d.n, d.displayed)
          /\ Elems(d.waiting) \subseteq Note /\ Elems(d.displayed) \subseteq Note
      BY <1>8, <1>19, MemoryIs, ElemsOf DEF Good, Ordered
    <3>2. CASE d.waiting = <<>> \/ d.displayed = <<>>
      BY <3>2 DEF Served, ServedBut, Elems
    <3>3. CASE d.waiting # <<>> /\ d.displayed # <<>>
      <4> DEFINE first == Head(d.waiting)
                 last == Last(d.displayed)
      <4>1. first \in Elems(d.waiting) /\ last \in Elems(d.displayed)
        BY <3>1, <3>3, HeadElems, LastElems
      <4>2. ~ComesBefore(d, first, last)
        BY <1>19, <2>2, <3>3, <4>1 DEF Stuck
      <4>3. /\ \A o \in Elems(d.waiting) : d.n[o].kind.urgency <= d.n[first].kind.urgency
            /\ \A o \in Elems(d.displayed) : d.n[last].kind.urgency <= d.n[o].kind.urgency
        BY <1>8, <3>1, <3>3, FallingEnds
      <4> HIDE DEF first, last
      <4>4. \A o \in Note : d.n[o].kind.urgency \in Nat
        BY <1>8, NoteIs
      <4>5. d.n[first].kind.urgency <= d.n[last].kind.urgency
        BY <3>1, <4>1, <4>2, <4>4 DEF ComesBefore
      <4>6. ASSUME NEW o \in Elems(d.waiting), NEW p \in Elems(d.displayed)
            PROVE  d.n[o].kind.urgency <= d.n[p].kind.urgency
        BY <3>1, <4>1, <4>3, <4>4, <4>5
      <4> QED
        BY <4>6 DEF Served, ServedBut
    <3> QED
      BY <3>2, <3>3
  <2> QED
    BY <1>2, <1>8, <1>10, <1>11, <1>12, <1>19, <2>1, <2>2
<1> QED
  BY <1>9, <1>16, <1>18, <1>19 DEF Settled

(* That is so as long as the queues and the kinds are the same. *)
LEMMA SettledSame ==
    ASSUME NEW s, NEW t, t.displayed = s.displayed, t.waiting = s.waiting,
           \A o \in Active(s) : t.n[o].kind = s.n[o].kind,
           NEW st, NEW su, su.paused = st.paused, su.full = st.full, Settled(s, st)
    PROVE  Settled(t, su)
<1>1. ASSUME NEW o \in Elems(s.waiting)
      PROVE  is_ready(t, su, o, FALSE) <=> is_ready(s, st, o, FALSE)
  BY DEF is_ready, Active
<1>2. LinesFit(t)
  BY DEF Settled, LinesFit
<1>3. Steady => RoomUsed(t, su)
  BY <1>1 DEF Settled, RoomUsed
<1>4. Served(s) => Served(t)
  BY DEF Served, ServedBut, Active
<1> QED
  BY <1>1, <1>2, <1>3, <1>4 DEF Settled

-----------------------------------------------------------------------------
(* The other functions that the handlers are built of.                     *)

(* b is the same notification as a, whether locked or not. *)
Alike(a, b) ==
    /\ b.id = a.id /\ b.kind = a.kind
    /\ b.valid <=> a.valid
    /\ b.redisplayed <=> a.redisplayed

(* s with other locks, or without what it does not hold. *)
Rewritten(s, m) == [s EXCEPT !.n = m]

(* It keeps what it held. *)
LEMMA RewrittenIs ==
    ASSUME NEW s, NEW H, NEW L, Good(s, H, L), NEW m \in [Note -> NoteRec], NEW M,
           \A o \in Held(s) : Alike(s.n[o], m[o]),
           \A o \in Note : m[o].locked => o \in M
    PROVE  LET t == Rewritten(s, m)
           IN  /\ Good(t, H, M) /\ t.n = m
               /\ t.displayed = s.displayed /\ t.waiting = s.waiting /\ t.history = s.history
<1> DEFINE t == Rewritten(s, m)
<1>1. s \in Memory /\ Apart(s) /\ Known(s)
  BY DEF Good
<1>2. /\ t \in Memory /\ t.displayed = s.displayed /\ t.waiting = s.waiting
      /\ t.history = s.history /\ t.n = m /\ t.next = s.next /\ t.open = s.open
  BY <1>1 DEF Memory, Rewritten
<1> HIDE DEF t
<1>3. Held(t) = Held(s)
  BY <1>2 DEF Held
<1>4. Apart(t)
  BY <1>1, <1>2 DEF Apart
<1>5. Known(t)
  BY <1>1, <1>2, <1>3 DEF Known, Alike
<1>6. ASSUME Tidy PROVE Paired(t)
  <2>1. Paired(s)
    BY <1>6 DEF Good
  <2>2. \A o, p \in Held(t) : t.n[o].id = t.n[p].id => o = p
    BY <1>2, <1>3, <2>1 DEF Paired, Alike
  <2>3. \A o \in Held(t) : t.n[o].valid =>
          /\ o \in Elems(t.displayed) \cup Elems(t.waiting)
          /\ ~t.n[o].redisplayed /\ t.n[o].id \in t.open
    BY <1>2, <1>3, <2>1 DEF Paired, Alike
  <2>4. \A id \in t.open : \E o \in Held(t) : t.n[o].valid /\ t.n[o].id = id
    BY <1>2, <1>3, <2>1 DEF Paired, Alike
  <2> QED
    BY <2>2, <2>3, <2>4 DEF Paired
<1>7. Held(t) \subseteq H /\ (HistoryLength > 0 => Len(t.history) <= HistoryLength)
  BY <1>2, <1>3 DEF Good
<1>8. Graded => Ordered(t)
  <2>1. \A o \in Elems(s.displayed) \cup Elems(s.waiting) : t.n[o].kind = s.n[o].kind
    BY <1>2 DEF Held, Alike
  <2> QED
    BY <1>1, <1>2, <2>1, OrderedSame DEF Good
<1>9. Good(t, H, M)
  BY <1>2, <1>4, <1>5, <1>6, <1>7, <1>8 DEF Good
<1> QED
  BY <1>2, <1>9 DEF t

(* NotificationCloseAll: each one in turn. *)
LEMMA CloseEachKeeps ==
    ASSUME NEW s, NEW H, NEW L, Good(s, H, L), NEW list \in Seq(Note)
    PROVE  Good(close_each(s, list), H, L)
<1> DEFINE I == [k \in 0..Len(list) |-> {t \in Memory : Good(t, H, L)}]
<1>1. Len(list) \in Nat /\ s \in Memory
  BY LenProperties DEF Good
<1>2. s \in I[0]
  BY <1>1
<1>3. ASSUME NEW k \in 1..Len(list), NEW t \in I[k - 1] PROVE close(t, list[k]) \in I[k]
  <2>1. k \in 0..Len(list) /\ k - 1 \in 0..Len(list)
    BY <1>1
  <2>2. Good(t, H, L)
    BY <2>1
  <2>3. Good(close(t, list[k]), H, L)
    BY <2>2, RemoveKeeps
  <2>4. close(t, list[k]) \in Memory
    BY <2>3 DEF Good
  <2> QED
    BY <2>1, <2>3, <2>4
<1>4. close_each(s, list) \in I[Len(list)]
  <2> HIDE DEF I
  <2> QED
    BY <1>1, <1>2, <1>3, CloseEachIs
<1> QED
  BY <1>1, <1>4

(* It empties displayed, then waiting. *)
LEMMA HistoryPushAllKeeps ==
    ASSUME NEW s, NEW H, NEW L, Good(s, H, L)
    PROVE  Good(history_push_all(s), H, L)
<1> DEFINE d == close_each(s, s.displayed)
<1>1. s.displayed \in Seq(Note)
  BY MemoryIs DEF Good
<1>2. Good(d, H, L)
  BY <1>1, CloseEachKeeps
<1> HIDE DEF d
<1>3. d.waiting \in Seq(Note)
  BY <1>2, MemoryIs DEF Good
<1>4. Good(close_each(d, d.waiting), H, L)
  BY <1>2, <1>3, CloseEachKeeps
<1> QED
  BY <1>4 DEF history_push_all, d

(* The answer of dmenu unlocks a notification of the menu. *)
LEMMA DispatchKeeps ==
    ASSUME NEW s, NEW H, NEW L, Good(s, H, L), NEW o \in Note, NEW chosen
    PROVE  Good(dispatch(s, o, chosen), H, L \ {o})
<1> DEFINE t == IF s.n[o].closure /\ chosen THEN close(s, o) ELSE s
           r == [t.n[o] EXCEPT !.closure = FALSE, !.locked = FALSE]
           m == [t.n EXCEPT ![o] = r]
           u == [t EXCEPT !.n[o].closure = FALSE, !.n[o].locked = FALSE]
           v == [remove(u, o) EXCEPT !.n[o].removal = FALSE]
<1>1. dispatch(s, o, chosen) = IF u.n[o].removal THEN v ELSE u
  BY DEF dispatch
<1>2. Good(t, H, L)
  BY RemoveKeeps
<1> HIDE DEF t
<1>3. t \in Memory /\ t.n \in [Note -> NoteRec] /\ Held(t) \subseteq Note
  BY <1>2, MemoryIs DEF Good
<1>4. u = Rewritten(t, m)
  <2>1. t.n \in [Note -> NoteRec]
    BY <1>3
  <2> QED
    BY <1>3 DEF Memory, NoteRec, Rewritten
<1>5. r \in NoteRec /\ ~r.locked /\ Alike(t.n[o], r)
  <2>1. t.n[o] \in NoteRec
    BY <1>3
  <2> QED
    BY <2>1 DEF NoteRec, Alike
<1> HIDE DEF r
<1>6. m \in [Note -> NoteRec] /\ m[o] = r /\ \A p \in Note : p # o => m[p] = t.n[p]
  BY <1>3, <1>5
<1> HIDE DEF m
<1>7. \A p \in Held(t) : Alike(t.n[p], m[p])
  BY <1>3, <1>5, <1>6 DEF Alike
<1>8. \A p \in Note : m[p].locked => p \in L \ {o}
  BY <1>2, <1>5, <1>6 DEF Good
<1>9. Good(Rewritten(t, m), H, L \ {o})
  BY <1>2, <1>6, <1>7, <1>8, RewrittenIs
<1> HIDE DEF u
<1>10. Good(u, H, L \ {o})
  BY <1>4, <1>9
<1>11. Good(remove(u, o), H, L \ {o})
  BY <1>10, RemoveKeeps
<1>12. Good(v, H, L \ {o})
  BY <1>11, Unmarked
<1> HIDE DEF v
<1> QED
  BY <1>1, <1>10, <1>12

(* What the menu has locked is unlocked, if its mark is read. *)
LEMMA DispatchAllKeeps ==
    ASSUME NEW s, NEW H, NEW L, Good(s, H, L), NEW list \in Seq(Note), NEW seen, NEW chosen
    PROVE  Good(dispatch_all(s, list, seen, chosen), H, L \ (Elems(list) \cap seen))
<1> DEFINE Left(k) == L \ {o \in seen : \E j \in 1..k : o = list[j]}
           I == [k \in 0..Len(list) |-> {t \in Memory : Good(t, H, Left(k))}]
<1>1. /\ Len(list) \in Nat /\ s \in Memory /\ Elems(list) = {list[k] : k \in 1..Len(list)}
      /\ \A k \in 1..Len(list) : list[k] \in Note
  BY ElemsOf DEF Good
<1>2. s \in I[0]
  <2>1. Left(0) = L
    OBVIOUS
  <2> HIDE DEF Left
  <2>2. I[0] = {t \in Memory : Good(t, H, Left(0))}
    BY <1>1
  <2> HIDE DEF I
  <2> QED
    BY <1>1, <2>1, <2>2
<1>3. ASSUME NEW k \in 1..Len(list), NEW t \in I[k - 1]
      PROVE  (IF list[k] \in seen THEN dispatch(t, list[k], chosen) ELSE t) \in I[k]
  <2> DEFINE r == IF list[k] \in seen THEN dispatch(t, list[k], chosen) ELSE t
  <2>1. k \in 0..Len(list) /\ k - 1 \in 0..Len(list)
    BY <1>1
  <2>2. t \in Memory /\ Good(t, H, Left(k - 1))
    BY <2>1
  <2>3. 1..k = (1..(k - 1)) \cup {k}
    BY <1>1
  <2>4. Good(r, H, Left(k))
    <3>1. CASE list[k] \in seen
      <4>1. Left(k) = Left(k - 1) \ {list[k]}
        BY <2>3, <3>1
      <4> HIDE DEF Left
      <4>2. Good(dispatch(t, list[k], chosen), H, Left(k - 1) \ {list[k]})
        BY <1>1, <2>2, DispatchKeeps
      <4> QED
        BY <3>1, <4>1, <4>2
    <3>2. CASE list[k] \notin seen
      <4>1. Left(k) = Left(k - 1)
        BY <2>3, <3>2
      <4> HIDE DEF Left
      <4> QED
        BY <2>2, <3>2, <4>1
    <3> QED
      BY <3>1, <3>2
  <2> HIDE DEF Left, r
  <2>5. r \in Memory
    BY <2>4 DEF Good
  <2>6. r \in I[k]
    BY <2>1, <2>4, <2>5
  <2> QED
    BY <2>6 DEF r
<1>4. dispatch_all(s, list, seen, chosen) \in I[Len(list)]
  <2> HIDE DEF I
  <2> QED
    BY <1>1, <1>2, <1>3, DispatchAllIs
<1>5. Left(Len(list)) = L \ (Elems(list) \cap seen)
  BY <1>1
<1> HIDE DEF Left
<1>6. I[Len(list)] = {t \in Memory : Good(t, H, Left(Len(list)))}
  BY <1>1
<1> HIDE DEF I
<1>7. Good(dispatch_all(s, list, seen, chosen), H, Left(Len(list)))
  BY <1>4, <1>6
<1> QED
  BY <1>5, <1>7

(* The menu locks its notifications. *)
LEMMA LockKeeps ==
    ASSUME NEW s, NEW H, NEW L, Good(s, H, L), NEW S
    PROVE  LET m == [o \in Note |-> [s.n[o] EXCEPT !.locked = @ \/ o \in S]]
           IN  Good(Rewritten(s, m), H, L \cup S)
<1> DEFINE m == [o \in Note |-> [s.n[o] EXCEPT !.locked = @ \/ o \in S]]
<1>1. s.n \in [Note -> NoteRec] /\ Held(s) \subseteq Note
  BY MemoryIs DEF Good
<1>2. ASSUME NEW o \in Note
      PROVE  /\ m[o] \in NoteRec /\ Alike(s.n[o], m[o])
             /\ m[o].locked => s.n[o].locked \/ o \in S
  <2>1. s.n[o] \in NoteRec
    BY <1>1
  <2>2. m[o] = [s.n[o] EXCEPT !.locked = s.n[o].locked \/ o \in S]
    OBVIOUS
  <2>3. (s.n[o].locked \/ o \in S) \in BOOLEAN
    OBVIOUS
  <2>4. m[o] \in NoteRec
    BY <2>1, <2>2, <2>3 DEF NoteRec
  <2>5. Alike(s.n[o], m[o])
    BY <2>1, <2>2 DEF NoteRec, Alike
  <2>6. m[o].locked = (s.n[o].locked \/ o \in S)
    BY <2>1, <2>2 DEF NoteRec
  <2> QED
    BY <2>4, <2>5, <2>6
<1>3. m \in [Note -> NoteRec]
  BY <1>2
<1> HIDE DEF m
<1>4. \A o \in Held(s) : Alike(s.n[o], m[o])
  BY <1>1, <1>2
<1>5. \A o \in Note : m[o].locked => o \in L \cup S
  BY <1>2 DEF Good
<1>6. Good(Rewritten(s, m), H, L \cup S)
  BY <1>3, <1>4, <1>5, RewrittenIs
<1> QED
  BY <1>6 DEF m

(* What nothing refers to is freed, and with it its lock. *)
LEMMA UnrefKeeps ==
    ASSUME NEW s, NEW H, NEW L, Good(s, H, L), NEW list
    PROVE  LET t == unref(s, list)
           IN  /\ Good(t, H, L \cap (H \cup Elems(list)))
               /\ t.displayed = s.displayed /\ t.waiting = s.waiting
               /\ \A o \in Active(s) : t.n[o].kind = s.n[o].kind
<1> DEFINE m == [o \in Note |-> IF o \in Held(s) \cup Elems(list) THEN s.n[o] ELSE NoNote]
<1>1. s.n \in [Note -> NoteRec] /\ Held(s) \subseteq Note /\ Held(s) \subseteq H
  BY MemoryIs DEF Good
<1>2. NoNote \in NoteRec /\ ~NoNote.locked
  BY DEF NoNote, NoteRec
<1>3. m \in [Note -> NoteRec]
  BY <1>1, <1>2
<1>4. \A o \in Held(s) : Alike(s.n[o], m[o])
  BY <1>1 DEF Alike
<1>5. \A o \in Note : m[o].locked => o \in L \cap (H \cup Elems(list))
  BY <1>1, <1>2 DEF Good
<1>6. unref(s, list) = Rewritten(s, m)
  BY DEF unref, Rewritten
<1> HIDE DEF m
<1>7. /\ Good(Rewritten(s, m), H, L \cap (H \cup Elems(list)))
      /\ Rewritten(s, m).n = m
      /\ Rewritten(s, m).displayed = s.displayed /\ Rewritten(s, m).waiting = s.waiting
      /\ Rewritten(s, m).history = s.history
  BY <1>3, <1>4, <1>5, RewrittenIs
<1>8. \A o \in Active(s) : m[o].kind = s.n[o].kind
  BY <1>4 DEF Alike, Active, Held
<1> QED
  BY <1>6, <1>7, <1>8

(* What is_ready reads of the status. *)
Status == [paused |-> paused, full |-> fullscreen]

(* Every handler ends with the update of the main loop. *)
LEMMA RunKeeps ==
    ASSUME NEW s, NEW H, NEW L, Good(s, H, L), NEW K, Stay(s, K), NEW started, Run(s, started),
           uses \in Uses
    PROVE  /\ Good(q', H, L \cap (H \cup Elems(menu')))
           /\ Tidy => K \subseteq Active(q')
           /\ Settled(q', Status')
           /\ fullscreen' \in BOOLEAN /\ uses' = uses
<1>1. PICK full \in FullscreenNow,
           expired \in SUBSET {o \in Elems(s.displayed) \ started : s.n[o].expires} :
        /\ fullscreen' = full /\ UNCHANGED uses
        /\ \E t \in {queues_update(s, [paused |-> paused', full |-> full,
                                        expired |-> expired])} : q' = unref(t, menu')
  BY DEF Run
<1> DEFINE st == [paused |-> paused', full |-> full, expired |-> expired]
           t == queues_update(s, st)
<1>2. Good(t, H, L) /\ (Tidy => K \subseteq Active(t)) /\ Settled(t, st)
  BY UpdateKeeps, UpdateSettles
<1>3. q' = unref(t, menu')
  BY <1>1
<1> HIDE DEF t
<1>4. /\ Good(q', H, L \cap (H \cup Elems(menu')))
      /\ q'.displayed = t.displayed /\ q'.waiting = t.waiting
      /\ \A o \in Active(t) : q'.n[o].kind = t.n[o].kind
  BY <1>2, <1>3, UnrefKeeps
<1>6. Settled(q', Status')
  <2>1. Status'.paused = st.paused /\ Status'.full = st.full
    BY <1>1 DEF Status
  <2> HIDE DEF st
  <2> QED
    BY <1>2, <1>4, <2>1, SettledSame
<1>5. full \in BOOLEAN
  BY DEF FullscreenNow
<1> QED
  BY <1>1, <1>2, <1>4, <1>5, <1>6 DEF Active

-----------------------------------------------------------------------------
(* The invariant.                                                          *)

(* A menu is never asked for while another one has notifications.          *)
Single == \A use \in Uses : "second menu" \notin use

(* What may be locked. *)
Locks == IF Single THEN Elems(menu) ELSE Note

QueuesInv ==
    /\ Good(q, Note, Locks)
    /\ menu \in Seq(Note) /\ dmenus \in 0..MaxMenus
    /\ menu # <<>> => dmenus > 0
    /\ paused \in BOOLEAN /\ fullscreen \in BOOLEAN /\ uses \in Uses
    /\ Settled(q, Status)

(* More may be held and locked. *)
LEMMA GoodWeaker ==
    ASSUME NEW s, NEW H, NEW L, Good(s, H, L), NEW G, NEW M, H \subseteq G, L \subseteq M
    PROVE  Good(s, G, M)
  BY DEF Good

(* A handler that neither opens nor answers a menu. *)
LEMMA Handled ==
    ASSUME QueuesInv, NEW s, Good(s, Note, Locks), NEW started,
           Unmenued, paused' \in BOOLEAN, Run(s, started)
    PROVE  QueuesInv'
<1> DEFINE S == {}
<1>1. Stay(s, S)
  BY DEF Stay
<1>2. /\ Good(q', Note, Locks \cap (Note \cup Elems(menu')))
      /\ fullscreen' \in BOOLEAN /\ uses' = uses /\ Settled(q', Status')
  BY <1>1, RunKeeps DEF QueuesInv
<1>3. menu' = menu /\ dmenus' = dmenus /\ Locks' = Locks
  BY DEF Unmenued, Locks
<1>4. Good(q', Note, Locks')
  <2>1. Locks \cap (Note \cup Elems(menu')) \subseteq Locks'
    BY <1>3
  <2> QED
    BY <1>2, <2>1, GoodWeaker
<1> QED
  BY <1>2, <1>3, <1>4 DEF QueuesInv

(* Nothing is held or locked at first. *)
LEMMA QueuesInit ==
    ASSUME Init
    PROVE  QueuesInv
<1>1. NoNote \in NoteRec /\ ~NoNote.locked
  BY DEF NoNote, NoteRec
<1> DEFINE s == [displayed |-> <<>>, waiting |-> <<>>, history |-> <<>>,
                 n |-> [o \in Note |-> NoNote], next |-> 0, open |-> {}]
<1>2. q = s
  BY DEF Init
<1>3. s \in Memory
  <2>1. [o \in Note |-> NoNote] \in [Note -> NoteRec]
    BY <1>1
  <2>2. <<>> \in Seq(Note) /\ 0 \in Nat /\ {} \in SUBSET Nat
    OBVIOUS
  <2> QED
    BY <2>1, <2>2 DEF Memory
<1>4. /\ s.displayed = <<>> /\ s.waiting = <<>> /\ s.history = <<>> /\ s.open = {} /\ s.next = 0
      /\ \A o \in Note : s.n[o] = NoNote
  OBVIOUS
<1> HIDE DEF s
<1>5. Elems(<<>>) = {} /\ Distinct(<<>>) /\ Len(<<>>) = 0
  BY DEF Elems, Distinct
<1>6. Held(s) = {}
  BY <1>4, <1>5 DEF Held
<1>7. Apart(s) /\ Known(s) /\ Paired(s)
  BY <1>4, <1>5, <1>6 DEF Apart, Known, Paired
<1>8. Good(s, Note, Locks)
  <2>1. HistoryLength > 0 => Len(s.history) <= HistoryLength
    BY <1>4, <1>5, DunstAssumption
  <2>2. \A o \in Note : ~s.n[o].locked
    BY <1>1, <1>4
  <2>3. Ordered(s)
    BY <1>4, <1>5 DEF Ordered, Falling
  <2> QED
    BY <1>3, <1>6, <1>7, <2>1, <2>2, <2>3 DEF Good
<1>9. menu \in Seq(Note) /\ dmenus \in 0..MaxMenus /\ (menu # <<>> => dmenus > 0)
  BY DunstAssumption DEF Init
<1>10. Settled(s, Status)
  <2>1. LinesFit(s)
    BY <1>4, <1>5, DunstAssumption DEF LinesFit, Lines
  <2>2. RoomUsed(s, Status) /\ Served(s)
    BY <1>4, <1>5 DEF RoomUsed, Served, ServedBut
  <2> QED
    BY <2>1, <2>2 DEF Settled
<1> QED
  BY <1>2, <1>8, <1>9, <1>10 DEF QueuesInv, Init

(* The least free address. *)
LEMMA FreeIs ==
    ASSUME NEW free \in SUBSET Note, free # {}
    PROVE  (CHOOSE x \in free : \A y \in free : x <= y) \in free
<1>1. Note \subseteq Nat
  BY DunstAssumption DEF Note
<1>2. \E x \in free : \A y \in free : x <= y
  BY <1>1, LeastElement
<1> QED
  BY <1>2

(* A notification arrives at a free address, under a new id or under the   *)
(* id that it replaces.                                                    *)
LEMMA NotifyKeeps ==
    ASSUME QueuesInv, NEW kind \in Kinds, NEW id \in Replaceable(kind), Notify(kind, id)
    PROVE  QueuesInv'
<1> DEFINE free == {o \in Note : q.n[o] = NoNote}
           o == CHOOSE x \in free : \A y \in free : x <= y
           r == [NoNote EXCEPT !.kind = kind, !.id = id, !.valid = TRUE,
                               !.expires = kind.expires, !.actions = kind.actions]
           s == [q EXCEPT !.n[o] = r]
           t == insert(s, o, fullscreen)
<1>1. Unmenued /\ UNCHANGED paused /\ Run(t, {o}) /\ free # {}
  BY DEF Notify
<1>2. o \in free
  BY <1>1, FreeIs
<1>3. o \in Note /\ q.n[o] = NoNote
  BY <1>2
<1> HIDE DEF o, free
<1>4. Good(q, Note, Locks) /\ q \in Memory /\ Known(q)
  BY DEF QueuesInv, Good
<1>5. o \notin Held(q)
  <2>1. NoNote.id = 0 /\ 0 \notin 1..q.next
    BY <1>4, MemoryIs DEF NoNote
  <2> QED
    BY <1>3, <1>4, <2>1 DEF Known
<1>6. /\ q.open \subseteq 1..q.next /\ q.next \in Nat
      /\ id \in 0..q.next
      /\ Tidy => id = 0 \/ (id \in q.open /\ ~kind.empty)
      /\ Graded => id = 0 \/ \A p \in Note : q.n[p].id = id => q.n[p].kind.urgency = kind.urgency
  <2>1. q.open \subseteq 1..q.next /\ q.next \in Nat
    BY <1>4, MemoryIs DEF Known
  <2>2. id = 0 \/ id \in q.open \/ id \in 1..q.next
    BY DEF Replaceable
  <2>3. id \in 0..q.next
    BY <2>1, <2>2
  <2>4. ASSUME Tidy, id # 0 PROVE id \in q.open /\ ~kind.empty
    <3>1. uses \in Uses /\ "replace closed" \notin uses
      BY <2>4 DEF QueuesInv, Tidy
    <3>2. id \in q.open /\ ("regrade" \in uses \/ "replace" \in uses)
      BY <2>4, <3>1 DEF Replaceable
    <3> QED
      BY <2>4, <3>1, <3>2 DEF Tidy
  <2>5. ASSUME Graded, id # 0
        PROVE  \A p \in Note : q.n[p].id = id => q.n[p].kind.urgency = kind.urgency
    <3>1. "regrade" \notin uses /\ "replace closed" \notin uses
      BY <2>5 DEF QueuesInv, Graded
    <3> QED
      BY <2>5, <3>1 DEF Replaceable
  <2> QED
    BY <2>1, <2>3, <2>4, <2>5
<1>7. /\ r \in NoteRec /\ ~r.locked /\ r.id = id /\ r.kind = kind
      /\ r.valid /\ ~r.redisplayed
  <2>1. kind \in Kind
    BY DunstAssumption
  <2>2. id \in Nat /\ kind.expires \in BOOLEAN /\ kind.actions \in BOOLEAN
    BY <1>6, <2>1 DEF Kind
  <2>3. NoNote \in NoteRec /\ ~NoNote.locked /\ ~NoNote.redisplayed
    BY DEF NoNote, NoteRec
  <2> QED
    BY <2>2, <2>3 DEF NoteRec
<1> HIDE DEF r
<1>8. Good(s, Note, Locks) /\ Held(s) = Held(q) /\ s.n[o] = r /\ s.next = q.next /\ s.open = q.open
  BY <1>3, <1>4, <1>5, <1>7, Received
<1>9. \A p \in Held(q) : p \in Note /\ s.n[p] = q.n[p]
  BY <1>4, <1>5, MemoryIs DEF Memory
<1> HIDE DEF s
<1>10. Arrives(s, o)
  BY <1>3, <1>5, <1>6, <1>7, <1>8 DEF Arrives
<1>11. Tidy => s.n[o].id = 0 \/ (s.n[o].id \in s.open /\ ~s.n[o].kind.empty)
  BY <1>6, <1>7, <1>8
<1>12. Graded => \A p \in Held(s) : s.n[p].id = s.n[o].id =>
                    s.n[o].kind.urgency = s.n[p].kind.urgency
  <2>1. \A p \in Held(q) : q.n[p].id # 0
    BY <1>4, <1>6 DEF Known
  <2> QED
    BY <1>6, <1>7, <1>8, <1>9, <2>1
<1>13. Good(t, Note \cup {o}, Locks)
  BY <1>8, <1>10, <1>11, <1>12, InsertKeeps
<1> HIDE DEF t
<1>14. Note \cup {o} = Note
  BY <1>3
<1>15. Good(t, Note, Locks)
  BY <1>13, <1>14
<1>16. paused' \in BOOLEAN
  BY <1>1 DEF QueuesInv
<1> QED
  BY <1>1, <1>15, <1>16, Handled

(* The handlers that close notifications or change the history. *)
LEMMA CloseHandlersKeep ==
    ASSUME QueuesInv,
           \/ WakeUp \/ CloseLast \/ CloseAll \/ HistoryClear
           \/ \E id \in 1..MaxIds : CloseNotification(id) \/ HistoryRemove(id)
           \/ \E o \in Note : HistoryPop(o)
    PROVE  QueuesInv'
<1>1. Good(q, Note, Locks) /\ paused \in BOOLEAN
  BY DEF QueuesInv
<1>2. q.displayed \in Seq(Note) /\ q.history \in Seq(Note)
  BY <1>1, MemoryIs DEF Good
<1>3. UNCHANGED paused => paused' \in BOOLEAN
  BY <1>1
<1>4. CASE WakeUp
  BY <1>1, <1>3, <1>4, Handled DEF WakeUp
<1>5. CASE CloseLast
  <2>1. Good(close(q, Head(q.displayed)), Note, Locks)
    BY <1>1, RemoveKeeps
  <2> QED
    BY <1>3, <1>5, <2>1, Handled DEF CloseLast
<1>6. CASE CloseAll
  <2>1. Good(history_push_all(q), Note, Locks)
    BY <1>1, HistoryPushAllKeeps
  <2> QED
    BY <1>3, <1>6, <2>1, Handled DEF CloseAll
<1>7. CASE HistoryClear
  <2>1. <<>> \in Seq(Note) /\ Distinct(<<>>) /\ Elems(<<>>) \subseteq Elems(q.history)
        /\ Len(<<>>) <= Len(q.history)
    <3>1. Len(q.history) \in Nat
      BY <1>2, LenProperties
    <3> QED
      BY <3>1 DEF Distinct, Elems
  <2>2. Good([q EXCEPT !.history = <<>>], Note, Locks)
    BY <1>1, <2>1, Forgotten
  <2>3. Unmenued /\ UNCHANGED paused /\ Run([q EXCEPT !.history = <<>>], {})
    BY <1>7 DEF HistoryClear
  <2> QED
    BY <1>3, <2>2, <2>3, Handled
<1>8. ASSUME NEW id \in 1..MaxIds, CloseNotification(id) PROVE QueuesInv'
  <2>1. Good(close_id(q, id), Note, Locks)
    BY <1>1, CloseKeeps
  <2> QED
    BY <1>3, <1>8, <2>1, Handled DEF CloseNotification
<1>9. ASSUME NEW id \in 1..MaxIds, HistoryRemove(id) PROVE QueuesInv'
  <2>1. Good(history_remove_by_id(q, id), Note, Locks)
    BY <1>1, HistoryRemoveKeeps
  <2> QED
    BY <1>3, <1>9, <2>1, Handled DEF HistoryRemove
<1>10. ASSUME NEW o \in Note, HistoryPop(o) PROVE QueuesInv'
  <2>1. o \in Elems(q.history)
    <3>1. CASE q.history # <<>> /\ o = Last(q.history)
      BY <1>2, <3>1, LastElems
    <3>2. ASSUME NEW id \in 1..MaxIds, o = WithId(q, q.history, id) PROVE o \in Elems(q.history)
      <4>1. IsFirst(q, q.history, id, o)
        BY <1>2, <3>2, WithIdIs
      <4>2. o # None
        BY DEF Note, None
      <4>3. Elems(q.history) = {q.history[k] : k \in 1..Len(q.history)}
        BY <1>2, ElemsOf
      <4> QED
        BY <4>1, <4>2, <4>3 DEF IsFirst
    <3> QED
      BY <1>10, <3>1, <3>2 DEF HistoryPop
  <2>2. Good(history_pop(q, o), Note, Locks)
    BY <1>1, <2>1, HistoryPopKeeps
  <2> QED
    BY <1>3, <1>10, <2>2, Handled DEF HistoryPop
<1> QED
  BY <1>4, <1>5, <1>6, <1>7, <1>8, <1>9, <1>10

(* A click marks a notification. *)
LEMMA ClickKeeps ==
    ASSUME QueuesInv, NEW o \in Note, Click(o)
    PROVE  QueuesInv'
<1>1. PICK mark \in {"closure", "removal"} : Run([q EXCEPT !.n[o][mark] = TRUE], {})
  BY DEF Click
<1> DEFINE r == [q.n[o] EXCEPT ![mark] = TRUE]
           m == [q.n EXCEPT ![o] = r]
<1>2. Good(q, Note, Locks) /\ q \in Memory /\ q.n \in [Note -> NoteRec] /\ Held(q) \subseteq Note
  BY MemoryIs DEF QueuesInv, Good
<1>3. q.n[o] \in NoteRec
  BY <1>2
<1>4. r \in NoteRec /\ Same(q.n[o], r)
  BY <1>1, <1>3 DEF NoteRec, Same
<1>5. [q EXCEPT !.n[o][mark] = TRUE] = [q EXCEPT !.n = m]
  BY <1>2 DEF Memory
<1> HIDE DEF r
<1>6. Good([q EXCEPT !.n = m], Note, Locks)
  BY <1>2, <1>4, Remarked
<1>7. Good([q EXCEPT !.n[o][mark] = TRUE], Note, Locks)
  BY <1>5, <1>6
<1>8. Unmenued /\ paused' \in BOOLEAN
  BY DEF Click, QueuesInv
<1> QED
  BY <1>1, <1>7, <1>8, Handled

(* The properties of the status. *)
LEMMA StatusKeeps ==
    ASSUME QueuesInv, (\E level \in BOOLEAN : SetPaused(level)) \/ Reload
    PROVE  QueuesInv'
<1>1. Good(q, Note, Locks)
  BY DEF QueuesInv
<1>2. ASSUME NEW level \in BOOLEAN, SetPaused(level) PROVE QueuesInv'
  BY <1>1, <1>2, Handled DEF SetPaused
<1>3. CASE Reload
  <2>1. PICK full \in FullscreenNow :
           Run(queues_update(q, [paused |-> TRUE, full |-> full, expired |-> {}]), {})
    BY <1>3 DEF Reload
  <2> DEFINE t == queues_update(q, [paused |-> TRUE, full |-> full, expired |-> {}])
             S == {}
  <2>2. Stay(q, S)
    BY DEF Stay
  <2>3. Good(t, Note, Locks)
    BY <1>1, <2>2, UpdateKeeps
  <2>4. Unmenued /\ paused' \in BOOLEAN
    BY <1>3 DEF Reload
  <2> HIDE DEF t
  <2>5. Run(t, {})
    BY <2>1 DEF t
  <2> QED
    BY <2>3, <2>4, <2>5, Handled
<1> QED
  BY <1>2, <1>3

(* A menu is opened: it locks its notifications, or finds that another one *)
(* is open.                                                                *)
LEMMA OpenMenuKeeps ==
    ASSUME QueuesInv, NEW list \in Seq(Note), OpenMenu(list)
    PROVE  QueuesInv'
<1> DEFINE m == [o \in Note |-> [q.n[o] EXCEPT !.locked = @ \/ o \in Elems(list)]]
           s == [q EXCEPT !.n = m]
           S == {}
<1>1. /\ "second menu" \in uses \/ menu = <<>>
      /\ menu = <<>> => dmenus < MaxMenus
      /\ IF menu # <<>> THEN Unmenued ELSE menu' = list /\ dmenus' = dmenus + 1
      /\ UNCHANGED paused
      /\ Run(s, {}) \/ (q' = s /\ UNCHANGED <<fullscreen, uses>>)
  BY DEF OpenMenu
<1>2. /\ Good(q, Note, Locks) /\ menu \in Seq(Note) /\ dmenus \in 0..MaxMenus
      /\ menu # <<>> => dmenus > 0
      /\ paused \in BOOLEAN /\ fullscreen \in BOOLEAN /\ uses \in Uses
      /\ Settled(q, Status)
  BY DEF QueuesInv
<1>3. s = Rewritten(q, m) /\ \A o \in Note : m[o].kind = q.n[o].kind
  <2>1. q.n \in [Note -> NoteRec]
    BY <1>2, MemoryIs DEF Good
  <2>2. \A o \in Note : m[o].kind = q.n[o].kind
    BY <2>1 DEF NoteRec
  <2> QED
    BY <2>2 DEF Rewritten
<1>4. Good(Rewritten(q, m), Note, Locks \cup Elems(list))
  BY <1>2, LockKeeps
<1> HIDE DEF s, m
<1>5. Good(s, Note, Locks \cup Elems(list))
  BY <1>3, <1>4
<1>6. menu' \in Seq(Note) /\ dmenus' \in 0..MaxMenus /\ (menu' # <<>> => dmenus' > 0)
  <2>1. CASE menu # <<>>
    BY <1>1, <1>2, <2>1 DEF Unmenued
  <2>2. CASE menu = <<>>
    <3>1. dmenus + 1 \in 0..MaxMenus /\ dmenus + 1 > 0
      BY <1>1, <1>2, <2>2, DunstAssumption
    <3> QED
      BY <1>1, <2>2, <3>1
  <2> QED
    BY <2>1, <2>2
<1>7. Locks \cup Elems(list) \subseteq Locks'
  <2>1. Elems(list) \subseteq Note /\ Elems(menu) \subseteq Note
    BY <1>2, ElemsOf
  <2>2. CASE ~Single
    BY <2>1, <2>2 DEF Locks
  <2>3. CASE Single
    <3>1. menu = <<>> /\ menu' = list
      BY <1>1, <1>2, <2>3 DEF Single
    <3>2. Elems(<<>>) = {}
      BY DEF Elems
    <3> QED
      BY <2>3, <3>1, <3>2 DEF Locks
  <2> QED
    BY <2>2, <2>3
<1>8. Good(s, Note, Locks')
  BY <1>5, <1>7, GoodWeaker
<1>9. CASE Run(s, {})
  <2>1. Stay(s, S)
    BY DEF Stay
  <2>2. /\ Good(q', Note, Locks' \cap (Note \cup Elems(menu')))
        /\ fullscreen' \in BOOLEAN /\ uses' = uses /\ Settled(q', Status')
    BY <1>2, <1>8, <1>9, <2>1, RunKeeps
  <2>3. Good(q', Note, Locks')
    <3>1. Locks' \cap (Note \cup Elems(menu')) \subseteq Locks'
      OBVIOUS
    <3> QED
      BY <2>2, <3>1, GoodWeaker
  <2> QED
    BY <1>1, <1>2, <1>6, <2>2, <2>3 DEF QueuesInv
<1>10. CASE q' = s /\ UNCHANGED <<fullscreen, uses>>
  <2>1. q \in Memory
    BY <1>2 DEF Good
  <2>2. /\ Rewritten(q, m).displayed = q.displayed /\ Rewritten(q, m).waiting = q.waiting
        /\ Rewritten(q, m).n = m
    BY <2>1 DEF Rewritten, Memory
  <2>3. Active(q) \subseteq Note
    BY <2>1, MemoryIs DEF Active, Held
  <2>4. Status' = Status
    BY <1>1, <1>10 DEF Status
  <2>5. Settled(q', Status')
    <3>1. q'.displayed = q.displayed /\ q'.waiting = q.waiting
      BY <1>3, <1>10, <2>2
    <3>2. \A o \in Active(q) : q'.n[o].kind = q.n[o].kind
      BY <1>3, <1>10, <2>2, <2>3
    <3>3. Status'.paused = Status.paused /\ Status'.full = Status.full
      BY <2>4
    <3> QED
      BY <1>2, <3>1, <3>2, <3>3, SettledSame
  <2> QED
    BY <1>1, <1>2, <1>6, <1>8, <1>10, <2>5 DEF QueuesInv
<1> QED
  BY <1>1, <1>9, <1>10

(* The menu of all notifications with actions, or of one. *)
LEMMA ContextMenuKeeps ==
    ASSUME QueuesInv, ContextMenu
    PROVE  QueuesInv'
<1>1. q.displayed \in Seq(Note)
  BY MemoryIs DEF QueuesInv, Good
<1>2. get_actionable_notifications \in Seq(Note)
  <2> DEFINE I == [k \in 0..Len(q.displayed) |-> Seq(Note)]
  <2>1. Len(q.displayed) \in Nat /\ \A k \in 1..Len(q.displayed) : q.displayed[k] \in Note
    BY <1>1, ElemsOf
  <2>2. <<>> \in I[0]
    BY <2>1
  <2>3. ASSUME NEW k \in 1..Len(q.displayed), NEW t \in I[k - 1]
        PROVE  lock_if_actionable(t, q.displayed[k]) \in I[k]
    <3>1. k \in 0..Len(q.displayed) /\ k - 1 \in 0..Len(q.displayed)
      BY <2>1
    <3>2. t \in Seq(Note)
      BY <3>1
    <3>3. Append(t, q.displayed[k]) \in Seq(Note)
      BY <2>1, <3>2, AppendProperties
    <3> QED
      BY <3>1, <3>2, <3>3 DEF lock_if_actionable
  <2>4. get_actionable_notifications \in I[Len(q.displayed)]
    <3> HIDE DEF I
    <3> QED
      BY <1>1, <2>2, <2>3, ActionableIs
  <2> QED
    BY <2>1, <2>4
<1>3. CASE OpenMenu(get_actionable_notifications)
  BY <1>2, <1>3, OpenMenuKeeps
<1>4. ASSUME NEW o \in Elems(q.displayed), OpenMenu(<<o>>) PROVE QueuesInv'
  <2>1. o \in Note
    BY <1>1, ElemsOf
  <2>2. <<o>> \in Seq(Note)
    BY <2>1
  <2> QED
    BY <1>4, <2>2, OpenMenuKeeps
<1> QED
  BY <1>3, <1>4 DEF ContextMenu

(* dmenu answers: what is still held is unlocked, the rest is freed. *)
LEMMA MenuResultKeeps ==
    ASSUME QueuesInv, MenuResult
    PROVE  QueuesInv'
<1>1. PICK chosen \in BOOLEAN, found \in SUBSET (Elems(menu) \ Held(q)) :
         Run(dispatch_all(q, menu, Held(q) \cup found, chosen), {})
  BY DEF MenuResult
<1> DEFINE seen == Held(q) \cup found
           t == dispatch_all(q, menu, seen, chosen)
           L == Locks \ (Elems(menu) \cap seen)
           S == {}
<1>2. /\ Good(q, Note, Locks) /\ menu \in Seq(Note) /\ dmenus \in 0..MaxMenus
      /\ paused \in BOOLEAN /\ uses \in Uses
  BY DEF QueuesInv
<1>3. dmenus > 0 /\ dmenus' = dmenus - 1 /\ menu' = <<>> /\ paused' = paused
  BY DEF MenuResult
<1>4. Good(q, Held(q), Locks)
  BY <1>2 DEF Good
<1>5. Good(t, Held(q), L)
  BY <1>2, <1>4, DispatchAllKeeps
<1> HIDE DEF t
<1>6. Stay(t, S)
  BY DEF Stay
<1>7. Run(t, {})
  BY <1>1 DEF t
<1> HIDE DEF L
<1>8. /\ Good(q', Held(q), L \cap (Held(q) \cup Elems(menu')))
      /\ fullscreen' \in BOOLEAN /\ uses' = uses /\ Settled(q', Status')
  BY <1>2, <1>5, <1>6, <1>7, RunKeeps
<1>9. Good(q', Note, Locks')
  <2>1. Held(q) \subseteq Note
    BY <1>2, MemoryIs DEF Good
  <2>2. Elems(menu') = {}
    BY <1>3 DEF Elems
  <2>3. L \cap (Held(q) \cup Elems(menu')) \subseteq Locks'
    <3>1. CASE Single
      BY <2>2, <3>1 DEF L, Locks
    <3>2. CASE ~Single
      BY <2>1, <2>2, <3>2 DEF Locks
    <3> QED
      BY <3>1, <3>2
  <2> QED
    BY <1>8, <2>1, <2>3, GoodWeaker
<1>10. menu' \in Seq(Note) /\ dmenus' \in 0..MaxMenus /\ (menu' # <<>> => dmenus' > 0)
  BY <1>2, <1>3, DunstAssumption
<1> QED
  BY <1>2, <1>3, <1>8, <1>9, <1>10 DEF QueuesInv

(* Every action keeps the invariant. *)
LEMMA QueuesNext ==
    ASSUME QueuesInv, [Next]_vars
    PROVE  QueuesInv'
<1>1. CASE UNCHANGED vars
  BY <1>1 DEF vars, QueuesInv, Locks, Status
<1>2. CASE Next
  <2>1. CASE \/ WakeUp \/ CloseLast \/ CloseAll \/ HistoryClear
             \/ \E id \in 1..MaxIds : CloseNotification(id) \/ HistoryRemove(id)
             \/ \E o \in Note : HistoryPop(o)
    BY <2>1, CloseHandlersKeep
  <2>2. CASE \E kind \in Kinds : \E id \in Replaceable(kind) : Notify(kind, id)
    BY <2>2, NotifyKeeps
  <2>3. CASE \E o \in Note : Click(o)
    BY <2>3, ClickKeeps
  <2>4. CASE ContextMenu
    BY <2>4, ContextMenuKeeps
  <2>5. CASE MenuResult
    BY <2>5, MenuResultKeeps
  <2>6. CASE (\E level \in BOOLEAN : SetPaused(level)) \/ Reload
    BY <2>6, StatusKeeps
  <2> QED
    BY <1>2, <2>1, <2>2, <2>3, <2>4, <2>5, <2>6 DEF Next
<1> QED
  BY <1>1, <1>2

(* The invariant holds in every state. *)
THEOREM QueuesHold == Spec => []QueuesInv
<1>1. Init => QueuesInv
  BY QueuesInit
<1>2. QueuesInv /\ [Next]_vars => QueuesInv'
  BY QueuesNext
<1> QED
  BY <1>1, <1>2, PTL DEF Spec

-----------------------------------------------------------------------------
(* What the runs check.                                                    *)

(* Lists without common elements, one after the other. *)
LEMMA JoinedLists ==
    ASSUME NEW a \in Seq(Note), NEW b \in Seq(Note), Distinct(a), Distinct(b),
           Elems(a) \cap Elems(b) = {}
    PROVE  Distinct(a \o b) /\ a \o b \in Seq(Note) /\ Elems(a \o b) = Elems(a) \cup Elems(b)
<1> DEFINE c == a \o b
           n == Len(a)
<1>1. /\ Elems(a) = {a[k] : k \in 1..Len(a)} /\ Len(a) \in Nat
      /\ Elems(b) = {b[k] : k \in 1..Len(b)} /\ Len(b) \in Nat
      /\ DOMAIN a = 1..Len(a) /\ DOMAIN b = 1..Len(b)
  BY ElemsOf
<1>2. /\ c \in Seq(Note) /\ Len(c) = Len(a) + Len(b)
      /\ \A i \in 1..(Len(a) + Len(b)) : c[i] = IF i <= Len(a) THEN a[i] ELSE b[i - Len(a)]
  BY ConcatProperties
<1> HIDE DEF c
<1>3. Elems(c) = {c[k] : k \in 1..Len(c)}
  BY <1>2, ElemsOf, SMTT(30)
<1>4. ASSUME NEW i \in 1..Len(c)
      PROVE  \/ i \in 1..Len(a) /\ c[i] = a[i] /\ c[i] \in Elems(a)
             \/ i - Len(a) \in 1..Len(b) /\ c[i] = b[i - Len(a)] /\ c[i] \in Elems(b) /\ i > Len(a)
  <2>1. CASE i <= Len(a)
    <3>1. i \in 1..Len(a) /\ c[i] = a[i]
      BY <1>1, <1>2, <2>1
    <3> QED
      BY <1>1, <3>1
  <2>2. CASE i > Len(a)
    <3>1. i - Len(a) \in 1..Len(b) /\ c[i] = b[i - Len(a)]
      BY <1>1, <1>2, <2>2
    <3> QED
      BY <1>1, <2>2, <3>1
  <2> QED
    BY <1>1, <1>2, <2>1, <2>2
<1>5. ASSUME NEW i \in 1..Len(c), NEW j \in 1..Len(c), c[i] = c[j] PROVE i = j
  <2>1. CASE i \in 1..Len(a) /\ c[i] = a[i] /\ c[i] \in Elems(a)
    <3>1. j \in 1..Len(a) /\ c[j] = a[j]
      BY <1>4, <1>5, <2>1
    <3> QED
      BY <1>1, <1>5, <2>1, <3>1 DEF Distinct
  <2>2. CASE i - Len(a) \in 1..Len(b) /\ c[i] = b[i - Len(a)] /\ c[i] \in Elems(b) /\ i > Len(a)
    <3>1. j - Len(a) \in 1..Len(b) /\ c[j] = b[j - Len(a)]
      BY <1>4, <1>5, <2>2
    <3>2. i - Len(a) = j - Len(a)
      BY <1>1, <1>5, <2>2, <3>1 DEF Distinct
    <3>3. i \in Int /\ j \in Int
      OBVIOUS
    <3> QED
      BY <1>1, <3>2, <3>3
  <2> QED
    BY <1>4, <2>1, <2>2
<1>6. Elems(c) = Elems(a) \cup Elems(b)
  <2>1. Elems(c) \subseteq Elems(a) \cup Elems(b)
    BY <1>3, <1>4
  <2>2. ASSUME NEW i \in 1..Len(a) PROVE a[i] \in Elems(c)
    <3>1. i \in 1..Len(c) /\ c[i] = a[i]
      BY <1>1, <1>2
    <3> QED
      BY <1>3, <3>1
  <2>3. ASSUME NEW i \in 1..Len(b) PROVE b[i] \in Elems(c)
    <3>1. i + Len(a) \in 1..Len(c) /\ ~(i + Len(a) <= Len(a)) /\ (i + Len(a)) - Len(a) = i
      BY <1>1, <1>2
    <3>2. c[i + Len(a)] = b[i]
      BY <1>2, <3>1
    <3> QED
      BY <1>3, <3>1, <3>2
  <2> QED
    BY <1>1, <2>1, <2>2, <2>3
<1>7. Distinct(c)
  BY <1>5 DEF Distinct
<1> QED
  BY <1>2, <1>6, <1>7 DEF c

(* The three queues as one list. *)
LEMMA InvOneQueue ==
    ASSUME QueuesInv
    PROVE  InOneQueue
<1>1. q \in Memory /\ Apart(q) /\ Known(q) /\ (HistoryLength > 0 => Len(q.history) <= HistoryLength)
  BY DEF QueuesInv, Good
<1>2. q.displayed \in Seq(Note) /\ q.waiting \in Seq(Note) /\ q.history \in Seq(Note)
  BY <1>1, MemoryIs
<1>3. \A o \in Held(q) : q.n[o].id > 0 /\ q.n[o].kind \in Kinds
  <2>1. q.next \in Nat
    BY <1>1, MemoryIs
  <2> QED
    BY <1>1, <2>1 DEF Known
<1>4. TypeOK
  BY <1>1, <1>2, <1>3 DEF TypeOK, Known, QueuesInv
<1> DEFINE a == q.displayed \o q.waiting
           b == a \o q.history
<1>5. Distinct(a) /\ a \in Seq(Note) /\ Elems(a) = Elems(q.displayed) \cup Elems(q.waiting)
  BY <1>1, <1>2, JoinedLists DEF Apart
<1> HIDE DEF a
<1>6. Distinct(b) /\ b \in Seq(Note)
  <2>1. Elems(a) \cap Elems(q.history) = {} /\ Distinct(q.history)
    BY <1>1, <1>5 DEF Apart
  <2> QED
    BY <1>2, <1>5, <2>1, JoinedLists
<1> HIDE DEF b
<1>7. DOMAIN b = 1..Len(b)
  BY <1>6, LenProperties
<1>8. IsInjective(b)
  BY <1>6, <1>7 DEF IsInjective, Distinct
<1> QED
  BY <1>4, <1>8 DEF InOneQueue, a, b

(* In every state a notification is once in one queue, for all kinds of    *)
(* notifications, limits and behaviours.                                   *)
THEOREM InOneQueueHolds == Spec => []InOneQueue
<1>1. QueuesInv => InOneQueue
  BY InvOneQueue
<1> QED
  BY <1>1, QueuesHold, PTL

(* The ids in use and the notifications to be signalled belong together    *)
(* one by one.                                                             *)
LEMMA InvClosedOnce ==
    ASSUME QueuesInv, Tidy
    PROVE  IdsClosedOnce
<1> DEFINE valid == {o \in Held(q) : q.n[o].valid}
           f == [o \in valid |-> q.n[o].id]
<1>1. q \in Memory /\ Paired(q) /\ Held(q) \subseteq Note
  BY MemoryIs DEF QueuesInv, Good
<1>2. \A o \in valid : o \in Elems(q.displayed) \cup Elems(q.waiting) /\ q.n[o].id \in q.open
  BY <1>1 DEF Paired
<1>3. \A id \in q.open : \E o \in valid : q.n[o].id = id
  BY <1>1 DEF Paired
<1>4. \A o, p \in valid : q.n[o].id = q.n[p].id => o = p
  BY <1>1 DEF Paired
<1>5. IsFiniteSet(valid)
  <2>1. IsFiniteSet(1..MaxNotes)
    BY DunstAssumption, FS_Interval
  <2>2. valid \subseteq 1..MaxNotes
    BY <1>1 DEF Note
  <2> HIDE DEF valid
  <2> QED
    BY <2>1, <2>2, FS_Subset
<1>6. {q.n[o].id : o \in valid} = q.open
  BY <1>2, <1>3
<1> HIDE DEF valid
<1>7. f \in [valid -> q.open]
  BY <1>2
<1>8. IsInjective(f)
  BY <1>4 DEF IsInjective
<1>9. \A id \in q.open : \E o \in valid : f[o] = id
  BY <1>3
<1> HIDE DEF f
<1>10. f \in Bijection(valid, q.open)
  BY <1>7, <1>8, <1>9 DEF Bijection, Injection, Surjection
<1>11. ExistsBijection(valid, q.open)
  BY <1>10 DEF ExistsBijection
<1>12. Cardinality(q.open) = Cardinality(valid)
  BY <1>5, <1>11, FS_Bijection
<1>13. valid \subseteq Shown \cup Waiting
  BY <1>2 DEF Shown, Waiting
<1> QED
  BY <1>6, <1>12, <1>13 DEF IdsClosedOnce, valid

(* As long as programs replace only ids in use, by notifications with      *)
(* text, each id is closed once.                                           *)
THEOREM IdsClosedOnceHolds == Tidy => (Spec => []IdsClosedOnce)
<1> SUFFICES ASSUME Tidy PROVE Spec => []IdsClosedOnce
  OBVIOUS
<1>1. QueuesInv => IdsClosedOnce
  BY InvClosedOnce
<1> QED
  BY <1>1, QueuesHold, PTL

(* Without a second menu the locks are those of the menu. *)
LEMMA InvLocked ==
    ASSUME QueuesInv, Single
    PROVE  LockedByMenu
<1>1. \A o \in Note : q.n[o].locked => o \in Elems(menu)
  BY DEF QueuesInv, Good, Locks
<1> QED
  BY <1>1 DEF LockedByMenu, QueuesInv

(* A displayed notification that is locked stays through an update. *)
LEMMA LockedStay ==
    ASSUME QueuesInv, Tidy, WakeUp, NEW o \in Shown, q.n[o].locked
    PROVE  o \in Elems(q'.displayed) \cup Elems(q'.waiting)
<1> DEFINE K == {o}
<1>1. Good(q, Note, Locks)
  BY DEF QueuesInv
<1>2. Stay(q, K)
  BY DEF Stay, Shown
<1>3. Tidy => K \subseteq Active(q')
  BY <1>1, <1>2, RunKeeps DEF WakeUp, QueuesInv
<1> QED
  BY <1>3 DEF Active

(* Where no second menu is opened, the locks are those of the menu, and an *)
(* update ends no notification that it offers.                             *)
THEOREM MenuLocksHolds == Tidy /\ Single => (Spec => MenuLocks)
<1> DEFINE A == /\ LockedByMenu'
                /\ WakeUp => \A o \in Shown : q.n[o].locked =>
                      o \in Elems(q'.displayed) \cup Elems(q'.waiting)
<1> SUFFICES ASSUME Tidy, Single PROVE Spec => [][A]_vars
  BY DEF MenuLocks
<1>1. QueuesInv => LockedByMenu
  BY InvLocked
<1>2. QueuesInv /\ LockedByMenu' => [A]_vars
  BY LockedStay
<1> QED
  BY <1>1, <1>2, QueuesHold, PTL DEF Spec

(* The last update used the status that is still in force. *)
LEMMA InvLimit ==
    ASSUME QueuesInv, Steady
    PROVE  LimitHolds
<1>1. LinesFit(q) /\ RoomUsed(q, Status)
  BY DEF QueuesInv, Settled
<1> QED
  BY <1>1 DEF LimitHolds, LinesFit, RoomUsed, Waiting, Ready, Status

(* The window never has more lines than the limit, and where clients are   *)
(* Steady none waits that is ready while there is room.                    *)
THEOREM LimitKept == Steady => (Spec => []LimitHolds)
<1> SUFFICES ASSUME Steady PROVE Spec => []LimitHolds
  OBVIOUS
<1>1. QueuesInv => LimitHolds
  BY InvLimit
<1> QED
  BY <1>1, QueuesHold, PTL

(* The first part needs no hypothesis: whatever programs replace, close    *)
(* and pop, and whichever are suppressed, the lines fit.                   *)
THEOREM LinesAlwaysFit == Spec => []LinesFit(q)
<1>1. QueuesInv => LinesFit(q)
  BY DEF QueuesInv, Settled
<1> QED
  BY <1>1, QueuesHold, PTL

(* The queues are sorted, and what could be swapped has been.              *)
LEMMA InvImportant ==
    ASSUME QueuesInv, Graded, Sound
    PROVE  ImportantFirst
<1>1. (\A o \in Elems(q.waiting) : is_ready(q, Status, o, FALSE)) => Served(q)
  BY DEF QueuesInv, Settled
<1> QED
  BY <1>1 DEF ImportantFirst, Served, ServedBut, Waiting, Shown, Ready, Status

(* Where what takes a place is as urgent as what it takes it from, none    *)
(* waits that is more urgent than one that is displayed, unless some that  *)
(* wait must not be shown for now.                                         *)
THEOREM ImportantFirstHolds == Graded /\ Sound => (Spec => []ImportantFirst)
<1> SUFFICES ASSUME Graded, Sound PROVE Spec => []ImportantFirst
  OBVIOUS
<1>1. QueuesInv => ImportantFirst
  BY InvImportant
<1> QED
  BY <1>1, QueuesHold, PTL
=============================================================================
