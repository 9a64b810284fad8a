----------------------------- MODULE ClientList -----------------------------
(***************************************************************************)
(* The linked lists of dwm: Monitor.clients (in the order of the layout    *)
(* and of the title bar, linked by Client.next) and Monitor.stack (most    *)
(* recently focused first, linked by Client.snext), as sequences.          *)
(***************************************************************************)
EXTENDS Integers, Sequences

Members(list) == {list[k] : k \in DOMAIN list}

(* No client occurs twice. *)
Distinct(list) == \A j, k \in DOMAIN list : list[j] = list[k] => j = k

PositionOf(list, c) == CHOOSE k \in DOMAIN list : list[k] = c

attach(list, c) == <<c>> \o list

detach(list, c) ==
    LET p == PositionOf(list, c)
    IN  SubSeq(list, 1, p - 1) \o SubSeq(list, p + 1, Len(list))

(* attachx walks the list up to the first client at which it stops: the    *)
(* one before which c belongs, or the one after which it does.             *)
StopsAt(list, c, idx, k) ==
    \/ idx[c] < idx[list[k]]
    \/ /\ idx[list[k]] <= idx[c]
       /\ k = Len(list) \/ idx[c] <= idx[list[k + 1]]

(* Mutant: only clients without a successor are inserted after. *)
attachx_Last(list, c, idx) ==
    IF idx[c] > 0 /\ list # <<>> THEN Append(list, c) ELSE attach(list, c)

(* A client without an index (0) becomes the first.  A client that belongs *)
(* before the k-th is linked to it and made the first of the list, which   *)
(* drops those before the k-th, if there are any.                          *)
attachx(list, c, idx) ==
    IF idx[c] > 0 /\ list # <<>>
    THEN LET k == CHOOSE i \in DOMAIN list :
                    /\ StopsAt(list, c, idx, i)
                    /\ \A j \in 1..(i - 1) : ~StopsAt(list, c, idx, j)
         IN  IF idx[c] < idx[list[k]]
             THEN attach(SubSeq(list, k, Len(list)), c)
             ELSE SubSeq(list, 1, k) \o <<c>> \o SubSeq(list, k + 1, Len(list))
    ELSE attach(list, c)
=============================================================================
