------------------------------ MODULE StLines ------------------------------
(***************************************************************************)
(* What st's screen promises to the program in the terminal and to the     *)
(* user: a page of lines, an alternate page, and the lines that have       *)
(* scrolled off the top of the main page, the newest last.  Module         *)
(* StScreen keeps the same text in a ring buffer.                          *)
(***************************************************************************)
EXTENDS Integers, SequencesExt

CONSTANTS Text,        (* what a line may hold                              *)
          Blank,       (* the text of an empty line                         *)
          HISTSIZE     (* lines of the main page and its history together   *)

LinesAssumption == Blank \in Text /\ HISTSIZE \in Nat \ {0}

VARIABLES page,        (* page[FALSE] is the main page, page[TRUE] the      *)
                       (* alternate one: sequences of lines                 *)
          onAlt,       (* which of them is shown                            *)
          history,     (* lines that scrolled off the main page             *)
          region       (* the first and the last line of what scrolls       *)

lvars == <<page, onAlt, history, region>>

Blanks(n) == [k \in 1..n |-> Blank]

(* The newest lines of h that there is room for beside `row` lines.        *)
Newest(h, row) ==
    IF Len(h) <= HISTSIZE - row THEN h
    ELSE SubSeq(h, Len(h) - (HISTSIZE - row) + 1, Len(h))

Upto(p, k) == SubSeq(p, 1, k)
From(p, k) == SubSeq(p, k, Len(p))

(* The page p after the lines a..b of it moved up, or down, by n.          *)
Up(p, a, b, n)   == Upto(p, a - 1) \o SubSeq(p, a + n, b) \o Blanks(n) \o From(p, b + 1)
Down(p, a, b, n) == Upto(p, a - 1) \o Blanks(n) \o SubSeq(p, a, b - n) \o From(p, b + 1)

Ranges  == {r \in (DOMAIN page[onAlt]) \X (DOMAIN page[onAlt]) : r[1] <= r[2]}

(* What may scroll: the region, or its lines from the cursor's on.         *)
Regions == {r \in Ranges : r[1] >= region[1] /\ r[2] = region[2]}

Margins == UNCHANGED <<page, onAlt, history>> /\ region' \in Ranges

Orders(n) == {f \in [1..n -> 1..n] : \A i, j \in 1..n : i # j => f[i] # f[j]}

(* What leaves the main page becomes history: in its order when the region *)
(* begins with the page, in some order when lines above it stay.           *)
Scrolled(h, p, a, n) ==
    {Newest(h \o [k \in 1..n |-> p[a + f[k] - 1]], Len(p)) :
        f \in IF a = 1 THEN {[k \in 1..n |-> k]} ELSE Orders(n)}

ScrolledUp(a, b, n) ==
    /\ UNCHANGED <<onAlt, region>>
    /\ page' = [page EXCEPT ![onAlt] = Up(@, a, b, n)]
    /\ history' \in IF onAlt THEN {history} ELSE Scrolled(history, page[FALSE], a, n)

ScrollUp == \E r \in Regions : \E n \in 1..(r[2] - r[1] + 1) : ScrolledUp(r[1], r[2], n)

(* A reverse index or an insertion of lines takes as many lines from the   *)
(* history.                                                                *)
ScrollDown ==
    \E r \in Regions : \E n \in 1..(r[2] - r[1] + 1) :
        /\ page' = [page EXCEPT ![onAlt] = Down(@, r[1], r[2], n)]
        /\ history' = IF onAlt THEN history
                      ELSE IF n >= Len(history) THEN <<>> ELSE Upto(history, Len(history) - n)
        /\ UNCHANGED <<onAlt, region>>

(* A character is written, after a scroll when the cursor was at the end   *)
(* of the region's last line.                                              *)
WriteLine ==
    /\ UNCHANGED <<onAlt, region>>
    /\ DOMAIN page'[onAlt] = DOMAIN page[onAlt]
    /\ \/ \E y \in DOMAIN page[onAlt] :
             /\ page' = [page EXCEPT ![onAlt][y] = page'[onAlt][y]]
             /\ UNCHANGED history
       \/ \E r \in Regions : LET p == page[onAlt] IN
             /\ page' = [page EXCEPT ![onAlt] = [Up(p, r[1], r[2], 1) EXCEPT ![r[2]] = page'[onAlt][r[2]]]]
             /\ history' \in IF onAlt THEN {history} ELSE Scrolled(history, p, r[1], 1)

Erase ==
    \E r \in Ranges :
        /\ page' = [page EXCEPT ![onAlt] = Upto(@, r[1] - 1) \o Blanks(r[2] - r[1] + 1) \o From(@, r[2] + 1)]
        /\ UNCHANGED <<onAlt, history, region>>

(* The other page is shown; the alternate page is erased as it is left or  *)
(* shown again.                                                            *)
Swap ==
    /\ onAlt' \in BOOLEAN
    /\ page' = IF onAlt THEN [page EXCEPT ![TRUE] = Blanks(Len(@))] ELSE page
    /\ UNCHANGED <<history, region>>

(* The main page keeps its lines from the k-th on and those before it      *)
(* become history; new lines are blank.  Nothing is promised about the     *)
(* alternate page, which programs draw again.                              *)
Resize ==
    \E row \in 1..HISTSIZE, k \in 0..Len(page[FALSE]) :
        /\ DOMAIN page' = BOOLEAN
        /\ page'[FALSE] = Upto(From(page[FALSE], k + 1) \o Blanks(row), row)
        /\ page'[TRUE] \in [1..row -> Text]
        /\ history' = Newest(history \o Upto(page[FALSE], k), row)
        /\ region' = <<1, row>>
        /\ UNCHANGED onAlt

Reset ==
    /\ page' = [x \in BOOLEAN |-> Blanks(Len(page[x]))]
    /\ onAlt' = FALSE
    /\ history' = <<>>
    /\ region' = <<1, Len(page[FALSE])>>

Init ==
    /\ \E row \in 1..HISTSIZE :
          page[FALSE] \in [1..row -> Text] /\ page[TRUE] = Blanks(row) /\ region = <<1, row>>
    /\ onAlt = FALSE
    /\ history = <<>>

Next == /\ Margins \/ Swap \/ Reset \/ Erase \/ WriteLine \/ ScrollUp \/ ScrollDown \/ Resize
        /\ page' \in [BOOLEAN -> Seq(Text)]

Spec == Init /\ [][Next]_lvars
=============================================================================
