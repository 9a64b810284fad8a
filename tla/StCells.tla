------------------------------ MODULE StCells ------------------------------
(***************************************************************************)
(* The cells of st's lines (st/st.c): characters one or two cells wide are *)
(* put on the screen, lines wrap, and the user selects characters, words   *)
(* or lines and copies them.  Scrolling only drops the first line here;    *)
(* how lines move is in module StScreen.                                   *)
(***************************************************************************)
EXTENDS Integers, SequencesExt

CONSTANTS Cols, CellRows, (* the size of the window                         *)
          MaxTyped,       (* bound: characters and line ends written        *)
          MaxEdited,      (* the same bound when lines are edited too       *)
          CellUses        (* sets of behaviours; each run of st picks one   *)

CellBehaviours == {"type", "blank", "wide", "move", "delete", "insert", "erase", "modes", "tab"}

CellsAssumption ==
    /\ Cols \in Nat /\ Cols >= 2 /\ CellRows \in Nat \ {0} /\ MaxTyped \in Nat /\ MaxEdited \in Nat
    /\ CellUses \subseteq SUBSET CellBehaviours

(* "a" and "b" are letters, "W" is a character two cells wide, "blank"     *)
(* also is the one word delimiter (config.h), "nul" is in the second cell  *)
(* of a wide character.                                                    *)
Letters == {"a", "b"}
Runes   == Letters \cup {"W", "blank", "nul"}
Modes   == {"WRAP", "WIDE", "WDUMMY"}

wcwidth(u) == IF u = "W" THEN 2 ELSE 1
ISDELIM(u) == u = "blank"

Column == 0..(Cols - 1)
Row    == 0..(CellRows - 1)
Cell   == Row \X Column              (* <<y, x>>                            *)

VARIABLES m,        (* the screen                                           *)
          typed,    (* what the program has written, "nl" for a line end    *)
          where,    (* where each of it is                                  *)
          cuses

cvars == <<m, typed, where, cuses>>

Clear == [u |-> "blank", mode |-> {}]

Clamp(v, lo, hi) == IF v < lo THEN lo ELSE IF v > hi THEN hi ELSE v
Smaller(v, w)    == IF v < w THEN v ELSE w

-----------------------------------------------------------------------------
(* The cursor and the characters.                                          *)

Moved(s, x, y) ==
    [s EXCEPT !.x = Clamp(x, 0, Cols - 1), !.y = Clamp(y, 0, CellRows - 1), !.wrapnext = FALSE]

(* lost counts the lines that have scrolled away. *)
NewLine(s, first_col) ==
    LET x == IF first_col THEN 0 ELSE s.x
    IN  IF s.y = CellRows - 1
        THEN Moved([s EXCEPT !.lost = @ + 1, !.line =
                       [y \in Row |-> IF y = CellRows - 1 THEN [k \in Column |-> Clear] ELSE @[y + 1]]],
                   x, s.y)
        ELSE Moved(s, x, s.y + 1)

(* The other half of a wide character that is overwritten becomes blank.   *)
(* There is no cell before the first one: the code would write in front of *)
(* the line.                                                               *)
Widow(line, x) ==
    IF "WIDE" \in line[x].mode
    THEN IF x + 1 < Cols
         THEN [line EXCEPT ![x + 1] = [u |-> "blank", mode |-> @.mode \ {"WDUMMY"}]] ELSE line
    ELSE IF "WDUMMY" \in line[x].mode /\ x > 0
    THEN [line EXCEPT ![x - 1] = [u |-> "blank", mode |-> @.mode \ {"WIDE"}]]
    ELSE line

tsetchar(s, u, x, y) ==
    [s EXCEPT !.line[y] = [Widow(@, x) EXCEPT ![x] = [u |-> u, mode |-> {}]]]

(* The second cell of a wide character. *)
Dummy(line, x) ==
    LET gp2 == IF line[x + 1].mode = {"WIDE"} /\ x + 2 < Cols
               THEN [line EXCEPT ![x + 2] = [u |-> "blank", mode |-> @.mode \ {"WDUMMY"}]]
               ELSE line
    IN  [gp2 EXCEPT ![x + 1] = [u |-> "nul", mode |-> {"WDUMMY"}]]

(* Insert mode: the cells from the cursor on move right. *)
Insert(s, width) ==
    IF ~s.insert \/ s.x + width >= Cols THEN s
    ELSE [s EXCEPT !.line[s.y] =
             [k \in Column |-> IF k < s.x + width
                               THEN (IF k = s.x THEN [@[k] EXCEPT !.mode = @ \ {"WIDE"}] ELSE @[k])
                               ELSE @[k - width]]]

(* Mutant: the line that is continued is not marked. *)
Wrapped_NoMark(s) ==
    IF ~(s.wrap /\ s.wrapnext) THEN s
    ELSE NewLine(s, TRUE)

Wrapped(s) ==
    IF ~(s.wrap /\ s.wrapnext) THEN s
    ELSE NewLine([s EXCEPT !.line[s.y][s.x].mode = @ \cup {"WRAP"}], TRUE)

(* A wide character with one cell left begins the next line. *)
Fitted(s, width) ==
    IF s.x + width <= Cols THEN s
    ELSE IF s.wrap THEN NewLine(s, TRUE) ELSE Moved(s, Cols - width, s.y)

(* The end of tputc. *)
Placed(s, u, width) ==
    LET c == tsetchar(s, u, s.x, s.y)
        w == IF width = 2
             THEN [c EXCEPT !.line[s.y] =
                      LET marked == [@ EXCEPT ![s.x].mode = @ \cup {"WIDE"}]
                      IN  IF s.x + 1 < Cols THEN Dummy(marked, s.x) ELSE marked]
             ELSE c
    IN  IF s.x + width < Cols THEN Moved(w, s.x + width, s.y) ELSE [w EXCEPT !.wrapnext = TRUE]

tputc(s, u) == Placed(Fitted(Insert(Wrapped(s), wcwidth(u)), wcwidth(u)), u, wcwidth(u))

tclearregion(s, x1, x2, y) ==
    [s EXCEPT !.line[y] = [k \in Column |-> IF k \in x1..x2 THEN Clear ELSE @[k]]]

tdeletechar(s, n) ==
    tclearregion([s EXCEPT !.line[s.y] =
                     [k \in Column |-> IF k \in s.x..(Cols - n - 1) THEN @[k + n] ELSE @[k]]],
                 Cols - n, Cols - 1, s.y)

tinsertblank(s, n) ==
    tclearregion([s EXCEPT !.line[s.y] =
                     [k \in Column |-> IF k >= s.x + n THEN @[k - n] ELSE @[k]]],
                 s.x, s.x + n - 1, s.y)

(* tabspaces is 8; a tab leaves CURSOR_WRAPNEXT as it is. *)
Tabs == {x \in Column : x > 0 /\ x % 2 = 0}

tputtab(s, n) ==
    LET stops == IF n > 0 THEN {x \in Tabs : x > s.x} \cup {Cols - 1}
                 ELSE {x \in Tabs : x < s.x} \cup {0}
    IN  [s EXCEPT !.x = CHOOSE x \in stops : \A k \in stops : IF n > 0 THEN x <= k ELSE k <= x]

-----------------------------------------------------------------------------
(* What is selected: whole words or lines when the click was double or     *)
(* triple.  A place is the number of its cell in reading order.            *)

At(y, x)    == y * Cols + x
Glyph(s, i) == s.line[i \div Cols][i % Cols]
Places      == 0..(CellRows * Cols - 1)

tlinelen(s, y) ==
    LET used == {x \in Column : s.line[y][x].u # "blank"}
    IN  IF "WRAP" \in s.line[y][Cols - 1].mode THEN Cols
        ELSE IF used = {} THEN 0 ELSE 1 + CHOOSE x \in used : \A k \in used : k <= x

(* The word goes on from place i to its neighbour j. *)
Snaps(s, i, j) ==
    LET from == Glyph(s, i)
        to   == Glyph(s, j)
        y    == Smaller(i, j) \div Cols
    IN  /\ i \div Cols = j \div Cols \/ "WRAP" \in s.line[y][Cols - 1].mode
        /\ j % Cols < tlinelen(s, j \div Cols)
        /\ \/ "WDUMMY" \in to.mode
           \/ ISDELIM(from.u) = ISDELIM(to.u) /\ (ISDELIM(to.u) => from.u = to.u)

Continues(s, y) == "WRAP" \in s.line[y][Cols - 1].mode

selsnap(s, i, direction, snap) ==
    IF snap = "none" THEN i
    ELSE IF direction < 0
    THEN CHOOSE j \in 0..i :
             IF snap = "word"
             THEN /\ \A k \in (j + 1)..i : Snaps(s, k, k - 1)
                  /\ j > 0 => ~Snaps(s, j, j - 1)
             ELSE /\ j % Cols = 0 /\ (j > 0 => ~Continues(s, j \div Cols - 1))
                  /\ \A y \in (j \div Cols)..(i \div Cols - 1) : Continues(s, y)
    ELSE CHOOSE j \in i..(CellRows * Cols - 1) :
             IF snap = "word"
             THEN /\ \A k \in i..(j - 1) : Snaps(s, k, k + 1)
                  /\ j < CellRows * Cols - 1 => ~Snaps(s, j, j + 1)
             ELSE /\ j % Cols = Cols - 1 /\ (j < CellRows * Cols - 1 => ~Continues(s, j \div Cols))
                  /\ \A y \in (i \div Cols)..(j \div Cols - 1) : Continues(s, y)

(* A regular selection that was begun at ob and ends at oe, expanded over  *)
(* line breaks. *)
selnormalize(s, ob, oe, snap) ==
    LET nb  == selsnap(s, Smaller(ob, oe), -1, snap)
        ne  == selsnap(s, ob + oe - Smaller(ob, oe), 1, snap)
        nby == nb \div Cols
        ney == ne \div Cols
    IN  [nb |-> IF tlinelen(s, nby) < nb % Cols THEN At(nby, tlinelen(s, nby)) ELSE nb,
         ne |-> IF tlinelen(s, ney) <= ne % Cols THEN At(ney, Cols - 1) ELSE ne]

(* The text of columns x1..x2 of a line.  Blanks at the end are left out,  *)
(* and what precedes them says whether the line goes on; before column 0   *)
(* it is whatever the memory holds.                                        *)
LineText(s, y, x1, x2, isLast, junk) ==
    LET linelen == tlinelen(s, y)
        end     == Smaller(x2, linelen - 1)
        last    == CHOOSE k \in (Smaller(x1 - 1, end))..end :
                       /\ k < x1 \/ s.line[y][k].u # "blank"
                       /\ \A n \in (k + 1)..end : s.line[y][n].u = "blank"
        shown   == SelectSeq([k \in 1..(last - x1 + 1) |-> s.line[y][x1 + k - 1]],
                             LAMBDA gp : "WDUMMY" \notin gp.mode)
        goesOn  == IF last < 0 THEN junk ELSE "WRAP" \in s.line[y][last].mode
    IN  IF linelen = 0 THEN <<"nl">>
        ELSE [k \in DOMAIN shown |-> shown[k].u]
             \o (IF (~isLast \/ x2 >= linelen) /\ ~goesOn THEN <<"nl">> ELSE <<>>)

getsel(s, sel, junk) ==
    LET y1 == sel.nb \div Cols
        y2 == sel.ne \div Cols
    IN  FlattenSeq([k \in 1..(y2 - y1 + 1) |->
            LET y == y1 + k - 1
            IN  LineText(s, y, IF y = y1 THEN sel.nb % Cols ELSE 0,
                         IF y = y2 THEN sel.ne % Cols ELSE Cols - 1, y = y2, junk)])

-----------------------------------------------------------------------------
(* The program.                                                            *)

(* Text that is edited afterwards is not kept, only counted. *)
Kept == cuses \subseteq {"type", "blank"}

Written(u, s, place) ==
    /\ Len(typed) < (IF Kept THEN MaxTyped ELSE MaxEdited)
    /\ m' = s
    /\ typed' = Append(typed, IF Kept THEN u ELSE "nl")
    /\ where' = LET up == Cols + 1
                IN  IF Kept THEN Append([k \in DOMAIN where |-> where[k] - (s.lost - m.lost) * up], place)
                    ELSE where
    /\ UNCHANGED cuses

(* A line end is in the place after the last character of its line. *)
PlaceOf(y, x) == y * (Cols + 1) + x

Put ==
    \E u \in (IF Kept THEN Letters ELSE {"a"}) \cup (IF "blank" \in cuses THEN {"blank"} ELSE {})
                     \cup (IF "wide" \in cuses THEN {"W"} ELSE {}) :
        LET f == Fitted(Insert(Wrapped(m), wcwidth(u)), wcwidth(u))
        IN  Written(u, tputc(m, u), PlaceOf(f.y, f.x))

(* CR and LF *)
LineEnd ==
    LET s == NewLine(m, TRUE)
    IN  Written("nl", s, PlaceOf(m.y, IF m.wrapnext THEN Cols ELSE m.x) - (s.lost - m.lost) * (Cols + 1))

Edit(use, s) == use \in cuses /\ m' = s /\ UNCHANGED <<typed, where, cuses>>

MoveTo     == \E c \in Cell : Edit("move", Moved(m, c[2], c[1]))
DCH        == \E n \in 1..(Cols - m.x) : Edit("delete", tdeletechar(m, n))
ICH        == \E n \in 1..(Cols - m.x) : Edit("insert", tinsertblank(m, n))
ECH        == \E n \in 1..(Cols - m.x) : Edit("erase", tclearregion(m, m.x, m.x + n - 1, m.y))
EL         == \E b \in {<<m.x, Cols - 1>>, <<0, m.x>>, <<0, Cols - 1>>} :
                  Edit("erase", tclearregion(m, b[1], b[2], m.y))
IRM        == Edit("modes", [m EXCEPT !.insert = ~@])
DECAWM     == Edit("modes", [m EXCEPT !.wrap = ~@])
Tab        == \E n \in {-1, 1} : Edit("tab", tputtab(m, n))

Init ==
    /\ cuses \in CellUses
    /\ m = [line |-> [y \in Row |-> [x \in Column |-> Clear]], x |-> 0, y |-> 0,
            wrapnext |-> FALSE, wrap |-> TRUE, insert |-> FALSE, lost |-> 0]
    /\ typed = <<>> /\ where = <<>>

Next == Put \/ LineEnd \/ MoveTo \/ DCH \/ ICH \/ ECH \/ EL \/ IRM \/ DECAWM \/ Tab

Spec == Init /\ [][Next]_cvars

-----------------------------------------------------------------------------
CellsTypeOK ==
    /\ m.line \in [Row -> [Column -> [u : Runes, mode : SUBSET Modes]]]
    /\ m.x \in Column /\ m.y \in Row
    /\ m.wrapnext \in BOOLEAN /\ m.wrap \in BOOLEAN /\ m.insert \in BOOLEAN

NoLineEnds(text) ==
    LET used == {k \in DOMAIN text : text[k] # "nl"}
    IN  IF used = {} THEN <<>> ELSE SubSeq(text, 1, CHOOSE k \in used : \A n \in used : n <= k)

(* What was typed in the places a..b. *)
Typed(a, b) ==
    LET ks == {k \in DOMAIN typed : where[k] \in a..b}
    IN  IF ks = {} THEN <<>>
        ELSE SubSeq(typed, CHOOSE k \in ks : \A n \in ks : k <= n, CHOOSE k \in ks : \A n \in ks : n <= k)

(* A place after the end of a line stands for the line end. *)
Start(i) ==
    LET p    == PlaceOf(i \div Cols, i % Cols)
        ends == {k \in DOMAIN typed : typed[k] = "nl" /\ where[k] \in PlaceOf(i \div Cols, 0)..p}
    IN  IF ends = {} THEN p ELSE where[CHOOSE k \in ends : TRUE]

(* Whatever is selected with the mouse, in either direction and over lines *)
(* that the terminal has wrapped, is copied as the program wrote it,       *)
(* without line ends of the terminal's own (getsel; line ends after the    *)
(* text are left aside).                                                   *)
CopyIsTyped ==
    cuses = {"type"} => \A ob, oe \in Places :
        LET sel == selnormalize(m, ob, oe, "none")
        IN  NoLineEnds(getsel(m, sel, FALSE))
              = NoLineEnds(Typed(Start(Smaller(ob, oe)),
                                 PlaceOf((ob + oe - Smaller(ob, oe)) \div Cols,
                                         (ob + oe - Smaller(ob, oe)) % Cols)))

(* The letters around the k-th that was typed. *)
WordOf(k) ==
    {n \in DOMAIN typed : \A j \in Smaller(k, n)..(k + n - Smaller(k, n)) : typed[j] \in Letters}

(* A double click on any letter of a word selects the word that was typed, *)
(* wherever lines wrap (selsnap).                                          *)
WordIsTyped ==
    Kept =>
        \A k \in DOMAIN typed :
            LET i == At(where[k] \div (Cols + 1), where[k] % (Cols + 1))
            IN  (typed[k] \in Letters /\ \A n \in WordOf(k) : where[n] >= 0) =>
                    getsel(m, selnormalize(m, i, i, "word"), FALSE)
                        = [n \in 1..Cardinality(WordOf(k)) |->
                              typed[n - 1 + CHOOSE j \in WordOf(k) : \A l \in WordOf(k) : j <= l]]

(* No cell without a character escapes the mark of the second half of a    *)
(* wide one: getsel would end the copied text there.                       *)
CopyNotCut == \A i \in Places : Glyph(m, i).u = "nul" => "WDUMMY" \in Glyph(m, i).mode
=============================================================================
