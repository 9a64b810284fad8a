------------------------------ MODULE StScreen ------------------------------
(***************************************************************************)
(* The screen of st (st/st.c with the patches for scrollback): two ring    *)
(* buffers of lines, the cursor, the scroll region, the view into the      *)
(* history and the selection.                                              *)
(*                                                                         *)
(* The terminal is one column wide, so that a line is one cell and a       *)
(* written character always reaches the end of its line; nothing else of   *)
(* the code's treatment of columns is left out.  Wide lines are in module  *)
(* StCells.                                                                *)
(***************************************************************************)
EXTENDS Integers, SequencesExt

CONSTANTS HISTSIZE,   (* lines of the main ring buffer                      *)
          MaxRow,     (* bound: rows of the window                          *)
          MaxText,    (* bound: characters written                          *)
          Uses        (* sets of behaviours; each run of st picks one       *)

Behaviours == {"write", "index", "reverse", "region", "origin", "scroll", "insert",
               "delete", "alt", "resize", "view", "select", "reset", "overflow"}

ScreenAssumption ==
    /\ HISTSIZE \in Nat \ {0}
    /\ MaxRow \in 1..HISTSIZE /\ MaxText \in Nat /\ MaxText >= MaxRow
    /\ Uses \subseteq SUBSET Behaviours

Blank == 0                  (* a line holds 0, or the number of the write   *)
NULL  == -1                 (* a slot of the ring without a line            *)
Junk  == -2                 (* a line fresh from malloc                     *)
Text  == 0..MaxText

VARIABLES t,                (* term and sel                                 *)
          uses, written

screenVars == <<t, uses, written>>

-----------------------------------------------------------------------------
(* The macros TSCREEN, TLINEOFFSET and TLINE.                              *)

TLINEOFFSET(b, y) == (y + b.cur - b.off + b.size) % b.size

TSCREEN(s) == s.screen[s.alt]
TLINE(s, y) == TSCREEN(s).buffer[TLINEOFFSET(TSCREEN(s), y)]

LIMIT(x, a, b) == IF x < a THEN a ELSE IF x > b THEN b ELSE x
Least(a, b)    == IF a < b THEN a ELSE b
Most(a, b)     == IF a < b THEN b ELSE a

-----------------------------------------------------------------------------
(* The rows that drawregion has to draw again.                             *)

Rows(s) == 0..(s.row - 1)

tsetdirt(s, top, bot) ==
    [s EXCEPT !.dirty = @ \cup LIMIT(top, 0, s.row - 1)..LIMIT(bot, 0, s.row - 1)]

tfulldirt(s) == tsetdirt(s, 0, s.row - 1)

(* draw, which may come between any two steps: nothing is left to draw. *)
drawregion(s) == [s EXCEPT !.dirty = {}]

-----------------------------------------------------------------------------
(* The selection, of whole lines: sel.ob.x, sel.nb.x and sel.ne.x say no   *)
(* more here than whether there is one.                                    *)

NoSel == [on |-> FALSE, mode |-> "idle", ob |-> 0, oe |-> 0, nb |-> 0, ne |-> 0, alt |-> FALSE]

(* The ends of a selection that is gone are read nowhere. *)
selclear(s) == IF s.sel.on THEN [tsetdirt(s, s.sel.nb, s.sel.ne) EXCEPT !.sel = NoSel] ELSE s

selnormalize(sel) == [sel EXCEPT !.nb = Least(sel.ob, sel.oe), !.ne = Most(sel.ob, sel.oe)]

selected(s, y) ==
    /\ s.sel.mode # "empty" /\ s.sel.on /\ s.sel.alt = s.alt
    /\ y \in s.sel.nb..s.sel.ne

(* Mutant: the selection stays where it is. *)
selscroll_Stays(s, orig, n) ==
    IF s.sel.on /\ s.sel.alt = s.alt /\ (s.sel.nb \in orig..s.bot) # (s.sel.ne \in orig..s.bot)
    THEN selclear(s) ELSE s

selscroll(s, orig, n) ==
    LET first == s.sel.nb \in orig..s.bot
        last  == s.sel.ne \in orig..s.bot
        moved == [s.sel EXCEPT !.ob = @ + n, !.oe = @ + n]
    IN  IF ~s.sel.on \/ s.sel.alt # s.alt THEN s
        ELSE IF first # last THEN selclear(s)
        ELSE IF ~first THEN s
        ELSE IF moved.ob \in s.top..s.bot /\ moved.oe \in s.top..s.bot
             THEN [s EXCEPT !.sel = selnormalize(moved)]
             ELSE selclear(s)

-----------------------------------------------------------------------------
(* Lines and the ring.                                                     *)

TSetLine(s, y, x) ==
    [s EXCEPT !.screen[s.alt].buffer[TLINEOFFSET(TSCREEN(s), y)] = x, !.dirty = @ \cup {y}]

tclearregion(s, y1, y2) ==
    LET a == LIMIT(Least(y1, y2), 0, s.row - 1)
        b == LIMIT(Most(y1, y2), 0, s.row - 1)
        u == IF \E y \in a..b : selected(s, y) THEN selclear(s) ELSE s
        cleared == {TLINEOFFSET(TSCREEN(s), y) : y \in a..b}
    IN  [tsetdirt(u, a, b) EXCEPT
            !.fault = @ \/ \E k \in cleared : TSCREEN(s).buffer[k] = NULL,
            !.screen[s.alt].buffer = [k \in DOMAIN @ |-> IF k \in cleared THEN Blank ELSE @[k]]]

ensureline(x) == IF x = NULL THEN Junk ELSE x

(* Mutant: the lines that scroll into view are not allocated. *)
Ensured_None(b, ys) == b

(* The lines y \in ys of the ring exist. *)
Ensured(b, ys) ==
    LET slots == {TLINEOFFSET(b, y) : y \in ys}
    IN  [b EXCEPT !.buffer = [k \in DOMAIN @ |-> IF k \in slots THEN ensureline(@[k]) ELSE @[k]]]

(* Line y and line y + n change places, for each y of the sequence. *)
Exchanged(b, order, n) ==
    LET after[j \in 0..Len(order)] ==
            IF j = 0 THEN b.buffer
            ELSE LET x == TLINEOFFSET(b, order[j])
                     y == TLINEOFFSET(b, order[j] + n)
                 IN  [after[j - 1] EXCEPT ![x] = after[j - 1][y], ![y] = after[j - 1][x]]
    IN  [b EXCEPT !.buffer = after[Len(order)]]

Ascending(a, b)  == [k \in 1..(b - a + 1) |-> a + k - 1]
Descending(a, b) == [k \in 1..(a - b + 1) |-> a - k + 1]

tscrolldown(s, orig, n0) ==
    LET n == LIMIT(n0, 0, s.bot - orig + 1)
        b == Ensured(TSCREEN(s), (-n)..(-1))
        r == Exchanged(Exchanged(b, Ascending(s.bot + 1, s.row - 1), -n), Ascending(0, orig - 1), -n)
        u == [s EXCEPT !.screen[s.alt] = [r EXCEPT !.cur = (@ + r.size - n) % r.size]]
        v == IF s.alt THEN u ELSE [u EXCEPT !.hist = Most(@ - n, 0)]
    IN  selscroll(tsetdirt(tclearregion(v, orig, orig + n - 1), orig + n - 1, s.bot), orig, n)

(* Mutant: the lines above the region scroll with it. *)
tscrollup_AboveToo(s, orig, n0) ==
    LET n == LIMIT(n0, 0, s.bot - orig + 1)
        b == Ensured(TSCREEN(s), s.row..(s.row + n - 1))
        r == Exchanged(b, Descending(s.row - 1, s.bot + 1), n)
        u == [s EXCEPT !.screen[s.alt] = [r EXCEPT !.cur = (@ + n) % r.size]]
        v == IF s.alt THEN u ELSE [u EXCEPT !.hist = Least(@ + n, HISTSIZE - s.row)]
    IN  selscroll(tsetdirt(tclearregion(v, s.bot - n + 1, s.bot), orig, s.bot - n + 1), orig, -n)

tscrollup(s, orig, n0) ==
    LET n == LIMIT(n0, 0, s.bot - orig + 1)
        b == Ensured(TSCREEN(s), s.row..(s.row + n - 1))
        r == Exchanged(Exchanged(b, Descending(orig - 1, 0), n), Descending(s.row - 1, s.bot + 1), n)
        u == [s EXCEPT !.screen[s.alt] = [r EXCEPT !.cur = (@ + n) % r.size]]
        v == IF s.alt THEN u ELSE [u EXCEPT !.hist = Least(@ + n, HISTSIZE - s.row)]
    IN  selscroll(tsetdirt(tclearregion(v, s.bot - n + 1, s.bot), orig, s.bot - n + 1), orig, -n)

-----------------------------------------------------------------------------
(* The cursor.                                                             *)

tmoveto(s, y) ==
    [s EXCEPT !.c.wrapnext = FALSE,
              !.c.y = IF s.c.origin THEN LIMIT(y, s.top, s.bot) ELSE LIMIT(y, 0, s.row - 1)]

tmoveato(s, y) == tmoveto(s, y + (IF s.c.origin THEN s.top ELSE 0))

tnewline(s) ==
    IF s.c.y = s.bot THEN tmoveto(tscrollup(s, s.top, 1), s.c.y) ELSE tmoveto(s, s.c.y + 1)

CURSOR_SAVE(s) == [s EXCEPT !.screen[s.alt].sc = s.c]
CURSOR_LOAD(s) == LET u == [s EXCEPT !.c = TSCREEN(s).sc] IN tmoveto(u, u.c.y)

tsetscroll(s, a, b) ==
    LET x == LIMIT(a, 0, s.row - 1)
        y == LIMIT(b, 0, s.row - 1)
    IN  [s EXCEPT !.top = Least(x, y), !.bot = Most(x, y)]

(* twrite shows the end of the text again before it looks at a character. *)
twrite(s) ==
    IF TSCREEN(s).off # 0 THEN tfulldirt([s EXCEPT !.screen[s.alt].off = 0]) ELSE s

tputc(s, x) ==
    LET u == IF selected(s, s.c.y) THEN selclear(s) ELSE s
        v == IF u.c.wrapnext THEN tnewline(u) ELSE u
    IN  [TSetLine(v, v.c.y, x) EXCEPT !.c.wrapnext = TRUE]


-----------------------------------------------------------------------------
(* treset, tresize and the view.                                           *)

(* Only the first rows of the buffers are looked at, whatever cur is. *)
treset(s) ==
    LET cleared(b) == [b EXCEPT !.cur = 0, !.off = 0, !.sc = [y |-> 0, wrapnext |-> FALSE, origin |-> FALSE],
                                !.buffer = [k \in DOMAIN @ |-> IF k < s.row THEN Blank ELSE NULL]]
        u == [s EXCEPT !.top = 0, !.bot = s.row - 1, !.alt = FALSE, !.hist = 0,
                       !.fault = @ \/ \E x \in BOOLEAN, k \in Rows(s) : s.screen[x].buffer[k] = NULL,
                       !.screen = [x \in BOOLEAN |-> cleared(@[x])]]
    IN  tfulldirt(CURSOR_LOAD(u))

(* How far the lines move up so that the cursor's stays on the screen. *)
Shift(s, row) == IF row <= s.c.y THEN s.c.y - row + 1 ELSE 0

tresize(s, row) ==
    LET cur   == (s.screen[FALSE].cur + Shift(s, row)) % HISTSIZE
        new   == {(cur + i) % HISTSIZE : i \in s.row..(row - 1)}
        shown == {(cur + i) % HISTSIZE : i \in 0..(row - 1)}
        main  == [s.screen[FALSE] EXCEPT !.cur = cur, !.buffer =
                     [k \in DOMAIN @ |-> IF k \in new THEN Blank
                                         ELSE IF k \in shown THEN ensureline(@[k]) ELSE @[k]]]
        alt   == [s.screen[TRUE] EXCEPT !.cur = 0, !.size = row, !.buffer =
                     [k \in 0..(row - 1) |-> IF k < s.row THEN @[k] ELSE Blank]]
        u     == [s EXCEPT !.screen = [x \in BOOLEAN |-> IF x THEN alt ELSE main], !.row = row,
                           !.hist = Least(@ + Shift(s, row), HISTSIZE - row)]
    IN  tfulldirt(tmoveto(tsetscroll(u, 0, row - 1), s.c.y))

Scrolled(s, n) == tfulldirt(selscroll([s EXCEPT !.screen[s.alt].off = @ + n], 0, n))

(* Page up: as far as a line exists, looking down from a page above. *)
kscrollup(s) ==
    LET room == TSCREEN(s).size - s.row - TSCREEN(s).off
        n    == CHOOSE m \in (-s.row)..Least(s.row, room) :
                    /\ TLINE(s, -m) # NULL
                    /\ \A k \in (m + 1)..Least(s.row, room) : TLINE(s, -k) = NULL
    IN  Scrolled(s, n)

kscrolldown(s) == Scrolled(s, -Least(s.row, TSCREEN(s).off))

selstart(s, y) ==
    [tsetdirt(selclear(s), y, y) EXCEPT
        !.sel = [on |-> TRUE, mode |-> "empty", ob |-> y, oe |-> y, nb |-> y, ne |-> y, alt |-> s.alt]]

selextend(s, y, done) ==
    LET new == selnormalize([s.sel EXCEPT !.oe = y])
        u   == IF y # s.sel.oe \/ s.sel.mode = "empty"
               THEN tsetdirt(s, Least(new.nb, s.sel.nb), Most(new.ne, s.sel.ne)) ELSE s
    IN  IF s.sel.mode = "idle" THEN s
        ELSE IF done /\ s.sel.mode = "empty" THEN selclear(s)
        ELSE [u EXCEPT !.sel = [new EXCEPT !.mode = IF done THEN "idle" ELSE "ready"]]

-----------------------------------------------------------------------------
(* What the program in the terminal writes, one control function a step.   *)

(* Each step begins with the screen as drawn: st may draw before it. *)
shown == drawregion(t)

Output(use, s) == use \in uses /\ t' = s /\ UNCHANGED <<uses, written>>

PutChar ==
    /\ "write" \in uses /\ written < MaxText
    /\ t' = tputc(twrite(shown), written + 1)
    /\ written' = written + 1
    /\ UNCHANGED uses

(* Counts: csiparse makes -1 of a number too big for a long. *)
Counts == IF "overflow" \in uses THEN {-1} ELSE 1..(MaxRow + 1)

CarriageReturn == LET s == twrite(shown) IN Output("write", tmoveto(s, s.c.y))
LineFeed       == LET s == twrite(shown) IN Output("index", tnewline(s))

(* IND and RI *)
Index ==
    LET s == twrite(shown)
    IN  Output("index", IF s.c.y = s.bot THEN tscrollup(s, s.top, 1) ELSE tmoveto(s, s.c.y + 1))
ReverseIndex ==
    LET s == twrite(shown)
    IN  Output("reverse", IF s.c.y = s.top THEN tscrolldown(s, s.top, 1) ELSE tmoveto(s, s.c.y - 1))

(* CUP, CUU, CUD and VPA: every row a parameter can lead to. *)
CursorTo == \E y \in Rows(t) : LET s == twrite(shown) IN Output("index", tmoveato(s, y))

(* DECSTBM, DECOM, SU and SD *)
DECSTBM == \E a, b \in Rows(t) : LET s == twrite(shown) IN
              Output("region", tmoveato(tsetscroll(s, a, b), 0))
DECOM   == \E set \in BOOLEAN : LET s == twrite(shown) IN
              Output("origin", tmoveato([s EXCEPT !.c.origin = set], 0))
SU      == \E n \in Counts : LET s == twrite(shown) IN Output("scroll", tscrollup(s, s.top, n))
SD      == \E n \in Counts : LET s == twrite(shown) IN Output("scroll", tscrolldown(s, s.top, n))

(* IL and DL *)
InRegion(s) == s.c.y \in s.top..s.bot
tinsertblankline == \E n \in Counts : LET s == twrite(shown) IN
    Output("insert", IF InRegion(s) THEN tscrolldown(s, s.c.y, n) ELSE s)
tdeleteline == \E n \in Counts : LET s == twrite(shown) IN
    Output("delete", IF InRegion(s) THEN tscrollup(s, s.c.y, n) ELSE s)

(* ED and EL *)
EraseDisplay ==
    LET s == twrite(shown)
    IN  \/ Output("write", LET u == tclearregion(s, s.c.y, s.c.y)
                           IN  IF s.c.y < s.row - 1 THEN tclearregion(u, s.c.y + 1, s.row - 1) ELSE u)
        \/ Output("write", LET u == IF s.c.y > 0 THEN tclearregion(s, 0, s.c.y - 1) ELSE s
                           IN  tclearregion(u, s.c.y, s.c.y))
        \/ Output("write", tclearregion(s, 0, s.row - 1))
EraseLine == LET s == twrite(shown) IN Output("write", tclearregion(s, s.c.y, s.c.y))

DECSC == Output("alt", CURSOR_SAVE(twrite(shown)))
DECRC == Output("alt", CURSOR_LOAD(twrite(shown)))

(* Modes 47 and 1047 *)
swapscreen(s, set) ==
    LET u == IF s.alt THEN tclearregion(s, 0, s.row - 1) ELSE s
    IN  IF set # s.alt THEN tfulldirt([u EXCEPT !.alt = ~@]) ELSE u
tswapscreen == \E set \in BOOLEAN : Output("alt", swapscreen(twrite(shown), set))

(* Mode 1049: the cursor is saved, or restored, before and after. *)
cursor(s, set) == IF set THEN CURSOR_SAVE(s) ELSE CURSOR_LOAD(s)
tswapscreen1049 == \E set \in BOOLEAN :
    Output("alt", cursor(swapscreen(cursor(twrite(shown), set), set), set))

RIS == Output("reset", treset(twrite(shown)))

-----------------------------------------------------------------------------
(* What the user does.                                                     *)

Resize   == \E row \in 1..MaxRow : Output("resize", tresize(shown, row))
PageUp   == ~t.alt /\ Output("view", kscrollup(shown))
PageDown == ~t.alt /\ Output("view", kscrolldown(shown))

SelStart  == \E y \in Rows(t) : Output("select", selstart(shown, y))
SelExtend == \E y \in Rows(t), done \in BOOLEAN : Output("select", selextend(shown, y, done))
(* setsel, after the release or for OSC 52: another window has claimed the  *)
(* selection meanwhile. *)
SelClear  == Output("select", selclear(shown))

User   == Resize \/ PageUp \/ PageDown \/ SelStart \/ SelExtend \/ SelClear
Stream == \/ PutChar \/ CarriageReturn \/ LineFeed \/ Index \/ ReverseIndex \/ CursorTo
          \/ DECSTBM \/ DECOM \/ SU \/ SD \/ tinsertblankline \/ tdeleteline
          \/ EraseDisplay \/ EraseLine \/ DECSC \/ DECRC \/ tswapscreen \/ tswapscreen1049 \/ RIS

(* tnew *)
NewScreen(row) ==
    LET sc == [y |-> 0, wrapnext |-> FALSE, origin |-> FALSE]
        new(size) == [buffer |-> [k \in 0..(size - 1) |-> IF k < row THEN Blank ELSE NULL],
                      size |-> size, cur |-> 0, off |-> 0, sc |-> sc]
    IN  [row |-> row, screen |-> [x \in BOOLEAN |-> new(IF x THEN row ELSE HISTSIZE)],
         c |-> sc, top |-> 0, bot |-> row - 1, alt |-> FALSE, sel |-> NoSel, hist |-> 0, fault |-> FALSE,
         dirty |-> {}]

(* The program has written a line on each row and gone home. *)
FilledScreen(row) ==
    [NewScreen(row) EXCEPT !.screen[FALSE].buffer = [k \in DOMAIN @ |-> IF k < row THEN k + 1 ELSE NULL]]

ScreenInit ==
    /\ uses \in Uses
    /\ \E row \in 1..MaxRow : t = FilledScreen(row) /\ written = row

ScreenNext == User \/ Stream
ScreenSpec == ScreenInit /\ [][ScreenNext]_screenVars

-----------------------------------------------------------------------------
Cursors == [y : Nat, wrapnext : BOOLEAN, origin : BOOLEAN]

(* The cursor is on the screen, the scroll region is a part of it, and     *)
(* each ring buffer has a start and an offset within it.                   *)
TypeOK ==
    /\ t.row \in 1..MaxRow
    /\ t.c \in Cursors /\ t.c.y \in Rows(t)
    /\ t.top \in Rows(t) /\ t.bot \in t.top..(t.row - 1)
    /\ t.hist \in 0..(HISTSIZE - t.row) /\ t.dirty \subseteq Rows(t)
    /\ \A x \in BOOLEAN : LET b == t.screen[x] IN
          /\ b.size = (IF x THEN t.row ELSE HISTSIZE)
          /\ b.buffer \in [0..(b.size - 1) -> Text \cup {NULL, Junk}]
          /\ b.cur \in 0..(b.size - 1) /\ b.off \in 0..(b.size - 1) /\ b.sc \in Cursors
    /\ written \in 0..MaxText /\ uses \in Uses

(* Every line that the view shows, and every line that is cleared, has      *)
(* been allocated and filled: "Allocate all visible lines" in tresize,     *)
(* "Ensure that lines are allocated" in tscrollup.                         *)
LinesExist == ~t.fault /\ \A y \in Rows(t) : TLINE(t, y) \in Text

SelText(s) == [y \in 0..(s.sel.ne - s.sel.nb) |-> TLINE(s, s.sel.nb + y)]
Selects(s) == s.sel.on /\ s.sel.mode # "empty" /\ s.sel.alt = s.alt

(* A selection that survives a step of the program has gone with its text: *)
(* selscroll moves it as far as the lines.  Left out is the step that      *)
(* writes into the selection.                                              *)
SelectionScrolls ==
    [][Selects(t) /\ Selects(t') /\ t'.c.y \notin t'.sel.nb..t'.sel.ne
         => SelText(t') = SelText(t) \/ User]_screenVars

(* Whatever a step changes on the window, a row's text or its being        *)
(* selected, is drawn again: draw skips the rows that no tsetdirt has      *)
(* marked, and nothing else repairs them.                                  *)
RowsDirtied ==
    [][\A y \in Rows(t) \cap Rows(t') :
          TLINE(t, y) # TLINE(t', y) \/ selected(t, y) # selected(t', y) => y \in t'.dirty]_screenVars

-----------------------------------------------------------------------------
(* The lines that the ring stands for.                                     *)

Line(s, x, y) == LET b == s.screen[x] IN b.buffer[(y + b.cur + b.size) % b.size]

Pages(s)  == [x \in BOOLEAN |-> [k \in 1..s.row |-> Line(s, x, k - 1)]]
Past(s)   == [k \in 1..s.hist |-> Line(s, FALSE, k - 1 - s.hist)]
Region(s) == <<s.top + 1, s.bot + 1>>

Lines == INSTANCE StLines WITH
    page <- Pages(t), onAlt <- t.alt, history <- Past(t), region <- Region(t)

(* What is selected and what is to be drawn again follow the lines.        *)
SelectionKept == SelectionScrolls /\ RowsDirtied

(* The ring buffers hold what StLines says: the lines of both pages and    *)
(* the history are those of a terminal that moves whole lists of lines.    *)
ImplementsLines == Lines!Spec
=============================================================================
