------------------------------- MODULE StDraw -------------------------------
(***************************************************************************)
(* How st draws (st/x.c, and draw of st/st.c): the rows marked dirty, the  *)
(* cursor that is taken off one cell and put on another, the pixmap, and   *)
(* the window to which it is copied while the X server covers, uncovers    *)
(* and resizes it.                                                         *)
(*                                                                         *)
(* A picture has a square for each cell and one for each piece of the      *)
(* border next to it: columns 0 and col + 1, rows 0 and row + 1.  What the *)
(* program writes is a whole row at once, marked dirty as StScreen shows   *)
(* every operation to do.                                                  *)
(***************************************************************************)
EXTENDS Integers, SequencesExt, FiniteSetsExt

CONSTANTS RowTexts,      (* rows that programs write                            *)
          Grid,          (* columns and rows of a window for each font size     *)
          InFont,        (* runes that the fonts of config.h have               *)
          Fallback,      (* runes of the font that fontconfig finds for a rune  *)
          Selections,    (* sets of cells that may be highlighted               *)
          MaxDraws,      (* bound: steps of a behaviour                         *)
          DrawUses       (* sets of behaviours; each run of st picks one        *)

DrawBehaviours == {"write", "move", "wide", "select", "mode", "blink", "blink anywhere", "cover",
                   "resize", "zoom", "colour", "colour reset", "view", "focus"}

DrawAssumption ==
    /\ MaxDraws \in Nat /\ DrawUses \subseteq SUBSET DrawBehaviours
    /\ \A r \in RowTexts : \A i \in DOMAIN r :
           ("wide" \in r[i].mode) = (i < Len(r) /\ r[i + 1].mode = {"dummy"})
    /\ \A r \in DOMAIN Fallback : Fallback[r] = {} \/ r \in Fallback[r]

VARIABLES
    term,     (* screen, cursor, ocx and ocy, dirty, off, sel                *)
    win,      (* modes, cursor style, size in cells, font size, palette      *)
    dc,       (* the pixmap and the font cache frc                           *)
    xsrv,     (* the window's size, whether it is covered, what it shows,    *)
              (* events that st has not read                                 *)
    idle,     (* run() has drawn and nothing has happened since              *)
    draws, duses

drawVars == <<term, win, dc, xsrv, idle, draws, duses>>

Does(u) == u \in duses

Blank(mode) == [u |-> " ", mode |-> mode, fg |-> "fg", bg |-> "bg"]
MaxCols     == Len(CHOOSE r \in RowTexts : TRUE)
Cleared     == [i \in 1..MaxCols |-> Blank({})]

-----------------------------------------------------------------------------
(* Colours: an entry of the palette as it was when drawn, inverted, halved. *)

Colour(i, w)  == [of |-> i, since |-> w.palette, inverted |-> FALSE, halved |-> FALSE]
Inverted(c)   == [c EXCEPT !.inverted = ~@]
Background(w) == Colour(IF "reverse" \in w.mode THEN "fg" ELSE "bg", w)

ForReverse(c, i, j, w) == IF c = Colour(i, w) THEN Colour(j, w) ELSE Inverted(c)

Bright(base, w) ==
    IF "bold" \in base.mode /\ "faint" \notin base.mode /\ base.fg = "red"
    THEN Colour("bright red", w) ELSE Colour(base.fg, w)

Reversed(c, w) ==
    IF "reverse" \in w.mode
    THEN [fg |-> ForReverse(c.fg, "fg", "bg", w), bg |-> ForReverse(c.bg, "bg", "fg", w)] ELSE c

Faint(c, base) ==
    IF "faint" \in base.mode /\ "bold" \notin base.mode THEN [c EXCEPT !.fg.halved = TRUE] ELSE c

Swapped(c, base) == IF "reverse" \in base.mode THEN [fg |-> c.bg, bg |-> c.fg] ELSE c

Hidden(c, base, w) ==
    IF ("blink" \in base.mode /\ "blink" \in w.mode) \/ "invisible" \in base.mode
    THEN [c EXCEPT !.fg = c.bg] ELSE c

Colours(base, w) ==
    Hidden(Swapped(Faint(Reversed([fg |-> Bright(base, w), bg |-> Colour(base.bg, w)], w), base), base), base, w)

-----------------------------------------------------------------------------
(* Fonts.  The style is the font of the four that config.h's font has; a    *)
(* rune that it lacks is looked for in the cache, then with fontconfig.     *)

Style(mode) == mode \cap {"bold", "italic"}
Wide(mode)  == IF "wide" \in mode THEN 2 ELSE 1

Cached(frc, u, style) ==
    SelectInSeq(frc, LAMBDA f : f.style = style /\ (u \in f.runes \/ f.asked = u))

frc_lookup(frc, u, style) ==
    IF u \in InFont \/ Cached(frc, u, style) # 0 THEN frc
    ELSE Append(frc, [style |-> style, runes |-> Fallback[u], asked |-> u])

(* Glyphs with their places, and the cache.  A rune of two columns moves    *)
(* those after it by two; its dummy is skipped.                             *)
xmakeglyphfontspecs(frc, glyphs, x1) ==
    FoldLeft(LAMBDA a, g :
                 IF g.mode = {"dummy"} THEN a
                 ELSE [frc |-> frc_lookup(a.frc, g.u, Style(g.mode)), xp |-> a.xp + Wide(g.mode),
                       specs |-> Append(a.specs, [u |-> g.u, style |-> Style(g.mode), at |-> a.xp,
                                                  wide |-> Wide(g.mode)])],
             [frc |-> frc, xp |-> x1, specs |-> <<>>], glyphs)

-----------------------------------------------------------------------------
(* Drawing.                                                                 *)

Squares(w) == (0..(w.col + 1)) \X (0..(w.row + 1))
Border(w)  == [glyph |-> "none", bg |-> Background(w), over |-> "none"]

xclear(pix, w, S) == [s \in DOMAIN pix |-> IF s \in S THEN Border(w) ELSE pix[s]]

(* The borders next to what is drawn.                                       *)
Edges(w, x, y, width) ==
    LET rows == {y} \cup (IF y = 1 THEN {0} ELSE {}) \cup (IF y = w.row THEN {w.row + 1} ELSE {})
        cols == x..(x + width - 1)
    IN  {<<i, j>> \in Squares(w) :
            \/ x = 1 /\ i = 0 /\ j \in rows
            \/ x + width > w.col /\ i >= x + width /\ j \in rows
            \/ i \in cols /\ j \in rows \ {y}}

(* Glyphs are clipped to the rectangle of the run they are drawn with.      *)
GlyphOn(specs, i) ==
    LET S == SelectSeq(specs, LAMBDA s : i \in s.at..(s.at + s.wide - 1))
    IN  IF S = <<>> THEN "none" ELSE Last(S)

DrawnOn(pix, w, specs, lines, c, x, y, width) ==
    [s \in DOMAIN pix |->
        IF s[2] = y /\ s[1] \in x..(x + width - 1)
        THEN [glyph |-> [spec |-> GlyphOn(specs, s[1]), font |-> w.font, fg |-> c.fg, lines |-> lines],
              bg |-> c.bg, over |-> "none"]
        ELSE xclear(pix, w, Edges(w, x, y, width))[s]]

xdrawglyphfontspecs(pix, w, specs, base, x, y) ==
    DrawnOn(pix, w, specs, base.mode \cap {"underline", "struck"}, Colours(base, w), x, y,
            Len(specs) * Wide(base.mode))

GlyphDrawn(d, w, made, g, x, y) ==
    [pix |-> xdrawglyphfontspecs(d.pix, w, made.specs, g, x, y), frc |-> made.frc]

xdrawglyph(d, w, g, x, y) ==
    GlyphDrawn(d, w, xmakeglyphfontspecs(d.frc, <<g>>, x), g, x, y)

selected(x, y) == <<x, y>> \in term.sel
XorReverse(g) == [g EXCEPT !.mode = IF "reverse" \in @ THEN @ \ {"reverse"} ELSE @ \cup {"reverse"}]
Seen(g, x, y) == IF selected(x, y) THEN XorReverse(g) ELSE g

Same(a, b) == a.mode = b.mode /\ a.fg = b.fg /\ a.bg = b.bg

(* Runs of glyphs that look alike are drawn at once.                        *)
Places(line, w) == SelectSeq([i \in 1..w.col |-> i], LAMBDA i : line[i].mode # {"dummy"})
Glyphs(line, places, y) == [n \in DOMAIN places |-> Seen(line[places[n]], places[n], y)]
Starts(glyphs) ==
    SelectSeq([n \in DOMAIN glyphs |-> n], LAMBDA n : n = 1 \/ ~Same(glyphs[n - 1], glyphs[n]))

RunsDrawn(d, w, made, places, glyphs, starts, y) ==
    [pix |-> FoldLeft(LAMBDA pix, n :
                          xdrawglyphfontspecs(pix, w,
                              SubSeq(made.specs, n, Min({i \in Range(starts) : i > n} \cup {Len(places) + 1}) - 1),
                              glyphs[n], places[n], y),
                      d.pix, starts),
     frc |-> made.frc]

GlyphsDrawn(d, w, made, places, glyphs, y) == RunsDrawn(d, w, made, places, glyphs, Starts(glyphs), y)
PlacesDrawn(d, w, line, places, y) ==
    GlyphsDrawn(d, w, xmakeglyphfontspecs(d.frc, SubSeq(line, 1, w.col), 1), places, Glyphs(line, places, y), y)

xdrawline(d, w, line, y) == PlacesDrawn(d, w, line, Places(line, w), y)

(* The cursor's colours do not follow the glyph's.                          *)
CursorGlyph(g, w, at) ==
    LET kept == g.mode \cap {"bold", "italic", "underline", "struck", "wide"}
        on   == selected(at[1], at[2])
    IN  IF "reverse" \in w.mode
        THEN [u |-> g.u, mode |-> kept \cup {"reverse"}, bg |-> "fg", fg |-> IF on THEN "rcs" ELSE "cs"]
        ELSE [u |-> g.u, mode |-> kept, fg |-> IF on THEN "fg" ELSE "bg", bg |-> IF on THEN "rcs" ELSE "cs"]

CursorColour(w, at) ==
    Colour(IF selected(at[1], at[2]) = ("reverse" \in w.mode) THEN "cs" ELSE "rcs", w)

PutCursor(d, w, g, at) ==
    IF "hide" \in w.mode THEN d
    ELSE IF "focused" \in w.mode /\ w.cursor = "block" THEN xdrawglyph(d, w, CursorGlyph(g, w, at), at[1], at[2])
    ELSE [d EXCEPT !.pix[at].over =
              [shape |-> IF "focused" \in w.mode THEN w.cursor ELSE "frame", colour |-> CursorColour(w, at)]]

xdrawcursor_NoErase(d, w, g, at, og, oat) == PutCursor(d, w, g, at)

xdrawcursor(d, w, g, at, og, oat) ==
    PutCursor(xdrawglyph(d, w, Seen(og, oat[1], oat[2]), oat[1], oat[2]), w, g, at)

-----------------------------------------------------------------------------
(* draw.  With off the lines above the screen are shown, and no cursor.     *)

Past == [i \in 1..MaxCols |-> [Blank({}) EXCEPT !.u = "p"]]

TLINE(tm, y) == IF y <= tm.off THEN Past ELSE tm.screen[y - tm.off]

drawregion(d, w, tm) ==
    FoldLeft(LAMBDA a, y : IF y \in tm.dirty THEN xdrawline(a, w, TLINE(tm, y), y) ELSE a,
             d, [y \in 1..w.row |-> y])

Limit(v, hi) == IF v > hi THEN hi ELSE v

OffDummy(tm, at) == IF "dummy" \in TLINE(tm, at[2])[at[1]].mode THEN <<at[1] - 1, at[2]>> ELSE at
OldCursor(tm, w) == OffDummy(tm, <<Limit(tm.ocx, w.col), Limit(tm.ocy, w.row)>>)
Cursor(tm)       == OffDummy(tm, <<tm.cx, tm.cy>>)

Drawn(d, w, tm, at, oat) ==
    IF tm.off # 0 THEN drawregion(d, w, tm)
    ELSE xdrawcursor(drawregion(d, w, tm), w, TLINE(tm, at[2])[at[1]], at, TLINE(tm, oat[2])[oat[1]], oat)

Copied(srv, d) == [srv EXCEPT !.shown = IF srv.covered THEN {} ELSE {d.pix}]

(* A step of st leaves term, win and dc as given, and draws if it must.     *)
Leave(tm, w, d, s) == term' = tm /\ win' = w /\ dc' = d /\ xsrv' = s

draw(tm, w, d, s) ==
    IF "visible" \notin w.mode THEN Leave(tm, w, d, s)
    ELSE \E made \in {Drawn(d, w, tm, Cursor(tm), OldCursor(tm, w))} :
             Leave([tm EXCEPT !.dirty = {}, !.ocx = Cursor(tm)[1], !.ocy = Cursor(tm)[2]],
                   w, made, Copied(s, made))

tfulldirt(tm, w) == [tm EXCEPT !.dirty = 1..w.row]
redraw(tm, w, d, s) == draw(tfulldirt(tm, w), w, d, s)

Busy(use) ==
    /\ draws < MaxDraws /\ Does(use)
    /\ draws' = draws + 1 /\ idle' = FALSE /\ UNCHANGED duses

-----------------------------------------------------------------------------
(* The program, and the user.                                               *)

(* twrite goes back to the screen before anything is written.               *)
twrite(tm, w) == IF tm.off # 0 THEN tfulldirt([tm EXCEPT !.off = 0], w) ELSE tm

Write ==
    /\ Busy("write")
    /\ \E y \in 1..win.row, r \in RowTexts :
           /\ ("wide" \in duses \/ \A i \in DOMAIN r : "wide" \notin r[i].mode)
           /\ (\E i \in DOMAIN r : "blink" \in r[i].mode) =>
                  \/ Does("blink anywhere")
                  \/ Does("blink") /\ y < win.row /\ "blink" \notin r[win.col].mode
           /\ LET tm == twrite(term, win)
              IN  Leave([tm EXCEPT !.screen[y] = r, !.dirty = @ \cup {y}], win, dc, xsrv)

MoveCursor ==
    /\ Busy("move")
    /\ \E cx \in 1..win.col, cy \in 1..win.row :
           Leave([twrite(term, win) EXCEPT !.cx = cx, !.cy = cy], win, dc, xsrv)

RowsOf(S) == {s[2] : s \in S}
Between(S) == IF S = {} THEN {} ELSE Min(S)..Max(S)

(* The rows from the first to the last of both, as far as they exist.       *)
selextend(tm, S) ==
    [tm EXCEPT !.sel = S, !.dirty = @ \cup (Between(RowsOf(S \cup tm.sel)) \cap 1..win.row)]

Select == Busy("select") /\ \E S \in Selections : Leave(selextend(term, S), win, dc, xsrv)

xsetmode(set, m) ==
    LET w == [win EXCEPT !.mode = IF set THEN @ \cup {m} ELSE @ \ {m}]
    IN  IF ("reverse" \in w.mode) # ("reverse" \in win.mode) THEN redraw(term, w, dc, xsrv)
        ELSE Leave(term, w, dc, xsrv)

SetMode == Busy("mode") /\ \E m \in {"hide", "reverse"} : xsetmode(m \notin win.mode, m)

xsetcursor ==
    Busy("mode") /\ \E c \in {"block", "bar"} \ {win.cursor} : Leave(term, [win EXCEPT !.cursor = c], dc, xsrv)

(* OSC 4, 10 to 12 and their resets; OSC 104 with no number loads all       *)
(* colours and marks nothing ("colour reset").                              *)
xsetcolorname ==
    /\ Busy("colour")
    /\ \E all \in {FALSE} \cup {Does("colour reset")} :
           Leave(IF all THEN term ELSE tfulldirt(term, win), [win EXCEPT !.palette = @ + 1], dc, xsrv)

kscroll ==
    /\ Busy("view")
    /\ Leave(tfulldirt([term EXCEPT !.off = 1 - @], win), win, dc, xsrv)

focus ==
    /\ Busy("focus")
    /\ xsetmode("focused" \notin win.mode, "focused")

-----------------------------------------------------------------------------
(* Size.  tresize moves the screen up so that the cursor stays on it, and   *)
(* clears the rows that are new.                                            *)

tresize(tm, col, row) ==
    LET up   == IF row < tm.cy THEN tm.cy - row ELSE 0
        kept == SubSeq(tm.screen, up + 1, Len(tm.screen))
    IN  [tm EXCEPT !.screen = [y \in 1..row |-> IF y <= Len(kept) THEN kept[y] ELSE Cleared],
                   !.cx = Limit(@, col), !.cy = Limit(@, row), !.dirty = 1..row,
                   !.off = Limit(@, row)]

xresize(w) == [s \in Squares(w) |-> Border(w)]

cresize(tm, w, d) ==
    LET now == [w EXCEPT !.col = Grid[w.size][w.font][1], !.row = Grid[w.size][w.font][2]]
    IN  [win |-> now, term |-> tresize(tm, now.col, now.row), dc |-> [d EXCEPT !.pix = xresize(now)]]

zoomabs ==
    /\ Busy("zoom")
    /\ \E f \in DOMAIN Grid[win.size] \ {win.font} :
           \E r \in {cresize(term, [win EXCEPT !.font = f], [dc EXCEPT !.frc = <<>>])} :
               redraw(r.term, r.win, r.dc, xsrv)

-----------------------------------------------------------------------------
(* The X server and the window manager.  What is covered is lost.           *)

Send(s, evs) == [s EXCEPT !.events = @ \o evs]

Cover ==
    /\ Busy("cover") /\ ~xsrv.covered
    /\ xsrv' = Send([xsrv EXCEPT !.covered = TRUE, !.shown = {}], <<"obscured">>)
    /\ UNCHANGED <<term, win, dc>>

Uncover ==
    /\ Busy("cover") /\ xsrv.covered
    /\ \E evs \in {<<"unobscured", "expose">>, <<"expose", "unobscured">>} :
           xsrv' = Send([xsrv EXCEPT !.covered = FALSE], evs)
    /\ UNCHANGED <<term, win, dc>>

Resize ==
    /\ Busy("resize")
    /\ \E size \in DOMAIN Grid \ {xsrv.size} :
           xsrv' = Send([xsrv EXCEPT !.size = size, !.shown = {}], <<"configure", "expose">>)
    /\ UNCHANGED <<term, win, dc>>

(* handler[ev.type]; a size that is known already changes nothing.          *)
Handle(e, s) ==
    CASE e = "expose"     -> redraw(term, win, dc, s)
      [] e = "obscured"   -> Leave(term, [win EXCEPT !.mode = @ \ {"visible"}], dc, s)
      [] e = "unobscured" -> Leave(term, [win EXCEPT !.mode = @ \cup {"visible"}], dc, s)
      [] OTHER            -> IF s.size = win.size THEN Leave(term, win, dc, s)
                             ELSE \E r \in {cresize(term, [win EXCEPT !.size = s.size], dc)} :
                                      Leave(r.term, r.win, r.dc, s)

Event ==
    /\ xsrv.events # <<>>
    /\ Handle(Head(xsrv.events), [xsrv EXCEPT !.events = Tail(@)])
    /\ idle' = FALSE /\ UNCHANGED <<draws, duses>>

-----------------------------------------------------------------------------
(* The end of run()'s loop: perhaps the blinking text changes, then draw.   *)
(* It is shown again when st was idle for more than twice blinktimeout.     *)

(* All rows but the last, all columns but the last.                         *)
WithAttr(tm, w, a) == {y \in 1..(w.row - 1) : \E i \in 1..(w.col - 1) : a \in TLINE(tm, y)[i].mode}
tattrset(a)        == WithAttr(term, win, a) # {}

tsetdirtattr(tm, w, a)      == [tm EXCEPT !.dirty = @ \cup WithAttr(tm, w, a)]

Toggled(w) == [w EXCEPT !.mode = IF "blink" \in @ THEN @ \ {"blink"} ELSE @ \cup {"blink"}]

Draw ==
    /\ ~idle /\ xsrv.events = <<>> /\ idle' = TRUE /\ UNCHANGED <<draws, duses>>
    /\ draw(term, win, dc, xsrv)

Blink ==
    /\ Busy("blink") /\ xsrv.events = <<>> /\ tattrset("blink")
    /\ \E w \in {Toggled(win), [win EXCEPT !.mode = @ \ {"blink"}]} :
           draw(tsetdirtattr(term, w, "blink"), w, dc, xsrv)

(* The first drawing follows MapNotify and cresize.                         *)
Init ==
    /\ duses \in DrawUses /\ draws = 0 /\ idle = FALSE
    /\ \E size \in DOMAIN Grid : \E f \in DOMAIN Grid[size] :
       \E w \in {[mode |-> {"visible", "focused"}, cursor |-> "block", col |-> Grid[size][f][1],
                  row |-> Grid[size][f][2], size |-> size, font |-> f, palette |-> 0]} :
           /\ (Does("resize") \/ Does("zoom") \/ w.col * w.row = Max({Grid[s][1][1] * Grid[s][1][2] : s \in DOMAIN Grid}))
           /\ win = w
           /\ term = [screen |-> [y \in 1..w.row |-> Cleared], cx |-> 1, cy |-> 1, ocx |-> 1, ocy |-> 1,
                      dirty |-> 1..w.row, off |-> 0, sel |-> {}]
           /\ dc = [pix |-> xresize(w), frc |-> <<>>]
           /\ xsrv = [size |-> size, covered |-> FALSE, shown |-> {}, events |-> <<>>]

Next ==
    \/ Write \/ MoveCursor \/ Select \/ SetMode \/ xsetcursor \/ xsetcolorname
    \/ kscroll \/ focus \/ zoomabs
    \/ Cover \/ Uncover \/ Resize \/ Event \/ Draw \/ Blink

Spec == Init /\ [][Next]_drawVars

-----------------------------------------------------------------------------
(* What draw would make of an empty pixmap.                                 *)
Fresh == Drawn([pix |-> xresize(win), frc |-> dc.frc], win, tfulldirt(term, win), Cursor(term), Cursor(term)).pix

(* Whenever st waits, a window that is not covered shows the terminal as it *)
(* is: rows, highlight, colours, borders, and one cursor, whatever was      *)
(* marked dirty, covered or resized meanwhile.                              *)
WindowIsFresh == idle /\ ~xsrv.covered => xsrv.shown = {Fresh}

(* Fontconfig is asked once for a rune in a style, between zooms.           *)
FontsFoundOnce ==
    \A i, j \in DOMAIN dc.frc :
        dc.frc[i].style = dc.frc[j].style /\ dc.frc[j].asked \in dc.frc[i].runes \cup {dc.frc[i].asked}
            => i >= j
=============================================================================
