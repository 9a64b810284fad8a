---------------------------- MODULE DwmGeometry ----------------------------
(***************************************************************************)
(* Where dwm puts windows (dwm/dwm.c, dwm/patch/vanitygaps.c and the       *)
(* layouts): the geometry that dwm keeps of each client beside the one     *)
(* that the X server has, the layouts tile, monocle and floating with      *)
(* their gaps, size hints, borders, fullscreen windows, windows moved and  *)
(* resized with the mouse, and programs that ask for a geometry.           *)
(*                                                                         *)
(* Which clients there are, their focus and their views are in module Dwm; *)
(* here a window is shown or not.  Lengths are small: borders and bars are *)
(* one unit, mfact is one half, windows snap at two units.  The screen is  *)
(* the monitors side by side, their tops at 0.  Aspect ratios are left out. *)
(***************************************************************************)
EXTENDS Integers, SequencesExt

CONSTANTS Win,        (* windows                                           *)
          Monitors,   (* number of monitors, side by side                  *)
          Width, Height, (* of each; Width is a set, for "screens"         *)
          Sizes,      (* <<w, h>> that programs and users ask for          *)
          Places,     (* <<x, y>> they ask for                             *)
          Hints,      (* size hints: [basew, minw, incw, maxw, ...]        *)
          MaxNmaster, MaxGap,
          GeoUses     (* sets of behaviours; each run picks one            *)

GeoBehaviours == {"tile", "float", "full", "configure", "border", "view", "move", "screens", "send",
                  "layout", "bar"}

GeometryAssumption ==
    /\ Monitors \in Nat \ {0} /\ Width \subseteq Nat \ {0} /\ Height \in Nat \ {0}
    /\ MaxNmaster \in Nat /\ MaxGap \in Nat
    /\ GeoUses \subseteq SUBSET GeoBehaviours

BH       == 1
BorderPx == 1
Snap     == 2
Layouts  == {"tile", "floating", "monocle"}
Mon      == 1..Monitors

VARIABLES g,         (* monitors, clients and the server's windows          *)
          guses

gvars == <<g, guses>>

Larger(a, b)  == IF a < b THEN b ELSE a
Lower(a, b)   == IF a < b THEN a ELSE b
Magnitude(a)  == IF a < 0 THEN -a ELSE a

(* Division of C and of its conversions from float: towards zero. *)
Quotient(a, n) == IF a < 0 THEN -((-a) \div n) ELSE a \div n

WIDTH(c)  == c.w + 2 * c.bw
HEIGHT(c) == c.h + 2 * c.bw
Box(c)    == [x |-> c.x, y |-> c.y, w |-> c.w, h |-> c.h]
Whole(m)  == [x |-> m.mx, y |-> 0, w |-> m.mw, h |-> Height]

Arranges(s, k) == s.mon[k].lt # "floating"
On(s, k)       == SelectSeq(s.clients, LAMBDA w : s.c[w].mon = k)

(* nexttiled, from the first client of monitor k on. *)
Tiled(s, k) == SelectSeq(On(s, k), LAMBDA w : ~s.c[w].floats /\ s.c[w].shown)

noborder(s, w) ==
    LET c == s.c[w]
    IN  /\ s.mon[c.mon].lt = "monocle" \/ Tiled(s, c.mon) = <<w>>
        /\ ~c.floats /\ Arranges(s, c.mon) /\ ~c.full

-----------------------------------------------------------------------------
(* Size hints.                                                             *)

(* updatesizehints: isfixed *)
IsFixed(k) == k.maxw > 0 /\ k.maxh > 0 /\ k.maxw = k.minw /\ k.maxh = k.minh

(* One dimension of applysizehints' last part. *)
Hinted(v, base, min, inc, max) ==
    LET free == v - base
        step == IF inc > 0 THEN free - (IF free < 0 THEN -((-free) % inc) ELSE free % inc) ELSE free
        low  == Larger(step + base, min)
    IN  IF max > 0 THEN Lower(low, max) ELSE low

(* A window is brought back to the area a..a+len-1 when it lies outside it. *)
Within(p, len, old, a, area) ==
    LET q == IF p >= a + area THEN a + area - old ELSE p
    IN  IF q + len <= a THEN a ELSE q

(* Dragging: only what is left or right of the whole screen is.            *)
Dragged(p, len, old, screen) ==
    LET q == IF p > screen THEN screen - old ELSE p
    IN  IF q + len < 0 THEN 0 ELSE q

ScreenWidth(s) == s.mon[Monitors].mx + s.mon[Monitors].mw

applysizehints(s, c, r, interact) ==
    LET m  == s.mon[c.mon]
        w1 == Larger(1, r.w)
        h1 == Larger(1, r.h)
        x  == IF interact THEN Dragged(r.x, w1 + 2 * c.bw, WIDTH(c), ScreenWidth(s))
              ELSE Within(r.x, w1 + 2 * c.bw, WIDTH(c), m.wx, m.ww)
        y  == IF interact THEN Dragged(r.y, h1 + 2 * c.bw, HEIGHT(c), Height)
              ELSE Within(r.y, h1 + 2 * c.bw, HEIGHT(c), m.wy, m.wh)
        w2 == Larger(BH, w1)
        h2 == Larger(BH, h1)
        k  == c.hints
    IN  IF c.floats \/ ~Arranges(s, c.mon)
        THEN [x |-> x, y |-> y, w |-> Hinted(w2, k.basew, k.minw, k.incw, k.maxw),
              h |-> Hinted(h2, k.baseh, k.minh, k.inch, k.maxh)]
        ELSE [x |-> x, y |-> y, w |-> w2, h |-> h2]

(* Mutant: the server is not told of a border that is not drawn. *)
resizeclient_Border(s, w, r) ==
    [s EXCEPT !.c[w] = [@ EXCEPT
        !.old = Box(s.c[w]), !.x = r.x, !.y = r.y, !.w = r.w, !.h = r.h,
        !.srv = [x |-> r.x, y |-> r.y, w |-> r.w, h |-> r.h, bw |-> IF noborder(s, w) THEN 0 ELSE s.c[w].bw]]]

resizeclient(s, w, r) ==
    LET c     == s.c[w]
        extra == IF noborder(s, w) THEN 2 * c.bw ELSE 0
        bare  == IF noborder(s, w) THEN 0 ELSE c.bw
    IN  [s EXCEPT !.c[w] = [c EXCEPT
            !.old = Box(c), !.x = r.x, !.y = r.y, !.w = r.w, !.h = r.h,
            !.srv = [x |-> r.x, y |-> r.y, w |-> r.w + extra, h |-> r.h + extra, bw |-> bare]]]

resize(s, w, r, interact) ==
    LET a == applysizehints(s, s.c[w], r, interact)
    IN  IF a = Box(s.c[w]) THEN s ELSE resizeclient(s, w, a)

-----------------------------------------------------------------------------
(* Layouts.                                                                *)

(* getgaps: smartgaps_fact is 0, so that a window alone has no outer gap.  *)
InnerGap(m)    == IF m.gapson THEN m.gap ELSE 0
OuterGap(m, n) == IF n = 1 THEN 0 ELSE InnerGap(m)

(* Mutant: the pixels that the division leaves are given to no window. *)
Share_NoRest(size, n, i) == Quotient(size, n)

(* getfacts: the part of the i-th of n windows, the first ones have the    *)
(* rest.  A negative rest is a large unsigned number.                      *)
Share(size, n, i) ==
    LET rest == size - n * Quotient(size, n)
    IN  Quotient(size, n) + (IF rest < 0 \/ i < rest THEN 1 ELSE 0)

(* A column of windows from y on. *)
Column(s, ws, x, y, width, size, gap) ==
    LET place(acc, i) ==
            LET b == 2 * acc.s.c[ws[i]].bw
                u == resize(acc.s, ws[i], [x |-> x, y |-> acc.y, w |-> width - b,
                                           h |-> Share(size, Len(ws), i - 1) - b], FALSE)
            IN  [s |-> u, y |-> acc.y + HEIGHT(u.c[ws[i]]) + gap]
    IN  FoldLeft(place, [s |-> s, y |-> y], [i \in 1..Len(ws) |-> i]).s

tile(s, k) ==
    LET ws   == Tiled(s, k)
        n    == Len(ws)
        m    == s.mon[k]
        nm   == Lower(n, m.nmaster)
        o    == OuterGap(m, n)
        i    == InnerGap(m)
        x    == m.wx + o
        full == m.ww - 2 * o
        two  == m.nmaster > 0 /\ n > m.nmaster
        half == Quotient(full - i, 2)
        high(j) == m.wh - 2 * o - i * (j - 1)
        left == Column(s, SubSeq(ws, 1, nm), x, m.wy + o, IF two THEN half ELSE full, high(nm), i)
    IN  Column(left, SubSeq(ws, nm + 1, n), IF two THEN x + half + i ELSE x, m.wy + o,
               IF two THEN half ELSE full, high(n - nm), i)

monocle(s, k) ==
    LET m == s.mon[k]
    IN  FoldLeft(LAMBDA acc, w :
                    resize(acc, w, [x |-> m.wx, y |-> m.wy, w |-> m.ww - 2 * acc.c[w].bw,
                                    h |-> m.wh - 2 * acc.c[w].bw], FALSE), s, Tiled(s, k))

arrangemon(s, k) == CASE s.mon[k].lt = "tile"     -> tile(s, k)
                      [] s.mon[k].lt = "monocle"  -> monocle(s, k)
                      [] s.mon[k].lt = "floating" -> s

(* The clients of a monitor are moved to where they are, or off the screen. *)
showhide(s, k) ==
    FoldLeft(LAMBDA acc, w :
        LET c == acc.c[w]
            moved == [acc EXCEPT !.c[w].srv = [@ EXCEPT !.x = IF c.shown THEN c.x ELSE -2 * WIDTH(c),
                                                        !.y = c.y]]
        IN  IF c.shown /\ (c.floats \/ ~Arranges(s, k)) /\ ~c.full
            THEN resize(moved, w, Box(c), FALSE) ELSE moved,
        s, On(s, k))

arrange(s, k)  == arrangemon(showhide(s, k), k)
ArrangeAll(s)  == FoldLeft(arrangemon, FoldLeft(showhide, s, [k \in Mon |-> k]), [k \in Mon |-> k])

updatebarpos(m) ==
    [m EXCEPT !.wx = m.mx, !.ww = m.mw, !.wy = IF m.bar THEN BH ELSE 0, !.wh = IF m.bar THEN Height - BH ELSE Height]

-----------------------------------------------------------------------------
(* Handlers and commands.                                                  *)

Step(use, s) == use \in guses /\ g' = s /\ UNCHANGED guses
Clients      == {g.clients[i] : i \in DOMAIN g.clients}
Calm         == g.drags = {}      (* no movemouse or resizemouse is running *)

(* The place and size before are kept in old. *)
setfullscreen(s, w, full) ==
    LET c == s.c[w]
    IN  IF full = c.full THEN s
        ELSE IF full
        THEN resizeclient([s EXCEPT !.c[w] = [c EXCEPT !.full = TRUE, !.oldbw = c.bw, !.was = c.floats,
                                                       !.bw = 0, !.floats = TRUE]],
                          w, Whole(s.mon[c.mon]))
        ELSE LET u == [s EXCEPT !.c[w] = [c EXCEPT
                          !.full = FALSE, !.bw = c.oldbw, !.floats = c.was, !.x = c.old.x, !.y = c.old.y,
                          !.w = c.old.w, !.h = c.old.h]]
             IN  arrange(resizeclient(u, w, c.old), c.mon)

(* manage: the window's own size, in the middle of the monitor.  floats: a *)
(* rule says so, or it is a dialog that is not fullscreen.                 *)
Managed(w, size, hints, floats) ==
    LET m   == g.mon[g.selmon]
        x   == m.wx + Quotient(m.ww - size[1] - 2 * BorderPx, 2)
        y   == m.wy + Quotient(m.wh - size[2] - 2 * BorderPx, 2)
    IN  [mon |-> g.selmon, x |-> x, y |-> y, w |-> size[1], h |-> size[2], bw |-> BorderPx,
         old |-> [x |-> 0, y |-> 0, w |-> size[1], h |-> size[2]], oldbw |-> 0,
         floats |-> floats, full |-> FALSE, was |-> FALSE, shown |-> TRUE, hints |-> hints,
         srv |-> [x |-> x, y |-> y, w |-> size[1], h |-> size[2], bw |-> BorderPx]]

(* Unless it floats by now, it does if its size is fixed.                  *)
FixedFloats(s, w) ==
    IF s.c[w].floats THEN s
    ELSE [s EXCEPT !.c[w].floats = IsFixed(s.c[w].hints), !.c[w].was = IsFixed(s.c[w].hints)]

(* It may ask to be fullscreen from the start: it then floats, and is tiled *)
(* when it leaves fullscreen, even if its size is fixed.                    *)
manage ==
    /\ Calm
    /\ \E w \in Win \ Clients, size \in Sizes, hints \in Hints, floats, full \in BOOLEAN :
         LET c == Managed(w, size, hints, floats)
             u == [g EXCEPT !.c = [v \in DOMAIN @ \cup {w} |-> IF v = w THEN c ELSE @[v]]]
             v == FixedFloats(setfullscreen(u, w, full), w)
         IN  /\ floats => guses \cap {"float", "full", "move", "configure"} # {}
             /\ full => "full" \in guses
             /\ g' = arrange([v EXCEPT !.clients = <<w>> \o @], g.selmon)
    /\ UNCHANGED guses

unmanage ==
    /\ Calm
    /\ \E w \in Clients :
         g' = arrange([g EXCEPT !.clients = Remove(@, w), !.c = [v \in DOMAIN @ \ {w} |-> @[v]]], g.c[w].mon)
    /\ UNCHANGED guses

(* togglefloating of the selected window, or of one clicked in the bar. *)
floated(s, w) ==
    LET u == [s EXCEPT !.c[w].floats = ~@ \/ IsFixed(s.c[w].hints)]
    IN  arrange(IF u.c[w].floats THEN resize(u, w, Box(u.c[w]), FALSE) ELSE u, u.c[w].mon)

togglefloating == Calm /\ \E w \in Clients : ~g.c[w].full /\ Step("float", floated(g, w))

(* clientmessage: _NET_WM_STATE *)
togglefullscreen == Calm /\ \E w \in Clients : Step("full", setfullscreen(g, w, ~g.c[w].full))

(* A setting of the selected monitor changes and its windows are arranged. *)
Set(use, m) == Calm /\ Step(use, arrange([g EXCEPT !.mon[g.selmon] = m], g.selmon))
Here        == g.mon[g.selmon]

setlayout  == \E l \in Layouts : Set("layout", [Here EXCEPT !.lt = l])
incnmaster == \E n \in 0..MaxNmaster : Set("tile", [Here EXCEPT !.nmaster = n])
setgaps    == \E n \in 0..MaxGap : Set("tile", [Here EXCEPT !.gap = n])
togglegaps == Calm /\ Step("tile", ArrangeAll([g EXCEPT !.mon[g.selmon].gapson = ~@]))
togglebar  == Set("bar", updatebarpos([Here EXCEPT !.bar = ~@]))

(* Another view of the selected monitor, or windows are hidden from the bar. *)
view == Calm /\ \E S \in SUBSET {w \in Clients : g.c[w].mon = g.selmon} :
    Step("view", arrange([g EXCEPT !.c = [w \in DOMAIN @ |->
        IF @[w].mon = g.selmon THEN [@[w] EXCEPT !.shown = w \in S] ELSE @[w]]], g.selmon))

(* The first monitor changes its width and the others move.  Fullscreen    *)
(* clients get the new size.  The monitor of the pointer is selected.      *)
configurenotify == Calm /\ \E width \in Width \ {g.mon[1].mw}, sel \in Mon :
    LET mons  == [k \in Mon |-> updatebarpos(
                     IF k = 1 THEN [g.mon[k] EXCEPT !.mw = width]
                     ELSE [g.mon[k] EXCEPT !.mx = @ + width - g.mon[1].mw])]
        resized == FoldLeft(LAMBDA acc, w :
                       IF acc.c[w].full THEN resizeclient(acc, w, Whole(mons[acc.c[w].mon])) ELSE acc,
                       [g EXCEPT !.mon = mons, !.selmon = sel], g.clients)
    IN  Step("screens", ArrangeAll(resized))

(* sendmon: the window becomes the first of the other monitor. *)
Sent(s, w, k) == ArrangeAll([s EXCEPT !.c[w].mon = k, !.c[w].shown = TRUE, !.clients = <<w>> \o Remove(@, w)])
tagmon   == Calm /\ \E w \in Clients, k \in Mon \ {g.selmon} :
    g.c[w].mon = g.selmon /\ g.c[w].shown /\ Step("send", Sent(g, w, k))
focusmon == Calm /\ \E k \in Mon \ {g.selmon} : Step("send", [g EXCEPT !.selmon = k])

-----------------------------------------------------------------------------
(* A program asks for a place, a size or a border.                         *)

(* In the middle of the monitor, when it would reach beyond it. *)
Centred(p, len, old, a, area) == IF p + len > a + area THEN a + (area \div 2 - old \div 2) ELSE p

Asked(s, w, at, size) ==
    LET c == s.c[w]
        m == s.mon[c.mon]
        x == IF at = <<>> THEN c.x ELSE m.mx + at[1]
        y == IF at = <<>> THEN c.y ELSE at[2]
        v == IF size = <<>> THEN c.w ELSE size[1]
        h == IF size = <<>> THEN c.h ELSE size[2]
        u == [c EXCEPT !.old = [x |-> IF at = <<>> THEN @.x ELSE c.x, y |-> IF at = <<>> THEN @.y ELSE c.y,
                                w |-> IF size = <<>> THEN @.w ELSE c.w, h |-> IF size = <<>> THEN @.h ELSE c.h],
                       !.w = v, !.h = h,
                       !.x = IF c.floats THEN Centred(x, v, v + 2 * c.bw, m.mx, m.mw) ELSE x,
                       !.y = IF c.floats THEN Centred(y, h, h + 2 * c.bw, 0, Height) ELSE y]
    IN  [s EXCEPT !.c[w] = IF u.shown THEN [u EXCEPT !.srv = [x |-> u.x, y |-> u.y, w |-> u.w, h |-> u.h,
                                                              bw |-> @.bw]] ELSE u]

configurerequest == Calm /\ \E w \in Clients :
    \/ Step("border", [g EXCEPT !.c[w].bw = 0])
    \/ /\ g.c[w].floats \/ ~Arranges(g, g.selmon)
       /\ \E at \in Places \cup {<<>>}, size \in Sizes \cup {<<>>} : Step("configure", Asked(g, w, at, size))

-----------------------------------------------------------------------------
(* movemouse and resizemouse of the selected window: drags has the window  *)
(* with the place where it was grabbed.                                    *)

Grab == Calm /\ \E w \in Clients :
    /\ ~g.c[w].full /\ g.c[w].shown /\ g.c[w].mon = g.selmon
    /\ Step("move", [g EXCEPT !.drags = {[win |-> w, x |-> g.c[w].x, y |-> g.c[w].y]}])

Snapped(p, len, a, area) ==
    IF Magnitude(a - p) < Snap THEN a
    ELSE IF Magnitude((a + area) - (p + len)) < Snap THEN a + area - len ELSE p

(* A tiled window that is pulled far enough begins to float. *)
Motion(s, w, r, far) ==
    LET u == IF ~s.c[w].floats /\ Arranges(s, s.selmon) /\ far THEN floated(s, w) ELSE s
    IN  IF ~Arranges(u, u.selmon) \/ u.c[w].floats THEN resize(u, w, r, TRUE) ELSE u

MoveMotion == \E d \in g.drags, at \in Places :
    LET c == g.c[d.win]
        x == Snapped(at[1], WIDTH(c), Here.wx, Here.ww)
        y == Snapped(at[2], HEIGHT(c), Here.wy, Here.wh)
    IN  Step("move", Motion(g, d.win, [x |-> x, y |-> y, w |-> c.w, h |-> c.h],
                            Magnitude(x - c.x) > Snap \/ Magnitude(y - c.y) > Snap))

ResizeMotion == \E d \in g.drags, size \in Sizes :
    LET c == g.c[d.win]
    IN  Step("move", Motion(g, d.win, [x |-> d.x, y |-> d.y, w |-> size[1], h |-> size[2]],
                            /\ size[1] <= Here.ww /\ size[2] <= Here.wh
                            /\ Magnitude(size[1] - c.w) > Snap \/ Magnitude(size[2] - c.h) > Snap))

(* recttomon: the monitor that has most of the window, or the selected one. *)
Overlap(a, len, b, blen) == Larger(0, Lower(a + len, b + blen) - Larger(a, b))
INTERSECT(c, m) == Overlap(c.x, c.w, m.wx, m.ww) * Overlap(c.y, c.h, m.wy, m.wh)
recttomon(s, c) ==
    LET area(k) == INTERSECT(c, s.mon[k])
    IN  IF \A k \in Mon : area(k) = 0 THEN s.selmon
        ELSE CHOOSE k \in Mon : /\ \A j \in Mon : area(j) <= area(k)
                                /\ \A j \in 1..(k - 1) : area(j) < area(k)

Drop == \E d \in g.drags :
    LET k == recttomon(g, g.c[d.win])
        u == [g EXCEPT !.drags = {}]
    IN  Step("move", IF k = g.selmon THEN u ELSE [Sent(u, d.win, k) EXCEPT !.selmon = k])

NewMon(k, width) ==
    updatebarpos([mx |-> (k - 1) * width, mw |-> width, wx |-> 0, ww |-> 0, wy |-> 0, wh |-> 0, lt |-> "tile",
                  nmaster |-> Lower(1, MaxNmaster), gap |-> 0, gapson |-> TRUE, bar |-> TRUE])

Init ==
    /\ guses \in GeoUses
    /\ \E width \in Width :
         /\ \A v \in Width : v <= width
         /\ g = [clients |-> <<>>, c |-> <<>>, drags |-> {}, selmon |-> 1, mon |-> [k \in Mon |-> NewMon(k, width)]]

Next ==
    \/ manage \/ unmanage \/ togglefloating \/ togglefullscreen
    \/ setlayout \/ incnmaster \/ setgaps \/ togglegaps \/ togglebar \/ view
    \/ configurenotify \/ tagmon \/ focusmon \/ configurerequest
    \/ Grab \/ MoveMotion \/ ResizeMotion \/ Drop

Spec == Init /\ [][Next]_gvars

-----------------------------------------------------------------------------
(* What dwm believes of a window that is shown is what the server has: its *)
(* place, and its size with the border that is or is not drawn.            *)
ServerAgrees ==
    \A w \in Clients : LET c == g.c[w] IN
        c.shown => /\ c.srv.x = c.x /\ c.srv.y = c.y
                   /\ c.srv.w + 2 * c.srv.bw = WIDTH(c) /\ c.srv.h + 2 * c.srv.bw = HEIGHT(c)

Disjoint(a, b) == Overlap(a.x, WIDTH(a), b.x, WIDTH(b)) * Overlap(a.y, HEIGHT(a), b.y, HEIGHT(b)) = 0
Covers(c, x, y) == x \in c.x..(c.x + WIDTH(c) - 1) /\ y \in c.y..(c.y + HEIGHT(c) - 1)

(* Every window has room for its borders and a bar's height. *)
Roomy(k, n) == g.mon[k].wh >= (2 * BorderPx + BH + 2 * MaxGap) * n

(* A fullscreen window lies above the others, which are not arranged. *)
Visible(k) == \A w \in Clients : g.c[w].mon = k /\ g.c[w].shown => ~g.c[w].full

(* Tiled windows do not overlap and, without gaps, leave nothing of the    *)
(* monitor free but the one pixel by which two columns are unequal: the    *)
(* rest of an uneven division goes to the first windows (tile, getfacts).  *)
TilesFill ==
    \A k \in Mon : LET ws == Tiled(g, k) m == g.mon[k] IN
        (m.lt = "tile" /\ ws # <<>> /\ Visible(k) /\ Roomy(k, Len(ws))) =>
            /\ \A i, j \in DOMAIN ws : i # j => Disjoint(g.c[ws[i]], g.c[ws[j]])
            /\ \A i \in DOMAIN ws : LET a == g.c[ws[i]] IN
                  /\ a.x >= m.wx /\ a.x + WIDTH(a) <= m.wx + m.ww
                  /\ a.y >= m.wy /\ a.y + HEIGHT(a) <= m.wy + m.wh
            /\ (InnerGap(m) = 0 \/ Len(ws) = 1) =>
                  \A x \in m.wx..(m.wx + m.ww - 2), y \in m.wy..(m.wy + m.wh - 1) :
                      \E i \in DOMAIN ws : Covers(g.c[ws[i]], x, y)

(* A fullscreen window that is shown covers its monitor and has no border, *)
(* whatever happens to the monitors and to other windows.                  *)
FullscreenCovers ==
    \A w \in Clients : LET c == g.c[w] m == g.mon[c.mon] IN
        c.full /\ c.shown => c.srv = [x |-> m.mx, y |-> 0, w |-> m.mw, h |-> Height, bw |-> 0]
=============================================================================
