------------------------------- MODULE DwmBar -------------------------------
(***************************************************************************)
(* The bar of one of dwm's monitors: where drawbarwin puts the modules of  *)
(* barrules, what each draws there, and what a click at a position of the  *)
(* bar means (buttonpress and the click functions in dwm/patch/bar_*.c).   *)
(* A module is the interval that it takes; texts are their widths.  The    *)
(* system tray is switched off (showsystray) and takes one pixel of        *)
(* monitor 0.                                                              *)
(***************************************************************************)
EXTENDS Integers, SequencesExt, FiniteSetsExt

CONSTANTS Tags,         (* NUMTAGS                                         *)
          TagWidth,     (* of a tag's icon with its padding                *)
          BarWidths,    (* of the monitor                                  *)
          LtWidths,     (* of the layout symbol                            *)
          StatusWidths, (* of the status text                              *)
          MaxClients,   (* bound: clients of the monitor                   *)
          Alignments,   (* each an alignment for each of the modules       *)
          BarUses       (* sets of behaviours; each run picks one          *)

BarAssumption ==
    /\ Tags \in Nat \ {0} /\ TagWidth \in Nat \ {0} /\ MaxClients \in Nat
    /\ \A S \in {BarWidths, LtWidths, StatusWidths} : S \subseteq Nat \ {0}
    /\ BarUses \subseteq SUBSET {"widths", "clients", "monitors"}

VARIABLES bar,     (* num: of the monitor, bw: the width, ltw: of the      *)
                   (* symbol, align: of the modules, cs: for each client   *)
                   (* whether it is ISVISIBLE, active: selmon is here      *)
          stw,     (* the width of stext                                   *)
          shown,   (* what is drawn: x, w of the modules and the clients   *)
          buses

bvars == <<bar, stw, shown, buses>>

(* dwm/config.h: the modules in the order of barrules *)
Modules == <<"tags", "systray", "ltsymbol", "status", "awesomebar">>
barrules == <<"left", "right", "left", "right", "left">>

(* The modules that this bar has. *)
Applies(b, r) == /\ Modules[r] = "systray" => b.num = 0
                 /\ Modules[r] = "status" => b.active

widthfunc(b, st, r, room) ==
    CASE Modules[r] = "tags"       -> Tags * TagWidth
      [] Modules[r] = "systray"    -> 1
      [] Modules[r] = "ltsymbol"   -> b.ltw
      [] Modules[r] = "status"     -> st
      [] Modules[r] = "awesomebar" -> room

-----------------------------------------------------------------------------
(* drawbarwin: the bar is one area until a module in its centre splits it  *)
(* into a left and a right one.                                            *)

Swapped(a) ==
    IF a.lw <= 0 THEN [a EXCEPT !.lw = a.rw, !.lx = a.rx]
    ELSE IF a.rw <= 0 THEN [a EXCEPT !.rw = a.lw, !.rx = a.lx] ELSE a

(* The areas after a module of width w has been put at x. *)
Placed(a, align, w, x) ==
    LET one == a.lx = a.rx
    IN  CASE align = "left" ->
               [a EXCEPT !.rx = IF one THEN @ + w ELSE @, !.rw = IF one THEN @ - w ELSE @,
                         !.lx = @ + w, !.lw = @ - w]
          [] align = "right" ->
               [a EXCEPT !.rw = IF one THEN @ - w ELSE @, !.lw = @ - w]
          [] align = "center" ->
               [a EXCEPT !.rw = IF one THEN a.rx + a.rw - x - w ELSE @, !.rx = IF one THEN x + w ELSE @,
                         !.lw = x - a.lx]
          [] align = "right_left" ->
               [a EXCEPT !.lx = IF one THEN @ + w ELSE @, !.lw = IF one THEN @ - w ELSE @,
                         !.rx = @ + w, !.rw = @ - w]
          [] align = "right_right" ->
               [a EXCEPT !.lw = IF one THEN @ - w ELSE @, !.rw = @ - w]
          [] align = "right_center" ->
               [a EXCEPT !.lw = IF one THEN a.lx + a.lw - x + w ELSE @, !.lx = IF one THEN x + w ELSE @,
                         !.rw = x - a.rx]

Begin(a, align, w) ==
    CASE align = "left"         -> a.lx
      [] align = "right"        -> a.lx + a.lw - w
      [] align = "center"       -> a.lx + a.lw \div 2 - w \div 2
      [] align = "right_left"   -> a.rx
      [] align = "right_right"  -> a.rx + a.rw - w
      [] align = "right_center" -> a.rx + a.rw \div 2 - w \div 2

Clipped(room, w) == Min({room, w})

PutModule(b, st, a, r) ==
    LET align == b.align[r]
        room  == IF align \in {"left", "right", "center"} THEN a.lw ELSE a.rw
        w     == Clipped(room, widthfunc(b, st, r, room))
        s     == Swapped(a)
        x     == Begin(s, align, w)
    IN  IF ~Applies(b, r) THEN a
        ELSE [Placed(s, align, w, x) EXCEPT !.x[r] = x, !.w[r] = w]

(* x and w of modules that the bar does not have stay as they were. *)
drawbarwin(b, st, was) ==
    LET a == FoldLeft(LAMBDA acc, r : PutModule(b, st, acc, r),
                      [lx |-> 0, lw |-> b.bw, rx |-> 0, rw |-> b.bw, x |-> was.x, w |-> was.w],
                      [r \in DOMAIN Modules |-> r])
    IN  [x |-> a.x, w |-> a.w, b |-> b]

Visible(cs)  == {i \in DOMAIN cs : cs[i]}
NVisible(cs) == Cardinality(Visible(cs))

(* draw_awesomebar: the pixels that the division leaves go to the first    *)
(* clients, those that are not visible counted.                            *)
TitleWidth(cs, w, i) == w \div NVisible(cs) + (IF i - 1 < w % NVisible(cs) THEN 1 ELSE 0)
TitleLeft(cs, w, i)  == MapThenSumSet(LAMBDA j : TitleWidth(cs, w, j), {j \in Visible(cs) : j < i})

-----------------------------------------------------------------------------
(* Clicks: on a tag, the layout symbol, the status, a title, or on nothing. *)

Nothing == [on |-> "nothing", i |-> 0]

(* The last tag ends one pixel before the module does: tag 0 is no tag, for *)
(* which view shows the previous view.                                      *)
click_tags(x) == [on |-> "tag", i |-> IF x >= Tags * TagWidth THEN 0 ELSE x \div TagWidth + 1]

(* Mutant: clients that are not shown have a part as well. *)
click_awesomebar_All(cs, w, x) ==
    LET passed(i) == i * (w \div Len(cs))
        hit == {i \in Visible(cs) : x <= passed(i)}
    IN  IF hit = {} THEN Nothing ELSE [on |-> "title", i |-> Min(hit)]

(* Each visible client has an equal part, and the pixels that the division *)
(* leaves belong to none.  A client that is not visible is passed over     *)
(* while x is right of the parts so far, and hit if it is not: this is     *)
(* only so at the left end, before the first visible one.                  *)
click_awesomebar(cs, w, x) ==
    LET passed(i) == Cardinality({j \in Visible(cs) : j <= i}) * (w \div NVisible(cs))
        hit == {i \in DOMAIN cs : x <= (IF Visible(cs) = {} THEN 0 ELSE passed(i))}
    IN  IF hit = {} THEN Nothing ELSE [on |-> "title", i |-> Min(hit)]

clickfunc(b, r, w, x) ==
    CASE Modules[r] = "tags"       -> click_tags(x)
      [] Modules[r] = "systray"    -> Nothing
      [] Modules[r] = "ltsymbol"   -> [on |-> "ltsymbol", i |-> 0]
      [] Modules[r] = "status"     -> [on |-> "status", i |-> 0]
      [] Modules[r] = "awesomebar" -> click_awesomebar(b.cs, w, x)

Found(s, x) ==
    {r \in DOMAIN Modules : Applies(s.b, r) /\ s.x[r] <= x /\ x <= s.x[r] + s.w[r]}

(* buttonpress: a click selects the monitor, for which its bar is drawn,   *)
(* and goes to the first module there. *)
buttonpress(x) ==
    LET s == IF bar.active THEN shown ELSE drawbarwin([bar EXCEPT !.active = TRUE], stw, shown)
        r == Min(Found(s, x))
    IN  IF Found(s, x) = {} THEN Nothing ELSE clickfunc(s.b, r, s.w[r], x - s.x[r])

-----------------------------------------------------------------------------
Draw(b, st) == shown' = drawbarwin(b, st, shown)

Init ==
    /\ buses \in BarUses
    /\ \E bw \in BarWidths, ltw \in LtWidths, num \in 0..1, align \in Alignments :
         bar = [num |-> num, bw |-> bw, ltw |-> ltw, align |-> align, cs |-> <<>>, active |-> num = 0]
    /\ stw \in StatusWidths
    /\ shown = drawbarwin(bar, stw, [x |-> [r \in DOMAIN Modules |-> 0], w |-> [r \in DOMAIN Modules |-> 0]])

Use(use, b) == use \in buses /\ bar' = b /\ Draw(b, stw) /\ UNCHANGED <<stw, buses>>

(* Windows come, go, and are shown or not as the view changes: in each case *)
(* arrange or focus draw the bar.                                           *)
manage     == /\ Len(bar.cs) < MaxClients
              /\ Use("clients", [bar EXCEPT !.cs = <<TRUE>> \o @])
unmanage   == \E i \in DOMAIN bar.cs : Use("clients", [bar EXCEPT !.cs = RemoveAt(@, i)])
view       == \E cs \in [DOMAIN bar.cs -> BOOLEAN] : Use("clients", [bar EXCEPT !.cs = cs])
setlayout  == \E ltw \in LtWidths : Use("widths", [bar EXCEPT !.ltw = ltw])
updategeom == \E bw \in BarWidths : Use("widths", [bar EXCEPT !.bw = bw])

(* Another monitor is selected, or this one. *)
focusmon   == Use("monitors", [bar EXCEPT !.active = ~@])

(* The bars of all monitors are drawn. *)
updatestatus == \E st \in StatusWidths : stw' = st /\ Draw(bar, st) /\ UNCHANGED <<bar, buses>>

Next == manage \/ unmanage \/ view \/ setlayout \/ updategeom \/ focusmon \/ updatestatus

Spec == Init /\ [][Next]_bvars

-----------------------------------------------------------------------------
(* What is drawn at position x, but for the pixels beside each border: the *)
(* first pixel of a module counts for the one on its left, and that of a   *)
(* title may be off by one for each title.                                 *)
DrawnAt(s, x) ==
    LET b  == s.b
        at == {r \in DOMAIN Modules : Applies(b, r) /\ s.x[r] < x /\ x < s.x[r] + s.w[r]}
        y(r) == x - s.x[r]
        slack == NVisible(b.cs)
        titled(r) == {i \in Visible(b.cs) :
                        /\ TitleLeft(b.cs, s.w[r], i) + slack <= y(r)
                        /\ y(r) <= TitleLeft(b.cs, s.w[r], i) + TitleWidth(b.cs, s.w[r], i) - slack}
    IN  UNION {CASE Modules[r] = "tags" -> {[on |-> "tag", i |-> y(r) \div TagWidth + 1]}
                 [] Modules[r] = "awesomebar" -> {[on |-> "title", i |-> i] : i \in titled(r)}
                 [] Modules[r] \in {"ltsymbol", "status"} -> {[on |-> Modules[r], i |-> 0]}
                 [] Modules[r] = "systray" -> {} : r \in at}

(* A click on the bar of the selected monitor means what is drawn there,   *)
(* after whatever has changed; clicks at the borders are left out.         *)
ClickHitsDrawn ==
    bar.active => \A x \in 0..(bar.bw - 1) : \A what \in DrawnAt(shown, x) : buttonpress(x) = what

(* The modules that are drawn lie in the bar, apart from each other. *)
ModulesDisjoint ==
    LET rs == {r \in DOMAIN Modules : Applies(shown.b, r) /\ shown.w[r] > 0}
    IN  /\ \A r \in rs : 0 <= shown.x[r] /\ shown.x[r] + shown.w[r] <= shown.b.bw
        /\ \A r, q \in rs : r < q =>
               shown.x[r] + shown.w[r] <= shown.x[q] \/ shown.x[q] + shown.w[q] <= shown.x[r]
=============================================================================
