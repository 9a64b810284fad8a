---------------------------- MODULE DunstLayout ----------------------------
(***************************************************************************)
(* Where dunst draws (dunst/src/draw.c) and what a click finds (input.c).  *)
(*                                                                         *)
(* The window's size is computed from the dimensions of all notifications  *)
(* before any is drawn; drawing goes down the window and measures again;   *)
(* a click adds up heights of its own.  All three have to agree.  Numbers  *)
(* are pixels at scale 1; a text is as many columns as it would need on    *)
(* one line.                                                               *)
(***************************************************************************)
EXTENDS Integers, SequencesExt, FiniteSetsExt

CONSTANTS LayoutSettings,   (* records of settings                          *)
          LayoutNotes,      (* what notifications look like                 *)
          MaxShown          (* bound: notifications displayed               *)

VARIABLES ls,          (* the settings                                      *)
          displayed,   (* queues_get_displayed()                            *)
          hidden       (* the notification that is the first to wait, as a  *)
                       (* sequence: <<>> if none waits                      *)

layoutvars == <<ls, displayed, hidden>>

NoIcon == [w |-> 0, h |-> 0]

LayoutAssumption ==
    /\ MaxShown \in Nat \ {0}
    /\ \A s \in LayoutSettings :
          /\ s.height.min <= s.height.max /\ s.width.min <= s.width.max
          /\ s.bar.height >= 2 * s.bar.frame
          /\ \A n \in LayoutNotes : s.width.max - 2 * s.h_padding > n.icon.w + s.text_icon_padding + s.h_padding

MostOf(a, b)  == IF a >= b THEN a ELSE b
LeastOf(a, b) == IF a <= b THEN a ELSE b
UpDiv(a, b)   == (a + b - 1) \div b

(* C's division rounds towards zero. *)
Half(a) == IF a >= 0 THEN a \div 2 ELSE -((-a) \div 2)

-----------------------------------------------------------------------------
(* The layouts, one for each notification and maybe one for "(N more)".     *)
(* That one has the settings of the notification that waits.                *)
HasIcon(n) == n.icon # NoIcon

layout_from_notification(n) ==
    [n |-> n, icon |-> IF n.position # "off" THEN n.icon ELSE NoIcon, xmore |-> FALSE]
layout_derive_xmore(n) == [n |-> [n EXCEPT !.text = 4], icon |-> NoIcon, xmore |-> TRUE]

create_layouts(s, notes, more) ==
    [k \in DOMAIN notes |-> layout_from_notification(notes[k])]
    \o IF more # <<>> /\ s.indicate_hidden /\ s.limit # 1 THEN <<layout_derive_xmore(more[1])>> ELSE <<>>

get_horizontal_text_icon_padding(s, n) ==
    IF s.text_icon_padding > 0 /\ HasIcon(n) /\ n.position \in {"left", "right"}
    THEN s.text_icon_padding ELSE s.h_padding

get_vertical_text_icon_padding(s, n) ==
    IF s.text_icon_padding > 0 /\ HasIcon(n) /\ n.position = "top" THEN s.text_icon_padding ELSE s.padding

have_progress_bar(cl) == cl.n.progress /\ ~cl.xmore

IconWidth(s, cl) ==
    IF cl.icon = NoIcon THEN 0 ELSE cl.icon.w + get_horizontal_text_icon_padding(s, cl.n)
BarHeight(s, cl) == IF have_progress_bar(cl) THEN s.bar.height + s.padding ELSE 0

(* layout_setup and get_text_size: the text in lines no longer than the     *)
(* room there is, which takes no notice of an icon above it.                *)
TextSize(s, cl, width) ==
    LET room  == width - 2 * s.h_padding - (IF cl.n.position = "top" THEN 0 ELSE IconWidth(s, cl))
        high  == MostOf(0, s.height.max - BarHeight(s, cl) - 2 * s.padding)
        lines == LeastOf(UpDiv(cl.n.text, room), MostOf(1, high \div s.line))
    IN  IF cl.n.hide_text THEN [w |-> 0, h |-> 0]
        ELSE IF cl.n.word_wrap THEN [w |-> LeastOf(cl.n.text, room), h |-> lines * s.line]
        ELSE [w |-> LeastOf(cl.n.text, room), h |-> s.line]

Between(x, range) == LeastOf(range.max, MostOf(range.min, x))

TextPadding(s, cl) == IF cl.n.hide_text THEN 0 ELSE get_vertical_text_icon_padding(s, cl.n)

(* What text, icon and bar need, without the padding around them. *)
Needs(s, cl, text) ==
    (IF cl.n.position = "top" /\ HasIcon(cl.n)
     THEN cl.icon.h + text.h + TextPadding(s, cl) ELSE MostOf(cl.icon.h, text.h)) + BarHeight(s, cl)

calculate_notification_dimensions(s, cl) ==
    LET text == TextSize(s, cl, s.width.max)
        w    == text.w + IconWidth(s, cl) + 2 * s.h_padding
    IN  [w |-> Between(IF have_progress_bar(cl) THEN MostOf(s.bar.min_width, w) ELSE w, s.width),
         h |-> Between(Needs(s, cl, text) + 2 * s.padding, s.height)]

Total(f) == FoldFunction(LAMBDA a, b : a + b, 0, f)

calculate_dimensions(s, cls) ==
    LET count == Len(cls)
        dims  == [k \in 1..count |-> calculate_notification_dimensions(s, cls[k])]
        wide  == Max({dims[k].w : k \in 1..count}) + s.frame_width + 2 * s.frame_width
        high  == Total([k \in 1..count |-> dims[k].h])
    IN  [w |-> LeastOf(wide, s.screen.w - s.offset.x),
         h |-> high + IF s.gap_size > 0 THEN count * 2 * s.frame_width + (count - 1) * s.gap_size
                      ELSE 2 * s.frame_width + (count - 1) * s.separator_height,
         radius |-> LeastOf(s.corner_radius, high \div 2)]

-----------------------------------------------------------------------------
(* Drawing. *)

(* enum corner_pos: the top and bottom corners that are round, and whether  *)
(* the layout is the first or the last of the window.                       *)
Corners(s, k, count) ==
    IF s.gap_size > 0 THEN s.corners
    ELSE (IF k = 1 THEN (s.corners \cap {"top"}) \cup {"first"} ELSE {})
         \cup (IF k = count THEN (s.corners \cap {"bottom"}) \cup {"last"} ELSE {})

FrameAbove(s, corners) == IF corners \cap {"top", "first"} # {} THEN s.frame_width ELSE 0
FrameBelow(s, corners) == IF corners \cap {"bottom", "last"} # {} THEN s.frame_width ELSE 0

(* frame_internal_radius, for products that an int holds: frames, radii and *)
(* heights as small as those of LayoutSettings.                             *)
Quot(a, b) == IF (a >= 0) = (b > 0) THEN (IF a >= 0 THEN a ELSE -a) \div (IF b > 0 THEN b ELSE -b)
              ELSE -((IF a >= 0 THEN a ELSE -a) \div (IF b > 0 THEN b ELSE -b))

frame_internal_radius(r, w, h) ==
    IF r = 0 \/ h + (w - r) * 2 = 0 THEN 0
    ELSE LET S  == 512
             r1 == r * S - w * S + Quot(w * S * w * S, r * S * 2)
             r2 == Quot(r * S * h * S, h * S + (w * S - r * S) * 2)
         IN  Quot(IF r > w THEN r1 ELSE LeastOf((r * S) \div 2, r2), S)

layout_get_height(s, cl) == Needs(s, cl, TextSize(s, cl, s.width.max))

(* render_content: text, icon and bar in a box of this size. *)
Text(s, cl, h, text) ==
    LET free == h - BarHeight(s, cl)
        y    == CASE s.vertical_alignment = "top"    -> s.padding
                  [] s.vertical_alignment = "center" -> Half(free) - Half(text.h)
                  [] s.vertical_alignment = "bottom" ->
                        IF free - s.padding - text.h < 0 THEN s.padding ELSE free - s.padding - text.h
    IN  [x |-> s.h_padding, y |-> y, w |-> text.w, h |-> text.h]

WithIcon(s, cl, w, t) ==
    LET pad == get_vertical_text_icon_padding(s, cl.n)
        top == cl.n.position = "top"
        by  == cl.icon.h + pad
        x   == CASE top -> Half(w - cl.icon.w)
                 [] cl.n.position = "left" -> s.h_padding
                 [] OTHER -> w - s.h_padding - cl.icon.w
        right == IF cl.n.position = "left"
                 THEN [t EXCEPT !.x = @ + cl.icon.w + get_horizontal_text_icon_padding(s, cl.n)] ELSE t
        at(y) == [x |-> x, y |-> y, w |-> cl.icon.w, h |-> cl.icon.h]
    IN  CASE s.vertical_alignment = "top" ->
                [text |-> IF top THEN [right EXCEPT !.y = @ + by] ELSE right, icon |-> at(t.y)]
          [] s.vertical_alignment = "center" ->
                IF top THEN [text |-> [right EXCEPT !.y = @ + Half(by)], icon |-> at(t.y - Half(by))]
                ELSE [text |-> right, icon |-> at(t.y + Half(t.h) - Half(cl.icon.h))]
          [] s.vertical_alignment = "bottom" ->
                [text |-> right, icon |-> at(IF top THEN t.y - by ELSE t.y - (cl.icon.h - t.h))]

Bar(s, cl, w, h) ==
    LET wide == LeastOf(w - 2 * s.h_padding, s.bar.max_width)
    IN  [x |-> CASE cl.n.bar_alignment = "left"   -> s.h_padding
                 [] cl.n.bar_alignment = "center" -> w \div 2 - wide \div 2
                 [] cl.n.bar_alignment = "right"  -> w - wide - s.h_padding,
         y |-> h - BarHeight(s, cl), w |-> wide, h |-> s.bar.height - s.bar.frame]

(* What render_content draws, as a set of boxes. *)
render_content(s, cl, w, h) ==
    LET text == Text(s, cl, h, TextSize(s, cl, w))
        both == IF cl.icon = NoIcon THEN {text}
                ELSE LET c == WithIcon(s, cl, w, text) IN {c.text, c.icon}
    IN  {b \in both \cup (IF have_progress_bar(cl) THEN {Bar(s, cl, w, h)} ELSE {}) : b.w > 0 /\ b.h > 0}

(* layout_render and render_background, from row y on: the box of the       *)
(* layout, the row where the next begins, and the radius inside its frame.  *)
layout_render(s, cl, dim, y, corners) ==
    LET h     == Between(layout_get_height(s, cl) + 2 * s.padding, s.height)
        above == FrameAbove(s, corners)
        below == FrameBelow(s, corners)
    IN  [top |-> y + above, h |-> h, w |-> dim.w - 2 * s.frame_width,
         bottom |-> y + above + h + below,
         next |-> y + above + h + below + (IF s.gap_size > 0 THEN s.gap_size ELSE s.separator_height),
         radius |-> frame_internal_radius(dim.radius, s.frame_width, h),
         content |-> render_content(s, cl, dim.w - 2 * s.frame_width, h)]

(* draw *)
Drawn(s, cls, dim) ==
    FoldLeft(LAMBDA boxes, k :
                Append(boxes, layout_render(s, cls[k], dim, IF boxes = <<>> THEN 0 ELSE Last(boxes).next,
                                            Corners(s, k, Len(cls)))),
             <<>>, [k \in 1..Len(cls) |-> k])

calc_window_pos(s, dim) ==
    [x |-> CASE s.origin.x = "left"   -> s.offset.x
             [] s.origin.x = "right"  -> s.screen.w - dim.w - s.offset.x
             [] s.origin.x = "center" -> Half(s.screen.w - dim.w),
     y |-> CASE s.origin.y = "top"    -> s.offset.y
             [] s.origin.y = "bottom" -> s.screen.h - dim.h - s.offset.y
             [] s.origin.y = "center" -> Half(s.screen.h - dim.h)]

-----------------------------------------------------------------------------
(* Clicks. displayed_height is what calculate_notification_dimensions has   *)
(* stored; the halves of the separator are cut off when they are added.     *)
get_notification_clickable_height(s, n, first, last) ==
    LET h    == calculate_notification_dimensions(s, layout_from_notification(n)).h
        edge == s.frame_width - UpDiv(s.separator_height, 2)
    IN  IF s.gap_size > 0 THEN h + 2 * s.frame_width
        ELSE h + s.separator_height + (IF first THEN edge ELSE 0) + (IF last THEN edge ELSE 0)

(* Mutant: the gap is left out of the sum. *)
get_notification_at_NoGap(s, notes, y) ==
    LET size  == [k \in DOMAIN notes |->
                     get_notification_clickable_height(s, notes[k], k = 1, k = Len(notes))]
        start == [k \in DOMAIN notes |-> Total([j \in 1..(k - 1) |-> size[j]])]
        hit   == {k \in DOMAIN notes : y \in start[k]..(start[k] + size[k] - 1)}
    IN  IF hit = {} THEN 0 ELSE Min(hit)

get_notification_at(s, notes, y) ==
    LET size  == [k \in DOMAIN notes |->
                     get_notification_clickable_height(s, notes[k], k = 1, k = Len(notes))]
        start == [k \in DOMAIN notes |-> Total([j \in 1..(k - 1) |-> size[j] + s.gap_size])]
        hit   == {k \in DOMAIN notes : y \in start[k]..(start[k] + size[k] - 1)}
    IN  IF hit = {} THEN 0 ELSE Min(hit)

-----------------------------------------------------------------------------
Layouts  == create_layouts(ls, displayed, hidden)
WindowOf(cls) == calculate_dimensions(ls, cls)

(* What run() finds when it draws: notifications come, change and go. *)
Shown ==
    /\ \/ Len(displayed) < MaxShown /\ \E n \in LayoutNotes : displayed' = Append(displayed, n)
       \/ \E k \in DOMAIN displayed : displayed' = RemoveAt(displayed, k)
    /\ UNCHANGED <<ls, hidden>>

Waiting ==
    /\ \/ hidden = <<>> /\ \E n \in LayoutNotes : hidden' = <<n>>
       \/ hidden # <<>> /\ hidden' = <<>>
    /\ UNCHANGED <<ls, displayed>>

Init ==
    /\ ls \in LayoutSettings
    /\ displayed = <<>> /\ hidden = <<>>

Next == Shown \/ Waiting
Spec == Init /\ [][Next]_layoutvars

-----------------------------------------------------------------------------
Inside(b, w, h) == b.x >= 0 /\ b.y >= 0 /\ b.x + b.w <= w /\ b.y + b.h <= h
Apart(a, b) == a.x + a.w <= b.x \/ b.x + b.w <= a.x \/ a.y + a.h <= b.y \/ b.y + b.h <= a.y

(* The size that the window gets before anything is drawn is the one that   *)
(* drawing needs, and none of the boxes is drawn into another; the window   *)
(* is on the screen if it is no higher.                                     *)
WindowFits ==
    displayed # <<>> =>
        LET cls   == Layouts
            dim   == WindowOf(cls)
            boxes == Drawn(ls, cls, dim)
            at    == calc_window_pos(ls, dim)
        IN  /\ Last(boxes).bottom = dim.h
            /\ \A k \in DOMAIN boxes : boxes[k].radius \in 0..ls.corner_radius
            /\ \A k \in DOMAIN boxes : k > 1 => boxes[k - 1].bottom <= boxes[k].top
            /\ at.x >= 0 /\ at.x + dim.w <= ls.screen.w
            /\ ls.screen.h >= dim.h + ls.offset.y => at.y >= 0 /\ at.y + dim.h <= ls.screen.h

(* Text, icon and progress bar are within their box and apart from each     *)
(* other.  Left out are boxes cut by the height setting or the screen.      *)
ContentApart ==
    displayed # <<>> =>
        LET cls == Layouts
            dim == WindowOf(cls)
            boxes == Drawn(ls, cls, dim)
        IN  dim.w < ls.screen.w - ls.offset.x =>
              \A k \in DOMAIN boxes :
                 layout_get_height(ls, cls[k]) + 2 * ls.padding <= ls.height.max =>
                    /\ \A b \in boxes[k].content : Inside(b, boxes[k].w, boxes[k].h)
                    /\ \A a, b \in boxes[k].content : a # b => Apart(a, b)

(* A click on what a notification has drawn is a click on it. *)
ClickHitsDrawn ==
    displayed # <<>> =>
        LET cls == Layouts
            boxes == Drawn(ls, cls, WindowOf(cls))
        IN  \A k \in DOMAIN displayed :
               \A row \in boxes[k].top..(boxes[k].top + boxes[k].h - 1) :
                   get_notification_at(ls, displayed, row) = k

=============================================================================
