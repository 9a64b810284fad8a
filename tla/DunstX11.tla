------------------------------ MODULE DunstX11 ------------------------------
(***************************************************************************)
(* The X11 window of dunst (dunst/src/x11/x.c and screen.c) between run(), *)
(* a window manager and the keys of the user.                              *)
(*                                                                         *)
(* Requests are handled by the server at once; what it tells waits in      *)
(* events until dunst dispatches it.  What dunst asks (the focus, the      *)
(* pointer, _NET_WM_STATE) it asks when it needs it, but the monitors are  *)
(* a copy.  The window manager does something and then tells of it on the  *)
(* root window (_NET_ACTIVE_WINDOW, or the window's new size), as dwm      *)
(* does.                                                                   *)
(***************************************************************************)
EXTENDS Integers, SequencesExt, FiniteSetsExt

CONSTANTS Tall,        (* the scale of each monitor that there may be       *)
          Windows,     (* windows of others                                 *)
          MaxTold,     (* bound: events on their way                        *)
          MaxSteps,    (* bound: what happens on its own                    *)
          XUses        (* sets of behaviours; each run of dunst picks one   *)

XBehaviours == {"notes", "keys", "taken", "taken later", "half", "remap", "cover", "keyboard", "focus",
                "corner", "fullscreen", "race", "monitors", "reload"}

X11Assumption ==
    /\ MaxTold \in Nat \ {0} /\ MaxSteps \in Nat
    /\ DOMAIN Tall \subseteq Nat \ {0} /\ 1 \in DOMAIN Tall
    /\ 0 \notin Windows /\ XUses \subseteq SUBSET XBehaviours

VARIABLES srv,     (* the X server: grabs, window, monitors, focus, events  *)
          x,       (* dunst: window_x11, screens, shortcuts, status         *)
          steps, xuses

xvars == <<srv, x, steps, xuses>>

Keys     == {"close", "close_all", "context", "history"}
OnWindow == Keys \ {"history"}     (* grabbed while the window is shown *)
Mods     == {"plain", "num"}
Blank    == [text |-> 0, size |-> 0]

-----------------------------------------------------------------------------
(* screen.c: the monitors side by side, each 10 wide. *)
Left(mon)  == 10 * (mon - 1)
Offset     == IF "corner" \in xuses THEN 0 ELSE 1

get_focused_window(s) == s.focus

window_is_fullscreen(s, win) == win # 0 /\ s.wins[win].full

have_fullscreen_window(s) == window_is_fullscreen(s, get_focused_window(s))

(* The monitor of the focus, of the pointer without one, or the first;      *)
(* "keyboard" is follow = keyboard, otherwise monitor = 0 is configured.    *)
get_active_screen(s, screens) ==
    LET place == IF get_focused_window(s) # 0 THEN s.wins[s.focus].mon ELSE s.pointer
        hit   == {i \in DOMAIN screens : screens[i] = place}
    IN  IF "keyboard" \in xuses /\ hit # {} THEN Max(hit) ELSE 1

randr_update(s, y) == [y EXCEPT !.screens = s.monitors]

x_get_scale(s, y) == Tall[y.screens[get_active_screen(s, y.screens)]]

-----------------------------------------------------------------------------
(* x.c.  Each operator makes of <<srv, x>> a new pair. *)
Tell(s, kind) == [s EXCEPT !.events = Append(@, [type |-> kind])]

x_numlock_mod(s) == s.numlock

(* A grab that another client has fails, and is not tried again. *)
Combos(s, k) == {<<k, "plain">>, <<k, x_numlock_mod(s)>>}

x_shortcut_grab(p, k) ==
    LET s == p[1] y == p[2] IN
    IF ~y.valid[k] THEN p
    ELSE <<[s EXCEPT !.mine = @ \cup (Combos(s, k) \ s.theirs)],
           [y EXCEPT !.valid[k] = Combos(s, k) \cap s.theirs = {}]>>

x_shortcut_ungrab(p, k) ==
    IF p[2].valid[k] THEN <<[p[1] EXCEPT !.mine = @ \ Combos(p[1], k)], p[2]>> ELSE p

GrabAll(p, ks)   == FoldLeft(x_shortcut_grab, p, ks)
UngrabAll(p, ks) == FoldLeft(x_shortcut_ungrab, p, ks)
OnWindowKeys     == <<"close", "close_all", "context">>

(* The server tells dunst (ConfigureNotify) of its own window too, which    *)
(* dunst handles as it does a change of another window.  One event stands   *)
(* for those of a move and a resize, of which it gets two each.             *)
Configured(s, t) == IF t = s THEN t ELSE Tell(t, "change")

XRaiseWindow(s) == Configured(s, [s EXCEPT !.above = TRUE])

(* x_win_move, with the place and the size that dunst believes the window   *)
(* to have. *)
x_win_move(p, left, size) ==
    <<Configured(p[1], [p[1] EXCEPT !.left = IF left # p[2].dim.left THEN left ELSE @,
                                    !.size = IF size # p[2].dim.size THEN size ELSE @]),
      [p[2] EXCEPT !.dim = [left |-> left, size |-> size]]>>

(* A window that is not mapped keeps nothing of what is drawn. *)
x_display_surface(p, content, size) ==
    LET mon == p[2].screens[get_active_screen(p[1], p[2].screens)]
        by  == Tall[mon]
        q   == x_win_move(p, Left(mon) + Offset, size * by)
    IN  <<[q[1] EXCEPT !.shown = IF q[1].mapped THEN content ELSE Blank], q[2]>>

draw(p) == x_display_surface(p, [text |-> p[2].text, size |-> p[2].notes], p[2].notes)

(* The window is painted with itself, at a size scaled once more; the       *)
(* Expose that the server sends for a mapped window makes up for it.        *)
x_win_show(p) ==
    IF p[2].visible THEN p
    ELSE LET q == GrabAll(p, OnWindowKeys)
             m == Tell([XRaiseWindow(q[1]) EXCEPT !.mapped = TRUE], "expose")
         IN  x_display_surface(<<m, [q[2] EXCEPT !.visible = TRUE]>>, Blank, q[2].dim.size)

x_win_hide(p) ==
    IF ~p[2].visible THEN p
    ELSE LET q == UngrabAll(p, OnWindowKeys)
         IN  <<[q[1] EXCEPT !.mapped = FALSE, !.shown = Blank], [q[2] EXCEPT !.visible = FALSE]>>

(* run(), with as many notifications as there are now. *)
Run(p) ==
    LET q == <<p[1], [p[2] EXCEPT !.full = have_fullscreen_window(p[1]), !.text = 3 - @]>>
    IN  IF p[2].notes = 0 THEN x_win_hide(q) ELSE x_win_show(draw(q))

With(p, n) == <<p[1], [p[2] EXCEPT !.notes = n]>>

-----------------------------------------------------------------------------
(* x_mainloop_fd_dispatch *)
Expose(p) == IF p[2].visible THEN draw(p) ELSE p

(* A key closes the first notification, all of them, opens the menu or      *)
(* brings the last one back.  NumLock is taken out of the state.            *)
KeyPress(p, key, mods) ==
    LET n == p[2].notes
    IN  IF mods \notin {"plain", x_numlock_mod(p[1])} THEN p
        ELSE CASE key = "close"     -> IF n > 0 THEN Run(With(p, n - 1)) ELSE p
               [] key = "close_all" -> Run(With(p, 0))
               [] key = "context"   -> Run(p)
               [] key = "history"   -> Run(With(p, IF n < 2 THEN n + 1 ELSE n))

CreateNotify(p) == IF p[2].visible THEN <<XRaiseWindow(p[1]), p[2]>> ELSE p

(* PropertyNotify, ConfigureNotify, FocusIn and FocusOut *)
FocusChange(p) ==
    LET now == have_fullscreen_window(p[1])
        scr == get_active_screen(p[1], p[2].screens)
    IN  IF now # p[2].fullscreen_last THEN Run(<<p[1], [p[2] EXCEPT !.fullscreen_last = now]>>)
        ELSE IF "keyboard" \in xuses /\ p[2].visible /\ scr # p[2].cur_screen
        THEN LET q == draw(p) IN <<q[1], [q[2] EXCEPT !.cur_screen = scr]>>
        ELSE p

screen_check_event(p) == <<p[1], randr_update(p[1], p[2])>>

Handle(p, e) ==
    CASE e.type = "expose"  -> Expose(p)
      [] e.type = "key"     -> KeyPress(p, e.key, e.mods)
      [] e.type = "create"  -> CreateNotify(p)
      [] e.type = "change"  -> FocusChange(p)
      [] e.type = "screens" -> screen_check_event(p)

Become(p) == srv' = p[1] /\ x' = p[2]

Dispatch ==
    /\ srv.events # <<>>
    /\ Become(Handle(<<[srv EXCEPT !.events = Tail(@)], x>>, Head(srv.events)))
    /\ UNCHANGED <<steps, xuses>>

Calm == srv.events = <<>> \/ "race" \in xuses
Step == steps < MaxSteps /\ steps' = steps + 1 /\ UNCHANGED xuses

(* A notification comes, goes or changes, told by D-Bus or the timer.       *)
WakeUp ==
    /\ "notes" \in xuses /\ Step /\ Calm
    /\ \E n \in 0..2 : Become(Run(With(<<srv, x>>, n)))

(* x_setup and x_win_create: each key is tried, the history's is kept.      *)
x_setup(p) ==
    LET try(q, k) == x_shortcut_ungrab(x_shortcut_grab(q, k), k)
        r == FoldLeft(try, <<p[1], randr_update(p[1], [p[2] EXCEPT !.valid = [k \in Keys |-> TRUE]])>>,
                      <<"close", "close_all", "history", "context">>)
    IN  x_shortcut_grab(r, "history")

x_win_create(p) ==
    <<[p[1] EXCEPT !.left = Left(p[2].screens[get_active_screen(p[1], p[2].screens)]), !.size = 0,
                   !.mapped = FALSE, !.shown = Blank, !.above = TRUE],
      [p[2] EXCEPT !.dim = [left |-> 0, size |-> 0], !.visible = FALSE, !.cur_screen = 1]>>

(* reload: paused, which hides what is displayed, dunst leaves the server   *)
(* and comes back.                                                          *)
Reload ==
    /\ "reload" \in xuses /\ Step /\ Calm
    /\ LET p == Run(With(<<srv, x>>, 0))
           q == <<[p[1] EXCEPT !.mine = {}, !.events = <<>>], p[2]>>
       IN  Become(Run(With(x_win_create(x_setup(q)), x.notes)))

-----------------------------------------------------------------------------
(* The user and the window manager. *)
Room     == Len(srv.events) < MaxTold /\ Step /\ UNCHANGED x
Then(s, kind) == srv' = Tell(s, kind)

PressKey ==
    /\ "keys" \in xuses /\ Room
    /\ \E g \in srv.mine :
          srv' = [srv EXCEPT !.events = Append(@, [type |-> "key", key |-> g[1], mods |-> g[2]])]

(* Another client takes a key that is free, or lets it go; it may take it   *)
(* with only some of the modifiers ("half"), and may also give NumLock to   *)
(* another modifier ("remap").                                              *)
Takes(G) == {[srv EXCEPT !.theirs = (@ \ g) \cup (g \ @)] : g \in {h \in G : h \cap srv.mine = {}}}

OtherClients ==
    /\ Step /\ UNCHANGED x
    /\ srv' \in (IF "taken later" \in xuses THEN Takes({{<<k, m>> : m \in Mods} : k \in Keys}) ELSE {})
           \cup (IF "half" \in xuses THEN Takes({{g} : g \in Keys \X Mods}) ELSE {})
           \cup (IF "remap" \in xuses THEN {[srv EXCEPT !.numlock = m] : m \in Mods} ELSE {})

(* A window is created above that of dunst. *)
Cover ==
    /\ "cover" \in xuses /\ Room
    /\ Then([srv EXCEPT !.above = FALSE], "create")

Focus ==
    /\ "focus" \in xuses /\ Room /\ Calm
    /\ \E win \in Windows \cup {0} :
          win # srv.focus /\ Then([srv EXCEPT !.focus = win], "change")

(* A window becomes full screen or no longer is; or the user takes it to    *)
(* another monitor.                                                         *)
Fullscreen ==
    /\ "fullscreen" \in xuses /\ Room /\ Calm
    /\ \E win \in Windows : Then([srv EXCEPT !.wins[win].full = ~@], "change")

TakeAlong ==
    /\ "focus" \in xuses /\ Room /\ Calm
    /\ \E win \in Windows, mon \in Range(srv.monitors) :
          mon # srv.wins[win].mon /\ Then([srv EXCEPT !.wins[win].mon = mon], "change")

(* A monitor is plugged in or out; windows on it move to the first. *)
MonitorsChange ==
    /\ "monitors" \in xuses /\ Room
    /\ \E S \in SUBSET (DOMAIN Tall) :
          /\ 1 \in S /\ S # Range(srv.monitors)
          /\ Then([srv EXCEPT !.monitors = SetToSortSeq(S, <),
                              !.pointer = IF @ \in S THEN @ ELSE 1,
                              !.wins = [win \in Windows |->
                                           [@[win] EXCEPT !.mon = IF @ \in S THEN @ ELSE 1]]], "screens")

Start(s) == x_win_create(x_setup(<<s, [dim |-> Blank, visible |-> FALSE, cur_screen |-> 1, screens |-> <<1>>,
                                       valid |-> [k \in Keys |-> TRUE], fullscreen_last |-> FALSE,
                                       full |-> FALSE, notes |-> 0, text |-> 1]>>))

Init ==
    /\ xuses \in XUses
    /\ steps = 0
    /\ \E focus \in Windows \cup {0}, pointer \in DOMAIN Tall,
          theirs \in IF "taken" \in xuses THEN {{<<k, m>> : m \in Mods} : k \in Keys} ELSE {{}} :
          LET p == Start([mine |-> {}, theirs |-> theirs, numlock |-> "num", mapped |-> FALSE,
                          above |-> FALSE, left |-> 0, size |-> 0, shown |-> Blank,
                          monitors |-> SetToSortSeq(DOMAIN Tall, <), pointer |-> pointer,
                          focus |-> focus, wins |-> [win \in Windows |-> [mon |-> 1, full |-> FALSE]],
                          events |-> <<>>])
          IN  srv = p[1] /\ x = Run(p)[2]

Next ==
    \/ Dispatch \/ WakeUp \/ Reload
    \/ PressKey \/ OtherClients \/ Cover \/ Focus \/ Fullscreen \/ TakeAlong \/ MonitorsChange

Spec == Init /\ [][Next]_xvars

-----------------------------------------------------------------------------
Settled == srv.events = <<>>

(* Once all events are handled, the window is shown exactly if there are    *)
(* notifications, with the last of what run() drew and in its size, and     *)
(* above windows that were created later.                                   *)
WindowShown ==
    Settled =>
        /\ srv.mapped = x.visible /\ x.visible = (x.notes > 0)
        /\ x.visible => /\ srv.shown = [text |-> x.text, size |-> x.notes]
                        /\ srv.size = x.notes * x_get_scale(srv, x)
                        /\ srv.above

(* The keys that act on what is displayed are taken from the user only      *)
(* while something is, with NumLock and without; that of the history is     *)
(* always taken; and a key that another program had stays with it.          *)
GrabsFollow ==
    LET valid == {k \in Keys : x.valid[k]}
    IN  srv.mine = UNION {Combos(srv, k) : k \in valid \cap (IF x.visible THEN Keys ELSE {"history"})}

(* dunst.5: with follow = keyboard notifications are "on the monitor that   *)
(* has window with keyboard focus".                                         *)
OnActiveScreen ==
    Settled /\ x.visible /\ "monitors" \notin xuses =>
        srv.left = Left(x.screens[get_active_screen(srv, x.screens)]) + Offset

(* run() has seen whether the window in the foreground is full screen, and  *)
(* dunst knows the monitors.                                                *)
StatusSeen ==
    Settled => x.full = have_fullscreen_window(srv) /\ x.screens = srv.monitors
=============================================================================
