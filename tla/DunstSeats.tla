----------------------------- MODULE DunstSeats -----------------------------
(***************************************************************************)
(* What dunst knows of the user on Wayland (dunst/src/wayland/wl_seat.c,   *)
(* foreign_toplevel.c and the registry of wl.c): which windows are full    *)
(* screen, on which outputs, which seats are idle, where the pointer and   *)
(* the fingers are.                                                        *)
(*                                                                         *)
(* The compositor changes and sends events; dunst handles them in order,   *)
(* later.  It looks at what it knows only in run(), so a change matters    *)
(* when it is also followed by wake_up().                                  *)
(***************************************************************************)
EXTENDS Integers, SequencesExt, FiniteSets

CONSTANTS Outputs, Seats, Tops,   (* what the compositor can have           *)
          MaxPending,             (* bound: events on their way             *)
          MaxTurns,               (* bound: changes the compositor makes    *)
          SeatUses                (* sets of behaviours; each run picks one *)

SeatBehaviours == {"state", "move", "close", "unplug", "plug", "unnamed", "follow",
                   "idle", "seats", "point", "pause_on_mouse_over", "still"}

SeatsAssumption ==
    /\ MaxPending \in Nat \ {0} /\ MaxTurns \in Nat
    /\ Outputs # {} /\ SeatUses \subseteq SUBSET SeatBehaviours

VARIABLES c,       (* the compositor's side                                 *)
          d,       (* dunst's: ctx, toplevel_list, status                   *)
          sent,    (* events on their way                                   *)
          turns, seatuses

seatvars == <<c, d, sent, turns, seatuses>>

Places    == 1..2
Points    == {"pointer", "finger 1", "finger 2"}
StateBits == {"activated", "fullscreen"}
INVALID   == {"invalid"}
Full      == StateBits

-----------------------------------------------------------------------------
(* dunst *)
get_configured_output(x) ==
    IF Len(x.outputs) = 1 THEN {x.outputs[1]}
    ELSE IF "follow" \in seatuses \/ x.outputs = <<>> THEN {} ELSE {x.outputs[1]}

(* Is one of these windows in the foreground and full screen where          *)
(* notifications are drawn?  The windows are records of state and outs.     *)
Covers(x, windows) ==
    \E t \in windows :
        /\ Full \subseteq t.state
        /\ t.outs # {} /\ (get_configured_output(x) # {} => get_configured_output(x) \subseteq t.outs)

Known(x) == {[state |-> x.tops[t].current, outs |-> x.tops[t].outs] : t \in DOMAIN x.tops}

wl_have_fullscreen_window(x) == Covers(x, Known(x))

wl_is_idle(x) == DOMAIN x.seats # {} /\ \A s \in DOMAIN x.seats : x.seats[s].is_idle

(* run(), which wake_up enters once dunst is set up. *)
Run(x) == [x EXCEPT !.status = [@ EXCEPT !.fullscreen = wl_have_fullscreen_window(x),
                                         !.idle = wl_is_idle(x)]]
wake_up(x) == IF x.setup_done THEN Run(x) ELSE x

With(f, k, v) == [i \in DOMAIN f \cup {k} |-> IF i = k THEN v ELSE f[i]]
Less(f, k)    == [i \in DOMAIN f \ {k} |-> f[i]]

toplevel_manager_handle_toplevel(x, t) ==
    [x EXCEPT !.tops = With(@, t, [current |-> {}, pending |-> {}, outs |-> {}])]

toplevel_handle_output_enter(x, t, o) == [x EXCEPT !.tops[t].outs = @ \cup {o}]

(* Outputs are told apart by the address of their names. *)
NameOf(o) == IF "unnamed" \in seatuses THEN "" ELSE o

toplevel_handle_output_leave(x, t, o) ==
    [x EXCEPT !.tops[t].outs = {p \in @ : NameOf(p) # NameOf(o)}]

copy_state(top) ==
    [top EXCEPT !.current = IF top.pending = INVALID THEN @ ELSE top.pending, !.pending = INVALID]

toplevel_handle_done(x, t) ==
    LET y == [x EXCEPT !.tops[t] = copy_state(@)]
    IN  IF wl_have_fullscreen_window(x) # wl_have_fullscreen_window(y) THEN wake_up(y) ELSE y

toplevel_handle_closed(x, t) == [x EXCEPT !.tops = Less(@, t)]

(* The new output is the first of the list; its scale wakes dunst up. *)
create_output(x, o)  == wake_up([x EXCEPT !.outputs = <<o>> \o @])
destroy_output(x, o) == [x EXCEPT !.outputs = SelectSeq(@, LAMBDA i : i # o)]

(* With both protocols the seat is watched with ext-idle-notify. *)
add_seat_to_idle_handler(x, seat) ==
    IF "ext" \in x.idlers THEN [seat EXCEPT !.watch = {"ext"}]
    ELSE IF "kde" \in x.idlers THEN [seat EXCEPT !.watch = @ \cup {"kde"}] ELSE seat

NewSeat == [is_idle |-> FALSE, watch |-> {}, points |-> {}, at |-> [p \in Points |-> 0]]

create_seat(x, s)  == [x EXCEPT !.seats = With(@, s, add_seat_to_idle_handler(x, NewSeat))]
destroy_seat(x, s) == [x EXCEPT !.seats = Less(@, s)]

idle_start(x, s) == [x EXCEPT !.seats[s].is_idle = TRUE]
idle_stop(x, s)  == [x EXCEPT !.seats[s].is_idle = FALSE]

(* handle_global; org_kde_kwin_idle is left alone if the other is known. *)
bind_idle(x, kind) == IF kind = "kde" /\ "ext" \in x.idlers THEN x ELSE [x EXCEPT !.idlers = @ \cup {kind}]

(* The end of wl_init, and the first run. *)
wl_init(x) == Run([x EXCEPT !.setup_done = TRUE,
                            !.seats = [s \in DOMAIN @ |-> add_seat_to_idle_handler(x, x.seats[s])]])

seat_handle_capabilities(x, s, points) == [x EXCEPT !.seats[s].points = points]

MouseOver(x, over) ==
    IF "pause_on_mouse_over" \in seatuses THEN wake_up([x EXCEPT !.status.mouse_over = over]) ELSE x

pointer_handle_enter(x) == MouseOver(x, TRUE)
pointer_handle_leave(x) == MouseOver(x, FALSE)

(* pointer_handle_motion, touch_handle_down and touch_handle_motion *)
handle_motion(x, s, p, at) == [x EXCEPT !.seats[s].at[p] = at]

(* pointer_handle_button when the button is let go, touch_handle_up: a      *)
(* click where the point is thought to be.                                  *)
handle_release(x, s, p, at) ==
    wake_up([x EXCEPT !.clicks = @ \cup {[meant |-> at, hit |-> x.seats[s].at[p]]}])

(* Events of objects that dunst has destroyed are dropped. *)
Live(x, e) ==
    CASE e.type \in {"enter", "leave", "state", "done", "closed"} -> e.top \in DOMAIN x.tops
      [] e.type \in {"capabilities"} -> e.seat \in DOMAIN x.seats
      [] e.type \in {"over", "away", "motion", "release"} ->
            e.seat \in DOMAIN x.seats /\ e.point \in x.seats[e.seat].points
      [] e.type \in {"idled", "resumed"} ->
            e.seat \in DOMAIN x.seats /\ e.by \in x.seats[e.seat].watch
      [] OTHER -> TRUE

Handle(x, e) ==
    CASE e.type = "toplevel" -> toplevel_manager_handle_toplevel(x, e.top)
      [] e.type = "enter"    -> toplevel_handle_output_enter(x, e.top, e.output)
      [] e.type = "leave"    -> toplevel_handle_output_leave(x, e.top, e.output)
      [] e.type = "state"    -> [x EXCEPT !.tops[e.top].pending = e.state]
      [] e.type = "done"     -> toplevel_handle_done(x, e.top)
      [] e.type = "closed"   -> toplevel_handle_closed(x, e.top)
      [] e.type = "output"   -> create_output(x, e.output)
      [] e.type = "no output" -> destroy_output(x, e.output)
      [] e.type = "seat"     -> create_seat(x, e.seat)
      [] e.type = "no seat"  -> destroy_seat(x, e.seat)
      [] e.type = "idler"    -> bind_idle(x, e.by)
      [] e.type = "idled"    -> idle_start(x, e.seat)
      [] e.type = "resumed"  -> idle_stop(x, e.seat)
      [] e.type = "capabilities" -> seat_handle_capabilities(x, e.seat, e.points)
      [] e.type = "over"     -> pointer_handle_enter(x)
      [] e.type = "away"     -> pointer_handle_leave(x)
      [] e.type = "motion"   -> handle_motion(x, e.seat, e.point, e.at)
      [] e.type = "release"  -> handle_release(x, e.seat, e.point, e.at)
      [] e.type = "sync"     -> wl_init(x)

Dispatch ==
    /\ sent # <<>>
    /\ sent' = Tail(sent)
    /\ d' = IF Live(d, Head(sent)) THEN Handle(d, Head(sent)) ELSE d
    (* New idle watches count from now on. *)
    /\ c' = [c EXCEPT !.watched = [s \in DOMAIN d'.seats |-> d'.seats[s].watch],
                      !.idle = {s \in @ : s \in DOMAIN d'.seats /\ d'.seats[s].watch \in {{}, c.watched[s]}}]
    /\ UNCHANGED <<turns, seatuses>>

-----------------------------------------------------------------------------
(* The compositor. *)
MaySend(n)  == /\ Len(sent) + n <= MaxPending /\ turns < MaxTurns /\ d.setup_done
               /\ turns' = turns + 1 /\ UNCHANGED <<d, seatuses>>
Send(es)    == sent' = sent \o es
Top(k, t)   == [type |-> k, top |-> t]
On(k, t, o) == [type |-> k, top |-> t, output |-> o]
State(t, b) == [type |-> "state", top |-> t, state |-> b]

TopOpens ==
    /\ "state" \in seatuses /\ MaySend(4)
    /\ \E t \in Tops \ (DOMAIN c.tops \cup c.old), o \in c.outputs, b \in {{}, {"activated"}, Full} :
          /\ c' = [c EXCEPT !.tops = With(@, t, [state |-> b, outs |-> {o}])]
          /\ Send(<<Top("toplevel", t), On("enter", t, o), State(t, b), Top("done", t)>>)

TopChanges ==
    /\ "state" \in seatuses /\ MaySend(2)
    /\ \E t \in DOMAIN c.tops, b \in SUBSET StateBits :
          /\ b # c.tops[t].state
          /\ c' = [c EXCEPT !.tops[t].state = b]
          /\ Send(<<State(t, b), Top("done", t)>>)

(* A window may be on several outputs. *)
TopMoves ==
    /\ "move" \in seatuses /\ MaySend(3)
    /\ \E t \in DOMAIN c.tops, S \in (SUBSET c.outputs) \ {{}} :
          LET was    == c.tops[t].outs
              leaves == SetToSeq({On("leave", t, o) : o \in was \ S})
              enters == SetToSeq({On("enter", t, o) : o \in S \ was})
          IN  /\ S # was
              /\ c' = [c EXCEPT !.tops[t].outs = S]
              /\ \E es \in {leaves \o enters, enters \o leaves} : Send(Append(es, Top("done", t)))

TopCloses ==
    /\ "close" \in seatuses /\ MaySend(1)
    /\ \E t \in DOMAIN c.tops :
          /\ c' = [c EXCEPT !.tops = Less(@, t), !.old = @ \cup {t}]
          /\ Send(<<Top("closed", t)>>)

(* Windows leave an output before it goes. *)
OutputGoes ==
    /\ "unplug" \in seatuses /\ MaySend(3)
    /\ \E o \in c.outputs :
          LET on == {t \in DOMAIN c.tops : o \in c.tops[t].outs}
          IN  /\ c' = [c EXCEPT !.outputs = @ \ {o}, !.gone = @ \cup {o},
                                !.tops = [t \in DOMAIN @ |-> [@[t] EXCEPT !.outs = @ \ {o}]]]
              /\ Send(SetToSeq({On("leave", t, o) : t \in on}) \o <<[type |-> "no output", output |-> o]>>)

OutputComes ==
    /\ "plug" \in seatuses /\ MaySend(1)
    /\ \E o \in Outputs \ (c.outputs \cup c.gone) :
          /\ c' = [c EXCEPT !.outputs = @ \cup {o}]
          /\ Send(<<[type |-> "output", output |-> o]>>)

SeatComes ==
    /\ "seats" \in seatuses /\ MaySend(1)
    /\ \E s \in Seats \ (c.seats \cup c.left) :
          /\ c' = [c EXCEPT !.seats = @ \cup {s}]
          /\ Send(<<[type |-> "seat", seat |-> s]>>)

SeatGoes ==
    /\ "seats" \in seatuses /\ MaySend(1)
    /\ \E s \in c.seats \cap DOMAIN d.seats :
          /\ c' = [c EXCEPT !.seats = @ \ {s}, !.left = @ \cup {s}, !.idle = @ \ {s}]
          /\ Send(<<[type |-> "no seat", seat |-> s]>>)

(* Nobody has touched a seat for idle_threshold, or somebody does again;    *)
(* each watch on the seat is told.                                          *)
Told(k, s) == SetToSeq({[type |-> k, seat |-> s, by |-> b] : b \in c.watched[s]})

SeatIdles ==
    /\ "idle" \in seatuses /\ MaySend(1)
    /\ \E s \in c.seats \cap DOMAIN c.watched :
          /\ s \notin c.idle /\ c.watched[s] # {}
          /\ c' = [c EXCEPT !.idle = @ \cup {s}]
          /\ Send(Told("idled", s))

SeatResumes ==
    /\ "idle" \in seatuses /\ MaySend(1)
    /\ \E s \in c.seats \cap c.idle :
          /\ c' = [c EXCEPT !.idle = @ \ {s}]
          /\ Send(Told("resumed", s))

(* The pointer and the fingers of one seat. *)
Pointing == "point" \in seatuses /\ c.seats \cap DOMAIN d.seats # {}
PointAt(k, s, p, at) == [type |-> k, seat |-> s, point |-> p, at |-> at]

(* A pointer that is over a new window need not have moved. *)
PointComes ==
    /\ Pointing /\ MaySend(2)
    /\ \E s \in c.seats \cap DOMAIN d.seats, p \in Points \ DOMAIN c.at, at \in Places :
          /\ c' = [c EXCEPT !.at = With(@, p, at)]
          /\ Send((IF d.seats[s].points = {} THEN <<[type |-> "capabilities", seat |-> s, points |-> Points]>> ELSE <<>>)
                  \o (IF p = "pointer" THEN <<PointAt("over", s, p, at)>> ELSE <<>>)
                  \o (IF p = "pointer" /\ "still" \in seatuses THEN <<>> ELSE <<PointAt("motion", s, p, at)>>))

PointMoves ==
    /\ Pointing /\ MaySend(1)
    /\ \E s \in c.seats \cap DOMAIN d.seats, p \in DOMAIN c.at, at \in Places :
          /\ at # c.at[p]
          /\ c' = [c EXCEPT !.at[p] = at]
          /\ Send(<<PointAt("motion", s, p, at)>>)

PointClicks ==
    /\ Pointing /\ MaySend(1)
    /\ \E s \in c.seats \cap DOMAIN d.seats, p \in DOMAIN c.at :
          /\ c' = IF p = "pointer" THEN c ELSE [c EXCEPT !.at = Less(@, p)]
          /\ Send(<<PointAt("release", s, p, c.at[p])>>)

PointerLeaves ==
    /\ Pointing /\ MaySend(1) /\ "pointer" \in DOMAIN c.at
    /\ \E s \in c.seats \cap DOMAIN d.seats :
          /\ c' = [c EXCEPT !.at = Less(@, "pointer")]
          /\ Send(<<PointAt("away", s, "pointer", 0)>>)

None == [k \in {} |-> 0]

Init ==
    /\ seatuses \in SeatUses
    /\ \E start \in (SUBSET Outputs) \ {{}}, idlers \in SUBSET {"kde", "ext"},
          s \in IF "idle" \in seatuses \/ "point" \in seatuses THEN Seats ELSE {0} :
          /\ idlers # {} => "idle" \in seatuses
          /\ c = [outputs |-> start, gone |-> {}, tops |-> None, old |-> {}, seats |-> {s} \ {0}, left |-> {}, idle |-> {},
                  watched |-> None, at |-> None]
          /\ \E order \in SetToSeqs({[type |-> "idler", by |-> b] : b \in idlers}
                                    \cup {[type |-> "seat", seat |-> k] : k \in {s} \ {0}}) :
                sent = SetToSeq({[type |-> "output", output |-> o] : o \in start}) \o order
                       \o <<[type |-> "sync"]>>
    /\ d = [outputs |-> <<>>, tops |-> None, seats |-> None, idlers |-> {}, clicks |-> {}, setup_done |-> FALSE,
            status |-> [fullscreen |-> FALSE, idle |-> FALSE, mouse_over |-> FALSE]]
    /\ turns = 0

Next ==
    \/ Dispatch
    \/ TopOpens \/ TopChanges \/ TopMoves \/ TopCloses \/ OutputGoes \/ OutputComes
    \/ SeatComes \/ SeatGoes \/ SeatIdles \/ SeatResumes
    \/ PointComes \/ PointMoves \/ PointClicks \/ PointerLeaves

Spec == Init /\ [][Next]_seatvars

-----------------------------------------------------------------------------
Settled == sent = <<>> /\ d.setup_done

(* When all events are handled dunst knows of a full screen window where it *)
(* draws exactly if there is one, and no window of its list is on an output *)
(* that is gone.                                                            *)
FullscreenSeen ==
    Settled =>
        /\ wl_have_fullscreen_window(d) = Covers(d, {c.tops[t] : t \in DOMAIN c.tops})
        /\ \A t \in DOMAIN d.tops : d.tops[t].outs \subseteq Range(d.outputs)

(* dunst.5: with fullscreen = delay a notification is "held back and        *)
(* displayed when the focus to the fullscreen window is lost".  So run()    *)
(* has seen the latest.  It has not when a full screen window is closed or  *)
(* changes its output.                                                      *)
StatusFresh ==
    Settled /\ seatuses \cap {"close", "move", "unplug"} = {} =>
        d.status.fullscreen = wl_have_fullscreen_window(d)

(* A seat is idle for dunst if its user is, and every seat is watched once  *)
(* if there is a protocol for it, whenever the seat appeared.               *)
IdleSeen ==
    Settled => \A s \in DOMAIN d.seats :
                   /\ d.seats[s].is_idle = (s \in c.idle)
                   /\ Cardinality(d.seats[s].watch) = (IF d.idlers = {} THEN 0 ELSE 1)

(* A click goes where the user clicked, and with pause_on_mouse_over dunst  *)
(* knows whether the pointer is over its window.                            *)
PointedAt ==
    /\ \A k \in d.clicks : k.hit = k.meant
    /\ Settled /\ "seats" \notin seatuses =>
          d.status.mouse_over = ("pause_on_mouse_over" \in seatuses /\ "pointer" \in DOMAIN c.at)
=============================================================================
