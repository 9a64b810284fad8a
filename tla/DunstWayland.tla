---------------------------- MODULE DunstWayland ----------------------------
(***************************************************************************)
(* The Wayland window of dunst (dunst/src/wayland/wl.c, wl_output.c and    *)
(* pool-buffer.c) between run(), which draws what is displayed, and a      *)
(* compositor that sends configure, closed, frame and release events when  *)
(* it likes.                                                               *)
(*                                                                         *)
(* The compositor handles a request as soon as it is made; what it sends   *)
(* waits in events until dunst dispatches it: from its main loop, or from  *)
(* wl_display_roundtrip(), which send_frame, draw and hide call last and   *)
(* from which run() may be entered again.  Events of an object that dunst  *)
(* has destroyed are dropped, as libwayland does.  A surface gets the size *)
(* it asks for.                                                            *)
(***************************************************************************)
EXTENDS Integers, SequencesExt, FiniteSets

CONSTANTS MaxRuns,     (* bound: how often dunst draws or hides             *)
          MaxEvents,   (* bound: events on their way                        *)
          MaxClosed,   (* bound: surfaces closed, outputs gone, scales      *)
                       (* changed and configurations reloaded               *)
          Monitors,    (* the outputs there may be                          *)
          WlUses       (* sets of behaviours; each run of dunst picks one   *)

WlBehaviours == {"hide", "closed", "outputs", "follow", "xdg", "hold", "wake", "reload", "reload shown"}

WaylandAssumption ==
    /\ MaxRuns \in Nat /\ MaxEvents \in Nat \ {0} /\ MaxClosed \in Nat
    /\ WlUses \subseteq SUBSET WlBehaviours

NULL    == 0                (* no output, no buffer                         *)
Buffer  == 1..2
Nothing == [text |-> 0, size |-> 0]

VARIABLES
    w,        (* ctx of wl.c, the compositor's view of it, and the events   *)
    app,      (* run(): the text wanted, its size and the timers            *)
    changes,  (* what the compositor has done on its own                    *)
    wuses

wlvars == <<w, app, changes, wuses>>

xdg(x)    == "xdg" \in wuses
Event(k)  == [type |-> k]
Gone(x, kinds) == [x EXCEPT !.events = SelectSeq(@, LAMBDA e : e.type \notin kinds)]
Send(x, e)     == [x EXCEPT !.events = Append(@, e)]

-----------------------------------------------------------------------------
(* The compositor's side of a surface: what is pending until the next       *)
(* commit, what is shown, and what it has yet to send.                      *)
NoSurface == [buffer |-> NULL, frame |-> FALSE, size |-> 0, first |-> TRUE, shown |-> Nothing,
              configure |-> FALSE, done |-> FALSE, entered |-> FALSE, on |-> NULL, closed |-> "no"]

Release(x, S) ==
    LET y == [x EXCEPT !.held = @ \ S]
    IN  [y EXCEPT !.events = @ \o SetToSeq({[type |-> "release", buffer |-> b] : b \in S})]

(* wl_surface_commit: a buffer is copied and released at once, or held      *)
(* until another takes its place.  A closed surface shows nothing.          *)
Commit(x) ==
    LET s == x.s
        b == s.buffer
        y == [x EXCEPT !.s.frame = FALSE, !.s.buffer = NULL, !.s.first = FALSE,
                       !.s.done = @ \/ s.frame,
                       !.s.configure = s.closed = "no" /\ (@ \/ s.first \/ s.size # x.asked),
                       !.asked = s.size]
        z == [y EXCEPT !.s.shown = IF s.closed = "no" THEN x.bufs[b].holds ELSE @,
                       !.held = @ \cup {b}]
    IN  IF b = NULL THEN y
        ELSE IF "hold" \in wuses THEN Release(z, x.held \ {b}) ELSE Release(z, z.held)

(* The output that is asked for, or one that the compositor picks; a        *)
(* surface that finds none is closed.                                       *)
Placed(x, output) ==
    LET S == IF output = NULL THEN x.there ELSE x.there \cap {output}
    IN  IF S = {} THEN [x EXCEPT !.s.closed = "owed"]
        ELSE [x EXCEPT !.s.on = CHOOSE o \in S : \A i \in S : o <= i]

(* wl_surface_destroy *)
Destroyed(x) ==
    Release(Gone([x EXCEPT !.surface = FALSE, !.s = NoSurface, !.asked = 0],
                 {"configure", "enter", "closed"}), x.held)

Roundtrip(x, call) == Send([x EXCEPT !.calls = Append(@, call)], Event("sync"))

-----------------------------------------------------------------------------
get_configured_output(x) ==
    IF Len(x.outputs) = 1 THEN x.outputs[1]
    ELSE IF "follow" \in wuses \/ x.outputs = <<>> THEN NULL ELSE x.outputs[1]

(* schedule_frame_and_commit of a surface that exists. *)
FrameAndCommit(x) ==
    IF x.frame THEN x ELSE Commit([x EXCEPT !.frame = TRUE, !.s.frame = TRUE])

TornDown(x) == [Destroyed(x) EXCEPT !.size = 0, !.configured = FALSE]

Created(x, output) ==
    IF x.surface THEN x
    ELSE Placed([x EXCEPT !.surface = TRUE, !.layer_surface_output = output], output)

(* zwlr_layer_surface_v1_set_size *)
Sized(x) == IF xdg(x) \/ x.size = x.cur_dim THEN x
            ELSE [x EXCEPT !.s.size = x.cur_dim, !.configured = FALSE]

Attached(x) ==
    IF x.current_buffer = NULL THEN [x EXCEPT !.crashed = TRUE]
    ELSE [FrameAndCommit([x EXCEPT !.s.buffer = x.current_buffer,
                                   !.bufs[x.current_buffer].busy = TRUE]) EXCEPT !.dirty = FALSE]

ConfiguredFrame(x) == IF x.configured THEN Attached(x) ELSE Roundtrip(Commit(x), "send_frame")

SentTo(x, output) ==
    IF x.cur_dim = 0
    THEN [TornDown(x) EXCEPT !.dirty = FALSE]
    ELSE ConfiguredFrame(Sized(Created(IF x.layer_surface_output # output THEN TornDown(x) ELSE x,
                                       output)))

send_frame(x) == IF x.outputs = <<>> THEN [x EXCEPT !.dirty = FALSE]
                 ELSE SentTo(x, get_configured_output(x))

schedule_frame_and_commit(x) ==
    IF ~x.frame /\ ~x.surface THEN send_frame(x) ELSE FrameAndCommit(x)

set_dirty(x) == IF x.dirty THEN x ELSE schedule_frame_and_commit([x EXCEPT !.dirty = TRUE])

-----------------------------------------------------------------------------
(* The handlers of events. *)
layer_surface_handle_configure(x, size) ==
    IF x.configured /\ x.size = size THEN Commit(x)
    ELSE send_frame([x EXCEPT !.configured = TRUE, !.size = size])

xdg_surface_handle_configure(x) ==
    IF x.configured THEN Commit(x) ELSE send_frame([x EXCEPT !.configured = TRUE])

handle_configure(x, size) == IF xdg(x) THEN xdg_surface_handle_configure(x)
                             ELSE layer_surface_handle_configure(x, size)

surface_handle_closed(x) ==
    LET a == Destroyed(x)
        b == IF a.frame THEN [Gone(a, {"done"}) EXCEPT !.frame = FALSE, !.dirty = TRUE] ELSE a
        c == IF b.configured THEN [b EXCEPT !.configured = FALSE, !.size = 0, !.dirty = TRUE] ELSE b
    IN  IF c.dirty THEN schedule_frame_and_commit(c) ELSE c

surface_handle_enter(x) == set_dirty(x)

(* Mutant: what was drawn while a frame was awaited is not sent. *)
frame_handle_done_Late(x) == [x EXCEPT !.frame = FALSE]

frame_handle_done(x) ==
    LET y == [x EXCEPT !.frame = FALSE] IN IF x.dirty THEN send_frame(y) ELSE y

buffer_handle_release(x, b) == [x EXCEPT !.bufs[b].busy = FALSE]

create_output(x, o) ==
    LET y == [x EXCEPT !.outputs = <<o>> \o @]
    IN  IF x.outputs = <<>> THEN set_dirty(y) ELSE y

destroy_output(x, o) ==
    [x EXCEPT !.outputs = SelectSeq(@, LAMBDA i : i # o),
              !.layer_surface_output = IF @ = o THEN NULL ELSE @]

(* Mutant: buffers that the compositor reads are not told from free ones. *)
FreeBuffer_Any(x) == 2

(* The last free buffer of the pool, made anew if its size differs. *)
FreeBuffer(x) == IF ~x.bufs[2].busy THEN 2 ELSE IF ~x.bufs[1].busy THEN 1 ELSE NULL

(* draw: wl_win_get_context and wl_display_surface both take it, the first  *)
(* for measuring with a size of its own.                                    *)
Drawn(x, b, text, size) ==
    LET y == [x EXCEPT !.bufs[b].holds = [text |-> text, size |-> size],
                       !.current_buffer = b, !.cur_dim = size,
                       !.overdrawn = @ \/ b \in x.held]
        z == [y EXCEPT !.events = SelectSeq(@, LAMBDA e : e # [type |-> "release", buffer |-> b])]
    IN  Roundtrip(set_dirty(z), "draw")

draw(x, text, size) ==
    IF FreeBuffer(x) = NULL THEN [x EXCEPT !.current_buffer = NULL]
    ELSE Drawn(x, FreeBuffer(x), text, size)

wl_win_hide(x) == Roundtrip(set_dirty([x EXCEPT !.cur_dim = 0]), "hide")

-----------------------------------------------------------------------------
(* run(): known is the timer of next_timeout_id, forgotten are others that  *)
(* still exist.  The timer for the next change is set when draw returns.    *)
Waits(x, y) == Len(y.calls) > Len(x.calls)

TimersSet(a, n) == [a EXCEPT !.forgotten = @ + n - (IF a.known THEN 0 ELSE 1), !.known = TRUE]

(* The roundtrips that end with the last of their answers return together;  *)
(* each draw among them sets a timer.                                       *)
Draws(calls) == Len(SelectSeq(calls, LAMBDA k : k = "draw"))

Run(a, size) ==
    \E y \in {IF size = 0 THEN wl_win_hide(w) ELSE draw(w, app.runs + 1, size)} :
        /\ w' = y
        /\ app' = LET b == [a EXCEPT !.runs = @ + 1, !.text = app.runs + 1, !.size = size]
                  IN  IF size = 0 \/ Waits(w, y) THEN b ELSE TimersSet(b, 1)

Idle  == w.calls = <<>> /\ app.setup_done /\ app.runs < MaxRuns
Sizes == IF "hide" \in wuses THEN 0..2 ELSE 1..2

(* wake_up, from the main loop: a notification comes, goes or changes. *)
WakeUp ==
    /\ Idle
    /\ \E size \in Sizes : Run([app EXCEPT !.known = FALSE], size)
    /\ UNCHANGED <<changes, wuses>>

Timer ==
    /\ Idle
    /\ \/ app.known /\ \E size \in Sizes : Run([app EXCEPT !.known = FALSE], size)
       \/ /\ app.forgotten > 0
          /\ \E size \in Sizes :
                Run([app EXCEPT !.known = FALSE,
                                !.forgotten = @ - (IF app.known THEN 0 ELSE 1)], size)
    /\ UNCHANGED <<changes, wuses>>

Take(x) == [x EXCEPT !.events = Tail(@)]

(* The handlers that do not enter run(). *)
Handled(x, e) ==
    CASE e.type = "configure" -> handle_configure(x, e.size)
      [] e.type = "closed"    -> surface_handle_closed(x)
      [] e.type = "enter"     -> surface_handle_enter(x)
      [] e.type = "done"      -> frame_handle_done(x)
      [] e.type = "release"   -> buffer_handle_release(x, e.buffer)
      [] e.type = "appears"   -> create_output(x, e.output)
      [] e.type = "vanishes"  -> destroy_output(x, e.output)

Dispatch ==
    /\ w.events # <<>> /\ Head(w.events).type \notin {"sync", "scale"}
    /\ w' = Handled(Take(w), Head(w.events))
    /\ UNCHANGED <<app, changes, wuses>>

(* output_handle_scale wakes dunst up, in a roundtrip too, but not while    *)
(* settings are loaded.                                                     *)
Scale ==
    /\ w.events # <<>> /\ Head(w.events).type = "scale"
    /\ IF ~app.setup_done THEN w' = Take(w) /\ UNCHANGED app ELSE
        \E y \in {Take(w)}, a \in {[app EXCEPT !.known = FALSE, !.runs = @ + 1, !.text = app.runs + 1]} :
          \E z \in {IF app.size = 0 THEN wl_win_hide(y) ELSE draw(y, app.runs + 1, app.size)} :
             w' = z /\ app' = IF app.size = 0 \/ Waits(y, z) THEN a ELSE TimersSet(a, 1)
    /\ UNCHANGED <<changes, wuses>>

Sync ==
    /\ w.events # <<>> /\ Head(w.events).type = "sync"
    /\ IF \E k \in 2..Len(w.events) : w.events[k].type = "sync"
       THEN w' = Take(w) /\ UNCHANGED app
       ELSE /\ w' = [Take(w) EXCEPT !.calls = <<>>]
            /\ app' = IF Draws(w.calls) = 0 THEN app ELSE TimersSet(app, Draws(w.calls))
    /\ UNCHANGED <<changes, wuses>>

(* reload: all notifications are paused and hidden, but those whose         *)
(* override_pause_level is high enough; then dunst leaves the compositor,   *)
(* and finds its outputs again.                                             *)
Reload ==
    /\ "reload" \in wuses /\ Idle /\ changes < MaxClosed /\ changes' = changes + 1
    /\ \E size \in IF "reload shown" \in wuses THEN Sizes ELSE {0} :
          Run([app EXCEPT !.known = FALSE, !.setup_done = FALSE], size)
    /\ UNCHANGED wuses

wl_deinit(x) ==
    [x EXCEPT !.surface = FALSE, !.s = NoSurface, !.asked = 0, !.frame = FALSE, !.outputs = <<>>,
              !.layer_surface_output = NULL, !.current_buffer = NULL, !.held = {}, !.events = <<>>,
              !.bufs = [b \in Buffer |-> [busy |-> FALSE, holds |-> Nothing]]]

wl_init(x) ==
    Roundtrip(FoldLeft(create_output, [x EXCEPT !.dirty = FALSE], SetToSeq(x.there)), "init")

Reopen ==
    /\ ~app.setup_done /\ app.connected /\ w.calls = <<>> /\ w.there # {}
    /\ w' = wl_init(wl_deinit(w))
    /\ app' = [app EXCEPT !.connected = FALSE]
    /\ UNCHANGED <<changes, wuses>>

Unpause ==
    /\ ~app.connected /\ w.calls = <<>>
    /\ \E size \in Sizes :
          Run([app EXCEPT !.known = FALSE, !.setup_done = TRUE, !.connected = TRUE], size)
    /\ UNCHANGED <<changes, wuses>>

-----------------------------------------------------------------------------
(* The compositor. *)
MaySend == Len(w.events) < MaxEvents

SendConfigure ==
    /\ MaySend /\ w.s.configure
    /\ w' = Send([w EXCEPT !.s.configure = FALSE], [type |-> "configure", size |-> w.asked])
    /\ UNCHANGED <<app, changes, wuses>>

(* A surface that shows nothing gets no frames. *)
SendDone ==
    /\ MaySend /\ w.s.done /\ w.s.shown # Nothing
    /\ w' = Send([w EXCEPT !.s.done = FALSE], Event("done"))
    /\ UNCHANGED <<app, changes, wuses>>

SendEnter ==
    /\ MaySend /\ w.s.shown # Nothing /\ ~w.s.entered
    /\ w' = Send([w EXCEPT !.s.entered = TRUE], Event("enter"))
    /\ UNCHANGED <<app, changes, wuses>>

ByItself == MaySend /\ changes < MaxClosed /\ changes' = changes + 1 /\ UNCHANGED <<app, wuses>>

Closed(x) == Send([x EXCEPT !.s = [NoSurface EXCEPT !.first = FALSE, !.closed = "sent"]],
                  Event("closed"))

SendClosed ==
    /\ w.surface /\ ~w.s.first /\ w.s.closed # "sent"
    /\ w' = Closed(w)
    /\ \/ w.s.closed = "owed" /\ MaySend /\ UNCHANGED <<app, changes, wuses>>
       \/ "closed" \in wuses /\ ByItself

(* An output goes, and with it the surface on it. *)
OutputVanishes ==
    /\ "outputs" \in wuses /\ ByItself
    /\ \E o \in w.there :
          LET gone   == [type |-> "vanishes", output |-> o]
              Left(x) == [x EXCEPT !.there = @ \ {o}]
          IN  \/ w.s.on # o /\ w' = Send(Left(w), gone)
              \/ w.s.on = o /\ w' \in {Closed(Send(Left(w), gone)), Send(Closed(Left(w)), gone)}

OutputAppears ==
    /\ "outputs" \in wuses /\ ByItself
    /\ \E o \in Monitors \ w.there :
          w' = Send([w EXCEPT !.there = @ \cup {o}], [type |-> "appears", output |-> o])

Rescale ==
    /\ "wake" \in wuses /\ app.runs < MaxRuns /\ ByItself
    /\ ~\E k \in 1..Len(w.events) : w.events[k].type = "scale"
    /\ w' = Send(w, Event("scale"))

Init ==
    /\ wuses \in WlUses
    /\ \E S \in (SUBSET Monitors) \ {{}} :
          w = [dirty |-> FALSE, configured |-> FALSE, size |-> 0, cur_dim |-> 0,
               surface |-> FALSE, layer_surface_output |-> NULL, frame |-> FALSE,
               current_buffer |-> NULL, outputs |-> SetToSeq(S),
               bufs |-> [b \in Buffer |-> [busy |-> FALSE, holds |-> Nothing]],
               s |-> NoSurface, asked |-> 0, held |-> {}, there |-> S,
               events |-> <<>>, calls |-> <<>>, crashed |-> FALSE, overdrawn |-> FALSE]
    /\ app = [text |-> 0, size |-> 0, known |-> FALSE, forgotten |-> 0, runs |-> 0,
              setup_done |-> TRUE, connected |-> TRUE]
    /\ changes = 0

Next ==
    \/ WakeUp \/ Timer \/ Dispatch \/ Scale \/ Sync \/ Reload \/ Reopen \/ Unpause
    \/ SendConfigure \/ SendDone \/ SendEnter
    \/ SendClosed \/ OutputVanishes \/ OutputAppears \/ Rescale

Spec == Init /\ [][Next]_wlvars

-----------------------------------------------------------------------------
(* Nothing is under way: no event, no roundtrip, nothing that the           *)
(* compositor owes.                                                         *)
Settled == /\ w.events = <<>> /\ w.calls = <<>> /\ app.setup_done
           /\ ~w.s.configure /\ w.s.closed # "owed" /\ (w.s.done => w.s.shown = Nothing)

(* No wake-up is lost: when all is settled the surface shows what run()     *)
(* drew last, and there is none if it hid the window, whatever surfaces     *)
(* were closed and outputs came and went meanwhile.  Left out is what could *)
(* not be drawn, as the compositor held both buffers ("hold").              *)
NoBuffer == "hold" \in wuses /\ w.current_buffer = NULL

ShownIsWanted ==
    Settled /\ ~NoBuffer /\ w.outputs # <<>> /\ app.runs > 0 =>
        IF app.size = 0 THEN ~w.surface
        ELSE w.s.shown = [text |-> app.text, size |-> app.size]

(* dunst never draws into a buffer that the compositor reads (busy, the     *)
(* frames and the releases agree), and never sends a frame without a buffer *)
(* as long as the compositor does not hold both when it draws ("hold").     *)
BuffersSafe == ~w.overdrawn /\ ("hold" \notin wuses => ~w.crashed)

(* dunst.c: "at most one glib timeout source (or timer here) exists" once   *)
(* run has returned, and next_timeout_id is its id.  Left out is a run      *)
(* entered again from its own roundtrip ("wake"), which leaves two.         *)
OneTimer == w.calls = <<>> /\ "wake" \notin wuses => app.forgotten = 0
=============================================================================
