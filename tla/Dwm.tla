-------------------------------- MODULE Dwm --------------------------------
(***************************************************************************)
(* dwm's clients, monitors, views and input focus (dwm/dwm.c with the      *)
(* patches attachx, awesomebar/wintitleactions and seamless_restart), the  *)
(* part of the X server they live in, and the programs that map, withdraw  *)
(* and destroy windows while dwm is busy with older events.                *)
(*                                                                         *)
(* Geometry, borders, drawing and stacking order are left out: arrange(),  *)
(* restack() and the bar functions read the state below and change none of *)
(* it.  Layouts and the other settings per tag are in module Pertag; where *)
(* the code asks whether the layout arranges windows, both answers are     *)
(* explored.                                                               *)
(***************************************************************************)
EXTENDS ClientList, SequencesExt, FiniteSets

CONSTANTS Window,      (* the top-level windows that programs may map       *)
          NoWin,       (* NULL, None                                        *)
          MaxMon,      (* most monitors there are                           *)
          NTags,       (* NUMTAGS                                           *)
          Masks,       (* the tag masks that keys and clicks pass           *)
          Parent,      (* WM_TRANSIENT_FOR of each window, or NoWin         *)
          Dialog,      (* the windows that a rule makes floating            *)
          Fixed,       (* the windows whose minimum and maximum sizes agree *)
          Uses,        (* sets of optional behaviours, one of which is picked*)
          MaxQueue,    (* bound: X events waiting for dwm                   *)
          MaxRestarts  (* bound: restarts and crashes of dwm                *)

Behaviours == {"float", "fullscreen", "hide", "urgent", "drag", "screens",
               "zoom", "move", "tag", "enter", "takefocus", "destroy", "crash",
               "noinput", "hints", "late input"}

ASSUME DwmAssumption ==
    /\ NoWin \notin Window
    /\ MaxMon \in Nat \ {0}
    /\ NTags \in Nat \ {0}
    /\ Masks \subseteq SUBSET (1..NTags)
    /\ Parent \in [Window -> Window \cup {NoWin}]
    /\ Dialog \subseteq Window /\ Fixed \subseteq Window
    /\ Uses \subseteq SUBSET Behaviours
    /\ MaxQueue \in Nat /\ MaxRestarts \in Nat

Mon == 1..MaxMon                    (* in the order of the list mons *)
Tag == 1..NTags

VARIABLES
    d,          (* the desktop: dwm's memory and the X server's properties  *)
    pc,         (* where dwm is: "scan", "run", or "drag" in movemouse      *)
    todo,       (* windows of XQueryTree that scan has yet to look at       *)
    drag,       (* the client that movemouse or resizemouse moves           *)
    queue,      (* events that dwm has not read                             *)
    props,      (* _DWM_CLIENT_FIELDS and _DWM_CLIENT_TAGS of each window   *)
    rootprops,  (* _DWM_MONITOR_TAGS of each monitor, {}: not set           *)
    restarts,   (* number of restarts so far                                *)
    clean,      (* whether the last one ran cleanup()                       *)
    noinput,    (* windows whose WM_HINTS, as dwm last read them, refuse    *)
                (* the input focus: neverfocus of a client                  *)
    uses        (* the optional behaviours of this behaviour                *)

pvars == <<props, rootprops, restarts, clean>>
vars  == <<d, pc, todo, drag, queue, pvars, noinput, uses>>

NoClient == [mon |-> 0, tags |-> {}, isfloating |-> FALSE, isfullscreen |-> FALSE,
             oldstate |-> FALSE, isurgent |-> FALSE, idx |-> 0]
NoProps  == [mon |-> 0, tags |-> {}, isfloating |-> FALSE, idx |-> 0]

Managed(s)    == {w \in Window : s.cl[w].mon # 0}
Mons(s)       == 1..s.mons
Shown(s, m)   == s.tagset[m][s.seltags[m]]
ISVISIBLE(s, c) == s.cl[c].tags \cap Shown(s, s.cl[c].mon) # {}
HIDDEN(s, c)    == s.wmstate[c] = "Iconic"

Visible(s) == {c \in Managed(s) : ISVISIBLE(s, c)}
Usable(s)  == {c \in Visible(s) : ~HIDDEN(s, c)}
Tiled(s)   == {c \in Usable(s) : ~s.cl[c].isfloating}

(* The first or last member of S in the list, or NoWin. *)
FirstIn(list, S) ==
    IF \E k \in DOMAIN list : list[k] \in S
    THEN list[CHOOSE k \in DOMAIN list :
                /\ list[k] \in S
                /\ \A j \in 1..(k - 1) : list[j] \notin S]
    ELSE NoWin
LastIn(list, S) ==
    IF \E k \in DOMAIN list : list[k] \in S
    THEN list[CHOOSE k \in DOMAIN list :
                /\ list[k] \in S
                /\ \A j \in (k + 1)..Len(list) : list[j] \notin S]
    ELSE NoWin

Before(list, c) == SubSeq(list, 1, PositionOf(list, c) - 1)
After(list, c)  == SubSeq(list, PositionOf(list, c) + 1, Len(list))

-----------------------------------------------------------------------------
(* The functions that the handlers are built of; s is a value of d.        *)

detachstack(s, c) ==
    LET m == s.cl[c].mon
        t == [s EXCEPT !.stack[m] = detach(@, c)]
    IN  IF s.sel[m] = c
        THEN [t EXCEPT !.sel[m] = FirstIn(t.stack[m], Visible(s))] ELSE t

attachstack(s, c) == [s EXCEPT !.stack[s.cl[c].mon] = attach(@, c)]

detach_client(s, c) == [s EXCEPT !.clients[s.cl[c].mon] = detach(@, c), !.cl[c].idx = 0]
attach_client(s, c) == [s EXCEPT !.clients[s.cl[c].mon] = attach(@, c)]

(* Requests about a window that has been destroyed do nothing (xerror      *)
(* ignores BadWindow), nor does focusing one that is not mapped.           *)
XMapWindow(s, c) == [s EXCEPT !.mapped = @ \cup ({c} \cap s.exists)]

XUnmapWindow(s, c) == [s EXCEPT !.mapped = @ \ {c}, !.xfocus = IF @ = c THEN NoWin ELSE @]

setclientstate(s, c, state) ==
    IF c \in s.exists THEN [s EXCEPT !.wmstate[c] = state] ELSE s

(* A window that refuses input is asked to take the focus itself; until it *)
(* does, the focus stays where it is.                                      *)
setfocus(s, c) == IF c \in s.mapped \ noinput THEN [s EXCEPT !.xfocus = c] ELSE s

unfocus(s, c, setroot) == IF c # NoWin /\ setroot THEN [s EXCEPT !.xfocus = NoWin] ELSE s

(* Mutant: the input focus is not moved. *)
focus_SelOnly(s, c0) ==
    LET c == IF c0 # NoWin /\ ISVISIBLE(s, c0) THEN c0
             ELSE FirstIn(s.stack[s.selmon], Visible(s))
        m == s.cl[c].mon
    IN  IF c = NoWin THEN [s EXCEPT !.sel[s.selmon] = NoWin]
        ELSE [attachstack(detachstack(s, c), c) EXCEPT
                 !.selmon = m, !.sel[m] = c, !.cl[c].isurgent = FALSE]

(* c becomes the first of its stack and sel of its monitor. *)
focus_client(s, c) ==
    LET m == s.cl[c].mon
    IN  [setfocus(attachstack(detachstack(s, c), c), c) EXCEPT
            !.selmon = m, !.sel[m] = c, !.cl[c].isurgent = FALSE]

focus(s, c0) ==
    LET c == IF c0 # NoWin /\ ISVISIBLE(s, c0) THEN c0
             ELSE FirstIn(s.stack[s.selmon], Visible(s))
    IN  IF c = NoWin THEN [s EXCEPT !.xfocus = NoWin, !.sel[s.selmon] = NoWin]
        ELSE focus_client(s, c)

(* "focus monitor if necessary", as in buttonpress. *)
select_monitor(s, m) ==
    IF m = s.selmon THEN s
    ELSE focus([unfocus(s, s.sel[s.selmon], TRUE) EXCEPT !.selmon = m], NoWin)

setfullscreen(s, c, on) ==
    IF on /\ ~s.cl[c].isfullscreen
    THEN [s EXCEPT !.full = @ \cup {c},
                   !.cl[c].isfullscreen = TRUE,
                   !.cl[c].oldstate = s.cl[c].isfloating,
                   !.cl[c].isfloating = TRUE]
    ELSE IF ~on /\ s.cl[c].isfullscreen
    THEN [s EXCEPT !.full = @ \ {c},
                   !.cl[c].isfullscreen = FALSE,
                   !.cl[c].isfloating = s.cl[c].oldstate]
    ELSE s

(* Where a new window goes: the state of its last restart if it has one    *)
(* and the monitor is still there, else what the rules say; a transient    *)
(* goes where its parent is.                                               *)
placement(s, w) ==
    LET p        == props[w]
        restored == p.mon # 0 /\ p.mon \in Mons(s)
        base     == [NoClient EXCEPT !.idx = p.idx]
    IN  IF Parent[w] # NoWin /\ Parent[w] \in Managed(s)
        THEN [base EXCEPT !.mon = s.cl[Parent[w]].mon, !.tags = s.cl[Parent[w]].tags,
                          !.isfloating = p.isfloating]
        ELSE IF restored
        THEN [base EXCEPT !.mon = p.mon, !.tags = p.tags, !.isfloating = p.isfloating]
        ELSE [base EXCEPT !.mon = s.selmon, !.tags = Shown(s, s.selmon),
                          !.isfloating = w \in Dialog]

(* manage: the new client is added, mapped unless it is iconic, and        *)
(* selected on its monitor.                                                *)
manage(s, w, urgent) ==
    LET p   == placement(s, w)
        s1  == [s EXCEPT !.cl[w] = [p EXCEPT !.isurgent = urgent]]
        s2  == IF w \in s.full THEN setfullscreen(s1, w, TRUE) ELSE s1
        flt == Parent[w] # NoWin \/ w \in Fixed
        s3  == IF s2.cl[w].isfloating THEN s2
               ELSE [s2 EXCEPT !.cl[w].isfloating = flt, !.cl[w].oldstate = flt]
        s4  == [s3 EXCEPT !.clients[p.mon] =
                    attachx(@, w, [c \in Window |-> s3.cl[c].idx])]
        s5  == [attachstack(s4, w) EXCEPT !.clientlist = @ \cup {w}, !.sel[p.mon] = w]
    IN  focus(IF HIDDEN(s, w) THEN s5 ELSE XMapWindow(setclientstate(s5, w, "Normal"), w),
              NoWin)

updateclientlist(s) ==
    [s EXCEPT !.clientlist = UNION {Members(s.clients[m]) : m \in Mons(s)}]

(* Mutant: the list of the root window is not updated. *)
unmanage_NoList(s, c, destroyed) ==
    LET s1 == detachstack(detach_client(s, c), c)
        s2 == IF destroyed THEN s1 ELSE setclientstate(s1, c, "Withdrawn")
    IN  focus([s2 EXCEPT !.cl[c] = NoClient], NoWin)

unmanage(s, c, destroyed) ==
    LET s1 == detachstack(detach_client(s, c), c)
        s2 == IF destroyed THEN s1 ELSE setclientstate(s1, c, "Withdrawn")
    IN  updateclientlist(focus([s2 EXCEPT !.cl[c] = NoClient], NoWin))

(* Mutant: the client stays in the list of its old monitor. *)
sendmon_NoDetach(s, c, m) ==
    IF s.cl[c].mon = m THEN s
    ELSE LET s1 == detachstack(unfocus(s, c, TRUE), c)
             s2 == [s1 EXCEPT !.cl[c].mon = m, !.cl[c].tags = Shown(s, m)]
         IN  focus(attachstack(attach_client(s2, c), c), NoWin)

sendmon(s, c, m) ==
    IF s.cl[c].mon = m THEN s
    ELSE LET s1 == detachstack(detach_client(unfocus(s, c, TRUE), c), c)
             s2 == [s1 EXCEPT !.cl[c].mon = m, !.cl[c].tags = Shown(s, m)]
         IN  focus(attachstack(attach_client(s2, c), c), NoWin)

(* zoom and pop; arranges: the layout arranges windows. *)
zoom(s, c, arranges) ==
    LET tiled == Tiled(s)
        list  == s.clients[s.selmon]
        next  == IF c = FirstIn(list, tiled) THEN FirstIn(After(list, c), tiled) ELSE c
        moved == attach_client(detach_client(s, next), next)
    IN  IF ~arranges \/ s.cl[c].isfloating \/ next = NoWin THEN s ELSE focus(moved, next)

(* hide unmaps the window and looks for another one to focus.              *)
hide(s, c, arranges) ==
    LET m  == s.cl[c].mon
        s1 == setclientstate(XUnmapWindow(s, c), c, "Iconic")
        below    == FirstIn(After(s.stack[m], c), Usable(s1))
        nexttiled == FirstIn(After(s.clients[m], c), Tiled(s1))
        prevtiled == LastIn(Before(s.clients[m], c), Usable(s1))
        n  == IF s.cl[c].isfloating \/ ~arranges
              THEN IF below # NoWin THEN below ELSE FirstIn(s.stack[m], Usable(s1))
              ELSE IF nexttiled # NoWin THEN nexttiled ELSE prevtiled
    IN  IF HIDDEN(s, c) THEN s ELSE focus(s1, n)

show(s, c) ==
    IF HIDDEN(s, c)
    THEN setclientstate(XMapWindow(s, c), c, "Normal") ELSE s

togglewin(s, c, arranges) ==
    IF ~HIDDEN(s, c) /\ c = s.sel[s.selmon] THEN hide(s, c, arranges)
    ELSE focus(show(s, c), c)

showhideclient(s, c, arranges) ==
    IF HIDDEN(s, c) THEN focus(show(s, c), c) ELSE hide(s, c, arranges)

view(s, mask) ==
    LET m == s.selmon
        i == 1 - s.seltags[m]
    IN  IF mask = Shown(s, m) THEN s
        ELSE focus([s EXCEPT !.seltags[m] = i,
                             !.tagset[m][i] = IF mask # {} THEN mask ELSE @], NoWin)

Toggled(S, mask) == (S \ mask) \cup (mask \ S)

toggleview(s, mask) ==
    LET m == s.selmon
        t == Toggled(Shown(s, m), mask)
    IN  IF t = {} THEN s ELSE focus([s EXCEPT !.tagset[m][s.seltags[m]] = t], NoWin)

(* Mutant: the focus stays where it is. *)
tag_NoFocus(s, mask) ==
    LET c == s.sel[s.selmon]
    IN  IF c = NoWin \/ mask = {} THEN s ELSE [s EXCEPT !.cl[c].tags = mask]

tag(s, mask) ==
    LET c == s.sel[s.selmon]
    IN  IF c = NoWin \/ mask = {} THEN s ELSE focus([s EXCEPT !.cl[c].tags = mask], NoWin)

toggletag(s, mask) ==
    LET c == s.sel[s.selmon]
        t == Toggled(s.cl[c].tags, mask)
    IN  IF c = NoWin \/ t = {} THEN s ELSE focus([s EXCEPT !.cl[c].tags = t], NoWin)

(* focusstack: the next or previous window that is visible and not hidden, *)
(* around the ends of the list; not away from a fullscreen window.         *)
focusstack(s, forward) ==
    LET c    == s.sel[s.selmon]
        list == s.clients[s.selmon]
        ahead == FirstIn(After(list, c), Usable(s))
        back  == LastIn(Before(list, c), Usable(s))
        t == IF forward THEN IF ahead # NoWin THEN ahead ELSE FirstIn(list, Usable(s))
             ELSE IF back # NoWin THEN back ELSE LastIn(list, Usable(s))
    IN  IF c = NoWin \/ s.cl[c].isfullscreen \/ t = NoWin THEN s ELSE focus(s, t)

dirtomon(s, dir) ==
    IF dir > 0 THEN IF s.selmon = s.mons THEN 1 ELSE s.selmon + 1
               ELSE IF s.selmon = 1 THEN s.mons ELSE s.selmon - 1

focusmon(s, dir) ==
    IF s.mons = 1 THEN s ELSE focus([s EXCEPT !.selmon = dirtomon(s, dir)], NoWin)

tagmon(s, dir) ==
    IF s.sel[s.selmon] = NoWin \/ s.mons = 1 THEN s
    ELSE sendmon(s, s.sel[s.selmon], dirtomon(s, dir))

togglefloating(s, c) ==
    IF s.cl[c].isfullscreen THEN s
    ELSE [s EXCEPT !.cl[c].isfloating = ~@ \/ c \in Fixed]

-----------------------------------------------------------------------------
(* Monitors. *)

(* createmon for each of the monitors ms: the tags of the monitor with this *)
(* number at the last restart are viewed, tag 1 if there are none.         *)
createmon(saved, s, ms) ==
    [s EXCEPT !.clients = [m \in Mon |-> IF m \in ms THEN <<>> ELSE @[m]],
              !.stack   = [m \in Mon |-> IF m \in ms THEN <<>> ELSE @[m]],
              !.sel     = [m \in Mon |-> IF m \in ms THEN NoWin ELSE @[m]],
              !.seltags = [m \in Mon |-> IF m \in ms THEN 0 ELSE @[m]],
              !.tagset  = [m \in Mon |-> IF m \notin ms THEN @[m]
                  ELSE [i \in 0..1 |-> IF i = 0 /\ saved[m] # {} THEN saved[m] ELSE {1}]]]

(* Mutant: the clients of a removed monitor stay in its stack. *)
removemon_Stack(s, m) ==
    [s EXCEPT !.cl = [w \in Window |->
                          IF s.cl[w].mon = m THEN [s.cl[w] EXCEPT !.mon = 1] ELSE s.cl[w]],
              !.clients[1] = Reverse(s.clients[m]) \o @, !.clients[m] = <<>>,
              !.stack[m] = <<>>, !.sel[m] = NoWin]

(* The clients of a removed monitor go to the first one, one by one, each  *)
(* to the head of its lists.                                               *)
removemon(s, m) ==
    LET moved == Reverse(s.clients[m])
    IN  [s EXCEPT !.cl = [w \in Window |->
                             IF s.cl[w].mon = m THEN [s.cl[w] EXCEPT !.mon = 1] ELSE s.cl[w]],
                  !.clients[1] = moved \o @, !.clients[m] = <<>>,
                  !.stack[1] = moved \o @, !.stack[m] = <<>>,
                  !.sel[m] = NoWin]

(* The monitors from the last one to the one after n are removed. *)
Removed(s, n) ==
    LET after[k \in 0..(s.mons - n)] ==
            IF k = 0 THEN s ELSE removemon(after[k - 1], s.mons - k + 1)
    IN  after[s.mons - n]

(* updategeom for n screens with the pointer on the monitor p; moved: one  *)
(* of the remaining monitors has a new geometry.                           *)
updategeom(s, n, moved, p) ==
    LET t     == IF n < s.mons THEN Removed(s, n)
                 ELSE createmon(rootprops, s, (s.mons + 1)..n)
        dirty == moved \/ n > s.mons \/ \E m \in Mons(s) : m > n /\ s.clients[m] # <<>>
    IN  [s |-> [t EXCEPT !.mons = n,
                         !.selmon = IF dirty THEN p ELSE IF @ > n THEN 1 ELSE @],
         dirty |-> dirty]

(* setup: dwm's memory after it has started, on top of the properties of   *)
(* the windows and the saved tags of the monitors.                         *)
setup(n, p, exists, mapped, wmstate, full, saved) ==
    LET blank == [mons       |-> n,
                  selmon     |-> p,
                  clients    |-> [m \in Mon |-> <<>>],
                  stack      |-> [m \in Mon |-> <<>>],
                  sel        |-> [m \in Mon |-> NoWin],
                  tagset     |-> [m \in Mon |-> [i \in 0..1 |-> {1}]],
                  seltags    |-> [m \in Mon |-> 0],
                  cl         |-> [w \in Window |-> NoClient],
                  xfocus     |-> NoWin,
                  exists     |-> exists,
                  mapped     |-> mapped,
                  wmstate    |-> wmstate,
                  full       |-> full,
                  clientlist |-> {}]
    IN  createmon(saved, blank, 1..n)

(* The numbers of screens that there may be. *)
Screens == IF "screens" \in uses THEN Mon ELSE {MaxMon}

May(use) == IF use \in uses THEN BOOLEAN ELSE {FALSE}
Arranges     == IF "float" \in uses THEN BOOLEAN ELSE {TRUE}

-----------------------------------------------------------------------------
(* No program that dgwm-init starts before dwm maps a window that dwm      *)
(* would manage.                                                           *)
Init ==
    /\ uses \in Uses
    /\ props = [w \in Window |-> NoProps]
    /\ rootprops = [m \in Mon |-> {}]
    /\ \E n \in Screens :
         d = setup(n, 1, Window, {}, [w \in Window |-> "Withdrawn"], {}, rootprops)
    /\ pc = "scan" /\ todo = {} /\ drag = NoWin
    /\ queue = <<>>
    /\ restarts = 0 /\ clean = TRUE
    /\ noinput \in IF "noinput" \in uses THEN SUBSET Window ELSE {{}}

(* scan: first the windows that are not transient, then those that are.    *)
ScanWindow(w) ==
    /\ pc = "scan" /\ w \in todo
    /\ Parent[w] = NoWin \/ \A v \in todo : Parent[v] # NoWin
    /\ todo' = todo \ {w}
    /\ IF w \in d.exists /\ (w \in d.mapped \/ HIDDEN(d, w))
       THEN \E urgent \in May("urgent") : d' = manage(d, w, urgent)
       ELSE UNCHANGED d
    /\ UNCHANGED <<pc, drag, queue, pvars>>

ScanEnd ==
    /\ pc = "scan" /\ todo = {}
    /\ pc' = "run"
    /\ UNCHANGED <<d, todo, drag, queue, pvars>>

-----------------------------------------------------------------------------
(* The handlers of events about windows.  run() takes the first event of   *)
(* the queue; movemouse takes the first MapRequest and leaves the others.  *)

maprequest(k) ==
    LET w == queue[k].win
    IN  /\ queue[k].type = "MapRequest"
        /\ \/ pc = "run" /\ k = 1
           \/ pc = "drag" /\ \A j \in 1..(k - 1) : queue[j].type # "MapRequest"
        /\ queue' = RemoveAt(queue, k)
        /\ IF w \in d.exists /\ w \notin Managed(d)
           THEN \E urgent \in May("urgent") : d' = manage(d, w, urgent)
           ELSE UNCHANGED d
        /\ UNCHANGED <<pc, todo, drag, pvars>>

Handle(type) ==
    /\ pc = "run" /\ queue # <<>> /\ Head(queue).type = type
    /\ queue' = Tail(queue)
    /\ UNCHANGED <<pc, todo, drag, pvars>>

unmapnotify ==
    \/ /\ Handle("UnmapNotify")
       /\ LET c == Head(queue).win
          IN  d' = IF c \in Managed(d) THEN unmanage(d, c, FALSE) ELSE d
    \/ /\ Handle("UnmapNotify sent by the client")
       /\ LET c == Head(queue).win
          IN  d' = IF c \in Managed(d) THEN [d EXCEPT !.wmstate[c] = "Withdrawn"] ELSE d

destroynotify ==
    /\ Handle("DestroyNotify")
    /\ LET c == Head(queue).win
       IN  d' = IF c \in Managed(d) THEN unmanage(d, c, TRUE) ELSE d

(* Mutant: the focus stays with the window that took it. *)
focusin_Kept == Handle("FocusIn") /\ UNCHANGED d

focusin ==
    /\ Handle("FocusIn")
    /\ LET c == d.sel[d.selmon]
       IN  d' = IF c # NoWin /\ c # Head(queue).win THEN setfocus(d, c) ELSE d

-----------------------------------------------------------------------------
(* The handlers of keys, clicks and the pointer.                           *)

Interactive == pc = "run" /\ UNCHANGED <<pc, todo, drag, queue, pvars>>

(* A key acts on the desktop as it is; a click on a bar first selects the  *)
(* monitor of the bar.                                                     *)
Before_command == {d} \cup {select_monitor(d, m) : m \in Mons(d)}

(* Without "tag" only the first tag is used. *)
Masked == IF "tag" \in uses THEN Masks ELSE {{1}}

View       == Interactive /\ \E s \in Before_command, k \in Masked : d' = view(s, k)
ToggleView == Interactive /\ \E s \in Before_command, k \in Masked : d' = toggleview(s, k)
SetTag     == /\ Interactive /\ "tag" \in uses
              /\ \E s \in Before_command, k \in Masks : d' = tag(s, k)
ToggleTag  == /\ Interactive /\ "tag" \in uses
              /\ \E s \in Before_command, k \in Masks : d' = toggletag(s, k)
FocusStack == Interactive /\ \E forward \in BOOLEAN : d' = focusstack(d, forward)
FocusMon   == Interactive /\ \E dir \in {-1, 1} : d' = focusmon(d, dir)
TagMon     == /\ Interactive /\ "move" \in uses
              /\ \E dir \in {-1, 1} : d' = tagmon(d, dir)

(* The window of a key command is sel; that of a click on a title is any   *)
(* window of the clicked monitor's bar.                                    *)
OnWindow(Command(_, _, _)) ==
    /\ Interactive
    /\ \E s \in Before_command, arranges \in Arranges :
         \E c \in (Visible(s) \cap Members(s.clients[s.selmon]))
                        \cup ({s.sel[s.selmon]} \ {NoWin}) :
             d' = Command(s, c, arranges)

Zoom           == "zoom" \in uses /\ OnWindow(zoom)
ToggleWin      == "hide" \in uses /\ OnWindow(togglewin)
ShowHideClient == "hide" \in uses /\ OnWindow(showhideclient)

ToggleFloating ==
    /\ Interactive /\ "float" \in uses
    /\ d.sel[d.selmon] # NoWin /\ d' = togglefloating(d, d.sel[d.selmon])

ButtonPress(c) ==
    /\ Interactive /\ c \in Managed(d)
    /\ d' = focus(select_monitor(d, d.cl[c].mon), c)

(* The event may be older than the last arrange.                           *)
EnterNotify(c) ==
    /\ Interactive /\ "enter" \in uses /\ c \in Managed(d)
    /\ LET m == d.cl[c].mon
           s == unfocus(d, d.sel[d.selmon], TRUE)
       IN  d' = IF m # d.selmon THEN focus([s EXCEPT !.selmon = m], c)
                ELSE IF c = d.sel[d.selmon] THEN d ELSE focus(d, c)

(* EnterNotify and MotionNotify of the root window. *)
PointerEntersMonitor(m) ==
    /\ Interactive /\ m \in Mons(d)
    /\ d' = select_monitor(d, m)

-----------------------------------------------------------------------------
(* The handlers of requests and property changes.                          *)

(* clientmessage: _NET_WM_STATE *)
FullscreenRequest(c) ==
    /\ Interactive /\ "fullscreen" \in uses /\ c \in Managed(d)
    /\ \E on \in BOOLEAN : d' = setfullscreen(d, c, on)

(* clientmessage: _NET_ACTIVE_WINDOW *)
ActivateRequest(c) ==
    /\ Interactive /\ "urgent" \in uses /\ c \in Managed(d)
    /\ d' = IF c # d.sel[d.selmon] THEN [d EXCEPT !.cl[c].isurgent = TRUE] ELSE d

(* propertynotify: WM_HINTS, or those that manage will read.  The hint of  *)
(* the selected client is cleared; the focus is not moved when that client *)
(* begins to take input ("late input").                                    *)
updatewmhints(c) ==
    /\ Interactive /\ uses \cap {"urgent", "hints"} # {}
    /\ \E urgent \in May("urgent"), input \in BOOLEAN :
         /\ input = (c \notin noinput) \/ "hints" \in uses
         /\ input /\ c \in noinput /\ c = d.sel[d.selmon] => "late input" \in uses
         /\ d' = IF c \notin Managed(d) \/ (c = d.sel[d.selmon] /\ urgent) THEN d
                 ELSE [d EXCEPT !.cl[c].isurgent = urgent]
         /\ noinput' = IF input THEN noinput \ {c} ELSE noinput \cup {c}

(* propertynotify: WM_TRANSIENT_FOR *)
TransientChange(c) ==
    /\ Interactive /\ "float" \in uses /\ c \in Managed(d)
    /\ Parent[c] \in Managed(d)
    /\ d' = [d EXCEPT !.cl[c].isfloating = TRUE]

(* The screen is resized whenever the number of screens changes.           *)
configurenotify ==
    /\ Interactive /\ "screens" \in uses
    /\ \E n \in Mon, p \in Mon, moved, resized \in BOOLEAN :
         /\ p <= n /\ (n # d.mons => resized)
         /\ LET u == updategeom(d, n, moved, p)
            IN  d' = IF u.dirty \/ resized THEN focus(u.s, NoWin) ELSE u.s

-----------------------------------------------------------------------------
(* movemouse and resizemouse: a loop of their own, that also handles       *)
(* MapRequest.                                                             *)
DragBegin ==
    /\ pc = "run" /\ "drag" \in uses
    /\ LET c == d.sel[d.selmon]
       IN  c # NoWin /\ ~d.cl[c].isfullscreen /\ drag' = c
    /\ pc' = "drag"
    /\ UNCHANGED <<d, todo, queue, pvars>>

(* Motion by more than snap pixels: togglefloating(NULL).                  *)
DragMotion ==
    /\ pc = "drag"
    /\ ~d.cl[drag].isfloating /\ d.sel[d.selmon] # NoWin
    /\ d' = togglefloating(d, d.sel[d.selmon])
    /\ UNCHANGED <<pc, todo, drag, queue, pvars>>

(* ButtonRelease with the client's rectangle on monitor m. *)
DragEnd(m) ==
    /\ pc = "drag" /\ m \in Mons(d)
    /\ pc' = "run" /\ drag' = NoWin
    /\ d' = IF m = d.selmon THEN d
            ELSE focus([sendmon(d, drag, m) EXCEPT !.selmon = m], NoWin)
    /\ UNCHANGED <<todo, queue, pvars>>

-----------------------------------------------------------------------------
(* quit(1) and SIGHUP: cleanup(), exec, setup().  The loop of dgwm-init    *)
(* starts dwm again after quit(0) and after a crash as well.               *)
Persisted(c) ==
    [mon        |-> d.cl[c].mon,
     tags       |-> d.cl[c].tags,
     isfloating |-> d.cl[c].isfloating,
     idx        |-> PositionOf(d.clients[d.cl[c].mon], c)]

Startup(wmstate) ==
    /\ \E n \in Screens : \E p \in 1..n :
         d' = setup(n, p, d.exists, d.mapped, wmstate, d.full, rootprops')
    /\ pc' = "scan" /\ todo' = d.exists
    /\ drag' = NoWin /\ queue' = <<>>
    /\ restarts' = restarts + 1

Restart ==
    /\ pc = "run" /\ restarts < MaxRestarts
    /\ props' = [w \in Window |-> IF w \in Managed(d) THEN Persisted(w) ELSE props[w]]
    /\ rootprops' = [m \in Mon |-> IF m \in Mons(d) THEN Shown(d, m) ELSE rootprops[m]]
    /\ clean' = TRUE
    /\ Startup([w \in Window |-> IF w \in Managed(d) THEN "Withdrawn" ELSE d.wmstate[w]])

Crash ==
    /\ "crash" \in uses /\ restarts < MaxRestarts
    /\ clean' = FALSE
    /\ UNCHANGED <<props, rootprops>>
    /\ Startup(d.wmstate)

-----------------------------------------------------------------------------
(* The programs that own the windows, and the X server: a window that is   *)
(* mapped by its program is mapped by dwm, on request; the input focus is  *)
(* taken away from a window that is unmapped.                              *)
Send(types, w) ==
    /\ Len(queue) + Len(types) <= MaxQueue
    /\ queue' = queue \o [k \in DOMAIN types |-> [type |-> types[k], win |-> w]]

Requested(w) == \E k \in DOMAIN queue : queue[k] = [type |-> "MapRequest", win |-> w]

ClientMap(w) ==
    /\ w \in d.exists \ d.mapped /\ ~Requested(w)
    /\ Send(<<"MapRequest">>, w)
    /\ UNCHANGED <<d, pc, todo, drag, pvars>>

ClientUnmap(w) ==
    /\ w \in d.mapped
    /\ Send(<<"UnmapNotify">>, w)
    /\ d' = XUnmapWindow(d, w)
    /\ UNCHANGED <<pc, todo, drag, pvars>>

(* XWithdrawWindow of a window that is or may soon be managed but is not   *)
(* mapped: no real UnmapNotify.                                            *)
ClientWithdraw(w) ==
    /\ "destroy" \in uses
    /\ w \in d.exists \ d.mapped /\ (Requested(w) \/ w \in Managed(d))
    /\ Send(<<"UnmapNotify sent by the client">>, w)
    /\ UNCHANGED <<d, pc, todo, drag, pvars>>

ClientDestroy(w) ==
    /\ "destroy" \in uses /\ w \in d.exists
    /\ Send(IF w \in d.mapped THEN <<"UnmapNotify", "DestroyNotify">>
                              ELSE <<"DestroyNotify">>, w)
    /\ d' = [XUnmapWindow(d, w) EXCEPT !.exists = @ \ {w}, !.wmstate[w] = "Withdrawn"]
    /\ UNCHANGED <<pc, todo, drag, pvars>>

ClientTakesFocus(w) ==
    /\ "takefocus" \in uses /\ w \in d.mapped \ {d.xfocus}
    /\ Send(<<"FocusIn">>, w)
    /\ d' = [d EXCEPT !.xfocus = w]
    /\ UNCHANGED <<pc, todo, drag, pvars>>

-----------------------------------------------------------------------------
Handlers ==
    \/ \E k \in DOMAIN queue : maprequest(k)
    \/ unmapnotify \/ destroynotify \/ focusin \/ configurenotify
    \/ \E c \in Window : FullscreenRequest(c) \/ ActivateRequest(c) \/ TransientChange(c)

Hints == \E c \in Window : updatewmhints(c)

Commands ==
    \/ View \/ ToggleView \/ SetTag \/ ToggleTag
    \/ FocusStack \/ FocusMon \/ TagMon
    \/ Zoom \/ ToggleWin \/ ShowHideClient \/ ToggleFloating
    \/ \E c \in Window : ButtonPress(c) \/ EnterNotify(c)
    \/ \E m \in Mon : PointerEntersMonitor(m)
    \/ DragBegin \/ DragMotion \/ \E m \in Mon : DragEnd(m)

Lifecycle ==
    \/ \E w \in Window : ScanWindow(w)
    \/ ScanEnd \/ Restart \/ Crash

Programs ==
    \E w \in Window : \/ ClientMap(w) \/ ClientUnmap(w) \/ ClientWithdraw(w)
                    \/ ClientDestroy(w) \/ ClientTakesFocus(w)

Next ==
    \/ (Handlers \/ Commands \/ Lifecycle \/ Programs) /\ UNCHANGED <<noinput, uses>>
    \/ Hints /\ UNCHANGED uses

Spec == Init /\ [][Next]_vars

-----------------------------------------------------------------------------
(* Every managed client has tags and a monitor, every monitor a view.      *)
TypeOK ==
    /\ d.mons \in Mon /\ d.selmon \in Mons(d)
    /\ \A m \in Mons(d) : /\ d.seltags[m] \in 0..1
                         /\ \A i \in 0..1 : d.tagset[m][i] \in (SUBSET Tag) \ {{}}
                         /\ d.sel[m] \in Window \cup {NoWin}
    /\ \A c \in Managed(d) : /\ d.cl[c].mon \in Mons(d)
                            /\ d.cl[c].tags \in (SUBSET Tag) \ {{}}
    /\ d.xfocus \in Window \cup {NoWin}
    /\ pc \in {"scan", "run", "drag"} /\ todo \subseteq Window
    /\ Len(queue) <= MaxQueue

(* A client is once in the list and once in the stack of the monitor that  *)
(* c->mon names, and in no other list, whatever attach and detach calls    *)
(* sendmon, zoom, focus, updategeom and a restart make.                    *)
InOnePlace ==
    \A m \in Mon :
        /\ Distinct(d.clients[m]) /\ Distinct(d.stack[m])
        /\ Members(d.clients[m]) = {c \in Window : d.cl[c].mon = m}
        /\ Members(d.stack[m])   = {c \in Window : d.cl[c].mon = m}

(* No monitor's sel points to a client that has been freed or has moved to *)
(* another monitor (focusstack walks the list until it meets sel).         *)
SelBelongs ==
    \A m \in Mons(d) : d.sel[m] # NoWin => d.sel[m] \in Members(d.clients[m])

(* Lists, stacks, sel and c->mon name each other: attach, detach, sendmon, *)
(* updategeom and unmanage leave no dangling or doubled entry.             *)
ListsSound == TypeOK /\ InOnePlace /\ SelBelongs

(* The selected client of the selected monitor is the one focused last of  *)
(* those that its view shows; there is none only if nothing is shown.      *)
SelIsLastFocused ==
    d.sel[d.selmon] = FirstIn(d.stack[d.selmon], Visible(d))

(* When dwm has handled all events, keys go to the selected client (unless *)
(* it is hidden or refuses input), although programs unmap and destroy the *)
(* focused window and set the input focus themselves.                      *)
KeysGoToSel ==
    LET c == d.sel[d.selmon]
    IN  pc = "run" /\ queue = <<>> /\ c \in d.mapped \ noinput => d.xfocus = c

(* When dwm has handled all events, exactly its clients are mapped, except *)
(* those it has hidden and those withdrawn while hidden.                   *)
MappedIsManaged ==
    pc = "run" /\ queue = <<>> =>
        /\ d.mapped \subseteq Managed(d)
        /\ \A c \in Managed(d) \ d.mapped : d.wmstate[c] # "Normal"

(* Focus and mapped windows of the X server follow dwm's sel and clients.  *)
ServerInStep == KeysGoToSel /\ MappedIsManaged

(* _NET_CLIENT_LIST, appended to by manage and rebuilt by unmanage, names  *)
(* the clients.                                                            *)
ClientListExact == pc # "scan" \/ todo = {} => d.clientlist = Managed(d)

(* The end of scan after a restart that ran cleanup(). *)
Restored ==
    pc = "scan" /\ pc' = "run" /\ clean =>
        LET back == {c \in Managed(d') : /\ Parent[c] = NoWin
                                          /\ props[c].mon \in Mons(d')}
        IN  \A b, c \in back :
              /\ d'.cl[c].mon = props[c].mon
              /\ d'.cl[c].tags = props[c].tags
              /\ d'.cl[c].isfloating = props[c].isfloating
              /\ props[b].mon = props[c].mon /\ props[b].idx < props[c].idx =>
                    PositionOf(d'.clients[props[c].mon], b)
                        < PositionOf(d'.clients[props[c].mon], c)

(* A client that no restart was lost to is back on its monitor, with its   *)
(* tags and its floating state, in the order of the client list, whatever  *)
(* order the X server lists the windows in.                                *)
RestartRestores == [][Restored]_vars

(* dwm/dwm.1: "Move focused window while dragging. Tiled windows will be   *)
(* toggled to the floating state."  A drag toggles no other window.        *)
DragTogglesDragged ==
    [][pc = "drag" /\ pc' = "drag" =>
        \A c \in Managed(d) \cap Managed(d') :
            c # drag => d'.cl[c].isfloating = d.cl[c].isfloating]_vars
=============================================================================
