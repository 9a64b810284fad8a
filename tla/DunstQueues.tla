---------------------------- MODULE DunstQueues ----------------------------
(***************************************************************************)
(* The notifications of dunst (dunst/src/queues.c) between the programs    *)
(* that send them (dbus.c), the user who clicks them (input.c, the keys of *)
(* x11/x.c), the context menu (menu.c) and the main loop (dunst.c).        *)
(*                                                                         *)
(* Every handler changes the queues and then calls wake_up(), which        *)
(* updates them, in one callback of the main loop: one action.  The order  *)
(* is that of sort = true (urgency_descending).  Time is left out: each    *)
(* update finds any of the displayed notifications that may time out to    *)
(* have timed out, which covers clocks, idle users and mice over the       *)
(* window.                                                                 *)
(***************************************************************************)
EXTENDS Integers, Sequences, SequencesExt, FiniteSets, Functions

CONSTANTS MaxNotes,        (* bound: notifications in memory               *)
          MaxIds,          (* bound: ids that dunst gives                  *)
          MaxMenus,        (* bound: dmenu threads at a time               *)
          Kinds,           (* what the notifications may be like           *)
          Limit,           (* notification_limit, 0: none                  *)
          IndicateHidden,  (* indicate_hidden                              *)
          HistoryLength,   (* history_length, 0: no limit                  *)
          StickyHistory,   (* sticky_history                               *)
          Uses             (* sets of optional behaviours: in each run of  *)
                           (* the system those of one set occur            *)

Note == 1..MaxNotes        (* addresses of struct notification *)
None == 0

(* urgency, whether it times out, has actions, is inserted into the        *)
(* history without being displayed (skip_display), is kept out of it       *)
(* (history_ignore), is shown while dunst is paused (override_pause_level) *)
(* or while a window is fullscreen, has no text, and its stack tag: the    *)
(* tag or the texts by which a newer one takes its place, 0 for none.      *)
Kind == [urgency : 0..2, expires : BOOLEAN, actions : BOOLEAN, skip : BOOLEAN,
         ignore : BOOLEAN, override : BOOLEAN, empty : BOOLEAN, tag : Nat,
         fullscreen : {"show", "delay", "pushback", "suppress"}]

Behaviours == {"replace", "regrade", "replace closed", "history", "menu", "second menu", "click",
               "pause", "fullscreen", "reload"}

ASSUME DunstAssumption ==
    /\ MaxNotes \in Nat \ {0} /\ MaxIds \in Nat /\ MaxMenus \in Nat
    /\ Kinds \subseteq Kind
    /\ Limit \in Nat /\ HistoryLength \in Nat
    /\ IndicateHidden \in BOOLEAN /\ StickyHistory \in BOOLEAN
    /\ Uses \subseteq SUBSET Behaviours

VARIABLES
    q,           (* the queues, the notifications and what clients know     *)
    paused,      (* status.pause_level # 0                                  *)
    fullscreen,  (* status.fullscreen, as the last update has read it       *)
    menu,        (* menu_ctx.locked_notifications                           *)
    dmenus,      (* dmenu threads that have not been answered yet           *)
    uses         (* the optional behaviours that occur; never changes       *)

vars == <<q, paused, fullscreen, menu, dmenus, uses>>

NoKind == [urgency |-> 0, expires |-> FALSE, actions |-> FALSE, skip |-> FALSE,
           ignore |-> FALSE, override |-> FALSE, empty |-> FALSE, tag |-> 0,
           fullscreen |-> "show"]

(* A notification that has not been received or has been freed. *)
NoNote == [kind |-> NoKind, id |-> 0, valid |-> FALSE, expires |-> FALSE,
           actions |-> FALSE, redisplayed |-> FALSE, locked |-> FALSE,
           closure |-> FALSE, removal |-> FALSE]

(* What the visits of the elements of list, one after the other, make of s. *)
(* (The sets of one element make TLC evaluate each visit once.)            *)
InTurn(visit(_, _), s, list) ==
    LET after[k \in 0..Len(list)] ==
            IF k = 0 THEN s
            ELSE CHOOSE r \in {visit(t, list[k]) : t \in {after[k - 1]}} : TRUE
    IN  after[Len(list)]

FirstWith(list, Test(_)) ==
    IF \E k \in DOMAIN list : Test(list[k])
    THEN list[CHOOSE k \in DOMAIN list : Test(list[k]) /\ \A j \in 1..(k - 1) : ~Test(list[j])]
    ELSE None

WithId(s, list, id) == FirstWith(list, LAMBDA o : s.n[o].id = id)

(* notification_cmp with sort = true: the urgent ones first, then by id.   *)
ComesBefore(s, a, b) ==
    \/ s.n[a].kind.urgency > s.n[b].kind.urgency
    \/ s.n[a].kind.urgency = s.n[b].kind.urgency /\ s.n[a].id < s.n[b].id

(* g_queue_insert_sorted *)
insert_sorted(s, list, o) ==
    InsertAt(list, SelectInSeq(Append(list, o), LAMBDA p : ~ComesBefore(s, p, o)), o)

to_waiting(s, o)   == [s EXCEPT !.waiting = insert_sorted(s, @, o)]
to_displayed(s, o) == [s EXCEPT !.displayed = insert_sorted(s, @, o)]

-----------------------------------------------------------------------------
(* The functions that the handlers are built of; s is a value of q.        *)

signal_notification_closed(s, o) ==
    IF s.n[o].valid
    THEN [s EXCEPT !.n[o].valid = FALSE, !.n[o].actions = FALSE, !.open = @ \ {s.n[o].id}]
    ELSE s

history_push(s, o) ==
    IF s.n[o].kind.ignore THEN s
    ELSE [s EXCEPT !.history =
            Append(IF HistoryLength > 0 /\ Len(@) >= HistoryLength THEN Tail(@) ELSE @, o)]

(* The first with this id is taken from each of the two queues; the last   *)
(* one found is signalled and pushed.                                      *)
drop(s, d, w) ==
    LET target  == IF w # None THEN w ELSE d
        removed == [s EXCEPT !.displayed = RemoveFirst(@, d), !.waiting = RemoveFirst(@, w)]
    IN  IF target = None THEN s
        ELSE history_push(IF s.n[target].redisplayed THEN removed
                          ELSE signal_notification_closed(removed, target), target)

close_id(s, id) == drop(s, WithId(s, s.displayed, id), WithId(s, s.waiting, id))

close(s, o) == close_id(s, s.n[o].id)

history_remove_by_id(s, id) ==
    [s EXCEPT !.history = RemoveFirst(@, WithId(s, @, id))]

remove(s, o) == history_remove_by_id(close(s, o), s.n[o].id)

close_each(s, list) == InTurn(close, s, list)

history_push_all(s) ==
    LET displayed == close_each(s, s.displayed)
    IN  close_each(displayed, displayed.waiting)

(* Mutant: it stays in the history as well. *)
history_pop_Peek(s, o) ==
    to_waiting([s EXCEPT !.n[o].redisplayed = TRUE, !.n[o].expires = @ /\ ~StickyHistory], o)

(* queues_history_pop and queues_history_pop_by_id *)
history_pop(s, o) ==
    to_waiting([s EXCEPT !.history = RemoveFirst(@, o),
                         !.n[o].redisplayed = TRUE,
                         !.n[o].expires = @ /\ ~StickyHistory], o)

(* `new` takes the place of `old`. *)
take_place(s, old, new) ==
    [s EXCEPT !.displayed = ReplaceAll(@, old, new), !.waiting = ReplaceAll(@, old, new)]

stacked_on(s, o) ==
    FirstWith(s.displayed \o s.waiting,
              LAMBDA p : s.n[p].kind.tag # 0 /\ s.n[p].kind.tag = s.n[o].kind.tag)

(* Mutant: nothing is signalled for the one whose place is taken. *)
stack_or_wait_NoSignal(s, o, under) ==
    IF under # None THEN take_place(s, under, o) ELSE to_waiting(s, o)

(* It takes the place of the one with the same tag, or waits. *)
stack_or_wait(s, o, under) ==
    IF under # None THEN signal_notification_closed(take_place(s, under, o), under)
    ELSE to_waiting(s, o)

(* One that replaces an id takes the place of the notification that has    *)
(* it, without a signal, or waits under this id if there is none.          *)
replace_id(s, o, old) ==
    [IF old # None THEN take_place(s, old, o) ELSE to_waiting(s, o)
        EXCEPT !.open = @ \cup {s.n[o].id}]

with_new_id(s, o) ==
    [s EXCEPT !.next = @ + 1, !.n[o].id = s.next + 1, !.open = @ \cup {s.next + 1}]

identify(s, o) ==
    IF s.n[o].id # 0 THEN replace_id(s, o, WithId(s, s.displayed \o s.waiting, s.n[o].id))
    ELSE stack_or_wait(with_new_id(s, o), o, stacked_on(s, o))

(* queues_notification_insert; one without text is not inserted and its    *)
(* sender is told at once, under the id that it wanted to replace.         *)
insert(s, o, full) ==
    IF s.n[o].kind.empty THEN signal_notification_closed(s, o)
    ELSE IF full /\ s.n[o].kind.fullscreen = "suppress" THEN close(identify(s, o), o)
    ELSE identify(s, o)

-----------------------------------------------------------------------------
(* queues_update; st is the status, with the set of the notifications that *)
(* have timed out.                                                         *)

is_ready(s, st, o, shown) ==
    LET k == s.n[o].kind
    IN  /\ ~st.paused \/ k.override
        /\ st.full => IF shown THEN k.fullscreen # "pushback" ELSE k.fullscreen = "show"

is_finished(s, st, o) ==
    \/ s.n[o].kind.skip /\ ~s.n[o].redisplayed
    \/ s.n[o].expires /\ o \in st.expired

suppressed(s, st, o) == st.full /\ s.n[o].kind.fullscreen = "suppress"

(* First the displayed ones: closed, removed, timed out or moved back.     *)
stays_or_goes(t, st, o) ==
    IF t.n[o].locked THEN t
    ELSE IF t.n[o].closure THEN [close(t, o) EXCEPT !.n[o].closure = FALSE]
    ELSE IF t.n[o].removal THEN [remove(t, o) EXCEPT !.n[o].removal = FALSE]
    ELSE IF is_finished(t, st, o) \/ suppressed(t, st, o) THEN close(t, o)
    ELSE IF ~is_ready(t, st, o, TRUE)
    THEN to_waiting([t EXCEPT !.displayed = RemoveFirst(@, o)], o)
    ELSE t

move_back(s, st) == InTurn(LAMBDA t, o : stays_or_goes(t, st, o), s, s.displayed)

(* Mutant: the line that tells of the hidden ones is forgotten. *)
displayed_limit_Full(s) == IF Limit = 0 THEN MaxNotes + 1 ELSE Limit

(* One less than the limit if the last line tells of the hidden ones.      *)
displayed_limit(s) ==
    IF Limit = 0 THEN MaxNotes + 1
    ELSE IF IndicateHidden /\ Limit > 1 /\ Len(s.displayed) + Len(s.waiting) > Limit
    THEN Limit - 1 ELSE Limit

(* Then the waiting ones, while there is room. *)
shown_if_ready(t, st, limit, o) ==
    IF Len(t.displayed) >= limit THEN t
    ELSE IF suppressed(t, st, o) THEN close(t, o)
    ELSE IF ~is_ready(t, st, o, FALSE) THEN t
    ELSE IF t.n[o].kind.skip /\ ~t.n[o].redisplayed THEN close(t, o)
    ELSE to_displayed([t EXCEPT !.waiting = RemoveFirst(@, o)], o)

show_waiting(s, st, limit) ==
    InTurn(LAMBDA t, o : shown_if_ready(t, st, limit, o), s, s.waiting)

(* The displayed ones beyond the limit wait again, the last one first.     *)
last_waits(t) == to_waiting([t EXCEPT !.displayed = Front(@)], Last(t.displayed))

push_back(s, limit) ==
    IF Len(s.displayed) <= limit THEN s
    ELSE InTurn(LAMBDA t, k : last_waits(t), s, [k \in 1..(Len(s.displayed) - limit) |-> k])

(* Mutant: nothing seeps. *)
seep_Never(s, st, limit) == s

(* If displayed is full, the first of the waiting ones changes places with *)
(* the last of the displayed ones, as long as it is ready and more         *)
(* important.  (A suppressed one is never ready.)                          *)
swap_notifications(t, st) ==
    LET first == Head(t.waiting)
        last  == Last(t.displayed)
    IN  IF \/ t.waiting = <<>> \/ t.displayed = <<>>
           \/ ~is_ready(t, st, first, FALSE)
           \/ ~ComesBefore(t, first, last)
        THEN t
        ELSE to_waiting(to_displayed([t EXCEPT !.displayed = Front(@),
                                               !.waiting = Tail(@)], first), last)

seep(s, st, limit) ==
    IF Len(s.displayed) # limit THEN s
    ELSE InTurn(LAMBDA t, k : swap_notifications(t, st), s, [k \in 1..Len(s.waiting) |-> k])

fill(s, st, limit) == seep(push_back(show_waiting(s, st, limit), limit), st, limit)

let_in(s, st) == fill(s, st, displayed_limit(s))

queues_update(s, st) == let_in(move_back(s, st), st)

-----------------------------------------------------------------------------
Elems(list) == {list[k] : k \in DOMAIN list}
Held(s)     == Elems(s.displayed) \cup Elems(s.waiting) \cup Elems(s.history)

(* The last reference frees a notification. *)
unref(s, locked) ==
    [s EXCEPT !.n = [o \in Note |-> IF o \in Held(s) \cup Elems(locked) THEN s.n[o] ELSE NoNote]]

FullscreenNow == IF "fullscreen" \in uses THEN BOOLEAN ELSE {FALSE}

(* run(): the display server tells whether a window is fullscreen; those   *)
(* in `started` have just begun to be displayed.                           *)
Run(s, started) ==
    \E full \in FullscreenNow,
       expired \in SUBSET {o \in Elems(s.displayed) \ started : s.n[o].expires} :
        /\ fullscreen' = full /\ UNCHANGED uses
        /\ \E t \in {queues_update(s, [paused |-> paused', full |-> full,
                                        expired |-> expired])} : q' = unref(t, menu')

Unmenued == UNCHANGED <<menu, dmenus>>

Init ==
    /\ q = [displayed |-> <<>>, waiting |-> <<>>, history |-> <<>>,
            n |-> [o \in Note |-> NoNote],
            next |-> 0,      \* next_notification_id
            open |-> {}]     \* ids that clients believe to be in use
    /\ paused = FALSE /\ fullscreen = FALSE
    /\ menu = <<>> /\ dmenus = 0
    /\ uses \in Uses

(* The timer of run(), or the display server: a window has become          *)
(* fullscreen or is no longer, the focus has moved, the user is back.      *)
WakeUp ==
    /\ Unmenued /\ UNCHANGED paused
    /\ Run(q, {})

(* What a program may ask to replace: nothing, its own notification, by    *)
(* one of the same urgency or another, or one that has been closed.        *)
Replaceable(kind) ==
    {0} \cup {id \in q.open :
                \/ "regrade" \in uses
                \/ /\ "replace" \in uses
                   /\ \A o \in Note : q.n[o].id = id => q.n[o].kind.urgency = kind.urgency}
        \cup (IF "replace closed" \in uses THEN 1..q.next ELSE {})

Notify(kind, id) ==
    LET free == {o \in Note : q.n[o] = NoNote}
        o    == CHOOSE x \in free : \A y \in free : x <= y
        s    == [q EXCEPT !.n[o] = [NoNote EXCEPT !.kind = kind, !.id = id, !.valid = TRUE,
                                        !.expires = kind.expires, !.actions = kind.actions]]
    IN  /\ free # {} /\ (id = 0 => q.next < MaxIds)
        /\ Unmenued /\ UNCHANGED paused
        /\ Run(insert(s, o, fullscreen), {o})

CloseNotification(id) ==
    /\ Unmenued /\ UNCHANGED paused
    /\ Run(close_id(q, id), {})

(* NotificationCloseLast and the key for close: the first one displayed.   *)
CloseLast ==
    /\ q.displayed # <<>>
    /\ Unmenued /\ UNCHANGED paused
    /\ Run(close(q, Head(q.displayed)), {})

(* NotificationCloseAll, a right click and the key for close_all.          *)
CloseAll ==
    /\ Unmenued /\ UNCHANGED paused
    /\ Run(history_push_all(q), {})

(* NotificationShow (the last one), NotificationPopHistory (by id).        *)
HistoryPop(o) ==
    /\ "history" \in uses
    /\ \/ q.history # <<>> /\ o = Last(q.history)
       \/ \E id \in 1..MaxIds : o = WithId(q, q.history, id)
    /\ o # None
    /\ Unmenued /\ UNCHANGED paused
    /\ Run(history_pop(q, o), {})

HistoryRemove(id) ==
    /\ "history" \in uses /\ WithId(q, q.history, id) # None
    /\ Unmenued /\ UNCHANGED paused
    /\ Run(history_remove_by_id(q, id), {})

HistoryClear ==
    /\ "history" \in uses
    /\ Unmenued /\ UNCHANGED paused
    /\ Run([q EXCEPT !.history = <<>>], {})

(* A click that closes or removes a notification marks it. *)
Click(o) ==
    /\ "click" \in uses /\ o \in Elems(q.displayed)
    /\ Unmenued /\ UNCHANGED paused
    /\ \E mark \in {"closure", "removal"} : Run([q EXCEPT !.n[o][mark] = TRUE], {})

(* context_menu_for: the notifications have been locked; if a menu has     *)
(* others, it is refused.                                                  *)
OpenMenu(list) ==
    LET s == [q EXCEPT !.n = [o \in Note |-> [q.n[o] EXCEPT !.locked = @ \/ o \in Elems(list)]]]
    IN  /\ "second menu" \in uses \/ menu = <<>>
        /\ menu = <<>> => dmenus < MaxMenus
        /\ IF menu # <<>> THEN Unmenued
           ELSE menu' = list /\ dmenus' = dmenus + 1
        /\ UNCHANGED paused
        /\ \/ Run(s, {})
           \/ q' = s /\ UNCHANGED <<fullscreen, uses>>   \* the D-Bus calls

lock_if_actionable(list, o) == IF q.n[o].actions THEN Append(list, o) ELSE list

get_actionable_notifications == InTurn(lock_if_actionable, <<>>, q.displayed)

(* context_menu (all with actions), or that of one notification. *)
ContextMenu ==
    /\ "menu" \in uses
    /\ \/ OpenMenu(get_actionable_notifications)
       \/ \E o \in Elems(q.displayed) : OpenMenu(<<o>>)

(* Mutant: they stay locked. *)
dispatch_StayLocked(s, o, chosen) ==
    LET t == IF s.n[o].closure /\ chosen THEN close(s, o) ELSE s
        u == [t EXCEPT !.n[o].closure = FALSE]
    IN  IF u.n[o].removal THEN [remove(u, o) EXCEPT !.n[o].removal = FALSE] ELSE u

(* For each notification of the menu; chosen: dmenu was not aborted.       *)
dispatch(s, o, chosen) ==
    LET t == IF s.n[o].closure /\ chosen THEN close(s, o) ELSE s
        u == [t EXCEPT !.n[o].closure = FALSE, !.n[o].locked = FALSE]
    IN  IF u.n[o].removal THEN [remove(u, o) EXCEPT !.n[o].removal = FALSE] ELSE u

(* context_menu_result_dispatch.  One that nothing else refers to is freed *)
(* by the unlock and read after: its marks may be found or not.            *)
dispatch_all(s, list, seen, chosen) ==
    InTurn(LAMBDA t, o : IF o \in seen THEN dispatch(t, o, chosen) ELSE t, s, list)

MenuResult ==
    /\ dmenus > 0 /\ dmenus' = dmenus - 1
    /\ menu' = <<>>
    /\ UNCHANGED paused
    /\ \E chosen \in BOOLEAN, found \in SUBSET (Elems(menu) \ Held(q)) :
         Run(dispatch_all(q, menu, Held(q) \cup found, chosen), {})

(* SIGUSR1, SIGUSR2, and the properties paused and pauseLevel. *)
SetPaused(level) ==
    /\ "pause" \in uses
    /\ paused' = level /\ Unmenued
    /\ Run(q, {})

(* reload: paused, then not, whatever it was.                              *)
Reload ==
    /\ "reload" \in uses
    /\ paused' = FALSE /\ Unmenued
    /\ \E full \in FullscreenNow :
         Run(queues_update(q, [paused |-> TRUE, full |-> full, expired |-> {}]), {})

Next ==
    \/ WakeUp
    \/ \E kind \in Kinds : \E id \in Replaceable(kind) : Notify(kind, id)
    \/ \E id \in 1..MaxIds : CloseNotification(id) \/ HistoryRemove(id)
    \/ CloseLast \/ CloseAll \/ HistoryClear
    \/ \E o \in Note : HistoryPop(o) \/ Click(o)
    \/ ContextMenu \/ MenuResult
    \/ \E level \in BOOLEAN : SetPaused(level)
    \/ Reload

Spec == Init /\ [][Next]_vars

-----------------------------------------------------------------------------
Shown   == Elems(q.displayed)
Waiting == Elems(q.waiting)
Ready(o) == is_ready(q, [paused |-> paused, full |-> fullscreen], o, FALSE)

(* The queues hold notifications that are in memory. *)
TypeOK ==
    /\ q.displayed \in Seq(Note) /\ q.waiting \in Seq(Note) /\ q.history \in Seq(Note)
    /\ \A o \in Held(q) : q.n[o].id > 0 /\ q.n[o].kind \in Kinds
    /\ q.open \subseteq 1..q.next
    /\ paused \in BOOLEAN /\ fullscreen \in BOOLEAN
    /\ menu \in Seq(Note) /\ dmenus \in 0..MaxMenus
    /\ HistoryLength > 0 => Len(q.history) <= HistoryLength

(* A notification is once in one queue, whatever is replaced, stacked,     *)
(* closed, popped from the history, pushed back or let in.                 *)
InOneQueue == TypeOK /\ IsInjective(q.displayed \o q.waiting \o q.history)

(* For each id that a program believes to be in use there is exactly one   *)
(* notification, displayed or waiting, that will be signalled as closed;   *)
(* no other will be, so that each id is closed once.                       *)
IdsClosedOnce ==
    LET valid == {o \in Held(q) : q.n[o].valid}
    IN  /\ valid \subseteq Shown \cup Waiting
        /\ {q.n[o].id : o \in valid} = q.open
        /\ Cardinality(valid) = Cardinality(q.open)

(* The lines of the window: one tells of those that are hidden. *)
Lines(shown, hidden) ==
    shown + (IF hidden > 0 /\ IndicateHidden /\ Limit > 1 THEN 1 ELSE 0)

(* The window has no more lines than the limit, whatever is shown, pushed  *)
(* back or let in, and none waits that is ready while there is room.       *)
LimitHolds ==
    LET shown  == Len(q.displayed)
        hidden == Len(q.waiting)
    IN  /\ Limit > 0 => Lines(shown, hidden) <= Limit
        /\ Limit = 0 \/ Lines(shown + 1, hidden - 1) <= Limit => \A o \in Waiting : ~Ready(o)

(* queues.c: "let the more important notifications from waiting seep into  *)
(* displayed".  Unless some must not be shown for now, none waits that is  *)
(* more urgent than one that is displayed.                                 *)
ImportantFirst ==
    (\A o \in Waiting : Ready(o)) =>
        \A o \in Waiting, p \in Shown : q.n[o].kind.urgency <= q.n[p].kind.urgency

(* What is locked is in the menu that will unlock it, and dmenu runs.      *)
LockedByMenu ==
    /\ \A o \in Note : q.n[o].locked => o \in Elems(menu)
    /\ menu # <<>> => dmenus > 0

(* Locks and menus go together, and as long as the menu offers it a        *)
(* notification does not go away by itself: neither time nor a fullscreen  *)
(* window ends it.                                                         *)
MenuLocks ==
    [][/\ LockedByMenu'
       /\ WakeUp => \A o \in Shown : q.n[o].locked =>
             o \in Elems(q'.displayed) \cup Elems(q'.waiting)]_vars
=============================================================================
