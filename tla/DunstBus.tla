------------------------------ MODULE DunstBus ------------------------------
(***************************************************************************)
(* What dunst tells programs over D-Bus (dbus.c, dunst.c, menu.c): answers *)
(* to calls, signals that properties have changed, that a notification was *)
(* closed or an action chosen, how dunst starts, stops and finds out that  *)
(* another one runs.  Every handler of the main loop is one step; what it  *)
(* sends waits in the inbox of a program until that reads it, in order.    *)
(*                                                                         *)
(* The queues are those of DunstQueues without urgencies and timeouts.     *)
(***************************************************************************)
EXTENDS Integers, SequencesExt, FiniteSetsExt, TLC

CONSTANTS Watchers,      (* programs that show the properties, a bar for one    *)
          Clients,       (* programs that send notifications                    *)
          ActionSets,    (* keys of the actions that a notification may have    *)
          Levels,        (* pause levels that are asked for, as an int          *)
          Defaults,      (* what default_pause_level may be                     *)
          AtOnce,          (* notification_limit                                  *)
          MaxGiven,      (* bound: ids that a run of dunst gives                *)
          MaxMoves,      (* bound: steps that are not forced                    *)
          BusUses        (* sets of behaviours; each run picks one              *)

MAX_PAUSE_LEVEL == 100

BusBehaviours == {"watch", "notes", "actions", "history", "replace", "levels", "toggle", "signals", "reload",
                  "restart", "second",
                  "ignore", "race", "slow", "startup"}

BusAssumption ==
    /\ \A keys \in ActionSets : keys \subseteq STRING /\ IsFiniteSet(keys)
    /\ Levels \subseteq Int /\ Defaults \subseteq 0..MAX_PAUSE_LEVEL
    /\ {AtOnce, MaxGiven, MaxMoves} \subseteq Nat /\ BusUses \subseteq SUBSET BusBehaviours

VARIABLES
    daemon,    (* the dunst that has the name                              *)
    inbox,     (* what each program has been sent and has not read         *)
    views,     (* what each program makes of what it has read              *)
    second,    (* the dunst that has been started meanwhile                *)
    wanted,    (* the pause level that the user has asked for last         *)
    toggling,  (* what the dunstctl set-paused toggle that run have read   *)
    busmoves, buses

busVars == <<daemon, inbox, views, second, wanted, toggling, busmoves, buses>>

Does(u) == u \in buses

Lengths == {"displayedLength", "historyLength", "waitingLength"}
Pauses  == {"paused", "pauseLevel"}

NoOne == [serving |-> FALSE, level |-> 0, disp |-> <<>>, wait |-> <<>>, hist |-> <<>>,
          last |-> [p \in Lengths |-> 0], given |-> 0, menu |-> {}, lost |-> {}]

-----------------------------------------------------------------------------
(* Handlers change s, the daemon and the inboxes.                           *)

Now == [d |-> daemon, to |-> inbox]

Sent(s, p, msg) == [s EXCEPT !.to[p] = Append(@, msg)]

(* Only those that have asked for signals get them.                         *)
Emitted(s, msg) ==
    IF ~s.d.serving THEN s
    ELSE [s EXCEPT !.to = [p \in DOMAIN @ |->
             IF p \in Watchers /\ views[p].joined THEN Append(@[p], msg) ELSE @[p]]]

dbus_cb_dunst_Properties_Get(d, p) ==
    CASE p = "paused"          -> IF d.level # 0 THEN 1 ELSE 0
      [] p = "pauseLevel"      -> d.level
      [] p = "displayedLength" -> Len(d.disp)
      [] p = "historyLength"   -> Len(d.hist)
      [] OTHER                 -> Len(d.wait)

Told(d, props) == [is |-> "changed", props |-> [p \in props |-> dbus_cb_dunst_Properties_Get(d, p)]]

signal_length_propertieschanged(s) ==
    LET changed == {p \in Lengths : dbus_cb_dunst_Properties_Get(s.d, p) # s.d.last[p]}
    IN  IF ~s.d.serving \/ changed = {} THEN s
        ELSE Emitted([s EXCEPT !.d.last = [p \in Lengths |-> dbus_cb_dunst_Properties_Get(s.d, p)]], Told(s.d, changed))

signal_paused_propertieschanged(s) == Emitted(s, Told(s.d, Pauses))

(* queues_update passes over what is locked: it stays through a pause.      *)
Locked(n) == n.lock # "free"

Arranged(d) ==
    LET all == d.disp \o d.wait
    IN  IF d.level > 0
        THEN [d EXCEPT !.disp = SelectSeq(@, Locked),
                       !.wait = SelectSeq(d.disp, LAMBDA n : ~Locked(n)) \o @]
        ELSE [d EXCEPT !.disp = SubSeq(all, 1, Min({AtOnce, Len(all)})), !.wait = SubSeq(all, AtOnce + 1, Len(all))]

wake_up(s) == signal_length_propertieschanged([s EXCEPT !.d = Arranged(@)])

-----------------------------------------------------------------------------
(* Notifications.                                                           *)

Known(d) == ToSet(d.disp) \cup ToSet(d.wait)
Without(seq, id) == SelectSeq(seq, LAMBDA n : n.id # id)
WithId(seq, id)  == SelectSeq(seq, LAMBDA n : n.id = id)

signal_notification_closed(s, n) == IF n.valid THEN Sent(s, n.client, [is |-> "closed", id |-> n.id]) ELSE s

Closed(n) == [n EXCEPT !.valid = FALSE, !.actions = {}]

close_id(s, id) ==
    LET found == WithId(s.d.disp \o s.d.wait, id)
    IN  IF found = <<>> THEN s
        ELSE signal_notification_closed(
                 [s EXCEPT !.d.disp = Without(@, id), !.d.wait = Without(@, id),
                           !.d.hist = Append(@, Closed(found[1]))], found[1])

history_push_all(s) == FoldLeft(LAMBDA a, n : close_id(a, n.id), s, s.d.disp \o s.d.wait)

(* A new notification takes the place of the one with the id it names; the  *)
(* menu keeps the old one and the mark on it.                               *)
insert(s, n) ==
    LET Put(seq) == [i \in DOMAIN seq |-> IF seq[i].id = n.id THEN n ELSE seq[i]]
        lost     == {k.id : k \in {k \in Known(s.d) : k.id = n.id /\ k.lock = "menu" /\ k.marked}}
    IN  IF n.id # 0 /\ n.id \in {k.id : k \in Known(s.d)}
        THEN [s EXCEPT !.d.disp = Put(@), !.d.wait = Put(@), !.d.lost = @ \cup lost]
        ELSE IF n.id # 0 THEN [s EXCEPT !.d.wait = Append(@, n)]
        ELSE [s EXCEPT !.d.given = @ + 1, !.d.wait = Append(@, [n EXCEPT !.id = s.d.given + 1])]

signal_action_invoked(s, n, key) ==
    IF n.valid THEN Sent(s, n.client, [is |-> "action", id |-> n.id, key |-> key]) ELSE s

(* The first menu is the only one; what a second one would have shown stays *)
(* locked all the same.                                                     *)
context_menu_for(s, notes) ==
    LET how      == IF s.d.menu = {} THEN "menu" ELSE "stuck"
        Lock(n)  == IF n \in notes /\ n.lock # "menu" THEN [n EXCEPT !.lock = how] ELSE n
    IN  [s EXCEPT !.d.disp = [i \in DOMAIN @ |-> Lock(@[i])],
                  !.d.menu = IF @ # {} THEN @ ELSE UNION {{<<n.id, key>> : key \in n.actions} : n \in notes}]

notification_do_action(s, n) ==
    IF "default" \in n.actions THEN signal_action_invoked(s, n, "default")
    ELSE IF Cardinality(n.actions) = 1 THEN signal_action_invoked(s, n, CHOOSE key \in n.actions : TRUE)
    ELSE IF n.actions # {} THEN context_menu_for(s, {n}) ELSE s

(* A click to close marks the notification; the update that follows closes  *)
(* it, unless it is locked.                                                 *)
mark_closure(s, n) ==
    IF ~Locked(n) THEN close_id(s, n.id)
    ELSE [s EXCEPT !.d.disp = [i \in DOMAIN @ |-> IF @[i] = n THEN [n EXCEPT !.marked = TRUE] ELSE @[i]]]

invoke_action(s, id, key) ==
    LET of == SelectSeq(s.d.disp, LAMBDA n : n.id = id /\ key \in n.actions)
    IN  IF of = <<>> THEN s ELSE signal_action_invoked(s, of[1], key)

-----------------------------------------------------------------------------
(* Pausing.                                                                 *)

SetLevel(s, level) == signal_paused_propertieschanged(wake_up([s EXCEPT !.d.level = level]))

pause_signal(s)   == SetLevel(s, MAX_PAUSE_LEVEL)
unpause_signal(s) == SetLevel(s, 0)

dbus_cb_dunst_Properties_Set(s, level) ==
    IF level < 0 THEN s ELSE SetLevel(s, IF level > MAX_PAUSE_LEVEL THEN MAX_PAUSE_LEVEL ELSE level)

(* dunst_main: the first run comes before the default level is set, and     *)
(* both before there is a connection.                                       *)
dunst_main(startnotif, default) ==
    LET n == [id |-> 1, client |-> "dunst", valid |-> FALSE, actions |-> {}, lock |-> "free", marked |-> FALSE]
        d == IF startnotif THEN [NoOne EXCEPT !.wait = <<n>>, !.given = 1] ELSE NoOne
    IN  [Arranged(d) EXCEPT !.level = default, !.serving = TRUE]

reload(s) == unpause_signal(pause_signal(s))

-----------------------------------------------------------------------------
(* Calls and events, one at a time.                                         *)

Becomes(s) == daemon' = s.d /\ inbox' = s.to

Move == busmoves < MaxMoves /\ busmoves' = busmoves + 1 /\ UNCHANGED buses

Serve == Move /\ daemon.serving /\ UNCHANGED <<second, toggling>>

Open(c) == {id \in DOMAIN views[c].notes : views[c].notes[id].open}

(* The reply carries the id; what was given for it before counts still,     *)
(* because a choice may be on its way.                                      *)
Notify ==
    /\ Serve /\ Does("notes") /\ daemon.given < MaxGiven
    /\ \E c \in Clients, keys \in ActionSets :
           /\ Does("actions") \/ keys = {}
           /\ \E id \in {0} \cup (IF Does("replace") THEN Open(c) ELSE {}) :
                LET n == [id |-> id, client |-> c, valid |-> TRUE, actions |-> keys,
                          lock |-> "free", marked |-> FALSE]
                    s == insert(Now, n)
                IN  Becomes(wake_up(Sent(s, c, [is |-> "id", id |-> IF id = 0 THEN s.d.given ELSE id, keys |-> keys])))
    /\ UNCHANGED <<views, wanted>>

(* With ignore_dbusclose the client is told what it wants to hear.          *)
pretend_closed(s, id) ==
    LET Put(seq) == [i \in DOMAIN seq |-> IF seq[i].id = id THEN Closed(seq[i]) ELSE seq[i]]
    IN  FoldLeft(signal_notification_closed, [s EXCEPT !.d.disp = Put(@), !.d.wait = Put(@)],
                 WithId(s.d.disp \o s.d.wait, id))

CloseNotification ==
    /\ Serve /\ Does("notes")
    /\ \E c \in Clients : \E id \in DOMAIN views[c].notes :
           Becomes(wake_up(IF Does("ignore") THEN pretend_closed(Now, id) ELSE close_id(Now, id)))
    /\ UNCHANGED <<views, wanted>>

NotificationCloseAll ==
    /\ Serve /\ Does("history") /\ Becomes(wake_up(history_push_all(Now)))
    /\ UNCHANGED <<views, wanted>>

(* NotificationShow pops the last one, NotificationPopHistory any.          *)
HistoryPop ==
    /\ Serve /\ Does("history")
    /\ \E n \in ToSet(daemon.hist) :
           Becomes(wake_up([Now EXCEPT !.d.hist = Without(@, n.id), !.d.wait = Append(@, n)]))
    /\ UNCHANGED <<views, wanted>>

NotificationClearHistory_Asleep ==
    /\ Serve /\ Does("history") /\ Becomes([Now EXCEPT !.d.hist = <<>>])
    /\ UNCHANGED <<views, wanted>>

NotificationClearHistory ==
    /\ Serve /\ Does("history") /\ Becomes(wake_up([Now EXCEPT !.d.hist = <<>>]))
    /\ UNCHANGED <<views, wanted>>

NotificationRemoveFromHistory ==
    /\ Serve /\ Does("history")
    /\ \E n \in ToSet(daemon.hist) : Becomes(wake_up([Now EXCEPT !.d.hist = Without(@, n.id)]))
    /\ UNCHANGED <<views, wanted>>

NotificationAction ==
    /\ Serve /\ Does("actions")
    /\ \E nr \in 0..AtOnce - 1 :
           Becomes(IF Len(daemon.wait) < nr \/ nr >= Len(daemon.disp) THEN Now
                   ELSE notification_do_action(Now, daemon.disp[nr + 1]))
    /\ UNCHANGED <<views, wanted>>

Click ==
    /\ Serve /\ Does("actions")
    /\ \E n \in ToSet(daemon.disp) :
           \E s \in {notification_do_action(Now, n), mark_closure(Now, n)} : Becomes(wake_up(s))
    /\ UNCHANGED <<views, wanted>>

ContextMenuCall ==
    /\ Serve /\ Does("actions") /\ Becomes(context_menu_for(Now, {n \in ToSet(daemon.disp) : n.actions # {}}))
    /\ UNCHANGED <<views, wanted>>

(* What the menu has locked is released; what was marked meanwhile is       *)
(* closed, but not after a menu that was aborted.                           *)
Released(s, lost, chosen) ==
    LET Free(n)   == IF n.lock = "menu" THEN [n EXCEPT !.lock = "free", !.marked = FALSE] ELSE n
        Freed(ns) == [i \in DOMAIN ns |-> Free(ns[i])]
        marked    == {n.id : n \in {n \in Known(s.d) : n.lock = "menu" /\ n.marked}} \cup lost
        u         == [s EXCEPT !.d.disp = Freed(@), !.d.wait = Freed(@), !.d.hist = Freed(@),
                               !.d.menu = {}, !.d.lost = {}]
    IN  IF chosen THEN FoldSet(LAMBDA id, a : close_id(a, id), u, marked) ELSE u

(* The user picks what the menu has, which may be gone by then, or nothing. *)
(* One that was replaced is freed by the unlock, and its mark read after.   *)
context_menu_result_dispatch ==
    /\ Serve /\ daemon.menu # {}
    /\ \E found \in SUBSET daemon.lost :
         \/ \E choice \in daemon.menu :
                Becomes(wake_up(Released(invoke_action(Now, choice[1], choice[2]), found, TRUE)))
         \/ Becomes(wake_up(Released(Now, found, FALSE)))
    /\ UNCHANGED <<views, wanted>>

(* The user waits for one command before the next.                          *)
Alone == toggling = <<>> \/ Does("race")

Clamped(level) == IF level > MAX_PAUSE_LEVEL \/ level < 0 THEN MAX_PAUSE_LEVEL ELSE level

SetPauseLevel ==
    /\ Serve /\ Does("levels") /\ Alone
    /\ \E level \in Levels : Becomes(dbus_cb_dunst_Properties_Set(Now, level)) /\ wanted' = Clamped(level)
    /\ UNCHANGED views

Signalled ==
    /\ Serve /\ Does("signals") /\ Alone
    /\ \/ Becomes(pause_signal(Now))   /\ wanted' = MAX_PAUSE_LEVEL
       \/ Becomes(unpause_signal(Now)) /\ wanted' = 0
    /\ UNCHANGED views

ConfigReload == Serve /\ Does("reload") /\ Becomes(reload(Now)) /\ UNCHANGED <<views, wanted>>

(* dunstctl set-paused toggle reads the property and then sets it.          *)
ToggleReads ==
    /\ Move /\ daemon.serving /\ Does("toggle")
    /\ Alone /\ Len(toggling) < 2
    /\ toggling' = Append(toggling, dbus_cb_dunst_Properties_Get(daemon, "paused"))
    /\ wanted' = IF wanted = 0 THEN MAX_PAUSE_LEVEL ELSE 0
    /\ UNCHANGED <<daemon, inbox, views, second>>

ToggleSets ==
    /\ daemon.serving /\ toggling # <<>> /\ toggling' = Tail(toggling)
    /\ Becomes(dbus_cb_dunst_Properties_Set(Now, IF Head(toggling) = 1 THEN 0 ELSE MAX_PAUSE_LEVEL))
    /\ UNCHANGED <<views, second, wanted, busmoves, buses>>

-----------------------------------------------------------------------------
(* Who has the name.  A second dunst waits for it unasked, is told that it  *)
(* has lost it, asks who has it and ends.                                   *)

name_acquired ==
    /\ Move /\ ~daemon.serving /\ second.is = "no"
    /\ \E note \in {FALSE, Does("startup")}, level \in Defaults : daemon' = dunst_main(note, level) /\ wanted' = level
    /\ UNCHANGED <<inbox, views, second, toggling>>

(* A watcher sees that the name has no owner; so does a careful client.     *)
Ends ==
    /\ Serve /\ Does("restart") /\ toggling = <<>> /\ daemon' = NoOne
    /\ second.is = "no"
    /\ inbox' = [p \in DOMAIN inbox |-> Append(inbox[p], [is |-> "gone"])]
    /\ UNCHANGED <<views, wanted>>

SecondStarts ==
    /\ Move /\ Does("second") /\ daemon.serving /\ second.is = "no" /\ second' = [second EXCEPT !.is = "waits"]
    /\ UNCHANGED <<daemon, inbox, views, wanted, toggling>>

(* What dbus_get_fdn_daemon_info finds out: the name only if the other one  *)
(* answers in time, the pid from the bus.  The text has the name if there   *)
(* is a pid.                                                                *)
name_lost ==
    /\ second.is = "waits"
    /\ \E intime \in {daemon.serving} \cup (IF Does("slow") THEN {FALSE} ELSE {}), pid \in {daemon.serving} :
           second' = [is |-> "no", names |-> pid, knows |-> intime]
    /\ UNCHANGED <<daemon, inbox, views, wanted, toggling, busmoves, buses>>

-----------------------------------------------------------------------------
(* Programs.                                                                *)

NoView == [joined |-> FALSE, knows |-> <<>>, notes |-> <<>>, wrong |-> FALSE]

(* A watcher asks for signals, then for all properties.                     *)
Watch ==
    /\ Move /\ Does("watch") /\ daemon.serving
    /\ \E w \in Watchers :
           /\ ~views[w].joined
           /\ views' = [views EXCEPT ![w].joined = TRUE]
           /\ inbox' = [inbox EXCEPT ![w] = Append(@, Told(daemon, Lengths \cup Pauses))]
    /\ UNCHANGED <<daemon, second, wanted, toggling>>

Read(p) ==
    LET msg == Head(inbox[p])
        v   == views[p]
    IN  CASE msg.is = "changed" -> [v EXCEPT !.knows = msg.props @@ @]
          [] msg.is = "gone"    -> NoView
          [] msg.is = "id"      ->
                 [v EXCEPT !.notes = (msg.id :> [open |-> TRUE,
                      keys |-> msg.keys \cup (IF msg.id \in DOMAIN v.notes THEN v.notes[msg.id].keys ELSE {})]) @@ @]
          [] msg.is = "closed"  ->
                 [v EXCEPT !.wrong = @ \/ msg.id \notin DOMAIN v.notes \/ ~v.notes[msg.id].open,
                           !.notes = (msg.id :> [open |-> FALSE, keys |-> {}]) @@ @]
          [] msg.is = "action"  ->
                 [v EXCEPT !.wrong = @ \/ msg.id \notin DOMAIN v.notes
                                       \/ ~v.notes[msg.id].open \/ msg.key \notin v.notes[msg.id].keys]

Reads ==
    /\ \E p \in DOMAIN inbox :
           /\ inbox[p] # <<>> /\ inbox' = [inbox EXCEPT ![p] = Tail(@)]
           /\ views' = [views EXCEPT ![p] = Read(p)]
    /\ UNCHANGED <<daemon, second, wanted, toggling, busmoves, buses>>

Init ==
    /\ buses \in BusUses
    /\ \E note \in {FALSE, Does("startup")}, level \in Defaults : daemon = dunst_main(note, level) /\ wanted = level
    /\ inbox = [p \in Watchers \cup Clients |-> <<>>] /\ views = [p \in Watchers \cup Clients |-> NoView]
    /\ second = [is |-> "no", names |-> FALSE, knows |-> FALSE]
    /\ toggling = <<>> /\ busmoves = 0

Next ==
    \/ Notify \/ CloseNotification \/ NotificationCloseAll \/ HistoryPop \/ NotificationClearHistory
    \/ NotificationRemoveFromHistory \/ NotificationAction \/ Click \/ ContextMenuCall
    \/ context_menu_result_dispatch \/ SetPauseLevel \/ Signalled \/ ConfigReload \/ ToggleReads \/ ToggleSets
    \/ name_acquired \/ Ends \/ SecondStarts \/ name_lost \/ Watch \/ Reads

Spec == Init /\ [][Next]_busVars

-----------------------------------------------------------------------------
(* A watcher that has read everything shows what is, whichever handler has  *)
(* changed it and whenever the watcher has started.                         *)
WatcherKnows ==
    \A w \in Watchers :
        views[w].joined /\ inbox[w] = <<>> =>
            /\ DOMAIN views[w].knows = Lengths \cup Pauses
            /\ \A p \in Lengths \cup Pauses : views[w].knows[p] = dbus_cb_dunst_Properties_Get(daemon, p)

(* A client hears of actions and closings only for notifications that are   *)
(* open as far as it has been told, and of actions that it has given.       *)
ClientsNotMisled == \A c \in Clients : ~views[c].wrong

(* The level is the one that was asked for last.                            *)
LevelIsWanted == toggling = <<>> /\ daemon.serving => daemon.level = wanted

(* A second dunst that names the first has been told its name.              *)
NamesWhatItKnows == second.names => second.knows

=============================================================================
