------------------------------ MODULE MCDunst ------------------------------
(* TLC instances of the parts of dunst: one of them moves in each behaviour. *)
EXTENDS DunstQueues

CONSTANTS MaxRuns, MaxEvents, MaxClosed, Monitors, WlUses,
          LayoutSettings, LayoutNotes, MaxShown,
          Outputs, Seats, Tops, MaxPending, MaxTurns, SeatUses,
          Tall, Windows, MaxTold, MaxSteps, XUses,
          Messages, Configs, IconFiles, NoValue, MaxArrived, MaxCalls, RuleUses,
          Watchers, Clients, ActionSets, Levels, Defaults, AtOnce, MaxGiven, MaxMoves, BusUses

VARIABLES part, w, app, changes, wuses, ls, layouts, more, c, d, sent, turns, seatuses,
          srv, x, steps, xuses, config, rules, notes, reapplied, ran, calls, ruses,
          daemon, inbox, views, second, wanted, toggling, busmoves, buses

windowVars == <<w, app, changes, wuses>>
layoutVars == <<ls, layouts, more>>
seatVars   == <<c, d, sent, turns, seatuses>>
x11Vars    == <<srv, x, steps, xuses>>
ruleVars   == <<config, rules, notes, reapplied, ran, calls, ruses>>
busVars    == <<daemon, inbox, views, second, wanted, toggling, busmoves, buses>>

Window == INSTANCE DunstWayland
Layout == INSTANCE DunstLayout WITH displayed <- layouts, hidden <- more
Seat   == INSTANCE DunstSeats
X11    == INSTANCE DunstX11
Rules  == INSTANCE DunstRules WITH None <- NoValue
Bus    == INSTANCE DunstBus

ASSUME MCDunstAssumption ==
    /\ Window!WaylandAssumption /\ Layout!LayoutAssumption
    /\ Seat!SeatsAssumption /\ X11!X11Assumption
    /\ Rules!RulesAssumption /\ Bus!BusAssumption

-----------------------------------------------------------------------------
Plain    == [NoKind EXCEPT !.urgency = 1, !.expires = TRUE, !.fullscreen = "pushback"]
Critical == [NoKind EXCEPT !.urgency = 2, !.actions = TRUE, !.override = TRUE]
Tagged   == [NoKind EXCEPT !.urgency = 0, !.expires = TRUE, !.tag = 1, !.ignore = TRUE,
                           !.fullscreen = "suppress"]

MCKinds == {Plain, Critical, Tagged}

MCUses  == {{"history", "menu"}, {"history", "click"}, {"menu", "click"},
            {"menu", "replace", "fullscreen"}, {"menu", "pause", "reload"}, {"replace", "pause"}}

MCWlUses == {{"hide", "closed", "reload"}, {"hide", "xdg", "closed"}, {"wake", "hide", "reload"},
             {"hide", "outputs", "follow"}, {"hold", "hide", "closed"}, {"hold", "hide", "xdg"}}

MCSeatUses == {{"state", "plug", "follow"}, {"state", "move", "close", "unplug"},
               {"idle", "seats"}, {"point"}, {"point", "pause_on_mouse_over"}}

MCXUses == {{"notes", "keys", "cover", "reload"}, {"notes", "taken later", "reload", "race"},
            {"notes", "keys", "taken", "reload"},
            {"notes", "keyboard", "focus", "reload"}, {"notes", "keyboard", "fullscreen", "focus"},
            {"notes", "monitors", "race"}}

(* The second monitor has twice as many dots per inch. *)
MCTall == [mon \in 1..2 |-> mon]

(* A screen as small as settings allow, so that all of them matter. *)
SmallScreen ==
    [height |-> [min |-> 0, max |-> 12], width |-> [min |-> 0, max |-> 14], padding |-> 1,
     h_padding |-> 1, text_icon_padding |-> 0, frame_width |-> 1, separator_height |-> 1,
     gap_size |-> 0, corners |-> {"top", "bottom"}, corner_radius |-> 2,
     bar |-> [height |-> 3, frame |-> 1, min_width |-> 3, max_width |-> 6], line |-> 2,
     vertical_alignment |-> "center", indicate_hidden |-> TRUE, limit |-> 2,
     offset |-> [x |-> 2, y |-> 1], origin |-> [x |-> "right", y |-> "top"],
     screen |-> [w |-> 24, h |-> 40]]

MCLayoutSettings ==
    {SmallScreen,
     [SmallScreen EXCEPT !.gap_size = 2, !.vertical_alignment = "top", !.separator_height = 2],
     [SmallScreen EXCEPT !.vertical_alignment = "bottom", !.frame_width = 3, !.separator_height = 3,
                         !.corners = {}, !.origin = [x |-> "left", y |-> "bottom"]],
     [SmallScreen EXCEPT !.text_icon_padding = 2, !.separator_height = 0, !.frame_width = 2,
                         !.corners = {"top"}, !.origin = [x |-> "center", y |-> "center"]],
     [SmallScreen EXCEPT !.text_icon_padding = 2, !.separator_height = 0, !.frame_width = 0,
                         !.screen.w = 12, !.limit = 1]}

OnlyText == [text |-> 9, word_wrap |-> TRUE, hide_text |-> FALSE, icon |-> [w |-> 0, h |-> 0],
             position |-> "left", progress |-> FALSE, bar_alignment |-> "center"]
WithIcon == [OnlyText EXCEPT !.icon = [w |-> 3, h |-> 3]]

MCLayoutNotes ==
    {OnlyText, [OnlyText EXCEPT !.word_wrap = FALSE, !.text = 20],
     [WithIcon EXCEPT !.text = 14], [WithIcon EXCEPT !.position = "top"],
     [WithIcon EXCEPT !.position = "right", !.progress = TRUE, !.bar_alignment = "right"],
     [WithIcon EXCEPT !.position = "top", !.hide_text = TRUE, !.progress = TRUE,
                      !.bar_alignment = "left"],
     [WithIcon EXCEPT !.position = "off", !.progress = TRUE, !.text = 20]}

-----------------------------------------------------------------------------
Rule(name, match, set) == [name |-> name, enabled |-> TRUE, match |-> match, set |-> set]

Crit == Rule("crit", "urgency" :> {2}, "fg" :> "red" @@ "timeout" :> 0)
Chat == Rule("chat", "category" :> {"im"}, "urgency" :> 2 @@ "category" :> "chat")
Blue == Rule("blue", "category" :> {"chat"}, "fg" :> "blue" @@ "stack_tag" :> "chat")
Bell == Rule("bell", "stack_tag" :> {"vol", "chat"}, "new_icon" :> "bell" @@ "stack_tag" :> "b" @@ "fg" :> "green")
Long == Rule("long", "icon" :> {"bell", "mail"}, "timeout" :> 9)
Form == Rule("form", <<>>, "format" :> "%s")
Beep == Rule("beep", <<>>, "script" :> "beep")
Ring == Rule("ring", "category" :> {"im", "chat"}, "script" :> "ring")

MCConfigs ==
    {[rules |-> rs, timeouts |-> <<5, 6, 0>>, colours |-> <<"grey", "white", "red">>,
      icons |-> <<"bell", "mail", "bell">>, format |-> "%b"] :
        rs \in {<<>>, <<Crit, Chat, Blue, Bell>>, <<Chat, Crit, Bell, Long>>, <<Bell, Blue, Long>>,
                <<Form, Chat>>, <<Beep>>, <<Ring, Chat, Beep>>}}

Message == [appname |-> "a", urgency |-> 1, timeout |-> NoValue, transient |-> FALSE, category |-> NoValue,
            stack_tag |-> "vol", icon |-> "mail", raw |-> NoValue, fg |-> NoValue]

MCMessages == {Message, [Message EXCEPT !.category = "im", !.urgency = 3],
               [Message EXCEPT !.category = "im", !.stack_tag = "c", !.icon = "bell"]}

MCRuleUses == {{"toggle"}, {"toggle", "always_run_script"}}

MCActionSets == {{}, {"reply"}, {"reply", "open"}}
MCLevels     == {0, 33, 101}
MCBusUses    == {{"watch", "notes", "history", "reload"}, {"notes", "actions", "history"},
                 {"notes", "actions", "replace"}, {"notes", "actions", "signals", "ignore"},
                 {"watch", "levels", "toggle", "notes"}, {"watch", "signals", "toggle", "restart"},
                 {"second", "notes"}}

-----------------------------------------------------------------------------
(* What the parts that do not move have. *)
First(S) == CHOOSE use \in S : TRUE

MCParts == {"queues", "window", "layout", "seats", "x11", "rules", "bus"}

MCInit ==
    /\ part \in MCParts
    /\ Init /\ (part # "queues" => uses = First(Uses))
    /\ Window!Init /\ (part # "window" => wuses = First(WlUses) /\ w.there = Monitors)
    /\ Layout!Init /\ (part # "layout" => ls = First(LayoutSettings))
    /\ IF part = "seats" THEN Seat!Init
       ELSE c = <<>> /\ d = <<>> /\ sent = <<>> /\ turns = 0 /\ seatuses = {}
    /\ IF part = "x11" THEN X11!Init
       ELSE srv = <<>> /\ x = <<>> /\ steps = 0 /\ xuses = {}
    /\ IF part = "rules" THEN Rules!Init
       ELSE /\ config = <<>> /\ rules = <<>> /\ notes = <<>> /\ reapplied = FALSE
            /\ ran = <<>> /\ calls = 0 /\ ruses = {}
    /\ IF part = "bus" THEN Bus!Init
       ELSE /\ daemon = <<>> /\ inbox = <<>> /\ views = <<>> /\ second = <<>> /\ wanted = 0
            /\ toggling = <<>> /\ busmoves = 0 /\ buses = {}

MCNext ==
    /\ UNCHANGED part
    /\ \/ part = "queues" /\ Next
          /\ UNCHANGED <<windowVars, layoutVars, seatVars, x11Vars, ruleVars, busVars>>
       \/ part = "window" /\ Window!Next
          /\ UNCHANGED <<vars, layoutVars, seatVars, x11Vars, ruleVars, busVars>>
       \/ part = "layout" /\ Layout!Next
          /\ UNCHANGED <<vars, windowVars, seatVars, x11Vars, ruleVars, busVars>>
       \/ part = "seats" /\ Seat!Next
          /\ UNCHANGED <<vars, windowVars, layoutVars, x11Vars, ruleVars, busVars>>
       \/ part = "x11" /\ X11!Next
          /\ UNCHANGED <<vars, windowVars, layoutVars, seatVars, ruleVars, busVars>>
       \/ part = "rules" /\ Rules!Next
          /\ UNCHANGED <<vars, windowVars, layoutVars, seatVars, x11Vars, busVars>>
       \/ part = "bus" /\ Bus!Next
          /\ UNCHANGED <<vars, windowVars, layoutVars, seatVars, x11Vars, ruleVars>>

MCSpec == MCInit /\ [][MCNext]_<<part, vars, windowVars, layoutVars, seatVars, x11Vars, ruleVars, busVars>>

(* The properties of the parts, each where its part moves. *)
WindowSound ==
    /\ part = "window" => Window!ShownIsWanted /\ Window!BuffersSafe /\ Window!OneTimer
    /\ part = "x11"    => /\ X11!WindowShown /\ X11!GrabsFollow
                          /\ X11!OnActiveScreen /\ X11!StatusSeen
    /\ part = "seats"  => /\ Seat!FullscreenSeen /\ Seat!StatusFresh
                          /\ Seat!IdleSeen /\ Seat!PointedAt
LayoutSound == part = "layout" => Layout!WindowFits /\ Layout!ContentApart /\ Layout!ClickHitsDrawn
MessagesSound ==
    /\ part = "rules" => /\ Rules!ReappliedIsFresh /\ Rules!ScriptsOnce
    /\ part = "bus"   => /\ Bus!WatcherKnows /\ Bus!ClientsNotMisled /\ Bus!NamesWhatItKnows
                          /\ (Bus!Does("reload") \/ Bus!LevelIsWanted)
=============================================================================
