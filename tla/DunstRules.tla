----------------------------- MODULE DunstRules -----------------------------
(***************************************************************************)
(* Notifications and rules of dunst (rules.c, notification.c, dbus.c): how *)
(* a message becomes a notification, what the rules of the configuration   *)
(* make of it, and how a reload takes the effect of the old rules back and *)
(* applies the new ones.                                                   *)
(*                                                                         *)
(* A rule has a set of accepted values for each field it filters by and a  *)
(* value for each property it sets.  A property has the value None where   *)
(* the code has NULL or -1.  The properties that the code treats alike are *)
(* represented by a few of them.                                           *)
(***************************************************************************)
EXTENDS Integers, SequencesExt, FiniteSetsExt, TLC

CONSTANTS Messages,      (* messages that clients send                          *)
          Configs,       (* configurations: rules and settings                  *)
          IconFiles,     (* icons that are installed                            *)
          None,          (* model value: NULL or -1                             *)
          MaxArrived,    (* bound: notifications of a behaviour                 *)
          MaxCalls,      (* bound: calls of a behaviour                         *)
          RuleUses       (* sets of behaviours; each run of dunst picks one     *)

Props == {"dbus_timeout", "transient", "timeout", "urgency", "icon_position", "icon_size",
          "fg", "category", "default_icon", "stack_tag", "format"}

RuleBehaviours == {"toggle", "settings", "client timeout", "override", "client colour", "no tag",
                   "default icon", "no icon", "raw icon", "icon off", "icon size", "late script",
                   "always_run_script"}

(* What a rule or a message needs for the reload to be exact; see           *)
(* ReappliedIsFresh.                                                        *)
Needs(config) ==
    UNION {UNION {CASE p = "dbus_timeout"  -> {"override"}
                    [] p = "default_icon"  -> {"default icon"}
                    [] p = "icon_position" -> {"icon off"}
                    [] p = "icon_size"     -> {"icon size"}
                    [] OTHER -> {} : p \in DOMAIN r.set} : r \in Range(config.rules)}

Brings(m) ==
    UNION {IF m.timeout # None THEN {"client timeout"} ELSE {}, IF m.fg # None THEN {"client colour"} ELSE {},
           IF m.stack_tag = None THEN {"no tag"} ELSE {}, IF m.icon = "" THEN {"no icon"} ELSE {},
           IF m.raw # None THEN {"raw icon"} ELSE {}}

RulesAssumption ==
    /\ MaxArrived \in Nat /\ MaxCalls \in Nat /\ RuleUses \subseteq SUBSET RuleBehaviours
    /\ \A k \in Configs : \A r \in Range(k.rules) : DOMAIN r.set \subseteq Props \cup {"new_icon", "script"}

VARIABLES
    config,      (* the configuration that was loaded                        *)
    rules,       (* its rules; RuleEnable changes enabled                    *)
    notes,       (* the notifications in the queues, each with its message   *)
    reapplied,   (* notifications are as the last reload left them           *)
    ran,         (* scripts that were run, per notification and display      *)
    calls, ruses

rulesVars == <<config, rules, notes, reapplied, ran, calls, ruses>>

Does(u) == u \in ruses

-----------------------------------------------------------------------------
(* Filters.  What has no value does not match.                              *)

Field(n, f) == IF f = "icon" THEN n.iconname ELSE IF f = "appname" THEN n.appname ELSE n.of[f]

rule_matches_notification(r, n) ==
    r.enabled /\ \A f \in DOMAIN r.match : Field(n, f) # None /\ Field(n, f) \in r.match[f]

-----------------------------------------------------------------------------
(* Icons.                                                                   *)

Sized(n, source) == <<source, n.of["icon_size"]>>

notification_icon_replace_path(n, icon) ==
    IF \/ n.of["icon_position"] = "off" \/ icon = None
       \/ n.iconname = icon /\ n.icon # None
    THEN n
    ELSE [n EXCEPT !.iconname = icon, !.icon = IF icon \in IconFiles THEN Sized(n, icon) ELSE None]

notification_icon_replace_data(n, data) ==
    IF n.of["icon_position"] = "off" THEN n ELSE [n EXCEPT !.icon = Sized(n, data)]

-----------------------------------------------------------------------------
(* Rules.  original holds, as a rule, what the rules have replaced: only    *)
(* the first value of each property, and none where there was none.         *)

Before(n, p, r) ==
    CASE p = "new_icon" -> n.iconname
      [] p = "script"   -> IF n.scripts # <<>> THEN Head(n.scripts) ELSE r.set["script"]
      [] OTHER          -> n.of[p]

Saved_Latest(n, r) ==
    [p \in {q \in DOMAIN r.set : Before(n, q, r) # None} |-> Before(n, p, r)] @@ n.original

Saved(n, r) ==
    n.original @@ [p \in {q \in DOMAIN r.set : Before(n, q, r) # None} |-> Before(n, p, r)]

WithIcon(n, r) ==
    IF "new_icon" \notin DOMAIN r.set THEN n
    ELSE [notification_icon_replace_path(n, r.set["new_icon"]) EXCEPT !.receiving_raw_icon = FALSE]

WithScript(n, r) ==
    IF "script" \notin DOMAIN r.set THEN n ELSE [n EXCEPT !.scripts = Append(@, r.set["script"])]

Set(n, r) == [n EXCEPT !.of = [p \in Props |-> IF p \in DOMAIN r.set THEN r.set[p] ELSE n.of[p]]]

rule_apply(r, n, save) ==
    WithScript(WithIcon(Set([n EXCEPT !.original = IF save THEN Saved(n, r) ELSE @], r), r), r)

rule_apply_all(n, rs) ==
    FoldLeft(LAMBDA a, r : IF rule_matches_notification(r, a) THEN rule_apply(r, a, TRUE) ELSE a, n, rs)

-----------------------------------------------------------------------------
(* notification_create, notification_init and dbus_message_to_notification. *)

Limited(u) == IF u > 2 THEN 2 ELSE u

notification_create(m, k) ==
    [appname |-> m.appname, iconname |-> m.icon, icon |-> None, receiving_raw_icon |-> m.raw # None,
     scripts |-> <<>>, original |-> <<>>, msg |-> None,
     of |-> [p \in Props |->
                CASE p = "dbus_timeout"  -> m.timeout
                  [] p = "transient"     -> m.transient
                  [] p = "timeout"       -> k.timeouts[Limited(m.urgency) + 1]
                  [] p = "urgency"       -> Limited(m.urgency)
                  [] p = "icon_position" -> "left"
                  [] p = "icon_size"     -> 32
                  [] p = "fg"            -> k.colours[Limited(m.urgency) + 1]
                  [] p = "category"      -> IF m.category = None THEN "" ELSE m.category
                  [] p = "stack_tag"     -> m.stack_tag
                  [] p = "format"        -> k.format
                  [] OTHER               -> None]]

DefaultIcon(n, k) ==
    IF n.icon # None \/ n.iconname \notin {None, ""} THEN n
    ELSE [n EXCEPT !.iconname = IF n.of["default_icon"] # None THEN n.of["default_icon"]
                                ELSE k.icons[n.of["urgency"] + 1]]

notification_format_message(n) ==
    [n EXCEPT !.msg = <<n.of["format"], n.of["category"], n.of["stack_tag"], n.iconname>>]

ClientTimeout(n) ==
    IF n.of["dbus_timeout"] = None THEN n ELSE [n EXCEPT !.of["timeout"] = n.of["dbus_timeout"]]

notification_init(n, rs, k) ==
    ClientTimeout(notification_format_message(DefaultIcon(rule_apply_all(n, rs), k)))

ClientIcon(n, m) ==
    IF m.raw # None /\ n.receiving_raw_icon THEN notification_icon_replace_data(n, m.raw) ELSE n

ClientColour(n, m) ==
    IF m.fg = None THEN n
    ELSE [n EXCEPT !.of["fg"] = m.fg, !.original = @ @@ ("fg" :> n.of["fg"])]

dbus_message_to_notification(m, rs, k) ==
    ClientColour(ClientIcon(notification_init(notification_create(m, k), rs, k), m), m)

(* queues_notification_insert loads the icon that has not been loaded.      *)
Inserted(n) == IF n.icon = None THEN notification_icon_replace_path(n, n.iconname) ELSE n

Notification(m, rs, k) == Inserted(dbus_message_to_notification(m, rs, k))

-----------------------------------------------------------------------------
Call == calls < MaxCalls /\ calls' = calls + 1 /\ UNCHANGED ruses

Notify ==
    /\ Call /\ Len(notes) < MaxArrived
    /\ \E m \in Messages :
           /\ Brings(m) \subseteq ruses
           /\ notes' = Append(notes, [message |-> m, n |-> Notification(m, rules, config), script_run |-> FALSE])
    /\ ran' = Append(ran, <<>>) /\ reapplied' = FALSE
    /\ UNCHANGED <<config, rules>>

Ran(i) ==
    /\ notes' = [notes EXCEPT ![i].script_run = TRUE]
    /\ ran' = [ran EXCEPT ![i] = Append(@, notes[i].n.scripts)]

notification_run_script_Again(i) == Ran(i)

notification_run_script(i) ==
    IF notes[i].script_run /\ ~Does("always_run_script") THEN UNCHANGED <<notes, ran>> ELSE Ran(i)

(* When a notification is displayed, for the first time or again after a    *)
(* pause, a fullscreen window or more urgent ones.                          *)
Display ==
    /\ Call /\ \E i \in DOMAIN notes : notification_run_script(i)
    /\ UNCHANGED <<config, rules, reapplied>>

(* The first rule with that name; the notifications that there are stay.    *)
RuleEnable ==
    /\ Call /\ Does("toggle")
    /\ \E name \in {r.name : r \in Range(rules)}, state \in {FALSE, TRUE} :
           \E i \in {SelectInSeq(rules, LAMBDA r : r.name = name)} :
               rules' = [rules EXCEPT ![i].enabled = state]
    /\ reapplied' = FALSE /\ UNCHANGED <<config, notes, ran>>

Reapplied(n, rs) == rule_apply_all(rule_apply([set |-> n.original], n, FALSE), rs)

(* The scripts of i will not run any more.                                  *)
Settled(i) == notes[i].n.scripts = <<>> \/ (notes[i].script_run /\ ~Does("always_run_script"))

(* reload: the rules are read anew, with those disabled by RuleEnable.      *)
Reload ==
    /\ Call
    /\ Does("late script") \/ \A i \in DOMAIN notes : Settled(i)
    /\ \E k \in Configs :
           /\ Needs(k) \subseteq ruses
           /\ Does("settings") \/ [k EXCEPT !.rules = <<>>] = [config EXCEPT !.rules = <<>>]
           /\ config' = k /\ rules' = k.rules
           /\ notes' = [i \in DOMAIN notes |-> [notes[i] EXCEPT !.n = Reapplied(@, k.rules)]]
    /\ reapplied' = TRUE /\ UNCHANGED ran

Init ==
    /\ ruses \in RuleUses
    /\ config \in {k \in Configs : Needs(k) \subseteq ruses} /\ rules = config.rules
    /\ notes = <<>> /\ ran = <<>> /\ reapplied = FALSE /\ calls = 0

Next == Notify \/ Display \/ RuleEnable \/ Reload

Spec == Init /\ [][Next]_rulesVars

-----------------------------------------------------------------------------
(* After a reload every notification is as if its message had just arrived: *)
(* no rule that is gone or was disabled has left a trace, the rules that    *)
(* there are have been applied in order, to what the client had sent, and   *)
(* the filters have seen what the rules before them set.                    *)
ReappliedIsFresh ==
    reapplied => \A i \in DOMAIN notes :
        LET fresh == Notification(notes[i].message, rules, config)
        IN  /\ notes[i].n.of = fresh.of
            /\ notes[i].n.icon = fresh.icon /\ notes[i].n.iconname = fresh.iconname

(* What dunstctl rules shows of the rules.                                  *)
RuleList ==
    [i \in DOMAIN rules |->
        [name |-> rules[i].name, enabled |-> rules[i].enabled, set |-> rules[i].set,
         match |-> [f \in DOMAIN rules[i].match \ {"icon"} |-> rules[i].match[f]]]]

(* Every rule is shown as it is.  The code does not keep this: the filter   *)
(* by icon is left out.                                                     *)
RulesListed == RuleList = rules

(* A script that a rule of the configuration names once runs at most once   *)
(* at each display of a notification, and without always_run_script (the    *)
(* default has it) at most once however often it is displayed.              *)
ScriptsOnce ==
    \A i \in DOMAIN ran :
        /\ \A display \in Range(ran[i]) : IsInjective(display)
        /\ ~Does("always_run_script") => IsInjective(FlattenSeq(ran[i]))
=============================================================================
