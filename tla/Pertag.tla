------------------------------- MODULE Pertag -------------------------------
(***************************************************************************)
(* The view of one monitor of dwm and the settings that go with it: how    *)
(* many masters, their share, the layout, the bar and the gaps, kept for   *)
(* each tag (dwm/patch/pertag.c) and, some of them, across restarts        *)
(* (dwm/patch/seamless_restart.c).                                         *)
(***************************************************************************)
EXTENDS Integers, FiniteSets

CONSTANTS NTags,        (* NUMTAGS                                         *)
          Layout,       (* the addresses of the elements of layouts        *)
          Floating,     (* the layout without an arrange function          *)
          NoLayout,     (* NULL                                            *)
          Defaults,     (* the settings of config.h                        *)
          MaxNmaster,   (* bound: masters                                  *)
          Mfacts,       (* the shares of the masters that setmfact accepts *)
          MaxGap,       (* bound: the gaps                                 *)
          MaxChanged,   (* bound: settings that differ from their defaults *)
          MaxRestarts   (* bound: restarts and crashes of dwm              *)

Tag   == 1..NTags
Index == 0..NTags      (* of the arrays of Pertag; 0 is for all tags *)

Setting == [nmaster : 0..MaxNmaster,
            mfact   : Mfacts,
            sellt   : 0..1,
            lt      : [0..1 -> Layout],
            showbar : BOOLEAN,
            gaps    : 0..MaxGap]

ASSUME PertagAssumption ==
    /\ NTags \in Nat \ {0}
    /\ Floating \in Layout /\ NoLayout \notin Layout
    /\ MaxNmaster \in Nat /\ MaxGap \in Nat
    /\ MaxChanged \in Nat /\ MaxRestarts \in Nat
    /\ Defaults \in Setting /\ Defaults.sellt = 0

VARIABLES
    tagset, seltags,  (* the two views of the monitor and which is shown    *)
    curtag,           (* pertag->curtag                                     *)
    pertag,           (* the settings of each tag                           *)
    mon,              (* the settings in force: those of the Monitor itself *)
    saved,            (* _DWM_MONITOR_TAGS and _DWM_MONITOR_FIELDS          *)
    restarts          (* number of restarts so far                          *)

views == <<tagset, seltags>>
vars  == <<views, curtag, pertag, mon, saved, restarts>>

Shown     == tagset[seltags]
Lowest(S) == CHOOSE t \in S : \A u \in S : t <= u

NoSaved == [tags |-> {}, fields |-> [i \in Index |-> NoLayout]]

-----------------------------------------------------------------------------
(* pertagview: the settings of the view's first tag, or those for all tags *)
(* if the argument was ~0, are put in force.                               *)
pertagview(tags, all) ==
    /\ curtag' = IF all THEN 0 ELSE Lowest(tags)
    /\ mon' = pertag[curtag']

view(mask, all) ==
    LET i    == 1 - seltags
        tags == IF mask = {} THEN tagset[i] ELSE mask
    IN  /\ mask # Shown
        /\ seltags' = i
        /\ tagset' = [tagset EXCEPT ![i] = tags]
        /\ pertagview(tags, all)
        /\ UNCHANGED <<pertag, saved, restarts>>

ViewTag(t)   == view({t}, FALSE)
ViewAll      == view(Tag, TRUE)
ViewPrevious == view({}, FALSE)

(* With curtag 0 the code shifts 1 by 31 places, which is no tag.  The     *)
(* gaps in force stay as they are.                                         *)
toggleview(t) ==
    LET tags == (Shown \ {t}) \cup ({t} \ Shown)
        cur  == IF curtag \in tags THEN curtag ELSE Lowest(tags)
    IN  /\ tags # {}
        /\ tagset' = [tagset EXCEPT ![seltags] = tags]
        /\ curtag' = cur
        /\ mon' = [pertag[cur] EXCEPT !.gaps = mon.gaps]
        /\ UNCHANGED <<seltags, pertag, saved, restarts>>

-----------------------------------------------------------------------------
(* Commands that change a setting: of the monitor and of the current tag.  *)
Differing(p) == {k \in Index \X DOMAIN Defaults : p[k[1]][k[2]] # Defaults[k[2]]}

Change(new, own) ==
    /\ mon' = new /\ pertag' = [pertag EXCEPT ![curtag] = own]
    /\ Cardinality(Differing(pertag')) <= MaxChanged
    /\ UNCHANGED <<views, curtag, saved, restarts>>

incnmaster(i) ==
    LET n == IF mon.nmaster + i < 0 THEN 0 ELSE mon.nmaster + i
    IN  /\ n <= MaxNmaster
        /\ Change([mon EXCEPT !.nmaster = n], [pertag[curtag] EXCEPT !.nmaster = n])

setmfact(f) ==
    /\ mon.lt[mon.sellt] # Floating
    /\ f \in Mfacts
    /\ Change([mon EXCEPT !.mfact = f], [pertag[curtag] EXCEPT !.mfact = f])

togglebar ==
    Change([mon EXCEPT !.showbar = ~@], [pertag[curtag] EXCEPT !.showbar = ~mon.showbar])

setgaps(g) ==
    /\ g \in 0..MaxGap
    /\ Change([mon EXCEPT !.gaps = g], [pertag[curtag] EXCEPT !.gaps = g % 256])

(* Mutant: the layout is stored for the slot that was selected before. *)
setlayout_OldSlot(v) ==
    LET own == pertag[curtag]
        i   == IF v = mon.lt[mon.sellt] THEN mon.sellt ELSE 1 - own.sellt
    IN  Change([mon EXCEPT !.sellt = i, !.lt[i] = IF v = NoLayout THEN @ ELSE v],
               [own EXCEPT !.sellt = i, !.lt[mon.sellt] = IF v = NoLayout THEN @ ELSE v])

(* Without a layout, or with one that is not in force, the other slot is   *)
(* selected; the layout, if any, is stored in the selected slot.           *)
setlayout(v) ==
    LET other == v = NoLayout \/ v # mon.lt[mon.sellt]
        i     == IF other THEN 1 - pertag[curtag].sellt ELSE mon.sellt
        l     == IF v = NoLayout THEN pertag[curtag].lt[i] ELSE v
    IN  Change([mon EXCEPT !.sellt = i, !.lt[i] = l],
               [pertag[curtag] EXCEPT !.sellt = IF other THEN i ELSE @, !.lt[i] = l])

-----------------------------------------------------------------------------
(* setmonitortags and setmonitorfields *)
Persisted ==
    [tags   |-> Shown,
     fields |-> [i \in Index |-> [nmaster |-> pertag[i].nmaster % 8,
                                  layout  |-> pertag[i].lt[pertag[i].sellt],
                                  showbar |-> pertag[i].showbar]]]

(* Mutant: the settings for all tags are not restored. *)
Restored_FromOne(was) ==
    [i \in Index |-> IF i = 0 THEN Defaults
                     ELSE [Defaults EXCEPT !.nmaster = was.fields[i].nmaster,
                                           !.lt[0] = was.fields[i].layout,
                                           !.showbar = was.fields[i].showbar]]

(* getmonitorfields: the other settings are the defaults. *)
Restored(was) ==
    [i \in Index |-> [Defaults EXCEPT !.nmaster = was.fields[i].nmaster,
                                      !.lt[0] = was.fields[i].layout,
                                      !.showbar = was.fields[i].showbar]]

(* createmon.  The compiler chooses whether getmonitorfields looks for the *)
(* first tag of the restored view or, evaluated first, of the default one. *)
createmon(was) ==
    /\ curtag' = 1 /\ seltags' = 0
    /\ IF was.tags = {}
       THEN /\ tagset' = [i \in 0..1 |-> {1}]
            /\ pertag' = [i \in Index |-> Defaults]
            /\ mon' = Defaults
       ELSE /\ tagset' = [i \in 0..1 |-> IF i = 0 THEN was.tags ELSE {1}]
            /\ pertag' = Restored(was)
            /\ \E i \in {1, Lowest(was.tags)} : mon' = pertag'[i]

Init ==
    /\ tagset = [i \in 0..1 |-> {1}] /\ seltags = 0
    /\ curtag = 1
    /\ pertag = [i \in Index |-> Defaults] /\ mon = Defaults
    /\ saved = NoSaved
    /\ restarts = 0

Restart ==
    /\ restarts < MaxRestarts /\ restarts' = restarts + 1
    /\ saved' = Persisted
    /\ createmon(saved')

Crash ==
    /\ restarts < MaxRestarts /\ restarts' = restarts + 1
    /\ UNCHANGED saved
    /\ createmon(saved)

Next ==
    \/ \E t \in Tag : ViewTag(t) \/ toggleview(t)
    \/ ViewAll \/ ViewPrevious
    \/ \E i \in {-1, 1} : incnmaster(i)
    \/ \E f \in Mfacts : setmfact(f)
    \/ \E g \in 0..MaxGap : setgaps(g)
    \/ \E v \in Layout \cup {NoLayout} : setlayout(v)
    \/ togglebar
    \/ Restart \/ Crash

Spec == Init /\ [][Next]_vars

-----------------------------------------------------------------------------
(* The arrays are indexed within their bounds and every view shows a tag.  *)
TypeOK ==
    /\ tagset \in [0..1 -> (SUBSET Tag) \ {{}}] /\ seltags \in 0..1
    /\ curtag \in Index
    /\ pertag \in [Index -> Setting] /\ mon \in Setting
    /\ restarts \in 0..MaxRestarts

(* dwm/patch/pertag.c: "current tag index".  curtag is a tag of the view,  *)
(* or 0 while the view that Mod-0 has selected is shown.                   *)
CurtagShown == IF curtag = 0 THEN Shown = Tag ELSE curtag \in Shown

SettingsInForce ==
    \A f \in {"nmaster", "mfact", "sellt", "lt", "showbar"} :
        mon[f] = pertag[curtag][f]

(* The current tag is shown and the monitor is laid out with its settings: *)
(* whatever sequence of views, toggled views and layout changes led here,  *)
(* no setting is taken to or left behind in another tag.  A restart loses  *)
(* curtag, and toggleview leaves the gaps as they are.                     *)
CurrentTagInForce == restarts = 0 => CurtagShown /\ SettingsInForce

(* A clean restart brings back the view and for each tag, the settings for *)
(* all tags included, the masters (modulo 8), the layout and the bar.      *)
RestartKeeps ==
    [][saved' # saved =>
        /\ tagset'[seltags'] = Shown
        /\ \A i \in Index : LET was == pertag[i]  is == pertag'[i] IN
             /\ is.nmaster = was.nmaster % 8
             /\ is.lt[is.sellt] = was.lt[was.sellt]
             /\ is.showbar = was.showbar]_vars
=============================================================================
