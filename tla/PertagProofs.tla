---------------------------- MODULE PertagProofs ----------------------------
(***************************************************************************)
(* Proofs about Pertag, for every number of tags, every set of layouts and *)
(* all bounds: the arrays of Pertag are indexed within their bounds and,   *)
(* until dwm is restarted, the current tag is one that is shown and its    *)
(* settings are those in force.                                            *)
(***************************************************************************)
EXTENDS Pertag, TLAPS, WellFoundedInduction

SavedFields == [nmaster : 0..MaxNmaster, layout : Layout, showbar : BOOLEAN]

(* What cleanup has written into the properties of the root window. *)
SavedOK ==
    /\ saved.tags \in SUBSET Tag
    /\ saved.tags # {} => saved.fields \in [Index -> SavedFields]

TypeInv == TypeOK /\ SavedOK

LEMMA LowestIsLeast ==
    ASSUME NEW S \in SUBSET Tag, S # {}
    PROVE  Lowest(S) \in S /\ \A u \in S : Lowest(S) <= u
<1> DEFINE R == {ss \in Nat \X Nat : ss[1] < ss[2]}
<1>1. R = OpToRel(<, Nat)
  BY DEF OpToRel
<1>2. IsWellFoundedOn(R, Nat)
  BY <1>1, NatLessThanWellFounded
<1>3. S \subseteq Nat
  BY PertagAssumption DEF Tag
<1>4. PICK i \in S : \A j \in S : <<j, i>> \notin R
  BY <1>2, <1>3, WFMin
<1>5. ASSUME NEW j \in S PROVE i <= j
  <2>1. i \in Nat /\ j \in Nat
    BY <1>3
  <2>2. j < i => <<j, i>> \in R
    BY <2>1
  <2> QED
    BY <1>4, <2>1, <2>2
<1> QED
  BY <1>5 DEF Lowest

LEMMA DefaultsOK == Defaults \in Setting
BY PertagAssumption

(* A setting changed within its bounds is a setting. *)
LEMMA SettingExcept ==
    ASSUME NEW s \in Setting
    PROVE  /\ \A n \in 0..MaxNmaster : [s EXCEPT !.nmaster = n] \in Setting
           /\ \A f \in Mfacts : [s EXCEPT !.mfact = f] \in Setting
           /\ \A b \in BOOLEAN : [s EXCEPT !.showbar = b] \in Setting
           /\ \A g \in 0..MaxGap : [s EXCEPT !.gaps = g] \in Setting
BY DEF Setting

LEMMA LayoutExcept ==
    ASSUME NEW s \in Setting, NEW i \in 0..1, NEW j \in 0..1, NEW l \in Layout
    PROVE  [s EXCEPT !.sellt = j, !.lt[i] = l] \in Setting
<1>1. s.lt \in [0..1 -> Layout]
  BY DEF Setting
<1>2. [s.lt EXCEPT ![i] = l] \in [0..1 -> Layout]
  BY <1>1
<1> QED
  BY <1>2 DEF Setting

(* Change keeps the types. *)
LEMMA ChangeType ==
    ASSUME TypeInv, NEW new \in Setting, NEW own \in Setting, Change(new, own)
    PROVE  TypeInv'
BY DEF Change, TypeInv, TypeOK, SavedOK, views, Setting
(* A view that is typed keeps the types and puts the settings of a tag     *)
(* that is shown in force.                                                 *)
LEMMA ViewStep ==
    ASSUME TypeInv, NEW mask \in SUBSET Tag, NEW all \in BOOLEAN,
           all => mask = Tag, view(mask, all)
    PROVE  /\ TypeInv'
           /\ IF all THEN curtag' = 0 /\ Shown' = Tag ELSE curtag' \in Tag \cap Shown'
           /\ mon' = pertag'[curtag']
<1> DEFINE tags == IF mask = {} THEN tagset[1 - seltags] ELSE mask
<1>1. 1 - seltags \in 0..1 /\ tagset \in [0..1 -> (SUBSET Tag) \ {{}}]
  BY DEF TypeInv, TypeOK
<1>2. tags \in SUBSET Tag /\ tags # {}
  <2>1. tagset[1 - seltags] \in (SUBSET Tag) \ {{}}
    BY <1>1
  <2> QED
    BY <2>1
<1>3. Lowest(tags) \in tags
  BY <1>2, LowestIsLeast
<1>4. /\ seltags' = 1 - seltags
      /\ tagset' = [tagset EXCEPT ![1 - seltags] = tags]
      /\ curtag' = IF all THEN 0 ELSE Lowest(tags)
      /\ mon' = pertag[curtag']
      /\ UNCHANGED <<pertag, saved, restarts>>
  BY DEF view, pertagview
<1> HIDE DEF tags
<1>5. Shown' = tags
  BY <1>1, <1>4 DEF Shown
<1>6. all => tags = Tag
  BY PertagAssumption DEF tags, Tag
<1>7. curtag' \in Index
  BY <1>2, <1>3, <1>4, PertagAssumption DEF Index, Tag
<1>8. TypeInv'
  <2>1. tagset' \in [0..1 -> (SUBSET Tag) \ {{}}] /\ seltags' \in 0..1
    BY <1>1, <1>2, <1>4
  <2>2. mon' \in Setting
    BY <1>4, <1>7 DEF TypeInv, TypeOK
  <2> QED
    BY <1>4, <1>7, <2>1, <2>2 DEF TypeInv, TypeOK, SavedOK
<1> QED
  BY <1>2, <1>3, <1>4, <1>5, <1>6, <1>8

LEMMA ToggleviewStep ==
    ASSUME TypeInv, NEW t \in Tag, toggleview(t)
    PROVE  /\ TypeInv'
           /\ curtag' \in Tag \cap Shown'
           /\ mon' = [pertag'[curtag'] EXCEPT !.gaps = mon.gaps]
<1> DEFINE tags == (Shown \ {t}) \cup ({t} \ Shown)
           cur  == IF curtag \in tags THEN curtag ELSE Lowest(tags)
<1>1. seltags \in 0..1 /\ tagset \in [0..1 -> (SUBSET Tag) \ {{}}]
  BY DEF TypeInv, TypeOK
<1>2. tags \in SUBSET Tag /\ tags # {}
  BY <1>1 DEF toggleview, Shown
<1>3. cur \in tags
  BY <1>2, LowestIsLeast
<1>4. /\ tagset' = [tagset EXCEPT ![seltags] = tags]
      /\ curtag' = cur
      /\ mon' = [pertag[cur] EXCEPT !.gaps = mon.gaps]
      /\ UNCHANGED <<seltags, pertag, saved, restarts>>
  BY DEF toggleview
<1> HIDE DEF tags, cur
<1>5. Shown' = tags
  BY <1>1, <1>4 DEF Shown
<1>6. cur \in Index
  BY <1>2, <1>3, PertagAssumption DEF Index, Tag
<1>7. pertag[cur] \in Setting /\ mon.gaps \in 0..MaxGap
  BY <1>6 DEF TypeInv, TypeOK, Setting
<1>8. mon' \in Setting
  BY <1>4, <1>7, SettingExcept
<1>9. TypeInv'
  <2>1. tagset' \in [0..1 -> (SUBSET Tag) \ {{}}]
    BY <1>1, <1>2, <1>4
  <2> QED
    BY <1>4, <1>6, <1>8, <2>1 DEF TypeInv, TypeOK, SavedOK
<1> QED
  BY <1>2, <1>3, <1>4, <1>5, <1>9

(* The commands that change a setting leave the view alone, and what they  *)
(* make of the settings in force they make of those of the current tag.    *)
Agrees(s, t) == \A f \in {"nmaster", "mfact", "sellt", "lt", "showbar"} : s[f] = t[f]

CommandStep ==
    \/ \E i \in {-1, 1} : incnmaster(i)
    \/ \E f \in Mfacts : setmfact(f)
    \/ \E g \in 0..MaxGap : setgaps(g)
    \/ \E v \in Layout \cup {NoLayout} : setlayout(v)
    \/ togglebar

LEMMA SettingFields ==
    ASSUME NEW s \in Setting
    PROVE  /\ s.nmaster \in 0..MaxNmaster /\ s.mfact \in Mfacts /\ s.sellt \in 0..1
           /\ s.lt \in [0..1 -> Layout] /\ s.showbar \in BOOLEAN /\ s.gaps \in 0..MaxGap
BY DEF Setting

LEMMA CommandChanges ==
    ASSUME TypeInv, CommandStep
    PROVE  \E new, own \in Setting :
             /\ Change(new, own)
             /\ Agrees(mon, pertag[curtag]) => Agrees(new, own)
<1> DEFINE own0 == pertag[curtag]
<1>1. mon \in Setting /\ own0 \in Setting
  BY DEF TypeInv, TypeOK
<1> HIDE DEF own0
<1> USE DEF Agrees
<1>2. ASSUME NEW i \in {-1, 1}, incnmaster(i)
      PROVE  \E new, own \in Setting :
               Change(new, own) /\ (Agrees(mon, own0) => Agrees(new, own))
  <2> DEFINE n == IF mon.nmaster + i < 0 THEN 0 ELSE mon.nmaster + i
  <2>1. n \in 0..MaxNmaster
    BY <1>1, <1>2, SettingFields, PertagAssumption DEF incnmaster
  <2>2. Change([mon EXCEPT !.nmaster = n], [own0 EXCEPT !.nmaster = n])
    BY <1>2 DEF incnmaster, own0
  <2> HIDE DEF n
  <2>3. [mon EXCEPT !.nmaster = n] \in Setting /\ [own0 EXCEPT !.nmaster = n] \in Setting
    BY <1>1, <2>1, SettingExcept
  <2>4. Agrees(mon, own0) =>
            Agrees([mon EXCEPT !.nmaster = n], [own0 EXCEPT !.nmaster = n])
    BY <1>1 DEF Setting
  <2> QED
    BY <2>2, <2>3, <2>4
<1>3. ASSUME NEW f \in Mfacts, setmfact(f)
      PROVE  \E new, own \in Setting :
               Change(new, own) /\ (Agrees(mon, own0) => Agrees(new, own))
  <2>1. [mon EXCEPT !.mfact = f] \in Setting /\ [own0 EXCEPT !.mfact = f] \in Setting
    BY <1>1, SettingExcept
  <2>2. Agrees(mon, own0) =>
            Agrees([mon EXCEPT !.mfact = f], [own0 EXCEPT !.mfact = f])
    BY <1>1 DEF Setting
  <2> QED
    BY <1>3, <2>1, <2>2 DEF setmfact, own0
<1>4. ASSUME NEW g \in 0..MaxGap, setgaps(g)
      PROVE  \E new, own \in Setting :
               Change(new, own) /\ (Agrees(mon, own0) => Agrees(new, own))
  <2>1. g % 256 \in 0..MaxGap
    BY PertagAssumption
  <2>2. [mon EXCEPT !.gaps = g] \in Setting /\ [own0 EXCEPT !.gaps = g % 256] \in Setting
    BY <1>1, <2>1, SettingExcept
  <2>3. Agrees(mon, own0) =>
            Agrees([mon EXCEPT !.gaps = g], [own0 EXCEPT !.gaps = g % 256])
    BY <1>1 DEF Setting
  <2> QED
    BY <1>4, <2>2, <2>3 DEF setgaps, own0
<1>5. ASSUME NEW v \in Layout \cup {NoLayout}, setlayout(v)
      PROVE  \E new, own \in Setting :
               Change(new, own) /\ (Agrees(mon, own0) => Agrees(new, own))
  <2> DEFINE other == v = NoLayout \/ v # mon.lt[mon.sellt]
             i     == IF other THEN 1 - own0.sellt ELSE mon.sellt
             l     == IF v = NoLayout THEN own0.lt[i] ELSE v
             s     == IF other THEN i ELSE own0.sellt
             new   == [mon EXCEPT !.sellt = i, !.lt[i] = l]
             own   == [own0 EXCEPT !.sellt = s, !.lt[i] = l]
  <2>1. i \in 0..1 /\ s \in 0..1
    BY <1>1, SettingFields
  <2>2. l \in Layout
    BY <1>1, <2>1, SettingFields
  <2>3. Change(new, own)
    BY <1>5 DEF setlayout, own0
  <2>4. mon.sellt = own0.sellt => s = i
    OBVIOUS
  <2> HIDE DEF i, s, l, other
  <2>5. new \in Setting
    BY <1>1, <2>1, <2>2, LayoutExcept
  <2>6. own \in Setting
    BY <1>1, <2>1, <2>2, LayoutExcept
  <2>7. Agrees(mon, own0) => Agrees(new, own)
    BY <1>1, <2>1, <2>4 DEF Setting
  <2> QED
    BY <2>3, <2>5, <2>6, <2>7
<1>6. ASSUME togglebar
      PROVE  \E new, own \in Setting :
               Change(new, own) /\ (Agrees(mon, own0) => Agrees(new, own))
  <2> DEFINE new == [mon EXCEPT !.showbar = ~@]
             own == [own0 EXCEPT !.showbar = ~mon.showbar]
  <2>1. mon.showbar \in BOOLEAN
    BY <1>1, SettingFields
  <2>2. new \in Setting /\ own \in Setting
    BY <1>1, <2>1, SettingExcept
  <2>3. Agrees(mon, own0) => Agrees(new, own)
    BY <1>1 DEF Setting
  <2> QED
    BY <1>6, <2>2, <2>3 DEF togglebar, own0
<1> QED
  BY <1>2, <1>3, <1>4, <1>5, <1>6 DEF CommandStep, own0
(* What cleanup writes is typed, and what createmon reads of it as well.   *)
LEMMA PersistedOK ==
    ASSUME TypeInv
    PROVE  /\ Persisted.tags = Shown /\ Shown \in (SUBSET Tag) \ {{}}
           /\ Persisted.fields \in [Index -> SavedFields]
           /\ \A i \in Index :
                /\ Persisted.fields[i].nmaster = pertag[i].nmaster % 8
                /\ Persisted.fields[i].layout = pertag[i].lt[pertag[i].sellt]
                /\ Persisted.fields[i].showbar = pertag[i].showbar
<1>1. Shown \in (SUBSET Tag) \ {{}}
  BY DEF TypeInv, TypeOK, Shown
<1>2. ASSUME NEW i \in Index
      PROVE  /\ pertag[i].nmaster % 8 \in 0..MaxNmaster
             /\ pertag[i].lt[pertag[i].sellt] \in Layout
             /\ pertag[i].showbar \in BOOLEAN
  <2>1. pertag[i] \in Setting
    BY DEF TypeInv, TypeOK
  <2>2. pertag[i].nmaster \in 0..MaxNmaster
    BY <2>1, SettingFields
  <2>3. pertag[i].nmaster % 8 \in 0..MaxNmaster
    BY <2>2, PertagAssumption
  <2> QED
    BY <2>1, <2>3, SettingFields
<1> QED
  BY <1>1, <1>2 DEF Persisted, SavedFields

LEMMA RestoredOK ==
    ASSUME NEW was, was.fields \in [Index -> SavedFields]
    PROVE  /\ Restored(was) \in [Index -> Setting]
           /\ \A i \in Index : LET r == Restored(was)[i] IN
                /\ r.nmaster = was.fields[i].nmaster
                /\ r.lt[r.sellt] = was.fields[i].layout
                /\ r.showbar = was.fields[i].showbar
<1> SUFFICES ASSUME NEW i \in Index
             PROVE  /\ Restored(was)[i] \in Setting
                    /\ LET r == Restored(was)[i] IN
                         /\ r.nmaster = was.fields[i].nmaster
                         /\ r.lt[r.sellt] = was.fields[i].layout
                         /\ r.showbar = was.fields[i].showbar
  BY DEF Restored
<1> DEFINE r == [Defaults EXCEPT !.nmaster = was.fields[i].nmaster,
                                 !.lt[0] = was.fields[i].layout,
                                 !.showbar = was.fields[i].showbar]
<1>1. Restored(was)[i] = r
  BY DEF Restored
<1>2. was.fields[i] \in SavedFields
  OBVIOUS
<1>3. /\ was.fields[i].nmaster \in 0..MaxNmaster
      /\ was.fields[i].layout \in Layout
      /\ was.fields[i].showbar \in BOOLEAN
  BY <1>2 DEF SavedFields
<1>4. Defaults \in Setting /\ Defaults.sellt = 0
  BY PertagAssumption
<1>5. r \in Setting
  BY <1>3, <1>4 DEF Setting
<1>6. /\ r.nmaster = was.fields[i].nmaster
      /\ r.lt[r.sellt] = was.fields[i].layout
      /\ r.showbar = was.fields[i].showbar
  BY <1>4 DEF Setting
<1> QED
  BY <1>1, <1>5, <1>6, SMTT(30)

LEMMA CreatemonStep ==
    ASSUME NEW was,
           was.tags \in SUBSET Tag,
           was.tags # {} => was.fields \in [Index -> SavedFields],
           saved' = was, restarts' \in 0..MaxRestarts, createmon(was)
    PROVE  TypeInv'
<1>1. 1 \in Tag /\ 1 \in Index
  BY PertagAssumption DEF Tag, Index
<1>2. CASE was.tags = {}
  <2>1. tagset' \in [0..1 -> (SUBSET Tag) \ {{}}]
    BY <1>1, <1>2 DEF createmon
  <2>2. pertag' \in [Index -> Setting] /\ mon' \in Setting
    BY <1>2, DefaultsOK DEF createmon
  <2> QED
    BY <1>1, <1>2, <2>1, <2>2 DEF createmon, TypeInv, TypeOK, SavedOK
<1>3. CASE was.tags # {}
  <2>1. tagset' \in [0..1 -> (SUBSET Tag) \ {{}}]
    BY <1>1, <1>3 DEF createmon
  <2>2. pertag' = Restored(was) /\ pertag' \in [Index -> Setting]
    BY <1>3, RestoredOK DEF createmon
  <2>3. Lowest(was.tags) \in Index
    BY <1>3, LowestIsLeast, PertagAssumption DEF Tag, Index
  <2>4. \E i \in {1, Lowest(was.tags)} : mon' = pertag'[i]
    BY <1>3 DEF createmon
  <2>5. mon' \in Setting
    BY <1>1, <2>2, <2>3, <2>4
  <2> QED
    BY <1>1, <1>3, <2>1, <2>2, <2>5 DEF createmon, TypeInv, TypeOK, SavedOK
<1> QED
  BY <1>2, <1>3

-----------------------------------------------------------------------------
(* Until the first restart, the current tag is shown and its settings are  *)
(* in force.                                                               *)
IInv == TypeInv /\ CurrentTagInForce

LEMMA InitIInv == Init => IInv
<1> SUFFICES ASSUME Init PROVE IInv
  OBVIOUS
<1>1. 1 \in Tag /\ 1 \in Index
  BY PertagAssumption DEF Tag, Index
<1>2. TypeInv
  BY <1>1, DefaultsOK, PertagAssumption DEF Init, TypeInv, TypeOK, SavedOK, NoSaved
<1>3. CurrentTagInForce
  BY <1>1 DEF Init, CurrentTagInForce, CurtagShown, SettingsInForce, Shown
<1> QED
  BY <1>2, <1>3 DEF IInv

LEMMA NextIInv == IInv /\ [Next]_vars => IInv'
<1> SUFFICES ASSUME IInv, [Next]_vars PROVE IInv'
  OBVIOUS
<1> USE DEF IInv
<1>1. ASSUME NEW mask \in SUBSET Tag, NEW all \in BOOLEAN, all => mask = Tag, view(mask, all)
      PROVE  IInv'
  <2>1. TypeInv' /\ mon' = pertag'[curtag']
    BY <1>1, ViewStep
  <2>2. CurtagShown'
    BY <1>1, ViewStep, PertagAssumption DEF CurtagShown, Tag
  <2> QED
    BY <2>1, <2>2 DEF CurrentTagInForce, SettingsInForce
<1>2. CASE \E t \in Tag : ViewTag(t)
  BY <1>1, <1>2 DEF ViewTag
<1>3. CASE ViewAll
  BY <1>1, <1>3 DEF ViewAll
<1>4. CASE ViewPrevious
  BY <1>1, <1>4 DEF ViewPrevious
<1>5. ASSUME NEW t \in Tag, toggleview(t)
      PROVE  IInv'
  <2>1. TypeInv' /\ curtag' \in Tag \cap Shown'
    BY <1>5, ToggleviewStep
  <2>2. pertag'[curtag'] \in Setting
    BY <2>1 DEF TypeInv, TypeOK
  <2>3. mon' = [pertag'[curtag'] EXCEPT !.gaps = mon.gaps]
    BY <1>5, ToggleviewStep
  <2>4. SettingsInForce'
    BY <2>2, <2>3 DEF SettingsInForce, Setting
  <2> QED
    BY <2>1, <2>4, PertagAssumption DEF CurrentTagInForce, CurtagShown, Tag
<1>6. CASE CommandStep
  <2>1. PICK new, own \in Setting :
               Change(new, own) /\ (Agrees(mon, pertag[curtag]) => Agrees(new, own))
    BY <1>6, CommandChanges
  <2>2. TypeInv'
    BY <2>1, ChangeType
  <2>3. mon' = new /\ pertag'[curtag'] = own /\ UNCHANGED <<views, curtag, saved, restarts>>
    BY <2>1 DEF Change, TypeInv, TypeOK
  <2>4. SettingsInForce => SettingsInForce'
    BY <2>1, <2>3 DEF SettingsInForce, Agrees
  <2>5. CurtagShown => CurtagShown'
    BY <2>3 DEF CurtagShown, Shown, views
  <2> QED
    BY <2>2, <2>3, <2>4, <2>5 DEF CurrentTagInForce
<1>7. CASE Restart
  <2>1. /\ Persisted.tags \in SUBSET Tag
        /\ Persisted.fields \in [Index -> SavedFields]
    BY PersistedOK
  <2>2. saved' = Persisted /\ createmon(Persisted)
    BY <1>7 DEF Restart
  <2>3. restarts' \in 1..MaxRestarts
    BY <1>7, PertagAssumption DEF Restart, TypeInv, TypeOK
  <2>4. TypeInv'
    BY <2>1, <2>2, <2>3, CreatemonStep
  <2> QED
    BY <2>3, <2>4 DEF CurrentTagInForce
<1>8. CASE Crash
  <2>1. saved' = saved /\ createmon(saved)
    BY <1>8 DEF Crash
  <2>2. restarts' \in 1..MaxRestarts
    BY <1>8, PertagAssumption DEF Crash, TypeInv, TypeOK
  <2>3. TypeInv'
    BY <2>1, <2>2, CreatemonStep DEF TypeInv, SavedOK
  <2> QED
    BY <2>2, <2>3 DEF CurrentTagInForce
<1>9. CASE UNCHANGED vars
  BY <1>9 DEF vars, views, TypeInv, TypeOK, SavedOK, CurrentTagInForce, CurtagShown,
              SettingsInForce, Shown
<1> QED
  BY <1>2, <1>3, <1>4, <1>5, <1>6, <1>7, <1>8, <1>9 DEF Next, CommandStep

(* The types, for every number of tags and every history of commands,      *)
(* restarts and crashes: no array of Pertag is indexed beyond its end and  *)
(* no view is empty.                                                       *)
THEOREM TypesHold == Spec => []TypeOK
<1>1. IInv => TypeOK
  BY DEF IInv, TypeInv
<1> QED
  BY <1>1, InitIInv, NextIInv, PTL DEF Spec

(* Until dwm is restarted, curtag is a tag of the view (or 0 for the view  *)
(* of all tags) and its masters, their share, its layouts and its bar are  *)
(* those in force.                                                         *)
THEOREM SettingsFollowView == Spec => []CurrentTagInForce
<1>1. IInv => CurrentTagInForce
  BY DEF IInv
<1> QED
  BY <1>1, InitIInv, NextIInv, PTL DEF Spec

(* A clean restart keeps the view, and of every tag the masters modulo 8,  *)
(* the layout and the bar.                                                 *)
THEOREM RestartIsSeamless == Spec => RestartKeeps
<1> DEFINE Keeps ==
      saved' # saved =>
        /\ tagset'[seltags'] = Shown
        /\ \A i \in Index : LET was == pertag[i]  is == pertag'[i] IN
             /\ is.nmaster = was.nmaster % 8
             /\ is.lt[is.sellt] = was.lt[was.sellt]
             /\ is.showbar = was.showbar
<1>1. IInv /\ [Next]_vars => [Keeps]_vars
  <2> SUFFICES ASSUME TypeInv, Next, saved' # saved
               PROVE  Keeps
    BY SMTT(30) DEF IInv
  <2>1. Restart
    BY DEF Next, ViewTag, ViewAll, ViewPrevious, view, toggleview, incnmaster, setmfact,
           setgaps, setlayout, togglebar, Change, Crash
  <2>2. createmon(Persisted)
    BY <2>1 DEF Restart
  <2>3. Persisted.tags # {} /\ Persisted.tags = Shown
    BY PersistedOK
  <2>4. tagset'[seltags'] = Shown /\ pertag' = Restored(Persisted)
    BY <2>2, <2>3 DEF createmon
  <2> QED
    BY <2>4, PersistedOK, RestoredOK
<1> QED
  BY <1>1, InitIInv, NextIInv, PTL DEF Spec, RestartKeeps
=============================================================================
