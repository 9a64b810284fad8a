------------------------- MODULE StSelectionProofs -------------------------
(***************************************************************************)
(* Proofs about StSelection, for any bounds and every mixture of           *)
(* behaviours: what st highlights, keeps and offers to other windows.      *)
(***************************************************************************)
EXTENDS StSelection, SequenceTheorems, TLAPS

Releases   == [type : {"release"}, fresh : BOOLEAN]
Others     == [type : {"property", "notify"}, atom : Atoms]
Highlights == [on : BOOLEAN, mode : {"idle", "empty", "ready"}]

(* The types of the variables that the owners and the highlight depend on. *)
OwnTypes ==
    /\ sel \in Highlights
    /\ xsel \in [Atoms -> Texts]
    /\ owner \in [Atoms -> {"none", "other", "st"}]
    /\ events \in Seq(Releases \cup Others)

(* A text in the clipboard was copied from a primary selection, and that is *)
(* replaced but never freed: clipcopy finds one when st owns the clipboard. *)
CopiedFromPrimary == xsel["CLIPBOARD"] # "none" => xsel["PRIMARY"] # "none"

OwnInv == OwnTypes /\ CopiedFromPrimary /\ HighlightIsKept /\ OffersHaveText

-----------------------------------------------------------------------------
(* Lemma: a step that leaves the highlight, its text and its owner alone    *)
(* keeps the invariant. *)
LEMMA OwnFrame ==
    ASSUME OwnInv, UNCHANGED <<sel, xsel, owner>>, events' \in Seq(Releases \cup Others)
    PROVE  OwnInv'
  BY DEF OwnInv, OwnTypes, CopiedFromPrimary, HighlightIsKept, Highlighted, OffersHaveText

(* Lemma: in the first state nothing is highlighted, kept or owned by st. *)
LEMMA OwnInit == Init => OwnInv
  BY DEF Init, OwnInv, OwnTypes, Highlights, Texts, NoHighlight, CopiedFromPrimary, HighlightIsKept,
         Highlighted, OffersHaveText, Atoms

-----------------------------------------------------------------------------
(* Lemma: another window takes a selection. *)
LEMMA OwnOtherTakes ==
    ASSUME OwnInv, NEW a \in Atoms, OtherTakes(a)
    PROVE  OwnInv'
<1>1. events' \in Seq(Releases \cup Others)
  <2>1. ASSUME NEW i \in DOMAIN events
        PROVE  events'[i] \in Releases \cup Others
    <3>1. events[i] \in Releases \cup Others
      BY DEF OwnInv, OwnTypes
    <3>2. events'[i] = IF events[i].type = "release" /\ a = "PRIMARY"
                       THEN [events[i] EXCEPT !.fresh = FALSE] ELSE events[i]
      BY DEF OtherTakes
    <3>3. CASE events[i].type = "release"
      <4>1. events[i] \in Releases
        BY <3>1, <3>3 DEF Others
      <4>2. [events[i] EXCEPT !.fresh = FALSE] \in Releases
        BY <4>1 DEF Releases
      <4>. QED  BY <3>1, <3>2, <4>2
    <3>. QED  BY <3>1, <3>2, <3>3
  <2>2. /\ DOMAIN events' = DOMAIN events
        /\ events' = [i \in DOMAIN events' |-> events'[i]]
    BY DEF OtherTakes
  <2>3. Len(events) \in Nat /\ DOMAIN events = 1..Len(events)
    BY DEF OwnInv, OwnTypes
  <2>. QED  BY <2>1, <2>2, <2>3
<1>2. UNCHANGED <<sel, xsel>> /\ owner' = [owner EXCEPT ![a] = "other"]
  BY DEF OtherTakes
<1>. QED
  BY <1>1, <1>2 DEF OwnInv, OwnTypes, CopiedFromPrimary, HighlightIsKept, Highlighted, OffersHaveText, Atoms

(* Lemma: the end of a selection (brelease): what it highlights is kept and *)
(* st owns PRIMARY, or it highlights nothing. *)
LEMMA ReleaseClaims ==
    ASSUME OwnInv, NEW e \in Releases, brelease(e), events' \in Seq(Releases \cup Others)
    PROVE  OwnInv' /\ (Highlighted' => owner'["PRIMARY"] = "st")
<1> DEFINE lit == IF sel.mode = "empty" THEN NoHighlight ELSE [sel EXCEPT !.mode = "idle"]
<1>1. lit \in Highlights /\ NoHighlight \in Highlights /\ ~NoHighlight.on
  BY DEF OwnInv, OwnTypes, Highlights, NoHighlight
<1>2. CASE lit.on
  <2>1. setsel(e.fresh, lit)
    BY <1>2 DEF brelease
  <2> HIDE DEF lit
  <2>2. xsel' = [xsel EXCEPT !.PRIMARY = "lit"]
    BY <2>1 DEF setsel
  <2>3. owner' = owner \/ owner' = [owner EXCEPT !.PRIMARY = "st"]
    BY <2>1 DEF setsel
  <2>4. sel' \in Highlights /\ (owner'["PRIMARY"] # "st" => ~sel'.on)
    BY <2>1, <1>1 DEF setsel
  <2>. QED
    BY <2>2, <2>3, <2>4 DEF OwnInv, OwnTypes, Texts, CopiedFromPrimary, HighlightIsKept, Highlighted,
       OffersHaveText, Atoms
<1>3. CASE ~lit.on
  <2>1. sel' = lit /\ UNCHANGED <<xsel, owner>>
    BY <1>3 DEF brelease
  <2> HIDE DEF lit
  <2>. QED
    BY <1>1, <1>3, <2>1 DEF OwnInv, OwnTypes, CopiedFromPrimary, HighlightIsKept, Highlighted, OffersHaveText
<1>. QED  BY <1>2, <1>3

(* Lemma: st handles a release or an event for selnotify. *)
LEMMA OwnHandle ==
    ASSUME OwnInv, Handle
    PROVE  OwnInv' /\ (~Highlighted /\ Highlighted' => owner'["PRIMARY"] = "st")
<1> DEFINE e == Head(events)
<1>1. events # <<>> /\ events' = Tail(events)
  BY DEF Handle
<1>2. e \in Releases \cup Others /\ events' \in Seq(Releases \cup Others)
  BY <1>1 DEF OwnInv, OwnTypes
<1>3. CASE e.type = "release"
  <2>1. e \in Releases
    BY <1>2, <1>3 DEF Others, Releases
  <2>2. brelease(e)
    BY <1>3 DEF Handle
  <2> HIDE DEF e
  <2>. QED  BY <1>2, <2>1, <2>2, ReleaseClaims
<1>4. CASE e.type # "release"
  <2>1. UNCHANGED <<sel, xsel, owner>>
    BY <1>4 DEF Handle
  <2>. QED  BY <1>2, <2>1, OwnFrame DEF Highlighted
<1>. QED  BY <1>3, <1>4

(* Lemma: the steps that append an event of selnotify or a release. *)
LEMMA OwnAppends ==
    ASSUME OwnInv,
           UserReleases \/ (\E a \in Atoms : Paste(a) \/ OwnerSends(a))
    PROVE  OwnInv' /\ UNCHANGED sel
<1>1. UNCHANGED <<sel, xsel, owner>>
  BY DEF UserReleases, Paste, OwnerSends
<1>2. CASE UserReleases
  <2>1. [type |-> "release", fresh |-> TRUE] \in Releases
    BY DEF Releases
  <2>2. events' = Append(events, [type |-> "release", fresh |-> TRUE])
    BY <1>2 DEF UserReleases, Post
  <2>. QED  BY <1>1, <2>1, <2>2, OwnFrame DEF OwnInv, OwnTypes
<1>3. ASSUME NEW a \in Atoms, OwnerSends(a) \/ Paste(a)
      PROVE  OwnInv'
  <2> DEFINE p == [type |-> "property", atom |-> a]
             n == [type |-> "notify", atom |-> a]
  <2>1. p \in Others /\ n \in Others
    BY DEF Others
  <2>2. \/ events' = events
        \/ events' = Append(events, p)
        \/ events' = Append(events, n)
        \/ events' = Append(Append(events, p), n)
    BY <1>3 DEF OwnerSends, Paste, NewValue, Post
  <2> HIDE DEF p, n
  <2>. QED  BY <1>1, <2>1, <2>2, OwnFrame DEF OwnInv, OwnTypes
<1>. QED  BY <1>1, <1>2, <1>3

(* Lemma: the mouse and the program change what is highlighted, and nothing *)
(* new is highlighted before the release. *)
LEMMA OwnSelects ==
    ASSUME OwnInv, Press \/ Motion \/ TextGone
    PROVE  OwnInv' /\ ~Highlighted'
<1>1. UNCHANGED <<owner, events>> /\ (xsel' = xsel \/ xsel' = Aged(xsel))
  BY DEF Press, Motion, TextGone
<1> DEFINE empty == [on |-> TRUE, mode |-> "empty"]
           ready == [sel EXCEPT !.mode = "ready"]
<1>2. sel' = empty \/ sel' = ready \/ sel' = NoHighlight
  BY DEF Press, Motion, TextGone
<1>3. /\ empty \in Highlights /\ empty.mode = "empty"
      /\ ready \in Highlights /\ ready.mode = "ready"
      /\ NoHighlight \in Highlights /\ ~NoHighlight.on
  BY DEF OwnInv, OwnTypes, Highlights, NoHighlight
<1> HIDE DEF empty, ready
<1>4. sel' \in Highlights /\ ~Highlighted'
  BY <1>2, <1>3 DEF Highlighted
<1>5. xsel' \in [Atoms -> Texts] /\ \A a \in Atoms : xsel'[a] = "none" <=> xsel[a] = "none"
  BY <1>1 DEF Aged, Texts, OwnInv, OwnTypes
<1>. QED
  BY <1>1, <1>4, <1>5 DEF OwnInv, OwnTypes, CopiedFromPrimary, HighlightIsKept, OffersHaveText, Atoms

(* Lemma: each step keeps the invariant, and one that shows a highlight     *)
(* leaves st the owner. *)
LEMMA OwnStep ==
    ASSUME OwnInv, [Next]_svars
    PROVE  OwnInv' /\ (~Highlighted /\ Highlighted' => owner'["PRIMARY"] = "st")
<1>1. CASE UNCHANGED <<sel, xsel, owner, events>>
  BY <1>1, OwnFrame DEF OwnInv, OwnTypes, Highlighted
<1>2. CASE Press \/ Motion \/ TextGone
  BY <1>2, OwnSelects
<1>3. CASE clipcopy
  BY <1>3 DEF clipcopy, clipcopied, OwnInv, OwnTypes, CopiedFromPrimary, HighlightIsKept, Highlighted,
     OffersHaveText, Atoms
<1>4. CASE OSC52
  BY <1>4 DEF OSC52, clipcopied, OwnInv, OwnTypes, Texts, CopiedFromPrimary, HighlightIsKept, Highlighted,
     OffersHaveText, Atoms
<1>5. CASE ReadPiece \/ DeleteAgain \/ xsetmode
  BY <1>1, <1>5 DEF ReadPiece, DeleteAgain, xsetmode
<1>6. ASSUME NEW a \in Atoms, OtherTakes(a)
      PROVE  OwnInv' /\ (~Highlighted /\ Highlighted' => owner'["PRIMARY"] = "st")
  <2>1. UNCHANGED sel
    BY <1>6 DEF OtherTakes
  <2>. QED  BY <1>6, <2>1, OwnOtherTakes DEF Highlighted
<1>7. CASE UserReleases \/ \E a \in Atoms : Paste(a) \/ OwnerSends(a)
  BY <1>7, OwnAppends DEF Highlighted
<1>. QED
  BY <1>1, <1>2, <1>3, <1>4, <1>5, <1>6, <1>7, OwnHandle DEF Next, svars

(* While st shows a highlight and no button is down, the text it keeps for  *)
(* PRIMARY is the highlighted one or one that OSC 52 has set since; a       *)
(* selection that st owns has a text; and a step that shows a highlight     *)
(* leaves st the owner of PRIMARY, whoever claimed it before the release    *)
(* was handled (setsel, clipcopy, xsetsel).                                 *)
THEOREM SelectionsAlwaysAgree == Spec => SelectionsAgree
<1>1. OwnInv => HighlightIsKept /\ OffersHaveText
  BY DEF OwnInv
<1>2. OwnInv /\ [Next]_svars => OwnInv'
  BY OwnStep
<1>3. OwnInv /\ [Next]_svars => [~Highlighted /\ Highlighted' => owner'["PRIMARY"] = "st"]_svars
  BY OwnStep
<1>. QED  BY <1>1, <1>2, <1>3, OwnInit, PTL DEF Spec, SelectionsAgree, Claimed

-----------------------------------------------------------------------------
(* Pasting, as long as no owner sends between the two deletions of a        *)
(* property, no paste begins before the one before it has ended, and no     *)
(* program changes the mode that it depends on.                             *)
Steady == \A use \in SelUses : /\ {"race", "overlap"} \cap use = {}
                               /\ "bracket" \notin use \/ "mode" \notin use

Handled == {"notify", "property"}

(* Of the events of selnotify there is none, or one, which is of a.         *)
NoneIn(q) == \A i \in DOMAIN q : q[i].type \notin Handled
ComingIn(q, kind, a) ==
    \E i \in DOMAIN q : /\ q[i].type = kind /\ q[i].atom = a
                        /\ \A j \in DOMAIN q : q[j].type \in Handled => j = i

(* The answer to a request, and one piece of a transfer.                    *)
Given(a) == \/ prop[a].kind = "text" /\ prop[a].text # <<>> /\ sends[a] = <<>>
            \/ prop[a] = Incr /\ sends[a] # <<>>
SentPiece(a) == /\ prop[a].kind = "text" /\ Len(prop[a].text) <= 1
                /\ prop[a].text = <<>> <=> sends[a] = <<>>

Doing(step, kind, a) == reading.step = step /\ reading.event = kind /\ reading.atom = a

(* Where a paste from selection a is.                                       *)
Waits(a)      == Free /\ NoneIn(events) /\ prop[a] = Absent /\ (mask <=> sends[a] # <<>>)
Answered(a)   == Free /\ ComingIn(events, "notify", a) /\ ~mask /\ Given(a)
Reads(a)      == /\ Doing("read", "notify", a) /\ NoneIn(events) /\ ~mask /\ Given(a)
                 /\ reading.ofs \in 0..(IF prop[a] = Incr THEN 0 ELSE Len(prop[a].text) - 1)
ReadWhole(a)  == /\ Doing("again", "notify", a) /\ NoneIn(events) /\ ~mask
                 /\ prop[a].kind = "text" /\ sends[a] = <<>>
Accepts(a)    == /\ Doing("again", "notify", a) /\ NoneIn(events) /\ mask
                 /\ prop[a] = Absent /\ sends[a] # <<>>
PieceComes(a) == Free /\ ComingIn(events, "property", a) /\ mask /\ SentPiece(a)
ReadsPiece(a) == /\ Doing("read", "property", a) /\ NoneIn(events) /\ mask /\ SentPiece(a)
                 /\ reading.ofs = 0
PieceRead(a)  == /\ Doing("again", "property", a) /\ NoneIn(events) /\ (mask <=> sends[a] # <<>>)
                 /\ prop[a].kind = "text"

Phase(a) == \/ Waits(a) \/ Answered(a) \/ Reads(a) \/ ReadWhole(a) \/ Accepts(a)
            \/ PieceComes(a) \/ ReadsPiece(a) \/ PieceRead(a)

(* How much of a's property has been read.                                  *)
Taken(a) == IF reading.atom # a THEN 0 ELSE IF reading.step = "read" THEN reading.ofs ELSE Len(prop[a].text)

(* After m pieces, the last k of them from text, the rest of text and what  *)
(* the owner has in s, with a 0 for the end, go on counting up to n.        *)
Counting(m, k, text, s, n) ==
    /\ \A i \in 1..Len(text) : text[i] = m - k + i
    /\ \A i \in 1..Len(s) : s[i] = IF i = Len(s) THEN 0 ELSE m - k + Len(text) + i
    /\ n = m - k + Len(text) + (IF s = <<>> THEN 0 ELSE Len(s) - 1)

(* The only paste there is.                                                 *)
Active(a) ==
    /\ Phase(a)
    /\ \A b \in Atoms \ {a} : prop[b] = Absent /\ sends[b] = <<>>
    /\ Counting(Len(out.data), Taken(a), prop[a].text, sends[a], Len(pasted))

Values   == {v \in [kind : {"absent", "INCR", "text"}, text : Seq(Nat)] : v.kind # "text" => v.text = <<>>}
Readings == [step : {"idle", "read", "again"}, event : {"none"} \cup Handled,
             atom : {"none"} \cup Atoms, ofs : Nat]

PasteTypes ==
    /\ prop \in [Atoms -> Values] /\ sends \in [Atoms -> Seq(Nat)]
    /\ mask \in BOOLEAN /\ suses \in SelUses
    /\ reading \in Readings
    /\ pasted \in Seq(Nat) /\ out.data \in Seq(Nat)

Brackets ==
    Does("bracket") => /\ brckt /\ ~out.wrong
                       /\ out.inside <=> reading.step = "read" /\ reading.ofs > 0

(* The pieces are numbered in the order in which they were asked for.       *)
Numbered == /\ \A i \in 1..Len(pasted) : pasted[i] = i
            /\ \A i \in 1..Len(out.data) : out.data[i] = i

PasteInv == PasteTypes /\ Brackets /\ Numbered /\ \E a \in Atoms : Active(a)

(* What the invariant depends on beside the queue of events.                *)
pasteVars == <<suses, mask, prop, sends, reading, brckt, pasted, out>>

-----------------------------------------------------------------------------
(* Lemma: an event that is not for selnotify changes nothing when it comes. *)
LEMMA AppendOther ==
    ASSUME NEW q \in Seq(Releases \cup Others), NEW e \in Releases \cup Others, e.type \notin Handled
    PROVE  /\ NoneIn(q) => NoneIn(Append(q, e))
           /\ \A kind \in Handled, a \in Atoms : ComingIn(q, kind, a) => ComingIn(Append(q, e), kind, a)
<1> DEFINE r == Append(q, e)
<1>1. /\ DOMAIN r = 1..(Len(q) + 1) /\ DOMAIN q = 1..Len(q) /\ Len(q) \in Nat
      /\ \A i \in 1..Len(q) : r[i] = q[i]
      /\ r[Len(q) + 1] = e
  OBVIOUS
<1> HIDE DEF r
<1>2. \A j \in DOMAIN r : r[j].type \in Handled => j \in DOMAIN q /\ r[j] = q[j]
  BY <1>1
<1>3. \A j \in DOMAIN q : j \in DOMAIN r /\ r[j] = q[j]
  BY <1>1
<1>4. NoneIn(q) => NoneIn(r)
  BY <1>2 DEF NoneIn
<1>5. \A kind \in Handled, a \in Atoms : ComingIn(q, kind, a) => ComingIn(r, kind, a)
  BY <1>2, <1>3 DEF ComingIn
<1>. QED  BY <1>4, <1>5 DEF r

(* Lemma: nor when it is taken. *)
LEMMA TailOther ==
    ASSUME NEW q \in Seq(Releases \cup Others), q # <<>>, Head(q).type \notin Handled
    PROVE  /\ NoneIn(q) => NoneIn(Tail(q))
           /\ \A kind \in Handled, a \in Atoms : ComingIn(q, kind, a) => ComingIn(Tail(q), kind, a)
<1> DEFINE r == Tail(q)
<1>1. /\ DOMAIN r = 1..(Len(q) - 1) /\ DOMAIN q = 1..Len(q) /\ Len(q) \in Nat /\ Head(q) = q[1]
      /\ \A i \in 1..(Len(q) - 1) : r[i] = q[i + 1]
  OBVIOUS
<1> HIDE DEF r
<1>0. \A i \in DOMAIN r : i + 1 \in DOMAIN q /\ r[i] = q[i + 1]
  BY <1>1
<1>2. NoneIn(q) => NoneIn(r)
  BY <1>1 DEF NoneIn
<1>3. ASSUME NEW kind \in Handled, NEW a \in Atoms, ComingIn(q, kind, a) PROVE ComingIn(r, kind, a)
  <2>1. PICK i \in DOMAIN q : /\ q[i].type = kind /\ q[i].atom = a
                              /\ \A j \in DOMAIN q : q[j].type \in Handled => j = i
    BY <1>3 DEF ComingIn
  <2>2. i - 1 \in DOMAIN r /\ r[i - 1] = q[i]
    BY <1>1, <2>1
  <2>3. \A j \in DOMAIN r : r[j].type \in Handled => j = i - 1
    <3> TAKE j \in DOMAIN r
    <3>1. r[j].type \in Handled => j + 1 = i
      BY <1>0, <2>1
    <3>. QED  BY <1>1, <3>1
  <2>. QED  BY <2>1, <2>2, <2>3 DEF ComingIn
<1>. QED  BY <1>2, <1>3 DEF r

(* Lemma: selnotify takes the only event there is for it. *)
LEMMA TailHandled ==
    ASSUME NEW q \in Seq(Releases \cup Others), q # <<>>, Head(q).type \in Handled
    PROVE  /\ ~NoneIn(q)
           /\ \A kind \in Handled, a \in Atoms :
                 ComingIn(q, kind, a) => Head(q).type = kind /\ Head(q).atom = a /\ NoneIn(Tail(q))
<1> DEFINE r == Tail(q)
<1>1. /\ DOMAIN r = 1..(Len(q) - 1) /\ DOMAIN q = 1..Len(q) /\ Len(q) \in Nat \ {0} /\ Head(q) = q[1]
      /\ \A i \in 1..(Len(q) - 1) : r[i] = q[i + 1]
  OBVIOUS
<1> HIDE DEF r
<1>0. \A i \in DOMAIN r : i + 1 \in DOMAIN q /\ r[i] = q[i + 1]
  BY <1>1
<1>2. ~NoneIn(q)
  BY <1>1 DEF NoneIn
<1>3. ASSUME NEW kind \in Handled, NEW a \in Atoms, ComingIn(q, kind, a)
      PROVE  Head(q).type = kind /\ Head(q).atom = a /\ NoneIn(r)
  <2>1. PICK i \in DOMAIN q : /\ q[i].type = kind /\ q[i].atom = a
                              /\ \A j \in DOMAIN q : q[j].type \in Handled => j = i
    BY <1>3 DEF ComingIn
  <2>2. i = 1
    BY <1>1, <2>1
  <2>3. \A j \in DOMAIN r : r[j].type \notin Handled
    <3> TAKE j \in DOMAIN r
    <3>1. j + 1 # i
      BY <1>1, <2>2
    <3>. QED  BY <1>0, <2>1, <3>1
  <2>. QED  BY <1>1, <2>1, <2>2, <2>3 DEF NoneIn
<1>. QED  BY <1>2, <1>3 DEF r

(* Lemma: when there is none, one that comes is the only one. *)
LEMMA AppendHandled ==
    ASSUME NEW q \in Seq(Releases \cup Others), NoneIn(q), NEW kind \in Handled, NEW a \in Atoms
    PROVE  ComingIn(Append(q, [type |-> kind, atom |-> a]), kind, a)
<1> DEFINE e == [type |-> kind, atom |-> a]
           r == Append(q, e)
<1>1. /\ DOMAIN r = 1..(Len(q) + 1) /\ DOMAIN q = 1..Len(q) /\ Len(q) \in Nat
      /\ \A i \in 1..Len(q) : r[i] = q[i]
      /\ r[Len(q) + 1] = e /\ e.type = kind /\ e.atom = a
  OBVIOUS
<1> HIDE DEF r, e
<1>2. \A j \in DOMAIN r : r[j].type \in Handled => j = Len(q) + 1
  BY <1>1 DEF NoneIn
<1>. QED  BY <1>1, <1>2 DEF ComingIn, r, e

(* Lemma: nor when events of other windows change. *)
LEMMA ReplaceOthers ==
    ASSUME NEW q, NEW r, DOMAIN r = DOMAIN q,
           \A i \in DOMAIN q : r[i].type = q[i].type /\ (q[i].type \in Handled => r[i] = q[i])
    PROVE  /\ NoneIn(q) => NoneIn(r)
           /\ \A kind \in Handled, a \in Atoms : ComingIn(q, kind, a) => ComingIn(r, kind, a)
  BY DEF NoneIn, ComingIn

(* Lemma: a step that leaves the paste alone and the events of selnotify    *)
(* where they are keeps the invariant. *)
LEMMA PasteFrame ==
    ASSUME PasteInv, UNCHANGED pasteVars,
           NoneIn(events) => NoneIn(events'),
           \A kind \in Handled, a \in Atoms : ComingIn(events, kind, a) => ComingIn(events', kind, a)
    PROVE  PasteInv'
<1>1. PICK a \in Atoms : Active(a)
  BY DEF PasteInv
<1>2. PasteTypes' /\ Brackets' /\ Numbered'
  BY DEF PasteInv, PasteTypes, Brackets, Numbered, pasteVars, Does
<1>3. Phase(a)'
  BY <1>1 DEF Active, Phase, Waits, Answered, Reads, ReadWhole, Accepts, PieceComes, ReadsPiece,
     PieceRead, pasteVars, Free, Doing, Given, SentPiece, Handled
<1>4. Active(a)'
  BY <1>1, <1>3 DEF Active, pasteVars, Taken
<1>. QED  BY <1>2, <1>4 DEF PasteInv

(* Lemma: in the first state there is no paste. *)
LEMMA PasteInit == Init => PasteInv
<1> SUFFICES ASSUME Init PROVE PasteInv
  OBVIOUS
<1>1. PasteTypes
  <2>1. Idle \in Readings /\ Absent \in Values
    BY DEF Values, Readings, Absent, Idle, Handled
  <2>2. suses \in SelUses /\ mask = FALSE /\ reading = Idle /\ pasted = <<>>
    BY Zenon DEF Init
  <2>3. prop \in [Atoms -> Values] /\ sends \in [Atoms -> Seq(Nat)]
    BY <2>1 DEF Init
  <2>4. out.data \in Seq(Nat)
    BY DEF Init
  <2>5. <<>> \in Seq(Nat)
    OBVIOUS
  <2>. QED  BY <2>1, <2>2, <2>3, <2>4, <2>5 DEF PasteTypes
<1>2. Brackets
  <2>1. reading.step # "read" /\ ~out.inside /\ ~out.wrong
    BY DEF Init, Idle
  <2>. QED  BY <2>1 DEF Init, Brackets
<1>4. Numbered
  BY DEF Init, Numbered
<1>3. Active("PRIMARY")
  <2>1. Phase("PRIMARY")
    BY DEF Init, Phase, Waits, Free, NoneIn, Atoms
  <2>2. Counting(0, 0, <<>>, <<>>, 0)
    BY DEF Counting
  <2>3. Taken("PRIMARY") = 0 /\ prop["PRIMARY"].text = <<>> /\ sends["PRIMARY"] = <<>> /\ Len(out.data) = 0
        /\ Len(pasted) = 0
    BY DEF Init, Taken, Idle, Absent, Atoms
  <2>4. \A b \in Atoms : prop[b] = Absent /\ sends[b] = <<>>
    BY DEF Init
  <2>. QED  BY <2>1, <2>2, <2>3, <2>4 DEF Active
<1>. QED  BY <1>1, <1>2, <1>3, <1>4 DEF PasteInv, Atoms

(* Lemma: the steps that have nothing to do with pasting. *)
LEMMA PasteOthers ==
    ASSUME OwnInv, PasteInv,
           \/ Press \/ Motion \/ TextGone \/ UserReleases \/ clipcopy \/ OSC52 \/ \E a \in Atoms : OtherTakes(a)
           \/ Handle /\ Head(events).type \notin Handled
    PROVE  PasteInv'
<1>1. events \in Seq(Releases \cup Others)
  BY DEF OwnInv, OwnTypes
<1>2. CASE Press \/ Motion \/ TextGone \/ clipcopy \/ OSC52
  BY <1>2, PasteFrame DEF Press, Motion, TextGone, clipcopy, OSC52, pasteVars
<1>3. CASE UserReleases
  <2> DEFINE e == [type |-> "release", fresh |-> TRUE]
  <2>1. e \in Releases \cup Others /\ e.type \notin Handled
    BY DEF Releases, Handled
  <2>2. UNCHANGED pasteVars /\ events' = Append(events, e)
    BY <1>3 DEF UserReleases, Post, pasteVars
  <2> HIDE DEF e
  <2>. QED  BY <1>1, <2>1, <2>2, AppendOther, PasteFrame
<1>4. ASSUME NEW b \in Atoms, OtherTakes(b) PROVE PasteInv'
  <2> DEFINE old == [i \in DOMAIN events |->
                        IF events[i].type = "release" /\ b = "PRIMARY"
                        THEN [events[i] EXCEPT !.fresh = FALSE] ELSE events[i]]
  <2>1. UNCHANGED pasteVars /\ events' = old
    BY <1>4 DEF OtherTakes, pasteVars
  <2>3. DOMAIN old = DOMAIN events
    OBVIOUS
  <2>4. ASSUME NEW i \in DOMAIN events
        PROVE  old[i].type = events[i].type /\ (events[i].type \in Handled => old[i] = events[i])
    <3>1. CASE events[i].type = "release"
      <4>1. events[i] \in Releases
        BY <1>1, <3>1 DEF Others
      <4>2. [events[i] EXCEPT !.fresh = FALSE].type = events[i].type
        BY <4>1 DEF Releases
      <4>. QED  BY <3>1, <4>2 DEF Handled
    <3>2. CASE events[i].type # "release"
      BY <3>2
    <3>. QED  BY <3>1, <3>2
  <2> HIDE DEF old
  <2>6. /\ NoneIn(events) => NoneIn(old)
        /\ \A kind \in Handled, a \in Atoms : ComingIn(events, kind, a) => ComingIn(old, kind, a)
    BY <2>3, <2>4, ReplaceOthers, Zenon
  <2>. QED  BY <2>1, <2>6, PasteFrame
<1>5. CASE Handle /\ Head(events).type \notin Handled
  <2>1. UNCHANGED pasteVars /\ events # <<>> /\ events' = Tail(events)
    BY <1>5 DEF Handle, pasteVars, Handled, OwnInv, OwnTypes, Releases, Others
  <2>. QED  BY <1>1, <1>5, <2>1, TailOther, PasteFrame
<1>. QED  BY <1>2, <1>3, <1>4, <1>5

(* Lemma: st begins to read what an event says has come. *)
LEMMA PasteHandle ==
    ASSUME OwnInv, PasteInv, Handle, Head(events).type \in Handled
    PROVE  PasteInv'
<1> DEFINE e == Head(events)
<1>1. PICK a \in Atoms : Active(a)
  BY DEF PasteInv
<1>2. /\ Free /\ events # <<>> /\ events' = Tail(events)
      /\ reading' = [step |-> "read", event |-> e.type, atom |-> e.atom, ofs |-> 0]
      /\ UNCHANGED <<suses, mask, prop, sends, brckt, pasted, out>>
  BY DEF Handle, Notified, Handled
<1>3. /\ ~NoneIn(events)
      /\ \A kind \in Handled, b \in Atoms :
            ComingIn(events, kind, b) => e.type = kind /\ e.atom = b /\ NoneIn(events')
  BY <1>2, TailHandled, Zenon DEF OwnInv, OwnTypes
<1> HIDE DEF e
<1>4. reading = Idle /\ reading.step = "idle" /\ reading.atom \notin Atoms
  BY <1>2 DEF Free, Idle, Atoms
<1>5. Answered(a) \/ PieceComes(a)
  BY <1>1, <1>3, <1>4 DEF Active, Phase, Waits, Answered, Reads, ReadWhole, Accepts, PieceComes, ReadsPiece,
     PieceRead, Doing
<1>6. /\ e.atom = a /\ NoneIn(events') /\ e.type \in Handled
      /\ Answered(a) => e.type = "notify"
      /\ PieceComes(a) => e.type = "property"
  BY <1>3, <1>5 DEF Answered, PieceComes, Handled
<1>7. Phase(a)'
  <2>1. CASE Answered(a)
    <3>1. Given(a) /\ ~mask
      BY <2>1 DEF Answered
    <3>2. 0 \in 0..(IF prop[a] = Incr THEN 0 ELSE Len(prop[a].text) - 1)
      BY <3>1 DEF Given, PasteInv, PasteTypes, Values
    <3>3. Reads(a)'
      BY <1>2, <1>6, <2>1, <3>1, <3>2 DEF Reads, Doing, Given
    <3>. QED  BY <3>3 DEF Phase
  <2>2. CASE PieceComes(a)
    <3>1. ReadsPiece(a)'
      BY <1>2, <1>6, <2>2 DEF PieceComes, ReadsPiece, Doing, SentPiece
    <3>. QED  BY <3>1 DEF Phase
  <2>. QED  BY <1>5, <2>1, <2>2
<1>8. Taken(a) = 0 /\ Taken(a)' = 0
  BY <1>2, <1>4, <1>6 DEF Taken
<1>9. Active(a)'
  <2>1. Counting(Len(out'.data), 0, prop'[a].text, sends'[a], Len(pasted'))
    BY <1>1, <1>2, <1>8 DEF Active
  <2>. QED  BY <1>1, <1>2, <1>7, <1>8, <2>1 DEF Active
<1>10. PasteTypes'
  BY <1>2, <1>6 DEF PasteInv, PasteTypes, Readings
<1>11. Brackets' /\ Numbered'
  BY <1>2, <1>4 DEF PasteInv, Brackets, Numbered, Does
<1>. QED  BY <1>9, <1>10, <1>11 DEF PasteInv

(* Lemma: an empty sequence is one without elements. *)
LEMMA EmptyHasNone == ASSUME NEW S, NEW q \in Seq(S) PROVE q = <<>> <=> Len(q) = 0
  OBVIOUS

(* Lemma: what is asked for goes on counting, whether it is sent whole or in *)
(* pieces. *)
LEMMA CountingBegins ==
    ASSUME NEW p \in Seq(Nat), \A i \in 1..Len(p) : p[i] = i, NEW n \in Nat \ {0},
           NEW text, text = Numbers(Len(p) + 1, Len(p) + n)
    PROVE  /\ text \in Seq(Nat) /\ Len(text) = n /\ text # <<>>
           /\ Append(text, 0) \in Seq(Nat) /\ Append(text, 0) # <<>>
           /\ p \o text \in Seq(Nat) /\ \A i \in 1..Len(p \o text) : (p \o text)[i] = i
           /\ Counting(Len(p), 0, text, <<>>, Len(p \o text))
           /\ Counting(Len(p), 0, <<>>, Append(text, 0), Len(p \o text))
<1> DEFINE m == Len(p)
           both == p \o text
           s == Append(text, 0)
<1>1. m \in Nat
  OBVIOUS
<1>2. text = [i \in 1..n |-> m + i]
  BY <1>1 DEF Numbers
<1>3. text \in Seq(Nat) /\ Len(text) = n /\ \A i \in 1..n : text[i] = m + i
  BY <1>1, <1>2
<1>4. text # <<>>
  BY <1>3
<1>5. both \in Seq(Nat) /\ Len(both) = m + n
      /\ \A i \in 1..(m + n) : both[i] = IF i <= m THEN p[i] ELSE text[i - m]
  <2>1. /\ both \in Seq(Nat) /\ Len(both) = Len(p) + Len(text)
        /\ \A i \in 1..(Len(p) + Len(text)) : both[i] = IF i <= Len(p) THEN p[i] ELSE text[i - Len(p)]
    BY <1>3, ConcatProperties, Zenon
  <2> HIDE DEF both
  <2>. QED  BY <1>3, <2>1
<1>6. s \in Seq(Nat) /\ Len(s) = n + 1 /\ s # <<>> /\ s[n + 1] = 0 /\ \A i \in 1..n : s[i] = m + i
  <2>1. s \in Seq(Nat) /\ Len(s) = Len(text) + 1 /\ s[Len(text) + 1] = 0 /\ \A i \in 1..Len(text) : s[i] = text[i]
    BY <1>3
  <2> HIDE DEF s
  <2>2. s # <<>>
    BY <1>3, <2>1
  <2>. QED  BY <1>3, <2>1, <2>2
<1> HIDE DEF m, both, s
<1>7. ASSUME NEW i \in 1..(m + n) PROVE both[i] = i
  <2>1. CASE i <= m
    <3>1. i \in 1..m
      BY <1>1, <2>1
    <3>. QED  BY <1>5, <2>1, <3>1 DEF m
  <2>2. CASE i > m
    <3>1. i - m \in 1..n
      BY <1>1, <2>2
    <3>2. text[i - m] = m + (i - m)
      BY <1>3, <3>1
    <3>3. both[i] = text[i - m]
      BY <1>1, <1>5, <2>2
    <3>. QED  BY <1>1, <3>2, <3>3
  <2>. QED  BY <1>1, <2>1, <2>2
<1>8. Counting(m, 0, text, <<>>, Len(both))
  <2>1. \A i \in 1..Len(text) : text[i] = m - 0 + i
    BY <1>1, <1>3
  <2>2. \A i \in 1..Len(<<>>) : <<>>[i] = IF i = Len(<<>>) THEN 0 ELSE m - 0 + Len(text) + i
    OBVIOUS
  <2>3. Len(both) = m - 0 + Len(text) + (IF <<>> = <<>> THEN 0 ELSE Len(<<>>) - 1)
    <3>1. (IF <<>> = <<>> THEN 0 ELSE Len(<<>>) - 1) = 0
      OBVIOUS
    <3>2. Len(both) = m - 0 + Len(text) + 0
      <4>1. Len(both) = m + n /\ Len(text) = n /\ n \in Nat
        BY <1>3, <1>5
      <4>. QED  BY <1>1, <4>1
    <3>. QED  BY <3>1, <3>2, Zenon
  <2>. QED  BY <2>1, <2>2, <2>3, Zenon DEF Counting
<1>9. Counting(m, 0, <<>>, s, Len(both))
  <2>1. ASSUME NEW i \in 1..Len(s) PROVE s[i] = IF i = Len(s) THEN 0 ELSE m - 0 + Len(<<>>) + i
    <3>1. CASE i = n + 1
      BY <1>6, <3>1
    <3>2. CASE i # n + 1
      BY <1>1, <1>6, <3>2
    <3>. QED  BY <3>1, <3>2
  <2>2. Len(both) = m - 0 + Len(<<>>) + (IF s = <<>> THEN 0 ELSE Len(s) - 1)
    BY <1>1, <1>5, <1>6
  <2>. QED  BY <2>1, <2>2 DEF Counting
<1>. QED  BY <1>3, <1>4, <1>5, <1>6, <1>7, <1>8, <1>9 DEF m, both, s

(* Lemma: a number more. *)
LEMMA NextNumber ==
    ASSUME NEW d \in Seq(Nat), \A i \in 1..Len(d) : d[i] = i
    PROVE  \A i \in 1..Len(d \o <<Len(d) + 1>>) : (d \o <<Len(d) + 1>>)[i] = i
<1> DEFINE e == d \o <<Len(d) + 1>>
<1>1. Len(d) \in Nat /\ Len(e) = Len(d) + 1 /\ e[Len(d) + 1] = Len(d) + 1
      /\ \A i \in 1..Len(d) : e[i] = d[i]
  OBVIOUS
<1> HIDE DEF e
<1>2. \A i \in 1..Len(e) : i \in 1..Len(d) \/ i = Len(d) + 1
  BY <1>1
<1>3. \A i \in 1..Len(e) : e[i] = i
  BY <1>1, <1>2
<1>. QED  BY <1>3 DEF e

(* What an owner that has s to send puts into the property. *)
NextPiece(s) == IF s[1] = 0 THEN <<>> ELSE <<s[1]>>

(* Lemma: the owner puts its next piece, or the end, into the property. *)
LEMMA CountingSends ==
    ASSUME NEW m \in Nat, NEW n, NEW s \in Seq(Nat), s # <<>>, Counting(m, 0, <<>>, s, n)
    PROVE  /\ NextPiece(s) \in Seq(Nat) /\ Len(NextPiece(s)) <= 1
           /\ (NextPiece(s) = <<>> <=> Tail(s) = <<>>) /\ Tail(s) \in Seq(Nat)
           /\ Counting(m, 0, NextPiece(s), Tail(s), n)
<1> DEFINE l == Len(s)
           r == Tail(s)
           x == NextPiece(s)
<1>0. x = IF s[1] = 0 THEN <<>> ELSE <<s[1]>>
  BY DEF NextPiece
<1>1. l \in Nat /\ l >= 1
  OBVIOUS
<1>2. r \in Seq(Nat) /\ Len(r) = l - 1 /\ \A i \in 1..(l - 1) : r[i] = s[i + 1]
  OBVIOUS
<1>3. Len(s) = l /\ n = m + l - 1 /\ \A i \in 1..l : s[i] = IF i = l THEN 0 ELSE m + i
  BY DEF Counting
<1> HIDE DEF l, r, x
<1>4. r = <<>> <=> l = 1
  BY <1>1, <1>2, EmptyHasNone
<1>5. 1 \in 1..l
  BY <1>1
<1>6. s[1] = IF 1 = l THEN 0 ELSE m + 1
  BY <1>3, <1>5
<1>7. ASSUME NEW i \in 1..(l - 1) PROVE r[i] = IF i = l - 1 THEN 0 ELSE m + 1 + i
  <2>1. i + 1 \in 1..l /\ r[i] = s[i + 1]
    BY <1>1, <1>2
  <2>2. s[i + 1] = IF i + 1 = l THEN 0 ELSE m + (i + 1)
    BY <1>3, <2>1
  <2>3. m + (i + 1) = m + 1 + i /\ (i + 1 = l <=> i = l - 1)
    BY <1>1
  <2>. QED  BY <2>1, <2>2, <2>3
<1>8. CASE l = 1
  <2>1. x = <<>> /\ r = <<>>
    BY <1>0, <1>4, <1>6, <1>8
  <2>2. Counting(m, 0, <<>>, <<>>, n)
    BY <1>3, <1>8 DEF Counting
  <2>3. <<>> \in Seq(Nat) /\ Len(<<>>) <= 1
    OBVIOUS
  <2>. QED  BY <2>1, <2>2, <2>3, Zenon DEF r, x
<1>9. CASE l # 1
  <2>1. s[1] = m + 1 /\ r # <<>>
    BY <1>4, <1>6, <1>9
  <2>2. x = <<m + 1>>
    BY <1>0, <2>1
  <2>3. x \in Seq(Nat) /\ Len(x) = 1 /\ x # <<>> /\ x[1] = m + 1
    <3> DEFINE y == m + 1
    <3>1. y \in Nat
      OBVIOUS
    <3> HIDE DEF y
    <3>2. <<y>> \in Seq(Nat) /\ Len(<<y>>) = 1 /\ <<y>> # <<>> /\ <<y>>[1] = y
      BY <3>1
    <3>. QED  BY <2>2, <3>2, Zenon DEF y
  <2>4. n = m - 0 + Len(x) + (IF r = <<>> THEN 0 ELSE Len(r) - 1)
    BY <1>1, <1>2, <1>3, <2>1, <2>3
  <2>5. \A i \in 1..Len(x) : x[i] = m - 0 + i
    BY <2>3
  <2>6. \A i \in 1..Len(r) : r[i] = IF i = Len(r) THEN 0 ELSE m - 0 + Len(x) + i
    BY <1>2, <1>7, <2>3
  <2>7. Counting(m, 0, x, r, n)
    BY <2>4, <2>5, <2>6 DEF Counting
  <2>. QED  BY <1>2, <2>1, <2>3, <2>7 DEF r, x
<1>. QED  BY <1>8, <1>9

(* Lemma: a piece is read; a property that is read is deleted. *)
LEMMA CountingReads ==
    ASSUME NEW m \in Nat, NEW k \in Nat, NEW text \in Seq(Nat), NEW s \in Seq(Nat), NEW n,
           Counting(m, k, text, s, n)
    PROVE  /\ Counting(m + 1, k + 1, text, s, n)
           /\ k = Len(text) => Counting(m, 0, <<>>, s, n)
<1>1. (m + 1) - (k + 1) = m - k
  OBVIOUS
<1>2. Counting(m + 1, k + 1, text, s, n)
  BY <1>1 DEF Counting
<1>3. ASSUME k = Len(text) PROVE Counting(m, 0, <<>>, s, n)
  <2>1. m - k + Len(text) = m /\ m - 0 + Len(<<>>) = m
    BY <1>3
  <2>2. \A i \in 1..Len(s) : s[i] = IF i = Len(s) THEN 0 ELSE m - 0 + Len(<<>>) + i
    BY <2>1, Zenon DEF Counting
  <2>3. n = m - 0 + Len(<<>>) + (IF s = <<>> THEN 0 ELSE Len(s) - 1)
    BY <2>1, Zenon DEF Counting
  <2>4. \A i \in 1..Len(<<>>) : <<>>[i] = m - 0 + i
    OBVIOUS
  <2>. QED  BY <2>2, <2>3, <2>4, Zenon DEF Counting
<1>. QED  BY <1>2, <1>3

(* Lemma: a paste begins, when there is none: the owner answers. *)
LEMMA PasteBegins ==
    ASSUME OwnInv, PasteInv, Steady, NEW b \in Atoms, Paste(b)
    PROVE  PasteInv'
<1>1. PICK a \in Atoms : Active(a)
  BY DEF PasteInv
<1>2. Quiet
  BY DEF Paste, Steady, Does, PasteInv, PasteTypes
<1>3. /\ reading = Idle /\ reading.step = "idle" /\ reading.atom \notin Atoms
      /\ NoneIn(events) /\ ~ComingIn(events, "notify", a) /\ ~ComingIn(events, "property", a)
  BY <1>2 DEF Quiet, Free, Idle, Atoms, NoneIn, ComingIn
<1>4. Waits(a)
  BY <1>1, <1>3 DEF Active, Phase, Waits, Answered, Reads, ReadWhole, Accepts, PieceComes, ReadsPiece,
     PieceRead, Doing
<1>5. ~mask /\ \A c \in Atoms : prop[c] = Absent /\ sends[c] = <<>>
  BY <1>2, <1>4 DEF Waits, Quiet
<1>6. Len(pasted) = Len(out.data) /\ Len(pasted) \in Nat
  <2>1. Taken(a) = 0 /\ prop[a].text = <<>> /\ sends[a] = <<>>
    BY <1>3, <1>5 DEF Taken, Absent
  <2>2. Counting(Len(out.data), 0, <<>>, <<>>, Len(pasted))
    BY <1>1, <2>1, Zenon DEF Active
  <2>3. Len(out.data) \in Nat /\ Len(pasted) \in Nat
    BY DEF PasteInv, PasteTypes
  <2>. QED  BY <2>2, <2>3 DEF Counting
<1>7. CASE UNCHANGED <<prop, sends, pasted, events>>
  BY <1>7, PasteFrame DEF Paste, pasteVars
<1>8. ASSUME NEW n \in 1..MaxPieces, NEW text, text = Numbers(Len(pasted) + 1, Len(pasted) + n), NEW whole,
             /\ prop' = [prop EXCEPT ![b] = IF whole THEN Holds(text) ELSE Incr]
             /\ sends' = [sends EXCEPT ![b] = IF whole THEN <<>> ELSE Append(text, 0)]
             /\ pasted' = pasted \o text
             /\ events' = Post(NewValue(events, b), [type |-> "notify", atom |-> b])
             /\ UNCHANGED <<suses, mask, reading, brckt, out>>
      PROVE  PasteInv'
  <2>1. n \in Nat \ {0} /\ pasted \in Seq(Nat) /\ \A i \in 1..Len(pasted) : pasted[i] = i
    BY SelectionAssumption DEF PasteInv, PasteTypes, Numbered
  <2>2. /\ text \in Seq(Nat) /\ text # <<>> /\ Append(text, 0) \in Seq(Nat) /\ Append(text, 0) # <<>>
        /\ pasted' \in Seq(Nat) /\ \A i \in 1..Len(pasted') : pasted'[i] = i
        /\ Counting(Len(out'.data), 0, text, <<>>, Len(pasted'))
        /\ Counting(Len(out'.data), 0, <<>>, Append(text, 0), Len(pasted'))
    <3>1. /\ text \in Seq(Nat) /\ text # <<>>
          /\ Append(text, 0) \in Seq(Nat) /\ Append(text, 0) # <<>>
          /\ pasted \o text \in Seq(Nat) /\ \A i \in 1..Len(pasted \o text) : (pasted \o text)[i] = i
          /\ Counting(Len(pasted), 0, text, <<>>, Len(pasted \o text))
          /\ Counting(Len(pasted), 0, <<>>, Append(text, 0), Len(pasted \o text))
      BY <1>8, <2>1, CountingBegins, ZenonT(60)
    <3>2. Len(pasted) = Len(out'.data) /\ pasted \o text = pasted'
      BY <1>6, <1>8
    <3>. QED  BY <3>1, <3>2, Zenon
  <2>4. /\ prop'[b] = IF whole THEN Holds(text) ELSE Incr
        /\ sends'[b] = IF whole THEN <<>> ELSE Append(text, 0)
        /\ \A c \in Atoms \ {b} : prop'[c] = Absent /\ sends'[c] = <<>>
    BY <1>5, <1>8 DEF PasteInv, PasteTypes
  <2>5. Phase(b)'
    <3>1. ComingIn(events', "notify", b)
      BY <1>3, <1>5, <1>8, AppendHandled DEF Post, NewValue, Handled, OwnInv, OwnTypes
    <3>2. Given(b)'
      BY <2>2, <2>4 DEF Given, Holds, Incr
    <3>. QED  BY <1>3, <1>5, <1>8, <3>1, <3>2 DEF Phase, Answered, Free
  <2>6. Taken(b)' = 0
    BY <1>3, <1>8 DEF Taken
  <2>7. Counting(Len(out'.data), 0, prop'[b].text, sends'[b], Len(pasted'))
    <3>1. CASE whole
      <4>1. prop'[b].text = text /\ sends'[b] = <<>>
        BY <2>4, <3>1 DEF Holds
      <4>. QED  BY <2>2, <4>1, Zenon
    <3>2. CASE ~whole
      <4>1. prop'[b].text = <<>> /\ sends'[b] = Append(text, 0)
        BY <2>4, <3>2 DEF Incr
      <4>. QED  BY <2>2, <4>1, Zenon
    <3>. QED  BY <3>1, <3>2
  <2>8. Active(b)'
    BY <2>4, <2>5, <2>6, <2>7, Zenon DEF Active
  <2>9. PasteTypes'
    <3>1. Holds(text) \in Values /\ Incr \in Values /\ <<>> \in Seq(Nat)
      BY <2>2 DEF Holds, Incr, Values
    <3>. QED  BY <1>8, <2>2, <3>1 DEF PasteInv, PasteTypes
  <2>10. Brackets' /\ Numbered'
    BY <1>8, <2>2 DEF PasteInv, Brackets, Numbered, Does
  <2>. QED  BY <2>8, <2>9, <2>10 DEF PasteInv
<1>. QED  BY <1>7, <1>8 DEF Paste

(* Lemma: the owner sends the next piece once the property is gone. *)
LEMMA PasteSends ==
    ASSUME OwnInv, PasteInv, Steady, NEW b \in Atoms, OwnerSends(b)
    PROVE  PasteInv'
<1>1. PICK a \in Atoms : Active(a)
  BY DEF PasteInv
<1>2. /\ a = b /\ sends[a] # <<>> /\ prop[a] = Absent /\ reading.step # "again"
      /\ prop[a].kind = "absent" /\ prop[a] # Incr /\ prop[a].text = <<>>
  BY <1>1 DEF Active, OwnerSends, Steady, Does, PasteInv, PasteTypes, Absent, Incr
<1>3. Waits(a) /\ mask
  BY <1>1, <1>2 DEF Active, Phase, Waits, Answered, Given, Reads, ReadWhole, Accepts, PieceComes, SentPiece,
     ReadsPiece, PieceRead, Doing
<1>4. reading = Idle /\ reading.atom # a /\ reading.step = "idle" /\ NoneIn(events)
  BY <1>3 DEF Waits, Free, Idle, Atoms
<1> DEFINE s == sends[a]
           x == NextPiece(s)
<1>5. s \in Seq(Nat) /\ s # <<>> /\ Len(out.data) \in Nat
  BY <1>2 DEF PasteInv, PasteTypes
<1>6. Counting(Len(out.data), 0, <<>>, s, Len(pasted))
  <2>1. Taken(a) = 0
    BY <1>4 DEF Taken
  <2>. QED  BY <1>1, <1>2, <2>1 DEF Active
<1>7. /\ x \in Seq(Nat) /\ Len(x) <= 1 /\ (x = <<>> <=> Tail(s) = <<>>) /\ Tail(s) \in Seq(Nat)
      /\ Counting(Len(out.data), 0, x, Tail(s), Len(pasted))
  <2> DEFINE m == Len(out.data)
             n == Len(pasted)
  <2>1. m \in Nat /\ s \in Seq(Nat) /\ s # <<>> /\ Counting(m, 0, <<>>, s, n)
    BY <1>5, <1>6, Zenon
  <2> HIDE DEF s, m, n
  <2>2. /\ x \in Seq(Nat) /\ Len(x) <= 1 /\ (x = <<>> <=> Tail(s) = <<>>) /\ Tail(s) \in Seq(Nat)
        /\ Counting(m, 0, x, Tail(s), n)
    BY <2>1, CountingSends, Zenon
  <2>. QED  BY <2>2, Zenon DEF m, n
<1>8. /\ prop' = [prop EXCEPT ![a] = Holds(x)] /\ sends' = [sends EXCEPT ![a] = Tail(s)]
      /\ events' = Append(events, [type |-> "property", atom |-> a])
      /\ UNCHANGED <<suses, mask, reading, brckt, pasted, out>>
  BY <1>2, <1>3 DEF OwnerSends, NewValue, Post, NextPiece
<1> HIDE DEF x
<1>9. /\ prop'[a].kind = "text" /\ prop'[a].text = x /\ sends'[a] = Tail(s)
      /\ \A c \in Atoms \ {a} : prop'[c] = Absent /\ sends'[c] = <<>>
  BY <1>1, <1>8 DEF Active, Holds, PasteInv, PasteTypes
<1> HIDE DEF s
<1>10. Phase(a)'
  <2>1. ComingIn(events', "property", a)
    BY <1>4, <1>8, AppendHandled DEF Handled, OwnInv, OwnTypes
  <2>2. SentPiece(a)'
    BY <1>7, <1>9 DEF SentPiece
  <2>. QED  BY <1>3, <1>4, <1>8, <2>1, <2>2 DEF Phase, PieceComes, Free
<1>11. Taken(a)' = 0
  BY <1>4, <1>8 DEF Taken
<1>12. Counting(Len(out'.data), 0, prop'[a].text, sends'[a], Len(pasted'))
  <2>1. out' = out /\ pasted' = pasted
    BY <1>8
  <2>. QED  BY <1>7, <1>9, <2>1, Zenon
<1>13. Active(a)'
  BY <1>9, <1>10, <1>11, <1>12, Zenon DEF Active
<1>14. PasteTypes'
  <2>1. Holds(x) \in Values
    BY <1>7 DEF Holds, Values
  <2>. QED  BY <1>7, <1>8, <2>1 DEF PasteInv, PasteTypes
<1>15. Brackets' /\ Numbered'
  BY <1>8 DEF PasteInv, Brackets, Numbered, Does
<1>. QED  BY <1>13, <1>14, <1>15 DEF PasteInv

(* Lemma: one turn of the loop of selnotify. *)
LEMMA PasteReads ==
    ASSUME PasteInv, ReadPiece
    PROVE  PasteInv'
<1>1. PICK a \in Atoms : Active(a)
  BY DEF PasteInv
<1>2. reading.step = "read" /\ reading \in Readings
  BY DEF ReadPiece, PasteInv, PasteTypes
<1>3. Reads(a) \/ ReadsPiece(a)
  BY <1>1, <1>2 DEF Active, Phase, Waits, Answered, ReadWhole, Accepts, PieceComes, PieceRead, Doing, Free, Idle
<1>4. reading.atom = a /\ NoneIn(events)
  BY <1>3 DEF Reads, ReadsPiece, Doing
<1> DEFINE text == prop[a].text
           k    == reading.ofs
           again == [reading EXCEPT !.step = "again"]
           onward == [reading EXCEPT !.ofs = k + 1]
<1>5. /\ text \in Seq(Nat) /\ sends[a] \in Seq(Nat) /\ k \in Nat /\ out.data \in Seq(Nat)
      /\ Len(out.data) \in Nat /\ pasted \in Seq(Nat)
  BY <1>2 DEF PasteInv, PasteTypes, Values, Readings
<1>6. /\ again \in Readings /\ again.step = "again" /\ again.atom = a /\ again.event = reading.event
      /\ onward \in Readings /\ onward.step = "read" /\ onward.atom = a /\ onward.event = reading.event
      /\ onward.ofs = k + 1
  BY <1>2, <1>4 DEF Readings
<1>7. Counting(Len(out.data), k, text, sends[a], Len(pasted))
  <2>1. Taken(a) = k
    BY <1>2, <1>4 DEF Taken
  <2>. QED  BY <1>1, <2>1, Zenon DEF Active
<1>8. UNCHANGED <<suses, events, sends, brckt, pasted>>
  BY DEF ReadPiece
<1>9. \A b \in Atoms \ {a} : prop[b] = Absent /\ sends[b] = <<>>
  BY <1>1 DEF Active
<1> HIDE DEF again, onward, k, text
<1>10. CASE prop[a] = Incr
  <2>1. Reads(a) /\ ~mask /\ sends[a] # <<>> /\ k = 0 /\ text = <<>> /\ reading.event = "notify"
    BY <1>3, <1>10 DEF Reads, ReadsPiece, Doing, SentPiece, Given, Incr, k, text
  <2>2. mask' = TRUE /\ prop' = [prop EXCEPT ![a] = Absent] /\ reading' = again /\ out' = out
    BY <1>4, <1>10 DEF ReadPiece, again
  <2>3. prop'[a] = Absent /\ Absent.text = <<>> /\ \A b \in Atoms \ {a} : prop'[b] = Absent /\ sends'[b] = <<>>
    BY <1>8, <1>9, <2>2 DEF PasteInv, PasteTypes, Absent
  <2>4. Phase(a)'
    BY <1>4, <1>6, <1>8, <2>1, <2>2, <2>3 DEF Phase, Accepts, Doing
  <2>5. Taken(a)' = 0
    BY <1>6, <2>2, <2>3 DEF Taken
  <2>6. Counting(Len(out'.data), 0, prop'[a].text, sends'[a], Len(pasted'))
    <3>1. out' = out /\ pasted' = pasted /\ sends' = sends /\ prop'[a].text = <<>>
      BY <1>8, <2>2, <2>3
    <3>. QED  BY <1>7, <2>1, <3>1, Zenon
  <2>7. Active(a)'
    BY <2>3, <2>4, <2>5, <2>6, Zenon DEF Active
  <2>8. PasteTypes'
    <3>1. Absent \in Values
      BY DEF Absent, Values
    <3>. QED  BY <1>6, <1>8, <2>2, <3>1 DEF PasteInv, PasteTypes
  <2>9. Numbered' /\ Brackets'
    BY <1>2, <1>6, <1>8, <2>1, <2>2 DEF PasteInv, Numbered, Brackets, Does, k
  <2>. QED  BY <2>7, <2>8, <2>9 DEF PasteInv
<1>11. CASE prop[a] # Incr
  <2> DEFINE more == Rem(a, k) > 0
  <2>1. /\ mask' = (mask /\ ~Ends(reading)) /\ out' = Got(a, k) /\ prop' = prop
        /\ reading' = IF more THEN onward ELSE again
    BY <1>4, <1>11 DEF ReadPiece, again, onward, k
  <2>2. prop[a].kind = "text"
    BY <1>3, <1>11 DEF Reads, ReadsPiece, Given, SentPiece
  <2>3. /\ reading.event = "notify" => ~mask /\ text # <<>> /\ sends[a] = <<>> /\ k \in 0..(Len(text) - 1)
        /\ reading.event = "property" => mask /\ Len(text) <= 1 /\ (text = <<>> <=> sends[a] = <<>>) /\ k = 0
        /\ reading.event \in Handled
    BY <1>3, <1>11 DEF Reads, ReadsPiece, Doing, Given, SentPiece, Handled, k, text
  <2>4. /\ k < Len(text) => Rem(a, k) = Len(text) - k - 1 /\ Piece(a, k) = <<text[k + 1]>>
        /\ ~(k < Len(text)) => Rem(a, k) = 0 /\ Piece(a, k) = <<>>
    BY DEF Rem, Piece, Value, text
  <2>5. \/ reading.event = "notify" /\ k < Len(text) /\ text # <<>> /\ sends[a] = <<>> /\ ~mask
        \/ reading.event = "property" /\ k = 0 /\ Len(text) = 1 /\ text # <<>> /\ sends[a] # <<>> /\ mask
        \/ reading.event = "property" /\ k = 0 /\ text = <<>> /\ sends[a] = <<>> /\ mask
    <3>1. Len(text) \in Nat /\ (text = <<>> <=> Len(text) = 0)
      BY <1>5, EmptyHasNone
    <3>2. CASE reading.event = "notify"
      BY <1>5, <2>3, <3>1, <3>2
    <3>3. CASE reading.event = "property"
      <4>0. Len(text) <= 1
        BY <2>3, <3>3, Zenon
      <4>1. Len(text) = 0 \/ Len(text) = 1
        <5>1. Len(text) \in Nat
          BY <3>1
        <5> DEFINE l == Len(text)
        <5>2. l \in Nat /\ l <= 1
          BY <4>0, <5>1
        <5> HIDE DEF l
        <5>3. l = 0 \/ l = 1
          BY <5>2
        <5>. QED  BY <5>3 DEF l
      <4>. QED  BY <2>3, <3>1, <3>3, <4>1
    <3>. QED  BY <2>3, <3>2, <3>3 DEF Handled
  <2>6. /\ out'.inside <=> ((out.inside \/ Opens(k)) /\ ~Closes(a, k))
        /\ out'.wrong <=> (out.wrong \/ (out.inside /\ Opens(k)) \/ ~(out.inside \/ Opens(k)))
        /\ out'.data = out.data \o Piece(a, k)
    BY <2>1 DEF Got
  <2>7. CASE reading.event = "notify"
    <3>1. k < Len(text) /\ text # <<>> /\ sends[a] = <<>> /\ ~mask /\ Reads(a)
      BY <1>3, <2>3, <2>5, <2>7 DEF ReadsPiece, Doing
    <3>2. Piece(a, k) = <<text[k + 1]>> /\ Rem(a, k) = Len(text) - k - 1
      BY <2>4, <3>1
    <3>3. ~mask'
      BY <2>1, <3>1
    <3>4. more <=> k + 1 < Len(text)
      BY <1>5, <3>2
    <3>5. prop'[a] = prop[a] /\ sends'[a] = sends[a] /\ pasted' = pasted
      BY <1>8, <2>1
    <3>6. Taken(a)' = k + 1
      <4>1. CASE more
        BY <1>6, <2>1, <4>1 DEF Taken
      <4>2. CASE ~more
        <5>1. k + 1 = Len(text)
          BY <1>5, <3>1, <3>4, <4>2
        <5>. QED  BY <1>6, <2>1, <3>5, <4>2, <5>1 DEF Taken, text
      <4>. QED  BY <4>1, <4>2
    <3>7. Phase(a)'
      <4>1. CASE more
        <5>1. k + 1 \in 0..(Len(text) - 1)
          BY <1>5, <3>4, <4>1
        <5>2. Reads(a)'
          BY <1>4, <1>6, <1>8, <1>11, <2>1, <2>2, <2>7, <3>1, <3>3, <3>5, <4>1, <5>1
             DEF Reads, Doing, Given, Incr, text
        <5>. QED  BY <5>2 DEF Phase
      <4>2. CASE ~more
        <5>1. ReadWhole(a)'
          BY <1>4, <1>6, <1>8, <2>1, <2>2, <2>7, <3>1, <3>3, <3>5, <4>2 DEF ReadWhole, Doing
        <5>. QED  BY <5>1 DEF Phase
      <4>. QED  BY <4>1, <4>2
    <3>8. Counting(Len(out'.data), k + 1, text, sends[a], Len(pasted))
      <4>1. Len(out'.data) = Len(out.data) + 1
        BY <1>5, <2>6, <3>1, <3>2
      <4>2. Counting(Len(out.data) + 1, k + 1, text, sends[a], Len(pasted))
        BY <1>5, <1>7, CountingReads, Zenon
      <4>. QED  BY <4>1, <4>2, Zenon
    <3>9. Active(a)'
      <4>1. \A b \in Atoms \ {a} : prop'[b] = Absent /\ sends'[b] = <<>>
        BY <1>8, <1>9, <2>1
      <4>2. prop'[a].text = text
        BY <3>5 DEF text
      <4>. QED  BY <3>5, <3>6, <3>7, <3>8, <4>1, <4>2, Zenon DEF Active
    <3>10. Numbered'
      <4>1. text[k + 1] = Len(out.data) + 1 /\ Len(out.data) \in Nat
        <5>1. k + 1 \in 1..Len(text)
          BY <1>5, <3>1
        <5>2. text[k + 1] = Len(out.data) - k + (k + 1)
          BY <1>7, <5>1 DEF Counting
        <5>3. Len(out.data) \in Nat /\ k \in Nat
          BY <1>5
        <5>4. Len(out.data) - k + (k + 1) = Len(out.data) + 1
          <6>1. \A m, l \in Nat : m - l + (l + 1) = m + 1
            OBVIOUS
          <6>. QED  BY <5>3, <6>1, Zenon
        <5>. QED  BY <5>2, <5>3, <5>4, Zenon
      <4>2. \A i \in 1..Len(out.data) : out.data[i] = i
        BY DEF PasteInv, Numbered
      <4>3. out'.data = out.data \o <<Len(out.data) + 1>>
        BY <2>6, <3>2, <4>1
      <4>4. \A i \in 1..Len(out.data \o <<Len(out.data) + 1>>) : (out.data \o <<Len(out.data) + 1>>)[i] = i
        BY <1>5, <4>2, NextNumber, Zenon
      <4>. QED  BY <1>8, <4>3, <4>4 DEF Numbered, PasteInv
    <3>11. PasteTypes'
      <4>1. <<text[k + 1]>> \in Seq(Nat)
        BY <1>5, <3>1
      <4>2. out'.data \in Seq(Nat)
        BY <1>5, <2>6, <3>2, <4>1
      <4>3. mask' \in BOOLEAN /\ reading' \in Readings
        BY <1>6, <2>1, <3>3
      <4>. QED  BY <1>8, <2>1, <4>2, <4>3 DEF PasteInv, PasteTypes
    <3>12. Brackets'
      <4> SUFFICES ASSUME Does("bracket")
                   PROVE  brckt' /\ ~out'.wrong /\ (out'.inside <=> reading'.step = "read" /\ reading'.ofs > 0)
        BY <1>8 DEF Brackets, Does
      <4>1. brckt /\ ~out.wrong /\ (out.inside <=> k > 0)
        BY <1>2 DEF PasteInv, Brackets, k
      <4>2. Opens(k) <=> k = 0
        BY <4>1 DEF Opens
      <4>3. out.inside \/ Opens(k)
        BY <1>5, <4>1, <4>2
      <4>4. ~out'.wrong
        BY <2>6, <4>1, <4>2, <4>3
      <4>5. out'.inside <=> more
        <5>1. more <=> Rem(a, k) # 0
          BY <1>5, <3>1, <3>2
        <5>2. Closes(a, k) <=> Rem(a, k) = 0
          BY <4>1 DEF Closes
        <5>. QED  BY <2>6, <4>3, <5>1, <5>2, Zenon
      <4>6. more <=> reading'.step = "read" /\ reading'.ofs > 0
        BY <1>5, <1>6, <2>1
      <4>. QED  BY <1>8, <4>1, <4>4, <4>5, <4>6
    <3>. QED  BY <3>9, <3>10, <3>11, <3>12 DEF PasteInv
  <2>8. CASE reading.event = "property"
    <3>1. k = 0 /\ mask /\ (text = <<>> <=> sends[a] = <<>>) /\ Len(text) <= 1
      BY <2>3, <2>8, Zenon
    <3>2. Len(text) \in Nat /\ (text = <<>> <=> Len(text) = 0)
      BY <1>5, EmptyHasNone
    <3>3. Rem(a, k) = 0
      BY <2>4, <3>1, <3>2
    <3>4. /\ text = <<>> => Piece(a, k) = <<>>
          /\ text # <<>> => Piece(a, k) = <<text[1]>> /\ Len(text) = 1
      BY <2>4, <3>1, <3>2, SMTT(30)
    <3>5. Ends(reading) <=> text = <<>>
      BY <1>4, <2>8, <3>3, <3>4 DEF Ends, k
    <3>6. reading' = again /\ mask' \in BOOLEAN /\ (mask' <=> sends[a] # <<>>)
      <4>1. reading' = again
        BY <2>1, <3>3
      <4>2. mask' = (mask /\ ~Ends(reading))
        BY <2>1
      <4>3. (mask /\ ~Ends(reading)) <=> text # <<>>
        BY <3>1, <3>5, Zenon
      <4>. QED  BY <3>1, <4>1, <4>2, <4>3
    <3>7. prop'[a] = prop[a] /\ sends'[a] = sends[a] /\ pasted' = pasted /\ prop'[a].text = text
      BY <1>8, <2>1 DEF text
    <3>8. Phase(a)'
      BY <1>4, <1>6, <1>8, <2>2, <2>8, <3>6, <3>7 DEF Phase, PieceRead, Doing
    <3>9. Taken(a)' = Len(text)
      BY <1>6, <3>6, <3>7 DEF Taken
    <3>10. /\ Counting(Len(out'.data), Len(text), text, sends[a], Len(pasted))
           /\ out'.data \in Seq(Nat) /\ \A i \in 1..Len(out'.data) : out'.data[i] = i
      <4>1. Counting(Len(out.data), 0, text, sends[a], Len(pasted))
        BY <1>7, <3>1, Zenon
      <4>2. \A i \in 1..Len(out.data) : out.data[i] = i
        BY DEF PasteInv, Numbered
      <4>3. CASE text = <<>>
        <5>1. out'.data = out.data /\ Len(text) = 0
          BY <1>5, <2>6, <3>2, <3>4, <4>3
        <5>. QED  BY <1>5, <4>1, <4>2, <5>1, Zenon
      <4>4. CASE text # <<>>
        <5>1. Len(text) = 1 /\ out'.data = out.data \o <<text[1]>>
          BY <2>6, <3>4, <4>4
        <5>2. text[1] = Len(out.data) - 0 + 1
          <6>1. 1 \in 1..Len(text)
            BY <5>1
          <6>. QED  BY <4>1, <6>1 DEF Counting
        <5>3. text[1] = Len(out.data) + 1
          BY <1>5, <5>2
        <5>4. /\ \A i \in 1..Len(out.data \o <<Len(out.data) + 1>>) : (out.data \o <<Len(out.data) + 1>>)[i] = i
              /\ Counting(Len(out.data) + 1, 0 + 1, text, sends[a], Len(pasted))
          BY <1>5, <3>1, <4>1, <4>2, NextNumber, CountingReads, Zenon
        <5>5. out'.data = out.data \o <<Len(out.data) + 1>>
          BY <5>1, <5>3
        <5>6. out'.data \in Seq(Nat) /\ Len(out'.data) = Len(out.data) + 1
          BY <1>5, <5>5
        <5>7. 0 + 1 = Len(text)
          BY <5>1
        <5>. QED  BY <5>4, <5>5, <5>6, <5>7, Zenon
      <4>. QED  BY <4>3, <4>4
    <3>11. Active(a)'
      <4>1. \A b \in Atoms \ {a} : prop'[b] = Absent /\ sends'[b] = <<>>
        BY <1>8, <1>9, <2>1
      <4>. QED  BY <3>7, <3>8, <3>9, <3>10, <4>1, Zenon DEF Active
    <3>12. Numbered' /\ PasteTypes'
      BY <1>6, <1>8, <2>1, <3>6, <3>7, <3>10 DEF PasteInv, PasteTypes, Numbered
    <3>13. Brackets'
      <4> SUFFICES ASSUME Does("bracket")
                   PROVE  brckt' /\ ~out'.wrong /\ (out'.inside <=> reading'.step = "read" /\ reading'.ofs > 0)
        BY <1>8 DEF Brackets, Does
      <4>1. brckt /\ ~out.wrong /\ ~out.inside
        BY <1>2, <3>1 DEF PasteInv, Brackets, k
      <4>2. Opens(k) /\ Closes(a, k)
        BY <3>1, <3>3, <4>1 DEF Opens, Closes
      <4>3. ~out'.wrong /\ ~out'.inside
        BY <2>6, <4>1, <4>2
      <4>. QED  BY <1>6, <1>8, <3>6, <4>1, <4>3
    <3>. QED  BY <3>11, <3>12, <3>13 DEF PasteInv
  <2>. QED  BY <2>5, <2>7, <2>8
<1>. QED  BY <1>10, <1>11

(* Lemma: st deletes what it has read. *)
LEMMA PasteDeletes ==
    ASSUME PasteInv, DeleteAgain
    PROVE  PasteInv'
<1>1. PICK a \in Atoms : Active(a)
  BY DEF PasteInv
<1>2. reading.step = "again" /\ reading' = Idle /\ prop' = [prop EXCEPT ![reading.atom] = Absent]
      /\ UNCHANGED <<suses, events, mask, sends, brckt, pasted, out>>
  BY DEF DeleteAgain
<1>3. ReadWhole(a) \/ Accepts(a) \/ PieceRead(a)
  BY <1>1, <1>2 DEF Active, Phase, Waits, Answered, Reads, PieceComes, ReadsPiece, Doing, Free, Idle
<1>4. reading.atom = a /\ NoneIn(events)
  BY <1>3 DEF ReadWhole, Accepts, PieceRead, Doing
<1>5. mask <=> sends[a] # <<>>
  BY <1>3 DEF ReadWhole, Accepts, PieceRead
<1>6. prop'[a] = Absent /\ prop'[a].text = <<>> /\ \A b \in Atoms \ {a} : prop'[b] = Absent /\ sends'[b] = <<>>
  BY <1>1, <1>2, <1>4 DEF Active, PasteInv, PasteTypes, Absent
<1>7. Phase(a)'
  BY <1>2, <1>4, <1>5, <1>6 DEF Phase, Waits, Free
<1>8. Taken(a)' = 0
  BY <1>2 DEF Taken, Idle, Atoms
<1>9. Counting(Len(out'.data), 0, prop'[a].text, sends'[a], Len(pasted'))
  <2>1. Taken(a) = Len(prop[a].text)
    BY <1>2, <1>4 DEF Taken
  <2>2. Counting(Len(out.data), Len(prop[a].text), prop[a].text, sends[a], Len(pasted))
    BY <1>1, <2>1, Zenon DEF Active
  <2>3. Len(out.data) \in Nat /\ prop[a].text \in Seq(Nat) /\ sends[a] \in Seq(Nat) /\ Len(prop[a].text) \in Nat
    BY DEF PasteInv, PasteTypes, Values
  <2>4. Counting(Len(out.data), 0, <<>>, sends[a], Len(pasted))
    BY <2>2, <2>3, CountingReads, Zenon
  <2>5. out' = out /\ sends' = sends /\ pasted' = pasted
    BY <1>2
  <2>. QED  BY <1>6, <2>4, <2>5, Zenon
<1>10. Active(a)'
  BY <1>6, <1>7, <1>8, <1>9, Zenon DEF Active
<1>11. PasteTypes'
  <2>1. Idle \in Readings /\ Absent \in Values
    BY DEF Values, Readings, Absent, Idle, Handled
  <2>. QED  BY <1>2, <2>1 DEF PasteInv, PasteTypes
<1>12. Numbered' /\ Brackets'
  BY <1>2 DEF PasteInv, Numbered, Brackets, Does, Idle
<1>. QED  BY <1>10, <1>11, <1>12 DEF PasteInv

(* Lemma: a program that changes the mode did not ask for brackets. *)
LEMMA PasteMode ==
    ASSUME PasteInv, Steady, xsetmode
    PROVE  PasteInv'
<1>1. ~Does("bracket") /\ UNCHANGED <<suses, mask, prop, sends, reading, events, pasted, out>>
  BY DEF xsetmode, Steady, PasteInv, PasteTypes, Does
<1>2. PICK a \in Atoms : Active(a)
  BY DEF PasteInv
<1>3. Phase(a)'
  BY <1>1, <1>2 DEF Active, Phase, Waits, Answered, Reads, ReadWhole, Accepts, PieceComes, ReadsPiece,
     PieceRead, Free, Doing, Given, SentPiece, Handled
<1>4. Active(a)'
  BY <1>1, <1>2, <1>3 DEF Active, Taken
<1>5. PasteTypes' /\ Brackets' /\ Numbered'
  BY <1>1 DEF PasteInv, PasteTypes, Brackets, Numbered, Does
<1>. QED  BY <1>4, <1>5 DEF PasteInv

(* Lemma: each step keeps the invariant. *)
LEMMA PasteStep == Steady /\ OwnInv /\ PasteInv /\ [Next]_svars => PasteInv'
<1> SUFFICES ASSUME Steady, OwnInv, PasteInv, [Next]_svars PROVE PasteInv'
  OBVIOUS
<1>1. CASE UNCHANGED svars
  BY <1>1, PasteFrame DEF svars, pasteVars
<1>2. CASE Next
  BY <1>2, PasteOthers, PasteHandle, PasteBegins, PasteSends, PasteReads, PasteDeletes, PasteMode DEF Next
<1>. QED  BY <1>1, <1>2

(* Lemma: when no more can happen there is nothing unread and nothing owed. *)
LEMMA PasteEnds == PasteInv => PastesArrive
<1> SUFFICES ASSUME PasteInv PROVE PastesArrive
  OBVIOUS
<1>1. Bracketed
  BY DEF PasteInv, Brackets, Bracketed
<1>2. ASSUME Stalled PROVE out.data = pasted /\ Quiet
  <2>1. PICK a \in Atoms : Active(a)
    BY DEF PasteInv
  <2>2. /\ events = <<>> /\ reading = Idle /\ Free
        /\ ~ComingIn(events, "notify", a) /\ ~ComingIn(events, "property", a)
    BY <1>2 DEF Stalled, Free, ComingIn
  <2>3. Waits(a)
    BY <2>1, <2>2 DEF Active, Phase, Waits, Answered, Reads, ReadWhole, Accepts, PieceComes, ReadsPiece,
       PieceRead, Doing, Idle
  <2>4. prop[a] = Absent /\ sends[a] = <<>>
    BY <1>2, <2>3 DEF Waits, Stalled
  <2>5. Quiet
    BY <2>1, <2>2, <2>4 DEF Quiet, Active
  <2>6. Counting(Len(out.data), 0, <<>>, <<>>, Len(pasted))
    <3>1. Taken(a) = 0 /\ prop[a].text = <<>>
      BY <2>2, <2>4 DEF Taken, Idle, Absent, Atoms
    <3>. QED  BY <2>1, <2>4, <3>1, Zenon DEF Active
  <2>7. out.data \in Seq(Nat) /\ pasted \in Seq(Nat) /\ Len(out.data) \in Nat /\ Len(pasted) \in Nat
    BY DEF PasteInv, PasteTypes
  <2>8. Len(pasted) = Len(out.data)
    BY <2>6, <2>7 DEF Counting
  <2>9. \A i \in 1..Len(out.data) : out.data[i] = pasted[i]
    BY <2>8 DEF PasteInv, Numbered
  <2>10. out.data = pasted
    BY <2>7, <2>8, <2>9, SeqEqual, Zenon
  <2>. QED  BY <2>5, <2>10
<1>. QED  BY <1>1, <1>2 DEF PastesArrive, PastedWhole

(* Pasted text arrives: once nothing can happen any more, the program has   *)
(* got every piece that was asked for, once and in order, and each between  *)
(* its brackets, whether the text came whole or in pieces (selnotify,       *)
(* propnotify).                                                             *)
THEOREM PastesAlwaysArrive ==
    ASSUME Steady
    PROVE  Spec => []PastesArrive
<1>1. Init => OwnInv /\ PasteInv
  BY OwnInit, PasteInit
<1>2. OwnInv /\ PasteInv /\ [Next]_svars => (OwnInv /\ PasteInv)'
  BY OwnStep, PasteStep
<1>3. OwnInv /\ PasteInv => PastesArrive
  BY PasteEnds
<1>. QED  BY <1>1, <1>2, <1>3, PTL DEF Spec
=============================================================================
