---------------------------- MODULE StSelection ----------------------------
(***************************************************************************)
(* The X selections of st (st/x.c): what st offers to other windows as     *)
(* PRIMARY and CLIPBOARD, the highlighted text that goes with it, and the  *)
(* text that it pastes, in one piece or by the INCR protocol, with the     *)
(* brackets that a program may ask for around it.                          *)
(*                                                                         *)
(* The X server orders the requests of st and of the other windows and     *)
(* queues their events; the owner of a selection is any client that        *)
(* follows the ICCCM.  SelectionClear has no handler in st: it is not told  *)
(* that it has lost a selection, and a highlight stays.                     *)
(***************************************************************************)
EXTENDS Integers, SequencesExt

CONSTANTS MaxPastes,   (* bound: pastes in a behaviour                      *)
          MaxPieces,   (* bound: BUFSIZ's in one pasted text                *)
          MaxQueue,    (* bound: events not yet handled by st               *)
          SelUses      (* sets of behaviours; each run of st picks one      *)

SelBehaviours == {"select", "take", "copy", "paste", "incr", "bracket", "mode", "race", "overlap"}

ASSUME SelectionAssumption ==
    /\ MaxPastes \in Nat /\ MaxPieces \in Nat \ {0} /\ MaxQueue \in Nat \ {0}
    /\ SelUses \subseteq SUBSET SelBehaviours

Atoms == {"PRIMARY", "CLIPBOARD"}

(* The text that st keeps for a selection: none, the one that is highlighted *)
(* since the last press, one of OSC 52 since then, or one from before it.    *)
Texts == {"none", "lit", "told", "old"}

(* A property of st's window: absent, the start of an INCR transfer, or a   *)
(* text of so many BUFSIZ's.                                                *)
Absent    == [kind |-> "absent", text |-> <<>>]
Incr      == [kind |-> "INCR", text |-> <<>>]
Holds(s)  == [kind |-> "text", text |-> s]

VARIABLES
    suses,
    sel,        (* the highlight: "idle", "empty" or "ready", and whether any *)
    xsel,       (* xsel.primary and xsel.clipboard: which text, in Texts      *)
    owner,      (* the server's owner of each selection                       *)
    events,     (* st's queue                                                 *)
    mask,       (* PropertyChangeMask                                         *)
    prop,       (* the properties of st's window                              *)
    sends,      (* what the owner has still to send, piece by piece           *)
    reading,    (* selnotify in progress: its event and offset                *)
    brckt,      (* MODE_BRCKTPASTE                                            *)
    pasted,     (* the pieces that were asked for, in order                   *)
    out,        (* what the terminal's program has got: the pieces, whether   *)
                (* it is inside of brackets, whether they were ever wrong     *)
    pastes

svars == <<suses, sel, xsel, owner, events, mask, prop, sends, reading, brckt, pasted, out, pastes>>

Does(u) == u \in suses

(* st handles one event at a time, and nothing while it pastes.             *)
Idle == [step |-> "idle", event |-> "none", atom |-> "none", ofs |-> 0]
Free == reading = Idle

Post(q, e) == Append(q, e)
Room(n)    == Len(events) + n <= MaxQueue

Highlighted == sel.on /\ sel.mode = "idle"

-----------------------------------------------------------------------------
(* The mouse and the selection owners.                                      *)

NoHighlight == [on |-> FALSE, mode |-> "idle"]

(* The texts that st keeps when what is highlighted changes.                *)
Aged(x) == [a \in Atoms |-> IF x[a] = "none" THEN "none" ELSE "old"]

(* selstart and selextend; a release is queued with the time it happened.   *)
Press ==
    /\ Does("select") /\ Free /\ Room(0)
    /\ ~\E i \in DOMAIN events : events[i].type = "release"
    /\ sel' = [on |-> TRUE, mode |-> "empty"]
    /\ xsel' = Aged(xsel)
    /\ UNCHANGED <<suses, owner, events, mask, prop, sends, reading, brckt, pasted, out, pastes>>

Motion ==
    /\ Does("select") /\ Free /\ sel.mode \in {"empty", "ready"}
    /\ sel' = [sel EXCEPT !.mode = "ready"]
    /\ UNCHANGED <<suses, xsel, owner, events, mask, prop, sends, reading, brckt, pasted, out, pastes>>

(* The program writes into the highlighted text, scrolls it out or clears it. *)
TextGone ==
    /\ Does("select") /\ sel.on
    /\ sel' = NoHighlight
    /\ UNCHANGED <<suses, xsel, owner, events, mask, prop, sends, reading, brckt, pasted, out, pastes>>

UserReleases ==
    /\ Does("select") /\ Room(1)
    /\ ~\E i \in DOMAIN events : events[i].type = "release"
    /\ events' = Post(events, [type |-> "release", fresh |-> TRUE])
    /\ UNCHANGED <<suses, sel, xsel, owner, mask, prop, sends, reading, brckt, pasted, out, pastes>>

(* Another window takes a selection: what st asks for with an earlier time  *)
(* is refused from now on.                                                  *)
OtherTakes(a) ==
    /\ Does("take") /\ owner[a] # "other"
    /\ owner' = [owner EXCEPT ![a] = "other"]
    /\ events' = [i \in DOMAIN events |->
                      IF events[i].type = "release" /\ a = "PRIMARY"
                      THEN [events[i] EXCEPT !.fresh = FALSE] ELSE events[i]]
    /\ UNCHANGED <<suses, sel, xsel, mask, prop, sends, reading, brckt, pasted, out, pastes>>

(* Mutant: the claim is taken to have succeeded. *)
setsel_NoCheck(fresh, lit) ==
    /\ xsel' = [xsel EXCEPT !.PRIMARY = "lit"]
    /\ owner' = IF fresh THEN [owner EXCEPT !.PRIMARY = "st"] ELSE owner
    /\ sel' = lit

setsel(fresh, lit) ==
    /\ xsel' = [xsel EXCEPT !.PRIMARY = "lit"]
    /\ owner' = IF fresh THEN [owner EXCEPT !.PRIMARY = "st"] ELSE owner
    /\ sel' = IF owner'["PRIMARY"] = "st" THEN lit ELSE NoHighlight

(* mousesel: getsel gives no text when nothing is highlighted.              *)
brelease(e) ==
    LET lit == IF sel.mode = "empty" THEN NoHighlight ELSE [sel EXCEPT !.mode = "idle"]
    IN  IF lit.on THEN setsel(e.fresh, lit) ELSE sel' = lit /\ UNCHANGED <<xsel, owner>>

(* OSC 52: the program in the terminal sets the selection and copies it.    *)
clipcopied(x) == [x EXCEPT !.CLIPBOARD = x.PRIMARY]

clipcopy ==
    /\ Does("copy") /\ Free
    /\ xsel' = clipcopied(xsel)
    /\ owner' = IF xsel.PRIMARY # "none" THEN [owner EXCEPT !.CLIPBOARD = "st"] ELSE owner
    /\ UNCHANGED <<suses, sel, events, mask, prop, sends, reading, brckt, pasted, out, pastes>>

OSC52 ==
    /\ Does("copy") /\ Free
    /\ xsel' = clipcopied([xsel EXCEPT !.PRIMARY = "told"])
    /\ owner' = [a \in Atoms |-> "st"]
    /\ UNCHANGED <<suses, sel, events, mask, prop, sends, reading, brckt, pasted, out, pastes>>

-----------------------------------------------------------------------------
(* Pasting.                                                                 *)

Numbers(a, b) == [i \in 1..(b - a + 1) |-> a + i - 1]

(* The server tells st of a property's new value while st wants to know.    *)
NewValue(q, a) == IF mask THEN Post(q, [type |-> "property", atom |-> a]) ELSE q

(* selpaste or clippaste, and the answer of the selection's owner: the      *)
(* text, "INCR" or nothing.  st answers itself when it is the owner.        *)
(* The next paste waits for this one to end unless pastes overlap.          *)
Quiet == /\ events = <<>> /\ Free /\ \A a \in Atoms : sends[a] = <<>> /\ prop[a] = Absent

Paste(a) ==
    /\ Does("paste") /\ Free /\ Room(2) /\ pastes < MaxPastes
    /\ Does("overlap") \/ Quiet
    /\ sends[a] = <<>> /\ prop[a] = Absent
    /\ \E n \in 1..MaxPieces :
         LET text == Numbers(Len(pasted) + 1, Len(pasted) + n)
             whole == owner[a] = "st" \/ ~Does("incr")
             none == owner[a] = "none" \/ (owner[a] = "st" /\ xsel[a] = "none")
         IN  IF none
             THEN UNCHANGED <<prop, sends, pasted, events>>
             ELSE /\ prop' = [prop EXCEPT ![a] = IF whole THEN Holds(text) ELSE Incr]
                  /\ sends' = [sends EXCEPT ![a] = IF whole THEN <<>> ELSE Append(text, 0)]
                  /\ pasted' = pasted \o text
                  /\ events' = Post(NewValue(events, a), [type |-> "notify", atom |-> a])
    /\ pastes' = pastes + 1
    /\ UNCHANGED <<suses, sel, xsel, owner, mask, reading, brckt, out>>

(* The owner sends the next piece, the last one empty, once st has deleted  *)
(* the property.                                                            *)
OwnerSends(a) ==
    /\ sends[a] # <<>> /\ prop[a] = Absent /\ Room(1)
    /\ reading.step # "again" \/ Does("race")
    /\ prop' = [prop EXCEPT ![a] = Holds(IF sends[a][1] = 0 THEN <<>> ELSE <<sends[a][1]>>)]
    /\ sends' = [sends EXCEPT ![a] = Tail(@)]
    /\ events' = NewValue(events, a)
    /\ UNCHANGED <<suses, sel, xsel, owner, mask, reading, brckt, pasted, out, pastes>>

(* XGetWindowProperty of one BUFSIZ at offset ofs, and what remains.        *)
Value(a)    == prop[a].text
Piece(a, k) == IF k < Len(Value(a)) THEN <<Value(a)[k + 1]>> ELSE <<>>
Rem(a, k)   == IF k < Len(Value(a)) THEN Len(Value(a)) - k - 1 ELSE 0

Opens(k)    == brckt /\ k = 0

(* Mutant: every piece that is read closes the brackets. *)
Closes_EachPiece(a, k) == brckt

Closes(a, k) == brckt /\ Rem(a, k) = 0

(* What the program makes of the piece at ofs, with a bracket before it,    *)
(* one after it, or none. *)
Got(a, k) ==
    LET inside == out.inside \/ Opens(k)
    IN  [data   |-> out.data \o Piece(a, k),
         inside |-> inside /\ ~Closes(a, k),
         wrong  |-> out.wrong \/ (out.inside /\ Opens(k)) \/ ~inside]

Ends(r) == r.event = "property" /\ Piece(r.atom, r.ofs) = <<>> /\ Rem(r.atom, r.ofs) = 0

(* One turn of selnotify's loop.                                            *)
ReadPiece ==
    /\ reading.step = "read"
    /\ LET r == reading
           a == r.atom
       IN  IF prop[a] = Incr
           THEN /\ mask' = TRUE
                /\ prop' = [prop EXCEPT ![a] = Absent]
                /\ reading' = [r EXCEPT !.step = "again"]
                /\ UNCHANGED out
           ELSE /\ mask' = (mask /\ ~Ends(r))
                /\ out' = Got(a, r.ofs)
                /\ reading' = IF Rem(a, r.ofs) > 0 THEN [r EXCEPT !.ofs = @ + 1]
                                                   ELSE [r EXCEPT !.step = "again"]
                /\ UNCHANGED prop
    /\ UNCHANGED <<suses, sel, xsel, owner, events, sends, brckt, pasted, pastes>>

(* The last XDeleteProperty, which follows the one for "INCR" too.          *)
DeleteAgain ==
    /\ reading.step = "again"
    /\ prop' = [prop EXCEPT ![reading.atom] = Absent]
    /\ reading' = Idle
    /\ UNCHANGED <<suses, sel, xsel, owner, events, mask, sends, brckt, pasted, out, pastes>>

(* The program changes the mode: st reads it between two events, and also   *)
(* when it has to wait while it writes.                                     *)
xsetmode ==
    /\ Does("mode") /\ brckt' = ~brckt
    /\ UNCHANGED <<suses, sel, xsel, owner, events, mask, prop, sends, reading, pasted, out, pastes>>

(* An event for selnotify: propnotify looks at the atom only.               *)
Notified(e) == reading' = [step |-> "read", event |-> e.type, atom |-> e.atom, ofs |-> 0]

Handle ==
    /\ Free /\ events # <<>>
    /\ events' = Tail(events)
    /\ LET e == Head(events)
       IN  \/ e.type = "release" /\ brelease(e) /\ UNCHANGED reading
           \/ e.type # "release" /\ Notified(e) /\ UNCHANGED <<sel, xsel, owner>>
    /\ UNCHANGED <<suses, mask, prop, sends, brckt, pasted, out, pastes>>

Init ==
    /\ suses \in SelUses
    /\ sel = NoHighlight
    /\ xsel = [a \in Atoms |-> "none"]
    /\ owner \in [Atoms -> IF Does("paste") THEN {"none", "other"} ELSE {"none"}]
    /\ events = <<>> /\ mask = FALSE
    /\ prop = [a \in Atoms |-> Absent] /\ sends = [a \in Atoms |-> <<>>]
    /\ reading = Idle /\ brckt = Does("bracket")
    /\ pasted = <<>> /\ out = [data |-> <<>>, inside |-> FALSE, wrong |-> FALSE] /\ pastes = 0

Next ==
    \/ Press \/ Motion \/ TextGone \/ UserReleases \/ clipcopy \/ OSC52
    \/ \E a \in Atoms : OtherTakes(a) \/ Paste(a) \/ OwnerSends(a)
    \/ Handle \/ ReadPiece \/ DeleteAgain \/ xsetmode

Spec == Init /\ [][Next]_svars

-----------------------------------------------------------------------------
(* What st highlights after the button is released is what it keeps for     *)
(* PRIMARY, what a copy takes from there and what others paste as long as   *)
(* st owns it, unless OSC 52 has replaced it: whichever releases, claims of *)
(* other windows, copies and clearings came between (setsel, clipcopy).     *)
HighlightIsKept == Highlighted => xsel["PRIMARY"] \in {"lit", "told"}

(* A selection that st owns has a text, so that no window that asks st for  *)
(* it is refused: clipcopy frees the old text before it looks for a new one.*)
OffersHaveText == \A a \in Atoms : owner[a] = "st" => xsel[a] # "none"

(* A step that shows a highlight leaves st the owner of PRIMARY, also when  *)
(* another window claimed it between the release and st's own claim (setsel *)
(* asks who the owner is); later the highlight stays whoever takes it.      *)
Claimed == [][~Highlighted /\ Highlighted' => owner'["PRIMARY"] = "st"]_svars

(* When no more can happen, each piece of a pasted text has been written,   *)
(* once and in order, whether it came whole or by INCR.                     *)
Stalled == /\ events = <<>> /\ Free
           /\ \A a \in Atoms : sends[a] = <<>> \/ prop[a] # Absent
PastedWhole == Stalled => out.data = pasted /\ Quiet

(* The program that asked for brackets finds every piece between them, and *)
(* no bracket within brackets.                                              *)
Bracketed == Does("bracket") => ~out.wrong

(* What other windows can paste agrees with what st highlights and keeps.   *)
SelectionsAgree == [](HighlightIsKept /\ OffersHaveText) /\ Claimed

(* Pasted text arrives whole, in order and in its brackets.                 *)
PastesArrive == PastedWhole /\ Bracketed
=============================================================================
