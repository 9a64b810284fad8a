----------------------------- MODULE DwmProofs -----------------------------
(***************************************************************************)
(* The lists, the selection and the list of clients of dwm stay sound, for *)
(* every number of windows, monitors, tags, events and restarts.           *)
(*                                                                         *)
(* The inductive invariant is DesktopInv: Good(d) of the desktop, WaitingOK*)
(* of the queue and of what a scan or a drag still has to do, PersistedOK  *)
(* of what a restart will read.  Good is not kept by the functions that    *)
(* the handlers call one after another, so each has a lemma of its own     *)
(* that says how much of it holds when it returns: a client that is out of *)
(* its lists (LinkedBut), lists that are sound while the selection is not  *)
(* yet (Listed), monitors that go while their clients still show the old   *)
(* tags (Linked).  The handlers put the lemmas together.                   *)
(*                                                                         *)
(* The second half is about the X server.  ServerInv, kept together with   *)
(* DesktopInv, says which differences between dwm and the server an event  *)
(* in the queue still explains: a client that is not mapped has its        *)
(* UnmapNotify there, a focus that is elsewhere its FocusIn, and no event  *)
(* tells of what is no longer so, because the events about one window are  *)
(* in the order of its life (Ordered).  With an empty queue nothing is     *)
(* left to explain, which is ServerInStep.                                 *)
(*                                                                         *)
(* The last part is about restarts.  FloatsInv, kept together with         *)
(* DesktopInv, says that dwm stores a client that will float again as one  *)
(* that floats.  While dwm scans, ScanInv says that the lists are in the   *)
(* order of the places that were stored (Ascending) and that the clients   *)
(* whose placement was stored are where it says; attachx keeps the first,  *)
(* manage the second, and the end of the scan makes them RestartRestores.  *)
(***************************************************************************)
EXTENDS Dwm, AlgorithmProofs

(* A Client, as far as the desktop keeps one. *)
ClientRec ==
    [mon : 0..MaxMon, tags : SUBSET Tag, isfloating : BOOLEAN, isfullscreen : BOOLEAN,
     oldstate : BOOLEAN, isurgent : BOOLEAN, idx : Nat]

(* The values that d can have. *)
Desktop ==
    [mons : Mon, selmon : Mon,
     clients : [Mon -> Seq(Window)], stack : [Mon -> Seq(Window)],
     sel : [Mon -> Window \cup {NoWin}],
     tagset : [Mon -> [0..1 -> (SUBSET Tag) \ {{}}]], seltags : [Mon -> 0..1],
     cl : [Window -> ClientRec],
     xfocus : Window \cup {NoWin}, exists : SUBSET Window, mapped : SUBSET Window,
     wmstate : [Window -> {"Normal", "Iconic", "Withdrawn"}],
     full : SUBSET Window, clientlist : SUBSET Window]

(* The clients of monitor m. *)
On(s, m) == {c \in Window : s.cl[c].mon = m}

(* InOnePlace of the desktop s, where c may have been taken out of the     *)
(* lists for a while.                                                      *)
LinkedBut(s, C) ==
    \A m \in Mon :
        /\ Distinct(s.clients[m]) /\ Members(s.clients[m]) = On(s, m) \ C
        /\ Distinct(s.stack[m])   /\ Members(s.stack[m])   = On(s, m) \ C

(* Every client is on a monitor that is there, and has tags. *)
Placed(s) ==
    /\ s.selmon \in Mons(s)
    /\ \A c \in Managed(s) : s.cl[c].mon \in Mons(s) /\ s.cl[c].tags # {}

(* sel points into the list of clients of its monitor. *)
SelOK(s) == \A m \in Mon : s.sel[m] # NoWin => s.sel[m] \in Members(s.clients[m])

(* What every function expects of the desktop: the parts of ListsSound. *)
Sound(s) == s \in Desktop /\ LinkedBut(s, {}) /\ Placed(s) /\ SelOK(s)

(* SelIsLastFocused of the desktop s. *)
LastFocused(s) == s.sel[s.selmon] = FirstIn(s.stack[s.selmon], Visible(s))

-----------------------------------------------------------------------------
(* The fields of a desktop. *)
LEMMA Fields ==
    ASSUME NEW s \in Desktop
    PROVE  /\ s.mons \in Mon /\ s.selmon \in Mon
           /\ s.clients \in [Mon -> Seq(Window)] /\ s.stack \in [Mon -> Seq(Window)]
           /\ s.sel \in [Mon -> Window \cup {NoWin}]
           /\ s.tagset \in [Mon -> [0..1 -> (SUBSET Tag) \ {{}}]] /\ s.seltags \in [Mon -> 0..1]
           /\ s.cl \in [Window -> ClientRec]
           /\ s.xfocus \in Window \cup {NoWin}
           /\ s.exists \in SUBSET Window /\ s.mapped \in SUBSET Window
           /\ s.wmstate \in [Window -> {"Normal", "Iconic", "Withdrawn"}]
           /\ s.full \in SUBSET Window /\ s.clientlist \in SUBSET Window
BY DEF Desktop

(* The fields of a client. *)
LEMMA ClientFields ==
    ASSUME NEW r \in ClientRec
    PROVE  /\ r.mon \in 0..MaxMon /\ r.tags \in SUBSET Tag /\ r.idx \in Nat
           /\ r.isfloating \in BOOLEAN /\ r.isfullscreen \in BOOLEAN
           /\ r.oldstate \in BOOLEAN /\ r.isurgent \in BOOLEAN
BY DEF ClientRec

(* The monitor of a client is a monitor. *)
LEMMA MonOf ==
    ASSUME NEW s \in Desktop, NEW c \in Managed(s)
    PROVE  c \in Window /\ s.cl[c].mon \in Mon
<1>1. s.cl \in [Window -> ClientRec] /\ c \in Window
  BY Fields DEF Managed
<1>2. s.cl[c].mon \in 0..MaxMon
  BY <1>1, ClientFields
<1>3. s.cl[c].mon # 0
  BY DEF Managed
<1> QED
  BY <1>1, <1>2, <1>3, DwmAssumption DEF Mon

(* Monitors are numbered from one; c->mon of no client is 0. *)
LEMMA MonRange == \A m \in Mon : m \in Nat /\ m # 0 /\ m \in 0..MaxMon
BY DwmAssumption DEF Mon

(* FirstIn finds the first member of S in the list, if there is one. *)
LEMMA FirstInIs ==
    ASSUME NEW list \in Seq(Window), NEW S
    PROVE  /\ FirstIn(list, S) = NoWin <=> Members(list) \cap S = {}
           /\ FirstIn(list, S) # NoWin => FirstIn(list, S) \in Members(list) \cap S
           /\ 1 \in DOMAIN list /\ list[1] \in S => FirstIn(list, S) = list[1]
<1>1. DOMAIN list = 1..Len(list) /\ Len(list) \in Nat /\ \A k \in DOMAIN list : list[k] \in Window
  BY LenProperties
<1>2. CASE ~\E k \in DOMAIN list : list[k] \in S
  <2>1. Members(list) \cap S = {}
    BY <1>2 DEF Members
  <2> QED
    BY <1>2, <2>1 DEF FirstIn
<1>3. CASE \E k \in DOMAIN list : list[k] \in S
  <2> DEFINE Hits == {k \in DOMAIN list : list[k] \in S}
             first(k) == list[k] \in S /\ \A j \in 1..(k - 1) : list[j] \notin S
             n == CHOOSE k \in DOMAIN list : first(k)
  <2>1. Hits \in SUBSET Nat /\ Hits # {}
    BY <1>1, <1>3
  <2>2. PICK i \in Hits : \A j \in Hits : i <= j
    BY <2>1, LeastElement
  <2>3. i \in DOMAIN list /\ first(i)
    BY <1>1, <2>2
  <2>4. n \in DOMAIN list /\ first(n)
    BY <2>3
  <2>5. FirstIn(list, S) = list[n]
    BY <1>3 DEF FirstIn
  <2> HIDE DEF n
  <2>6. list[n] \in Members(list) \cap S /\ list[n] # NoWin
    BY <1>1, <2>4, DwmAssumption DEF Members
  <2>7. 1 \in DOMAIN list /\ list[1] \in S => n = 1
    BY <1>1, <2>4
  <2> QED
    BY <2>5, <2>6, <2>7
<1> QED
  BY <1>2, <1>3

(* LastIn finds a member of S in the list, if there is one. *)
LEMMA LastInIs ==
    ASSUME NEW list \in Seq(Window), NEW S, LastIn(list, S) # NoWin
    PROVE  LastIn(list, S) \in Members(list) \cap S
<1>1. DOMAIN list = 1..Len(list) /\ Len(list) \in Nat
  BY LenProperties
<1>2. \E k \in DOMAIN list : list[k] \in S
  BY DEF LastIn
<1> DEFINE Left == {j \in Nat : Len(list) - j \in DOMAIN list /\ list[Len(list) - j] \in S}
<1>3. PICK k \in DOMAIN list : list[k] \in S
  BY <1>2
<1>4. Len(list) - k \in Left
  BY <1>1, <1>3
<1>5. PICK i \in Left : \A j \in Left : i <= j
  BY <1>4, LeastElement
<1> DEFINE last(n) == list[n] \in S /\ \A j \in (n + 1)..Len(list) : list[j] \notin S
           n == CHOOSE n \in DOMAIN list : last(n)
<1>6. ASSUME NEW j \in ((Len(list) - i) + 1)..Len(list) PROVE list[j] \notin S
  <2>1. Len(list) - j \in Nat /\ Len(list) - (Len(list) - j) = j /\ Len(list) - j < i /\ j \in DOMAIN list
    BY <1>1, <1>5
  <2> QED
    BY <1>1, <1>5, <2>1
<1>7. Len(list) - i \in DOMAIN list /\ last(Len(list) - i)
  BY <1>5, <1>6
<1>8. n \in DOMAIN list /\ last(n)
  BY <1>7
<1>9. LastIn(list, S) = list[n]
  BY <1>2 DEF LastIn
<1> QED
  BY <1>8, <1>9 DEF Members

-----------------------------------------------------------------------------
(* The monitors and what they show, the clients as far as the view shows   *)
(* them, and the lists stay.                                               *)
SameViews(s, t) == t.mons = s.mons /\ t.tagset = s.tagset /\ t.seltags = s.seltags

SameClients(s, t) ==
    \A w \in Window : t.cl[w].mon = s.cl[w].mon /\ t.cl[w].tags = s.cl[w].tags

SameLists(s, t) == t.clients = s.clients /\ t.clientlist = s.clientlist

(* A function that touches flags, marks and the X server only. *)
Quiet(s, t) ==
    /\ t \in Desktop /\ SameViews(s, t) /\ SameClients(s, t) /\ SameLists(s, t)
    /\ t.stack = s.stack /\ t.sel = s.sel /\ t.selmon = s.selmon

(* The same monitors and tags of clients: the same clients are managed, on *)
(* each monitor, and shown.                                                *)
LEMMA SameSets ==
    ASSUME NEW s, NEW t, SameClients(s, t)
    PROVE  /\ Managed(t) = Managed(s)
           /\ \A m : On(t, m) = On(s, m)
           /\ SameViews(s, t) => Visible(t) = Visible(s)
BY DEF SameClients, SameViews, Managed, On, Visible, ISVISIBLE, Shown

(* Such a function keeps the lists sound and sel the client focused last. *)
LEMMA QuietKeeps ==
    ASSUME NEW s, NEW t, Quiet(s, t)
    PROVE  /\ Sound(s) => Sound(t)
           /\ LastFocused(s) => LastFocused(t)
           /\ \A C : LinkedBut(s, C) => LinkedBut(t, C)
           /\ Managed(t) = Managed(s)
<1>1. /\ Managed(t) = Managed(s) /\ \A m : On(t, m) = On(s, m)
      /\ Visible(t) = Visible(s)
  BY SameSets DEF Quiet
<1>2. LastFocused(s) => LastFocused(t)
  BY <1>1 DEF Quiet, LastFocused
<1>3. \A C : LinkedBut(s, C) => LinkedBut(t, C)
  BY <1>1 DEF Quiet, LinkedBut, SameLists
<1>4. SelOK(s) => SelOK(t)
  BY DEF Quiet, SelOK, SameLists
<1>5. Placed(s) => Placed(t)
  BY <1>1 DEF Quiet, Placed, SameViews, SameClients, Mons, Managed
<1> QED
  BY <1>1, <1>2, <1>3, <1>4, <1>5 DEF Sound, Quiet

(* One such function after another. *)
LEMMA QuietTrans ==
    ASSUME NEW s, NEW t, NEW u, Quiet(s, t), Quiet(t, u)
    PROVE  Quiet(s, u)
BY DEF Quiet, SameViews, SameClients, SameLists

(* The X server's side of the desktop. *)
LEMMA QuietServer ==
    ASSUME NEW s \in Desktop,
           NEW xfocus \in Window \cup {NoWin}, NEW exists \in SUBSET Window,
           NEW mapped \in SUBSET Window,
           NEW wmstate \in [Window -> {"Normal", "Iconic", "Withdrawn"}]
    PROVE  Quiet(s, [s EXCEPT !.xfocus = xfocus, !.exists = exists,
                              !.mapped = mapped, !.wmstate = wmstate])
BY DEF Desktop, Quiet, SameViews, SameClients, SameLists

(* The requests to the X server are such functions. *)
LEMMA QuietX ==
    ASSUME NEW s \in Desktop, NEW c \in Window
    PROVE  /\ Quiet(s, s)
           /\ Quiet(s, XMapWindow(s, c))
           /\ Quiet(s, XUnmapWindow(s, c))
           /\ Quiet(s, setfocus(s, c))
           /\ \A state \in {"Normal", "Iconic", "Withdrawn"} : Quiet(s, setclientstate(s, c, state))
<1>1. Quiet(s, s)
  BY DEF Quiet, SameViews, SameClients, SameLists
<1>2. Quiet(s, XMapWindow(s, c))
  BY DEF Desktop, Quiet, SameViews, SameClients, SameLists, XMapWindow
<1>3. Quiet(s, XUnmapWindow(s, c))
  BY DEF Desktop, Quiet, SameViews, SameClients, SameLists, XUnmapWindow
<1>4. Quiet(s, setfocus(s, c))
  BY <1>1 DEF Desktop, Quiet, SameViews, SameClients, SameLists, setfocus
<1>5. ASSUME NEW state \in {"Normal", "Iconic", "Withdrawn"}
      PROVE  Quiet(s, setclientstate(s, c, state))
  BY <1>1 DEF Desktop, Quiet, SameViews, SameClients, SameLists, setclientstate
<1> QED
  BY <1>1, <1>2, <1>3, <1>4, <1>5

(* unfocus is such a function. *)
LEMMA QuietUnfocus ==
    ASSUME NEW s \in Desktop, NEW c, NEW setroot \in BOOLEAN
    PROVE  Quiet(s, unfocus(s, c, setroot))
BY DEF Desktop, Quiet, SameViews, SameClients, SameLists, unfocus

(* The flags of a client: everything but its monitor and its tags.         *)
LEMMA QuietFlags ==
    ASSUME NEW s \in Desktop, NEW c \in Window, NEW r \in ClientRec,
           r.mon = s.cl[c].mon, r.tags = s.cl[c].tags
    PROVE  /\ Quiet(s, [s EXCEPT !.cl[c] = r])
           /\ \A full \in SUBSET Window : Quiet(s, [s EXCEPT !.cl[c] = r, !.full = full])
BY DEF Desktop, Quiet, SameViews, SameClients, SameLists

(* Each flag of a client may be written without its monitor and its tags. *)
LEMMA FlagsOf ==
    ASSUME NEW r \in ClientRec, NEW b \in BOOLEAN
    PROVE  /\ [r EXCEPT !.isurgent = b] \in ClientRec
           /\ [r EXCEPT !.isfloating = b] \in ClientRec
           /\ [r EXCEPT !.isurgent = b].mon = r.mon /\ [r EXCEPT !.isurgent = b].tags = r.tags
           /\ [r EXCEPT !.isfloating = b].mon = r.mon /\ [r EXCEPT !.isfloating = b].tags = r.tags
BY DEF ClientRec

(* The same of idx, the place that cleanup() stored. *)
LEMMA IdxOf ==
    ASSUME NEW r \in ClientRec, NEW n \in Nat
    PROVE  /\ [r EXCEPT !.idx = n] \in ClientRec
           /\ [r EXCEPT !.idx = n].mon = r.mon /\ [r EXCEPT !.idx = n].tags = r.tags
BY DEF ClientRec

(* setfullscreen writes flags of its client only. *)
LEMMA QuietFullscreen ==
    ASSUME NEW s \in Desktop, NEW c \in Window, NEW on \in BOOLEAN
    PROVE  Quiet(s, setfullscreen(s, c, on))
<1> DEFINE r == s.cl[c]
           r1 == [r EXCEPT !.isfullscreen = TRUE, !.oldstate = r.isfloating, !.isfloating = TRUE]
           r2 == [r EXCEPT !.isfullscreen = FALSE, !.isfloating = r.oldstate]
<1>1. r \in ClientRec
  BY Fields
<1> HIDE DEF r
<1>2. r1 \in ClientRec /\ r1.mon = r.mon /\ r1.tags = r.tags
  BY <1>1 DEF ClientRec
<1>3. r2 \in ClientRec /\ r2.mon = r.mon /\ r2.tags = r.tags
  BY <1>1 DEF ClientRec
<1>4. CASE on /\ ~r.isfullscreen
  <2>1. setfullscreen(s, c, on) = [s EXCEPT !.cl[c] = r1, !.full = s.full \cup {c}]
    BY <1>1, <1>4, ZenonT(60) DEF setfullscreen, r, Desktop
  <2> DEFINE F == s.full \cup {c}
  <2>2. F \in SUBSET Window
    BY Fields
  <2> HIDE DEF F, r1, r2
  <2>3. Quiet(s, [s EXCEPT !.cl[c] = r1, !.full = F])
    BY <1>2, <2>2, QuietFlags DEF r
  <2> QED
    BY <2>1, <2>3, SMTT(30) DEF F
<1>5. CASE ~on /\ r.isfullscreen
  <2>1. setfullscreen(s, c, on) = [s EXCEPT !.cl[c] = r2, !.full = s.full \ {c}]
    BY <1>1, <1>5, ZenonT(60) DEF setfullscreen, r, Desktop
  <2> DEFINE F == s.full \ {c}
  <2>2. F \in SUBSET Window
    BY Fields
  <2> HIDE DEF F, r1, r2
  <2>3. Quiet(s, [s EXCEPT !.cl[c] = r2, !.full = F])
    BY <1>3, <2>2, QuietFlags DEF r
  <2> QED
    BY <2>1, <2>3 DEF F
<1>6. CASE ~(on /\ ~r.isfullscreen) /\ ~(~on /\ r.isfullscreen)
  <2>1. setfullscreen(s, c, on) = s
    BY <1>6 DEF setfullscreen, r
  <2> QED
    BY <2>1, QuietX
<1> QED
  BY <1>4, <1>5, <1>6

(* togglefloating writes flags of its client only. *)
LEMMA QuietFloating ==
    ASSUME NEW s \in Desktop, NEW c \in Window
    PROVE  Quiet(s, togglefloating(s, c))
<1> DEFINE b == ~s.cl[c].isfloating \/ c \in Fixed
<1>1. s.cl[c] \in ClientRec /\ b \in BOOLEAN
  BY Fields
<1>2. CASE s.cl[c].isfullscreen
  BY <1>2, QuietX DEF togglefloating
<1>3. CASE ~s.cl[c].isfullscreen
  <2> DEFINE r == [s.cl[c] EXCEPT !.isfloating = b]
  <2>1. togglefloating(s, c) = [s EXCEPT !.cl[c] = r]
    BY <1>3 DEF togglefloating
  <2> HIDE DEF b
  <2>2. r \in ClientRec /\ r.mon = s.cl[c].mon /\ r.tags = s.cl[c].tags
    BY <1>1, FlagsOf
  <2> HIDE DEF r
  <2>3. Quiet(s, [s EXCEPT !.cl[c] = r])
    BY <2>2, QuietFlags
  <2> QED
    BY <2>1, <2>3
<1> QED
  BY <1>2, <1>3

-----------------------------------------------------------------------------
(* Changes of the lists.                                                   *)

(* f with the value v at m, under a name that facts can be stated of. *)
With(f, m, v) == [f EXCEPT ![m] = v]

(* The stack of one monitor is replaced. *)
LEMMA PutStack ==
    ASSUME NEW s \in Desktop, NEW m \in Mon, NEW list \in Seq(Window)
    PROVE  LET t == [s EXCEPT !.stack[m] = list]
           IN  /\ t \in Desktop /\ SameViews(s, t) /\ SameClients(s, t) /\ SameLists(s, t)
               /\ t.selmon = s.selmon /\ t.sel = s.sel /\ t.cl = s.cl
               /\ t.stack = With(s.stack, m, list)
BY DEF Desktop, SameViews, SameClients, SameLists, With

(* The list of clients of one monitor is replaced. *)
LEMMA PutClients ==
    ASSUME NEW s \in Desktop, NEW m \in Mon, NEW list \in Seq(Window)
    PROVE  LET t == [s EXCEPT !.clients[m] = list]
           IN  /\ t \in Desktop /\ SameViews(s, t) /\ SameClients(s, t)
               /\ t.selmon = s.selmon /\ t.sel = s.sel /\ t.cl = s.cl /\ t.stack = s.stack
               /\ t.clientlist = s.clientlist
               /\ t.clients = With(s.clients, m, list)
BY DEF Desktop, SameViews, SameClients, With

(* sel of one monitor is replaced. *)
LEMMA PutSel ==
    ASSUME NEW s \in Desktop, NEW m \in Mon, NEW c \in Window \cup {NoWin}
    PROVE  LET t == [s EXCEPT !.sel[m] = c]
           IN  /\ t \in Desktop /\ SameViews(s, t) /\ SameClients(s, t) /\ SameLists(s, t)
               /\ t.selmon = s.selmon /\ t.cl = s.cl /\ t.stack = s.stack
               /\ t.sel = With(s.sel, m, c)
BY DEF Desktop, SameViews, SameClients, SameLists, With

(* A client is taken out of its stack; sel goes to one that is left.       *)
LEMMA DetachstackIs ==
    ASSUME NEW s \in Desktop, NEW c \in Managed(s),
           c \in Members(s.stack[s.cl[c].mon]), Distinct(s.stack[s.cl[c].mon])
    PROVE  LET m == s.cl[c].mon
               t == detachstack(s, c)
           IN  /\ t \in Desktop /\ SameViews(s, t) /\ SameClients(s, t) /\ SameLists(s, t)
               /\ t.selmon = s.selmon /\ t.cl = s.cl
               /\ t.stack = With(s.stack, m, detach(s.stack[m], c))
               /\ t.sel = With(s.sel, m, t.sel[m])
               /\ t.sel[m] # c
               /\ t.sel[m] \in {s.sel[m], NoWin} \cup (Members(s.stack[m]) \ {c})
<1> DEFINE m == s.cl[c].mon
           list == detach(s.stack[m], c)
           u == [s EXCEPT !.stack[m] = list]
           f == FirstIn(list, Visible(s))
           v == [u EXCEPT !.sel[m] = f]
           t == detachstack(s, c)
<1>1. m \in Mon /\ c \in Window /\ c # NoWin
  BY MonOf, DwmAssumption
<1>2. s.stack[m] \in Seq(Window) /\ s.sel[m] \in Window \cup {NoWin} /\ s.sel \in [Mon -> Window \cup {NoWin}]
      /\ s.stack \in [Mon -> Seq(Window)]
  BY <1>1, Fields
<1>3. list \in Seq(Window) /\ Members(list) = Members(s.stack[m]) \ {c}
  BY <1>2, DetachMembers
<1>4. u.stack[m] = list
  BY <1>1, Fields DEF Desktop
<1>5. t = IF s.sel[m] = c THEN v ELSE u
  <2>1. t = IF s.sel[m] = c THEN [u EXCEPT !.sel[m] = FirstIn(u.stack[m], Visible(s))] ELSE u
    BY Zenon DEF detachstack
  <2> QED
    BY <1>4, <2>1, Zenon
<1> HIDE DEF m, list, t
<1>6. /\ u \in Desktop /\ SameViews(s, u) /\ SameClients(s, u) /\ SameLists(s, u)
      /\ u.selmon = s.selmon /\ u.sel = s.sel /\ u.cl = s.cl
      /\ u.stack = With(s.stack, m, list)
  BY <1>1, <1>3, PutStack
<1>7. f \in {NoWin} \cup (Members(s.stack[m]) \ {c}) /\ f \in Window \cup {NoWin} /\ f # c
  BY <1>1, <1>3, FirstInIs, MembersOf
<1> HIDE DEF f, u
<1>8. /\ v \in Desktop /\ SameViews(u, v) /\ SameClients(u, v) /\ SameLists(u, v)
      /\ v.selmon = u.selmon /\ v.cl = u.cl /\ v.stack = u.stack
      /\ v.sel = With(u.sel, m, f)
  BY <1>1, <1>6, <1>7, PutSel, SMTT(30)
<1> HIDE DEF v
<1>9. CASE s.sel[m] = c
  <2>1. v.sel[m] = f /\ v.sel = With(s.sel, m, v.sel[m])
    BY <1>1, <1>2, <1>6, <1>8 DEF With
  <2>2. SameViews(s, v) /\ SameClients(s, v) /\ SameLists(s, v)
    BY <1>6, <1>8 DEF SameViews, SameClients, SameLists
  <2> QED
    BY <1>5, <1>6, <1>7, <1>8, <1>9, <2>1, <2>2 DEF m, list, t
<1>10. CASE s.sel[m] # c
  <2>1. s.sel = With(s.sel, m, s.sel[m])
    BY <1>1, <1>2 DEF With
  <2> QED
    BY <1>5, <1>6, <1>10, <2>1 DEF m, list, t
<1> QED
  BY <1>9, <1>10

(* attachstack puts c at the head of the stack of its monitor. *)
LEMMA AttachstackIs ==
    ASSUME NEW s \in Desktop, NEW c \in Window, s.cl[c].mon \in Mon
    PROVE  LET m == s.cl[c].mon
               t == attachstack(s, c)
           IN  /\ t \in Desktop /\ SameViews(s, t) /\ SameClients(s, t) /\ SameLists(s, t)
               /\ t.selmon = s.selmon /\ t.sel = s.sel /\ t.cl = s.cl
               /\ t.stack = With(s.stack, m, attach(s.stack[m], c))
<1> DEFINE m == s.cl[c].mon
           list == attach(s.stack[m], c)
<1>1. list \in Seq(Window)
  <2>1. s.stack[m] \in Seq(Window)
    BY Fields
  <2> QED
    BY <2>1, AttachMembers
<1>2. attachstack(s, c) = [s EXCEPT !.stack[m] = list]
  BY Zenon DEF attachstack
<1> HIDE DEF list, m
<1> QED
  BY <1>1, <1>2, PutStack DEF list, m

(* focus of a client brings it to the head of its stack.                   *)
LEMMA FocusClientIs ==
    ASSUME NEW s \in Desktop, LinkedBut(s, {}), Placed(s), NEW c \in Managed(s)
    PROVE  LET t == focus_client(s, c)
               m == s.cl[c].mon
           IN  /\ t \in Desktop /\ SameViews(s, t) /\ SameClients(s, t) /\ SameLists(s, t)
               /\ LinkedBut(t, {}) /\ Placed(t)
               /\ t.selmon = m /\ t.sel = With(s.sel, m, c)
               /\ m \in Mon /\ c \in Members(s.clients[m])
               /\ FirstIn(t.stack[m], {c}) = c
               /\ \A S : c \in S => FirstIn(t.stack[m], S) = c
<1> DEFINE m == s.cl[c].mon
           w == detachstack(s, c)
           x == attachstack(w, c)
           y == setfocus(x, c)
           r == [y.cl[c] EXCEPT !.isurgent = FALSE]
           z == [y EXCEPT !.selmon = m, !.sel[m] = c, !.cl[c] = r]
           list == detach(s.stack[m], c)
           new == attach(list, c)
<1>1. focus_client(s, c) = z
  BY DEF focus_client
<1>2. /\ s.stack \in [Mon -> Seq(Window)] /\ s.sel \in [Mon -> Window \cup {NoWin}]
      /\ c \in Window /\ m \in Mon /\ m \in Mons(s)
  BY Fields, MonOf DEF Placed
<1>3. /\ s.stack[m] \in Seq(Window) /\ c \in Members(s.stack[m]) /\ Distinct(s.stack[m])
      /\ c \in Members(s.clients[m])
  BY <1>2 DEF LinkedBut, On
<1>4. /\ w \in Desktop /\ SameViews(s, w) /\ SameClients(s, w) /\ SameLists(s, w)
      /\ w.selmon = s.selmon /\ w.cl = s.cl
      /\ w.stack = With(s.stack, m, list)
      /\ w.sel = With(s.sel, m, w.sel[m])
  <2>1. c \in Members(s.stack[s.cl[c].mon]) /\ Distinct(s.stack[s.cl[c].mon])
    BY <1>3, SMTT(30)
  <2> HIDE DEF m, w, x, y, r, z, list, new
  <2>2. LET n == s.cl[c].mon
            t == detachstack(s, c)
        IN  /\ t \in Desktop /\ SameViews(s, t) /\ SameClients(s, t) /\ SameLists(s, t)
            /\ t.selmon = s.selmon /\ t.cl = s.cl
            /\ t.stack = With(s.stack, n, detach(s.stack[n], c))
            /\ t.sel = With(s.sel, n, t.sel[n])
    BY <2>1, DetachstackIs, ZenonT(60)
  <2> QED
    BY <2>2 DEF w, m, list
<1>5. list \in Seq(Window) /\ Members(list) = Members(s.stack[m]) \ {c} /\ Distinct(list)
  BY <1>3, DetachMembers
<1> HIDE DEF list
<1>6. c \notin Members(list)
  BY <1>5
<1>7. /\ new \in Seq(Window) /\ Members(new) = Members(s.stack[m]) /\ Distinct(new)
      /\ 1 \in DOMAIN new /\ new[1] = c
  <2>1. /\ new \in Seq(Window) /\ Members(new) = Members(list) \cup {c}
        /\ 1 \in DOMAIN new /\ new[1] = c
        /\ Distinct(list) /\ c \notin Members(list) => Distinct(new)
    <3> HIDE DEF m, w, x, y, r, z, new
    <3>1. /\ attach(list, c) \in Seq(Window)
          /\ Members(attach(list, c)) = Members(list) \cup {c}
          /\ 1 \in DOMAIN attach(list, c) /\ attach(list, c)[1] = c
          /\ Distinct(list) /\ c \notin Members(list) => Distinct(attach(list, c))
      BY <1>2, <1>5, AttachMembers
    <3> QED
      BY <3>1 DEF new
  <2> HIDE DEF new
  <2>2. Members(new) = Members(s.stack[m])
    BY <1>3, <1>5, <2>1
  <2> QED
    BY <1>5, <1>6, <2>1, <2>2
<1>8. w.cl[c].mon = m
  BY <1>4
<1> HIDE DEF w, m
<1>9. /\ x \in Desktop /\ SameViews(w, x) /\ SameClients(w, x) /\ SameLists(w, x)
      /\ x.selmon = w.selmon /\ x.sel = w.sel /\ x.cl = w.cl
      /\ x.stack = With(w.stack, m, attach(w.stack[m], c))
  BY <1>2, <1>4, <1>8, AttachstackIs
<1>10. x.stack = With(s.stack, m, new)
  BY <1>2, <1>4, <1>9 DEF With
<1> HIDE DEF x, new
<1>11. Quiet(x, y)
  BY <1>2, <1>9, QuietX
<1> HIDE DEF y
<1>12. r \in ClientRec /\ r.mon = y.cl[c].mon /\ r.tags = y.cl[c].tags
  <2>1. y \in Desktop
    BY <1>11 DEF Quiet
  <2>2. y.cl \in [Window -> ClientRec]
    BY <2>1, Fields
  <2>3. y.cl[c] \in ClientRec
    BY <1>2, <2>2
  <2> QED
    BY <2>3, FlagsOf
<1> HIDE DEF r
<1>13. /\ z \in Desktop /\ SameViews(y, z) /\ SameClients(y, z) /\ SameLists(y, z)
       /\ z.selmon = m /\ z.stack = y.stack /\ z.sel = With(y.sel, m, c)
  <2>1. y \in Desktop
    BY <1>11 DEF Quiet
  <2> QED
    BY <1>2, <1>12, <2>1 DEF Desktop, SameViews, SameClients, SameLists, With
<1> HIDE DEF z
<1>14. z.sel = With(s.sel, m, c)
  <2>1. y.sel = w.sel
    BY <1>9, <1>11 DEF Quiet
  <2>2. w.sel = With(s.sel, m, w.sel[m])
    BY <1>4
  <2> QED
    BY <1>2, <1>13, <2>1, <2>2 DEF With
<1>15. z.stack = With(s.stack, m, new)
  BY <1>10, <1>11, <1>13 DEF Quiet
<1>16. SameViews(s, z) /\ SameClients(s, z) /\ SameLists(s, z)
  BY <1>4, <1>9, <1>11, <1>13 DEF Quiet, SameViews, SameClients, SameLists
<1>17. Visible(z) = Visible(s) /\ Managed(z) = Managed(s) /\ \A n : On(z, n) = On(s, n)
  BY <1>16, SameSets
<1>18. \A S : c \in S => FirstIn(z.stack[m], S) = c
  <2>1. z.stack[m] = new
    BY <1>2, <1>15 DEF With
  <2> QED
    BY <1>7, <2>1, FirstInIs
<1>19. LinkedBut(z, {})
  BY <1>2, <1>7, <1>15, <1>16, <1>17 DEF LinkedBut, SameLists, With
<1>20. Placed(z)
  BY <1>2, <1>13, <1>16, <1>17 DEF Placed, SameViews, SameClients, Mons, Managed
<1> QED
  BY <1>1, <1>2, <1>3, <1>13, <1>14, <1>16, <1>18, <1>19, <1>20 DEF m

(* focus: whatever it is asked for, the lists stay as they are but for the *)
(* order of the stack, and sel of the selected monitor is the first of its *)
(* stack that is visible.                                                  *)
LEMMA FocusIs ==
    ASSUME NEW s \in Desktop, LinkedBut(s, {}), Placed(s), NEW c0 \in Managed(s) \cup {NoWin}
    PROVE  LET t == focus(s, c0)
           IN  /\ t \in Desktop /\ SameViews(s, t) /\ SameClients(s, t) /\ SameLists(s, t)
               /\ LinkedBut(t, {}) /\ Placed(t) /\ LastFocused(t)
               /\ SelOK(s) => SelOK(t)
<1> DEFINE first == FirstIn(s.stack[s.selmon], Visible(s))
           c == IF c0 # NoWin /\ ISVISIBLE(s, c0) THEN c0 ELSE first
           none == [s EXCEPT !.xfocus = NoWin, !.sel[s.selmon] = NoWin]
           t == focus(s, c0)
<1>1. t = IF c = NoWin THEN none ELSE focus_client(s, c)
  BY DEF focus
<1>2. /\ s.selmon \in Mon /\ s.stack[s.selmon] \in Seq(Window)
      /\ s.sel \in [Mon -> Window \cup {NoWin}]
  BY Fields
<1> HIDE DEF t
<1>3. CASE c = NoWin
  <2>1. t = none
    BY <1>1, <1>3
  <2>2. first = NoWin
    BY <1>3, DwmAssumption DEF Managed
  <2> HIDE DEF c, first
  <2>3. /\ t \in Desktop /\ SameViews(s, t) /\ SameClients(s, t) /\ SameLists(s, t)
        /\ t.selmon = s.selmon /\ t.stack = s.stack /\ t.sel = With(s.sel, s.selmon, NoWin)
    BY <1>2, <2>1 DEF Desktop, SameViews, SameClients, SameLists, With
  <2>4. Visible(t) = Visible(s) /\ Managed(t) = Managed(s) /\ \A n : On(t, n) = On(s, n)
    BY <2>3, SameSets
  <2>5. LastFocused(t)
    BY <1>2, <2>2, <2>3, <2>4 DEF LastFocused, first, With
  <2>6. LinkedBut(t, {})
    BY <2>3, <2>4 DEF LinkedBut, SameLists
  <2>7. Placed(t)
    BY <2>3, <2>4 DEF Placed, SameViews, SameClients, Mons, Managed
  <2>8. SelOK(s) => SelOK(t)
    BY <1>2, <2>3 DEF SelOK, SameLists, With
  <2> QED
    BY <2>3, <2>5, <2>6, <2>7, <2>8 DEF t
<1>4. CASE c # NoWin
  <2>1. c \in Visible(s) /\ c \in Managed(s)
    BY <1>2, <1>4, FirstInIs DEF Visible, Managed
  <2>2. t = focus_client(s, c)
    BY <1>1, <1>4
  <2> HIDE DEF c
  <2> DEFINE m == s.cl[c].mon
  <2>3. /\ t \in Desktop /\ SameViews(s, t) /\ SameClients(s, t) /\ SameLists(s, t)
        /\ LinkedBut(t, {}) /\ Placed(t)
        /\ t.selmon = m /\ t.sel = With(s.sel, m, c)
        /\ m \in Mon /\ c \in Members(s.clients[m])
        /\ \A S : c \in S => FirstIn(t.stack[m], S) = c
    BY <2>1, <2>2, FocusClientIs, ZenonT(60)
  <2> HIDE DEF m
  <2>4. Visible(t) = Visible(s)
    BY <2>3, SameSets
  <2>5. LastFocused(t)
    BY <1>2, <2>1, <2>3, <2>4 DEF LastFocused, With
  <2>6. SelOK(s) => SelOK(t)
    BY <1>2, <2>3 DEF SelOK, SameLists, With
  <2> QED
    BY <2>3, <2>5, <2>6 DEF t
<1> QED
  BY <1>3, <1>4
-----------------------------------------------------------------------------
(* What the handlers and commands keep. *)
Good(s) == Sound(s) /\ LastFocused(s) /\ s.clientlist = Managed(s)

(* The X events that the programs cause. *)
Event == [type : {"MapRequest", "UnmapNotify", "UnmapNotify sent by the client",
                  "DestroyNotify", "FocusIn"}, win : Window]

(* What cleanup() writes on a window. *)
Props == [mon : 0..MaxMon, tags : SUBSET Tag, isfloating : BOOLEAN, idx : Nat]

(* What is written on the windows and the root window can be restored: a   *)
(* window that has a monitor has tags.                                     *)
PersistedOK ==
    /\ props \in [Window -> Props]
    /\ \A w \in Window : props[w].mon # 0 => props[w].tags # {}
    /\ rootprops \in [Mon -> SUBSET Tag]

(* Of what waits: the events name windows, scan has not managed the        *)
(* windows that it has yet to look at, a drag has a client.                *)
WaitingOK ==
    /\ queue \in Seq(Event) /\ Len(queue) <= MaxQueue
    /\ pc \in {"scan", "run", "drag"}
    /\ todo \subseteq Window /\ (pc = "scan" => todo \cap Managed(d) = {})
    /\ pc = "drag" => drag \in Managed(d)

(* The inductive invariant. *)
DesktopInv == Good(d) /\ WaitingOK /\ PersistedOK /\ uses \in Uses

-----------------------------------------------------------------------------
(* The commands that end in a focus. *)

(* A desktop whose clients are where s has them, that has a view for each  *)
(* monitor and tags for each client, is as sound as s.                     *)
LEMMA SoundFrom ==
    ASSUME NEW s, NEW t \in Desktop, Sound(s),
           t.mons = s.mons, t.selmon \in Mons(t), SameLists(s, t),
           t.stack = s.stack, t.sel = s.sel,
           \A w \in Window : t.cl[w].mon = s.cl[w].mon,
           \A w \in Managed(s) : t.cl[w].tags # {}
    PROVE  Sound(t) /\ Managed(t) = Managed(s)
<1>1. Managed(t) = Managed(s) /\ \A m : On(t, m) = On(s, m)
  BY DEF Managed, On
<1>2. LinkedBut(t, {})
  BY <1>1 DEF Sound, LinkedBut, SameLists
<1>3. Placed(t)
  BY <1>1 DEF Sound, Placed, Mons, Managed
<1>4. SelOK(t)
  BY DEF Sound, SelOK, SameLists
<1> QED
  BY <1>1, <1>2, <1>3, <1>4 DEF Sound

(* A desktop on which a function has yet to call focus(). *)
Listed(s) == Sound(s) /\ s.clientlist = Managed(s)

(* From s to t the clients stay the same ones, and t is good. *)
Kept(s, t) == Good(t) /\ Managed(t) = Managed(s)

(* focus() makes good what only the selection lacked. *)
LEMMA FocusKeeps ==
    ASSUME NEW s, Listed(s), NEW c \in Managed(s) \cup {NoWin}
    PROVE  Kept(s, focus(s, c))
<1> DEFINE t == focus(s, c)
<1>1. s \in Desktop /\ LinkedBut(s, {}) /\ Placed(s) /\ SelOK(s) /\ s.clientlist = Managed(s)
  BY DEF Listed, Sound
<1>2. /\ t \in Desktop /\ SameClients(s, t) /\ SameLists(s, t)
      /\ LinkedBut(t, {}) /\ Placed(t) /\ LastFocused(t) /\ SelOK(t)
  BY <1>1, FocusIs
<1> HIDE DEF t
<1>3. Managed(t) = Managed(s)
  BY <1>2, SameSets
<1>4. t.clientlist = Managed(t)
  BY <1>1, <1>2, <1>3 DEF SameLists
<1>5. Kept(s, t)
  BY <1>2, <1>3, <1>4 DEF Kept, Good, Sound
<1> QED
  BY <1>5 DEF t

(* Quiet functions keep a desktop listed and good. *)
LEMMA QuietListed ==
    ASSUME NEW s, NEW t, Quiet(s, t)
    PROVE  /\ Listed(s) => Listed(t) /\ Managed(t) = Managed(s)
           /\ Good(s) => Kept(s, t)
BY QuietKeeps DEF Quiet, SameLists, Listed, Good, Kept

(* The window that is found by the focus commands is one of those sought.  *)
LEMMA FoundIn ==
    ASSUME NEW s \in Desktop, NEW c \in Window, NEW list \in Seq(Window), NEW S
    PROVE  /\ FirstIn(list, S) \in S \cup {NoWin}
           /\ LastIn(list, S) \in S \cup {NoWin}
           /\ c \in Members(list) =>
                 /\ FirstIn(After(list, c), S) \in S \cup {NoWin}
                 /\ LastIn(Before(list, c), S) \in S \cup {NoWin}
<1>1. \A l \in Seq(Window) : FirstIn(l, S) \in S \cup {NoWin} /\ LastIn(l, S) \in S \cup {NoWin}
  BY FirstInIs, LastInIs
<1>2. ASSUME c \in Members(list)
      PROVE  After(list, c) \in Seq(Window) /\ Before(list, c) \in Seq(Window)
  <2> DEFINE p == PositionOf(list, c)
  <2>1. p \in 1..Len(list)
    BY <1>2, PositionIn
  <2>2. Len(list) \in Nat
    BY LenProperties
  <2> HIDE DEF p
  <2>3. p + 1 \in 1..(Len(list) + 1) /\ 1 \in 1..(Len(list) + 1)
        /\ p - 1 \in 0..Len(list) /\ Len(list) \in 0..Len(list)
    BY <2>1, <2>2
  <2>4. SubSeq(list, p + 1, Len(list)) \in Seq(Window) /\ SubSeq(list, 1, p - 1) \in Seq(Window)
    BY <2>3, SubSeqMembers
  <2> QED
    BY <2>4 DEF After, Before, p
<1> QED
  BY <1>1, <1>2

(* The clients that are shown, usable or tiled are managed. *)
LEMMA SetsOf ==
    ASSUME NEW s
    PROVE  Visible(s) \subseteq Managed(s) /\ Usable(s) \subseteq Managed(s) /\ Tiled(s) \subseteq Managed(s)
BY DEF Visible, Usable, Tiled

(* What is known of sel and of a client of a good desktop.                 *)
LEMMA GoodIs ==
    ASSUME NEW s, Good(s)
    PROVE  /\ s \in Desktop /\ Sound(s) /\ Listed(s)
           /\ s.selmon \in Mon /\ s.selmon \in Mons(s) /\ s.mons \in Mon
           /\ s.sel[s.selmon] \in Managed(s) \cup {NoWin}
           /\ s.sel[s.selmon] # NoWin => s.cl[s.sel[s.selmon]].mon = s.selmon
           /\ \A m \in Mon : s.sel[m] # NoWin => s.sel[m] \in Members(s.clients[m])
           /\ \A c \in Managed(s) : /\ s.cl[c].mon \in Mon /\ s.cl[c].mon \in Mons(s)
                                    /\ c \in Members(s.clients[s.cl[c].mon])
                                    /\ c \in Members(s.stack[s.cl[c].mon])
           /\ \A m \in Mon : s.clients[m] \in Seq(Window) /\ s.stack[m] \in Seq(Window)
<1>1. s \in Desktop /\ Sound(s) /\ Listed(s) /\ LinkedBut(s, {}) /\ Placed(s) /\ SelOK(s)
  BY DEF Good, Sound, Listed
<1>2. s.selmon \in Mon /\ s.selmon \in Mons(s) /\ s.mons \in Mon
  BY <1>1, Fields DEF Placed
<1>3. \A m \in Mon : s.clients[m] \in Seq(Window) /\ s.stack[m] \in Seq(Window)
  BY <1>1, Fields
<1>4. \A c \in Managed(s) : /\ s.cl[c].mon \in Mon /\ s.cl[c].mon \in Mons(s)
                            /\ c \in Members(s.clients[s.cl[c].mon])
                            /\ c \in Members(s.stack[s.cl[c].mon])
  <2> TAKE c \in Managed(s)
  <2>1. s.cl[c].mon \in Mon /\ s.cl[c].mon \in Mons(s) /\ c \in On(s, s.cl[c].mon)
    BY <1>1, MonOf DEF Placed, On
  <2> QED
    BY <1>1, <2>1 DEF LinkedBut
<1>5. \A m \in Mon : s.sel[m] # NoWin => s.sel[m] \in Members(s.clients[m])
  BY <1>1 DEF SelOK
<1>6. s.sel[s.selmon] # NoWin => s.sel[s.selmon] \in Window /\ s.cl[s.sel[s.selmon]].mon = s.selmon
  BY <1>1, <1>2, <1>5 DEF LinkedBut, On
<1>7. s.sel[s.selmon] \in Managed(s) \cup {NoWin}
  BY <1>2, <1>6, MonRange DEF Managed
<1> QED
  BY <1>1, <1>2, <1>3, <1>4, <1>5, <1>6, <1>7

(* There are never more monitors than MaxMon. *)
LEMMA MonsAreMon ==
    ASSUME NEW s \in Desktop
    PROVE  Mons(s) \subseteq Mon
BY Fields, DwmAssumption DEF Mons, Mon

(* Another monitor is selected. *)
LEMMA SelmonListed ==
    ASSUME NEW s, Listed(s), NEW m \in Mons(s)
    PROVE  LET t == [s EXCEPT !.selmon = m]
           IN  Listed(t) /\ Managed(t) = Managed(s) /\ t.cl = s.cl
<1> DEFINE t == [s EXCEPT !.selmon = m]
<1>1. s \in Desktop /\ Sound(s) /\ s.clientlist = Managed(s)
  BY DEF Listed, Sound
<1>2. m \in Mon
  BY <1>1, MonsAreMon
<1>3. /\ t \in Desktop /\ t.mons = s.mons /\ t.selmon = m /\ SameLists(s, t)
      /\ t.stack = s.stack /\ t.sel = s.sel /\ t.cl = s.cl
  BY <1>1, <1>2 DEF Desktop, SameLists
<1> HIDE DEF t
<1>4. t.selmon \in Mons(t)
  BY <1>3 DEF Mons
<1>5. \A w \in Managed(s) : t.cl[w].tags # {}
  BY <1>1, <1>3 DEF Sound, Placed
<1>6. Sound(t) /\ Managed(t) = Managed(s)
  BY <1>1, <1>3, <1>4, <1>5, SoundFrom
<1> QED
  BY <1>1, <1>3, <1>6 DEF Listed, SameLists, t

(* A change of what a monitor views. *)
LEMMA ViewListed ==
    ASSUME NEW s, Listed(s), NEW t \in Desktop, t.mons = s.mons, t.selmon = s.selmon,
           SameLists(s, t), t.stack = s.stack, t.sel = s.sel, t.cl = s.cl
    PROVE  Listed(t) /\ Managed(t) = Managed(s)
<1>1. Sound(s) /\ s.clientlist = Managed(s)
  BY DEF Listed
<1>2. t.selmon \in Mons(t) /\ \A w \in Managed(s) : t.cl[w].tags # {}
  BY <1>1 DEF Sound, Placed, Mons
<1>3. Sound(t) /\ Managed(t) = Managed(s)
  BY <1>1, <1>2, SoundFrom
<1> QED
  BY <1>1, <1>3 DEF Listed, SameLists

(* A change of the tags of a client. *)
LEMMA TagsListed ==
    ASSUME NEW s, Listed(s), NEW c \in Managed(s), NEW tags \in (SUBSET Tag) \ {{}}
    PROVE  LET t == [s EXCEPT !.cl[c].tags = tags]
           IN  Listed(t) /\ Managed(t) = Managed(s)
<1> DEFINE r == [s.cl[c] EXCEPT !.tags = tags]
           t == [s EXCEPT !.cl[c] = r]
<1>1. s \in Desktop /\ Sound(s) /\ s.clientlist = Managed(s) /\ c \in Window
  BY DEF Listed, Sound, Managed
<1>2. s.cl[c] \in ClientRec
  BY <1>1, Fields
<1>3. r \in ClientRec /\ r.mon = s.cl[c].mon /\ r.tags = tags
  BY <1>2 DEF ClientRec
<1> HIDE DEF r
<1>4. /\ t \in Desktop /\ t.mons = s.mons /\ t.selmon = s.selmon /\ SameLists(s, t)
      /\ t.stack = s.stack /\ t.sel = s.sel /\ t.cl = [s.cl EXCEPT ![c] = r]
  BY <1>1, <1>3 DEF Desktop, SameLists
<1>5. s.cl \in [Window -> ClientRec]
  BY <1>1, Fields
<1> HIDE DEF t
<1>6. \A w \in Window : t.cl[w] = IF w = c THEN r ELSE s.cl[w]
  BY <1>1, <1>4, <1>5
<1>7. t.selmon \in Mons(t)
  BY <1>1, <1>4 DEF Sound, Placed, Mons
<1>8. \A w \in Window : t.cl[w].mon = s.cl[w].mon
  BY <1>3, <1>6
<1>9. \A w \in Managed(s) : t.cl[w].tags # {}
  BY <1>1, <1>3, <1>6 DEF Sound, Placed, Managed
<1>10. Sound(t) /\ Managed(t) = Managed(s)
  BY <1>1, <1>4, <1>7, <1>8, <1>9, SoundFrom
<1>11. Listed(t)
  BY <1>1, <1>4, <1>10 DEF Listed, SameLists
<1>12. [s EXCEPT !.cl[c].tags = tags] = t
  BY DEF t, r
<1> QED
  BY <1>10, <1>11, <1>12

(* One function after another. *)
LEMMA KeptTrans ==
    ASSUME NEW s, NEW t, NEW u, Kept(s, t), Kept(t, u)
    PROVE  Kept(s, u)
BY DEF Kept

(* A change of what the desktop is, then a focus. *)
LEMMA FocusAfter ==
    ASSUME NEW s, NEW t, Listed(t), Managed(t) = Managed(s), NEW c \in Managed(s) \cup {NoWin}
    PROVE  Kept(s, focus(t, c))
BY FocusKeeps DEF Kept

(* A click on another monitor and the pointer entering one select it. *)
LEMMA SelectMonitorKeeps ==
    ASSUME NEW s, Good(s), NEW m \in Mons(s)
    PROVE  Kept(s, select_monitor(s, m))
<1> DEFINE u == unfocus(s, s.sel[s.selmon], TRUE)
           v == [u EXCEPT !.selmon = m]
<1>1. s \in Desktop /\ Listed(s)
  BY GoodIs
<1>2. Quiet(s, u)
  BY <1>1, QuietUnfocus
<1> HIDE DEF u
<1>3. Listed(u) /\ Managed(u) = Managed(s) /\ Mons(u) = Mons(s)
  BY <1>1, <1>2, QuietListed DEF Quiet, SameViews, Mons
<1>4. Listed(v) /\ Managed(v) = Managed(s)
  BY <1>3, SelmonListed
<1> HIDE DEF v
<1>5. Kept(s, focus(v, NoWin))
  BY <1>4, FocusAfter
<1>6. select_monitor(s, m) = IF m = s.selmon THEN s ELSE focus(v, NoWin)
  BY DEF select_monitor, v, u
<1>7. Kept(s, s)
  BY DEF Kept
<1> QED
  BY <1>5, <1>6, <1>7

(* view and toggleview: the view never becomes empty, and focus() follows  *)
(* it.                                                                     *)
LEMMA ViewKeeps ==
    ASSUME NEW s, Good(s), NEW mask \in SUBSET Tag
    PROVE  Kept(s, view(s, mask)) /\ Kept(s, toggleview(s, mask))
<1> DEFINE m == s.selmon
           i == 1 - s.seltags[m]
           T == IF mask # {} THEN mask ELSE s.tagset[m][i]
           u == [s EXCEPT !.seltags[m] = i, !.tagset[m][i] = T]
           U == Toggled(Shown(s, m), mask)
           v == [s EXCEPT !.tagset[m][s.seltags[m]] = U]
<1>1. s \in Desktop /\ Listed(s) /\ m \in Mon
  BY GoodIs
<1>2. s.seltags[m] \in 0..1 /\ s.tagset[m] \in [0..1 -> (SUBSET Tag) \ {{}}]
  BY <1>1, Fields
<1>3. i \in 0..1 /\ T \in (SUBSET Tag) \ {{}} /\ U \in SUBSET Tag
  BY <1>2 DEF Toggled, Shown
<1>4. view(s, mask) = IF mask = Shown(s, m) THEN s ELSE focus(u, NoWin)
  BY <1>1 DEF view, Desktop
<1>5. toggleview(s, mask) = IF U = {} THEN s ELSE focus(v, NoWin)
  BY DEF toggleview
<1> HIDE DEF T, U, m, i
<1>6. /\ u \in Desktop /\ u.mons = s.mons /\ u.selmon = s.selmon
      /\ SameLists(s, u) /\ u.stack = s.stack /\ u.sel = s.sel /\ u.cl = s.cl
  BY <1>1, <1>3 DEF Desktop, SameLists
<1>7. U # {} => /\ v \in Desktop /\ v.mons = s.mons /\ v.selmon = s.selmon
                /\ SameLists(s, v) /\ v.stack = s.stack /\ v.sel = s.sel /\ v.cl = s.cl
  BY <1>1, <1>2, <1>3 DEF Desktop, SameLists
<1> HIDE DEF u, v
<1>8. Kept(s, focus(u, NoWin))
  <2>1. Listed(u) /\ Managed(u) = Managed(s)
    BY <1>1, <1>6, ViewListed
  <2> QED
    BY <2>1, FocusAfter
<1>9. U # {} => Kept(s, focus(v, NoWin))
  <2>1. U # {} => Listed(v) /\ Managed(v) = Managed(s)
    BY <1>1, <1>7, ViewListed
  <2> QED
    BY <2>1, FocusAfter
<1>10. Kept(s, s)
  BY DEF Kept
<1> QED
  BY <1>4, <1>5, <1>8, <1>9, <1>10

(* tag and toggletag: the client keeps a tag. *)
LEMMA TagKeeps ==
    ASSUME NEW s, Good(s), NEW mask \in SUBSET Tag
    PROVE  Kept(s, tag(s, mask)) /\ Kept(s, toggletag(s, mask))
<1> DEFINE c == s.sel[s.selmon]
           U == Toggled(s.cl[c].tags, mask)
           u(T) == [s EXCEPT !.cl[c].tags = T]
<1>1. s \in Desktop /\ Listed(s) /\ c \in Managed(s) \cup {NoWin} /\ Kept(s, s)
  BY GoodIs DEF Kept
<1>2. ASSUME c # NoWin, NEW T \in (SUBSET Tag) \ {{}}
      PROVE  Kept(s, focus(u(T), NoWin))
  <2> HIDE DEF c
  <2>1. Listed(u(T)) /\ Managed(u(T)) = Managed(s)
    BY <1>1, <1>2, TagsListed
  <2> QED
    BY <2>1, FocusAfter
<1>3. tag(s, mask) = IF c = NoWin \/ mask = {} THEN s ELSE focus(u(mask), NoWin)
  BY DEF tag
<1>4. toggletag(s, mask) = IF c = NoWin \/ U = {} THEN s ELSE focus(u(U), NoWin)
  BY DEF toggletag
<1>5. c # NoWin => U \in SUBSET Tag
  <2>1. c # NoWin => c \in Window
    BY <1>1 DEF Managed
  <2>2. c # NoWin => s.cl[c] \in ClientRec
    BY <1>1, <2>1, Fields
  <2> HIDE DEF c
  <2> QED
    BY <2>2, ClientFields DEF Toggled
<1> HIDE DEF c, U, u
<1> QED
  BY <1>1, <1>2, <1>3, <1>4, <1>5

(* focusstack: the next or previous usable client is one of the monitor. *)
LEMMA FocusStackKeeps ==
    ASSUME NEW s, Good(s), NEW forward \in BOOLEAN
    PROVE  Kept(s, focusstack(s, forward))
<1> DEFINE c == s.sel[s.selmon]
           list == s.clients[s.selmon]
           ahead == FirstIn(After(list, c), Usable(s))
           back  == LastIn(Before(list, c), Usable(s))
           t == IF forward THEN IF ahead # NoWin THEN ahead ELSE FirstIn(list, Usable(s))
                ELSE IF back # NoWin THEN back ELSE LastIn(list, Usable(s))
<1>1. /\ s \in Desktop /\ Listed(s) /\ s.selmon \in Mon /\ list \in Seq(Window)
      /\ c # NoWin => c \in Members(list)
      /\ c \in Managed(s) \cup {NoWin} /\ Usable(s) \subseteq Managed(s)
  BY GoodIs, SetsOf
<1>2. c # NoWin => c \in Window
  BY <1>1 DEF Managed
<1>3. focusstack(s, forward) =
          IF c = NoWin \/ s.cl[c].isfullscreen \/ t = NoWin THEN s ELSE focus(s, t)
  BY DEF focusstack
<1> HIDE DEF c, list
<1>4. c # NoWin => /\ ahead \in Usable(s) \cup {NoWin} /\ back \in Usable(s) \cup {NoWin}
                   /\ FirstIn(list, Usable(s)) \in Usable(s) \cup {NoWin}
                   /\ LastIn(list, Usable(s)) \in Usable(s) \cup {NoWin}
  BY <1>1, <1>2, FoundIn
<1>5. c # NoWin => t \in Managed(s) \cup {NoWin}
  BY <1>1, <1>4
<1> HIDE DEF t
<1>6. c # NoWin => Kept(s, focus(s, t))
  BY <1>1, <1>5, FocusKeeps
<1>7. Kept(s, s)
  BY DEF Kept
<1> QED
  BY <1>3, <1>6, <1>7

(* dirtomon wraps around the monitors that are there. *)
LEMMA DirToMon ==
    ASSUME NEW s \in Desktop, s.selmon \in Mons(s), NEW dir \in {-1, 1}
    PROVE  dirtomon(s, dir) \in Mons(s)
<1>1. s.mons \in Nat /\ s.selmon \in Nat /\ 1 <= s.selmon /\ s.selmon <= s.mons
  BY Fields, DwmAssumption DEF Mon, Mons
<1>2. CASE dir = 1
  BY <1>1, <1>2 DEF dirtomon, Mons
<1>3. CASE dir = -1
  BY <1>1, <1>3 DEF dirtomon, Mons
<1> QED
  BY <1>2, <1>3

(* focusmon selects a monitor that is there. *)
LEMMA FocusMonKeeps ==
    ASSUME NEW s, Good(s), NEW dir \in {-1, 1}
    PROVE  Kept(s, focusmon(s, dir))
<1> DEFINE t == [s EXCEPT !.selmon = dirtomon(s, dir)]
<1>1. s \in Desktop /\ Listed(s) /\ Kept(s, s) /\ s.selmon \in Mons(s)
  BY GoodIs DEF Kept
<1>2. dirtomon(s, dir) \in Mons(s)
  BY <1>1, DirToMon
<1>3. Listed(t) /\ Managed(t) = Managed(s)
  BY <1>1, <1>2, SelmonListed
<1>4. focusmon(s, dir) = IF s.mons = 1 THEN s ELSE focus(t, NoWin)
  BY DEF focusmon
<1> HIDE DEF t
<1>5. Kept(s, focus(t, NoWin))
  BY <1>3, FocusAfter
<1> QED
  BY <1>1, <1>4, <1>5

(* hide, and the choice of the client that gets the focus. *)
LEMMA HideKeeps ==
    ASSUME NEW s, Good(s), NEW c \in Managed(s), NEW arranges \in BOOLEAN
    PROVE  Kept(s, hide(s, c, arranges))
<1> DEFINE m  == s.cl[c].mon
           s0 == XUnmapWindow(s, c)
           s1 == setclientstate(s0, c, "Iconic")
           below    == FirstIn(After(s.stack[m], c), Usable(s1))
           nexttiled == FirstIn(After(s.clients[m], c), Tiled(s1))
           prevtiled == LastIn(Before(s.clients[m], c), Usable(s1))
           top == FirstIn(s.stack[m], Usable(s1))
           n == IF s.cl[c].isfloating \/ ~arranges
                THEN IF below # NoWin THEN below ELSE top
                ELSE IF nexttiled # NoWin THEN nexttiled ELSE prevtiled
<1>1. /\ s \in Desktop /\ Listed(s) /\ m \in Mon /\ c \in Window
      /\ s.clients[m] \in Seq(Window) /\ s.stack[m] \in Seq(Window)
      /\ c \in Members(s.clients[m]) /\ c \in Members(s.stack[m])
  BY GoodIs DEF Managed
<1>2. Quiet(s, s0)
  BY <1>1, QuietX
<1>3. hide(s, c, arranges) = IF HIDDEN(s, c) THEN s ELSE focus(s1, n)
  BY DEF hide
<1> HIDE DEF s0, m
<1>4. Quiet(s0, s1)
  BY <1>1, <1>2, QuietX DEF Quiet
<1> HIDE DEF s1
<1>5. Listed(s1) /\ Managed(s1) = Managed(s)
  <2>1. Quiet(s, s1)
    BY <1>2, <1>4, QuietTrans
  <2> QED
    BY <1>1, <2>1, QuietListed
<1>6. /\ below \in Usable(s1) \cup {NoWin} /\ nexttiled \in Tiled(s1) \cup {NoWin}
      /\ prevtiled \in Usable(s1) \cup {NoWin} /\ top \in Usable(s1) \cup {NoWin}
  BY <1>1, FoundIn
<1>7. n \in Managed(s) \cup {NoWin}
  BY <1>5, <1>6, SetsOf
<1> HIDE DEF n
<1>8. Kept(s, focus(s1, n))
  BY <1>5, <1>7, FocusAfter
<1>9. Kept(s, s)
  BY DEF Kept
<1> QED
  BY <1>3, <1>8, <1>9

(* show and focus, as togglewin and the client menu call them. *)
LEMMA ShowKeeps ==
    ASSUME NEW s, Good(s), NEW c \in Managed(s)
    PROVE  Kept(s, focus(show(s, c), c))
<1> DEFINE s0 == XMapWindow(s, c)
           s1 == setclientstate(s0, c, "Normal")
<1>1. s \in Desktop /\ Listed(s) /\ c \in Window
  BY GoodIs DEF Managed
<1>2. show(s, c) = IF HIDDEN(s, c) THEN s1 ELSE s
  BY DEF show
<1>3. Quiet(s, s0)
  BY <1>1, QuietX
<1> HIDE DEF s0
<1>4. Quiet(s0, s1)
  BY <1>1, <1>3, QuietX DEF Quiet
<1> HIDE DEF s1
<1>5. Listed(s1) /\ Managed(s1) = Managed(s)
  <2>1. Quiet(s, s1)
    BY <1>3, <1>4, QuietTrans
  <2> QED
    BY <1>1, <2>1, QuietListed
<1>6. Kept(s, focus(s1, c)) /\ Kept(s, focus(s, c))
  BY <1>1, <1>5, FocusAfter
<1> QED
  BY <1>2, <1>6

(* togglewin and the client menu hide or show a client. *)
LEMMA ToggleWinKeeps ==
    ASSUME NEW s, Good(s), NEW c \in Managed(s), NEW arranges \in BOOLEAN
    PROVE  Kept(s, togglewin(s, c, arranges)) /\ Kept(s, showhideclient(s, c, arranges))
BY HideKeeps, ShowKeeps DEF togglewin, showhideclient

-----------------------------------------------------------------------------
(* Clients that leave their lists and enter others.                        *)

(* detach takes c out of the list of clients of its monitor. *)
LEMMA DetachClientIs ==
    ASSUME NEW s \in Desktop, NEW c \in Managed(s),
           c \in Members(s.clients[s.cl[c].mon]), Distinct(s.clients[s.cl[c].mon])
    PROVE  LET m == s.cl[c].mon
               t == detach_client(s, c)
           IN  /\ t \in Desktop /\ SameViews(s, t) /\ SameClients(s, t)
               /\ t.selmon = s.selmon /\ t.sel = s.sel /\ t.stack = s.stack
               /\ t.clientlist = s.clientlist
               /\ t.clients = With(s.clients, m, detach(s.clients[m], c))
<1> DEFINE m == s.cl[c].mon
           list == detach(s.clients[m], c)
           r == [s.cl[c] EXCEPT !.idx = 0]
           u == [s EXCEPT !.clients[m] = list]
           t == [u EXCEPT !.cl[c] = r]
<1>1. m \in Mon /\ c \in Window /\ s.cl[c] \in ClientRec
  BY MonOf, Fields
<1>2. s.clients[m] \in Seq(Window)
  BY <1>1, Fields
<1>3. list \in Seq(Window)
  BY <1>2, DetachMembers
<1>4. r \in ClientRec /\ r.mon = s.cl[c].mon /\ r.tags = s.cl[c].tags
  BY <1>1, IdxOf
<1>5. detach_client(s, c) = t
  BY DEF detach_client, Desktop
<1> HIDE DEF list, m
<1>6. /\ u \in Desktop /\ SameViews(s, u) /\ SameClients(s, u)
      /\ u.selmon = s.selmon /\ u.sel = s.sel /\ u.cl = s.cl /\ u.stack = s.stack
      /\ u.clientlist = s.clientlist
      /\ u.clients = With(s.clients, m, list)
  BY <1>1, <1>3, PutClients, SMTT(30)
<1> HIDE DEF u, r
<1>7. Quiet(u, t)
  BY <1>1, <1>4, <1>6, QuietFlags
<1> HIDE DEF t
<1>8. SameViews(s, t) /\ SameClients(s, t)
  BY <1>6, <1>7 DEF Quiet, SameViews, SameClients
<1>9. /\ t \in Desktop /\ t.selmon = s.selmon /\ t.sel = s.sel /\ t.stack = s.stack
      /\ t.clientlist = s.clientlist /\ t.clients = With(s.clients, m, list)
  BY <1>6, <1>7 DEF Quiet, SameLists
<1> QED
  BY <1>5, <1>8, <1>9 DEF m, list

(* attach puts c at the head of the clients of its monitor. *)
LEMMA AttachClientIs ==
    ASSUME NEW s \in Desktop, NEW c \in Window, s.cl[c].mon \in Mon
    PROVE  LET m == s.cl[c].mon
               t == attach_client(s, c)
           IN  /\ t \in Desktop /\ SameViews(s, t) /\ SameClients(s, t)
               /\ t.selmon = s.selmon /\ t.sel = s.sel /\ t.stack = s.stack /\ t.cl = s.cl
               /\ t.clientlist = s.clientlist
               /\ t.clients = With(s.clients, m, attach(s.clients[m], c))
<1> DEFINE m == s.cl[c].mon
           list == attach(s.clients[m], c)
<1>1. list \in Seq(Window)
  <2>1. s.clients[m] \in Seq(Window)
    BY Fields
  <2> QED
    BY <2>1, AttachMembers
<1>2. attach_client(s, c) = [s EXCEPT !.clients[m] = list]
  BY Zenon DEF attach_client
<1> HIDE DEF list, m
<1> QED
  BY <1>1, <1>2, PutClients DEF list, m

(* detach and detachstack, as unmanage and sendmon call them. *)
Out(s, c) == detachstack(detach_client(s, c), c)

(* Then c is in no list, and no sel points to it. *)
LEMMA OutIs ==
    ASSUME NEW s, s \in Desktop, LinkedBut(s, {}), SelOK(s), NEW c \in Managed(s)
    PROVE  LET t == Out(s, c)
           IN  /\ t \in Desktop /\ SameViews(s, t) /\ SameClients(s, t)
               /\ t.selmon = s.selmon /\ t.clientlist = s.clientlist
               /\ LinkedBut(t, {c}) /\ SelOK(t)
<1> DEFINE m == s.cl[c].mon
           u == detach_client(s, c)
           t == Out(s, c)
           list == detach(s.clients[m], c)
           stk == detach(s.stack[m], c)
<1>1. m \in Mon /\ c \in Window
  BY MonOf
<1>2. /\ s.clients \in [Mon -> Seq(Window)] /\ s.stack \in [Mon -> Seq(Window)]
      /\ s.sel \in [Mon -> Window \cup {NoWin}]
  BY Fields
<1>3. /\ c \in Members(s.clients[m]) /\ Distinct(s.clients[m])
      /\ c \in Members(s.stack[m]) /\ Distinct(s.stack[m])
      /\ Members(s.stack[m]) = Members(s.clients[m])
  BY <1>1 DEF LinkedBut, On
<1>4. /\ u \in Desktop /\ SameViews(s, u) /\ SameClients(s, u)
      /\ u.selmon = s.selmon /\ u.sel = s.sel /\ u.stack = s.stack
      /\ u.clientlist = s.clientlist
      /\ u.clients = With(s.clients, m, list)
  BY <1>3, DetachClientIs
<1>5. u.cl[c].mon = m
  BY <1>1, <1>4 DEF SameClients
<1>6. c \in Managed(u)
  BY <1>4, SameSets
<1>7. t = detachstack(u, c)
  BY DEF Out
<1> HIDE DEF u, m, t
<1>8. /\ t \in Desktop /\ SameViews(u, t) /\ SameClients(u, t) /\ SameLists(u, t)
      /\ t.selmon = u.selmon
      /\ t.stack = With(u.stack, m, detach(u.stack[m], c))
      /\ t.sel = With(u.sel, m, t.sel[m])
      /\ t.sel[m] # c
      /\ t.sel[m] \in {u.sel[m], NoWin} \cup (Members(u.stack[m]) \ {c})
  <2>1. c \in Members(u.stack[u.cl[c].mon]) /\ Distinct(u.stack[u.cl[c].mon])
    BY <1>3, <1>4, <1>5
  <2> QED
    BY <1>4, <1>5, <1>6, <1>7, <2>1, DetachstackIs
<1>9. /\ t.stack = With(s.stack, m, stk)
      /\ t.clients = With(s.clients, m, list)
      /\ t.selmon = s.selmon /\ t.clientlist = s.clientlist
  BY <1>4, <1>8 DEF SameLists
<1>10. SameViews(s, t) /\ SameClients(s, t)
  BY <1>4, <1>8 DEF SameViews, SameClients
<1>11. \A n \in Mon : On(t, n) = On(s, n)
  BY <1>10, SameSets
<1>12. /\ Members(list) = Members(s.clients[m]) \ {c} /\ Distinct(list)
       /\ Members(stk) = Members(s.stack[m]) \ {c} /\ Distinct(stk)
  BY <1>1, <1>2, <1>3, DetachMembers
<1> HIDE DEF list, stk
<1>13. LinkedBut(t, {c})
  <2> SUFFICES ASSUME NEW n \in Mon
               PROVE  /\ Distinct(t.clients[n]) /\ Members(t.clients[n]) = On(s, n) \ {c}
                      /\ Distinct(t.stack[n])   /\ Members(t.stack[n])   = On(s, n) \ {c}
    BY <1>11 DEF LinkedBut
  <2>1. /\ Distinct(s.clients[n]) /\ Members(s.clients[n]) = On(s, n)
        /\ Distinct(s.stack[n])   /\ Members(s.stack[n])   = On(s, n)
    BY DEF LinkedBut
  <2>2. CASE n = m
    <3>1. t.clients[n] = list /\ t.stack[n] = stk
      BY <1>1, <1>2, <1>9, <2>2 DEF With
    <3> QED
      BY <1>12, <2>1, <2>2, <3>1
  <2>3. CASE n # m
    <3>1. t.clients[n] = s.clients[n] /\ t.stack[n] = s.stack[n]
      BY <1>1, <1>2, <1>9, <2>3 DEF With
    <3>2. c \notin On(s, n)
      BY <2>3 DEF On, m
    <3> QED
      BY <2>1, <3>1, <3>2
  <2> QED
    BY <2>2, <2>3
<1>14. SelOK(t)
  <2> SUFFICES ASSUME NEW n \in Mon, t.sel[n] # NoWin PROVE t.sel[n] \in Members(t.clients[n])
    BY DEF SelOK
  <2>1. s.sel[n] # NoWin => s.sel[n] \in Members(s.clients[n])
    BY DEF SelOK
  <2>2. CASE n = m
    <3>1. t.clients[n] = list
      BY <1>1, <1>2, <1>9, <2>2 DEF With
    <3>2. t.sel[m] \in {s.sel[m]} \cup (Members(s.stack[m]) \ {c}) /\ t.sel[m] # c
      BY <1>4, <1>8, <2>2
    <3> QED
      BY <1>3, <1>12, <2>1, <2>2, <3>1, <3>2
  <2>3. CASE n # m
    <3>1. t.clients[n] = s.clients[n]
      BY <1>1, <1>2, <1>9, <2>3 DEF With
    <3>2. t.sel[n] = s.sel[n]
      BY <1>1, <1>2, <1>4, <1>8, <2>3 DEF With
    <3> QED
      BY <2>1, <3>1, <3>2
  <2> QED
    BY <2>2, <2>3
<1> QED
  BY <1>8, <1>9, <1>10, <1>13, <1>14 DEF t

(* c enters the lists of its monitor.                                      *)
LEMMA EntersLists ==
    ASSUME NEW s \in Desktop, NEW t, NEW c \in Window, NEW m \in Mon, s.cl[c].mon = m,
           LinkedBut(s, {c}), SameClients(s, t),
           NEW list \in Seq(Window), NEW stk \in Seq(Window),
           t.clients = With(s.clients, m, list), t.stack = With(s.stack, m, stk),
           Members(list) = Members(s.clients[m]) \cup {c}, Distinct(list),
           Members(stk) = Members(s.stack[m]) \cup {c}, Distinct(stk)
    PROVE  LinkedBut(t, {})
<1>1. s.clients \in [Mon -> Seq(Window)] /\ s.stack \in [Mon -> Seq(Window)]
  BY Fields
<1>2. \A n \in Mon : On(t, n) = On(s, n)
  BY SameSets
<1> SUFFICES ASSUME NEW n \in Mon
             PROVE  /\ Distinct(t.clients[n]) /\ Members(t.clients[n]) = On(s, n)
                    /\ Distinct(t.stack[n])   /\ Members(t.stack[n])   = On(s, n)
  BY <1>2 DEF LinkedBut
<1>3. /\ Distinct(s.clients[n]) /\ Members(s.clients[n]) = On(s, n) \ {c}
      /\ Distinct(s.stack[n])   /\ Members(s.stack[n])   = On(s, n) \ {c}
  BY DEF LinkedBut
<1>4. CASE n = m
  <2>1. t.clients[n] = list /\ t.stack[n] = stk
    BY <1>1, <1>4 DEF With
  <2>2. c \in On(s, n)
    BY <1>4 DEF On
  <2>3. Members(list) = (On(s, n) \ {c}) \cup {c} /\ Members(stk) = (On(s, n) \ {c}) \cup {c}
    BY <1>3, <1>4
  <2>4. (On(s, n) \ {c}) \cup {c} = On(s, n)
    BY <2>2
  <2> QED
    BY <2>1, <2>3, <2>4
<1>5. CASE n # m
  <2>1. t.clients[n] = s.clients[n] /\ t.stack[n] = s.stack[n]
    BY <1>1, <1>5 DEF With
  <2>2. c \notin On(s, n)
    BY <1>5 DEF On
  <2> QED
    BY <1>3, <2>1, <2>2, ZenonT(60)
<1> QED
  BY <1>4, <1>5

(* AttachMembers of a client that is in no list. *)
LEMMA AttachNew ==
    ASSUME NEW list \in Seq(Window), NEW c \in Window, Distinct(list), c \notin Members(list)
    PROVE  /\ attach(list, c) \in Seq(Window) /\ Distinct(attach(list, c))
           /\ Members(attach(list, c)) = Members(list) \cup {c}
BY AttachMembers

(* attach and attachstack, as sendmon calls them. *)
In(s, c) == attachstack(attach_client(s, c), c)

(* Then c is in the lists of its monitor. *)
LEMMA InIs ==
    ASSUME NEW s \in Desktop, NEW c \in Window, s.cl[c].mon \in Mon, LinkedBut(s, {c})
    PROVE  LET t == In(s, c)
           IN  /\ t \in Desktop /\ SameViews(s, t) /\ SameClients(s, t)
               /\ t.selmon = s.selmon /\ t.clientlist = s.clientlist
               /\ LinkedBut(t, {})
               /\ SelOK(s) => SelOK(t)
<1> DEFINE m == s.cl[c].mon
           u == attach_client(s, c)
           t == In(s, c)
           list == attach(s.clients[m], c)
           stk == attach(s.stack[m], c)
<1>1. /\ s.clients \in [Mon -> Seq(Window)] /\ s.stack \in [Mon -> Seq(Window)]
      /\ s.sel \in [Mon -> Window \cup {NoWin}] /\ m \in Mon
  BY Fields
<1>2. /\ u \in Desktop /\ SameViews(s, u) /\ SameClients(s, u)
      /\ u.selmon = s.selmon /\ u.sel = s.sel /\ u.stack = s.stack /\ u.cl = s.cl
      /\ u.clientlist = s.clientlist
      /\ u.clients = With(s.clients, m, list)
  BY AttachClientIs
<1>3. t = attachstack(u, c) /\ u.cl[c].mon = m
  BY <1>2 DEF In
<1>4. c \notin Members(s.clients[m]) /\ c \notin Members(s.stack[m])
      /\ Distinct(s.clients[m]) /\ Distinct(s.stack[m])
  BY <1>1 DEF LinkedBut
<1> HIDE DEF u, t, m
<1>5. /\ t \in Desktop /\ SameViews(u, t) /\ SameClients(u, t) /\ SameLists(u, t)
      /\ t.selmon = u.selmon /\ t.sel = u.sel
      /\ t.stack = With(u.stack, m, attach(u.stack[m], c))
  BY <1>1, <1>2, <1>3, AttachstackIs
<1>6. /\ t.clients = With(s.clients, m, list) /\ t.stack = With(s.stack, m, stk)
      /\ t.selmon = s.selmon /\ t.sel = s.sel /\ t.clientlist = s.clientlist
  BY <1>2, <1>5 DEF SameLists
<1>7. SameViews(s, t) /\ SameClients(s, t)
  BY <1>2, <1>5 DEF SameViews, SameClients
<1>8. /\ list \in Seq(Window) /\ Members(list) = Members(s.clients[m]) \cup {c} /\ Distinct(list)
      /\ stk \in Seq(Window) /\ Members(stk) = Members(s.stack[m]) \cup {c} /\ Distinct(stk)
  <2>1. s.clients[m] \in Seq(Window) /\ s.stack[m] \in Seq(Window)
    BY <1>1
  <2> QED
    BY <1>4, <2>1, AttachNew
<1> HIDE DEF list, stk
<1>9. LinkedBut(t, {})
  <2>1. s.cl[c].mon = m
    BY DEF m
  <2> QED
    BY <1>1, <1>6, <1>7, <1>8, <2>1, EntersLists
<1>10. SelOK(s) => SelOK(t)
  <2> SUFFICES ASSUME SelOK(s), NEW n \in Mon, t.sel[n] # NoWin PROVE t.sel[n] \in Members(t.clients[n])
    BY DEF SelOK
  <2>1. s.sel[n] \in Members(s.clients[n])
    BY <1>6 DEF SelOK
  <2>2. t.clients[n] = IF n = m THEN list ELSE s.clients[n]
    BY <1>1, <1>6 DEF With
  <2> QED
    BY <1>6, <1>8, <2>1, <2>2
<1> QED
  BY <1>5, <1>6, <1>7, <1>9, <1>10 DEF t

(* The record of a client is written: NULL when it is freed, another       *)
(* monitor and its view when it is sent there.                             *)
LEMMA PutClient ==
    ASSUME NEW s \in Desktop, NEW c \in Window, NEW r \in ClientRec
    PROVE  LET t == [s EXCEPT !.cl[c] = r]
           IN  /\ t \in Desktop /\ SameViews(s, t) /\ SameLists(s, t)
               /\ t.selmon = s.selmon /\ t.sel = s.sel /\ t.stack = s.stack
               /\ \A w \in Window : t.cl[w] = IF w = c THEN r ELSE s.cl[w]
BY DEF Desktop, SameViews, SameLists

(* Writing the record of the client that is in no list leaves the lists as *)
(* they are; a client that is freed is out of them.                        *)
LEMMA PutClientLinks ==
    ASSUME NEW s \in Desktop, NEW c \in Window, NEW t, LinkedBut(s, {c}), SameLists(s, t),
           t.stack = s.stack, NEW r, \A w \in Window : t.cl[w] = IF w = c THEN r ELSE s.cl[w]
    PROVE  LinkedBut(t, {c}) /\ (r.mon = 0 => LinkedBut(t, {}))
<1>1. \A n \in Mon : On(t, n) \ {c} = On(s, n) \ {c}
  BY DEF On
<1>2. r.mon = 0 => \A n \in Mon : On(t, n) = On(s, n) \ {c}
  BY MonRange DEF On
<1> QED
  BY <1>1, <1>2 DEF LinkedBut, SameLists

(* updateclientlist walks the lists of all monitors: that is all clients. *)
LEMMA UpdateclientlistIs ==
    ASSUME NEW s, Sound(s), LastFocused(s)
    PROVE  Kept(s, updateclientlist(s))
<1> DEFINE U == UNION {Members(s.clients[m]) : m \in Mons(s)}
           t == updateclientlist(s)
<1>1. s \in Desktop /\ LinkedBut(s, {}) /\ Placed(s)
  BY DEF Sound
<1>2. \A m \in Mons(s) : m \in Mon /\ Members(s.clients[m]) = On(s, m)
  BY <1>1, MonsAreMon DEF LinkedBut
<1>3. U = Managed(s)
  <2>1. \A m \in Mons(s) : Members(s.clients[m]) \subseteq Managed(s)
    BY <1>2, MonRange DEF On, Managed
  <2>2. ASSUME NEW c \in Managed(s) PROVE \E m \in Mons(s) : c \in Members(s.clients[m])
    <3>1. s.cl[c].mon \in Mons(s) /\ c \in Window
      BY <1>1 DEF Placed, Managed
    <3> QED
      BY <1>2, <3>1 DEF On
  <2> QED
    BY <2>1, <2>2
<1>4. t = [s EXCEPT !.clientlist = U]
  BY DEF updateclientlist
<1> HIDE DEF U
<1>5. U \in SUBSET Window
  BY <1>3 DEF Managed
<1>6. /\ t \in Desktop /\ SameViews(s, t) /\ SameClients(s, t) /\ t.clients = s.clients
      /\ t.stack = s.stack /\ t.sel = s.sel /\ t.selmon = s.selmon /\ t.clientlist = U
  BY <1>1, <1>4, <1>5 DEF Desktop, SameViews, SameClients
<1> HIDE DEF t
<1>7. Managed(t) = Managed(s) /\ Visible(t) = Visible(s) /\ \A m : On(t, m) = On(s, m)
  BY <1>6, SameSets
<1>8. LinkedBut(t, {}) /\ LastFocused(t)
  BY <1>1, <1>6, <1>7 DEF LinkedBut, LastFocused
<1>9. Placed(t)
  BY <1>1, <1>6, <1>7 DEF Placed, SameViews, SameClients, Mons, Managed
<1>10. SelOK(t)
  BY <1>6 DEF Sound, SelOK
<1>11. Good(t)
  BY <1>3, <1>6, <1>7, <1>8, <1>9, <1>10 DEF Good, Sound
<1> QED
  BY <1>7, <1>11 DEF Kept, t

(* unmanage: the client is gone from every list, and sel is another. *)
LEMMA UnmanageKeeps ==
    ASSUME NEW s, Good(s), NEW c \in Managed(s), NEW destroyed \in BOOLEAN
    PROVE  /\ Good(unmanage(s, c, destroyed))
           /\ Managed(unmanage(s, c, destroyed)) = Managed(s) \ {c}
<1> DEFINE s1 == Out(s, c)
           s2 == IF destroyed THEN s1 ELSE setclientstate(s1, c, "Withdrawn")
           s3 == [s2 EXCEPT !.cl[c] = NoClient]
           s4 == focus(s3, NoWin)
           s5 == updateclientlist(s4)
<1>1. s \in Desktop /\ LinkedBut(s, {}) /\ Placed(s) /\ SelOK(s) /\ c \in Window
  BY DEF Good, Sound, Managed
<1>2. unmanage(s, c, destroyed) = s5
  BY DEF unmanage, Out
<1>3. /\ s1 \in Desktop /\ SameViews(s, s1) /\ SameClients(s, s1)
      /\ s1.selmon = s.selmon /\ LinkedBut(s1, {c}) /\ SelOK(s1)
  BY <1>1, OutIs
<1> HIDE DEF s1
<1>4. Quiet(s1, s2)
  BY <1>1, <1>3, QuietX
<1> HIDE DEF s2
<1>5. s2 \in Desktop /\ LinkedBut(s2, {c}) /\ SelOK(s2)
  BY <1>3, <1>4, QuietKeeps DEF Quiet, SelOK, SameLists
<1>6. NoClient \in ClientRec /\ NoClient.mon = 0
  BY DwmAssumption DEF NoClient, ClientRec
<1>7. /\ s3 \in Desktop /\ SameViews(s2, s3) /\ SameLists(s2, s3)
      /\ s3.selmon = s2.selmon /\ s3.sel = s2.sel /\ s3.stack = s2.stack
      /\ \A w \in Window : s3.cl[w] = IF w = c THEN NoClient ELSE s2.cl[w]
  BY <1>1, <1>5, <1>6, PutClient
<1> HIDE DEF s3
<1>8. LinkedBut(s3, {})
  BY <1>1, <1>5, <1>6, <1>7, PutClientLinks
<1>9. SelOK(s3)
  BY <1>5, <1>7 DEF SelOK, SameLists
<1>10. \A w \in Window : w # c => s3.cl[w].mon = s.cl[w].mon /\ s3.cl[w].tags = s.cl[w].tags
  BY <1>3, <1>4, <1>7 DEF Quiet, SameClients
<1>11. Managed(s3) = Managed(s) \ {c}
  BY <1>6, <1>7, <1>10 DEF Managed
<1>12. Mons(s3) = Mons(s) /\ s3.selmon = s.selmon
  BY <1>3, <1>4, <1>7 DEF Quiet, SameViews, Mons
<1>13. Placed(s3)
  BY <1>1, <1>10, <1>11, <1>12 DEF Placed, Managed
<1>14. /\ s4 \in Desktop /\ SameClients(s3, s4) /\ LinkedBut(s4, {}) /\ Placed(s4)
       /\ LastFocused(s4) /\ SelOK(s4)
  BY <1>7, <1>8, <1>9, <1>13, FocusIs
<1> HIDE DEF s4
<1>15. Managed(s4) = Managed(s3)
  BY <1>14, SameSets
<1>16. Kept(s4, s5)
  BY <1>14, UpdateclientlistIs DEF Sound
<1> QED
  BY <1>2, <1>11, <1>15, <1>16 DEF Kept

(* sendmon: the client leaves one monitor and joins another. *)
LEMMA SendmonKeeps ==
    ASSUME NEW s, Good(s), NEW c \in Managed(s), NEW m \in Mons(s)
    PROVE  Kept(s, sendmon(s, c, m)) /\ sendmon(s, c, m).mons = s.mons
<1> DEFINE s0 == unfocus(s, c, TRUE)
           s1 == Out(s0, c)
           r  == [s1.cl[c] EXCEPT !.mon = m, !.tags = Shown(s, m)]
           s2 == [s1 EXCEPT !.cl[c] = r]
           s3 == In(s2, c)
<1>1. /\ s \in Desktop /\ LinkedBut(s, {}) /\ Placed(s) /\ SelOK(s) /\ c \in Window
      /\ m \in Mon /\ s.clientlist = Managed(s)
  BY MonsAreMon DEF Good, Sound, Managed
<1>2. Quiet(s, s0)
  BY <1>1, QuietUnfocus
<1>3. sendmon(s, c, m) = IF s.cl[c].mon = m THEN s ELSE focus(s3, NoWin)
  <2>1. s1.cl \in [Window -> ClientRec] => [s1 EXCEPT !.cl[c].mon = m, !.cl[c].tags = Shown(s, m)] = s2
    BY <1>1
  <2>2. s0 \in Desktop /\ LinkedBut(s0, {}) /\ SelOK(s0) /\ c \in Managed(s0)
    BY <1>1, <1>2, QuietKeeps DEF Quiet, SelOK, SameLists
  <2>3. s1 \in Desktop
    BY <2>2, OutIs
  <2>4. s1.cl \in [Window -> ClientRec]
    BY <2>3, Fields
  <2> DEFINE v == [s1 EXCEPT !.cl[c].mon = m, !.cl[c].tags = Shown(s, m)]
  <2>5. sendmon(s, c, m) = IF s.cl[c].mon = m THEN s ELSE focus(In(v, c), NoWin)
    BY Zenon DEF sendmon, Out, In
  <2>6. v = s2
    BY <2>1, <2>4
  <2> QED
    BY <2>5, <2>6, Zenon
<1> HIDE DEF s0
<1>4. s0 \in Desktop /\ LinkedBut(s0, {}) /\ SelOK(s0) /\ c \in Managed(s0)
  BY <1>1, <1>2, QuietKeeps DEF Quiet, SelOK, SameLists
<1>5. /\ s1 \in Desktop /\ SameViews(s0, s1) /\ SameClients(s0, s1)
      /\ s1.selmon = s0.selmon /\ s1.clientlist = s0.clientlist
      /\ LinkedBut(s1, {c}) /\ SelOK(s1)
  BY <1>4, OutIs
<1> HIDE DEF s1
<1>6. Shown(s, m) \in (SUBSET Tag) \ {{}}
  <2>1. s.tagset[m] \in [0..1 -> (SUBSET Tag) \ {{}}] /\ s.seltags[m] \in 0..1
    BY <1>1, Fields
  <2> QED
    BY <2>1 DEF Shown
<1>7. r \in ClientRec /\ r.mon = m /\ r.tags = Shown(s, m)
  <2>1. s1.cl[c] \in ClientRec
    BY <1>1, <1>5, Fields
  <2> QED
    BY <1>1, <1>6, <2>1, MonRange DEF ClientRec
<1> HIDE DEF r
<1>8. /\ s2 \in Desktop /\ SameViews(s1, s2) /\ SameLists(s1, s2)
      /\ s2.selmon = s1.selmon /\ s2.sel = s1.sel /\ s2.stack = s1.stack
      /\ \A w \in Window : s2.cl[w] = IF w = c THEN r ELSE s1.cl[w]
  BY <1>1, <1>5, <1>7, PutClient
<1> HIDE DEF s2
<1>9. LinkedBut(s2, {c}) /\ SelOK(s2) /\ s2.cl[c].mon = m
  BY <1>1, <1>5, <1>7, <1>8, PutClientLinks DEF SelOK, SameLists
<1>10. /\ s3 \in Desktop /\ SameViews(s2, s3) /\ SameClients(s2, s3)
       /\ s3.selmon = s2.selmon /\ s3.clientlist = s2.clientlist
       /\ LinkedBut(s3, {}) /\ SelOK(s3)
  BY <1>1, <1>8, <1>9, InIs
<1> HIDE DEF s3
<1>11. /\ \A w \in Window : w # c => s3.cl[w].mon = s.cl[w].mon /\ s3.cl[w].tags = s.cl[w].tags
       /\ s3.cl[c].mon = m /\ s3.cl[c].tags = Shown(s, m)
  BY <1>1, <1>2, <1>5, <1>7, <1>8, <1>10 DEF Quiet, SameClients
<1>12. Managed(s3) = Managed(s)
  BY <1>1, <1>11, MonRange DEF Managed
<1>13. /\ Mons(s3) = Mons(s) /\ s3.mons = s.mons
       /\ s3.selmon = s.selmon /\ s3.clientlist = s.clientlist
  BY <1>2, <1>5, <1>8, <1>10 DEF Quiet, SameViews, SameLists, Mons
<1>14. Placed(s3)
  BY <1>1, <1>6, <1>11, <1>12, <1>13 DEF Placed, Managed
<1>15. Listed(s3)
  BY <1>1, <1>10, <1>12, <1>13, <1>14 DEF Listed, Sound
<1>16. Kept(s, focus(s3, NoWin))
  BY <1>12, <1>15, FocusAfter
<1>17. focus(s3, NoWin).mons = s.mons
  <2>1. SameViews(s3, focus(s3, NoWin))
    BY <1>10, <1>14, FocusIs
  <2> QED
    BY <1>13, <2>1 DEF SameViews
<1> QED
  BY <1>3, <1>16, <1>17 DEF Kept

(* tagmon sends sel to a monitor that is there. *)
LEMMA TagMonKeeps ==
    ASSUME NEW s, Good(s), NEW dir \in {-1, 1}
    PROVE  Kept(s, tagmon(s, dir))
<1> DEFINE c == s.sel[s.selmon]
<1>1. s \in Desktop /\ s.selmon \in Mons(s) /\ c \in Managed(s) \cup {NoWin}
  BY GoodIs
<1>2. dirtomon(s, dir) \in Mons(s)
  BY <1>1, DirToMon
<1>3. c # NoWin => Kept(s, sendmon(s, c, dirtomon(s, dir)))
  BY <1>1, <1>2, SendmonKeeps
<1> QED
  BY <1>3 DEF tagmon, Kept

(* zoom and pop: the client goes to the head of the list it is in.         *)
LEMMA MovedListed ==
    ASSUME NEW s, Listed(s), NEW c \in Managed(s)
    PROVE  LET t == attach_client(detach_client(s, c), c)
           IN  Listed(t) /\ Managed(t) = Managed(s)
<1> DEFINE m == s.cl[c].mon
           u == detach_client(s, c)
           t == attach_client(u, c)
           list == detach(s.clients[m], c)
           new == attach(list, c)
<1>1. s \in Desktop /\ LinkedBut(s, {}) /\ Placed(s) /\ SelOK(s) /\ s.clientlist = Managed(s)
  BY DEF Listed, Sound
<1>2. m \in Mon /\ c \in Window /\ s.clients \in [Mon -> Seq(Window)]
  BY <1>1, MonOf, Fields
<1>3. c \in Members(s.clients[m]) /\ Distinct(s.clients[m])
  BY <1>1, <1>2 DEF LinkedBut, On
<1>4. /\ u \in Desktop /\ SameViews(s, u) /\ SameClients(s, u)
      /\ u.selmon = s.selmon /\ u.sel = s.sel /\ u.stack = s.stack
      /\ u.clientlist = s.clientlist
      /\ u.clients = With(s.clients, m, list)
  BY <1>1, <1>3, DetachClientIs
<1>5. u.cl[c].mon = m
  BY <1>2, <1>4 DEF SameClients
<1> HIDE DEF u, m
<1>6. /\ t \in Desktop /\ SameViews(u, t) /\ SameClients(u, t)
      /\ t.selmon = u.selmon /\ t.sel = u.sel /\ t.stack = u.stack
      /\ t.clientlist = u.clientlist
      /\ t.clients = With(u.clients, m, attach(u.clients[m], c))
  BY <1>2, <1>4, <1>5, AttachClientIs
<1> HIDE DEF t
<1>7. list \in Seq(Window) /\ Distinct(list) /\ Members(list) = Members(s.clients[m]) \ {c}
  <2>1. s.clients[m] \in Seq(Window)
    BY <1>2
  <2> QED
    BY <1>3, <2>1, DetachMembers
<1> HIDE DEF list
<1>8. new \in Seq(Window) /\ Distinct(new) /\ Members(new) = Members(s.clients[m])
  <2>1. c \notin Members(list)
    BY <1>7
  <2>2. new \in Seq(Window) /\ Distinct(new) /\ Members(new) = Members(list) \cup {c}
    BY <1>2, <1>7, <2>1, AttachNew
  <2> HIDE DEF new
  <2> QED
    BY <1>3, <1>7, <2>2
<1>9. t.clients = With(s.clients, m, new)
  BY <1>2, <1>4, <1>6 DEF With
<1> HIDE DEF new
<1>10. \A n \in Mon : Members(t.clients[n]) = Members(s.clients[n])
                      /\ (Distinct(s.clients[n]) => Distinct(t.clients[n]))
  <2> TAKE n \in Mon
  <2>1. t.clients[n] = IF n = m THEN new ELSE s.clients[n]
    BY <1>2, <1>9 DEF With
  <2> QED
    BY <1>8, <2>1
<1>11. SameViews(s, t) /\ SameClients(s, t) /\ t.selmon = s.selmon /\ t.sel = s.sel
       /\ t.stack = s.stack /\ t.clientlist = s.clientlist
  BY <1>4, <1>6 DEF SameViews, SameClients
<1>12. Managed(t) = Managed(s) /\ \A n : On(t, n) = On(s, n)
  BY <1>11, SameSets
<1>13. LinkedBut(t, {}) /\ SelOK(t)
  BY <1>1, <1>10, <1>11, <1>12 DEF LinkedBut, SelOK
<1>14. Placed(t)
  BY <1>1, <1>11, <1>12 DEF Placed, SameViews, SameClients, Mons, Managed
<1> QED
  BY <1>1, <1>6, <1>11, <1>12, <1>13, <1>14 DEF Listed, Sound, t, u

(* zoom moves sel, or the client after it, to the head of the list. *)
LEMMA ZoomKeeps ==
    ASSUME NEW s, Good(s), NEW c \in Managed(s), c \in Members(s.clients[s.selmon]),
           NEW arranges \in BOOLEAN
    PROVE  Kept(s, zoom(s, c, arranges))
<1> DEFINE tiled == Tiled(s)
           list  == s.clients[s.selmon]
           next  == IF c = FirstIn(list, tiled) THEN FirstIn(After(list, c), tiled) ELSE c
           moved == attach_client(detach_client(s, next), next)
<1>1. s \in Desktop /\ Listed(s) /\ s.selmon \in Mon /\ list \in Seq(Window) /\ c \in Window
      /\ tiled \subseteq Managed(s)
  BY GoodIs, SetsOf DEF Managed
<1>2. zoom(s, c, arranges) =
          IF ~arranges \/ s.cl[c].isfloating \/ next = NoWin THEN s ELSE focus(moved, next)
  BY Zenon DEF zoom
<1>3. next \in Managed(s) \cup {NoWin}
  <2> HIDE DEF list, tiled
  <2>1. FirstIn(After(list, c), tiled) \in tiled \cup {NoWin}
    BY <1>1, FoundIn DEF list
  <2> QED
    BY <1>1, <2>1
<1> HIDE DEF next
<1>4. next # NoWin => Kept(s, focus(moved, next))
  <2> SUFFICES ASSUME next # NoWin PROVE Kept(s, focus(moved, next))
    OBVIOUS
  <2>1. Listed(moved) /\ Managed(moved) = Managed(s)
    BY <1>1, <1>3, MovedListed
  <2> HIDE DEF moved
  <2> QED
    BY <1>3, <2>1, FocusAfter
<1> HIDE DEF moved
<1>5. Kept(s, s)
  BY DEF Kept
<1> QED
  BY <1>2, <1>4, <1>5

-----------------------------------------------------------------------------
(* manage.                                                                 *)

(* The view of a monitor is a set of tags. *)
LEMMA ShownIs ==
    ASSUME NEW s \in Desktop, NEW m \in Mon
    PROVE  Shown(s, m) \in (SUBSET Tag) \ {{}}
<1>1. s.tagset[m] \in [0..1 -> (SUBSET Tag) \ {{}}] /\ s.seltags[m] \in 0..1
  BY Fields
<1> QED
  BY <1>1 DEF Shown

(* Wherever the client goes, the monitor is there and there are tags.      *)
LEMMA PlacementIs ==
    ASSUME NEW s, Sound(s), PersistedOK, NEW w \in Window
    PROVE  LET p == placement(s, w)
           IN  p \in ClientRec /\ p.mon \in Mons(s) /\ p.tags # {}
<1> DEFINE p == props[w]
           q == Parent[w]
           base == [NoClient EXCEPT !.idx = p.idx]
<1>1. s \in Desktop /\ Placed(s) /\ s.selmon \in Mon
  BY Fields DEF Sound
<1>2. /\ p.mon \in 0..MaxMon /\ p.tags \in SUBSET Tag /\ p.isfloating \in BOOLEAN /\ p.idx \in Nat
      /\ p.mon # 0 => p.tags # {}
  BY DEF PersistedOK, Props
<1> HIDE DEF p
<1>3. base \in ClientRec
  <2>1. NoClient \in ClientRec
    BY DwmAssumption DEF NoClient, ClientRec
  <2> QED
    BY <1>2, <2>1, IdxOf
<1> HIDE DEF base, q
<1>4. ASSUME NEW mon \in Mons(s), NEW tags \in (SUBSET Tag) \ {{}}, NEW isfloating \in BOOLEAN
      PROVE  LET r == [base EXCEPT !.mon = mon, !.tags = tags, !.isfloating = isfloating]
             IN  r \in ClientRec /\ r.mon \in Mons(s) /\ r.tags # {}
  <2>1. mon \in 0..MaxMon
    BY <1>1, <1>4, MonsAreMon, MonRange
  <2> QED
    BY <1>3, <1>4, <2>1 DEF ClientRec
<1>5. CASE q # NoWin /\ q \in Managed(s)
  <2>1. s.cl[q].mon \in Mons(s) /\ s.cl[q].tags \in (SUBSET Tag) \ {{}}
    <3>1. q \in Window
      BY <1>5 DEF Managed
    <3>2. s.cl[q] \in ClientRec
      BY <1>1, <3>1, Fields
    <3> QED
      BY <1>1, <1>5, <3>2, ClientFields DEF Placed
  <2> DEFINE r == [base EXCEPT !.mon = s.cl[q].mon, !.tags = s.cl[q].tags, !.isfloating = p.isfloating]
  <2>2. placement(s, w) = r
    BY <1>5 DEF placement, base, p, q
  <2>3. r \in ClientRec /\ r.mon \in Mons(s) /\ r.tags # {}
    BY <1>2, <1>4, <2>1
  <2> HIDE DEF r
  <2> QED
    BY <2>2, <2>3
<1>6. CASE ~(q # NoWin /\ q \in Managed(s)) /\ p.mon # 0 /\ p.mon \in Mons(s)
  <2> DEFINE r == [base EXCEPT !.mon = p.mon, !.tags = p.tags, !.isfloating = p.isfloating]
  <2>1. placement(s, w) = r
    BY <1>6 DEF placement, base, p, q
  <2>2. r \in ClientRec /\ r.mon \in Mons(s) /\ r.tags # {}
    BY <1>2, <1>4, <1>6
  <2> HIDE DEF r
  <2> QED
    BY <2>1, <2>2
<1>7. CASE ~(q # NoWin /\ q \in Managed(s)) /\ ~(p.mon # 0 /\ p.mon \in Mons(s))
  <2> DEFINE dialog == w \in Dialog
             r == [base EXCEPT !.mon = s.selmon, !.tags = Shown(s, s.selmon), !.isfloating = dialog]
  <2>1. placement(s, w) = r
    BY <1>7 DEF placement, base, p, q
  <2>4. dialog \in BOOLEAN
    OBVIOUS
  <2> HIDE DEF dialog
  <2>2. s.selmon \in Mons(s) /\ Shown(s, s.selmon) \in (SUBSET Tag) \ {{}}
    BY <1>1, ShownIs DEF Placed
  <2>3. r \in ClientRec /\ r.mon \in Mons(s) /\ r.tags # {}
    BY <1>4, <2>2, <2>4
  <2> HIDE DEF r
  <2> QED
    BY <2>1, <2>3
<1> QED
  BY <1>5, <1>6, <1>7

(* AttachxMembers of a client that is in no list. *)
LEMMA AttachxNew ==
    ASSUME NEW list \in Seq(Window), NEW c \in Window, Distinct(list), c \notin Members(list),
           NEW idx \in [Window -> Nat]
    PROVE  /\ attachx(list, c, idx) \in Seq(Window) /\ Distinct(attachx(list, c, idx))
           /\ Members(attachx(list, c, idx)) = Members(list) \cup {c}
BY AttachxMembers

(* manage: the window enters one list and one stack, wherever a restart, a *)
(* rule or the window it belongs to places it.                             *)
LEMMA ManageKeeps ==
    ASSUME NEW s, Good(s), PersistedOK, NEW w \in Window, w \notin Managed(s), NEW urgent \in BOOLEAN
    PROVE  /\ Good(manage(s, w, urgent))
           /\ Managed(manage(s, w, urgent)) = Managed(s) \cup {w}
<1> DEFINE p   == placement(s, w)
           m   == p.mon
           r   == [p EXCEPT !.isurgent = urgent]
           s1  == [s EXCEPT !.cl[w] = r]
           s2  == IF w \in s.full THEN setfullscreen(s1, w, TRUE) ELSE s1
           flt == Parent[w] # NoWin \/ w \in Fixed
           q   == [s2.cl[w] EXCEPT !.isfloating = flt, !.oldstate = flt]
           s3  == IF s2.cl[w].isfloating THEN s2 ELSE [s2 EXCEPT !.cl[w] = q]
           idx == [c \in Window |-> s3.cl[c].idx]
           list == attachx(s3.clients[m], w, idx)
           stk == attach(s3.stack[m], w)
           s4  == [s3 EXCEPT !.clients[m] = list]
           u   == attachstack(s4, w)
           s5  == [u EXCEPT !.clientlist = @ \cup {w}, !.sel[m] = w]
           v   == setclientstate(s5, w, "Normal")
           s6  == IF HIDDEN(s, w) THEN s5 ELSE XMapWindow(v, w)
<1>1. /\ s \in Desktop /\ Sound(s) /\ LinkedBut(s, {}) /\ Placed(s) /\ SelOK(s)
      /\ s.clientlist = Managed(s) /\ s.cl[w].mon = 0
  BY DEF Good, Sound, Managed
<1>2. p \in ClientRec /\ m \in Mons(s) /\ m \in Mon /\ p.tags # {}
  BY <1>1, PlacementIs, MonsAreMon
<1>3. manage(s, w, urgent) = focus(s6, NoWin)
  <2> DEFINE x3 == IF s2.cl[w].isfloating THEN s2
                   ELSE [s2 EXCEPT !.cl[w].isfloating = flt, !.cl[w].oldstate = flt]
  <2>1. [s2 EXCEPT !.cl[w].isfloating = flt, !.cl[w].oldstate = flt] = [s2 EXCEPT !.cl[w] = q]
    <3> HIDE DEF s2, flt
    <3>1. s2 \in Desktop => s2.cl \in [Window -> ClientRec]
      BY Fields
    <3> QED
      OBVIOUS
  <2> DEFINE x4(x) == [x EXCEPT !.clients[m] = attachx(@, w, [c \in Window |-> x.cl[c].idx])]
             x5(x) == [attachstack(x4(x), w) EXCEPT !.clientlist = @ \cup {w}, !.sel[m] = w]
             end(x) == focus(IF HIDDEN(s, w) THEN x5(x)
                             ELSE XMapWindow(setclientstate(x5(x), w, "Normal"), w), NoWin)
  <2>2. manage(s, w, urgent) = end(x3)
    BY Zenon DEF manage
  <2>3. x3 = s3
    BY <2>1, Zenon
  <2>4. end(s3) = focus(s6, NoWin)
    OBVIOUS
  <2> HIDE DEF x3, s3, end, s6
  <2> QED
    BY <2>2, <2>3, <2>4
<1>4. r \in ClientRec /\ r.mon = m /\ r.tags = p.tags
  BY <1>2, FlagsOf
<1> HIDE DEF p, m, r
<1>5. /\ s1 \in Desktop /\ SameViews(s, s1) /\ SameLists(s, s1)
      /\ s1.selmon = s.selmon /\ s1.sel = s.sel /\ s1.stack = s.stack
      /\ \A c \in Window : s1.cl[c] = IF c = w THEN r ELSE s.cl[c]
  BY <1>1, <1>4, PutClient
<1> HIDE DEF s1
<1>6. Quiet(s1, s2)
  BY <1>5, QuietX, QuietFullscreen
<1> HIDE DEF s2
<1>7. Quiet(s2, s3)
  <2>1. s2 \in Desktop /\ s2.cl[w] \in ClientRec /\ flt \in BOOLEAN
    BY <1>6, Fields DEF Quiet
  <2> HIDE DEF flt
  <2>2. q \in ClientRec /\ q.mon = s2.cl[w].mon /\ q.tags = s2.cl[w].tags
    BY <2>1 DEF ClientRec
  <2> HIDE DEF q
  <2> QED
    BY <2>1, <2>2, QuietX, QuietFlags
<1> HIDE DEF s3
<1>8. /\ s3 \in Desktop /\ SameViews(s, s3) /\ SameLists(s, s3)
      /\ s3.selmon = s.selmon /\ s3.sel = s.sel /\ s3.stack = s.stack
      /\ \A c \in Window : c # w => s3.cl[c].mon = s.cl[c].mon /\ s3.cl[c].tags = s.cl[c].tags
      /\ s3.cl[w].mon = m /\ s3.cl[w].tags = p.tags
  <2>1. Quiet(s1, s3)
    BY <1>6, <1>7, QuietTrans
  <2> QED
    BY <1>4, <1>5, <2>1 DEF Quiet, SameViews, SameLists, SameClients
<1>9. LinkedBut(s3, {w})
  <2>1. \A n \in Mon : On(s3, n) \ {w} = On(s, n)
    BY <1>1, <1>8, MonRange DEF On
  <2>2. \A n \in Mon : On(s, n) \ {} = On(s, n)
    OBVIOUS
  <2> QED
    BY <1>1, <1>8, <2>1, <2>2 DEF LinkedBut, SameLists
<1>10. idx \in [Window -> Nat]
  <2>1. \A c \in Window : s3.cl[c] \in ClientRec
    BY <1>8, Fields
  <2> QED
    BY <2>1, ClientFields
<1>11. /\ s3.clients \in [Mon -> Seq(Window)] /\ s3.stack \in [Mon -> Seq(Window)]
       /\ s3.sel \in [Mon -> Window \cup {NoWin}]
  BY <1>8, Fields
<1> HIDE DEF idx
<1>12. /\ list \in Seq(Window) /\ Distinct(list) /\ Members(list) = Members(s3.clients[m]) \cup {w}
       /\ stk \in Seq(Window) /\ Distinct(stk) /\ Members(stk) = Members(s3.stack[m]) \cup {w}
  <2>1. /\ s3.clients[m] \in Seq(Window) /\ s3.stack[m] \in Seq(Window)
        /\ Distinct(s3.clients[m]) /\ w \notin Members(s3.clients[m])
        /\ Distinct(s3.stack[m]) /\ w \notin Members(s3.stack[m])
    BY <1>2, <1>9, <1>11 DEF LinkedBut
  <2>2. list \in Seq(Window) /\ Distinct(list) /\ Members(list) = Members(s3.clients[m]) \cup {w}
    BY <1>10, <2>1, AttachxNew
  <2>3. stk \in Seq(Window) /\ Distinct(stk) /\ Members(stk) = Members(s3.stack[m]) \cup {w}
    BY <2>1, AttachNew
  <2> QED
    BY <2>2, <2>3
<1> HIDE DEF list
<1>13. /\ s4 \in Desktop /\ SameViews(s3, s4) /\ SameClients(s3, s4)
       /\ s4.selmon = s3.selmon /\ s4.sel = s3.sel /\ s4.cl = s3.cl /\ s4.stack = s3.stack
       /\ s4.clientlist = s3.clientlist
       /\ s4.clients = With(s3.clients, m, list)
  BY <1>2, <1>8, <1>12, PutClients
<1> HIDE DEF s4
<1>14. /\ u \in Desktop /\ SameViews(s4, u) /\ SameClients(s4, u) /\ SameLists(s4, u)
       /\ u.selmon = s4.selmon /\ u.sel = s4.sel /\ u.cl = s4.cl
       /\ u.stack = With(s4.stack, m, attach(s4.stack[m], w))
  <2>1. s4.cl[w].mon = m
    BY <1>8, <1>13
  <2> QED
    BY <1>2, <1>13, <2>1, AttachstackIs
<1> HIDE DEF u
<1>15. /\ u.clients = With(s3.clients, m, list) /\ u.stack = With(s3.stack, m, stk)
       /\ SameClients(s3, u) /\ u.clientlist = s.clientlist /\ u.sel = s.sel
       /\ u.selmon = s.selmon /\ SameViews(s, u)
  BY <1>8, <1>13, <1>14 DEF SameLists, SameClients, SameViews
<1> HIDE DEF stk
<1>16. LinkedBut(u, {})
  BY <1>2, <1>8, <1>9, <1>12, <1>15, EntersLists
<1>17. /\ s5 \in Desktop /\ SameViews(u, s5) /\ SameClients(u, s5)
       /\ s5.selmon = u.selmon /\ s5.clients = u.clients /\ s5.stack = u.stack
       /\ s5.clientlist = s.clientlist \cup {w} /\ s5.sel = With(s.sel, m, w)
  BY <1>2, <1>14, <1>15 DEF Desktop, SameViews, SameClients, With
<1> HIDE DEF s5
<1>18. LinkedBut(s5, {})
  <2>1. \A n : On(s5, n) = On(u, n)
    BY <1>17, SameSets
  <2> QED
    BY <1>16, <1>17, <2>1 DEF LinkedBut
<1>19. SelOK(s5)
  <2> SUFFICES ASSUME NEW n \in Mon, s5.sel[n] # NoWin PROVE s5.sel[n] \in Members(s5.clients[n])
    BY DEF SelOK
  <2>1. s5.sel[n] = IF n = m THEN w ELSE s.sel[n]
    BY <1>2, <1>8, <1>11, <1>17 DEF With
  <2>2. s5.clients[n] = IF n = m THEN list ELSE s.clients[n]
    BY <1>2, <1>8, <1>11, <1>15, <1>17 DEF With, SameLists
  <2>3. s.sel[n] # NoWin => s.sel[n] \in Members(s.clients[n])
    BY <1>1 DEF SelOK
  <2> QED
    BY <1>12, <2>1, <2>2, <2>3
<1>20. /\ \A c \in Window : c # w => s5.cl[c].mon = s.cl[c].mon /\ s5.cl[c].tags = s.cl[c].tags
       /\ s5.cl[w].mon = m /\ s5.cl[w].tags = p.tags
  BY <1>8, <1>15, <1>17 DEF SameClients
<1>21. Managed(s5) = Managed(s) \cup {w}
  BY <1>2, <1>20, MonRange DEF Managed
<1>22. Mons(s5) = Mons(s) /\ s5.selmon = s.selmon
  BY <1>15, <1>17 DEF SameViews, Mons
<1>23. Placed(s5)
  BY <1>1, <1>2, <1>20, <1>21, <1>22 DEF Placed, Managed
<1>24. Listed(s5)
  BY <1>1, <1>17, <1>18, <1>19, <1>21, <1>23 DEF Listed, Sound
<1>25. Quiet(s5, v)
  BY <1>17, QuietX
<1> HIDE DEF v
<1>26. Quiet(v, XMapWindow(v, w))
  BY <1>25, QuietX DEF Quiet
<1>27. Quiet(s5, s6)
  BY <1>17, <1>25, <1>26, QuietX, QuietTrans
<1> HIDE DEF s6
<1>28. Kept(s6, focus(s6, NoWin)) /\ Managed(s6) = Managed(s5)
  BY <1>24, <1>27, QuietListed, FocusKeeps
<1> QED
  BY <1>3, <1>21, <1>28 DEF Kept

-----------------------------------------------------------------------------
(* Monitors come and go. *)

(* Reverse keeps what a list holds. *)
LEMMA ReverseMembers ==
    ASSUME NEW list \in Seq(Window)
    PROVE  /\ Reverse(list) \in Seq(Window)
           /\ Members(Reverse(list)) = Members(list)
           /\ Distinct(list) => Distinct(Reverse(list))
<1> DEFINE n == Len(list)
           rev == Reverse(list)
<1>1. n \in Nat /\ DOMAIN list = 1..n /\ \A i \in 1..n : list[i] \in Window
  BY LenProperties
<1> HIDE DEF n
<1>2. rev = [i \in 1..n |-> list[(n - i) + 1]]
  BY DEF Reverse, n
<1>3. \A i \in 1..n : (n - i) + 1 \in 1..n /\ (n - ((n - i) + 1)) + 1 = i
  BY <1>1
<1>4. rev \in [1..n -> Window]
  BY <1>1, <1>2, <1>3
<1>5. rev \in Seq(Window)
  BY <1>1, <1>4, SeqDef
<1>6. DOMAIN rev = 1..n /\ \A i \in 1..n : rev[i] = list[(n - i) + 1]
  BY <1>2
<1> HIDE DEF rev
<1>7. \A i \in 1..n : list[i] = rev[(n - i) + 1]
  BY <1>3, <1>6
<1>8. Members(rev) = Members(list)
  <2>1. \A i \in DOMAIN rev : \E j \in DOMAIN list : rev[i] = list[j]
    BY <1>1, <1>3, <1>6
  <2>2. \A i \in DOMAIN list : \E j \in DOMAIN rev : list[i] = rev[j]
    BY <1>1, <1>3, <1>6, <1>7
  <2> QED
    BY <2>1, <2>2 DEF Members
<1>9. ASSUME Distinct(list) PROVE Distinct(rev)
  <2> SUFFICES ASSUME NEW i \in 1..n, NEW j \in 1..n, rev[i] = rev[j] PROVE i = j
    BY <1>6 DEF Distinct
  <2>1. (n - i) + 1 = (n - j) + 1
    BY <1>1, <1>3, <1>6, <1>9 DEF Distinct
  <2> QED
    BY <1>1, <2>1
<1> QED
  BY <1>5, <1>8, <1>9 DEF rev

(* While monitors come and go: sel, tags and selmon may be behind. *)
Linked(s) == s \in Desktop /\ LinkedBut(s, {}) /\ SelOK(s)

(* What is the same before and after the clients of monitor m have moved.  *)
Emptied(s, t, m) ==
    /\ SameViews(s, t) /\ t.selmon = s.selmon /\ t.clientlist = s.clientlist
    /\ \A w \in Window : /\ t.cl[w].mon = IF s.cl[w].mon = m THEN 1 ELSE s.cl[w].mon
                         /\ t.cl[w].tags = s.cl[w].tags

(* The clients of a monitor that goes join the first monitor, in the stack *)
(* and the list of it.                                                     *)
LEMMA RemovemonIs ==
    ASSUME NEW s, Linked(s), NEW m \in Mon, m # 1
    PROVE  Linked(removemon(s, m)) /\ Emptied(s, removemon(s, m), m)
<1> DEFINE moved == Reverse(s.clients[m])
           cl == [w \in Window |-> IF s.cl[w].mon = m THEN [s.cl[w] EXCEPT !.mon = 1] ELSE s.cl[w]]
           list == moved \o s.clients[1]
           stk == moved \o s.stack[1]
           clients == With(With(s.clients, 1, list), m, <<>>)
           stack == With(With(s.stack, 1, stk), m, <<>>)
           sel == With(s.sel, m, NoWin)
           t == removemon(s, m)
<1>1. /\ s \in Desktop /\ LinkedBut(s, {}) /\ SelOK(s) /\ 1 \in Mon /\ 1 \in 0..MaxMon
      /\ s.clients \in [Mon -> Seq(Window)] /\ s.stack \in [Mon -> Seq(Window)]
      /\ s.sel \in [Mon -> Window \cup {NoWin}]
      /\ \A w \in Window : s.cl[w] \in ClientRec
  <2>1. 1 \in Mon /\ 1 \in 0..MaxMon
    BY DwmAssumption DEF Mon
  <2>2. s \in Desktop /\ LinkedBut(s, {}) /\ SelOK(s)
    BY DEF Linked
  <2> QED
    BY <2>1, <2>2, Fields
<1>2. t = [s EXCEPT !.cl = cl, !.clients = clients, !.stack = stack, !.sel = sel]
  BY <1>1, ZenonT(60) DEF removemon, Desktop, With
<1>3. /\ moved \in Seq(Window) /\ Members(moved) = On(s, m) /\ Distinct(moved)
      /\ s.clients[1] \in Seq(Window) /\ s.stack[1] \in Seq(Window)
      /\ Members(s.clients[1]) = On(s, 1) /\ Members(s.stack[1]) = On(s, 1)
      /\ Distinct(s.clients[1]) /\ Distinct(s.stack[1])
  <2>1. s.clients[m] \in Seq(Window) /\ Members(s.clients[m]) = On(s, m) /\ Distinct(s.clients[m])
    BY <1>1 DEF LinkedBut
  <2>2. moved \in Seq(Window) /\ Members(moved) = On(s, m) /\ Distinct(moved)
    BY <2>1, ReverseMembers
  <2> HIDE DEF moved
  <2> QED
    BY <1>1, <2>2 DEF LinkedBut
<1> HIDE DEF t, moved
<1>4. On(s, m) \cap On(s, 1) = {}
  BY DEF On
<1>5. /\ list \in Seq(Window) /\ Members(list) = On(s, m) \cup On(s, 1) /\ Distinct(list)
      /\ stk \in Seq(Window) /\ Members(stk) = On(s, m) \cup On(s, 1) /\ Distinct(stk)
  <2>1. \A l \in Seq(Window) : Members(l) = On(s, 1) /\ Distinct(l) =>
            /\ moved \o l \in Seq(Window) /\ Members(moved \o l) = On(s, m) \cup On(s, 1)
            /\ Distinct(moved \o l)
    BY <1>3, <1>4, ConcatMembers
  <2> QED
    BY <1>3, <2>1
<1> HIDE DEF list, stk
<1>6. cl \in [Window -> ClientRec]
  <2>1. \A r \in ClientRec : [r EXCEPT !.mon = 1] \in ClientRec
    BY <1>1 DEF ClientRec
  <2> QED
    BY <1>1, <2>1
<1>7. /\ \A w \in Window : /\ cl[w].mon = IF s.cl[w].mon = m THEN 1 ELSE s.cl[w].mon
                           /\ cl[w].tags = s.cl[w].tags
  <2>1. \A r \in ClientRec : [r EXCEPT !.mon = 1].mon = 1 /\ [r EXCEPT !.mon = 1].tags = r.tags
    BY DEF ClientRec
  <2> QED
    BY <1>1, <2>1
<1> HIDE DEF cl
<1>8. /\ clients \in [Mon -> Seq(Window)] /\ stack \in [Mon -> Seq(Window)]
      /\ sel \in [Mon -> Window \cup {NoWin}]
      /\ \A n \in Mon : /\ clients[n] = IF n = m THEN <<>> ELSE IF n = 1 THEN list ELSE s.clients[n]
                        /\ stack[n] = IF n = m THEN <<>> ELSE IF n = 1 THEN stk ELSE s.stack[n]
                        /\ sel[n] = IF n = m THEN NoWin ELSE s.sel[n]
  <2>1. <<>> \in Seq(Window)
    OBVIOUS
  <2>2. /\ clients \in [Mon -> Seq(Window)]
        /\ \A n \in Mon : clients[n] = IF n = m THEN <<>> ELSE IF n = 1 THEN list ELSE s.clients[n]
    BY <1>1, <1>5, <2>1 DEF With
  <2>3. /\ stack \in [Mon -> Seq(Window)]
        /\ \A n \in Mon : stack[n] = IF n = m THEN <<>> ELSE IF n = 1 THEN stk ELSE s.stack[n]
    BY <1>1, <1>5, <2>1 DEF With
  <2>4. /\ sel \in [Mon -> Window \cup {NoWin}]
        /\ \A n \in Mon : sel[n] = IF n = m THEN NoWin ELSE s.sel[n]
    BY <1>1 DEF With
  <2> HIDE DEF clients, stack, sel
  <2> QED
    BY <2>2, <2>3, <2>4
<1> HIDE DEF clients, stack, sel
<1>9. /\ t \in Desktop /\ SameViews(s, t) /\ t.selmon = s.selmon /\ t.clientlist = s.clientlist
      /\ t.cl = cl /\ t.clients = clients /\ t.stack = stack /\ t.sel = sel
  BY <1>1, <1>2, <1>6, <1>8 DEF Desktop, SameViews
<1>10. Emptied(s, t, m)
  BY <1>7, <1>9 DEF Emptied
<1>11. LinkedBut(t, {})
  <2> SUFFICES ASSUME NEW n \in Mon
               PROVE  /\ Distinct(clients[n]) /\ Members(clients[n]) = On(t, n)
                      /\ Distinct(stack[n])   /\ Members(stack[n])   = On(t, n)
    BY <1>9 DEF LinkedBut
  <2>1. CASE n = m
    <3>1. On(t, n) = {}
      BY <1>10, <2>1 DEF Emptied, On
    <3>2. Members(<<>>) = {} /\ Distinct(<<>>)
      BY DEF Members, Distinct
    <3> QED
      BY <1>8, <2>1, <3>1, <3>2
  <2>2. CASE n = 1
    <3>1. On(t, n) = On(s, m) \cup On(s, 1)
      BY <1>10, <2>2 DEF Emptied, On
    <3> QED
      BY <1>5, <1>8, <2>2, <3>1
  <2>3. CASE n # m /\ n # 1
    <3>1. On(t, n) = On(s, n)
      BY <1>10, <2>3 DEF Emptied, On
    <3>2. /\ Distinct(s.clients[n]) /\ Members(s.clients[n]) = On(s, n)
          /\ Distinct(s.stack[n])   /\ Members(s.stack[n])   = On(s, n)
      BY <1>1 DEF LinkedBut
    <3> QED
      BY <1>8, <2>3, <3>1, <3>2
  <2> QED
    BY <2>1, <2>2, <2>3
<1>12. SelOK(t)
  <2> SUFFICES ASSUME NEW n \in Mon, sel[n] # NoWin PROVE sel[n] \in Members(clients[n])
    BY <1>9 DEF SelOK
  <2>1. n # m /\ sel[n] = s.sel[n] /\ s.sel[n] \in Members(s.clients[n])
    BY <1>1, <1>8 DEF SelOK
  <2>2. CASE n = 1
    <3>1. clients[n] = list /\ s.sel[n] \in On(s, 1)
      BY <1>3, <1>8, <2>1, <2>2
    <3> QED
      BY <1>5, <2>1, <3>1
  <2>3. CASE n # 1
    BY <1>8, <2>1, <2>3
  <2> QED
    BY <2>2, <2>3
<1> QED
  BY <1>9, <1>10, <1>11, <1>12 DEF Linked, t

(* The loop of updategeom: `after` satisfies its recursion.                *)
Removal(s, n, f) ==
    f = [k \in 0..(s.mons - n) |-> IF k = 0 THEN s ELSE removemon(f[k - 1], s.mons - k + 1)]

(* The loop ends: a sequence of desktops as it makes them exists. *)
LEMMA RemovalExists ==
    ASSUME NEW s, Linked(s), NEW n \in Mon, n < s.mons
    PROVE  \E f : Removal(s, n, f)
<1> DEFINE N == s.mons - n
           T == {x \in Desktop : Linked(x)}
           step == [i \in 1..N |-> [x \in T |-> removemon(x, s.mons - i + 1)]]
<1>1. s \in T /\ s.mons \in Mon
  BY Fields DEF Linked
<1>2. N \in Nat /\ n \in Nat /\ n >= 1 /\ s.mons \in Nat
  BY <1>1, DwmAssumption DEF Mon
<1>3. \A i \in 1..N : s.mons - i + 1 \in Mon /\ s.mons - i + 1 # 1
  BY <1>1, <1>2, DwmAssumption DEF Mon
<1>4. \A i \in 1..N, x \in T : removemon(x, s.mons - i + 1) \in T
  BY <1>3, RemovemonIs DEF Linked
<1> HIDE DEF T
<1>5. step \in [1..N -> [T -> T]]
  BY <1>4
<1>6. PICK g \in [0..N -> T] : Loop(g, N, s, step)
  <2> HIDE DEF step, N
  <2> QED
    BY <1>1, <1>2, <1>5, LoopExists
<1>7. ASSUME NEW k \in 0..N
      PROVE  g[k] = IF k = 0 THEN s ELSE removemon(g[k - 1], s.mons - k + 1)
  <2>1. CASE k = 0
    BY <1>6, <2>1 DEF Loop
  <2>2. CASE k # 0
    <3>1. k \in 1..N /\ k - 1 \in 0..N /\ g[k - 1] \in T
      <4> HIDE DEF N, step
      <4>1. k \in 1..N /\ k - 1 \in 0..N
        BY <1>2, <2>2
      <4> QED
        BY <1>6, <4>1
    <3>2. g[k] = step[k][g[k - 1]]
      BY <1>6, <2>2 DEF Loop
    <3> QED
      BY <2>2, <3>1, <3>2
  <2> QED
    BY <2>1, <2>2
<1> QED
  BY <1>6, <1>7 DEF Removal

(* After k removals no client is left on the last k monitors.              *)
Moved(s, t, n) ==
    /\ SameViews(s, t) /\ t.selmon = s.selmon /\ t.clientlist = s.clientlist
    /\ \A w \in Window : /\ t.cl[w].mon = IF s.cl[w].mon \in (n + 1)..s.mons THEN 1 ELSE s.cl[w].mon
                         /\ t.cl[w].tags = s.cl[w].tags

(* The monitors above n are empty when the loop has ended. *)
LEMMA RemovedIs ==
    ASSUME NEW s, Linked(s), NEW n \in Mon, n < s.mons
    PROVE  Linked(Removed(s, n)) /\ Moved(s, Removed(s, n), n)
<1> DEFINE N == s.mons - n
           after == CHOOSE f : Removal(s, n, f)
           Bad == {k \in 0..N : ~(Linked(after[k]) /\ Moved(s, after[k], s.mons - k))}
<1>1. Removed(s, n) = after[N]
  BY DEF Removed, Removal
<1>2. s \in Desktop /\ s.mons \in Mon
  BY Fields DEF Linked
<1>3. n \in Nat /\ n >= 1 /\ s.mons \in Nat /\ N \in Nat /\ \A w \in Window : s.cl[w].mon \in 0..MaxMon
  <2>1. \A w \in Window : s.cl[w] \in ClientRec
    BY <1>2, Fields
  <2> QED
    BY <1>2, <2>1, ClientFields, DwmAssumption DEF Mon
<1>4. Removal(s, n, after)
  BY RemovalExists
<1> HIDE DEF after
<1>5. \A k \in 0..N : after[k] = IF k = 0 THEN s ELSE removemon(after[k - 1], s.mons - k + 1)
  BY <1>4 DEF Removal
<1>6. Bad = {}
  <2> SUFFICES ASSUME Bad # {} PROVE FALSE
    OBVIOUS
  <2>1. Bad \in SUBSET Nat
    OBVIOUS
  <2>2. PICK k \in Bad : \A j \in Bad : k <= j
    <3> HIDE DEF Bad
    <3> QED
      BY <2>1, LeastElement
  <2>3. CASE k = 0
    <3>1. after[k] = s
      BY <1>3, <1>5, <2>3
    <3>2. Moved(s, s, s.mons - k)
      BY <1>3, <2>3 DEF Moved, SameViews
    <3> QED
      BY <2>2, <3>1, <3>2
  <2>4. CASE k # 0
    <3> DEFINE m == s.mons - k + 1
               x == after[k - 1]
    <3>1. k \in 0..N /\ k \in Nat /\ k - 1 \in 0..N /\ k - 1 \notin Bad /\ s.mons - (k - 1) = m
      BY <1>3, <2>2, <2>4
    <3>2. m \in Mon /\ m # 1 /\ m \in Nat
      BY <1>2, <1>3, <2>4, <3>1, DwmAssumption DEF Mon
    <3>3. Linked(x) /\ Moved(s, x, m)
      BY <3>1
    <3>4. after[k] = removemon(x, m)
      BY <1>5, <2>4, <3>1
    <3> HIDE DEF x
    <3>5. Linked(after[k]) /\ Emptied(x, after[k], m)
      BY <3>2, <3>3, <3>4, RemovemonIs
    <3>6. Moved(s, after[k], s.mons - k)
      <4>1. \A w \in Window :
               /\ x.cl[w].mon = IF s.cl[w].mon \in (m + 1)..s.mons THEN 1 ELSE s.cl[w].mon
               /\ after[k].cl[w].mon = IF x.cl[w].mon = m THEN 1 ELSE x.cl[w].mon
               /\ after[k].cl[w].tags = s.cl[w].tags
        BY <3>3, <3>5 DEF Moved, Emptied
      <4>2. m \in Nat /\ m <= s.mons /\ s.mons - k = m - 1
        BY <1>3, <2>4, <3>1, <3>2
      <4>3. \A w \in Window :
               after[k].cl[w].mon = IF s.cl[w].mon \in m..s.mons THEN 1 ELSE s.cl[w].mon
        <5> HIDE DEF m
        <5> QED
          BY <1>3, <3>2, <4>1, <4>2
      <4>4. SameViews(s, after[k]) /\ after[k].selmon = s.selmon /\ after[k].clientlist = s.clientlist
        BY <3>3, <3>5 DEF Moved, Emptied, SameViews
      <4>5. (s.mons - k) + 1 = m
        BY <4>2
      <4> QED
        BY <4>1, <4>3, <4>4, <4>5 DEF Moved
    <3> QED
      BY <2>2, <3>5, <3>6
  <2> QED
    BY <2>3, <2>4
<1>7. N \in 0..N /\ s.mons - N = n
  BY <1>3
<1>8. Linked(after[N]) /\ Moved(s, after[N], s.mons - N)
  BY <1>6, <1>7
<1> QED
  BY <1>1, <1>7, <1>8

(* New monitors: their lists are empty, and no client was on them.         *)
MayCreate(saved, s, ms) ==
    Linked(s) /\ ms \subseteq Mon /\ saved \in [Mon -> SUBSET Tag] /\ \A m \in ms : On(s, m) = {}

Created(s, t, ms) ==
    /\ Linked(t) /\ t.cl = s.cl /\ t.mons = s.mons /\ t.selmon = s.selmon
    /\ t.clientlist = s.clientlist
    /\ \A m \in Mon \ ms : /\ t.stack[m] = s.stack[m] /\ t.sel[m] = s.sel[m]
                           /\ t.seltags[m] = s.seltags[m] /\ t.tagset[m] = s.tagset[m]
    /\ \A m \in ms : t.stack[m] = <<>> /\ t.sel[m] = NoWin

(* New monitors are empty and show what was stored of their view. *)
LEMMA CreatemonIs ==
    ASSUME NEW saved, NEW s, NEW ms, MayCreate(saved, s, ms)
    PROVE  Created(s, createmon(saved, s, ms), ms)
<1> DEFINE clients == [m \in Mon |-> IF m \in ms THEN <<>> ELSE s.clients[m]]
           stack   == [m \in Mon |-> IF m \in ms THEN <<>> ELSE s.stack[m]]
           sel     == [m \in Mon |-> IF m \in ms THEN NoWin ELSE s.sel[m]]
           seltags == [m \in Mon |-> IF m \in ms THEN 0 ELSE s.seltags[m]]
           new(m)  == [i \in 0..1 |-> IF i = 0 /\ saved[m] # {} THEN saved[m] ELSE {1}]
           tagset  == [m \in Mon |-> IF m \notin ms THEN s.tagset[m] ELSE new(m)]
           t == createmon(saved, s, ms)
<1>1. s \in Desktop /\ LinkedBut(s, {}) /\ SelOK(s)
  BY DEF MayCreate, Linked
<1>0. /\ ms \subseteq Mon /\ saved \in [Mon -> SUBSET Tag] /\ \A m \in ms : On(s, m) = {}
  BY DEF MayCreate
<1>2. /\ s.clients \in [Mon -> Seq(Window)] /\ s.stack \in [Mon -> Seq(Window)]
      /\ s.sel \in [Mon -> Window \cup {NoWin}] /\ s.seltags \in [Mon -> 0..1]
      /\ s.tagset \in [Mon -> [0..1 -> (SUBSET Tag) \ {{}}]]
  BY <1>1, Fields
<1>3. t = [s EXCEPT !.clients = clients, !.stack = stack, !.sel = sel, !.seltags = seltags,
                    !.tagset = tagset]
  BY DEF createmon
<1>4. 1 \in Tag /\ <<>> \in Seq(Window)
  BY DwmAssumption DEF Tag
<1>5. \A m \in Mon : new(m) \in [0..1 -> (SUBSET Tag) \ {{}}]
  BY <1>0, <1>4
<1> HIDE DEF t, new
<1>6. clients \in [Mon -> Seq(Window)] /\ stack \in [Mon -> Seq(Window)]
  BY <1>2, <1>4
<1>7. sel \in [Mon -> Window \cup {NoWin}] /\ seltags \in [Mon -> 0..1]
  BY <1>2
<1>8. tagset \in [Mon -> [0..1 -> (SUBSET Tag) \ {{}}]]
  BY <1>2, <1>5
<1>9. \A m \in Mon : /\ clients[m] = IF m \in ms THEN <<>> ELSE s.clients[m]
                     /\ stack[m]   = IF m \in ms THEN <<>> ELSE s.stack[m]
                     /\ sel[m]     = IF m \in ms THEN NoWin ELSE s.sel[m]
                     /\ m \notin ms => seltags[m] = s.seltags[m] /\ tagset[m] = s.tagset[m]
  OBVIOUS
<1> HIDE DEF clients, stack, sel, seltags, tagset
<1>10. /\ t \in Desktop /\ t.cl = s.cl /\ t.mons = s.mons /\ t.selmon = s.selmon
       /\ t.clientlist = s.clientlist
       /\ t.clients = clients /\ t.stack = stack /\ t.sel = sel /\ t.seltags = seltags
       /\ t.tagset = tagset
  BY <1>1, <1>3, <1>6, <1>7, <1>8 DEF Desktop
<1>11. LinkedBut(t, {})
  <2> SUFFICES ASSUME NEW m \in Mon
               PROVE  /\ Distinct(clients[m]) /\ Members(clients[m]) = On(s, m)
                      /\ Distinct(stack[m])   /\ Members(stack[m])   = On(s, m)
    BY <1>10 DEF LinkedBut, On
  <2>1. /\ Distinct(s.clients[m]) /\ Members(s.clients[m]) = On(s, m)
        /\ Distinct(s.stack[m])   /\ Members(s.stack[m])   = On(s, m)
    BY <1>1 DEF LinkedBut
  <2>2. Members(<<>>) = {} /\ Distinct(<<>>)
    BY DEF Members, Distinct
  <2> QED
    BY <1>0, <1>9, <2>1, <2>2
<1>12. SelOK(t)
  BY <1>1, <1>9, <1>10 DEF SelOK
<1> QED
  BY <1>0, <1>9, <1>10, <1>11, <1>12 DEF Created, Linked, t

(* updategeom: the monitor that is selected afterwards is there.           *)
LEMMA UpdategeomKeeps ==
    ASSUME NEW s, Good(s), PersistedOK, NEW n \in Mon, NEW p \in 1..n, NEW moved \in BOOLEAN
    PROVE  LET u == updategeom(s, n, moved, p)
           IN  /\ Listed(u.s) /\ Managed(u.s) = Managed(s)
               /\ ~u.dirty /\ n = s.mons => Good(u.s)
<1> DEFINE t == IF n < s.mons THEN Removed(s, n) ELSE createmon(rootprops, s, (s.mons + 1)..n)
           dirty == moved \/ n > s.mons \/ \E m \in Mons(s) : m > n /\ s.clients[m] # <<>>
           u == updategeom(s, n, moved, p)
           selmon == IF dirty THEN p ELSE IF t.selmon > n THEN 1 ELSE t.selmon
           x == [t EXCEPT !.mons = n, !.selmon = selmon]
<1>1. /\ s \in Desktop /\ Linked(s) /\ Placed(s) /\ LastFocused(s) /\ s.clientlist = Managed(s)
      /\ s.mons \in Mon /\ s.selmon \in Mon
  BY GoodIs DEF Good, Sound, Linked
<1>2. u.s = x /\ u.dirty = dirty
  BY DEF updategeom
<1>3. n \in Nat /\ n >= 1 /\ s.mons \in Nat /\ s.selmon \in Nat /\ s.selmon >= 1 /\ s.selmon <= s.mons
      /\ p \in Nat /\ p \in Mon
  BY <1>1, DwmAssumption DEF Mon, Placed, Mons
<1>4. \A w \in Managed(s) : /\ s.cl[w].mon \in 1..s.mons /\ s.cl[w].tags # {}
  BY <1>1 DEF Placed, Mons
<1>5. Linked(t) /\ t.selmon = s.selmon /\ t.clientlist = s.clientlist
      /\ \A w \in Window : /\ t.cl[w].tags = s.cl[w].tags
                           /\ t.cl[w].mon = IF s.cl[w].mon \in (n + 1)..s.mons THEN 1 ELSE s.cl[w].mon
  <2>1. CASE n < s.mons
    <3>1. t = Removed(s, n)
      BY <2>1
    <3> QED
      BY <1>1, <2>1, <3>1, RemovedIs DEF Moved
  <2>2. CASE ~(n < s.mons)
    <3> DEFINE ms == (s.mons + 1)..n
    <3>1. t = createmon(rootprops, s, ms)
      BY <2>2
    <3>2. ms \in SUBSET Mon
      BY <1>3, DwmAssumption DEF Mon
    <3>3. \A m \in ms : On(s, m) = {}
      <4> SUFFICES ASSUME NEW m \in ms, NEW w \in Window, s.cl[w].mon = m PROVE FALSE
        BY DEF On
      <4>1. m # 0 /\ m \notin 1..s.mons
        BY <1>3
      <4> QED
        BY <1>4, <4>1 DEF Managed
    <3>4. rootprops \in [Mon -> SUBSET Tag]
      BY DEF PersistedOK
    <3>7. MayCreate(rootprops, s, ms)
      BY <1>1, <3>2, <3>3, <3>4 DEF MayCreate
    <3> HIDE DEF ms
    <3>8. Created(s, t, ms)
      BY <3>1, <3>7, CreatemonIs
    <3>5. Linked(t) /\ t.cl = s.cl /\ t.selmon = s.selmon /\ t.clientlist = s.clientlist
      BY <3>8 DEF Created
    <3>6. (n + 1)..s.mons = {}
      BY <1>3, <2>2
    <3> QED
      BY <3>5, <3>6
  <2> QED
    BY <2>1, <2>2
<1>6. selmon \in 1..n /\ selmon \in Mon
  BY <1>3, <1>5, DwmAssumption DEF Mon
<1> HIDE DEF t, dirty, u
<1>7. t \in Desktop /\ LinkedBut(t, {}) /\ SelOK(t)
  BY <1>5 DEF Linked
<1> HIDE DEF selmon
<1>8. /\ x \in Desktop /\ x.mons = n /\ x.selmon = selmon /\ SameLists(t, x)
      /\ x.stack = t.stack /\ x.sel = t.sel /\ x.cl = t.cl
      /\ x.tagset = t.tagset /\ x.seltags = t.seltags
  BY <1>6, <1>7 DEF Desktop, SameLists
<1> HIDE DEF x
<1>9. Managed(x) = Managed(s)
  <2>1. \A w \in Window : x.cl[w].mon = 0 <=> s.cl[w].mon = 0
    BY <1>3, <1>5, <1>8
  <2> QED
    BY <2>1 DEF Managed
<1>10. LinkedBut(x, {}) /\ SelOK(x)
  BY <1>7, <1>8 DEF LinkedBut, SelOK, SameLists, On
<1>11. Placed(x)
  <2>1. x.selmon \in Mons(x)
    BY <1>6, <1>8 DEF Mons
  <2>2. \A w \in Managed(s) : x.cl[w].mon \in 1..n /\ x.cl[w].tags # {}
    <3> TAKE w \in Managed(s)
    <3>1. w \in Window
      BY DEF Managed
    <3>2. x.cl[w].tags # {} /\ x.cl[w].mon = IF s.cl[w].mon \in (n + 1)..s.mons THEN 1 ELSE s.cl[w].mon
      BY <1>4, <1>5, <1>8, <3>1
    <3>3. s.cl[w].mon \in 1..s.mons
      BY <1>4
    <3> QED
      BY <1>3, <3>2, <3>3
  <2> QED
    BY <1>8, <1>9, <2>1, <2>2 DEF Placed, Mons
<1>12. Listed(x)
  BY <1>1, <1>5, <1>8, <1>9, <1>10, <1>11 DEF Listed, Sound, SameLists
<1>13. ASSUME ~dirty, n = s.mons PROVE LastFocused(x)
  <2>1. t = createmon(rootprops, s, {})
    <3>1. (s.mons + 1)..n = {} /\ ~(n < s.mons)
      BY <1>3, <1>13
    <3> QED
      BY <3>1 DEF t
  <2>2. /\ \A m \in Mon : /\ t.stack[m] = s.stack[m] /\ t.sel[m] = s.sel[m]
                          /\ t.seltags[m] = s.seltags[m] /\ t.tagset[m] = s.tagset[m]
        /\ t.cl = s.cl
    <3>1. MayCreate(rootprops, s, {})
      BY <1>1 DEF PersistedOK, MayCreate
    <3>2. Created(s, t, {})
      BY <2>1, <3>1, CreatemonIs
    <3> QED
      BY <3>2 DEF Created
  <2>3. x.selmon = s.selmon
    BY <1>3, <1>5, <1>8, <1>13 DEF selmon
  <2>4. Visible(x) = Visible(s)
    <3>1. \A w \in Managed(s) : s.cl[w].mon \in Mon
      BY <1>1, MonOf
    <3>2. \A m \in Mon : Shown(x, m) = Shown(s, m)
      BY <1>8, <2>2 DEF Shown
    <3>3. \A w \in Managed(s) : ISVISIBLE(x, w) <=> ISVISIBLE(s, w)
      BY <1>8, <2>2, <3>1, <3>2 DEF ISVISIBLE
    <3> QED
      BY <1>9, <3>3 DEF Visible
  <2> QED
    BY <1>1, <1>8, <2>2, <2>3, <2>4 DEF LastFocused
<1> QED
  BY <1>2, <1>9, <1>12, <1>13 DEF Good, Listed, u

(* setup: no clients yet, and every monitor has a view. *)
LEMMA SetupIs ==
    ASSUME NEW n \in Mon, NEW p \in 1..n, NEW exists \in SUBSET Window, NEW mapped \in SUBSET Window,
           NEW wmstate \in [Window -> {"Normal", "Iconic", "Withdrawn"}],
           NEW full \in SUBSET Window, NEW saved \in [Mon -> SUBSET Tag]
    PROVE  LET t == setup(n, p, exists, mapped, wmstate, full, saved)
           IN  Good(t) /\ Managed(t) = {}
<1> DEFINE clients == [m \in Mon |-> <<>>]
           sel == [m \in Mon |-> NoWin]
           tagset == [m \in Mon |-> [i \in 0..1 |-> {1}]]
           seltags == [m \in Mon |-> 0]
           cl == [w \in Window |-> NoClient]
           none == {}
           s == [mons |-> n, selmon |-> p, clients |-> clients, stack |-> clients, sel |-> sel,
                 tagset |-> tagset, seltags |-> seltags, cl |-> cl, xfocus |-> NoWin,
                 exists |-> exists, mapped |-> mapped, wmstate |-> wmstate, full |-> full,
                 clientlist |-> none]
           t == setup(n, p, exists, mapped, wmstate, full, saved)
<1>1. t = createmon(saved, s, 1..n)
  BY DEF setup
<1>2. n \in Nat /\ p \in Mon /\ 1..n \subseteq Mon /\ 1 \in Tag
  BY DwmAssumption DEF Mon, Tag
<1>3. clients \in [Mon -> Seq(Window)] /\ sel \in [Mon -> Window \cup {NoWin}]
      /\ seltags \in [Mon -> 0..1] /\ none \in SUBSET Window
  <2>1. <<>> \in Seq(Window)
    OBVIOUS
  <2> QED
    BY <2>1
<1>4. tagset \in [Mon -> [0..1 -> (SUBSET Tag) \ {{}}]]
  BY <1>2
<1>5. NoClient \in ClientRec /\ NoClient.mon = 0
  BY DwmAssumption DEF NoClient, ClientRec
<1>6. cl \in [Window -> ClientRec] /\ \A w \in Window : cl[w].mon = 0
  BY <1>5
<1>7. \A m \in Mon : clients[m] = <<>> /\ sel[m] = NoWin
  OBVIOUS
<1> HIDE DEF t, clients, sel, tagset, seltags, cl
<1>8. /\ s \in Desktop /\ s.clients = clients /\ s.stack = clients /\ s.sel = sel /\ s.cl = cl
      /\ s.mons = n /\ s.selmon = p /\ s.clientlist = {}
  <2> HIDE DEF none
  <2>1. /\ s \in Desktop /\ s.clients = clients /\ s.stack = clients /\ s.sel = sel /\ s.cl = cl
        /\ s.mons = n /\ s.selmon = p /\ s.clientlist = none
    BY <1>2, <1>3, <1>4, <1>6 DEF Desktop
  <2> QED
    BY <2>1 DEF none
<1> HIDE DEF s
<1>9. \A m \in Mon : On(s, m) = {}
  BY <1>6, <1>8, MonRange DEF On
<1>10. Linked(s)
  <2>1. Members(<<>>) = {} /\ Distinct(<<>>)
    BY DEF Members, Distinct
  <2>2. LinkedBut(s, {}) /\ SelOK(s)
    BY <1>7, <1>8, <1>9, <2>1 DEF LinkedBut, SelOK
  <2> QED
    BY <1>8, <2>2 DEF Linked
<1>11. /\ Linked(t) /\ t.cl = cl /\ t.mons = n /\ t.selmon = p /\ t.clientlist = {}
       /\ \A m \in 1..n : t.stack[m] = <<>> /\ t.sel[m] = NoWin
  <2> DEFINE ms == 1..n
  <2>1. MayCreate(saved, s, ms)
    BY <1>2, <1>9, <1>10 DEF MayCreate
  <2>3. Created(s, t, ms)
    BY <1>1, <2>1, CreatemonIs
  <2> HIDE DEF ms
  <2>2. /\ Linked(t) /\ t.cl = s.cl /\ t.mons = s.mons /\ t.selmon = s.selmon
        /\ t.clientlist = s.clientlist
        /\ \A m \in ms : t.stack[m] = <<>> /\ t.sel[m] = NoWin
    BY <2>3 DEF Created
  <2> QED
    BY <1>8, <2>2 DEF ms
<1>12. Managed(t) = {}
  BY <1>6, <1>11 DEF Managed
<1>13. Placed(t)
  BY <1>11, <1>12 DEF Placed, Mons
<1>14. LastFocused(t)
  <2>1. FirstIn(<<>>, Visible(t)) = NoWin
    BY DEF FirstIn
  <2> QED
    BY <1>11, <2>1 DEF LastFocused
<1> QED
  BY <1>11, <1>12, <1>13, <1>14 DEF Good, Sound, Linked, t

-----------------------------------------------------------------------------
(* The steps of dwm, of the programs and of the X server.                  *)

(* A step that keeps the clients and leaves what waits alone. *)
LEMMA KeptInv ==
    ASSUME DesktopInv, Kept(d, d'), UNCHANGED <<pc, todo, drag, queue, pvars, uses>>
    PROVE  DesktopInv'
<1>1. Good(d') /\ Managed(d') = Managed(d)
  BY DEF Kept
<1>2. WaitingOK'
  BY <1>1 DEF DesktopInv, WaitingOK
<1>3. PersistedOK'
  BY DEF DesktopInv, PersistedOK, pvars
<1> QED
  BY <1>1, <1>2, <1>3 DEF DesktopInv, Good, Sound, Desktop, LinkedBut, Placed, SelOK, LastFocused

(* A click may select a monitor before the command runs. *)
LEMMA BeforeCommand ==
    ASSUME DesktopInv, NEW s \in Before_command
    PROVE  Kept(d, s)
BY SelectMonitorKeeps DEF Before_command, DesktopInv, Kept

(* The masks of keys and clicks are sets of tags. *)
LEMMA MaskIs == Masked \subseteq SUBSET Tag /\ Masks \subseteq SUBSET Tag
BY DwmAssumption DEF Masked, Tag

(* A command that a click on the bar runs finds a client of the selected   *)
(* monitor.                                                                *)
LEMMA CommandOnWindow ==
    ASSUME DesktopInv, NEW s \in Before_command,
           NEW c \in (Visible(s) \cap Members(s.clients[s.selmon])) \cup ({s.sel[s.selmon]} \ {NoWin})
    PROVE  Good(s) /\ c \in Managed(s) /\ c \in Members(s.clients[s.selmon])
<1>1. Good(s)
  BY BeforeCommand DEF Kept
<1> QED
  BY <1>1, GoodIs, SetsOf

(* Every command keeps the invariant. *)
LEMMA CommandsStep ==
    ASSUME DesktopInv, Commands, UNCHANGED uses
    PROVE  DesktopInv'
<1>1. Good(d) /\ Kept(d, d) /\ d \in Desktop
  BY GoodIs DEF DesktopInv, Kept
<1>2. ASSUME NEW s \in Before_command, NEW t, Kept(s, t), d' = t, Interactive PROVE DesktopInv'
  <2>1. Kept(d, d')
    BY <1>2, BeforeCommand, KeptTrans
  <2> QED
    BY <1>2, <2>1, KeptInv DEF Interactive
<1>3. ASSUME Kept(d, d'), Interactive PROVE DesktopInv'
  BY <1>3, KeptInv DEF Interactive
<1>4. \A s \in Before_command : Good(s)
  BY BeforeCommand DEF Kept
<1>5. \A c \in Managed(d) : c \in Window /\ d.cl[c].mon \in Mons(d)
  BY <1>1, GoodIs DEF Managed
<1>6. CASE View \/ ToggleView
  BY <1>2, <1>4, <1>6, ViewKeeps, MaskIs DEF View, ToggleView
<1>7. CASE SetTag \/ ToggleTag
  BY <1>2, <1>4, <1>7, TagKeeps, MaskIs DEF SetTag, ToggleTag
<1>8. CASE FocusStack
  BY <1>1, <1>3, <1>8, FocusStackKeeps DEF FocusStack
<1>9. CASE FocusMon \/ TagMon
  BY <1>1, <1>3, <1>9, FocusMonKeeps, TagMonKeeps DEF FocusMon, TagMon
<1>10. ASSUME NEW s \in Before_command, NEW arranges \in Arranges,
              NEW c \in (Visible(s) \cap Members(s.clients[s.selmon]))
                            \cup ({s.sel[s.selmon]} \ {NoWin})
       PROVE  /\ Kept(s, zoom(s, c, arranges)) /\ Kept(s, togglewin(s, c, arranges))
              /\ Kept(s, showhideclient(s, c, arranges))
  <2>1. Good(s) /\ c \in Managed(s) /\ c \in Members(s.clients[s.selmon])
    BY CommandOnWindow
  <2>2. arranges \in BOOLEAN
    BY DEF Arranges
  <2> QED
    BY <2>1, <2>2, ZoomKeeps, ToggleWinKeeps
<1>11. CASE Zoom
  BY <1>2, <1>10, <1>11 DEF Zoom, OnWindow
<1>12. CASE ToggleWin \/ ShowHideClient
  BY <1>2, <1>10, <1>12 DEF ToggleWin, ShowHideClient, OnWindow
<1>13. CASE ToggleFloating
  <2>1. d.sel[d.selmon] \in Window /\ Interactive /\ d' = togglefloating(d, d.sel[d.selmon])
    BY <1>1, <1>13, GoodIs DEF ToggleFloating, Managed
  <2>2. Kept(d, d')
    BY <1>1, <2>1, QuietFloating, QuietListed
  <2> QED
    BY <1>3, <2>1, <2>2
<1>14. ASSUME NEW c \in Window, ButtonPress(c) PROVE DesktopInv'
  <2> DEFINE s == select_monitor(d, d.cl[c].mon)
  <2>1. c \in Managed(d) /\ d' = focus(s, c) /\ Interactive
    BY <1>14 DEF ButtonPress
  <2>2. Kept(d, s)
    BY <1>1, <1>5, <2>1, SelectMonitorKeeps
  <2> HIDE DEF s
  <2>3. Kept(s, focus(s, c))
    BY <2>1, <2>2, GoodIs, FocusKeeps DEF Kept
  <2> QED
    BY <1>3, <2>1, <2>2, <2>3, KeptTrans
<1>15. ASSUME NEW c \in Window, EnterNotify(c) PROVE DesktopInv'
  <2> DEFINE m == d.cl[c].mon
             s == unfocus(d, d.sel[d.selmon], TRUE)
             t == [s EXCEPT !.selmon = m]
  <2>1. /\ c \in Managed(d) /\ Interactive
        /\ d' = IF m # d.selmon THEN focus(t, c) ELSE IF c = d.sel[d.selmon] THEN d ELSE focus(d, c)
    BY <1>15 DEF EnterNotify
  <2>2. Quiet(d, s)
    BY <1>1, QuietUnfocus
  <2>3. m \in Mons(d)
    BY <1>5, <2>1
  <2> HIDE DEF s, m
  <2>4. Listed(s) /\ Managed(s) = Managed(d) /\ m \in Mons(s)
    BY <1>1, <2>2, <2>3, GoodIs, QuietListed DEF Quiet, SameViews, Mons
  <2>5. Listed(t) /\ Managed(t) = Managed(d)
    BY <2>4, SelmonListed
  <2> HIDE DEF t
  <2>6. Kept(d, focus(t, c)) /\ Kept(d, focus(d, c))
    BY <1>1, <2>1, <2>5, GoodIs, FocusAfter
  <2> QED
    BY <1>1, <1>3, <2>1, <2>6
<1>16. ASSUME NEW m \in Mon, PointerEntersMonitor(m) PROVE DesktopInv'
  BY <1>1, <1>3, <1>16, SelectMonitorKeeps DEF PointerEntersMonitor
<1>17. CASE DragBegin
  <2>1. drag' \in Managed(d)
    BY <1>1, <1>17, GoodIs DEF DragBegin
  <2>2. WaitingOK'
    BY <1>17, <2>1 DEF DragBegin, DesktopInv, WaitingOK, Managed
  <2>3. Good(d)' /\ PersistedOK'
    BY <1>17 DEF DragBegin, DesktopInv, PersistedOK, pvars, Good, Sound, Desktop, LinkedBut,
                 Placed, SelOK, LastFocused
  <2> QED
    BY <2>2, <2>3 DEF DesktopInv
<1>18. CASE DragMotion
  <2>1. d.sel[d.selmon] \in Window /\ d' = togglefloating(d, d.sel[d.selmon])
    BY <1>1, <1>18, GoodIs DEF DragMotion, Managed
  <2>2. Kept(d, d')
    BY <1>1, <2>1, QuietFloating, QuietListed
  <2> QED
    BY <1>18, <2>2, KeptInv DEF DragMotion
<1>19. ASSUME NEW m \in Mon, DragEnd(m) PROVE DesktopInv'
  <2> DEFINE s == sendmon(d, drag, m)
             t == [s EXCEPT !.selmon = m]
  <2>1. /\ pc = "drag" /\ m \in Mons(d) /\ pc' = "run"
        /\ d' = IF m = d.selmon THEN d ELSE focus(t, NoWin)
        /\ UNCHANGED <<todo, queue, pvars>>
    BY <1>19 DEF DragEnd
  <2>2. drag \in Managed(d)
    BY <2>1 DEF DesktopInv, WaitingOK
  <2>3. Kept(d, s) /\ s.mons = d.mons
    BY <1>1, <2>1, <2>2, SendmonKeeps
  <2> HIDE DEF s
  <2>4. Listed(s) /\ Managed(s) = Managed(d) /\ m \in Mons(s)
    BY <2>1, <2>3, GoodIs DEF Kept, Mons
  <2>5. Listed(t) /\ Managed(t) = Managed(d)
    BY <2>4, SelmonListed
  <2> HIDE DEF t
  <2>6. Kept(d, d')
    BY <1>1, <2>1, <2>5, FocusAfter
  <2>7. Good(d)' /\ PersistedOK' /\ WaitingOK'
    BY <2>1, <2>6 DEF DesktopInv, PersistedOK, WaitingOK, pvars, Kept, Good, Sound, Desktop, LinkedBut,
                 Placed, SelOK, LastFocused
  <2> QED
    BY <2>7 DEF DesktopInv
<1> QED
  BY <1>6, <1>7, <1>8, <1>9, <1>11, <1>12, <1>13, <1>14, <1>15, <1>16, <1>17, <1>18, <1>19 DEF Commands

(* The handlers whose record of a client changes in its flags only.        *)
LEMMA FlagsKept ==
    ASSUME NEW s, Good(s), NEW c \in Window, NEW b \in BOOLEAN
    PROVE  /\ Kept(s, [s EXCEPT !.cl[c].isurgent = b])
           /\ Kept(s, [s EXCEPT !.cl[c].isfloating = b])
<1> DEFINE q == [s.cl[c] EXCEPT !.isurgent = b]
           r == [s.cl[c] EXCEPT !.isfloating = b]
<1>1. s \in Desktop /\ s.cl[c] \in ClientRec
  BY GoodIs, Fields
<1>2. /\ q \in ClientRec /\ q.mon = s.cl[c].mon /\ q.tags = s.cl[c].tags
      /\ r \in ClientRec /\ r.mon = s.cl[c].mon /\ r.tags = s.cl[c].tags
  BY <1>1, FlagsOf
<1>3. /\ [s EXCEPT !.cl[c].isurgent = b] = [s EXCEPT !.cl[c] = q]
      /\ [s EXCEPT !.cl[c].isfloating = b] = [s EXCEPT !.cl[c] = r]
  OBVIOUS
<1> HIDE DEF q, r
<1>4. Quiet(s, [s EXCEPT !.cl[c] = q]) /\ Quiet(s, [s EXCEPT !.cl[c] = r])
  BY <1>1, <1>2, QuietFlags
<1> QED
  BY <1>3, <1>4, QuietListed

(* The queue loses an event.                                               *)
LEMMA QueueShrinks ==
    ASSUME NEW q \in Seq(Event), NEW k \in DOMAIN q
    PROVE  /\ RemoveAt(q, k) \in Seq(Event) /\ Len(RemoveAt(q, k)) <= Len(q)
           /\ Tail(q) \in Seq(Event) /\ Len(Tail(q)) <= Len(q)
           /\ Head(q).win \in Window /\ q[k].win \in Window
<1> DEFINE a == SubSeq(q, 1, k - 1)
           b == SubSeq(q, k + 1, Len(q))
<1>1. Len(q) \in Nat /\ DOMAIN q = 1..Len(q) /\ k \in 1..Len(q) /\ q # <<>>
  BY LenProperties, EmptySeq
<1>2. \A i \in 1..Len(q) : q[i] \in Event
  BY <1>1, ElementOfSeq
<1>3. a \in Seq(Event) /\ Len(a) = k - 1
  <2>1. \A i \in 1..(k - 1) : q[i] \in Event
    BY <1>1, <1>2
  <2> QED
    BY <1>1, <2>1, SubSeqProperties
<1>4. b \in Seq(Event) /\ Len(b) = Len(q) - k
  <2>1. \A i \in (k + 1)..Len(q) : q[i] \in Event
    BY <1>1, <1>2
  <2> QED
    BY <1>1, <2>1, SubSeqProperties
<1> HIDE DEF a, b
<1>5. a \o b \in Seq(Event) /\ Len(a \o b) = Len(q) - 1
  <2>1. a \o b \in Seq(Event) /\ Len(a \o b) = Len(a) + Len(b)
    BY <1>3, <1>4, ConcatProperties
  <2> QED
    BY <1>1, <1>3, <1>4, <2>1
<1>6. RemoveAt(q, k) = a \o b
  BY DEF RemoveAt, a, b
<1>7. Tail(q) \in Seq(Event) /\ Len(Tail(q)) = Len(q) - 1 /\ Head(q) \in Event
  BY <1>1, HeadTailProperties
<1>8. RemoveAt(q, k) \in Seq(Event) /\ Len(RemoveAt(q, k)) <= Len(q)
  BY <1>1, <1>5, <1>6
<1>9. Len(Tail(q)) <= Len(q)
  BY <1>1, <1>7
<1>10. Head(q).win \in Window /\ q[k].win \in Window
  <2>1. Head(q) \in Event /\ q[k] \in Event
    BY <1>1, <1>2, <1>7
  <2> QED
    BY <2>1 DEF Event
<1> QED
  BY <1>7, <1>8, <1>9, <1>10

(* A handler that has taken an event from the queue.                       *)
LEMMA HandlerStep ==
    ASSUME DesktopInv, Good(d'), pc # "drag" \/ Managed(d) \subseteq Managed(d'), pc # "scan",
           queue' \in Seq(Event), Len(queue') <= MaxQueue, UNCHANGED <<pc, todo, drag, pvars, uses>>
    PROVE  DesktopInv'
<1>1. WaitingOK' /\ PersistedOK'
  BY DEF DesktopInv, WaitingOK, PersistedOK, pvars
<1>2. Good(d)'
  BY DEF Good, Sound, Desktop, LinkedBut, Placed, SelOK, LastFocused
<1> QED
  BY <1>1, <1>2 DEF DesktopInv

(* Every handler keeps the invariant. *)
LEMMA HandlersStep ==
    ASSUME DesktopInv, Handlers, UNCHANGED uses
    PROVE  DesktopInv'
<1>1. /\ Good(d) /\ Kept(d, d) /\ d \in Desktop /\ PersistedOK
      /\ queue \in Seq(Event) /\ Len(queue) <= MaxQueue /\ pc \in {"scan", "run", "drag"}
  BY GoodIs DEF DesktopInv, WaitingOK, Kept
<1>2. Len(queue) \in Nat /\ MaxQueue \in Nat /\ DOMAIN queue = 1..Len(queue)
  BY <1>1, LenProperties, DwmAssumption
<1>3. ASSUME NEW k \in DOMAIN queue, maprequest(k) PROVE DesktopInv'
  <2> DEFINE w == queue[k].win
  <2>1. /\ pc # "scan" /\ queue' = RemoveAt(queue, k) /\ UNCHANGED <<pc, todo, drag, pvars>>
        /\ \/ d' = d
           \/ w \notin Managed(d) /\ \E urgent \in May("urgent") : d' = manage(d, w, urgent)
    BY <1>3 DEF maprequest
  <2>2. w \in Window
    BY <1>1, QueueShrinks
  <2>3. queue' \in Seq(Event) /\ Len(queue') <= Len(queue)
    BY <1>1, <2>1, QueueShrinks
  <2>4. Len(queue') \in Nat /\ Len(queue') <= MaxQueue
    BY <1>1, <1>2, <2>3, LenProperties
  <2> HIDE DEF w
  <2>5. May("urgent") \subseteq BOOLEAN
    BY DEF May
  <2>6. Good(d') /\ Managed(d) \subseteq Managed(d')
    BY <1>1, <2>1, <2>2, <2>5, ManageKeeps
  <2> QED
    BY <2>1, <2>3, <2>4, <2>6, HandlerStep
<1>4. ASSUME NEW type, Handle(type)
      PROVE  /\ pc = "run" /\ queue' \in Seq(Event) /\ Len(queue') <= MaxQueue
             /\ UNCHANGED <<pc, todo, drag, pvars>> /\ Head(queue).win \in Window
  <2>1. queue # <<>> /\ queue' = Tail(queue) /\ pc = "run" /\ UNCHANGED <<pc, todo, drag, pvars>>
    BY <1>4 DEF Handle
  <2>2. 1 \in DOMAIN queue
    BY <1>1, <1>2, <2>1, EmptySeq
  <2>3. queue' \in Seq(Event) /\ Len(queue') <= Len(queue) /\ Head(queue).win \in Window
    BY <1>1, <2>1, <2>2, QueueShrinks
  <2>4. Len(queue') \in Nat
    BY <2>3, LenProperties
  <2> QED
    BY <1>1, <1>2, <2>1, <2>3, <2>4
<1>5. ASSUME NEW type, Handle(type), Good(d') PROVE DesktopInv'
  BY <1>4, <1>5, HandlerStep
<1>6. CASE unmapnotify
  <2> DEFINE c == Head(queue).win
  <2>1. CASE Handle("UnmapNotify") /\ d' = IF c \in Managed(d) THEN unmanage(d, c, FALSE) ELSE d
    <3>1. Good(d')
      BY <1>1, <2>1, UnmanageKeeps
    <3> QED
      BY <1>5, <2>1, <3>1
  <2>2. CASE /\ Handle("UnmapNotify sent by the client")
             /\ d' = IF c \in Managed(d) THEN [d EXCEPT !.wmstate[c] = "Withdrawn"] ELSE d
    <3>1. c \in Window
      BY <1>4, <2>2
    <3> DEFINE f == [d.wmstate EXCEPT ![c] = "Withdrawn"]
               t == [d EXCEPT !.wmstate = f]
    <3>2. d.wmstate \in [Window -> {"Normal", "Iconic", "Withdrawn"}]
      BY <1>1, Fields
    <3> HIDE DEF c
    <3>3. f \in [Window -> {"Normal", "Iconic", "Withdrawn"}]
      BY <3>1, <3>2
    <3>4. [d EXCEPT !.wmstate[c] = "Withdrawn"] = t
      OBVIOUS
    <3> HIDE DEF f
    <3>5. Quiet(d, t)
      BY <1>1, <3>3 DEF Desktop, Quiet, SameViews, SameClients, SameLists
    <3> HIDE DEF t
    <3>6. Good(d')
      BY <1>1, <2>2, <3>4, <3>5, QuietListed DEF Kept, c
    <3> QED
      BY <1>5, <2>2, <3>6
  <2> QED
    BY <1>6, <2>1, <2>2 DEF unmapnotify
<1>7. CASE destroynotify
  <2> DEFINE c == Head(queue).win
  <2>1. Handle("DestroyNotify") /\ d' = IF c \in Managed(d) THEN unmanage(d, c, TRUE) ELSE d
    BY <1>7 DEF destroynotify
  <2>2. Good(d')
    BY <1>1, <2>1, UnmanageKeeps
  <2> QED
    BY <1>5, <2>1, <2>2
<1>8. CASE focusin
  <2> DEFINE c == d.sel[d.selmon]
  <2>1. Handle("FocusIn") /\ d' = IF c # NoWin /\ c # Head(queue).win THEN setfocus(d, c) ELSE d
    BY <1>8 DEF focusin
  <2>2. c # NoWin => c \in Window
    BY <1>1, GoodIs DEF Managed
  <2> HIDE DEF c
  <2>3. Good(d')
    BY <1>1, <2>1, <2>2, QuietX, QuietListed DEF Kept
  <2> QED
    BY <1>5, <2>1, <2>3
<1>9. ASSUME Kept(d, d'), Interactive PROVE DesktopInv'
  BY <1>9, KeptInv DEF Interactive
<1>10. CASE configurenotify
  <2>1. PICK n \in Mon, p \in Mon, moved \in BOOLEAN, resized \in BOOLEAN :
          /\ p <= n /\ (n # d.mons => resized) /\ Interactive
          /\ LET u == updategeom(d, n, moved, p)
             IN  d' = IF u.dirty \/ resized THEN focus(u.s, NoWin) ELSE u.s
    BY <1>10 DEF configurenotify
  <2> DEFINE u == updategeom(d, n, moved, p)
  <2>2. p \in 1..n
    BY <2>1, DwmAssumption DEF Mon
  <2>3. Listed(u.s) /\ Managed(u.s) = Managed(d) /\ (~u.dirty /\ n = d.mons => Good(u.s))
    BY <1>1, <2>2, UpdategeomKeeps
  <2>4. d' = IF u.dirty \/ resized THEN focus(u.s, NoWin) ELSE u.s
    BY <2>1
  <2> HIDE DEF u
  <2>5. Kept(d, focus(u.s, NoWin))
    BY <2>3, FocusAfter
  <2>6. Kept(d, d')
    BY <2>1, <2>3, <2>4, <2>5 DEF Kept
  <2> QED
    BY <1>9, <2>1, <2>6
<1>11. ASSUME NEW c \in Window,
              FullscreenRequest(c) \/ ActivateRequest(c) \/ TransientChange(c)
       PROVE  DesktopInv'
  <2>1. CASE FullscreenRequest(c)
    BY <1>1, <1>9, <2>1, QuietFullscreen, QuietListed DEF FullscreenRequest
  <2>2. CASE ActivateRequest(c)
    BY <1>1, <1>9, <2>2, FlagsKept DEF ActivateRequest
  <2>3. CASE TransientChange(c)
    BY <1>1, <1>9, <2>3, FlagsKept DEF TransientChange
  <2> QED
    BY <1>11, <2>1, <2>2, <2>3
<1> QED
  BY <1>3, <1>6, <1>7, <1>8, <1>10, <1>11 DEF Handlers

(* updatewmhints writes the mark of urgency, if anything, on the desktop.  *)
LEMMA HintsDo ==
    ASSUME NEW c \in Window, updatewmhints(c), Good(d)
    PROVE  /\ Interactive
           /\ \E b \in BOOLEAN : d' = d \/ d' = [d EXCEPT !.cl[c].isurgent = b]
BY DEF updatewmhints, May

(* New hints keep the invariant. *)
LEMMA HintsStep ==
    ASSUME DesktopInv, Hints, UNCHANGED uses
    PROVE  DesktopInv'
<1>1. Good(d) /\ Kept(d, d)
  BY DEF DesktopInv, Kept
<1>2. PICK c \in Window : updatewmhints(c)
  BY DEF Hints
<1>3. PICK b \in BOOLEAN : Interactive /\ (d' = d \/ d' = [d EXCEPT !.cl[c].isurgent = b])
  BY <1>1, <1>2, HintsDo
<1> DEFINE t == [d EXCEPT !.cl[c].isurgent = b]
<1>4. Kept(d, t)
  BY <1>1, FlagsKept, Zenon
<1>5. d' = d \/ d' = t
  BY <1>3
<1> HIDE DEF t
<1>6. Kept(d, d')
  BY <1>1, <1>4, <1>5
<1> QED
  BY <1>3, <1>6, KeptInv DEF Interactive

(* scan looks at a window, and manages it if it is mapped or hidden. *)
LEMMA ScanManage ==
    ASSUME DesktopInv, NEW w \in Window, ScanWindow(w), UNCHANGED uses
    PROVE  DesktopInv'
<1>1. /\ Good(d) /\ Kept(d, d) /\ PersistedOK /\ w \in todo /\ pc = "scan" /\ w \notin Managed(d)
      /\ todo' = todo \ {w} /\ UNCHANGED <<pc, drag, queue, pvars>>
  BY DEF DesktopInv, WaitingOK, Kept, ScanWindow
<1>2. Good(d') /\ Managed(d') \subseteq Managed(d) \cup {w}
  <2>1. CASE d' = d
    BY <1>1, <2>1
  <2>2. CASE \E urgent \in May("urgent") : d' = manage(d, w, urgent)
    <3>1. PICK urgent \in BOOLEAN : d' = manage(d, w, urgent)
      BY <2>2 DEF May
    <3> QED
      BY <1>1, <3>1, ManageKeeps
  <2> QED
    BY <2>1, <2>2 DEF ScanWindow
<1>3. WaitingOK' /\ PersistedOK' /\ Good(d)'
  BY <1>1, <1>2 DEF DesktopInv, WaitingOK, PersistedOK, pvars, Good, Sound, Desktop, LinkedBut,
               Placed, SelOK, LastFocused, Managed
<1> QED
  BY <1>3 DEF DesktopInv

(* dwm starts on windows that exist, with what was written on them.        *)
LEMMA StartupStep ==
    ASSUME DesktopInv, NEW wmstate \in [Window -> {"Normal", "Iconic", "Withdrawn"}],
           Startup(wmstate), PersistedOK', UNCHANGED uses
    PROVE  DesktopInv'
<1>1. d \in Desktop /\ d.exists \subseteq Window /\ d.mapped \subseteq Window /\ d.full \subseteq Window
  BY GoodIs, Fields DEF DesktopInv
<1>2. PICK n \in Mon : \E p \in 1..n :
        d' = setup(n, p, d.exists, d.mapped, wmstate, d.full, rootprops')
  <2>1. Screens \subseteq Mon
    BY DwmAssumption DEF Screens, Mon
  <2> QED
    BY <2>1 DEF Startup
<1>3. rootprops' \in [Mon -> SUBSET Tag]
  BY DEF PersistedOK
<1>4. Good(d') /\ Managed(d') = {}
  <2>1. PICK p \in 1..n : d' = setup(n, p, d.exists, d.mapped, wmstate, d.full, rootprops')
    BY <1>2
  <2> QED
    BY <1>1, <1>3, <2>1, SetupIs
<1>5. pc' = "scan" /\ todo' = d.exists /\ queue' = <<>>
  BY DEF Startup
<1>6. queue' \in Seq(Event) /\ Len(queue') <= MaxQueue
  BY <1>5, EmptySeq, DwmAssumption
<1>7. Managed(d)' = {}
  BY <1>4 DEF Managed
<1>8. WaitingOK'
  BY <1>1, <1>5, <1>6, <1>7 DEF WaitingOK
<1>9. Good(d)'
  BY <1>4 DEF Good, Sound, Desktop, LinkedBut, Placed, SelOK, LastFocused
<1> QED
  BY <1>8, <1>9 DEF DesktopInv

(* What cleanup() writes: the fields of the clients and the monitors'      *)
(* views.                                                                  *)
LEMMA PersistedIs ==
    ASSUME Good(d), NEW c \in Managed(d)
    PROVE  Persisted(c) \in Props /\ Persisted(c).tags # {}
<1> DEFINE i == PositionOf(d.clients[d.cl[c].mon], c)
<1>1. /\ d \in Desktop /\ LinkedBut(d, {}) /\ Placed(d) /\ c \in Window
      /\ d.cl[c] \in ClientRec /\ d.cl[c].mon \in Mon
  <2>1. d \in Desktop /\ Sound(d) /\ d.cl[c].mon \in Mon
    BY GoodIs
  <2>2. c \in Window
    BY DEF Managed
  <2> QED
    BY <2>1, <2>2, Fields DEF Sound
<1>2. d.clients[d.cl[c].mon] \in Seq(Window) /\ c \in Members(d.clients[d.cl[c].mon])
  BY <1>1, Fields DEF LinkedBut, On
<1>3. i \in 1..Len(d.clients[d.cl[c].mon])
  BY <1>2, PositionIn
<1>4. i \in Nat
  BY <1>2, <1>3, LenProperties
<1> HIDE DEF i
<1>5. /\ d.cl[c].mon \in 0..MaxMon /\ d.cl[c].tags \in SUBSET Tag
      /\ d.cl[c].isfloating \in BOOLEAN /\ d.cl[c].tags # {}
  BY <1>1, ClientFields DEF Placed
<1>6. Persisted(c) = [mon |-> d.cl[c].mon, tags |-> d.cl[c].tags,
                      isfloating |-> d.cl[c].isfloating, idx |-> i]
  BY DEF Persisted, i
<1> QED
  BY <1>4, <1>5, <1>6 DEF Props

(* Scan, restart and crash keep the invariant. *)
LEMMA LifecycleStep ==
    ASSUME DesktopInv, Lifecycle, UNCHANGED uses
    PROVE  DesktopInv'
<1>1. Good(d) /\ PersistedOK /\ d \in Desktop
  BY GoodIs DEF DesktopInv
<1>2. d.wmstate \in [Window -> {"Normal", "Iconic", "Withdrawn"}]
  BY <1>1, Fields
<1>3. CASE ScanEnd
  BY <1>3 DEF ScanEnd, DesktopInv, WaitingOK, PersistedOK, pvars, Good, Sound, Desktop, LinkedBut,
              Placed, SelOK, LastFocused
<1>4. CASE Restart
  <2> DEFINE wmstate == [w \in Window |-> IF w \in Managed(d) THEN "Withdrawn" ELSE d.wmstate[w]]
  <2>1. wmstate \in [Window -> {"Normal", "Iconic", "Withdrawn"}] /\ Startup(wmstate)
    BY <1>2, <1>4 DEF Restart
  <2> HIDE DEF wmstate
  <2>2. /\ props' = [w \in Window |-> IF w \in Managed(d) THEN Persisted(w) ELSE props[w]]
        /\ rootprops' = [m \in Mon |-> IF m \in Mons(d) THEN Shown(d, m) ELSE rootprops[m]]
    BY <1>4 DEF Restart
  <2>3. \A w \in Window : props[w] \in Props /\ (props[w].mon # 0 => props[w].tags # {})
    BY <1>1 DEF PersistedOK
  <2>4. \A w \in Window : props'[w] \in Props /\ (props'[w].mon # 0 => props'[w].tags # {})
    BY <1>1, <2>2, <2>3, PersistedIs
  <2>5. \A m \in Mon : rootprops'[m] \in SUBSET Tag
    BY <1>1, <2>2, ShownIs DEF PersistedOK
  <2>6. PersistedOK'
    BY <2>2, <2>4, <2>5 DEF PersistedOK
  <2> QED
    BY <2>1, <2>6, StartupStep
<1>5. CASE Crash
  <2>1. Startup(d.wmstate) /\ PersistedOK'
    BY <1>1, <1>5 DEF Crash, PersistedOK
  <2> QED
    BY <1>2, <2>1, StartupStep
<1> QED
  BY <1>3, <1>4, <1>5, ScanManage DEF Lifecycle

(* The X server adds events to the queue.                                  *)
LEMMA SendIs ==
    ASSUME queue \in Seq(Event), NEW w \in Window, NEW types,
           types \in Seq({"MapRequest", "UnmapNotify", "UnmapNotify sent by the client",
                          "DestroyNotify", "FocusIn"}),
           Send(types, w)
    PROVE  queue' \in Seq(Event) /\ Len(queue') <= MaxQueue
<1> DEFINE T == {"MapRequest", "UnmapNotify", "UnmapNotify sent by the client",
                 "DestroyNotify", "FocusIn"}
           new == [k \in DOMAIN types |-> [type |-> types[k], win |-> w]]
<1>1. Len(types) \in Nat /\ DOMAIN types = 1..Len(types) /\ \A k \in 1..Len(types) : types[k] \in T
  BY LenProperties, ElementOfSeq
<1>2. \A k \in 1..Len(types) : [type |-> types[k], win |-> w] \in Event
  BY <1>1 DEF Event
<1>3. new \in [1..Len(types) -> Event]
  BY <1>1, <1>2
<1>4. new \in Seq(Event) /\ Len(new) = Len(types)
  BY <1>1, <1>3, FunctionIsSeq
<1>5. queue' = queue \o new /\ Len(queue) + Len(types) <= MaxQueue
  BY DEF Send
<1> HIDE DEF new
<1>6. queue \o new \in Seq(Event) /\ Len(queue \o new) = Len(queue) + Len(new)
  BY <1>4, ConcatProperties
<1> QED
  BY <1>4, <1>5, <1>6

(* A program's step changes the X server's side of the desktop only.       *)
LEMMA ProgramStep ==
    ASSUME DesktopInv, Quiet(d, d'), queue' \in Seq(Event), Len(queue') <= MaxQueue,
           UNCHANGED <<pc, todo, drag, pvars, uses>>
    PROVE  DesktopInv'
<1>1. Good(d') /\ Managed(d') = Managed(d)
  BY QuietListed DEF Kept, DesktopInv
<1>2. Good(d)' /\ Managed(d)' = Managed(d)
  BY <1>1 DEF Good, Sound, Desktop, LinkedBut, Placed, SelOK, LastFocused, Managed
<1> QED
  BY <1>2 DEF DesktopInv, WaitingOK, PersistedOK, pvars

(* What the programs do keeps the invariant. *)
LEMMA ProgramsStep ==
    ASSUME DesktopInv, Programs, UNCHANGED uses
    PROVE  DesktopInv'
<1>1. /\ d \in Desktop /\ queue \in Seq(Event)
      /\ d.exists \in SUBSET Window /\ d.mapped \in SUBSET Window
      /\ d.wmstate \in [Window -> {"Normal", "Iconic", "Withdrawn"}]
      /\ d.xfocus \in Window \cup {NoWin}
  BY GoodIs, Fields DEF DesktopInv, WaitingOK
<1> DEFINE T == {"MapRequest", "UnmapNotify", "UnmapNotify sent by the client",
                 "DestroyNotify", "FocusIn"}
<1>2. /\ <<"MapRequest">> \in Seq(T) /\ <<"UnmapNotify">> \in Seq(T) /\ <<"FocusIn">> \in Seq(T)
      /\ <<"UnmapNotify sent by the client">> \in Seq(T)
      /\ <<"UnmapNotify", "DestroyNotify">> \in Seq(T) /\ <<"DestroyNotify">> \in Seq(T)
  OBVIOUS
<1>3. PICK w \in Window : \/ ClientMap(w) \/ ClientUnmap(w) \/ ClientWithdraw(w)
                          \/ ClientDestroy(w) \/ ClientTakesFocus(w)
  BY DEF Programs
<1>4. CASE ClientMap(w)
  BY <1>1, <1>2, <1>4, SendIs, ProgramStep, QuietX DEF ClientMap
<1>5. CASE ClientUnmap(w)
  BY <1>1, <1>2, <1>5, SendIs, ProgramStep, QuietX DEF ClientUnmap
<1>6. CASE ClientWithdraw(w)
  BY <1>1, <1>2, <1>6, SendIs, ProgramStep, QuietX DEF ClientWithdraw
<1>7. CASE ClientDestroy(w)
  <2> DEFINE s == XUnmapWindow(d, w)
             exists == s.exists \ {w}
             wmstate == [s.wmstate EXCEPT ![w] = "Withdrawn"]
             t == [s EXCEPT !.xfocus = s.xfocus, !.exists = exists,
                            !.mapped = s.mapped, !.wmstate = wmstate]
  <2>1. /\ Send(IF w \in d.mapped THEN <<"UnmapNotify", "DestroyNotify">>
                                  ELSE <<"DestroyNotify">>, w)
        /\ UNCHANGED <<pc, todo, drag, pvars>>
        /\ d' = [XUnmapWindow(d, w) EXCEPT !.exists = @ \ {w}, !.wmstate[w] = "Withdrawn"]
    BY <1>7 DEF ClientDestroy
  <2>2. queue' \in Seq(Event) /\ Len(queue') <= MaxQueue
    BY <1>1, <1>2, <2>1, SendIs
  <2>3. Quiet(d, s)
    BY <1>1, QuietX
  <2>4. s \in Desktop
    BY <2>3 DEF Quiet
  <2>5. d' = [s EXCEPT !.exists = exists, !.wmstate = wmstate]
    BY <2>1
  <2> HIDE DEF s
  <2>6. /\ exists \in SUBSET Window /\ wmstate \in [Window -> {"Normal", "Iconic", "Withdrawn"}]
        /\ s.xfocus \in Window \cup {NoWin} /\ s.mapped \in SUBSET Window
    BY <2>4, Fields
  <2> HIDE DEF exists, wmstate
  <2>7. Quiet(s, t)
    BY <2>4, <2>6, QuietServer
  <2>8. t = [s EXCEPT !.exists = exists, !.wmstate = wmstate]
    BY <2>4 DEF Desktop
  <2>9. Quiet(d, d')
    BY <2>3, <2>5, <2>7, <2>8, QuietTrans
  <2> QED
    BY <2>1, <2>2, <2>9, ProgramStep
<1>8. CASE ClientTakesFocus(w)
  <2>1. Quiet(d, [d EXCEPT !.xfocus = w])
    BY <1>1 DEF Desktop, Quiet, SameViews, SameClients, SameLists
  <2> QED
    BY <1>1, <1>2, <1>8, <2>1, SendIs, ProgramStep DEF ClientTakesFocus
<1> QED
  BY <1>3, <1>4, <1>5, <1>6, <1>7, <1>8

-----------------------------------------------------------------------------
(* dwm starts with the invariant. *)
LEMMA InitInv == Init => DesktopInv
<1> SUFFICES ASSUME Init PROVE DesktopInv
  OBVIOUS
<1> DEFINE wmstate == [w \in Window |-> "Withdrawn"]
<1>1. /\ props = [w \in Window |-> NoProps] /\ rootprops = [m \in Mon |-> {}]
      /\ \E n \in Screens : d = setup(n, 1, Window, {}, wmstate, {}, rootprops)
      /\ uses \in Uses /\ pc = "scan" /\ todo = {} /\ queue = <<>>
  BY DEF Init
<1>2. PersistedOK
  <2>1. NoProps \in Props /\ NoProps.mon = 0
    BY DwmAssumption DEF NoProps, Props
  <2> QED
    BY <1>1, <2>1 DEF PersistedOK
<1>3. wmstate \in [Window -> {"Normal", "Iconic", "Withdrawn"}]
  OBVIOUS
<1> HIDE DEF wmstate
<1>4. PICK n \in Mon : d = setup(n, 1, Window, {}, wmstate, {}, rootprops)
  <2>1. Screens \subseteq Mon
    BY DwmAssumption DEF Screens, Mon
  <2> QED
    BY <1>1, <2>1
<1>5. 1 \in 1..n
  BY DwmAssumption DEF Mon
<1>6. Good(d)
  <2>1. {} \in SUBSET Window /\ Window \in SUBSET Window /\ rootprops \in [Mon -> SUBSET Tag]
    BY <1>2 DEF PersistedOK
  <2> QED
    BY <1>3, <1>4, <1>5, <2>1, SetupIs
<1>7. WaitingOK
  BY <1>1, EmptySeq, DwmAssumption DEF WaitingOK
<1> QED
  BY <1>1, <1>2, <1>6, <1>7 DEF DesktopInv

(* Every step keeps the invariant. *)
LEMMA NextInv == DesktopInv /\ [Next]_vars => DesktopInv'
<1> SUFFICES ASSUME DesktopInv, [Next]_vars PROVE DesktopInv'
  OBVIOUS
<1>1. CASE UNCHANGED vars
  BY <1>1 DEF vars, pvars, DesktopInv, WaitingOK, PersistedOK, Good, Sound, Desktop, LinkedBut,
              Placed, SelOK, LastFocused, Managed
<1>2. CASE Next
  <2>1. UNCHANGED uses /\ (Handlers \/ Commands \/ Lifecycle \/ Programs \/ Hints)
    BY <1>2 DEF Next
  <2> QED
    BY <2>1, HandlersStep, CommandsStep, LifecycleStep, ProgramsStep, HintsStep
<1> QED
  BY <1>1, <1>2

(* Whatever keys are pressed, screens plugged and windows mapped, withdrawn *)
(* and destroyed, and however often dwm restarts or crashes, its lists,     *)
(* its monitors' views and what it writes down stay consistent.             *)
THEOREM DesktopHolds == Spec => []DesktopInv
<1>1. Init => DesktopInv
  BY InitInv
<1>2. DesktopInv /\ [Next]_vars => DesktopInv'
  BY NextInv
<1> QED
  BY <1>1, <1>2, PTL DEF Spec

(* A client is in exactly one client list and one stack, those of c->mon;   *)
(* sel names a client of its monitor; every client has tags and every       *)
(* monitor a view.                                                          *)
THEOREM ListsSoundHolds == Spec => []ListsSound
<1>1. DesktopInv => ListsSound
  <2> SUFFICES ASSUME DesktopInv PROVE ListsSound
    OBVIOUS
  <2>1. d \in Desktop /\ LinkedBut(d, {}) /\ Placed(d) /\ SelOK(d) /\ d.selmon \in Mons(d)
    BY DEF DesktopInv, Good, Sound, Placed
  <2>2. \A m \in Mons(d) : m \in Mon
    BY <2>1, MonsAreMon
  <2>3. TypeOK
    <3>1. /\ d.mons \in Mon /\ d.xfocus \in Window \cup {NoWin}
          /\ d.seltags \in [Mon -> 0..1] /\ d.sel \in [Mon -> Window \cup {NoWin}]
          /\ d.tagset \in [Mon -> [0..1 -> (SUBSET Tag) \ {{}}]]
          /\ d.cl \in [Window -> ClientRec]
      BY <2>1, Fields
    <3>2. \A m \in Mons(d) : /\ d.seltags[m] \in 0..1
                             /\ \A i \in 0..1 : d.tagset[m][i] \in (SUBSET Tag) \ {{}}
                             /\ d.sel[m] \in Window \cup {NoWin}
      BY <2>2, <3>1
    <3>3. \A c \in Managed(d) : d.cl[c].mon \in Mons(d) /\ d.cl[c].tags \in (SUBSET Tag) \ {{}}
      <4>1. \A c \in Managed(d) : d.cl[c].tags \in SUBSET Tag
        BY <3>1, ClientFields DEF Managed
      <4> QED
        BY <2>1, <4>1 DEF Placed
    <3> QED
      BY <2>1, <3>1, <3>2, <3>3 DEF TypeOK, DesktopInv, WaitingOK
  <2>4. InOnePlace
    BY <2>1 DEF InOnePlace, LinkedBut, On
  <2>5. SelBelongs
    BY <2>1, <2>2 DEF SelBelongs, SelOK
  <2> QED
    BY <2>3, <2>4, <2>5 DEF ListsSound
<1> QED
  BY <1>1, DesktopHolds, PTL

(* focus() and its callers keep the selected client the first of the stack  *)
(* that the view shows.                                                     *)
THEOREM SelIsLastFocusedHolds == Spec => []SelIsLastFocused
<1>1. DesktopInv => SelIsLastFocused
  BY DEF DesktopInv, Good, LastFocused, SelIsLastFocused
<1> QED
  BY <1>1, DesktopHolds, PTL

(* _NET_CLIENT_LIST names the clients after every event, also while dwm     *)
(* scans.                                                                   *)
THEOREM ClientListExactHolds == Spec => []ClientListExact
<1>1. DesktopInv => ClientListExact
  BY DEF DesktopInv, Good, ClientListExact
<1> QED
  BY <1>1, DesktopHolds, PTL

-----------------------------------------------------------------------------
(* What dwm has asked of the X server: the windows that it maps, their     *)
(* WM_STATE, and the input focus.                                          *)

SameServer(s, t) == t.mapped = s.mapped /\ t.exists = s.exists /\ t.wmstate = s.wmstate

(* The fields that the X server and focus() need are there. *)
Fielded(s) == {"mapped", "exists", "wmstate", "xfocus", "sel", "selmon"} \subseteq DOMAIN s

(* A function that moves clients between lists, views or monitors.         *)
Moves(s, t) == Fielded(t) /\ SameServer(s, t)

(* Keys go to sel if it is mapped and takes input. *)
Focused(s) == s.sel[s.selmon] \in s.mapped \ noinput => s.xfocus = s.sel[s.selmon]

SameFocus(s, t) == t.xfocus = s.xfocus /\ t.sel[t.selmon] = s.sel[s.selmon]

(* What a command does to the X server. *)
Ran(s, t) == SameServer(s, t) /\ (Focused(t) \/ SameFocus(s, t))

(* The functions that move clients leave the X server alone. *)
LEMMA MovesLists ==
    ASSUME NEW s, Fielded(s), NEW c
    PROVE  /\ Moves(s, detachstack(s, c)) /\ Moves(s, attachstack(s, c))
           /\ Moves(s, detach_client(s, c)) /\ Moves(s, attach_client(s, c))
           /\ \A setroot \in BOOLEAN : Moves(s, unfocus(s, c, setroot))
<1>1. Moves(s, detachstack(s, c))
  BY DEF Moves, Fielded, SameServer, detachstack
<1>2. Moves(s, attachstack(s, c))
  BY DEF Moves, Fielded, SameServer, attachstack
<1>3. Moves(s, detach_client(s, c))
  BY DEF Moves, Fielded, SameServer, detach_client
<1>4. Moves(s, attach_client(s, c))
  BY DEF Moves, Fielded, SameServer, attach_client
<1>5. ASSUME NEW setroot \in BOOLEAN PROVE Moves(s, unfocus(s, c, setroot))
  BY DEF Moves, Fielded, SameServer, unfocus
<1> QED
  BY <1>1, <1>2, <1>3, <1>4, <1>5

(* So does writing what is not the X server's. *)
LEMMA MovesFields ==
    ASSUME NEW s, Fielded(s)
    PROVE  /\ \A m : Moves(s, [s EXCEPT !.selmon = m])
           /\ \A cl : Moves(s, [s EXCEPT !.cl = cl])
           /\ \A tagset, seltags : Moves(s, [s EXCEPT !.seltags = seltags, !.tagset = tagset])
BY DEF Moves, Fielded, SameServer

(* One such function after another. *)
LEMMA MovesTrans ==
    ASSUME NEW s, NEW t, NEW u, Moves(s, t), Moves(t, u)
    PROVE  Moves(s, u)
BY DEF Moves, SameServer

(* What is needed of a desktop to tell what sel is. *)
Selects(s) == /\ s.selmon \in Mon /\ s.sel \in [Mon -> Window \cup {NoWin}]
              /\ s.mapped \in SUBSET Window

(* focus() gives the input focus to the window that it selects. *)
LEMMA FocusServer ==
    ASSUME NEW s, Fielded(s), NEW c0
    PROVE  LET t == focus(s, c0)
           IN  Moves(s, t) /\ (Selects(t) => Focused(t))
<1> DEFINE c == IF c0 # NoWin /\ ISVISIBLE(s, c0) THEN c0
                ELSE FirstIn(s.stack[s.selmon], Visible(s))
           m == s.cl[c].mon
           none == [s EXCEPT !.xfocus = NoWin, !.sel[s.selmon] = NoWin]
           x == attachstack(detachstack(s, c), c)
           y == setfocus(x, c)
           z == [y EXCEPT !.selmon = m, !.sel[m] = c, !.cl[c].isurgent = FALSE]
           t == focus(s, c0)
<1>1. t = IF c = NoWin THEN none ELSE z
  <2>1. t = IF c = NoWin THEN none ELSE focus_client(s, c)
    BY DEF focus
  <2> HIDE DEF c
  <2>2. focus_client(s, c) = z
    BY Zenon DEF focus_client
  <2> QED
    BY <2>1, <2>2
<1> HIDE DEF c, t
<1>2. CASE c = NoWin
  <2>1. Moves(s, t) /\ t.selmon = s.selmon /\ t.sel = [s.sel EXCEPT ![s.selmon] = NoWin]
    BY <1>1, <1>2 DEF Fielded, Moves, SameServer
  <2>2. Selects(t) => t.sel[t.selmon] = NoWin
    BY <2>1 DEF Selects
  <2> QED
    BY <2>1, <2>2, DwmAssumption DEF Focused, Selects, t
<1>3. CASE c # NoWin
  <2>1. Moves(s, x)
    BY MovesLists, MovesTrans DEF Moves
  <2> HIDE DEF x, m
  <2>2. Moves(s, y) /\ (c \in s.mapped \ noinput => y.xfocus = c)
    BY <2>1 DEF Moves, Fielded, SameServer, setfocus
  <2> HIDE DEF y
  <2>3. t.selmon = m /\ Moves(s, t) /\ t.sel = [y.sel EXCEPT ![m] = c] /\ t.xfocus = y.xfocus
    BY <1>1, <1>3, <2>2 DEF Moves, Fielded, SameServer
  <2>4. Selects(t) => t.sel[t.selmon] = c
    BY <2>3 DEF Selects
  <2> QED
    BY <2>2, <2>3, <2>4 DEF Focused, Moves, SameServer, t
<1> QED
  BY <1>2, <1>3

(* A desktop has all its fields. *)
LEMMA FieldedIs == \A s \in Desktop : Fielded(s) /\ Moves(s, s) /\ Ran(s, s)
BY DEF Desktop, Fielded, Moves, SameServer, Ran, SameFocus

(* One command after another. *)
LEMMA RanTrans ==
    ASSUME NEW s, NEW t, NEW u, Ran(s, t), Ran(t, u)
    PROVE  Ran(s, u)
BY DEF Ran, SameServer, SameFocus, Focused

(* A function that moves something and then focuses. *)
LEMMA MovesRan ==
    ASSUME NEW s, NEW t, Moves(s, t), NEW c, Kept(s, focus(t, c))
    PROVE  Ran(s, focus(t, c))
<1>1. Selects(focus(t, c))
  BY Fields DEF Kept, Good, Sound, Selects
<1>2. SameServer(t, focus(t, c)) /\ Focused(focus(t, c))
  BY <1>1, FocusServer DEF Moves
<1> QED
  BY <1>2 DEF Ran, Moves, SameServer

-----------------------------------------------------------------------------
(* The commands. *)

(* focus() itself. *)
LEMMA FocusRuns ==
    ASSUME NEW s, Good(s), NEW c \in Managed(s) \cup {NoWin}
    PROVE  Ran(s, focus(s, c))
BY GoodIs, FocusKeeps, FieldedIs, MovesRan

(* A click on the bar of another monitor. *)
LEMMA SelectMonitorRuns ==
    ASSUME NEW s, Good(s), NEW m \in Mons(s)
    PROVE  Ran(s, select_monitor(s, m))
<1> DEFINE u == unfocus(s, s.sel[s.selmon], TRUE)
           v == [u EXCEPT !.selmon = m]
<1>1. s \in Desktop /\ Fielded(s)
  BY GoodIs, FieldedIs
<1>2. Moves(s, u)
  BY <1>1, MovesLists
<1>3. select_monitor(s, m) = IF m = s.selmon THEN s ELSE focus(v, NoWin)
  BY DEF select_monitor
<1> HIDE DEF u
<1>4. Moves(s, v)
  BY <1>2, MovesFields, MovesTrans DEF Moves
<1>5. Kept(s, select_monitor(s, m))
  BY SelectMonitorKeeps
<1> QED
  BY <1>1, <1>3, <1>4, <1>5, MovesRan, FieldedIs

(* view and toggleview. *)
LEMMA ViewRuns ==
    ASSUME NEW s, Good(s), NEW mask \in SUBSET Tag
    PROVE  Ran(s, view(s, mask)) /\ Ran(s, toggleview(s, mask))
<1> DEFINE m == s.selmon
           i == 1 - s.seltags[m]
           u == [s EXCEPT !.seltags[m] = i, !.tagset[m][i] = IF mask # {} THEN mask ELSE @]
           v == [s EXCEPT !.tagset[m][s.seltags[m]] = Toggled(Shown(s, m), mask)]
<1>1. s \in Desktop /\ Fielded(s)
  BY GoodIs, FieldedIs
<1>2. Moves(s, u) /\ Moves(s, v)
  BY <1>1 DEF Moves, Fielded, SameServer
<1>3. view(s, mask) = IF mask = Shown(s, m) THEN s ELSE focus(u, NoWin)
  BY Zenon DEF view
<1>4. toggleview(s, mask) = IF Toggled(Shown(s, m), mask) = {} THEN s ELSE focus(v, NoWin)
  BY Zenon DEF toggleview
<1> HIDE DEF u, v
<1>5. Kept(s, view(s, mask)) /\ Kept(s, toggleview(s, mask))
  BY ViewKeeps
<1> QED
  BY <1>1, <1>2, <1>3, <1>4, <1>5, MovesRan, FieldedIs

(* tag and toggletag. *)
LEMMA TagRuns ==
    ASSUME NEW s, Good(s), NEW mask \in SUBSET Tag
    PROVE  Ran(s, tag(s, mask)) /\ Ran(s, toggletag(s, mask))
<1> DEFINE c == s.sel[s.selmon]
           U == Toggled(s.cl[c].tags, mask)
           u(T) == [s EXCEPT !.cl[c].tags = T]
<1>1. s \in Desktop /\ Fielded(s)
  BY GoodIs, FieldedIs
<1>2. \A T : Moves(s, u(T))
  BY <1>1 DEF Moves, Fielded, SameServer
<1>3. tag(s, mask) = IF c = NoWin \/ mask = {} THEN s ELSE focus(u(mask), NoWin)
  BY Zenon DEF tag
<1>4. toggletag(s, mask) = IF c = NoWin \/ U = {} THEN s ELSE focus(u(U), NoWin)
  BY Zenon DEF toggletag
<1> HIDE DEF u, U, c
<1>5. Kept(s, tag(s, mask)) /\ Kept(s, toggletag(s, mask))
  BY TagKeeps
<1> QED
  BY <1>1, <1>2, <1>3, <1>4, <1>5, MovesRan, FieldedIs

(* focusstack. *)
LEMMA FocusStackRuns ==
    ASSUME NEW s, Good(s), NEW forward \in BOOLEAN
    PROVE  Ran(s, focusstack(s, forward))
<1>1. s \in Desktop /\ Kept(s, focusstack(s, forward)) /\ Moves(s, s) /\ Ran(s, s)
  BY GoodIs, FieldedIs, FocusStackKeeps
<1>2. focusstack(s, forward) = s \/ \E c : focusstack(s, forward) = focus(s, c)
  BY Zenon DEF focusstack
<1> QED
  BY <1>1, <1>2, MovesRan

(* focusmon. *)
LEMMA FocusMonRuns ==
    ASSUME NEW s, Good(s), NEW dir \in {-1, 1}
    PROVE  Ran(s, focusmon(s, dir))
<1> DEFINE t == [s EXCEPT !.selmon = dirtomon(s, dir)]
<1>1. s \in Desktop /\ Kept(s, focusmon(s, dir)) /\ Fielded(s) /\ Ran(s, s)
  BY GoodIs, FieldedIs, FocusMonKeeps
<1>2. Moves(s, t)
  BY <1>1, MovesFields
<1>3. focusmon(s, dir) = IF s.mons = 1 THEN s ELSE focus(t, NoWin)
  BY DEF focusmon
<1> QED
  BY <1>1, <1>2, <1>3, MovesRan

(* sendmon. *)
LEMMA SendmonRuns ==
    ASSUME NEW s, Good(s), NEW c \in Managed(s), NEW m \in Mons(s)
    PROVE  Ran(s, sendmon(s, c, m))
<1> DEFINE s0 == unfocus(s, c, TRUE)
           s1 == detach_client(s0, c)
           s2 == detachstack(s1, c)
           s3 == [s2 EXCEPT !.cl[c].mon = m, !.cl[c].tags = Shown(s, m)]
           s4 == attach_client(s3, c)
           s5 == attachstack(s4, c)
<1>1. s \in Desktop /\ Kept(s, sendmon(s, c, m)) /\ Fielded(s) /\ Ran(s, s)
  BY GoodIs, FieldedIs, SendmonKeeps
<1>2. sendmon(s, c, m) = IF s.cl[c].mon = m THEN s ELSE focus(s5, NoWin)
  BY Zenon DEF sendmon
<1>3. Moves(s, s0)
  BY <1>1, MovesLists
<1> HIDE DEF s0
<1>4. Moves(s0, s1)
  BY <1>3, MovesLists DEF Moves
<1> HIDE DEF s1
<1>5. Moves(s1, s2)
  BY <1>4, MovesLists DEF Moves
<1> HIDE DEF s2
<1>6. Moves(s2, s3)
  BY <1>5 DEF Moves, Fielded, SameServer
<1> HIDE DEF s3
<1>7. Moves(s3, s4)
  BY <1>6, MovesLists DEF Moves
<1> HIDE DEF s4
<1>8. Moves(s4, s5)
  BY <1>7, MovesLists DEF Moves
<1> HIDE DEF s5
<1>9. Moves(s, s5)
  BY <1>3, <1>4, <1>5, <1>6, <1>7, <1>8, MovesTrans
<1> QED
  BY <1>1, <1>2, <1>9, MovesRan

(* tagmon. *)
LEMMA TagMonRuns ==
    ASSUME NEW s, Good(s), NEW dir \in {-1, 1}
    PROVE  Ran(s, tagmon(s, dir))
<1>1. s \in Desktop /\ s.selmon \in Mons(s) /\ s.sel[s.selmon] \in Managed(s) \cup {NoWin}
  BY GoodIs
<1>2. dirtomon(s, dir) \in Mons(s)
  BY <1>1, DirToMon
<1> QED
  BY <1>1, <1>2, SendmonRuns, FieldedIs DEF tagmon

(* zoom. *)
LEMMA ZoomRuns ==
    ASSUME NEW s, Good(s), NEW c \in Managed(s), c \in Members(s.clients[s.selmon]),
           NEW arranges \in BOOLEAN
    PROVE  Ran(s, zoom(s, c, arranges))
<1> DEFINE moved(n) == attach_client(detach_client(s, n), n)
<1>1. s \in Desktop /\ Kept(s, zoom(s, c, arranges)) /\ Fielded(s) /\ Ran(s, s)
  BY GoodIs, FieldedIs, ZoomKeeps
<1>2. zoom(s, c, arranges) = s \/ \E n : zoom(s, c, arranges) = focus(moved(n), n)
  BY Zenon DEF zoom
<1>3. \A n : Moves(s, moved(n))
  BY <1>1, MovesLists, MovesTrans DEF Moves
<1> HIDE DEF moved
<1> QED
  BY <1>1, <1>2, <1>3, MovesRan

(* The flags of clients are no business of the X server. *)
LEMMA FlagsRun ==
    ASSUME NEW s \in Desktop, NEW c \in Window, NEW b \in BOOLEAN
    PROVE  /\ Ran(s, [s EXCEPT !.cl[c].isurgent = b])
           /\ Ran(s, [s EXCEPT !.cl[c].isfloating = b])
           /\ Ran(s, togglefloating(s, c)) /\ Ran(s, setfullscreen(s, c, b))
<1>1. Ran(s, [s EXCEPT !.cl[c].isurgent = b]) /\ Ran(s, [s EXCEPT !.cl[c].isfloating = b])
  BY DEF Desktop, Ran, SameServer, SameFocus
<1>2. Ran(s, togglefloating(s, c))
  BY SMTT(30) DEF Desktop, Ran, SameServer, SameFocus, togglefloating
<1>3. Ran(s, setfullscreen(s, c, b))
  BY DEF Desktop, Ran, SameServer, SameFocus, setfullscreen
<1> QED
  BY <1>1, <1>2, <1>3

-----------------------------------------------------------------------------
(* The windows that come and go. *)

(* unmanage: WM_STATE of the window that has gone is no matter. *)
LEMMA UnmanageRuns ==
    ASSUME NEW s, Good(s), NEW c \in Managed(s), NEW destroyed \in BOOLEAN
    PROVE  LET t == unmanage(s, c, destroyed)
           IN  /\ t.mapped = s.mapped /\ t.exists = s.exists /\ Focused(t)
               /\ \A w \in Window : w # c => t.wmstate[w] = s.wmstate[w]
               /\ t.wmstate[c] \in {s.wmstate[c], "Withdrawn"}
<1> DEFINE s0 == detach_client(s, c)
           s1 == detachstack(s0, c)
           s2 == IF destroyed THEN s1 ELSE setclientstate(s1, c, "Withdrawn")
           s3 == [s2 EXCEPT !.cl[c] = NoClient]
           s4 == focus(s3, NoWin)
           t == unmanage(s, c, destroyed)
           Same(x) == /\ Fielded(x) /\ x.mapped = s.mapped /\ x.exists = s.exists
                      /\ \A w \in Window : w # c => x.wmstate[w] = s.wmstate[w]
                      /\ x.wmstate[c] \in {s.wmstate[c], "Withdrawn"}
<1>1. s \in Desktop /\ Fielded(s) /\ t \in Desktop
  BY GoodIs, FieldedIs, UnmanageKeeps DEF Good, Sound
<1>2. t = updateclientlist(s4)
  BY Zenon DEF unmanage
<1>3. Moves(s, s0)
  BY <1>1, MovesLists
<1> HIDE DEF s0
<1>4. Moves(s0, s1)
  BY <1>3, MovesLists DEF Moves
<1> HIDE DEF s1
<1>5. Same(s1)
  BY <1>3, <1>4 DEF Moves, SameServer
<1>6. Same(s2)
  <2>1. CASE s2 = s1
    BY <1>5, <2>1
  <2>2. CASE s2 = [s1 EXCEPT !.wmstate[c] = "Withdrawn"]
    <3> DEFINE x == [s1 EXCEPT !.wmstate[c] = "Withdrawn"]
    <3>1. /\ Fielded(x) /\ x.mapped = s1.mapped /\ x.exists = s1.exists
          /\ x.wmstate = [s1.wmstate EXCEPT ![c] = "Withdrawn"]
      BY <1>5 DEF Fielded
    <3>2. s1.wmstate = s.wmstate /\ s.wmstate \in [Window -> {"Normal", "Iconic", "Withdrawn"}]
      BY <1>1, <1>3, <1>4, Fields DEF Moves, SameServer
    <3> HIDE DEF x
    <3>3. /\ \A w \in Window : w # c => x.wmstate[w] = s.wmstate[w]
          /\ x.wmstate[c] \in {s.wmstate[c], "Withdrawn"}
      BY <3>1, <3>2 DEF Managed
    <3>4. Same(x)
      BY <1>5, <3>1, <3>3
    <3> QED
      BY <2>2, <3>4 DEF x
  <2> QED
    BY <2>1, <2>2 DEF setclientstate
<1> HIDE DEF s2
<1>7. Moves(s2, s3)
  BY <1>6, MovesLists DEF Moves, Fielded, SameServer
<1> HIDE DEF s3
<1>8. Moves(s3, s4) /\ (Selects(s4) => Focused(s4))
  BY <1>7, FocusServer DEF Moves
<1> HIDE DEF s4
<1>9. Fielded(t) /\ SameServer(s4, t) /\ t.xfocus = s4.xfocus /\ t.sel = s4.sel /\ t.selmon = s4.selmon
  BY <1>2, <1>8 DEF updateclientlist, Moves, Fielded, SameServer
<1>10. Selects(s4)
  <2>1. Selects(t)
    BY <1>1, Fields DEF Selects
  <2> QED
    BY <1>9, <2>1 DEF Selects, SameServer
<1>11. Same(t)
  BY <1>6, <1>7, <1>8, <1>9 DEF Moves, SameServer
<1>12. Focused(t)
  BY <1>8, <1>9, <1>10 DEF Focused, SameServer
<1> QED
  BY <1>11, <1>12 DEF t

(* manage: the window is mapped and gets WM_STATE Normal, unless it was    *)
(* iconic.                                                                 *)
LEMMA ManageRuns ==
    ASSUME NEW s, Good(s), PersistedOK, NEW w \in Window, w \notin Managed(s), w \in s.exists,
           NEW urgent \in BOOLEAN
    PROVE  LET t == manage(s, w, urgent)
           IN  /\ t.exists = s.exists /\ Focused(t)
               /\ HIDDEN(s, w) => t.mapped = s.mapped /\ t.wmstate = s.wmstate
               /\ ~HIDDEN(s, w) => t.mapped = s.mapped \cup {w} /\ t.wmstate[w] = "Normal"
               /\ \A v \in Window : v # w => t.wmstate[v] = s.wmstate[v]
<1> DEFINE p   == placement(s, w)
           s1  == [s EXCEPT !.cl[w] = [p EXCEPT !.isurgent = urgent]]
           s2  == IF w \in s.full THEN setfullscreen(s1, w, TRUE) ELSE s1
           flt == Parent[w] # NoWin \/ w \in Fixed
           s3  == IF s2.cl[w].isfloating THEN s2
                  ELSE [s2 EXCEPT !.cl[w].isfloating = flt, !.cl[w].oldstate = flt]
           s4  == [s3 EXCEPT !.clients[p.mon] =
                       attachx(@, w, [c \in Window |-> s3.cl[c].idx])]
           a   == attachstack(s4, w)
           s5  == [a EXCEPT !.clientlist = @ \cup {w}, !.sel[p.mon] = w]
           b   == setclientstate(s5, w, "Normal")
           s6  == IF HIDDEN(s, w) THEN s5 ELSE XMapWindow(b, w)
           t   == manage(s, w, urgent)
<1>1. s \in Desktop /\ Fielded(s) /\ t \in Desktop
  BY GoodIs, FieldedIs, ManageKeeps DEF Good, Sound
<1>2. t = focus(s6, NoWin)
  BY Zenon DEF manage
<1> HIDE DEF t, p
<1>3. Moves(s, s1)
  BY <1>1, SMTT(30) DEF Moves, Fielded, SameServer
<1> HIDE DEF s1
<1>4. Moves(s1, s2)
  BY <1>3 DEF Moves, Fielded, SameServer, setfullscreen
<1> HIDE DEF s2
<1>5. Moves(s2, s3)
  BY <1>4 DEF Moves, Fielded, SameServer
<1> HIDE DEF s3
<1>6. Moves(s3, s4)
  BY <1>5 DEF Moves, Fielded, SameServer
<1> HIDE DEF s4
<1>7. Moves(s4, a)
  BY <1>6, MovesLists DEF Moves
<1> HIDE DEF a
<1>8. Moves(a, s5)
  BY <1>7 DEF Moves, Fielded, SameServer
<1> HIDE DEF s5
<1>9. Moves(s, s5)
  BY <1>3, <1>4, <1>5, <1>6, <1>7, <1>8, MovesTrans
<1>10. /\ Fielded(b) /\ b.mapped = s.mapped /\ b.exists = s.exists /\ b.wmstate[w] = "Normal"
       /\ \A v \in Window : v # w => b.wmstate[v] = s.wmstate[v]
  <2>1. b = [s5 EXCEPT !.wmstate[w] = "Normal"]
    BY <1>9 DEF setclientstate, Moves, SameServer
  <2>2. /\ Fielded(b) /\ b.mapped = s.mapped /\ b.exists = s.exists
        /\ b.wmstate = [s.wmstate EXCEPT ![w] = "Normal"]
    BY <1>9, <2>1 DEF Moves, Fielded, SameServer
  <2>3. s.wmstate \in [Window -> {"Normal", "Iconic", "Withdrawn"}]
    BY <1>1, Fields
  <2> HIDE DEF b
  <2> QED
    BY <2>2, <2>3
<1> HIDE DEF b
<1>11. /\ Fielded(s6) /\ s6.exists = s.exists
       /\ HIDDEN(s, w) => s6.mapped = s.mapped /\ s6.wmstate = s.wmstate
       /\ ~HIDDEN(s, w) => s6.mapped = s.mapped \cup {w} /\ s6.wmstate[w] = "Normal"
       /\ \A v \in Window : v # w => s6.wmstate[v] = s.wmstate[v]
  <2>1. CASE HIDDEN(s, w)
    BY <1>9, <2>1 DEF Moves, SameServer
  <2>2. CASE ~HIDDEN(s, w)
    <3>1. s6 = [b EXCEPT !.mapped = b.mapped \cup {w}]
      BY <1>10, <2>2 DEF XMapWindow
    <3>2. /\ Fielded(s6) /\ s6.exists = b.exists /\ s6.mapped = b.mapped \cup {w}
          /\ s6.wmstate = b.wmstate
      BY <1>10, <3>1 DEF Fielded
    <3> HIDE DEF s6
    <3> QED
      BY <1>10, <2>2, <3>2
  <2> QED
    BY <2>1, <2>2
<1> HIDE DEF s6
<1>12. Selects(t)
  BY <1>1, Fields DEF Selects
<1>13. Moves(s6, t) /\ Focused(t)
  BY <1>2, <1>11, <1>12, FocusServer
<1> QED
  BY <1>11, <1>13 DEF Moves, SameServer, t

-----------------------------------------------------------------------------
(* The monitors that come and go. *)

(* Monitors are removed without the X server. *)
LEMMA RemovedRuns ==
    ASSUME NEW s, Linked(s), NEW n \in Mon, n < s.mons
    PROVE  Moves(s, Removed(s, n))
<1> DEFINE N == s.mons - n
           after == CHOOSE f : Removal(s, n, f)
           Bad == {k \in 0..N : ~Moves(s, after[k])}
<1>1. Removed(s, n) = after[N]
  BY DEF Removed, Removal
<1>2. s \in Desktop /\ N \in Nat
  BY Fields, DwmAssumption DEF Linked, Mon
<1>3. Removal(s, n, after)
  BY RemovalExists
<1> HIDE DEF after
<1>4. \A k \in 0..N : after[k] = IF k = 0 THEN s ELSE removemon(after[k - 1], s.mons - k + 1)
  BY <1>3 DEF Removal
<1> HIDE DEF N
<1>5. \A x, m : Fielded(x) => Moves(x, removemon(x, m))
  BY DEF Moves, Fielded, SameServer, removemon
<1>6. Bad = {}
  <2> SUFFICES ASSUME Bad # {} PROVE FALSE
    OBVIOUS
  <2>1. Bad \in SUBSET Nat
    OBVIOUS
  <2>2. PICK k \in Bad : \A j \in Bad : k <= j
    <3> HIDE DEF Bad
    <3> QED
      BY <2>1, LeastElement
  <2>3. k # 0
    BY <1>2, <1>4, <2>2, FieldedIs
  <2>4. k \in 0..N /\ k - 1 \in 0..N /\ k - 1 \notin Bad
    BY <1>2, <2>2, <2>3
  <2>5. Moves(s, after[k - 1]) /\ after[k] = removemon(after[k - 1], s.mons - k + 1)
    BY <1>4, <2>3, <2>4
  <2>6. Moves(s, after[k])
    BY <1>5, <2>5, MovesTrans DEF Moves
  <2> QED
    BY <2>2, <2>6
<1> QED
  BY <1>1, <1>2, <1>6

(* updategeom leaves the X server alone; if nothing has changed, also sel. *)
LEMMA UpdategeomRuns ==
    ASSUME NEW s, Good(s), PersistedOK, NEW n \in Mon, NEW p \in 1..n, NEW moved \in BOOLEAN
    PROVE  LET u == updategeom(s, n, moved, p)
           IN  Moves(s, u.s) /\ (~u.dirty /\ n = s.mons => SameFocus(s, u.s))
<1> DEFINE t == IF n < s.mons THEN Removed(s, n) ELSE createmon(rootprops, s, (s.mons + 1)..n)
           dirty == moved \/ n > s.mons \/ \E m \in Mons(s) : m > n /\ s.clients[m] # <<>>
           u == updategeom(s, n, moved, p)
           x == [t EXCEPT !.mons = n, !.selmon = IF dirty THEN p ELSE IF @ > n THEN 1 ELSE @]
<1>1. /\ s \in Desktop /\ Linked(s) /\ Fielded(s) /\ s.mons \in Mon /\ s.selmon \in Mons(s)
      /\ s.selmon \in Mon
  BY GoodIs, FieldedIs DEF Good, Sound, Linked
<1>2. u.s = x /\ u.dirty = dirty
  BY DEF updategeom
<1>3. \A ms : Moves(s, createmon(rootprops, s, ms))
  BY <1>1 DEF Moves, Fielded, SameServer, createmon
<1>4. Moves(s, t)
  BY <1>1, <1>3, RemovedRuns
<1>5. ASSUME ~dirty, n = s.mons PROVE SameFocus(s, x)
  <2> DEFINE ms == (s.mons + 1)..n
             sel == [m \in Mon |-> IF m \in ms THEN NoWin ELSE s.sel[m]]
  <2>1. s.mons \in Nat /\ s.selmon \in Nat /\ s.selmon <= n /\ ms = {}
    BY <1>1, <1>5, DwmAssumption DEF Mon, Mons
  <2>2. t = createmon(rootprops, s, ms)
    BY <1>5, <2>1
  <2>3. s.sel \in [Mon -> Window \cup {NoWin}]
    BY <1>1, Fields
  <2>4. sel = s.sel
    BY <2>1, <2>3
  <2> HIDE DEF ms, dirty, t
  <2>5. t.sel = sel /\ t.selmon = s.selmon /\ t.xfocus = s.xfocus
    BY <1>1, <2>2 DEF createmon, Fielded
  <2> HIDE DEF sel
  <2>6. x.sel = t.sel /\ x.xfocus = t.xfocus /\ x.selmon = IF t.selmon > n THEN 1 ELSE t.selmon
    BY <1>4, <1>5 DEF Moves, Fielded
  <2>7. x.selmon = s.selmon
    BY <1>1, <2>1, <2>5, <2>6, DwmAssumption DEF Mon
  <2> QED
    BY <2>4, <2>5, <2>6, <2>7 DEF SameFocus
<1> HIDE DEF t, dirty
<1>6. Moves(t, x)
  BY <1>4 DEF Moves, Fielded, SameServer
<1> HIDE DEF x, u
<1>7. Moves(s, x)
  BY <1>4, <1>6, MovesTrans
<1> QED
  BY <1>2, <1>5, <1>7 DEF u

(* A desktop that dwm has just set up. *)
LEMMA SetupRuns ==
    ASSUME NEW n \in Mon, NEW p \in 1..n, NEW exists \in SUBSET Window, NEW mapped \in SUBSET Window,
           NEW wmstate \in [Window -> {"Normal", "Iconic", "Withdrawn"}],
           NEW full \in SUBSET Window, NEW saved \in [Mon -> SUBSET Tag]
    PROVE  LET t == setup(n, p, exists, mapped, wmstate, full, saved)
           IN  /\ t.exists = exists /\ t.mapped = mapped /\ t.wmstate = wmstate
               /\ Managed(t) = {} /\ Focused(t)
<1> DEFINE t == setup(n, p, exists, mapped, wmstate, full, saved)
<1>1. Good(t) /\ Managed(t) = {}
  BY SetupIs
<1>2. t.exists = exists /\ t.mapped = mapped /\ t.wmstate = wmstate
  BY DEF setup, createmon
<1> HIDE DEF t
<1>3. t.sel[t.selmon] = NoWin
  BY <1>1, GoodIs
<1>4. Focused(t)
  BY <1>2, <1>3, DwmAssumption DEF Focused
<1> QED
  BY <1>1, <1>2, <1>4 DEF t

-----------------------------------------------------------------------------
(* The queue of events.                                                    *)

(* The order of the events about one window: it is unmapped, its program   *)
(* asks that it be mapped, it is destroyed.                                *)
Staged == {"UnmapNotify", "MapRequest", "DestroyNotify"}
Stage(type) == CASE type = "UnmapNotify" -> 1
                 [] type = "MapRequest" -> 2
                 [] OTHER -> 3

InOrder(e, f) ==
    e.win = f.win /\ e.type \in Staged /\ f.type \in Staged => Stage(e.type) < Stage(f.type)

Ordered(q) == \A i, j \in DOMAIN q : i < j => InOrder(q[i], q[j])

(* The event k is taken out of q; r is what is left. *)
Taken(q, k, r) ==
    /\ Len(r) = Len(q) - 1
    /\ \A i \in 1..(Len(q) - 1) : r[i] = IF i < k THEN q[i] ELSE q[i + 1]

(* RemoveAt takes the event k out, Tail the first one. *)
LEMMA TakenIs ==
    ASSUME NEW q \in Seq(Event), NEW k \in DOMAIN q
    PROVE  Taken(q, k, RemoveAt(q, k)) /\ Taken(q, 1, Tail(q)) /\ Head(q) = q[1] /\ 1 \in DOMAIN q
<1> DEFINE a == SubSeq(q, 1, k - 1)
           b == SubSeq(q, k + 1, Len(q))
           n == Len(q)
           la == Len(a)
<1>1. n \in Nat /\ DOMAIN q = 1..n /\ k \in 1..n /\ q # <<>>
  BY LenProperties, EmptySeq
<1>2. \A i \in 1..n : q[i] \in Event
  BY <1>1, ElementOfSeq
<1>3. a \in Seq(Event) /\ la = k - 1 /\ \A i \in 1..(k - 1) : a[i] = q[i]
  <2>1. \A i \in 1..(k - 1) : q[i] \in Event
    BY <1>1, <1>2
  <2>2. /\ a \in Seq(Event) /\ la = (IF 1 <= k - 1 THEN (k - 1) - 1 + 1 ELSE 0)
        /\ \A i \in 1..((k - 1) - 1 + 1) : a[i] = q[1 + i - 1]
    BY <1>1, <2>1, SubSeqProperties
  <2> HIDE DEF a, la
  <2>3. la = k - 1
    BY <1>1, <2>2
  <2>4. \A i \in 1..(k - 1) : i \in 1..((k - 1) - 1 + 1) /\ 1 + i - 1 = i
    BY <1>1
  <2> QED
    BY <2>2, <2>3, <2>4
<1>4. b \in Seq(Event) /\ Len(b) = n - k /\ \A i \in 1..(n - k) : b[i] = q[k + i]
  <2>1. \A i \in (k + 1)..n : q[i] \in Event
    BY <1>1, <1>2
  <2>2. /\ b \in Seq(Event) /\ Len(b) = (IF k + 1 <= n THEN n - (k + 1) + 1 ELSE 0)
        /\ \A i \in 1..(n - (k + 1) + 1) : b[i] = q[(k + 1) + i - 1]
    BY <1>1, <2>1, SubSeqProperties
  <2>3. Len(b) = n - k
    <3> HIDE DEF b, n
    <3> QED
      BY <1>1, <2>2
  <2>4. \A i \in 1..(n - k) : i \in 1..(n - (k + 1) + 1) /\ (k + 1) + i - 1 = k + i
    <3> HIDE DEF b, n
    <3> QED
      BY <1>1
  <2> QED
    BY <2>2, <2>3, <2>4
<1> HIDE DEF a, b, la, n
<1>5. /\ Len(a \o b) = n - 1
      /\ \A i \in 1..(n - 1) : (a \o b)[i] = IF i < k THEN a[i] ELSE b[i - (k - 1)]
  <2>1. /\ Len(a \o b) = Len(a) + Len(b)
        /\ \A i \in 1..(Len(a) + Len(b)) : (a \o b)[i] = IF i <= Len(a) THEN a[i] ELSE b[i - Len(a)]
    BY <1>3, <1>4, ConcatProperties
  <2>2. Len(a) = k - 1
    BY <1>3 DEF la
  <2> QED
    BY <1>1, <1>4, <2>1, <2>2
<1>6. \A i \in 1..(n - 1) : (a \o b)[i] = IF i < k THEN q[i] ELSE q[i + 1]
  <2> TAKE i \in 1..(n - 1)
  <2>1. CASE i < k
    BY <1>1, <1>3, <1>5, <2>1
  <2>2. CASE ~(i < k)
    <3>1. i - (k - 1) \in 1..(n - k) /\ k + (i - (k - 1)) = i + 1
      BY <1>1, <2>2
    <3> QED
      BY <1>4, <1>5, <2>2, <3>1
  <2> QED
    BY <2>1, <2>2
<1>7. RemoveAt(q, k) = a \o b
  BY DEF RemoveAt, a, b, n
<1>8. Taken(q, k, RemoveAt(q, k))
  BY <1>5, <1>6, <1>7 DEF Taken, n
<1>9. /\ Len(Tail(q)) = Len(q) - 1 /\ \A i \in 1..Len(Tail(q)) : Tail(q)[i] = q[i + 1]
  BY <1>1, HeadTailProperties
<1>10. Taken(q, 1, Tail(q))
  BY <1>1, <1>9 DEF Taken, n
<1>11. Head(q) = q[1] /\ 1 \in DOMAIN q
  BY <1>1
<1> QED
  BY <1>8, <1>10, <1>11

(* What is left of an ordered queue when an event has been taken.          *)
LEMMA TakenOrdered ==
    ASSUME NEW q \in Seq(Event), NEW k \in DOMAIN q, NEW r \in Seq(Event), Taken(q, k, r), Ordered(q)
    PROVE  /\ Ordered(r)
           /\ Members(r) \subseteq Members(q)
           /\ \A e \in Members(q) : e = q[k] \/ e \in Members(r)
           /\ q[k] \in Members(q)
           /\ \A e \in Members(r) :
                 e.win = q[k].win /\ e.type \in Staged /\ q[k].type \in Staged =>
                     e.type # q[k].type /\ (k = 1 => Stage(q[k].type) < Stage(e.type))
<1> DEFINE n == Len(q)
           from(i) == IF i < k THEN i ELSE i + 1
<1>1. n \in Nat /\ DOMAIN q = 1..n /\ k \in 1..n /\ DOMAIN r = 1..(n - 1)
  BY LenProperties DEF Taken
<1>2. \A i \in DOMAIN r : from(i) \in DOMAIN q /\ from(i) # k /\ r[i] = q[from(i)]
  BY <1>1 DEF Taken
<1>3. \A i, j \in DOMAIN r : i < j => from(i) < from(j)
  BY <1>1
<1>4. \A j \in DOMAIN q : j # k => \E i \in DOMAIN r : from(i) = j
  <2> SUFFICES ASSUME NEW j \in DOMAIN q, j # k PROVE \E i \in DOMAIN r : from(i) = j
    OBVIOUS
  <2>1. CASE j < k
    BY <1>1, <2>1
  <2>2. CASE ~(j < k)
    <3>1. j - 1 \in DOMAIN r /\ from(j - 1) = j
      BY <1>1, <2>2
    <3> QED
      BY <3>1
  <2> QED
    BY <2>1, <2>2
<1> HIDE DEF from
<1>5. Ordered(r)
  <2> SUFFICES ASSUME NEW i \in DOMAIN r, NEW j \in DOMAIN r, i < j PROVE InOrder(r[i], r[j])
    BY DEF Ordered
  <2>1. InOrder(q[from(i)], q[from(j)])
    BY <1>2, <1>3 DEF Ordered
  <2> QED
    BY <1>2, <2>1
<1>6. Members(r) \subseteq Members(q) /\ q[k] \in Members(q)
  BY <1>2 DEF Members
<1>7. \A e \in Members(q) : e = q[k] \/ e \in Members(r)
  BY <1>2, <1>4 DEF Members
<1>8. ASSUME NEW e \in Members(r), e.win = q[k].win, e.type \in Staged, q[k].type \in Staged
      PROVE  e.type # q[k].type /\ (k = 1 => Stage(q[k].type) < Stage(e.type))
  <2>1. PICK j \in DOMAIN q : j # k /\ e = q[j]
    BY <1>2 DEF Members
  <2>2. \A t \in Staged : ~(Stage(t) < Stage(t))
    BY DEF Staged, Stage
  <2>3. CASE j < k
    <3>1. InOrder(q[j], q[k])
      BY <2>1, <2>3 DEF Ordered
    <3> QED
      BY <1>1, <1>8, <2>1, <2>2, <2>3, <3>1 DEF InOrder
  <2>4. CASE k < j
    <3>1. InOrder(q[k], q[j])
      BY <2>1, <2>4 DEF Ordered
    <3> QED
      BY <1>8, <2>1, <2>2, <3>1 DEF InOrder
  <2> QED
    BY <1>1, <2>1, <2>3, <2>4
<1> QED
  BY <1>5, <1>6, <1>7, <1>8

(* Two ordered queues one after the other. *)
LEMMA ConcatOrdered ==
    ASSUME NEW a \in Seq(Event), NEW b \in Seq(Event), Ordered(a), Ordered(b),
           \A e \in Members(a), f \in Members(b) : InOrder(e, f)
    PROVE  Ordered(a \o b) /\ Members(a \o b) = Members(a) \cup Members(b)
<1> DEFINE ab == a \o b
           la == Len(a)
           lb == Len(b)
<1>1. /\ ab \in Seq(Event) /\ Len(ab) = la + lb
      /\ \A i \in 1..(la + lb) : ab[i] = IF i <= la THEN a[i] ELSE b[i - la]
      /\ Members(ab) = Members(a) \cup Members(b)
  BY ConcatProperties, ConcatMembers
<1>2. la \in Nat /\ lb \in Nat /\ DOMAIN a = 1..la /\ DOMAIN b = 1..lb /\ DOMAIN ab = 1..(la + lb)
  BY <1>1, LenProperties
<1> HIDE DEF ab, la, lb
<1>3. \A i \in DOMAIN ab : i <= la => i \in DOMAIN a /\ ab[i] = a[i]
  BY <1>1, <1>2
<1>4. \A i \in DOMAIN ab : ~(i <= la) => i - la \in DOMAIN b /\ ab[i] = b[i - la]
  BY <1>1, <1>2
<1>5. ASSUME NEW i \in DOMAIN ab, NEW j \in DOMAIN ab, i < j PROVE InOrder(ab[i], ab[j])
  <2>1. CASE j <= la
    <3>1. i <= la
      BY <1>2, <1>5, <2>1
    <3> QED
      BY <1>3, <1>5, <2>1, <3>1 DEF Ordered
  <2>2. CASE i <= la /\ ~(j <= la)
    <3>1. ab[i] \in Members(a) /\ ab[j] \in Members(b)
      BY <1>3, <1>4, <2>2 DEF Members
    <3> QED
      BY <3>1
  <2>3. CASE ~(i <= la)
    <3>1. ~(j <= la) /\ i - la < j - la
      BY <1>2, <1>5, <2>3
    <3> QED
      BY <1>4, <2>3, <3>1 DEF Ordered
  <2> QED
    BY <2>1, <2>2, <2>3
<1> QED
  BY <1>1, <1>5 DEF Ordered, ab

-----------------------------------------------------------------------------
(* The X server and dwm, between which the queue is.                       *)

(* An event that is not handled yet still tells how things are. *)
Current(s, e) ==
    /\ e.type \in {"UnmapNotify", "MapRequest"} => e.win \notin s.mapped
    /\ e.type = "DestroyNotify" => e.win \notin s.exists

Tells(q, type, w) == \E e \in Members(q) : e.type = type /\ e.win = w

(* A client that is not mapped is one of which dwm has yet to hear, and a  *)
(* focus that is elsewhere one that dwm will take back.                    *)
InStep(s, q) ==
    /\ s.mapped \subseteq s.exists
    /\ Ordered(q)
    /\ \A e \in Members(q) : Current(s, e)
    /\ \A w \in Managed(s) \ s.mapped : s.wmstate[w] = "Normal" => Tells(q, "UnmapNotify", w)
    /\ Focused(s) \/ \E e \in Members(q) : e.type = "FocusIn" /\ e.win # s.sel[s.selmon]

(* All mapped windows are clients, or scan will look at them. *)
Found(s, p, T) == s.mapped \subseteq Managed(s) \cup (IF p = "scan" THEN T ELSE {})

(* Before the first restart no client was there before dwm: whatever is    *)
(* unmapped is managed.                                                    *)
Fresh(s, q, T) == T = {} /\ \A e \in Members(q) : e.type = "UnmapNotify" => e.win \in Managed(s)

ServerState(s, q, p, T, n, u) ==
    /\ InStep(s, q) /\ Found(s, p, T)
    /\ n \in 0..MaxRestarts /\ (n = 0 => Fresh(s, q, T))
    /\ p = "drag" => "drag" \in u

ServerInv == ServerState(d, queue, pc, todo, restarts, uses)

(* The uses of which ServerInStep holds: no window is hidden or begins to  *)
(* take input while it is selected, and a restart does not meet a drag,    *)
(* which handles MapRequest before older events.                           *)
Simple(u) ==
    "hide" \notin u /\ "late input" \notin u /\ ("drag" \in u => MaxRestarts = 0)

(* The invariant of the next state, of which the functions above speak. *)
LEMMA ServerNext ==
    ASSUME ServerState(d', queue', pc', todo', restarts', uses'), UNCHANGED noinput
    PROVE  ServerInv'
BY DEF ServerInv, ServerState, InStep, Found, Fresh, Managed, Focused, Tells, Current

(* A command changes neither the windows nor the queue. *)
LEMMA RanInStep ==
    ASSUME NEW s, NEW t, NEW q, InStep(s, q), Ran(s, t), Managed(t) = Managed(s)
    PROVE  InStep(t, q)
<1>1. \A e : Current(s, e) => Current(t, e)
  BY DEF Current, Ran, SameServer
<1>2. Focused(s) /\ SameFocus(s, t) => Focused(t)
  BY DEF Focused, SameFocus, Ran, SameServer
<1>3. Focused(t) \/ \E e \in Members(q) : e.type = "FocusIn" /\ e.win # t.sel[t.selmon]
  BY <1>2 DEF InStep, Ran, SameFocus
<1> QED
  BY <1>1, <1>3 DEF InStep, Ran, SameServer

(* A command, outside scan. *)
LEMMA RanServer ==
    ASSUME ServerInv, Ran(d, d'), Managed(d') = Managed(d), UNCHANGED <<queue, todo, restarts, noinput, uses>>,
           \/ pc' = pc
           \/ pc # "scan" /\ pc' = "run"
           \/ pc # "scan" /\ pc' = "drag" /\ "drag" \in uses
    PROVE  ServerInv'
<1>1. InStep(d', queue)
  BY RanInStep DEF ServerInv, ServerState
<1>2. Found(d', pc', todo) /\ (restarts = 0 => Fresh(d', queue, todo))
  BY DEF ServerInv, ServerState, Found, Fresh, Ran, SameServer
<1> QED
  BY <1>1, <1>2, ServerNext DEF ServerInv, ServerState

(* The commands. *)
LEMMA CommandsServer ==
    ASSUME DesktopInv, ServerInv, Simple(uses), Commands, UNCHANGED <<noinput, uses>>
    PROVE  ServerInv'
<1>1. Good(d) /\ Kept(d, d) /\ d \in Desktop /\ Ran(d, d)
  BY GoodIs, FieldedIs DEF DesktopInv, Kept
<1>2. \A s \in Before_command : Good(s) /\ Kept(d, s) /\ Ran(d, s) /\ s \in Desktop
  BY <1>1, BeforeCommand, SelectMonitorRuns, GoodIs DEF Before_command, Kept
<1>3. ASSUME NEW s \in Before_command, NEW t, Kept(s, t), Ran(s, t), d' = t, Interactive
      PROVE  ServerInv'
  <2>1. Kept(d, d') /\ Ran(d, d')
    BY <1>2, <1>3, KeptTrans, RanTrans
  <2> QED
    BY <1>3, <2>1, RanServer DEF Interactive, pvars, Kept
<1>4. ASSUME Kept(d, d'), Ran(d, d'), Interactive PROVE ServerInv'
  BY <1>4, RanServer DEF Interactive, pvars, Kept
<1>5. \A c \in Managed(d) : c \in Window /\ d.cl[c].mon \in Mons(d)
  BY <1>1, GoodIs DEF Managed
<1>6. CASE View \/ ToggleView
  BY <1>2, <1>3, <1>6, ViewKeeps, ViewRuns, MaskIs DEF View, ToggleView
<1>7. CASE SetTag \/ ToggleTag
  BY <1>2, <1>3, <1>7, TagKeeps, TagRuns, MaskIs DEF SetTag, ToggleTag
<1>8. CASE FocusStack
  BY <1>1, <1>4, <1>8, FocusStackKeeps, FocusStackRuns DEF FocusStack
<1>9. CASE FocusMon \/ TagMon
  BY <1>1, <1>4, <1>9, FocusMonKeeps, TagMonKeeps, FocusMonRuns, TagMonRuns DEF FocusMon, TagMon
<1>10. CASE Zoom
  <2>1. PICK s \in Before_command, arranges \in Arranges :
          \E c \in (Visible(s) \cap Members(s.clients[s.selmon]))
                        \cup ({s.sel[s.selmon]} \ {NoWin}) :
             d' = zoom(s, c, arranges)
    BY <1>10 DEF Zoom, OnWindow
  <2>2. PICK c \in (Visible(s) \cap Members(s.clients[s.selmon]))
                        \cup ({s.sel[s.selmon]} \ {NoWin}) :
             d' = zoom(s, c, arranges)
    BY <2>1
  <2>3. Good(s) /\ c \in Managed(s) /\ c \in Members(s.clients[s.selmon]) /\ arranges \in BOOLEAN
    BY CommandOnWindow DEF Arranges
  <2>4. Kept(s, zoom(s, c, arranges)) /\ Ran(s, zoom(s, c, arranges)) /\ Interactive
    BY <1>10, <2>3, ZoomKeeps, ZoomRuns DEF Zoom, OnWindow
  <2> QED
    BY <1>3, <2>2, <2>4
<1>11. CASE ToggleWin \/ ShowHideClient
  BY <1>11 DEF ToggleWin, ShowHideClient, Simple
<1>12. CASE ToggleFloating
  <2>1. d.sel[d.selmon] \in Window /\ Interactive /\ d' = togglefloating(d, d.sel[d.selmon])
    BY <1>1, <1>12, GoodIs DEF ToggleFloating, Managed
  <2>2. Kept(d, d') /\ Ran(d, d')
    BY <1>1, <2>1, QuietFloating, QuietListed, FlagsRun
  <2> QED
    BY <1>4, <2>1, <2>2
<1>13. ASSUME NEW c \in Window, ButtonPress(c) PROVE ServerInv'
  <2> DEFINE s == select_monitor(d, d.cl[c].mon)
  <2>1. c \in Managed(d) /\ d' = focus(s, c) /\ Interactive
    BY <1>13 DEF ButtonPress
  <2>2. Kept(d, s) /\ Ran(d, s)
    BY <1>1, <1>5, <2>1, SelectMonitorKeeps, SelectMonitorRuns
  <2> HIDE DEF s
  <2>3. Good(s) /\ c \in Managed(s) \cup {NoWin}
    BY <2>1, <2>2 DEF Kept
  <2>4. Kept(s, focus(s, c)) /\ Ran(s, focus(s, c))
    BY <2>3, GoodIs, FocusKeeps, FocusRuns
  <2> QED
    BY <1>4, <2>1, <2>2, <2>4, KeptTrans, RanTrans
<1>14. ASSUME NEW c \in Window, EnterNotify(c) PROVE ServerInv'
  <2> DEFINE m == d.cl[c].mon
             s == unfocus(d, d.sel[d.selmon], TRUE)
             t == [s EXCEPT !.selmon = m]
  <2>1. /\ c \in Managed(d) /\ Interactive
        /\ d' = IF m # d.selmon THEN focus(t, c) ELSE IF c = d.sel[d.selmon] THEN d ELSE focus(d, c)
    BY <1>14 DEF EnterNotify
  <2>2. Quiet(d, s) /\ Moves(d, s)
    BY <1>1, QuietUnfocus, FieldedIs, MovesLists
  <2>3. m \in Mons(d)
    BY <1>5, <2>1
  <2> HIDE DEF s, m
  <2>4. Listed(s) /\ Managed(s) = Managed(d) /\ m \in Mons(s)
    BY <1>1, <2>2, <2>3, GoodIs, QuietListed DEF Quiet, SameViews, Mons
  <2>5. Listed(t) /\ Managed(t) = Managed(d)
    BY <2>4, SelmonListed
  <2>6. Moves(d, t)
    BY <2>2, MovesFields, MovesTrans DEF Moves
  <2> HIDE DEF t
  <2>7. Kept(d, focus(t, c)) /\ Kept(d, focus(d, c))
    BY <1>1, <2>1, <2>5, GoodIs, FocusAfter
  <2>8. Ran(d, focus(t, c)) /\ Ran(d, focus(d, c))
    BY <1>1, <2>1, <2>6, <2>7, MovesRan, FocusRuns
  <2> QED
    BY <1>1, <1>4, <2>1, <2>7, <2>8
<1>15. ASSUME NEW m \in Mon, PointerEntersMonitor(m) PROVE ServerInv'
  BY <1>1, <1>4, <1>15, SelectMonitorKeeps, SelectMonitorRuns DEF PointerEntersMonitor
<1>16. CASE DragBegin
  <2>1. d' = d /\ pc = "run" /\ pc' = "drag" /\ "drag" \in uses /\ UNCHANGED <<queue, todo, pvars>>
    BY <1>16 DEF DragBegin
  <2> QED
    BY <1>1, <2>1, RanServer DEF pvars
<1>17. CASE DragMotion
  <2>1. /\ d.sel[d.selmon] \in Window /\ d' = togglefloating(d, d.sel[d.selmon])
        /\ UNCHANGED <<pc, queue, todo, pvars>>
    BY <1>1, <1>17, GoodIs DEF DragMotion, Managed
  <2>2. Kept(d, d') /\ Ran(d, d')
    BY <1>1, <2>1, QuietFloating, QuietListed, FlagsRun
  <2> QED
    BY <2>1, <2>2, RanServer DEF pvars, Kept
<1>18. ASSUME NEW m \in Mon, DragEnd(m) PROVE ServerInv'
  <2> DEFINE s == sendmon(d, drag, m)
             t == [s EXCEPT !.selmon = m]
  <2>1. /\ pc = "drag" /\ m \in Mons(d) /\ pc' = "run"
        /\ d' = IF m = d.selmon THEN d ELSE focus(t, NoWin)
        /\ UNCHANGED <<todo, queue, pvars>>
    BY <1>18 DEF DragEnd
  <2>2. drag \in Managed(d)
    BY <2>1 DEF DesktopInv, WaitingOK
  <2>3. Kept(d, s) /\ s.mons = d.mons /\ Ran(d, s)
    BY <1>1, <2>1, <2>2, SendmonKeeps, SendmonRuns
  <2> HIDE DEF s
  <2>4. Good(s) /\ Listed(s) /\ Managed(s) = Managed(d) /\ m \in Mons(s) /\ s \in Desktop
    BY <2>1, <2>3, GoodIs DEF Kept, Mons
  <2>5. Listed(t) /\ Managed(t) = Managed(d)
    BY <2>4, SelmonListed
  <2>6. Moves(s, t)
    BY <2>4, FieldedIs, MovesFields
  <2> HIDE DEF t
  <2>7. Kept(d, focus(t, NoWin)) /\ Kept(s, focus(t, NoWin))
    BY <2>4, <2>5, FocusAfter
  <2>8. Ran(d, focus(t, NoWin))
    BY <2>3, <2>6, <2>7, MovesRan, RanTrans
  <2>9. Kept(d, d') /\ Ran(d, d')
    BY <1>1, <2>1, <2>7, <2>8
  <2> QED
    BY <2>1, <2>9, RanServer DEF pvars, Kept
<1> QED
  BY <1>6, <1>7, <1>8, <1>9, <1>10, <1>11, <1>12, <1>13, <1>14, <1>15, <1>16, <1>17, <1>18 DEF Commands

(* The stages of the three events. *)
LEMMA StageIs ==
    /\ "UnmapNotify" \in Staged /\ "MapRequest" \in Staged /\ "DestroyNotify" \in Staged
    /\ Stage("UnmapNotify") < Stage("MapRequest") /\ Stage("MapRequest") < Stage("DestroyNotify")
    /\ Stage("UnmapNotify") < Stage("DestroyNotify")
    /\ \A t \in Staged : ~(Stage(t) < Stage("UnmapNotify")) /\ ~(Stage("DestroyNotify") < Stage(t))
BY DEF Staged, Stage

(* A window of which dwm has heard that it is gone.                        *)
LEMMA UnmanageInStep ==
    ASSUME NEW s, NEW q \in Seq(Event), Good(s), InStep(s, q), 1 \in DOMAIN q,
           NEW r \in Seq(Event), Taken(q, 1, r), NEW destroyed \in BOOLEAN,
           q[1].type = IF destroyed THEN "DestroyNotify" ELSE "UnmapNotify", q[1].win \in Managed(s)
    PROVE  LET t == unmanage(s, q[1].win, destroyed)
           IN  /\ InStep(t, r)
               /\ t.mapped = s.mapped /\ q[1].win \notin s.mapped
               /\ \A e \in Members(r) : e \in Members(q) /\ (e.type = "UnmapNotify" => e.win # q[1].win)
<1> DEFINE c == q[1].win
           t == unmanage(s, c, destroyed)
<1>1. /\ Ordered(r) /\ Members(r) \subseteq Members(q) /\ q[1] \in Members(q)
      /\ \A e \in Members(q) : e = q[1] \/ e \in Members(r)
      /\ \A e \in Members(r) : e.win = c /\ e.type \in Staged /\ q[1].type \in Staged =>
                                 e.type # q[1].type /\ Stage(q[1].type) < Stage(e.type)
  BY TakenOrdered DEF InStep
<1>2. /\ t.mapped = s.mapped /\ t.exists = s.exists /\ Focused(t) /\ Managed(t) = Managed(s) \ {c}
      /\ \A w \in Window : w # c => t.wmstate[w] = s.wmstate[w]
  BY UnmanageRuns, UnmanageKeeps
<1> HIDE DEF t
<1>3. Current(s, q[1])
  BY <1>1 DEF InStep
<1>4. c \notin s.mapped
  BY <1>3 DEF Current, InStep
<1>5. \A e \in Members(r) : e.type = "UnmapNotify" => e.win # c
  BY <1>1, StageIs
<1>6. \A e \in Members(r) : Current(t, e)
  BY <1>1, <1>2 DEF Current, InStep
<1>7. ASSUME NEW w \in Managed(t) \ t.mapped, t.wmstate[w] = "Normal"
      PROVE  Tells(r, "UnmapNotify", w)
  <2>1. w \in Managed(s) \ s.mapped /\ w # c /\ w \in Window
    BY <1>2 DEF Managed
  <2>2. s.wmstate[w] = "Normal"
    BY <1>2, <1>7, <2>1
  <2>3. Tells(q, "UnmapNotify", w)
    BY <2>1, <2>2 DEF InStep
  <2> QED
    BY <1>1, <2>1, <2>3 DEF Tells
<1> QED
  BY <1>1, <1>2, <1>4, <1>5, <1>6, <1>7 DEF InStep, t

(* An event that tells nothing that dwm still needs is taken. *)
LEMMA TakenInStep ==
    ASSUME NEW s, NEW q \in Seq(Event), InStep(s, q), NEW k \in DOMAIN q,
           NEW r \in Seq(Event), Taken(q, k, r),
           q[k].type = "UnmapNotify" => q[k].win \notin Managed(s),
           q[k].type = "FocusIn" => Focused(s) \/ q[k].win = s.sel[s.selmon]
    PROVE  InStep(s, r) /\ \A e \in Members(r) : e \in Members(q)
<1>1. /\ Ordered(r) /\ Members(r) \subseteq Members(q)
      /\ \A e \in Members(q) : e = q[k] \/ e \in Members(r)
  BY TakenOrdered DEF InStep
<1>2. ASSUME NEW w \in Managed(s) \ s.mapped, s.wmstate[w] = "Normal"
      PROVE  Tells(r, "UnmapNotify", w)
  BY <1>1, <1>2 DEF InStep, Tells
<1>3. Focused(s) \/ \E e \in Members(r) : e.type = "FocusIn" /\ e.win # s.sel[s.selmon]
  BY <1>1 DEF InStep
<1> QED
  BY <1>1, <1>2, <1>3 DEF InStep

(* A window is managed: no older event of the queue tells that it was      *)
(* unmapped since.                                                         *)
LEMMA ManageInStep ==
    ASSUME NEW s, NEW q, Good(s), PersistedOK, InStep(s, q), NEW w \in Window, w \notin Managed(s),
           w \in s.exists, NEW urgent \in BOOLEAN,
           HIDDEN(s, w) \/ w \in s.mapped
             \/ \A e \in Members(q) : e.type \in {"UnmapNotify", "MapRequest"} => e.win # w
    PROVE  /\ InStep(manage(s, w, urgent), q)
           /\ Managed(manage(s, w, urgent)) = Managed(s) \cup {w}
           /\ manage(s, w, urgent).mapped \subseteq s.mapped \cup {w}
<1> DEFINE t == manage(s, w, urgent)
<1>1. /\ t.exists = s.exists /\ Focused(t) /\ Managed(t) = Managed(s) \cup {w}
      /\ HIDDEN(s, w) => t.mapped = s.mapped /\ t.wmstate = s.wmstate
      /\ ~HIDDEN(s, w) => t.mapped = s.mapped \cup {w}
      /\ \A v \in Window : v # w => t.wmstate[v] = s.wmstate[v]
  BY ManageRuns, ManageKeeps
<1> HIDE DEF t
<1>2. t.mapped \subseteq s.mapped \cup {w} /\ t.mapped \subseteq t.exists
  BY <1>1 DEF InStep
<1>3. ASSUME NEW e \in Members(q) PROVE Current(t, e)
  <2>1. Current(s, e)
    BY DEF InStep
  <2> QED
    BY <1>1, <2>1 DEF Current
<1>4. ASSUME NEW v \in Managed(t) \ t.mapped, t.wmstate[v] = "Normal"
      PROVE  Tells(q, "UnmapNotify", v)
  <2>1. v # w
    BY <1>1, <1>4 DEF HIDDEN
  <2>2. v \in Managed(s) \ s.mapped /\ v \in Window
    BY <1>1, <2>1 DEF Managed
  <2>3. s.wmstate[v] = "Normal"
    BY <1>1, <1>4, <2>1, <2>2
  <2> QED
    BY <2>2, <2>3 DEF InStep
<1> QED
  BY <1>1, <1>2, <1>3, <1>4 DEF InStep, t

(* maprequest of run() and of a drag. *)
LEMMA MapServer ==
    ASSUME DesktopInv, ServerInv, Simple(uses), NEW k \in DOMAIN queue, maprequest(k), UNCHANGED <<noinput, uses>>
    PROVE  ServerInv'
<1> DEFINE w == queue[k].win
           r == RemoveAt(queue, k)
<1>1. /\ Good(d) /\ PersistedOK /\ queue \in Seq(Event) /\ InStep(d, queue) /\ Found(d, pc, todo)
      /\ restarts \in 0..MaxRestarts /\ (restarts = 0 => Fresh(d, queue, todo))
      /\ pc = "drag" => "drag" \in uses
  BY DEF DesktopInv, WaitingOK, ServerInv, ServerState
<1>2. /\ queue[k].type = "MapRequest" /\ queue' = r /\ UNCHANGED <<pc, todo, drag, pvars>>
      /\ (pc = "run" /\ k = 1) \/ pc = "drag"
      /\ IF w \in d.exists /\ w \notin Managed(d)
         THEN \E urgent \in May("urgent") : d' = manage(d, w, urgent) ELSE d' = d
  BY DEF maprequest
<1>3. r \in Seq(Event) /\ Taken(queue, k, r) /\ w \in Window
  BY <1>1, TakenIs, QueueShrinks
<1>4. /\ queue[k] \in Members(queue) /\ Members(r) \subseteq Members(queue)
      /\ \A e \in Members(r) :
            e.win = w /\ e.type \in Staged => e.type # "MapRequest" /\ (k = 1 => e.type # "UnmapNotify")
  <2>1. /\ queue[k] \in Members(queue) /\ Members(r) \subseteq Members(queue)
        /\ \A e \in Members(r) :
              e.win = queue[k].win /\ e.type \in Staged /\ queue[k].type \in Staged =>
                  e.type # queue[k].type /\ (k = 1 => Stage(queue[k].type) < Stage(e.type))
    BY <1>1, <1>3, TakenOrdered DEF InStep
  <2> HIDE DEF r
  <2> QED
    BY <1>2, <2>1, StageIs
<1>5. InStep(d, r)
  BY <1>1, <1>2, <1>3, TakenInStep
<1> HIDE DEF r
<1>6. CASE d' = d
  <2>1. Found(d', pc', todo') /\ (restarts' = 0 => Fresh(d', queue', todo')) /\ InStep(d', queue')
    BY <1>1, <1>2, <1>4, <1>5, <1>6 DEF Found, Fresh, pvars
  <2> QED
    BY <1>1, <1>2, <2>1, ServerNext DEF ServerState, pvars
<1>7. CASE /\ w \in d.exists /\ w \notin Managed(d)
           /\ \E urgent \in May("urgent") : d' = manage(d, w, urgent)
  <2>1. PICK urgent \in BOOLEAN : d' = manage(d, w, urgent)
    BY <1>7 DEF May
  <2>2. \A e \in Members(r) : e.type \in {"UnmapNotify", "MapRequest"} => e.win # w
    <3>1. k = 1 \/ restarts = 0
      <4>1. "drag" \in uses => MaxRestarts = 0
        BY DEF Simple
      <4>2. MaxRestarts = 0 => restarts = 0
        BY <1>1
      <4> QED
        BY <1>1, <1>2, <4>1, <4>2
    <3>2. restarts = 0 => \A e \in Members(r) : e.type = "UnmapNotify" => e.win # w
      BY <1>1, <1>4, <1>7 DEF Fresh
    <3> QED
      BY <1>4, <3>1, <3>2, StageIs
  <2>3. /\ InStep(d', r) /\ Managed(d') = Managed(d) \cup {w}
        /\ d'.mapped \subseteq d.mapped \cup {w}
    BY <1>1, <1>3, <1>5, <1>7, <2>1, <2>2, ManageInStep
  <2>4. Found(d', pc', todo') /\ (restarts' = 0 => Fresh(d', queue', todo'))
    BY <1>1, <1>2, <1>4, <2>3 DEF Found, Fresh, pvars
  <2> QED
    BY <1>1, <1>2, <2>3, <2>4, ServerNext DEF ServerState, pvars
<1> QED
  BY <1>2, <1>6, <1>7

(* The other handlers. *)
LEMMA HandlersServer ==
    ASSUME DesktopInv, ServerInv, Simple(uses), Handlers, UNCHANGED <<noinput, uses>>
    PROVE  ServerInv'
<1> DEFINE r == Tail(queue)
           e1 == queue[1]
           w == e1.win
<1>1. /\ Good(d) /\ PersistedOK /\ queue \in Seq(Event) /\ InStep(d, queue) /\ Found(d, pc, todo)
      /\ restarts \in 0..MaxRestarts /\ (restarts = 0 => Fresh(d, queue, todo))
      /\ Kept(d, d) /\ d \in Desktop /\ Ran(d, d)
  BY GoodIs, FieldedIs DEF DesktopInv, WaitingOK, ServerInv, ServerState, Kept
<1>2. ASSUME NEW type, Handle(type)
      PROVE  /\ pc = "run" /\ UNCHANGED <<pc, todo, drag, pvars>> /\ queue' = r
             /\ 1 \in DOMAIN queue /\ Head(queue) = e1 /\ e1.type = type /\ w \in Window
             /\ r \in Seq(Event) /\ Taken(queue, 1, r)
  <2>1. pc = "run" /\ queue # <<>> /\ Head(queue).type = type /\ queue' = r
        /\ UNCHANGED <<pc, todo, drag, pvars>>
    BY <1>2 DEF Handle
  <2>2. 1 \in DOMAIN queue
    BY <1>1, <2>1, LenProperties, EmptySeq
  <2>3. r \in Seq(Event) /\ w \in Window /\ Taken(queue, 1, r) /\ Head(queue) = e1
    BY <1>1, <2>2, TakenIs, QueueShrinks
  <2> QED
    BY <2>1, <2>2, <2>3
<1> HIDE DEF r
<1>3. ASSUME NEW type, Handle(type), InStep(d', r), d'.mapped \subseteq Managed(d'),
             \A e \in Members(r) : /\ e \in Members(queue)
                                   /\ e.type = "UnmapNotify" /\ e.win \in Managed(d) => e.win \in Managed(d')
      PROVE  ServerInv'
  <2>1. pc = "run" /\ UNCHANGED <<pc, todo, drag, pvars>> /\ queue' = r
    BY <1>2, <1>3
  <2>2. Found(d', pc', todo') /\ (restarts' = 0 => Fresh(d', r, todo'))
    BY <1>1, <1>3, <2>1 DEF Found, Fresh, pvars
  <2> QED
    BY <1>1, <1>3, <2>1, <2>2, ServerNext DEF ServerState, pvars
<1>4. ASSUME NEW type, Handle(type), d' = d,
             type = "UnmapNotify" => w \notin Managed(d),
             type = "FocusIn" => Focused(d) \/ w = d.sel[d.selmon]
      PROVE  ServerInv'
  <2>1. InStep(d, r) /\ \A e \in Members(r) : e \in Members(queue)
    BY <1>1, <1>2, <1>4, TakenInStep
  <2>2. d.mapped \subseteq Managed(d)
    BY <1>1, <1>2, <1>4 DEF Found
  <2> QED
    BY <1>3, <1>4, <2>1, <2>2
<1>5. ASSUME NEW destroyed \in BOOLEAN, Handle(IF destroyed THEN "DestroyNotify" ELSE "UnmapNotify"),
             d' = IF w \in Managed(d) THEN unmanage(d, w, destroyed) ELSE d
      PROVE  ServerInv'
  <2> DEFINE type == IF destroyed THEN "DestroyNotify" ELSE "UnmapNotify"
  <2>1. CASE w \notin Managed(d)
    <3>1. type # "FocusIn"
      OBVIOUS
    <3> HIDE DEF type
    <3> QED
      BY <1>4, <1>5, <2>1, <3>1 DEF type
  <2>2. CASE w \in Managed(d)
    <3>1. /\ InStep(d', r) /\ d'.mapped = d.mapped /\ w \notin d.mapped
          /\ \A e \in Members(r) : e \in Members(queue) /\ (e.type = "UnmapNotify" => e.win # w)
      BY <1>1, <1>2, <1>5, <2>2, UnmanageInStep
    <3>2. Managed(d') = Managed(d) \ {w}
      BY <1>1, <1>5, <2>2, UnmanageKeeps
    <3>3. d.mapped \subseteq Managed(d)
      BY <1>1, <1>2, <1>5 DEF Found
    <3> QED
      BY <1>3, <1>5, <3>1, <3>2, <3>3
  <2> QED
    BY <2>1, <2>2
<1>6. CASE /\ Handle("UnmapNotify sent by the client")
           /\ d' = IF w \in Managed(d) THEN [d EXCEPT !.wmstate[w] = "Withdrawn"] ELSE d
  <2>1. CASE w \notin Managed(d)
    BY <1>4, <1>6, <2>1
  <2>2. CASE w \in Managed(d)
    <3>1. InStep(d, r) /\ \A e \in Members(r) : e \in Members(queue)
      <4>1. /\ 1 \in DOMAIN queue /\ r \in Seq(Event) /\ Taken(queue, 1, r)
            /\ e1.type = "UnmapNotify sent by the client"
        BY <1>2, <1>6
      <4> QED
        BY <1>1, <4>1, TakenInStep
    <3>2. d.wmstate \in [Window -> {"Normal", "Iconic", "Withdrawn"}]
      BY <1>1, Fields
    <3>3. /\ d'.mapped = d.mapped /\ d'.exists = d.exists /\ Managed(d') = Managed(d)
          /\ SameFocus(d, d')
      BY <1>6, <1>1, <2>2 DEF Desktop, SameFocus, Managed
    <3>4. \A v \in Window : d'.wmstate[v] = IF v = w THEN "Withdrawn" ELSE d.wmstate[v]
      BY <1>6, <1>1, <2>2, <3>2 DEF Desktop
    <3>5. \A e : Current(d, e) => Current(d', e)
      BY <3>3 DEF Current
    <3>6. \A v \in Managed(d') \ d'.mapped : d'.wmstate[v] = "Normal" => Tells(r, "UnmapNotify", v)
      BY <3>1, <3>3, <3>4 DEF InStep, Managed
    <3>7. Focused(d) => Focused(d')
      BY <3>3 DEF Focused, SameFocus
    <3>8. InStep(d', r)
      BY <3>1, <3>3, <3>5, <3>6, <3>7 DEF InStep, SameFocus
    <3>9. d'.mapped \subseteq Managed(d')
      BY <1>1, <1>2, <1>6, <3>3 DEF Found
    <3> QED
      BY <1>3, <1>6, <3>1, <3>3, <3>8, <3>9
  <2> QED
    BY <2>1, <2>2
<1>7. CASE unmapnotify
  <2>1. \/ /\ Handle("UnmapNotify")
           /\ d' = IF w \in Managed(d) THEN unmanage(d, w, FALSE) ELSE d
        \/ /\ Handle("UnmapNotify sent by the client")
           /\ d' = IF w \in Managed(d) THEN [d EXCEPT !.wmstate[w] = "Withdrawn"] ELSE d
    BY <1>2, <1>7 DEF unmapnotify
  <2> QED
    BY <1>5, <1>6, <2>1
<1>8. CASE destroynotify
  <2>1. Handle("DestroyNotify") /\ d' = IF w \in Managed(d) THEN unmanage(d, w, TRUE) ELSE d
    BY <1>2, <1>8 DEF destroynotify
  <2> QED
    BY <1>5, <2>1
<1>9. CASE focusin
  <2> DEFINE c == d.sel[d.selmon]
  <2>1. Handle("FocusIn") /\ d' = IF c # NoWin /\ c # w THEN setfocus(d, c) ELSE d
    BY <1>2, <1>9 DEF focusin
  <2>2. d.mapped \subseteq Window
    BY <1>1, Fields
  <2>3. CASE ~(c # NoWin /\ c # w)
    <3>1. d' = d /\ (Focused(d) \/ w = c)
      BY <2>1, <2>2, <2>3, DwmAssumption, SMTT(30) DEF Focused
    <3> QED
      BY <1>4, <2>1, <3>1
  <2>4. CASE c # NoWin /\ c # w
    <3>1. d' = setfocus(d, c)
      BY <2>1, <2>4
    <3>2. SameServer(d, d') /\ Focused(d') /\ Managed(d') = Managed(d)
      BY <1>1, <3>1 DEF setfocus, Desktop, SameServer, Focused, Managed
    <3>3. InStep(d', queue)
      BY <1>1, <3>2, RanInStep DEF Ran
    <3>4. InStep(d', r) /\ \A e \in Members(r) : e \in Members(queue)
      BY <1>2, <1>1, <2>1, <3>2, <3>3, TakenInStep
    <3>5. d'.mapped \subseteq Managed(d')
      BY <1>1, <1>2, <2>1, <3>2 DEF Found, SameServer
    <3> QED
      BY <1>3, <2>1, <3>2, <3>4, <3>5
  <2> QED
    BY <2>3, <2>4
<1>10. ASSUME Kept(d, d'), Ran(d, d'), Interactive PROVE ServerInv'
  BY <1>10, RanServer DEF Interactive, pvars, Kept
<1>11. CASE configurenotify
  <2>1. PICK n \in Mon, p \in Mon, moved \in BOOLEAN, resized \in BOOLEAN :
          /\ p <= n /\ (n # d.mons => resized) /\ Interactive
          /\ LET u == updategeom(d, n, moved, p)
             IN  d' = IF u.dirty \/ resized THEN focus(u.s, NoWin) ELSE u.s
    BY <1>11 DEF configurenotify
  <2> DEFINE u == updategeom(d, n, moved, p)
  <2>2. p \in 1..n
    BY <2>1, DwmAssumption DEF Mon
  <2>3. Listed(u.s) /\ Managed(u.s) = Managed(d) /\ (~u.dirty /\ n = d.mons => Good(u.s))
    BY <1>1, <2>2, UpdategeomKeeps
  <2>4. Moves(d, u.s) /\ (~u.dirty /\ n = d.mons => SameFocus(d, u.s))
    BY <1>1, <2>2, UpdategeomRuns
  <2>5. d' = IF u.dirty \/ resized THEN focus(u.s, NoWin) ELSE u.s
    BY <2>1
  <2> HIDE DEF u
  <2>6. Kept(d, focus(u.s, NoWin))
    BY <2>3, FocusAfter
  <2>7. Ran(d, focus(u.s, NoWin))
    BY <2>4, <2>6, MovesRan
  <2>8. Kept(d, d') /\ Ran(d, d')
    BY <2>1, <2>3, <2>4, <2>5, <2>6, <2>7 DEF Kept, Ran, Moves
  <2> QED
    BY <1>10, <2>1, <2>8
<1>12. ASSUME NEW c \in Window,
              FullscreenRequest(c) \/ ActivateRequest(c) \/ TransientChange(c)
       PROVE  ServerInv'
  <2>1. CASE FullscreenRequest(c)
    <3>1. PICK on \in BOOLEAN : d' = setfullscreen(d, c, on) /\ Interactive
      BY <2>1 DEF FullscreenRequest
    <3>2. Kept(d, d') /\ Ran(d, d')
      BY <1>1, <3>1, QuietFullscreen, QuietListed, FlagsRun
    <3> QED
      BY <1>10, <3>1, <3>2
  <2>2. ASSUME NEW b \in BOOLEAN, Interactive,
               \/ d' = d
               \/ d' = [d EXCEPT !.cl[c].isurgent = b]
               \/ d' = [d EXCEPT !.cl[c].isfloating = b]
        PROVE  ServerInv'
    <3> DEFINE t == [d EXCEPT !.cl[c].isurgent = b]
               u == [d EXCEPT !.cl[c].isfloating = b]
    <3>1. Kept(d, t) /\ Kept(d, u)
      BY <1>1, FlagsKept, Zenon
    <3>2. Ran(d, t) /\ Ran(d, u)
      BY <1>1, FlagsRun, Zenon
    <3>3. d' = d \/ d' = t \/ d' = u
      BY <2>2
    <3> HIDE DEF t, u
    <3> QED
      BY <1>1, <1>10, <2>2, <3>1, <3>2, <3>3
  <2>3. CASE ActivateRequest(c)
    BY <2>2, <2>3 DEF ActivateRequest
  <2>4. CASE TransientChange(c)
    BY <2>2, <2>4 DEF TransientChange
  <2> QED
    BY <1>12, <2>1, <2>3, <2>4
<1> QED
  BY <1>7, <1>8, <1>9, <1>11, <1>12, MapServer DEF Handlers

(* New hints: sel may only stop to take input.                             *)
LEMMA HintsServer ==
    ASSUME DesktopInv, ServerInv, Simple(uses), Hints, UNCHANGED uses
    PROVE  ServerInv'
<1>1. Good(d) /\ d \in Desktop /\ Kept(d, d) /\ Ran(d, d) /\ InStep(d, queue)
  BY GoodIs, FieldedIs DEF DesktopInv, ServerInv, ServerState, Kept
<1>2. PICK c \in Window : updatewmhints(c)
  BY DEF Hints
<1>3. PICK b \in BOOLEAN : Interactive /\ (d' = d \/ d' = [d EXCEPT !.cl[c].isurgent = b])
  BY <1>1, <1>2, HintsDo
<1> DEFINE t == [d EXCEPT !.cl[c].isurgent = b]
<1>4. Kept(d, t)
  BY <1>1, FlagsKept, Zenon
<1>5. SameServer(d, t) /\ SameFocus(d, t)
  BY <1>1 DEF SameServer, SameFocus, Desktop
<1>6. d' = d \/ d' = t
  BY <1>3
<1> HIDE DEF t
<1>7. SameServer(d, d') /\ SameFocus(d, d') /\ Managed(d') = Managed(d)
  BY <1>4, <1>5, <1>6 DEF SameServer, SameFocus, Kept
<1>8. d.sel[d.selmon] \notin noinput' => d.sel[d.selmon] \notin noinput
  BY <1>2 DEF updatewmhints, Simple
<1>9. Focused(d) => Focused(d)'
  BY <1>7, <1>8 DEF Focused, SameServer, SameFocus
<1>10. \A e : Current(d, e) => Current(d, e)'
  BY <1>7 DEF Current, SameServer
<1>11. UNCHANGED <<queue, pc, todo, restarts>>
  BY <1>3 DEF Interactive, pvars
<1>12. InStep(d, queue)'
  <2>1. /\ d'.mapped \subseteq d'.exists /\ Ordered(queue)
        /\ \A e \in Members(queue) : Current(d, e)'
        /\ \A w \in Managed(d') \ d'.mapped : d'.wmstate[w] = "Normal" => Tells(queue, "UnmapNotify", w)
    BY <1>1, <1>7, <1>10 DEF InStep, SameServer
  <2>2. Focused(d)' \/ \E e \in Members(queue) : e.type = "FocusIn" /\ e.win # d'.sel[d'.selmon]
    BY <1>1, <1>7, <1>9 DEF InStep, SameFocus
  <2>3. Ordered(queue)' /\ Members(queue') = Members(queue)
    BY <1>11, <2>1 DEF Ordered
  <2> QED
    BY <1>11, <2>1, <2>2, <2>3 DEF InStep, Managed, Tells
<1>13. Found(d, pc, todo)' /\ (restarts' = 0 => Fresh(d, queue, todo)')
  BY <1>7, <1>11 DEF ServerInv, ServerState, Found, Fresh, SameServer, Managed
<1> QED
  BY <1>11, <1>12, <1>13 DEF ServerInv, ServerState

(* A desktop that dwm has just started on has no client, no focus and no   *)
(* event.                                                                  *)
LEMMA StartsInStep ==
    ASSUME NEW s, Managed(s) = {}, Focused(s), s.mapped \subseteq s.exists
    PROVE  InStep(s, <<>>)
<1>1. Members(<<>>) = {}
  BY DEF Members
<1>2. Ordered(<<>>)
  BY DEF Ordered
<1> QED
  BY <1>1, <1>2 DEF InStep

(* dwm starts again: whatever is mapped, scan will look at.                *)
LEMMA StartupServer ==
    ASSUME DesktopInv, ServerInv, restarts < MaxRestarts, Simple(uses),
           NEW wmstate \in [Window -> {"Normal", "Iconic", "Withdrawn"}],
           Startup(wmstate), PersistedOK', UNCHANGED <<noinput, uses>>
    PROVE  ServerInv'
<1>1. /\ d \in Desktop /\ d.exists \in SUBSET Window /\ d.mapped \in SUBSET Window
      /\ d.full \in SUBSET Window /\ d.mapped \subseteq d.exists
      /\ restarts \in 0..MaxRestarts /\ MaxRestarts \in Nat
  BY GoodIs, Fields, DwmAssumption DEF DesktopInv, ServerInv, ServerState, InStep
<1>2. /\ pc' = "scan" /\ todo' = d.exists /\ queue' = <<>> /\ restarts' = restarts + 1
      /\ \E n \in Screens : \E p \in 1..n :
           d' = setup(n, p, d.exists, d.mapped, wmstate, d.full, rootprops')
  BY DEF Startup
<1>3. PICK n \in Mon : \E p \in 1..n :
        d' = setup(n, p, d.exists, d.mapped, wmstate, d.full, rootprops')
  <2>1. Screens \subseteq Mon
    BY DwmAssumption DEF Screens, Mon
  <2> QED
    BY <1>2, <2>1
<1>4. PICK p \in 1..n : d' = setup(n, p, d.exists, d.mapped, wmstate, d.full, rootprops')
  BY <1>3
<1>5. rootprops' \in [Mon -> SUBSET Tag]
  BY DEF PersistedOK
<1>6. d'.exists = d.exists /\ d'.mapped = d.mapped /\ Managed(d') = {} /\ Focused(d')
  <2>1. PICK saved \in [Mon -> SUBSET Tag] :
          d' = setup(n, p, d.exists, d.mapped, wmstate, d.full, saved)
    BY <1>4, <1>5
  <2> DEFINE t == setup(n, p, d.exists, d.mapped, wmstate, d.full, saved)
  <2>2. Managed(t) = {} /\ Focused(t)
    BY <1>1, SetupRuns
  <2>3. t.exists = d.exists /\ t.mapped = d.mapped
    BY DEF setup, createmon
  <2> HIDE DEF t
  <2> QED
    BY <2>1, <2>2, <2>3 DEF t
<1>7. InStep(d', queue')
  BY <1>1, <1>2, <1>6, StartsInStep
<1>8. Found(d', pc', todo') /\ restarts' \in 0..MaxRestarts /\ restarts' # 0
  BY <1>1, <1>2, <1>6 DEF Found
<1>9. ServerState(d', queue', pc', todo', restarts', uses')
  BY <1>2, <1>7, <1>8 DEF ServerState
<1> QED
  BY <1>9, ServerNext

(* scan manages what is mapped or iconic.                                  *)
LEMMA ScanServer ==
    ASSUME DesktopInv, ServerInv, NEW w \in Window, ScanWindow(w), UNCHANGED <<noinput, uses>>
    PROVE  ServerInv'
<1>1. /\ Good(d) /\ PersistedOK /\ InStep(d, queue) /\ Found(d, pc, todo) /\ pc = "scan"
      /\ w \in todo /\ w \notin Managed(d) /\ restarts # 0 /\ restarts \in 0..MaxRestarts
  BY DEF DesktopInv, WaitingOK, ServerInv, ServerState, Fresh, ScanWindow
<1>2. /\ todo' = todo \ {w} /\ UNCHANGED <<pc, drag, queue, restarts>>
      /\ \/ /\ w \in d.exists /\ (w \in d.mapped \/ HIDDEN(d, w))
            /\ \E urgent \in May("urgent") : d' = manage(d, w, urgent)
         \/ d' = d /\ ~(w \in d.exists /\ (w \in d.mapped \/ HIDDEN(d, w)))
  BY DEF ScanWindow, pvars
<1>3. InStep(d', queue') /\ Found(d', pc', todo')
  <2>1. CASE d' = d /\ ~(w \in d.exists /\ (w \in d.mapped \/ HIDDEN(d, w)))
    BY <1>1, <1>2, <2>1 DEF InStep, Found
  <2>2. CASE /\ w \in d.exists /\ (w \in d.mapped \/ HIDDEN(d, w))
             /\ \E urgent \in May("urgent") : d' = manage(d, w, urgent)
    <3>1. PICK urgent \in BOOLEAN : d' = manage(d, w, urgent)
      BY <2>2 DEF May
    <3>2. /\ InStep(d', queue) /\ Managed(d') = Managed(d) \cup {w}
          /\ d'.mapped \subseteq d.mapped \cup {w}
      BY <1>1, <2>2, <3>1, ManageInStep
    <3> QED
      BY <1>1, <1>2, <3>2 DEF Found
  <2> QED
    BY <1>2, <2>1, <2>2
<1>4. ServerState(d', queue', pc', todo', restarts', uses')
  BY <1>1, <1>2, <1>3 DEF ServerState
<1> QED
  BY <1>4, ServerNext

(* Scan, restart and crash. *)
LEMMA LifecycleServer ==
    ASSUME DesktopInv, ServerInv, Simple(uses), Lifecycle, UNCHANGED <<noinput, uses>>
    PROVE  ServerInv'
<1>1. Good(d) /\ PersistedOK /\ d \in Desktop /\ DesktopInv'
  BY GoodIs, LifecycleStep DEF DesktopInv
<1>2. d.wmstate \in [Window -> {"Normal", "Iconic", "Withdrawn"}] /\ PersistedOK'
  BY <1>1, Fields DEF DesktopInv
<1>3. CASE ScanEnd
  <2>1. /\ pc = "scan" /\ todo = {} /\ pc' = "run" /\ UNCHANGED <<d, todo, queue, restarts, uses>>
    BY <1>3 DEF ScanEnd, pvars
  <2>2. ServerState(d', queue', pc', todo', restarts', uses')
    BY <2>1 DEF ServerInv, ServerState, Found
  <2> QED
    BY <2>2, ServerNext
<1>4. CASE Restart
  <2> DEFINE wmstate == [w \in Window |-> IF w \in Managed(d) THEN "Withdrawn" ELSE d.wmstate[w]]
  <2>1. wmstate \in [Window -> {"Normal", "Iconic", "Withdrawn"}]
    BY <1>2
  <2>2. Startup(wmstate) /\ restarts < MaxRestarts
    BY <1>4 DEF Restart
  <2> HIDE DEF wmstate
  <2> QED
    BY <1>2, <2>1, <2>2, StartupServer
<1>5. CASE Crash
  BY <1>2, <1>5, StartupServer DEF Crash
<1> QED
  BY <1>3, <1>4, <1>5, ScanServer DEF Lifecycle

-----------------------------------------------------------------------------
(* The programs. *)

(* The events that a step of a program causes. *)
Sent(types, w) == [k \in DOMAIN types |-> [type |-> types[k], win |-> w]]

(* One event. *)
LEMMA SentOne ==
    ASSUME NEW type, NEW w, [type |-> type, win |-> w] \in Event
    PROVE  /\ Sent(<<type>>, w) \in Seq(Event) /\ Ordered(Sent(<<type>>, w))
           /\ Members(Sent(<<type>>, w)) = {[type |-> type, win |-> w]}
<1> DEFINE b == Sent(<<type>>, w)
           e == [type |-> type, win |-> w]
<1>1. b = <<e>>
  BY DEF Sent
<1>2. e \in Event
  OBVIOUS
<1> HIDE DEF b, e
<1>3. b \in Seq(Event) /\ DOMAIN b = 1..1 /\ b[1] = e
  BY <1>1, <1>2
<1>4. Ordered(b) /\ Members(b) = {e}
  BY <1>3 DEF Ordered, Members
<1> QED
  BY <1>3, <1>4 DEF b, e

(* The events that there are. *)
LEMMA EventIs ==
    \A w \in Window :
        /\ [type |-> "MapRequest", win |-> w] \in Event /\ [type |-> "UnmapNotify", win |-> w] \in Event
        /\ [type |-> "UnmapNotify sent by the client", win |-> w] \in Event
        /\ [type |-> "DestroyNotify", win |-> w] \in Event /\ [type |-> "FocusIn", win |-> w] \in Event
BY DEF Event

(* The two events of a mapped window that is destroyed. *)
LEMMA SentBoth ==
    ASSUME NEW w \in Window
    PROVE  LET b == Sent(<<"UnmapNotify", "DestroyNotify">>, w)
           IN  /\ b \in Seq(Event) /\ Ordered(b)
               /\ Members(b) = {[type |-> "UnmapNotify", win |-> w],
                                [type |-> "DestroyNotify", win |-> w]}
<1> DEFINE b == Sent(<<"UnmapNotify", "DestroyNotify">>, w)
           e == [type |-> "UnmapNotify", win |-> w]
           f == [type |-> "DestroyNotify", win |-> w]
<1>1. e \in Event /\ f \in Event
  BY EventIs
<1>2. InOrder(e, f)
  BY StageIs DEF InOrder
<1> HIDE DEF e, f
<1>3. b = <<e, f>>
  BY DEF Sent, e, f
<1>4. b \in Seq(Event) /\ DOMAIN b = 1..2 /\ b[1] = e /\ b[2] = f
  BY <1>1, <1>3
<1> HIDE DEF b
<1>5. Members(b) = {e, f}
  BY <1>4 DEF Members
<1>6. Ordered(b)
  BY <1>2, <1>4 DEF Ordered
<1> QED
  BY <1>4, <1>5, <1>6 DEF b, e, f

(* A step of a program, after which the events b are in the queue: they    *)
(* tell of what it did, and come after all that is older.                  *)
LEMMA SentServer ==
    ASSUME DesktopInv, ServerInv, NEW b \in Seq(Event), queue' = queue \o b, Ordered(b),
           \A e \in Members(queue), f \in Members(b) : InOrder(e, f),
           \A f \in Members(b) : Current(d', f) /\ (f.type = "UnmapNotify" => f.win \in d.mapped),
           d'.mapped \subseteq d.mapped, d'.exists \subseteq d.exists, d'.mapped \subseteq d'.exists,
           Managed(d') = Managed(d), d'.sel = d.sel, d'.selmon = d.selmon,
           \A v \in Window : /\ d'.wmstate[v] = "Normal" => d.wmstate[v] = "Normal"
                             /\ v \in d.mapped \ d'.mapped =>
                                   d'.wmstate[v] = "Withdrawn" \/ Tells(b, "UnmapNotify", v),
           \/ Focused(d) => Focused(d')
           \/ \E e \in Members(b) : e.type = "FocusIn" /\ e.win # d.sel[d.selmon],
           UNCHANGED <<pc, todo, drag, pvars, noinput, uses>>
    PROVE  ServerInv'
<1>1. /\ queue \in Seq(Event) /\ InStep(d, queue) /\ Found(d, pc, todo)
      /\ restarts \in 0..MaxRestarts /\ (restarts = 0 => Fresh(d, queue, todo))
      /\ pc = "drag" => "drag" \in uses
      /\ UNCHANGED <<pc, todo, restarts, uses>>
  BY DEF DesktopInv, WaitingOK, ServerInv, ServerState, pvars
<1>2. Ordered(queue \o b) /\ Members(queue \o b) = Members(queue) \cup Members(b)
  BY <1>1, ConcatOrdered DEF InStep
<1> DEFINE r == queue \o b
<1> HIDE DEF r
<1>3. Ordered(r) /\ Members(r) = Members(queue) \cup Members(b) /\ queue' = r
  BY <1>2 DEF r
<1>4. \A e \in Members(r) : Current(d', e)
  <2>1. \A e \in Members(queue) : Current(d, e)
    BY <1>1 DEF InStep
  <2>2. \A e : Current(d, e) => Current(d', e)
    BY DEF Current
  <2> QED
    BY <1>3, <2>1, <2>2
<1>5. ASSUME NEW v \in Managed(d') \ d'.mapped, d'.wmstate[v] = "Normal"
      PROVE  Tells(r, "UnmapNotify", v)
  <2>1. v \in Window /\ v \in Managed(d) /\ d.wmstate[v] = "Normal"
    BY <1>5 DEF Managed
  <2>2. CASE v \in d.mapped
    <3>1. Tells(b, "UnmapNotify", v)
      BY <1>5, <2>1, <2>2
    <3> QED
      BY <1>3, <3>1 DEF Tells
  <2>3. CASE v \notin d.mapped
    <3>1. Tells(queue, "UnmapNotify", v)
      BY <1>1, <2>1, <2>3 DEF InStep
    <3> QED
      BY <1>3, <3>1 DEF Tells
  <2> QED
    BY <2>2, <2>3
<1>6. Focused(d') \/ \E e \in Members(r) : e.type = "FocusIn" /\ e.win # d'.sel[d'.selmon]
  <2>1. Focused(d) \/ \E e \in Members(queue) : e.type = "FocusIn" /\ e.win # d.sel[d.selmon]
    BY <1>1 DEF InStep
  <2> QED
    BY <1>3, <2>1
<1>7. InStep(d', r)
  BY <1>3, <1>4, <1>5, <1>6 DEF InStep
<1>8. Found(d', pc', todo')
  BY <1>1 DEF Found
<1>9. restarts' = 0 => Fresh(d', r, todo')
  <2>1. restarts = 0 => d.mapped \subseteq Managed(d)
    BY <1>1 DEF Found, Fresh
  <2> QED
    BY <1>1, <1>3, <2>1 DEF Fresh
<1>10. ServerState(d', queue', pc', todo', restarts', uses')
  BY <1>1, <1>3, <1>7, <1>8, <1>9 DEF ServerState
<1> QED
  BY <1>10, ServerNext

(* What the programs do. *)
LEMMA ProgramsServer ==
    ASSUME DesktopInv, ServerInv, Programs, UNCHANGED <<noinput, uses>>
    PROVE  ServerInv'
<1>1. /\ d \in Desktop /\ queue \in Seq(Event) /\ InStep(d, queue)
      /\ d.wmstate \in [Window -> {"Normal", "Iconic", "Withdrawn"}]
      /\ d.mapped \subseteq d.exists /\ d.exists \subseteq Window
  BY GoodIs, Fields DEF DesktopInv, WaitingOK, ServerInv, ServerState, InStep
<1>2. \A e \in Members(queue) : Current(d, e) /\ e \in Event
  <2>1. \A e \in Members(queue) : e \in Event
    BY <1>1, LenProperties, ElementOfSeq DEF Members
  <2> QED
    BY <1>1, <2>1 DEF InStep
<1>3. PICK w \in Window : \/ ClientMap(w) \/ ClientUnmap(w) \/ ClientWithdraw(w)
                          \/ ClientDestroy(w) \/ ClientTakesFocus(w)
  BY DEF Programs
<1>4. ASSUME NEW types, Send(types, w) PROVE queue' = queue \o Sent(types, w)
  BY <1>4 DEF Send, Sent
<1>5. ASSUME NEW e, NEW type, type \notin Staged PROVE InOrder(e, [type |-> type, win |-> w])
  BY <1>5 DEF InOrder
<1>6. "FocusIn" \notin Staged /\ "UnmapNotify sent by the client" \notin Staged
  BY DEF Staged
<1>7. CASE ClientMap(w)
  <2> DEFINE f == [type |-> "MapRequest", win |-> w]
             b == Sent(<<"MapRequest">>, w)
  <2>1. /\ w \in d.exists \ d.mapped /\ ~Requested(w) /\ queue' = queue \o b
        /\ UNCHANGED <<d, pc, todo, drag, pvars>>
    BY <1>4, <1>7 DEF ClientMap
  <2>2. b \in Seq(Event) /\ Ordered(b) /\ Members(b) = {f}
    BY SentOne, EventIs
  <2>3. \A e \in Members(queue) : InOrder(e, f)
    <3> SUFFICES ASSUME NEW e \in Members(queue), e.win = w, e.type \in Staged
                 PROVE  Stage(e.type) < Stage("MapRequest")
      BY DEF InOrder
    <3>1. e.type # "DestroyNotify"
      BY <1>2, <2>1 DEF Current
    <3>2. e # f
      BY <2>1 DEF Requested, Members
    <3>3. e.type # "MapRequest"
      BY <1>2, <3>2 DEF Event
    <3> QED
      BY <3>1, <3>3, StageIs DEF Staged
  <2>4. Current(d, f) /\ f.type # "UnmapNotify"
    BY <2>1 DEF Current
  <2> HIDE DEF f, b
  <2> QED
    BY <1>1, <2>1, <2>2, <2>3, <2>4, SentServer
<1>8. CASE ClientUnmap(w)
  <2> DEFINE f == [type |-> "UnmapNotify", win |-> w]
             b == Sent(<<"UnmapNotify">>, w)
  <2>1. /\ w \in d.mapped /\ queue' = queue \o b /\ d' = XUnmapWindow(d, w)
        /\ UNCHANGED <<pc, todo, drag, pvars>>
    BY <1>4, <1>8 DEF ClientUnmap
  <2>2. b \in Seq(Event) /\ Ordered(b) /\ Members(b) = {f}
    BY SentOne, EventIs
  <2>3. \A e \in Members(queue) : InOrder(e, f)
    BY <1>1, <1>2, <2>1 DEF InOrder, Current, Staged
  <2>4. /\ d'.mapped = d.mapped \ {w} /\ d'.exists = d.exists /\ d'.wmstate = d.wmstate
        /\ d'.sel = d.sel /\ d'.selmon = d.selmon /\ Managed(d') = Managed(d)
        /\ d'.xfocus = IF d.xfocus = w THEN NoWin ELSE d.xfocus
    BY <1>1, <2>1 DEF XUnmapWindow, Desktop, Managed
  <2>5. Focused(d) => Focused(d')
    BY <2>4 DEF Focused
  <2>6. Current(d', f) /\ f.win = w
    BY <2>4 DEF Current
  <2>7. Tells(b, "UnmapNotify", w)
    <3>1. f.type = "UnmapNotify" /\ f.win = w
      OBVIOUS
    <3> HIDE DEF f, b
    <3> QED
      BY <2>2, <3>1 DEF Tells
  <2> HIDE DEF f, b
  <2> QED
    BY <1>1, <2>1, <2>2, <2>3, <2>4, <2>5, <2>6, <2>7, SentServer
<1>9. CASE ClientWithdraw(w)
  <2> DEFINE f == [type |-> "UnmapNotify sent by the client", win |-> w]
             b == Sent(<<"UnmapNotify sent by the client">>, w)
  <2>1. queue' = queue \o b /\ UNCHANGED <<d, pc, todo, drag, pvars>>
    BY <1>4, <1>9 DEF ClientWithdraw
  <2>2. b \in Seq(Event) /\ Ordered(b) /\ Members(b) = {f}
    BY SentOne, EventIs
  <2>3. \A e \in Members(queue) : InOrder(e, f)
    BY <1>5, <1>6
  <2>4. Current(d, f) /\ f.type # "UnmapNotify"
    BY DEF Current
  <2> HIDE DEF f, b
  <2> QED
    BY <1>1, <2>1, <2>2, <2>3, <2>4, SentServer
<1>10. CASE ClientDestroy(w)
  <2> DEFINE types == IF w \in d.mapped THEN <<"UnmapNotify", "DestroyNotify">> ELSE <<"DestroyNotify">>
             e1 == [type |-> "UnmapNotify", win |-> w]
             e2 == [type |-> "DestroyNotify", win |-> w]
             b == Sent(types, w)
  <2>1. /\ w \in d.exists /\ queue' = queue \o b
        /\ d' = [XUnmapWindow(d, w) EXCEPT !.exists = @ \ {w}, !.wmstate[w] = "Withdrawn"]
        /\ UNCHANGED <<pc, todo, drag, pvars>>
    BY <1>4, <1>10 DEF ClientDestroy
  <2>2. /\ b \in Seq(Event) /\ Ordered(b)
        /\ Members(b) = IF w \in d.mapped THEN {e1, e2} ELSE {e2}
    BY SentOne, SentBoth, EventIs
  <2>3. \A e \in Members(queue), f \in Members(b) : InOrder(e, f)
    <3>1. \A e \in Members(queue) : InOrder(e, e2)
      <4> SUFFICES ASSUME NEW e \in Members(queue), e.win = w, e.type \in Staged
                   PROVE  Stage(e.type) < Stage("DestroyNotify")
        BY DEF InOrder
      <4>1. e.type # "DestroyNotify"
        BY <1>2, <2>1 DEF Current
      <4> QED
        BY <4>1, StageIs DEF Staged
    <3>2. w \in d.mapped => \A e \in Members(queue) : InOrder(e, e1)
      BY <1>1, <1>2, <2>1 DEF InOrder, Current, Staged
    <3> HIDE DEF e1, e2, b
    <3> QED
      BY <2>2, <3>1, <3>2
  <2>4. /\ d'.mapped = d.mapped \ {w} /\ d'.exists = d.exists \ {w}
        /\ d'.wmstate = [d.wmstate EXCEPT ![w] = "Withdrawn"]
        /\ d'.sel = d.sel /\ d'.selmon = d.selmon /\ Managed(d') = Managed(d)
        /\ d'.xfocus = IF d.xfocus = w THEN NoWin ELSE d.xfocus
    BY <1>1, <2>1 DEF XUnmapWindow, Desktop, Managed
  <2>5. Focused(d) => Focused(d')
    BY <2>4 DEF Focused
  <2>6. /\ Current(d', e1) /\ Current(d', e2)
        /\ e1.win = w /\ e2.type # "UnmapNotify"
    BY <2>4 DEF Current
  <2>7. \A v \in Window : d'.wmstate[v] = IF v = w THEN "Withdrawn" ELSE d.wmstate[v]
    BY <1>1, <2>4
  <2> HIDE DEF e1, e2, b
  <2>8. \A f \in Members(b) : Current(d', f) /\ (f.type = "UnmapNotify" => f.win \in d.mapped)
    BY <2>2, <2>6
  <2>9. d'.mapped \subseteq d.mapped /\ d'.exists \subseteq d.exists /\ d'.mapped \subseteq d'.exists
    BY <1>1, <2>4
  <2>10. \A v \in Window : /\ d'.wmstate[v] = "Normal" => d.wmstate[v] = "Normal"
                           /\ v \in d.mapped \ d'.mapped =>
                                 d'.wmstate[v] = "Withdrawn" \/ Tells(b, "UnmapNotify", v)
    BY <2>4, <2>7
  <2> QED
    BY <2>1, <2>2, <2>3, <2>4, <2>5, <2>8, <2>9, <2>10, SentServer
<1>11. CASE ClientTakesFocus(w)
  <2> DEFINE f == [type |-> "FocusIn", win |-> w]
             b == Sent(<<"FocusIn">>, w)
  <2>1. /\ queue' = queue \o b /\ d' = [d EXCEPT !.xfocus = w]
        /\ UNCHANGED <<pc, todo, drag, pvars>>
    BY <1>4, <1>11 DEF ClientTakesFocus
  <2>2. b \in Seq(Event) /\ Ordered(b) /\ Members(b) = {f}
    BY SentOne, EventIs
  <2>3. \A e \in Members(queue) : InOrder(e, f)
    BY <1>5, <1>6
  <2>4. /\ d'.mapped = d.mapped /\ d'.exists = d.exists /\ d'.wmstate = d.wmstate
        /\ d'.sel = d.sel /\ d'.selmon = d.selmon /\ Managed(d') = Managed(d) /\ d'.xfocus = w
    BY <1>1, <2>1 DEF Desktop, Managed
  <2>5. Focused(d') \/ f.win # d.sel[d.selmon]
    BY <2>4 DEF Focused
  <2>6. Current(d', f) /\ f.type = "FocusIn"
    BY DEF Current
  <2> HIDE DEF f, b
  <2> QED
    BY <1>1, <2>1, <2>2, <2>3, <2>4, <2>5, <2>6, SentServer
<1> QED
  BY <1>3, <1>7, <1>8, <1>9, <1>10, <1>11

-----------------------------------------------------------------------------
(* dwm starts in step with the X server. *)
LEMMA InitServer == Init => ServerInv
<1> SUFFICES ASSUME Init PROVE ServerInv
  OBVIOUS
<1> DEFINE wmstate == [w \in Window |-> "Withdrawn"]
<1>1. /\ rootprops = [m \in Mon |-> {}]
      /\ \E n \in Screens : d = setup(n, 1, Window, {}, wmstate, {}, rootprops)
      /\ pc = "scan" /\ todo = {} /\ queue = <<>> /\ restarts = 0
  BY DEF Init
<1>2. wmstate \in [Window -> {"Normal", "Iconic", "Withdrawn"}]
  OBVIOUS
<1> HIDE DEF wmstate
<1>3. PICK n \in Mon : d = setup(n, 1, Window, {}, wmstate, {}, rootprops)
  <2>1. Screens \subseteq Mon
    BY DwmAssumption DEF Screens, Mon
  <2> QED
    BY <1>1, <2>1
<1>4. Managed(d) = {} /\ Focused(d)
  <2>1. 1 \in 1..n
    BY DwmAssumption DEF Mon
  <2>2. {} \in SUBSET Window /\ Window \in SUBSET Window /\ rootprops \in [Mon -> SUBSET Tag]
    BY <1>1
  <2> QED
    BY <1>2, <1>3, <2>1, <2>2, SetupRuns
<1>5. d.exists = Window /\ d.mapped = {}
  BY <1>3 DEF setup, createmon
<1>6. InStep(d, queue)
  BY <1>1, <1>4, <1>5, StartsInStep
<1>7. Found(d, pc, todo) /\ Fresh(d, queue, todo)
  <2>1. Members(queue) = {}
    BY <1>1 DEF Members
  <2> QED
    BY <1>1, <1>5, <2>1 DEF Found, Fresh
<1> QED
  BY <1>1, <1>6, <1>7, DwmAssumption DEF ServerInv, ServerState

(* Every step keeps dwm and the X server in step. *)
LEMMA NextServer ==
    ASSUME DesktopInv, ServerInv, Simple(uses), [Next]_vars
    PROVE  ServerInv'
<1>1. CASE UNCHANGED vars
  <2>1. ServerState(d', queue', pc', todo', restarts', uses') /\ UNCHANGED noinput
    BY <1>1 DEF vars, pvars, ServerInv
  <2> QED
    BY <2>1, ServerNext
<1>2. CASE Next
  <2>1. \/ UNCHANGED <<noinput, uses>> /\ (Handlers \/ Commands \/ Lifecycle \/ Programs)
        \/ UNCHANGED uses /\ Hints
    BY <1>2 DEF Next
  <2> QED
    BY <2>1, HandlersServer, CommandsServer, LifecycleServer, ProgramsServer, HintsServer
<1> QED
  BY <1>1, <1>2

(* Unless a window can be hidden or begin to take input while selected, or *)
(* a drag can follow a restart: when dwm has handled all events, its       *)
(* clients are the mapped windows and the keys go to the selected one, if  *)
(* it takes input, whatever the programs have done to their windows, their *)
(* hints and the input focus.                                              *)
THEOREM ServerInStepHolds == (\A u \in Uses : Simple(u)) => (Spec => []ServerInStep)
<1> SUFFICES ASSUME \A u \in Uses : Simple(u) PROVE Spec => []ServerInStep
  OBVIOUS
<1>1. Init => ServerInv
  BY InitServer
<1>2. DesktopInv /\ ServerInv /\ [Next]_vars => ServerInv'
  BY NextServer DEF DesktopInv
<1>3. DesktopInv /\ ServerInv => ServerInStep
  <2> SUFFICES ASSUME DesktopInv, ServerInv, pc = "run", queue = <<>>
               PROVE  /\ d.sel[d.selmon] \in d.mapped \ noinput => d.xfocus = d.sel[d.selmon]
                      /\ d.mapped \subseteq Managed(d)
                      /\ \A c \in Managed(d) \ d.mapped : d.wmstate[c] # "Normal"
    BY DEF ServerInStep, KeysGoToSel, MappedIsManaged
  <2>1. Members(queue) = {}
    BY DEF Members
  <2> QED
    BY <2>1 DEF ServerInv, ServerState, InStep, Found, Tells, Focused
<1> QED
  BY <1>1, <1>2, <1>3, DesktopHolds, PTL DEF Spec

-----------------------------------------------------------------------------
(* What a restart restores.                                                *)

(* An Ascending list: as attachx builds it from the places that cleanup()  *)
(* stored.                                                                 *)
Ascending(list, idx) == \A j, k \in DOMAIN list : j < k => idx[list[j]] <= idx[list[k]]

(* Clients of a fixed size and those that are fullscreen float, and dwm    *)
(* knows of the latter.                                                    *)
Floats(s) ==
    \A c \in Managed(s) :
        /\ c \in Fixed => s.cl[c].isfloating
        /\ c \in s.full => s.cl[c].isfullscreen /\ s.cl[c].isfloating

(* What a restart needs beyond DesktopInv: what was stored says that a     *)
(* client of a fixed size floats.                                          *)
FloatsInv ==
    /\ Floats(d)
    /\ \A w \in Window : props[w].mon # 0 /\ w \in Fixed => props[w].isfloating
    /\ "fullscreen" \notin uses => d.full = {}
    /\ "hide" \notin uses => \A w \in Window : d.wmstate[w] # "Iconic"

(* The windows whose placement cleanup() stored. *)
Stored(s, c) == Parent[c] = NoWin /\ props[c].mon \in Mons(s)

(* A client is where it was at the last restart, and as it was. *)
IsBack(s, c) ==
    /\ s.cl[c].mon = props[c].mon /\ s.cl[c].tags = props[c].tags
    /\ s.cl[c].isfloating = props[c].isfloating

(* While dwm scans: the clients it has are in the order of the places that *)
(* were stored, and those whose placement was stored are back.  A window   *)
(* that is fullscreen was stored as floating, for it will float again.     *)
ScanInv ==
    pc = "scan" =>
        /\ \A c \in Managed(d) : d.cl[c].idx = props[c].idx
        /\ \A m \in Mon : Ascending(d.clients[m], [c \in Window |-> props[c].idx])
        /\ clean => \A c \in Managed(d) : Stored(d, c) => IsBack(d, c)
        /\ clean /\ Simple(uses) =>
              \A w \in todo \cap d.mapped \cap d.full : props[w].isfloating

Flag == {"mon", "tags", "isfloating", "isfullscreen", "idx"}

(* The fields that the flags and places of the clients are in are there. *)
Recorded(s) ==
    /\ {"cl", "full", "clients", "mons"} \subseteq DOMAIN s
    /\ DOMAIN s.cl = Window
    /\ \A w \in Window : Flag \subseteq DOMAIN s.cl[w]

SameFlags(s, t) ==
    /\ t.full = s.full
    /\ \A w \in Window : /\ t.cl[w].isfloating = s.cl[w].isfloating
                        /\ t.cl[w].isfullscreen = s.cl[w].isfullscreen

SamePlaces(s, t) ==
    /\ t.clients = s.clients /\ t.mons = s.mons
    /\ \A w \in Window : /\ t.cl[w].mon = s.cl[w].mon
                        /\ t.cl[w].tags = s.cl[w].tags /\ t.cl[w].idx = s.cl[w].idx

(* A function that leaves the flags of all clients alone, and one that     *)
(* leaves their places alone as well.                                      *)
Carries(s, t) == Recorded(t) /\ SameFlags(s, t)
Stays(s, t)   == Carries(s, t) /\ SamePlaces(s, t)

(* A desktop has all its fields. *)
LEMMA RecordedIs == \A s \in Desktop : Recorded(s) /\ Stays(s, s) /\ Carries(s, s)
<1> SUFFICES ASSUME NEW s \in Desktop PROVE Recorded(s)
  BY DEF Stays, Carries, SameFlags, SamePlaces
<1>1. {"cl", "full", "clients", "mons"} \subseteq DOMAIN s
  BY DEF Desktop
<1>2. s.cl \in [Window -> ClientRec]
  BY Fields
<1>3. \A r \in ClientRec : Flag \subseteq DOMAIN r
  BY DEF ClientRec, Flag
<1> QED
  BY <1>1, <1>2, <1>3 DEF Recorded

(* One such function after another. *)
LEMMA CarriesTrans ==
    ASSUME NEW s, NEW t, NEW u
    PROVE  /\ Carries(s, t) /\ Carries(t, u) => Carries(s, u)
           /\ Stays(s, t) /\ Stays(t, u) => Stays(s, u)
BY DEF Carries, Stays, SameFlags, SamePlaces

(* What is neither a list nor a client may be written. *)
LEMMA StaysFields ==
    ASSUME NEW s, Recorded(s), NEW v
    PROVE  /\ Stays(s, [s EXCEPT !.sel = v]) /\ Stays(s, [s EXCEPT !.stack = v])
           /\ Stays(s, [s EXCEPT !.selmon = v]) /\ Stays(s, [s EXCEPT !.xfocus = v])
           /\ Stays(s, [s EXCEPT !.mapped = v]) /\ Stays(s, [s EXCEPT !.wmstate = v])
           /\ Stays(s, [s EXCEPT !.exists = v]) /\ Stays(s, [s EXCEPT !.clientlist = v])
           /\ Stays(s, [s EXCEPT !.tagset = v]) /\ Stays(s, [s EXCEPT !.seltags = v])
           /\ Carries(s, [s EXCEPT !.clients = v]) /\ Carries(s, [s EXCEPT !.mons = v])
<1> DEFINE Other == {"sel", "stack", "selmon", "xfocus", "mapped", "wmstate", "exists",
                     "clientlist", "tagset", "seltags"}
<1>1. ASSUME NEW f \in Other PROVE Stays(s, [s EXCEPT ![f] = v])
  BY <1>1 DEF Stays, Carries, Recorded, SameFlags, SamePlaces
<1>2. Carries(s, [s EXCEPT !.clients = v]) /\ Carries(s, [s EXCEPT !.mons = v])
  BY DEF Carries, Recorded, SameFlags
<1> QED
  BY <1>1, <1>2

(* The functions that move clients between lists. *)
LEMMA CarriesLists ==
    ASSUME NEW s, Recorded(s), NEW c
    PROVE  /\ Stays(s, detachstack(s, c)) /\ Stays(s, attachstack(s, c))
           /\ Carries(s, detach_client(s, c)) /\ Carries(s, attach_client(s, c))
           /\ \A setroot : Stays(s, unfocus(s, c, setroot))
           /\ Stays(s, setfocus(s, c)) /\ Stays(s, XMapWindow(s, c))
           /\ Stays(s, XUnmapWindow(s, c))
           /\ \A state : Stays(s, setclientstate(s, c, state))
<1>1. Stays(s, s)
  BY DEF Stays, Carries, SameFlags, SamePlaces
<1>2. Stays(s, detachstack(s, c))
  BY <1>1 DEF Stays, Carries, Recorded, SameFlags, SamePlaces, detachstack
<1>3. Stays(s, attachstack(s, c))
  BY DEF Stays, Carries, Recorded, SameFlags, SamePlaces, attachstack
<1>4. Carries(s, detach_client(s, c))
  BY DEF Carries, Recorded, SameFlags, detach_client, Flag
<1>5. Carries(s, attach_client(s, c))
  BY DEF Carries, Recorded, SameFlags, attach_client
<1>6. ASSUME NEW setroot PROVE Stays(s, unfocus(s, c, setroot))
  BY <1>1, StaysFields DEF unfocus
<1>7. Stays(s, setfocus(s, c)) /\ Stays(s, XMapWindow(s, c))
  BY <1>1, StaysFields DEF setfocus, XMapWindow
<1>8. Stays(s, XUnmapWindow(s, c))
  BY DEF Stays, Carries, Recorded, SameFlags, SamePlaces, XUnmapWindow
<1>9. ASSUME NEW state PROVE Stays(s, setclientstate(s, c, state))
  BY <1>1 DEF Stays, Carries, Recorded, SameFlags, SamePlaces, setclientstate
<1> QED
  BY <1>2, <1>3, <1>4, <1>5, <1>6, <1>7, <1>8, <1>9

(* focus() changes neither flags nor places. *)
LEMMA StaysFocus ==
    ASSUME NEW s, Recorded(s), NEW c0
    PROVE  Stays(s, focus(s, c0))
<1> DEFINE c == IF c0 # NoWin /\ ISVISIBLE(s, c0) THEN c0
                ELSE FirstIn(s.stack[s.selmon], Visible(s))
           m == s.cl[c].mon
           none == [s EXCEPT !.xfocus = NoWin, !.sel[s.selmon] = NoWin]
           w == detachstack(s, c)
           x == attachstack(w, c)
           y == setfocus(x, c)
           z == [y EXCEPT !.selmon = m, !.sel[m] = c, !.cl[c].isurgent = FALSE]
<1>1. focus(s, c0) = IF c = NoWin THEN none ELSE z
  <2>1. focus(s, c0) = IF c = NoWin THEN none ELSE focus_client(s, c)
    BY DEF focus
  <2> HIDE DEF c
  <2>2. focus_client(s, c) = z
    BY Zenon DEF focus_client
  <2> QED
    BY <2>1, <2>2
<1> HIDE DEF c, m
<1>2. Stays(s, none)
  BY DEF Stays, Carries, Recorded, SameFlags, SamePlaces
<1>3. Stays(s, w)
  BY CarriesLists
<1> HIDE DEF w
<1>4. Stays(w, x)
  BY <1>3, CarriesLists DEF Stays, Carries
<1> HIDE DEF x
<1>5. Stays(x, y)
  BY <1>4, CarriesLists DEF Stays, Carries
<1> HIDE DEF y
<1>6. Stays(y, z)
  BY <1>5 DEF Stays, Carries, Recorded, SameFlags, SamePlaces, Flag
<1> HIDE DEF z
<1>7. Stays(s, z)
  BY <1>3, <1>4, <1>5, <1>6, CarriesTrans
<1> QED
  BY <1>1, <1>2, <1>7

(* A function that moves clients and then focuses. *)
LEMMA CarriesFocus ==
    ASSUME NEW s, NEW t, Carries(s, t), NEW c
    PROVE  Carries(s, focus(t, c))
BY StaysFocus, CarriesTrans DEF Carries, Stays

(* The commands that change the view and the selected monitor. *)
LEMMA ViewsCarry ==
    ASSUME NEW s, Recorded(s), NEW v
    PROVE  /\ Carries(s, select_monitor(s, v)) /\ Carries(s, view(s, v))
           /\ Carries(s, toggleview(s, v)) /\ Carries(s, focusstack(s, v))
           /\ Carries(s, focusmon(s, v))
<1> DEFINE m == s.selmon
           i == 1 - s.seltags[m]
           u == unfocus(s, s.sel[m], TRUE)
           a == [u EXCEPT !.selmon = v]
           b == [s EXCEPT !.seltags[m] = i, !.tagset[m][i] = IF v # {} THEN v ELSE @]
           e == [s EXCEPT !.tagset[m][s.seltags[m]] = Toggled(Shown(s, m), v)]
           f == [s EXCEPT !.selmon = dirtomon(s, v)]
<1>1. Carries(s, s)
  BY DEF Carries, SameFlags
<1>2. Carries(s, a)
  <2>1. Carries(s, u)
    BY CarriesLists DEF Stays
  <2> HIDE DEF u
  <2> QED
    BY <2>1, StaysFields, CarriesTrans DEF Stays, Carries
<1>3. Carries(s, b) /\ Carries(s, e)
  BY DEF Carries, Recorded, SameFlags
<1>4. Carries(s, f)
  BY StaysFields DEF Stays
<1>5. select_monitor(s, v) = IF v = m THEN s ELSE focus(a, NoWin)
  BY DEF select_monitor
<1>6. view(s, v) = IF v = Shown(s, m) THEN s ELSE focus(b, NoWin)
  BY Zenon DEF view
<1>7. toggleview(s, v) = IF Toggled(Shown(s, m), v) = {} THEN s ELSE focus(e, NoWin)
  BY Zenon DEF toggleview
<1>8. focusstack(s, v) = s \/ \E c : focusstack(s, v) = focus(s, c)
  BY Zenon DEF focusstack
<1>9. focusmon(s, v) = IF s.mons = 1 THEN s ELSE focus(f, NoWin)
  BY DEF focusmon
<1> HIDE DEF a, b, e, f
<1> QED
  BY <1>1, <1>2, <1>3, <1>4, <1>5, <1>6, <1>7, <1>8, <1>9, CarriesFocus

(* The commands that change a client's tags, its monitor, or its place in  *)
(* the list.                                                               *)
LEMMA MovesCarry ==
    ASSUME NEW s, Recorded(s), NEW c, NEW v
    PROVE  /\ Carries(s, tag(s, v)) /\ Carries(s, toggletag(s, v))
           /\ Carries(s, sendmon(s, c, v)) /\ Carries(s, tagmon(s, v))
           /\ Carries(s, zoom(s, c, v))
<1> DEFINE t(T) == [s EXCEPT !.cl[s.sel[s.selmon]].tags = T]
           moved(n) == attach_client(detach_client(s, n), n)
<1>1. Carries(s, s)
  BY DEF Carries, SameFlags
<1>2. \A T : Carries(s, t(T))
  BY DEF Carries, Recorded, SameFlags, Flag
<1>3. tag(s, v) = s \/ \E T : tag(s, v) = focus(t(T), NoWin)
  BY Zenon DEF tag
<1>4. toggletag(s, v) = s \/ \E T : toggletag(s, v) = focus(t(T), NoWin)
  BY Zenon DEF toggletag
<1>5. \A n : Carries(s, moved(n))
  BY CarriesLists, CarriesTrans DEF Carries
<1>6. zoom(s, c, v) = s \/ \E n : zoom(s, c, v) = focus(moved(n), n)
  BY Zenon DEF zoom
<1>7. ASSUME NEW b, NEW m PROVE Carries(s, sendmon(s, b, m))
  <2> DEFINE s0 == unfocus(s, b, TRUE)
             s1 == detach_client(s0, b)
             s2 == detachstack(s1, b)
             s3 == [s2 EXCEPT !.cl[b].mon = m, !.cl[b].tags = Shown(s, m)]
             s4 == attach_client(s3, b)
             s5 == attachstack(s4, b)
  <2>1. sendmon(s, b, m) = IF s.cl[b].mon = m THEN s ELSE focus(s5, NoWin)
    BY Zenon DEF sendmon
  <2>2. Carries(s, s0)
    BY CarriesLists DEF Stays
  <2> HIDE DEF s0
  <2>3. Carries(s, s1)
    BY <2>2, CarriesLists, CarriesTrans DEF Carries
  <2> HIDE DEF s1
  <2>4. Carries(s, s2)
    BY <2>3, CarriesLists, CarriesTrans DEF Carries, Stays
  <2> HIDE DEF s2
  <2>5. Carries(s2, s3)
    BY <2>4 DEF Carries, Recorded, SameFlags, Flag
  <2> HIDE DEF s3
  <2>6. Carries(s, s4)
    BY <2>4, <2>5, CarriesLists, CarriesTrans DEF Carries
  <2> HIDE DEF s4
  <2>7. Carries(s, s5)
    BY <2>6, CarriesLists, CarriesTrans DEF Carries, Stays
  <2> HIDE DEF s5
  <2> QED
    BY <1>1, <2>1, <2>7, CarriesFocus
<1> HIDE DEF t, moved
<1>8. Carries(s, tagmon(s, v))
  BY <1>1, <1>7 DEF tagmon
<1> QED
  BY <1>1, <1>2, <1>3, <1>4, <1>5, <1>6, <1>7, <1>8, CarriesFocus

(* The commands that hide and show. *)
LEMMA HidesCarry ==
    ASSUME NEW s, Recorded(s), NEW c, NEW arranges
    PROVE  Carries(s, togglewin(s, c, arranges)) /\ Carries(s, showhideclient(s, c, arranges))
<1> DEFINE u == XUnmapWindow(s, c)
           h == setclientstate(u, c, "Iconic")
           v == XMapWindow(s, c)
<1>1. Carries(s, s)
  BY DEF Carries, SameFlags
<1>2. Carries(s, h)
  <2>1. Carries(s, u)
    BY CarriesLists DEF Stays
  <2> HIDE DEF u
  <2> QED
    BY <2>1, CarriesLists, CarriesTrans DEF Carries, Stays
<1>3. hide(s, c, arranges) = s \/ \E n : hide(s, c, arranges) = focus(h, n)
  BY Zenon DEF hide
<1>4. Carries(s, show(s, c))
  <2>1. show(s, c) = IF HIDDEN(s, c) THEN setclientstate(v, c, "Normal") ELSE s
    BY DEF show
  <2>2. Carries(s, v)
    BY CarriesLists DEF Stays
  <2> HIDE DEF v
  <2>3. Carries(s, setclientstate(v, c, "Normal"))
    BY <2>2, CarriesLists, CarriesTrans DEF Carries, Stays
  <2> QED
    BY <1>1, <2>1, <2>3
<1> HIDE DEF h
<1>5. Carries(s, hide(s, c, arranges))
  BY <1>1, <1>2, <1>3, CarriesFocus
<1> QED
  BY <1>4, <1>5, CarriesFocus DEF togglewin, showhideclient

(* Monitors come and go with all flags of the clients. *)
LEMMA RemovedCarries ==
    ASSUME NEW s, Linked(s), NEW n \in Mon, n < s.mons
    PROVE  Carries(s, Removed(s, n))
<1> DEFINE N == s.mons - n
           after == CHOOSE f : Removal(s, n, f)
           Bad == {k \in 0..N : ~Carries(s, after[k])}
<1>1. Removed(s, n) = after[N]
  BY DEF Removed, Removal
<1>2. s \in Desktop /\ N \in Nat
  BY Fields, DwmAssumption DEF Linked, Mon
<1>3. Removal(s, n, after)
  BY RemovalExists
<1> HIDE DEF after
<1>4. \A k \in 0..N : after[k] = IF k = 0 THEN s ELSE removemon(after[k - 1], s.mons - k + 1)
  BY <1>3 DEF Removal
<1> HIDE DEF N
<1>5. \A x, m : Recorded(x) => Carries(x, removemon(x, m))
  BY DEF Carries, Recorded, SameFlags, Flag, removemon
<1>6. Bad = {}
  <2> SUFFICES ASSUME Bad # {} PROVE FALSE
    OBVIOUS
  <2>1. Bad \in SUBSET Nat
    OBVIOUS
  <2>2. PICK k \in Bad : \A j \in Bad : k <= j
    <3> HIDE DEF Bad
    <3> QED
      BY <2>1, LeastElement
  <2>3. k # 0
    BY <1>2, <1>4, <2>2, RecordedIs
  <2>4. k \in 0..N /\ k - 1 \in 0..N /\ k - 1 \notin Bad
    BY <1>2, <2>2, <2>3
  <2>5. Carries(s, after[k - 1]) /\ after[k] = removemon(after[k - 1], s.mons - k + 1)
    BY <1>4, <2>3, <2>4
  <2>6. Carries(s, after[k])
    BY <1>5, <2>5, CarriesTrans DEF Carries
  <2> QED
    BY <2>2, <2>6
<1> QED
  BY <1>1, <1>2, <1>6

(* updategeom. *)
LEMMA UpdategeomCarries ==
    ASSUME NEW s, Good(s), NEW n \in Mon, NEW moved, NEW p
    PROVE  Carries(s, updategeom(s, n, moved, p).s)
<1> DEFINE t == IF n < s.mons THEN Removed(s, n) ELSE createmon(rootprops, s, (s.mons + 1)..n)
           dirty == moved \/ n > s.mons \/ \E m \in Mons(s) : m > n /\ s.clients[m] # <<>>
           x == [t EXCEPT !.mons = n, !.selmon = IF dirty THEN p ELSE IF @ > n THEN 1 ELSE @]
<1>1. Linked(s) /\ Recorded(s)
  BY GoodIs, RecordedIs DEF Good, Sound, Linked
<1>2. updategeom(s, n, moved, p).s = x
  BY DEF updategeom
<1>3. \A ms : Carries(s, createmon(rootprops, s, ms))
  BY <1>1 DEF Carries, Recorded, SameFlags, createmon
<1>4. Carries(s, t)
  BY <1>1, <1>3, RemovedCarries
<1> HIDE DEF t, dirty
<1>5. Carries(t, x)
  BY <1>4 DEF Carries, Recorded, SameFlags
<1> QED
  BY <1>2, <1>4, <1>5, CarriesTrans

-----------------------------------------------------------------------------
(* The order of a list.                                                    *)

(* Two ascending lists, one with the smaller places. *)
LEMMA AscendingConcat ==
    ASSUME NEW S, NEW a \in Seq(S), NEW b \in Seq(S), NEW idx \in [S -> Nat],
           Ascending(a, idx), Ascending(b, idx),
           \A x \in Members(a), y \in Members(b) : idx[x] <= idx[y]
    PROVE  Ascending(a \o b, idx)
<1> DEFINE ab == a \o b
<1>1. /\ Len(a) \in Nat /\ DOMAIN a = 1..Len(a) /\ Len(b) \in Nat /\ DOMAIN b = 1..Len(b)
      /\ DOMAIN ab = 1..(Len(a) + Len(b))
      /\ \A i \in 1..(Len(a) + Len(b)) : ab[i] = IF i <= Len(a) THEN a[i] ELSE b[i - Len(a)]
  BY LenProperties, ConcatProperties
<1> HIDE DEF ab
<1>2. \A i \in 1..(Len(a) + Len(b)) :
         \/ i \in 1..Len(a) /\ ab[i] = a[i]
         \/ i - Len(a) \in 1..Len(b) /\ ab[i] = b[i - Len(a)] /\ i > Len(a)
  BY <1>1
<1> SUFFICES ASSUME NEW i \in 1..(Len(a) + Len(b)), NEW j \in 1..(Len(a) + Len(b)), i < j
             PROVE  idx[ab[i]] <= idx[ab[j]]
  BY <1>1 DEF Ascending, ab
<1>3. CASE j \in 1..Len(a) /\ ab[j] = a[j]
  <2>1. i \in 1..Len(a) /\ ab[i] = a[i]
    BY <1>1, <1>2, <1>3
  <2> QED
    BY <1>1, <1>3, <2>1 DEF Ascending
<1>4. CASE j - Len(a) \in 1..Len(b) /\ ab[j] = b[j - Len(a)] /\ j > Len(a)
  <2>1. CASE i \in 1..Len(a) /\ ab[i] = a[i]
    <3>1. a[i] \in Members(a) /\ b[j - Len(a)] \in Members(b)
      BY <1>1, <1>4, <2>1 DEF Members
    <3> QED
      BY <1>4, <2>1, <3>1
  <2>2. CASE i - Len(a) \in 1..Len(b) /\ ab[i] = b[i - Len(a)]
    <3>1. i - Len(a) < j - Len(a)
      BY <1>1
    <3> QED
      BY <1>1, <1>4, <2>2, <3>1 DEF Ascending
  <2> QED
    BY <1>2, <2>1, <2>2
<1> QED
  BY <1>2, <1>3, <1>4

(* A part of an ascending list. *)
LEMMA AscendingSub ==
    ASSUME NEW S, NEW list \in Seq(S), NEW idx \in [S -> Nat], Ascending(list, idx),
           NEW p \in 1..(Len(list) + 1), NEW e \in 0..Len(list)
    PROVE  Ascending(SubSeq(list, p, e), idx)
<1>1. Len(list) \in Nat /\ DOMAIN list = 1..Len(list)
  BY LenProperties
<1>2. \A i \in p..e : list[i] \in S
  BY <1>1, ElementOfSeq
<1>3. /\ Len(SubSeq(list, p, e)) = IF p <= e THEN e - p + 1 ELSE 0
      /\ SubSeq(list, p, e) \in Seq(S)
      /\ \A i \in 1..(e - p + 1) : SubSeq(list, p, e)[i] = list[p + i - 1]
  BY <1>1, <1>2, SubSeqProperties, SMTT(60)
<1>4. DOMAIN SubSeq(list, p, e) = 1..(e - p + 1)
  BY <1>1, <1>3, LenProperties
<1> DEFINE sub == SubSeq(list, p, e)
<1> HIDE DEF sub
<1> SUFFICES ASSUME NEW i \in 1..(e - p + 1), NEW j \in 1..(e - p + 1), i < j
             PROVE  idx[sub[i]] <= idx[sub[j]]
  BY <1>4 DEF Ascending, sub
<1>5. p + i - 1 \in 1..Len(list) /\ p + j - 1 \in 1..Len(list) /\ p + i - 1 < p + j - 1
  BY <1>1
<1>6. sub[i] = list[p + i - 1] /\ sub[j] = list[p + j - 1]
  BY <1>3 DEF sub
<1> QED
  BY <1>1, <1>5, <1>6 DEF Ascending

(* attachx keeps the order of the places.                                  *)
LEMMA AscendingAttachx ==
    ASSUME NEW S, NEW list \in Seq(S), NEW c \in S, NEW idx \in [S -> Nat], Ascending(list, idx)
    PROVE  Ascending(attachx(list, c, idx), idx)
<1> DEFINE u == <<c>>
<1>1. u \in Seq(S) /\ Members(u) = {c} /\ Ascending(u, idx)
  BY DEF Members, Ascending
<1>2. Members(list) \subseteq S /\ idx[c] \in Nat /\ \A x \in S : idx[x] \in Nat
  BY ElementOfSeq, LenProperties DEF Members
<1>3. attach(list, c) = u \o list
  BY DEF attach
<1> HIDE DEF u
<1>4. ASSUME \A y \in Members(list) : idx[c] <= idx[y] PROVE Ascending(attach(list, c), idx)
  BY <1>1, <1>3, <1>4, AscendingConcat
<1>5. CASE ~(idx[c] > 0 /\ list # <<>>)
  <2>1. \A y \in Members(list) : idx[c] <= idx[y]
    <3>1. CASE list = <<>>
      BY <3>1 DEF Members
    <3>2. CASE idx[c] = 0
      BY <1>2, <3>2
    <3>3. list = <<>> \/ idx[c] = 0
      BY <1>2, <1>5
    <3> QED
      BY <3>1, <3>2, <3>3
  <2> QED
    BY <1>4, <1>5, <2>1 DEF attachx
<1>6. CASE idx[c] > 0 /\ list # <<>>
  <2> DEFINE stop(n) == /\ StopsAt(list, c, idx, n)
                        /\ \A j \in 1..(n - 1) : ~StopsAt(list, c, idx, j)
             k == CHOOSE n \in DOMAIN list : stop(n)
             Stops == {i \in DOMAIN list : StopsAt(list, c, idx, i)}
  <2>1. /\ Len(list) \in Nat /\ Len(list) >= 1
        /\ DOMAIN list = 1..Len(list) /\ list \in [1..Len(list) -> S]
    BY <1>6, LenProperties, EmptySeq
  <2>2. \A i \in 1..Len(list) : idx[list[i]] \in Nat
    BY <2>1
  <2>3. Len(list) \in Stops /\ Stops \in SUBSET Nat
    BY <2>1, <2>2 DEF StopsAt
  <2> HIDE DEF Stops
  <2>4. PICK least \in Stops : \A j \in Stops : least <= j
    BY <2>3, LeastElement
  <2>5. least \in DOMAIN list /\ stop(least)
    BY <2>1, <2>4, SMTT(30) DEF Stops
  <2>6. k \in DOMAIN list /\ stop(k)
    BY <2>5
  <2>7. attachx(list, c, idx) =
            IF idx[c] < idx[list[k]] THEN attach(SubSeq(list, k, Len(list)), c)
            ELSE SubSeq(list, 1, k) \o <<c>> \o SubSeq(list, k + 1, Len(list))
    BY <1>6 DEF attachx
  <2> HIDE DEF k
  <2>8. \A i, j \in 1..Len(list) : i <= j => idx[list[i]] <= idx[list[j]]
    BY <2>1, <2>2 DEF Ascending
  <2>9. \A y \in Members(list) : \E i \in 1..Len(list) : y = list[i]
    BY <2>1 DEF Members
  <2>10. CASE idx[c] < idx[list[k]]
    <3>1. k = 1
      <4> SUFFICES ASSUME k # 1 PROVE FALSE
        OBVIOUS
      <4>1. k - 1 \in 1..(k - 1) /\ k - 1 \in 1..Len(list) /\ k - 1 # Len(list) /\ (k - 1) + 1 = k
        BY <2>1, <2>6
      <4>2. ~StopsAt(list, c, idx, k - 1)
        BY <2>6, <4>1
      <4> QED
        BY <1>2, <2>2, <2>6, <2>10, <4>1, <4>2 DEF StopsAt
    <3>2. SubSeq(list, 1, Len(list)) = list
      BY <2>1, SubSeqFull
    <3>3. attachx(list, c, idx) = attach(list, c)
      BY <2>7, <2>10, <3>1, <3>2
    <3>4. \A j \in 1..Len(list) : idx[c] <= idx[list[j]]
      BY <1>2, <2>1, <2>2, <2>8, <2>10, <3>1
    <3>5. \A y \in Members(list) : idx[c] <= idx[y]
      BY <2>9, <3>4
    <3> QED
      BY <1>4, <3>3, <3>5
  <2>11. CASE ~(idx[c] < idx[list[k]])
    <3> DEFINE a == SubSeq(list, 1, k)
               b == SubSeq(list, k + 1, Len(list))
    <3>1. k \in 1..Len(list) /\ StopsAt(list, c, idx, k)
      BY <2>1, <2>6
    <3>2. /\ 1 \in 1..(Len(list) + 1) /\ k \in 0..Len(list) /\ k + 1 \in 1..(Len(list) + 1)
          /\ Len(list) \in 0..Len(list)
      BY <2>1, <3>1
    <3> HIDE DEF stop
    <3>3. /\ a \in Seq(S) /\ Members(a) = {list[n] : n \in 1..k} /\ Ascending(a, idx)
      BY <3>2, SubSeqMembers, AscendingSub
    <3>4. b \in Seq(S) /\ Members(b) = {list[n] : n \in (k + 1)..Len(list)} /\ Ascending(b, idx)
      <4>1. PICK p \in 1..(Len(list) + 1) : p = k + 1
        BY <3>2
      <4>2. PICK e \in 0..Len(list) : e = Len(list)
        BY <3>2
      <4>3. /\ SubSeq(list, p, e) \in Seq(S) /\ Ascending(SubSeq(list, p, e), idx)
            /\ Members(SubSeq(list, p, e)) = {list[n] : n \in p..e}
        BY SubSeqMembers, AscendingSub
      <4> QED
        BY <4>1, <4>2, <4>3
    <3> HIDE DEF a, b
    <3>5. idx[list[k]] <= idx[c] /\ (k = Len(list) \/ idx[c] <= idx[list[k + 1]])
      BY <2>11, <3>1 DEF StopsAt
    <3>6. \A n \in 1..k : idx[list[n]] <= idx[c]
      BY <1>2, <2>1, <2>2, <2>8, <3>1, <3>5
    <3>7. \A n \in (k + 1)..Len(list) : idx[c] <= idx[list[n]]
      <4> SUFFICES ASSUME NEW n \in (k + 1)..Len(list) PROVE idx[c] <= idx[list[n]]
        OBVIOUS
      <4>0. Len(list) \in Nat /\ k \in 1..Len(list) /\ n \in (k + 1)..Len(list)
        BY <2>1, <3>1
      <4>1. k # Len(list) /\ k + 1 \in 1..Len(list) /\ n \in 1..Len(list) /\ k + 1 <= n
        BY <4>0
      <4>2. idx[c] <= idx[list[k + 1]] /\ idx[list[k + 1]] <= idx[list[n]]
        BY <2>8, <3>5, <4>1
      <4> QED
        BY <1>2, <2>2, <4>1, <4>2
    <3>8. \A x \in Members(a) : idx[x] <= idx[c]
      BY <3>3, <3>6
    <3>9. \A y \in Members(b) : idx[c] <= idx[y]
      BY <3>4, <3>7
    <3> DEFINE au == a \o u
    <3>10. au \in Seq(S) /\ Members(au) = Members(a) \cup {c} /\ Ascending(au, idx)
      <4>1. Ascending(a \o u, idx)
        BY <1>1, <3>3, <3>8, AscendingConcat
      <4>2. a \o u \in Seq(S) /\ Members(a \o u) = Members(a) \cup Members(u)
        BY <1>1, <3>3, ConcatMembers, ZenonT(60)
      <4> QED
        BY <1>1, <4>1, <4>2
    <3>11. \A x \in Members(a), y \in Members(b) : idx[x] <= idx[y]
      <4> SUFFICES ASSUME NEW x \in Members(a), NEW y \in Members(b) PROVE idx[x] <= idx[y]
        OBVIOUS
      <4>1. x \in S /\ y \in S
        BY <3>3, <3>4, ElementOfSeq, LenProperties DEF Members
      <4>2. idx[x] \in Nat /\ idx[y] \in Nat /\ idx[c] \in Nat
        BY <1>2, <4>1
      <4>3. idx[x] <= idx[c] /\ idx[c] <= idx[y]
        BY <3>8, <3>9
      <4> QED
        BY <4>2, <4>3
    <3>12. attachx(list, c, idx) = (a \o u) \o b
      BY <2>7, <2>11 DEF a, b, u
    <3>13. attachx(list, c, idx) = au \o b
      BY <3>12
    <3> HIDE DEF au
    <3>14. \A x \in Members(au), y \in Members(b) : idx[x] <= idx[y]
      BY <3>9, <3>10, <3>11
    <3>15. Ascending(au \o b, idx)
      BY <3>4, <3>10, <3>14, AscendingConcat
    <3> QED
      BY <3>13, <3>15
  <2> QED
    BY <2>10, <2>11
<1> QED
  BY <1>5, <1>6

-----------------------------------------------------------------------------
(* Which clients float.                                                    *)

(* A function that carries the flags, and manages no other client.         *)
LEMMA CarriesFloats ==
    ASSUME NEW s, NEW t, Carries(s, t), Managed(t) \subseteq Managed(s), Floats(s)
    PROVE  Floats(t)
BY DEF Floats, Carries, SameFlags, Managed

(* The handlers that write a flag of a client. *)
LEMMA FlagsFloat ==
    ASSUME NEW s \in Desktop, Floats(s), NEW c \in Window, NEW b \in BOOLEAN
    PROVE  /\ Carries(s, [s EXCEPT !.cl[c].isurgent = b])
           /\ LET t == [s EXCEPT !.cl[c].isfloating = TRUE] IN Floats(t) /\ t.full = s.full
           /\ LET t == togglefloating(s, c) IN Floats(t) /\ t.full = s.full
           /\ Fixed = {} => Floats(setfullscreen(s, c, b))
<1>1. s.cl \in [Window -> ClientRec] /\ Recorded(s) /\ {"cl", "full"} \subseteq DOMAIN s
  BY Fields, RecordedIs DEF Recorded
<1>2. \A r \in ClientRec : Flag \cup {"oldstate", "isurgent"} \subseteq DOMAIN r
  BY DEF ClientRec, Flag
<1>3. Carries(s, [s EXCEPT !.cl[c].isurgent = b])
  BY <1>1 DEF Carries, Recorded, SameFlags, Flag
<1>4. LET t == [s EXCEPT !.cl[c].isfloating = TRUE] IN Floats(t) /\ t.full = s.full
  <2> DEFINE r == [s.cl[c] EXCEPT !.isfloating = TRUE]
             cl == [s.cl EXCEPT ![c] = r]
             t == [s EXCEPT !.cl = cl]
  <2>1. r.isfloating = TRUE /\ r.isfullscreen = s.cl[c].isfullscreen /\ r.mon = s.cl[c].mon
    BY <1>1, <1>2 DEF Flag
  <2> HIDE DEF r
  <2>2. cl[c] = r /\ \A w \in Window : w # c => cl[w] = s.cl[w]
    BY <1>1
  <2> HIDE DEF cl
  <2>3. t.cl = cl /\ t.full = s.full
    BY <1>1
  <2> HIDE DEF t
  <2>4. Floats(t)
    BY <2>1, <2>2, <2>3 DEF Floats, Managed
  <2> QED
    BY <2>3, <2>4 DEF t, cl, r
<1>5. LET t == togglefloating(s, c) IN Floats(t) /\ t.full = s.full
  <2> DEFINE v == ~s.cl[c].isfloating \/ c \in Fixed
             r == [s.cl[c] EXCEPT !.isfloating = v]
             cl == [s.cl EXCEPT ![c] = r]
             t == [s EXCEPT !.cl = cl]
  <2>1. togglefloating(s, c) = IF s.cl[c].isfullscreen THEN s ELSE t
    BY DEF togglefloating
  <2>2. c \in Fixed => v
    OBVIOUS
  <2> HIDE DEF v
  <2>3. r.isfloating = v /\ r.isfullscreen = s.cl[c].isfullscreen /\ r.mon = s.cl[c].mon
    BY <1>1, <1>2 DEF Flag
  <2> HIDE DEF r
  <2>4. cl[c] = r /\ \A w \in Window : w # c => cl[w] = s.cl[w]
    BY <1>1
  <2> HIDE DEF cl
  <2>5. t.cl = cl /\ t.full = s.full
    BY <1>1
  <2> HIDE DEF t
  <2>6. ~s.cl[c].isfullscreen => Floats(t)
    BY <2>2, <2>3, <2>4, <2>5 DEF Floats, Managed
  <2> QED
    BY <2>1, <2>5, <2>6
<1>6. ASSUME Fixed = {} PROVE Floats(setfullscreen(s, c, b))
  <2> DEFINE r1 == [s.cl[c] EXCEPT !.isfullscreen = TRUE, !.oldstate = s.cl[c].isfloating,
                                   !.isfloating = TRUE]
             r2 == [s.cl[c] EXCEPT !.isfullscreen = FALSE, !.isfloating = s.cl[c].oldstate]
             put(r) == [s.cl EXCEPT ![c] = r]
             t1 == [s EXCEPT !.full = s.full \cup {c}, !.cl = put(r1)]
             t2 == [s EXCEPT !.full = s.full \ {c}, !.cl = put(r2)]
  <2>1. setfullscreen(s, c, b) = IF b /\ ~s.cl[c].isfullscreen THEN t1
                                 ELSE IF ~b /\ s.cl[c].isfullscreen THEN t2 ELSE s
    BY <1>1 DEF setfullscreen
  <2>2. /\ r1.isfloating = TRUE /\ r1.isfullscreen = TRUE /\ r1.mon = s.cl[c].mon
        /\ r2.mon = s.cl[c].mon
    BY <1>1, <1>2 DEF Flag
  <2> HIDE DEF r1, r2
  <2>3. \A r : put(r)[c] = r /\ \A w \in Window : w # c => put(r)[w] = s.cl[w]
    BY <1>1
  <2> HIDE DEF put
  <2>4. /\ t1.cl = put(r1) /\ t1.full = s.full \cup {c}
        /\ t2.cl = put(r2) /\ t2.full = s.full \ {c}
    BY <1>1
  <2> HIDE DEF t1, t2
  <2>5. Floats(t1)
    BY <1>6, <2>2, <2>3, <2>4 DEF Floats, Managed
  <2>6. Floats(t2)
    BY <1>6, <2>2, <2>3, <2>4 DEF Floats, Managed
  <2> QED
    BY <2>1, <2>5, <2>6
<1> QED
  BY <1>3, <1>4, <1>5, <1>6

(* unmanage. *)
LEMMA UnmanageFloats ==
    ASSUME NEW s, Good(s), Floats(s), NEW c \in Managed(s), NEW destroyed \in BOOLEAN
    PROVE  Floats(unmanage(s, c, destroyed)) /\ unmanage(s, c, destroyed).full = s.full
<1> DEFINE s0 == detach_client(s, c)
           s1 == detachstack(s0, c)
           s2 == IF destroyed THEN s1 ELSE setclientstate(s1, c, "Withdrawn")
           s3 == [s2 EXCEPT !.cl[c] = NoClient]
           s4 == focus(s3, NoWin)
           t == unmanage(s, c, destroyed)
<1>1. Recorded(s) /\ c \in Window /\ Managed(t) = Managed(s) \ {c}
  BY GoodIs, RecordedIs, UnmanageKeeps DEF Managed
<1>2. t = updateclientlist(s4)
  BY Zenon DEF unmanage
<1> HIDE DEF t
<1>3. Carries(s, s0)
  BY <1>1, CarriesLists
<1> HIDE DEF s0
<1>4. Carries(s, s1)
  BY <1>3, CarriesLists, CarriesTrans DEF Carries, Stays
<1> HIDE DEF s1
<1>5. Carries(s, s2)
  BY <1>4, CarriesLists, CarriesTrans DEF Carries, Stays
<1> HIDE DEF s2
<1>6. Recorded(s3) /\ s3.full = s2.full /\ \A w \in Window : w # c => s3.cl[w] = s2.cl[w]
  <2>1. Flag \subseteq DOMAIN NoClient
    BY DEF Flag, NoClient
  <2> QED
    BY <1>5, <2>1 DEF Recorded, Carries
<1> HIDE DEF s3
<1>7. Stays(s3, s4)
  BY <1>6, StaysFocus
<1> HIDE DEF s4
<1>8. Stays(s4, t)
  BY <1>2, <1>7, StaysFields DEF updateclientlist, Stays, Carries
<1>9. Carries(s3, t)
  BY <1>7, <1>8, CarriesTrans DEF Stays
<1>10. t.full = s.full
  BY <1>5, <1>6, <1>9 DEF Carries, SameFlags
<1>11. \A w \in Managed(t) : /\ w \in Managed(s)
                            /\ t.cl[w].isfloating = s.cl[w].isfloating
                            /\ t.cl[w].isfullscreen = s.cl[w].isfullscreen
  BY <1>1, <1>5, <1>6, <1>9 DEF Carries, SameFlags, Managed
<1> QED
  BY <1>10, <1>11 DEF Floats, t

(* A window whose placement cleanup() stored goes there.                   *)
LEMMA PlacementStored ==
    ASSUME NEW s, NEW w \in Window, PersistedOK
    PROVE  LET p == placement(s, w)
           IN  /\ p.idx = props[w].idx
               /\ Stored(s, w) => /\ p.mon = props[w].mon /\ p.tags = props[w].tags
                                  /\ p.isfloating = props[w].isfloating
<1> DEFINE p == placement(s, w)
           base == [NoClient EXCEPT !.idx = props[w].idx]
           put(mon, tags, isfloating) ==
               [base EXCEPT !.mon = mon, !.tags = tags, !.isfloating = isfloating]
<1>1. base.idx = props[w].idx /\ {"mon", "tags", "isfloating", "idx"} \subseteq DOMAIN base
  BY DEF NoClient
<1> HIDE DEF base
<1>2. \A mon, tags, isfloating :
         LET r == put(mon, tags, isfloating)
         IN  r.mon = mon /\ r.tags = tags /\ r.isfloating = isfloating /\ r.idx = props[w].idx
  BY <1>1
<1>3. p = IF Parent[w] # NoWin /\ Parent[w] \in Managed(s)
          THEN put(s.cl[Parent[w]].mon, s.cl[Parent[w]].tags, props[w].isfloating)
          ELSE IF props[w].mon # 0 /\ props[w].mon \in Mons(s)
          THEN put(props[w].mon, props[w].tags, props[w].isfloating)
          ELSE put(s.selmon, Shown(s, s.selmon), w \in Dialog)
  BY DEF placement, base
<1> HIDE DEF put, p
<1>4. p.idx = props[w].idx
  BY <1>2, <1>3
<1>5. ASSUME Stored(s, w)
      PROVE  p.mon = props[w].mon /\ p.tags = props[w].tags /\ p.isfloating = props[w].isfloating
  <2>1. props[w].mon # 0
    BY <1>5 DEF Stored, Mons
  <2>2. p = put(props[w].mon, props[w].tags, props[w].isfloating)
    BY <1>3, <1>5, <2>1 DEF Stored
  <2> QED
    BY <1>2, <2>2
<1> QED
  BY <1>4, <1>5 DEF p

(* The window w, placed by p, enters: nothing happens to the other clients; *)
(* the new one is where p has it, and floats if p says so, or if it is      *)
(* fullscreen, belongs to another window or has a fixed size.               *)
Entered(s, t, w, p) ==
    /\ t.full = s.full /\ t.mons = s.mons
    /\ \A v \in Window : v # w =>
           /\ t.cl[v].isfloating = s.cl[v].isfloating
           /\ t.cl[v].isfullscreen = s.cl[v].isfullscreen
           /\ t.cl[v].mon = s.cl[v].mon /\ t.cl[v].tags = s.cl[v].tags
           /\ t.cl[v].idx = s.cl[v].idx
    /\ t.cl[w].mon = p.mon /\ t.cl[w].tags = p.tags /\ t.cl[w].idx = p.idx
    /\ t.cl[w].isfloating = (p.isfloating \/ w \in s.full \/ Parent[w] # NoWin \/ w \in Fixed)
    /\ w \in s.full => t.cl[w].isfullscreen
    /\ t.clients = With(s.clients, p.mon,
           attachx(s.clients[p.mon], w, [c \in Window |-> t.cl[c].idx]))

(* manage. *)
LEMMA ManageIs ==
    ASSUME NEW s, Good(s), PersistedOK, NEW w \in Window, w \notin Managed(s), NEW urgent \in BOOLEAN
    PROVE  Entered(s, manage(s, w, urgent), w, placement(s, w))
<1> DEFINE p   == placement(s, w)
           m   == p.mon
           flt == Parent[w] # NoWin \/ w \in Fixed
           r1  == [p EXCEPT !.isurgent = urgent]
           s1  == [s EXCEPT !.cl[w] = r1]
           r2  == [r1 EXCEPT !.isfullscreen = TRUE, !.oldstate = r1.isfloating, !.isfloating = TRUE]
           s2  == IF w \in s.full THEN setfullscreen(s1, w, TRUE) ELSE s1
           s3  == IF s2.cl[w].isfloating THEN s2
                  ELSE [s2 EXCEPT !.cl[w].isfloating = flt, !.cl[w].oldstate = flt]
           idx == [c \in Window |-> s3.cl[c].idx]
           list == attachx(s3.clients[m], w, idx)
           s4  == [s3 EXCEPT !.clients[m] = list]
           a   == attachstack(s4, w)
           s5  == [a EXCEPT !.clientlist = @ \cup {w}, !.sel[m] = w]
           b   == setclientstate(s5, w, "Normal")
           s6  == IF HIDDEN(s, w) THEN s5 ELSE XMapWindow(b, w)
           t   == manage(s, w, urgent)
           (* The others, and the lists, are as they were. *)
           Same(x) == /\ Recorded(x) /\ x.full = s.full /\ x.mons = s.mons /\ x.clients = s.clients
                      /\ \A v \in Window : v # w => x.cl[v] = s.cl[v]
           Here(x) == x.cl[w].mon = p.mon /\ x.cl[w].tags = p.tags /\ x.cl[w].idx = p.idx
<1>1. /\ s \in Desktop /\ Recorded(s) /\ s.cl \in [Window -> ClientRec] /\ s.full \subseteq Window
      /\ s.clients \in [Mon -> Seq(Window)]
  BY GoodIs, RecordedIs, Fields
<1>2. p \in ClientRec /\ m \in Mon /\ ~p.isfullscreen
  <2>1. p \in ClientRec /\ m \in Mon
    BY <1>1, PlacementIs, MonsAreMon DEF Good
  <2>2. ~p.isfullscreen
    BY DEF placement, NoClient
  <2> QED
    BY <2>1, <2>2
<1>3. t = focus(s6, NoWin)
  BY Zenon DEF manage
<1> HIDE DEF t, p
<1>4. /\ Flag \cup {"oldstate", "isurgent"} \subseteq DOMAIN r1 /\ r1.isfloating = p.isfloating
      /\ ~r1.isfullscreen /\ r1.mon = p.mon /\ r1.tags = p.tags /\ r1.idx = p.idx
  BY <1>2 DEF ClientRec, Flag
<1> HIDE DEF r1
<1>5. Same(s1) /\ s1.cl[w] = r1
  BY <1>1, <1>4 DEF Recorded
<1>6. /\ Flag \cup {"oldstate", "isurgent"} \subseteq DOMAIN r2
      /\ r2.isfloating = TRUE /\ r2.isfullscreen = TRUE
      /\ r2.mon = p.mon /\ r2.tags = p.tags /\ r2.idx = p.idx
  BY <1>4 DEF Flag
<1> HIDE DEF r2
<1>7. /\ Same(s2) /\ Here(s2) /\ Flag \cup {"oldstate"} \subseteq DOMAIN s2.cl[w]
      /\ s2.cl[w].isfloating = (p.isfloating \/ w \in s.full)
      /\ w \in s.full => s2.cl[w].isfullscreen
  <2>1. CASE w \notin s.full
    <3>1. s2 = s1
      BY <2>1
    <3>2. p.isfloating \in BOOLEAN
      BY <1>2, ClientFields
    <3> HIDE DEF s1, s2
    <3> QED
      BY <1>4, <1>5, <2>1, <3>1, <3>2
  <2>2. CASE w \in s.full
    <3> DEFINE x == [s1 EXCEPT !.full = s1.full \cup {w}, !.cl[w] = r2]
    <3>1. setfullscreen(s1, w, TRUE) = x
      <4> HIDE DEF s1
      <4>1. ~s1.cl[w].isfullscreen
        BY <1>4, <1>5
      <4>2. [s1.cl[w] EXCEPT !.isfullscreen = TRUE, !.oldstate = s1.cl[w].isfloating, !.isfloating = TRUE] = r2
        BY <1>5 DEF r2
      <4>3. setfullscreen(s1, w, TRUE) =
              [s1 EXCEPT !.full = s1.full \cup {w},
                         !.cl[w] = [s1.cl[w] EXCEPT !.isfullscreen = TRUE,
                                                    !.oldstate = s1.cl[w].isfloating,
                                                    !.isfloating = TRUE]]
        BY <1>5, <4>1 DEF setfullscreen, Recorded
      <4> QED
        BY <4>2, <4>3
    <3>2. s2 = x
      BY <2>2, <3>1
    <3> HIDE DEF s1, s2
    <3>3. Same(x) /\ x.cl[w] = r2
      <4>1. s1.full \cup {w} = s.full
        BY <1>5, <2>2
      <4> QED
        BY <1>5, <1>6, <4>1 DEF Recorded
    <3> HIDE DEF x
    <3> QED
      BY <1>6, <2>2, <3>2, <3>3
  <2> QED
    BY <2>1, <2>2
<1> HIDE DEF s1, s2
<1>8. /\ Same(s3) /\ Here(s3)
      /\ s3.cl[w].isfloating = (p.isfloating \/ w \in s.full \/ flt)
      /\ w \in s.full => s3.cl[w].isfullscreen
  <2>1. CASE s2.cl[w].isfloating
    BY <1>7, <2>1
  <2>2. CASE ~s2.cl[w].isfloating
    <3>1. flt \in BOOLEAN
      OBVIOUS
    <3> HIDE DEF flt
    <3> DEFINE q == [s2.cl[w] EXCEPT !.isfloating = flt, !.oldstate = flt]
               x == [s2 EXCEPT !.cl[w] = q]
    <3>2. [s2 EXCEPT !.cl[w].isfloating = flt, !.cl[w].oldstate = flt] = x
      BY <1>7 DEF Recorded
    <3>3. s3 = x
      BY <2>2, <3>2
    <3>4. /\ Flag \subseteq DOMAIN q /\ q.isfloating = flt /\ q.isfullscreen = s2.cl[w].isfullscreen
          /\ q.mon = p.mon /\ q.tags = p.tags /\ q.idx = p.idx
      BY <1>7 DEF Flag
    <3> HIDE DEF q, s3
    <3>5. Same(x) /\ x.cl[w] = q
      BY <1>7, <3>4 DEF Recorded
    <3> HIDE DEF x
    <3> QED
      BY <1>7, <2>2, <3>1, <3>3, <3>4, <3>5
  <2> QED
    BY <2>1, <2>2
<1> HIDE DEF s3, flt
<1>9. Recorded(s4) /\ s4.cl = s3.cl /\ s4.full = s.full /\ s4.mons = s.mons
      /\ s4.clients = With(s.clients, m, list)
  BY <1>8 DEF Recorded, With
<1> HIDE DEF s4
<1>10. Stays(s4, a)
  BY <1>9, CarriesLists
<1> HIDE DEF a
<1>11. Stays(a, s5)
  BY <1>10 DEF Stays, Carries, Recorded, SameFlags, SamePlaces
<1> HIDE DEF s5
<1>12. Stays(s5, b) /\ Stays(b, XMapWindow(b, w))
  BY <1>11, CarriesLists DEF Stays, Carries
<1> HIDE DEF b
<1>13. Stays(s5, s6)
  BY <1>11, <1>12, CarriesTrans DEF Stays, Carries, SameFlags, SamePlaces
<1> HIDE DEF s6
<1>14. Stays(s6, t)
  BY <1>3, <1>13, StaysFocus DEF Stays, Carries
<1>15. Stays(s4, t)
  BY <1>10, <1>11, <1>13, <1>14, CarriesTrans
<1>16. /\ t.full = s.full /\ t.mons = s.mons /\ t.clients = With(s.clients, m, list)
       /\ \A v \in Window : /\ t.cl[v].isfloating = s3.cl[v].isfloating
                           /\ t.cl[v].isfullscreen = s3.cl[v].isfullscreen
                           /\ t.cl[v].mon = s3.cl[v].mon /\ t.cl[v].tags = s3.cl[v].tags
                           /\ t.cl[v].idx = s3.cl[v].idx
  BY <1>9, <1>15 DEF Stays, Carries, SameFlags, SamePlaces
<1>17. list = attachx(s.clients[m], w, [c \in Window |-> t.cl[c].idx])
  <2>1. idx = [c \in Window |-> t.cl[c].idx]
    BY <1>16
  <2> QED
    BY <1>8, <2>1
<1> HIDE DEF list
<1> QED
  <2>1. Entered(s, t, w, p)
    BY <1>8, <1>16, <1>17 DEF flt, Entered
  <2> QED
    BY <2>1 DEF t, p

-----------------------------------------------------------------------------
(* FloatsInv of the next state. *)
LEMMA FloatsNext ==
    ASSUME FloatsInv, Floats(d'), UNCHANGED <<props, uses>>,
           "fullscreen" \notin uses => d'.full = d.full,
           "hide" \notin uses =>
               \A w \in Window : d'.wmstate[w] \in {d.wmstate[w], "Normal", "Withdrawn"}
    PROVE  FloatsInv'
<1>1. Floats(d)'
  BY DEF Floats, Managed
<1> QED
  BY <1>1 DEF FloatsInv

(* A command that carries the flags; only hide() makes a window iconic.    *)
LEMMA CarriesInv ==
    ASSUME FloatsInv, Carries(d, d'), Managed(d') = Managed(d), UNCHANGED <<props, uses>>,
           "hide" \notin uses => SameServer(d, d')
    PROVE  FloatsInv'
<1>1. Floats(d') /\ d'.full = d.full
  BY CarriesFloats DEF FloatsInv, Carries, SameFlags
<1> QED
  BY <1>1, FloatsNext DEF SameServer

(* The commands. *)
LEMMA CommandsFloat ==
    ASSUME DesktopInv, FloatsInv, Commands, UNCHANGED uses
    PROVE  FloatsInv' /\ pc' # "scan"
<1>1. Good(d) /\ Kept(d, d) /\ d \in Desktop /\ Ran(d, d) /\ Carries(d, d) /\ Recorded(d)
  BY GoodIs, FieldedIs, RecordedIs DEF DesktopInv, Kept
<1>2. \A s \in Before_command :
         Good(s) /\ Kept(d, s) /\ Ran(d, s) /\ Carries(d, s) /\ Recorded(s)
  BY <1>1, BeforeCommand, SelectMonitorRuns, ViewsCarry, GoodIs, RecordedIs DEF Before_command, Kept
<1>3. ASSUME NEW s \in Before_command, NEW t, Kept(s, t), Carries(s, t), d' = t, Interactive,
             "hide" \in uses \/ Ran(s, t)
      PROVE  FloatsInv' /\ pc' # "scan"
  <2>1. Kept(d, d') /\ Carries(d, d')
    BY <1>2, <1>3, KeptTrans, CarriesTrans
  <2>2. "hide" \notin uses => SameServer(d, d')
    BY <1>2, <1>3 DEF Ran, SameServer
  <2> QED
    BY <1>3, <2>1, <2>2, CarriesInv DEF Interactive, pvars, Kept
<1>4. ASSUME Kept(d, d'), Carries(d, d'), Ran(d, d'), Interactive PROVE FloatsInv' /\ pc' # "scan"
  BY <1>4, CarriesInv DEF Interactive, pvars, Kept, Ran
<1>5. \A c \in Managed(d) : c \in Window /\ d.cl[c].mon \in Mons(d)
  BY <1>1, GoodIs DEF Managed
<1>6. CASE View \/ ToggleView
  BY <1>2, <1>3, <1>6, ViewKeeps, ViewRuns, ViewsCarry, MaskIs DEF View, ToggleView
<1>7. CASE SetTag \/ ToggleTag
  BY <1>2, <1>3, <1>7, TagKeeps, TagRuns, MovesCarry, MaskIs DEF SetTag, ToggleTag
<1>8. CASE FocusStack
  BY <1>1, <1>4, <1>8, FocusStackKeeps, FocusStackRuns, ViewsCarry DEF FocusStack
<1>9. CASE FocusMon \/ TagMon
  BY <1>1, <1>4, <1>9, FocusMonKeeps, TagMonKeeps, FocusMonRuns, TagMonRuns, ViewsCarry, MovesCarry
     DEF FocusMon, TagMon
<1>10. CASE Zoom
  <2>1. PICK s \in Before_command, arranges \in Arranges :
          \E c \in (Visible(s) \cap Members(s.clients[s.selmon]))
                        \cup ({s.sel[s.selmon]} \ {NoWin}) :
             d' = zoom(s, c, arranges)
    BY <1>10 DEF Zoom, OnWindow
  <2>2. PICK c \in (Visible(s) \cap Members(s.clients[s.selmon]))
                        \cup ({s.sel[s.selmon]} \ {NoWin}) :
             d' = zoom(s, c, arranges)
    BY <2>1
  <2>3. Good(s) /\ c \in Managed(s) /\ c \in Members(s.clients[s.selmon]) /\ arranges \in BOOLEAN
    BY CommandOnWindow DEF Arranges
  <2>4. /\ Kept(s, zoom(s, c, arranges)) /\ Ran(s, zoom(s, c, arranges)) /\ Interactive
        /\ Carries(s, zoom(s, c, arranges))
    BY <1>2, <1>10, <2>3, ZoomKeeps, ZoomRuns, MovesCarry DEF Zoom, OnWindow
  <2> QED
    BY <1>3, <2>2, <2>4
<1>11. CASE ToggleWin \/ ShowHideClient
  <2>1. PICK s \in Before_command, arranges \in Arranges :
          \E c \in (Visible(s) \cap Members(s.clients[s.selmon]))
                        \cup ({s.sel[s.selmon]} \ {NoWin}) :
             d' = togglewin(s, c, arranges) \/ d' = showhideclient(s, c, arranges)
    BY <1>11 DEF ToggleWin, ShowHideClient, OnWindow
  <2>2. PICK c \in (Visible(s) \cap Members(s.clients[s.selmon]))
                        \cup ({s.sel[s.selmon]} \ {NoWin}) :
             d' = togglewin(s, c, arranges) \/ d' = showhideclient(s, c, arranges)
    BY <2>1
  <2>3. Good(s) /\ c \in Managed(s) /\ c \in Members(s.clients[s.selmon]) /\ arranges \in BOOLEAN
    BY CommandOnWindow DEF Arranges
  <2>4. /\ Kept(s, togglewin(s, c, arranges)) /\ Kept(s, showhideclient(s, c, arranges))
        /\ Carries(s, togglewin(s, c, arranges)) /\ Carries(s, showhideclient(s, c, arranges))
    BY <1>2, <2>3, ToggleWinKeeps, HidesCarry
  <2>5. Interactive /\ "hide" \in uses
    BY <1>11 DEF ToggleWin, ShowHideClient, OnWindow
  <2> QED
    BY <1>3, <2>2, <2>4, <2>5
<1>12. CASE ToggleFloating
  <2>1. d.sel[d.selmon] \in Window /\ Interactive /\ d' = togglefloating(d, d.sel[d.selmon])
    BY <1>1, <1>12, GoodIs DEF ToggleFloating, Managed
  <2>2. Floats(d') /\ d'.full = d.full /\ Ran(d, d')
    BY <1>1, <2>1, FlagsFloat, FlagsRun DEF FloatsInv
  <2> QED
    BY <2>1, <2>2, FloatsNext DEF Interactive, pvars, Ran, SameServer
<1>13. ASSUME NEW c \in Window, ButtonPress(c) PROVE FloatsInv' /\ pc' # "scan"
  <2> DEFINE s == select_monitor(d, d.cl[c].mon)
  <2>1. c \in Managed(d) /\ d' = focus(s, c) /\ Interactive
    BY <1>13 DEF ButtonPress
  <2>2. Kept(d, s) /\ Ran(d, s) /\ Carries(d, s)
    BY <1>1, <1>5, <2>1, SelectMonitorKeeps, SelectMonitorRuns, ViewsCarry
  <2> HIDE DEF s
  <2>3. Good(s) /\ c \in Managed(s) \cup {NoWin}
    BY <2>1, <2>2 DEF Kept
  <2>4. Kept(s, focus(s, c)) /\ Ran(s, focus(s, c))
    BY <2>3, GoodIs, FocusKeeps, FocusRuns
  <2>5. Carries(d, focus(s, c))
    BY <2>2, CarriesFocus
  <2> QED
    BY <1>4, <2>1, <2>2, <2>4, <2>5, KeptTrans, RanTrans
<1>14. ASSUME NEW c \in Window, EnterNotify(c) PROVE FloatsInv' /\ pc' # "scan"
  <2> DEFINE m == d.cl[c].mon
             s == unfocus(d, d.sel[d.selmon], TRUE)
             t == [s EXCEPT !.selmon = m]
  <2>1. /\ c \in Managed(d) /\ Interactive
        /\ d' = IF m # d.selmon THEN focus(t, c) ELSE IF c = d.sel[d.selmon] THEN d ELSE focus(d, c)
    BY <1>14 DEF EnterNotify
  <2>2. Quiet(d, s) /\ Moves(d, s) /\ Carries(d, s)
    BY <1>1, QuietUnfocus, FieldedIs, MovesLists, CarriesLists DEF Stays
  <2>3. m \in Mons(d)
    BY <1>5, <2>1
  <2> HIDE DEF s, m
  <2>4. Listed(s) /\ Managed(s) = Managed(d) /\ m \in Mons(s)
    BY <1>1, <2>2, <2>3, GoodIs, QuietListed DEF Quiet, SameViews, Mons
  <2>5. Listed(t) /\ Managed(t) = Managed(d)
    BY <2>4, SelmonListed
  <2>6. Moves(d, t) /\ Carries(d, t)
    BY <2>2, MovesFields, MovesTrans, StaysFields, CarriesTrans DEF Moves, Carries, Stays
  <2> HIDE DEF t
  <2>7. Kept(d, focus(t, c)) /\ Kept(d, focus(d, c))
    BY <1>1, <2>1, <2>5, GoodIs, FocusAfter
  <2>8. Ran(d, focus(t, c)) /\ Ran(d, focus(d, c))
    BY <1>1, <2>1, <2>6, <2>7, MovesRan, FocusRuns
  <2>9. Carries(d, focus(t, c)) /\ Carries(d, focus(d, c))
    BY <1>1, <2>6, CarriesFocus
  <2> QED
    BY <1>1, <1>4, <2>1, <2>7, <2>8, <2>9
<1>15. ASSUME NEW m \in Mon, PointerEntersMonitor(m) PROVE FloatsInv' /\ pc' # "scan"
  BY <1>1, <1>4, <1>15, SelectMonitorKeeps, SelectMonitorRuns, ViewsCarry DEF PointerEntersMonitor
<1>16. CASE DragBegin
  <2>1. d' = d /\ pc' = "drag" /\ UNCHANGED <<queue, todo, pvars>>
    BY <1>16 DEF DragBegin
  <2> QED
    BY <1>1, <2>1, CarriesInv DEF pvars, SameServer
<1>17. CASE DragMotion
  <2>1. /\ d.sel[d.selmon] \in Window /\ d' = togglefloating(d, d.sel[d.selmon])
        /\ pc = "drag" /\ UNCHANGED <<pc, queue, todo, pvars>>
    BY <1>1, <1>17, GoodIs DEF DragMotion, Managed
  <2>2. Floats(d') /\ d'.full = d.full /\ Ran(d, d')
    BY <1>1, <2>1, FlagsFloat, FlagsRun DEF FloatsInv
  <2> QED
    BY <2>1, <2>2, FloatsNext DEF pvars, Ran, SameServer
<1>18. ASSUME NEW m \in Mon, DragEnd(m) PROVE FloatsInv' /\ pc' # "scan"
  <2> DEFINE s == sendmon(d, drag, m)
             t == [s EXCEPT !.selmon = m]
  <2>1. /\ pc = "drag" /\ m \in Mons(d) /\ pc' = "run"
        /\ d' = IF m = d.selmon THEN d ELSE focus(t, NoWin)
        /\ UNCHANGED <<todo, queue, pvars>>
    BY <1>18 DEF DragEnd
  <2>2. drag \in Managed(d)
    BY <2>1 DEF DesktopInv, WaitingOK
  <2>3. Kept(d, s) /\ s.mons = d.mons /\ Ran(d, s) /\ Carries(d, s)
    BY <1>1, <2>1, <2>2, SendmonKeeps, SendmonRuns, MovesCarry
  <2> HIDE DEF s
  <2>4. Good(s) /\ Listed(s) /\ Managed(s) = Managed(d) /\ m \in Mons(s) /\ s \in Desktop
    BY <2>1, <2>3, GoodIs DEF Kept, Mons
  <2>5. Listed(t) /\ Managed(t) = Managed(d)
    BY <2>4, SelmonListed
  <2>6. Moves(s, t) /\ Carries(d, t)
    BY <2>3, <2>4, FieldedIs, MovesFields, StaysFields, CarriesTrans DEF Carries, Stays
  <2> HIDE DEF t
  <2>7. Kept(d, focus(t, NoWin)) /\ Kept(s, focus(t, NoWin))
    BY <2>4, <2>5, FocusAfter
  <2>8. Ran(d, focus(t, NoWin))
    BY <2>3, <2>6, <2>7, MovesRan, RanTrans
  <2>9. Kept(d, d') /\ Ran(d, d') /\ Carries(d, d')
    BY <1>1, <2>1, <2>6, <2>7, <2>8, CarriesFocus
  <2> QED
    BY <2>1, <2>9, CarriesInv DEF pvars, Kept, Ran
<1> QED
  BY <1>6, <1>7, <1>8, <1>9, <1>10, <1>11, <1>12, <1>13, <1>14, <1>15, <1>16, <1>17, <1>18 DEF Commands

(* manage: a new client that is fullscreen or of a fixed size floats.      *)
LEMMA ManageFloats ==
    ASSUME NEW s, Good(s), PersistedOK, Floats(s), NEW w \in Window, w \notin Managed(s),
           w \in s.exists, NEW urgent \in BOOLEAN
    PROVE  LET t == manage(s, w, urgent)
           IN  /\ Floats(t) /\ t.full = s.full
               /\ \A v \in Window : t.wmstate[v] \in {s.wmstate[v], "Normal"}
<1> DEFINE t == manage(s, w, urgent)
           p == placement(s, w)
<1>1. /\ t.full = s.full
      /\ \A v \in Window : v # w => /\ t.cl[v].isfloating = s.cl[v].isfloating
                                    /\ t.cl[v].isfullscreen = s.cl[v].isfullscreen
      /\ t.cl[w].isfloating = (p.isfloating \/ w \in s.full \/ Parent[w] # NoWin \/ w \in Fixed)
      /\ w \in s.full => t.cl[w].isfullscreen
  <2>1. Entered(s, t, w, p)
    BY ManageIs
  <2> HIDE DEF t, p
  <2> QED
    BY <2>1 DEF Entered
<1>2. Managed(t) = Managed(s) \cup {w}
  BY ManageKeeps
<1>3. \A v \in Window : t.wmstate[v] \in {s.wmstate[v], "Normal"}
  <2>1. /\ HIDDEN(s, w) => t.wmstate = s.wmstate
        /\ ~HIDDEN(s, w) => t.wmstate[w] = "Normal"
        /\ \A v \in Window : v # w => t.wmstate[v] = s.wmstate[v]
    BY ManageRuns
  <2> HIDE DEF t
  <2> QED
    BY <2>1
<1> HIDE DEF t, p
<1>4. w \in s.full \/ w \in Fixed => t.cl[w].isfloating
  BY <1>1, Zenon
<1>5. Floats(t)
  <2>1. \A c \in Managed(s) : c \in Window /\ c # w
    BY DEF Managed
  <2> QED
    BY <1>1, <1>2, <1>4, <2>1 DEF Floats
<1> QED
  BY <1>1, <1>3, <1>5 DEF t

(* A handler that has taken an event. *)
LEMMA HandledFloat ==
    ASSUME FloatsInv, Floats(d'), d'.full = d.full, pc # "scan", UNCHANGED <<pc, pvars, uses>>,
           "hide" \notin uses =>
               \A w \in Window : d'.wmstate[w] \in {d.wmstate[w], "Normal", "Withdrawn"}
    PROVE  FloatsInv' /\ pc' # "scan"
BY FloatsNext DEF pvars

(* The uses of which RestartRestores holds: no window is fullscreen, or    *)
(* none has a fixed size and ServerInStep holds.                           *)
Restorable(u) == "fullscreen" \notin u \/ (Fixed = {} /\ Simple(u))

(* The handlers. *)
LEMMA HandlersFloat ==
    ASSUME DesktopInv, FloatsInv, Restorable(uses), Handlers, UNCHANGED uses
    PROVE  FloatsInv' /\ pc' # "scan"
<1> DEFINE w == Head(queue).win
           WmState == \A v \in Window : d'.wmstate[v] \in {d.wmstate[v], "Normal", "Withdrawn"}
<1>1. /\ Good(d) /\ PersistedOK /\ Kept(d, d) /\ d \in Desktop /\ queue \in Seq(Event)
      /\ Floats(d) /\ Carries(d, d) /\ Recorded(d) /\ Ran(d, d)
      /\ d.wmstate \in [Window -> {"Normal", "Iconic", "Withdrawn"}]
  BY GoodIs, FieldedIs, RecordedIs, Fields DEF DesktopInv, WaitingOK, Kept, FloatsInv
<1>2. ASSUME NEW k \in DOMAIN queue, maprequest(k) PROVE FloatsInv' /\ pc' # "scan"
  <2> DEFINE v == queue[k].win
  <2>1. /\ pc # "scan" /\ UNCHANGED <<pc, todo, drag, pvars>>
        /\ \/ d' = d
           \/ /\ v \in d.exists /\ v \notin Managed(d)
              /\ \E urgent \in May("urgent") : d' = manage(d, v, urgent)
    BY <1>2 DEF maprequest
  <2>2. v \in Window
    BY <1>1, QueueShrinks
  <2> HIDE DEF v
  <2>3. CASE d' = d
    BY <1>1, <2>1, <2>3, HandledFloat
  <2>4. CASE d' # d
    <3>1. PICK urgent \in BOOLEAN : d' = manage(d, v, urgent)
      BY <2>1, <2>4 DEF May
    <3> DEFINE t == manage(d, v, urgent)
    <3>2. Floats(t) /\ t.full = d.full /\ \A x \in Window : t.wmstate[x] \in {d.wmstate[x], "Normal"}
      BY <1>1, <2>1, <2>2, <2>4, ManageFloats
    <3> HIDE DEF t
    <3>3. d' = t
      BY <3>1 DEF t
    <3>4. WmState
      BY <3>2, <3>3
    <3> HIDE DEF WmState
    <3>5. Floats(d') /\ d'.full = d.full
      BY <3>2, <3>3
    <3> QED
      BY <2>1, <3>4, <3>5, HandledFloat DEF WmState
  <2> QED
    BY <2>3, <2>4
<1>3. ASSUME NEW type, Handle(type)
      PROVE  pc = "run" /\ UNCHANGED <<pc, todo, drag, pvars>> /\ w \in Window
  <2>1. queue # <<>> /\ pc = "run" /\ UNCHANGED <<pc, todo, drag, pvars>>
    BY <1>3 DEF Handle
  <2>2. 1 \in DOMAIN queue
    BY <1>1, <2>1, LenProperties, EmptySeq
  <2> QED
    BY <1>1, <2>1, <2>2, QueueShrinks
<1>4. ASSUME NEW type, Handle(type), NEW destroyed \in BOOLEAN,
             d' = IF w \in Managed(d) THEN unmanage(d, w, destroyed) ELSE d
      PROVE  FloatsInv' /\ pc' # "scan"
  <2>1. CASE w \notin Managed(d)
    BY <1>1, <1>3, <1>4, <2>1, HandledFloat
  <2>2. CASE w \in Managed(d)
    <3> DEFINE t == unmanage(d, w, destroyed)
    <3>1. Floats(t) /\ t.full = d.full
      BY <1>1, <2>2, UnmanageFloats
    <3>2. \A x \in Window : t.wmstate[x] \in {d.wmstate[x], "Withdrawn"}
      <4>1. /\ \A x \in Window : x # w => t.wmstate[x] = d.wmstate[x]
            /\ t.wmstate[w] \in {d.wmstate[w], "Withdrawn"}
        BY <1>1, <2>2, UnmanageRuns
      <4> HIDE DEF t
      <4> QED
        BY <4>1
    <3> HIDE DEF t
    <3>3. d' = t
      BY <1>4, <2>2 DEF t
    <3>4. WmState /\ Floats(d') /\ d'.full = d.full
      BY <3>1, <3>2, <3>3
    <3>5. pc # "scan" /\ UNCHANGED <<pc, pvars>>
      BY <1>3, <1>4
    <3> QED
      BY <3>4, <3>5, HandledFloat
  <2> QED
    BY <2>1, <2>2
<1>5. CASE /\ Handle("UnmapNotify sent by the client")
           /\ d' = IF w \in Managed(d) THEN [d EXCEPT !.wmstate[w] = "Withdrawn"] ELSE d
  <2> DEFINE f == [d.wmstate EXCEPT ![w] = "Withdrawn"]
  <2>1. pc # "scan" /\ UNCHANGED <<pc, pvars>>
    BY <1>3, <1>5
  <2>2. CASE d' = d
    BY <1>1, <2>1, <2>2, HandledFloat
  <2>3. CASE d' = [d EXCEPT !.wmstate = f]
    <3>1. \A x \in Window : f[x] \in {d.wmstate[x], "Withdrawn"}
      BY <1>1
    <3> HIDE DEF f
    <3>2. Carries(d, d') /\ d'.cl = d.cl /\ d'.wmstate = f
      BY <1>1, <2>3, StaysFields DEF Stays, Desktop
    <3>3. Managed(d') \subseteq Managed(d)
      BY <3>2 DEF Managed
    <3>4. Floats(d') /\ d'.full = d.full /\ WmState
      BY <1>1, <3>1, <3>2, <3>3, CarriesFloats DEF Carries, SameFlags
    <3> QED
      BY <2>1, <3>4, HandledFloat
  <2> QED
    BY <1>5, <2>2, <2>3
<1>6. CASE unmapnotify
  <2>1. \/ /\ Handle("UnmapNotify")
           /\ d' = IF w \in Managed(d) THEN unmanage(d, w, FALSE) ELSE d
        \/ /\ Handle("UnmapNotify sent by the client")
           /\ d' = IF w \in Managed(d) THEN [d EXCEPT !.wmstate[w] = "Withdrawn"] ELSE d
    BY <1>6 DEF unmapnotify
  <2> QED
    BY <1>4, <1>5, <2>1
<1>7. CASE destroynotify
  <2>1. Handle("DestroyNotify") /\ d' = IF w \in Managed(d) THEN unmanage(d, w, TRUE) ELSE d
    BY <1>7 DEF destroynotify
  <2> QED
    BY <1>4, <2>1
<1>8. CASE focusin
  <2> DEFINE c == d.sel[d.selmon]
  <2>1. Handle("FocusIn") /\ d' = IF c # NoWin /\ c # w THEN setfocus(d, c) ELSE d
    BY <1>8 DEF focusin
  <2> HIDE DEF c
  <2>2. d' = d \/ d' = setfocus(d, c)
    BY <2>1
  <2>3. Carries(d, d') /\ d'.wmstate = d.wmstate /\ Managed(d') \subseteq Managed(d)
    BY <1>1, <2>2, CarriesLists DEF Stays, setfocus, Desktop, Managed
  <2>4. Floats(d') /\ d'.full = d.full /\ WmState
    BY <1>1, <2>3, CarriesFloats DEF Carries, SameFlags
  <2>5. pc # "scan" /\ UNCHANGED <<pc, pvars>>
    BY <1>3, <2>1
  <2> QED
    BY <2>4, <2>5, HandledFloat
<1> HIDE DEF w, WmState
<1>9. ASSUME Kept(d, d'), Ran(d, d'), Carries(d, d'), Interactive PROVE FloatsInv' /\ pc' # "scan"
  BY <1>9, CarriesInv DEF Interactive, pvars, Kept, Ran
<1>10. CASE configurenotify
  <2>1. PICK n \in Mon, p \in Mon, moved \in BOOLEAN, resized \in BOOLEAN :
          /\ p <= n /\ (n # d.mons => resized) /\ Interactive
          /\ LET u == updategeom(d, n, moved, p)
             IN  d' = IF u.dirty \/ resized THEN focus(u.s, NoWin) ELSE u.s
    BY <1>10 DEF configurenotify
  <2> DEFINE u == updategeom(d, n, moved, p)
  <2>2. p \in 1..n
    BY <2>1, DwmAssumption DEF Mon
  <2>3. Listed(u.s) /\ Managed(u.s) = Managed(d) /\ (~u.dirty /\ n = d.mons => Good(u.s))
    BY <1>1, <2>2, UpdategeomKeeps
  <2>4. Moves(d, u.s) /\ (~u.dirty /\ n = d.mons => SameFocus(d, u.s))
    BY <1>1, <2>2, UpdategeomRuns
  <2>5. Carries(d, u.s)
    BY <1>1, UpdategeomCarries
  <2>6. d' = IF u.dirty \/ resized THEN focus(u.s, NoWin) ELSE u.s
    BY <2>1
  <2> HIDE DEF u
  <2>7. Kept(d, focus(u.s, NoWin))
    BY <2>3, FocusAfter
  <2>8. Ran(d, focus(u.s, NoWin)) /\ Carries(d, focus(u.s, NoWin))
    BY <2>4, <2>5, <2>7, MovesRan, CarriesFocus
  <2>9. Kept(d, d') /\ Ran(d, d') /\ Carries(d, d')
    BY <2>1, <2>3, <2>4, <2>5, <2>6, <2>7, <2>8 DEF Kept, Ran, Moves
  <2> QED
    BY <1>9, <2>1, <2>9
<1>11. ASSUME NEW c \in Window,
              FullscreenRequest(c) \/ ActivateRequest(c) \/ TransientChange(c)
       PROVE  FloatsInv' /\ pc' # "scan"
  <2>1. ASSUME Interactive, Floats(d'), Ran(d, d'), d'.full = d.full \/ "fullscreen" \in uses
        PROVE  FloatsInv' /\ pc' # "scan"
    BY <2>1, FloatsNext DEF Interactive, pvars, Ran, SameServer
  <2>2. CASE FullscreenRequest(c)
    <3>1. PICK on \in BOOLEAN : d' = setfullscreen(d, c, on) /\ Interactive
      BY <2>2 DEF FullscreenRequest
    <3>2. "fullscreen" \in uses /\ Fixed = {}
      BY <2>2 DEF FullscreenRequest, Restorable
    <3>3. Floats(d') /\ Ran(d, d')
      BY <1>1, <3>1, <3>2, FlagsFloat, FlagsRun
    <3> QED
      BY <2>1, <3>1, <3>2, <3>3
  <2>3. ASSUME NEW b \in BOOLEAN, Interactive, d' = d \/ d' = [d EXCEPT !.cl[c].isurgent = b]
        PROVE  FloatsInv' /\ pc' # "scan"
    <3> DEFINE t == [d EXCEPT !.cl[c].isurgent = b]
    <3>1. Kept(d, t) /\ Ran(d, t) /\ Carries(d, t)
      <4>1. Kept(d, t)
        BY <1>1, FlagsKept, Zenon
      <4>2. Ran(d, t)
        BY <1>1, FlagsRun, Zenon
      <4>3. Carries(d, t)
        BY <1>1, FlagsFloat, Zenon
      <4> QED
        BY <4>1, <4>2, <4>3
    <3>2. d' = d \/ d' = t
      BY <2>3
    <3> HIDE DEF t
    <3> QED
      BY <1>1, <1>9, <2>3, <3>1, <3>2
  <2>4. CASE ActivateRequest(c)
    BY <2>3, <2>4 DEF ActivateRequest
  <2>5. CASE TransientChange(c)
    <3> DEFINE t == [d EXCEPT !.cl[c].isfloating = TRUE]
    <3>1. d' = t /\ Interactive
      BY <2>5 DEF TransientChange
    <3>2. Floats(t) /\ t.full = d.full /\ Ran(d, t)
      <4>1. Floats(t) /\ t.full = d.full
        BY <1>1, FlagsFloat
      <4>2. Ran(d, t)
        BY <1>1, FlagsRun, Zenon
      <4> QED
        BY <4>1, <4>2
    <3> HIDE DEF t
    <3> QED
      BY <2>1, <3>1, <3>2
  <2> QED
    BY <1>11, <2>2, <2>4, <2>5
<1> QED
  BY <1>2, <1>6, <1>7, <1>8, <1>10, <1>11 DEF Handlers

(* New hints move no window. *)
LEMMA HintsFloat ==
    ASSUME DesktopInv, FloatsInv, Hints, UNCHANGED uses
    PROVE  FloatsInv' /\ pc' # "scan"
<1>1. Good(d) /\ d \in Desktop /\ Kept(d, d) /\ Ran(d, d) /\ Carries(d, d) /\ Floats(d)
  BY GoodIs, FieldedIs, RecordedIs DEF DesktopInv, Kept, FloatsInv
<1>2. PICK c \in Window : updatewmhints(c)
  BY DEF Hints
<1>3. PICK b \in BOOLEAN : Interactive /\ (d' = d \/ d' = [d EXCEPT !.cl[c].isurgent = b])
  BY <1>1, <1>2, HintsDo
<1> DEFINE t == [d EXCEPT !.cl[c].isurgent = b]
<1>4. Kept(d, t)
  BY <1>1, FlagsKept, Zenon
<1>5. Ran(d, t)
  BY <1>1, FlagsRun, Zenon
<1>6. Carries(d, t)
  BY <1>1, FlagsFloat, Zenon
<1>7. d' = d \/ d' = t
  BY <1>3
<1> HIDE DEF t
<1>8. Kept(d, d') /\ Ran(d, d') /\ Carries(d, d')
  BY <1>1, <1>4, <1>5, <1>6, <1>7
<1> QED
  BY <1>3, <1>8, CarriesInv DEF Interactive, pvars, Kept, Ran

-----------------------------------------------------------------------------
(* scan.                                                                   *)

(* ScanInv of the next state. *)
LEMMA ScanNext ==
    ASSUME pc' = "scan" =>
             /\ \A c \in Managed(d') : d'.cl[c].idx = props'[c].idx
             /\ \A m \in Mon : Ascending(d'.clients[m], [c \in Window |-> props'[c].idx])
             /\ clean' => \A c \in Managed(d') :
                   Parent[c] = NoWin /\ props'[c].mon \in Mons(d') =>
                       /\ d'.cl[c].mon = props'[c].mon /\ d'.cl[c].tags = props'[c].tags
                       /\ d'.cl[c].isfloating = props'[c].isfloating
             /\ clean' /\ Simple(uses') =>
                   \A w \in todo' \cap d'.mapped \cap d'.full : props'[w].isfloating
    PROVE  ScanInv'
<1> SUFFICES ASSUME pc' = "scan"
             PROVE  /\ \A c \in Managed(d)' : d'.cl[c].idx = props'[c].idx
                    /\ \A m \in Mon : Ascending(d.clients[m], [c \in Window |-> props[c].idx])'
                    /\ clean' => \A c \in Managed(d)' : Stored(d, c)' => IsBack(d, c)'
                    /\ clean' /\ Simple(uses)' =>
                          \A w \in todo' \cap d'.mapped \cap d'.full : props'[w].isfloating
  BY DEF ScanInv
<1>1. Managed(d)' = Managed(d')
  BY DEF Managed
<1>2. \A m \in Mon : Ascending(d.clients[m], [c \in Window |-> props[c].idx])'
  BY DEF Ascending
<1>3. clean' => \A c \in Managed(d)' : Stored(d, c)' => IsBack(d, c)'
  BY <1>1 DEF Stored, IsBack, Mons
<1> QED
  BY <1>1, <1>2, <1>3 DEF Simple

(* Only the places of the clients in the list matter for its order. *)
LEMMA AscendingSame ==
    ASSUME NEW list, NEW f, NEW g, Ascending(list, f), \A c \in Members(list) : g[c] = f[c]
    PROVE  Ascending(list, g)
BY DEF Ascending, Members

(* scan looks at a window. *)
LEMMA ScanRestores ==
    ASSUME DesktopInv, FloatsInv, ScanInv, Restorable(uses), NEW w \in Window, ScanWindow(w),
           UNCHANGED uses
    PROVE  FloatsInv' /\ ScanInv'
<1> DEFINE idx == [c \in Window |-> props[c].idx]
           p == placement(d, w)
<1>1. /\ Good(d) /\ PersistedOK /\ d \in Desktop /\ Floats(d) /\ Carries(d, d)
      /\ pc = "scan" /\ pc' = "scan" /\ w \in todo /\ w \notin Managed(d)
      /\ todo' = todo \ {w} /\ UNCHANGED <<queue, props, clean>>
      /\ \A x \in Window : props[x].mon # 0 /\ x \in Fixed => props[x].isfloating
  BY GoodIs, RecordedIs DEF DesktopInv, WaitingOK, ScanWindow, FloatsInv, pvars
<1>2. /\ \A c \in Managed(d) : d.cl[c].idx = props[c].idx
      /\ \A m \in Mon : Ascending(d.clients[m], idx)
      /\ clean => \A c \in Managed(d) : Stored(d, c) => IsBack(d, c)
      /\ clean /\ Simple(uses) => \A x \in todo \cap d.mapped \cap d.full : props[x].isfloating
  BY <1>1 DEF ScanInv
<1>3. CASE d' = d
  <2>1. FloatsInv'
    BY <1>1, <1>3, CarriesInv DEF SameServer
  <2>2. ScanInv'
    BY <1>1, <1>2, <1>3, ScanNext DEF Stored, IsBack
  <2> QED
    BY <2>1, <2>2
<1>4. CASE /\ w \in d.exists /\ (w \in d.mapped \/ HIDDEN(d, w))
           /\ \E urgent \in May("urgent") : d' = manage(d, w, urgent)
  <2>1. PICK urgent \in BOOLEAN : d' = manage(d, w, urgent)
    BY <1>4 DEF May
  <2> DEFINE t == manage(d, w, urgent)
             new == [c \in Window |-> t.cl[c].idx]
  <2>2. /\ Good(t) /\ Managed(t) = Managed(d) \cup {w}
        /\ Floats(t) /\ t.full = d.full
        /\ \A v \in Window : t.wmstate[v] \in {d.wmstate[v], "Normal"}
    BY <1>1, <1>4, ManageKeeps, ManageFloats
  <2>3. t.mapped \subseteq d.mapped \cup {w}
    <3>1. /\ HIDDEN(d, w) => t.mapped = d.mapped
          /\ ~HIDDEN(d, w) => t.mapped = d.mapped \cup {w}
      BY <1>1, <1>4, ManageRuns
    <3> HIDE DEF t
    <3> QED
      BY <3>1
  <2>4. Entered(d, t, w, p)
    BY <1>1, ManageIs
  <2>5. d' = t
    BY <2>1
  <2> HIDE DEF t
  <2>6. FloatsInv'
    BY <1>1, <2>2, <2>5, FloatsNext
  <2>7. /\ p.mon \in Mon /\ p.idx = props[w].idx /\ p.isfloating \in BOOLEAN
        /\ Stored(d, w) => /\ p.mon = props[w].mon /\ p.tags = props[w].tags
                           /\ p.isfloating = props[w].isfloating
    <3>1. p \in ClientRec /\ p.mon \in Mon
      BY <1>1, GoodIs, PlacementIs, MonsAreMon
    <3>2. p.isfloating \in BOOLEAN
      BY <3>1, ClientFields
    <3> HIDE DEF p
    <3> QED
      BY <1>1, <3>1, <3>2, PlacementStored DEF p
  <2> HIDE DEF p
  <2>8. \A c \in Managed(t) : t.cl[c].idx = props[c].idx
    BY <1>1, <1>2, <2>2, <2>4, <2>7 DEF Entered, Managed
  <2>9. /\ t \in Desktop /\ d.clients \in [Mon -> Seq(Window)]
        /\ \A m \in Mon : /\ Members(t.clients[m]) \subseteq Managed(t)
                          /\ Members(d.clients[m]) \subseteq Managed(d)
    BY <1>1, <2>2, GoodIs, Fields, MonRange DEF Good, Sound, LinkedBut, On, Managed
  <2>10. new \in [Window -> Nat]
    <3>1. t.cl \in [Window -> ClientRec]
      BY <2>9, Fields
    <3> QED
      BY <3>1, ClientFields
  <2>11. \A c \in Managed(t) : new[c] = props[c].idx /\ idx[c] = props[c].idx
    BY <2>8 DEF Managed
  <2>12. t.clients = With(d.clients, p.mon, attachx(d.clients[p.mon], w, new))
    BY <2>4 DEF Entered
  <2> HIDE DEF new, idx
  <2>13. ASSUME NEW m \in Mon PROVE Ascending(t.clients[m], idx)
    <3>1. CASE m # p.mon
      BY <1>2, <2>7, <2>9, <2>12, <3>1 DEF With
    <3>2. CASE m = p.mon
      <4>1. t.clients[m] = attachx(d.clients[m], w, new)
        BY <2>7, <2>9, <2>12, <3>2 DEF With
      <4>2. Ascending(d.clients[m], new)
        BY <1>2, <2>2, <2>9, <2>11, AscendingSame
      <4>3. Ascending(t.clients[m], new)
        BY <2>9, <2>10, <4>1, <4>2, AscendingAttachx
      <4> QED
        BY <2>9, <2>11, <4>3, AscendingSame
    <3> QED
      BY <3>1, <3>2
  <2>14. w \in d.full /\ clean => props[w].isfloating
    <3> SUFFICES ASSUME w \in d.full, clean PROVE props[w].isfloating
      OBVIOUS
    <3>1. d.full # {}
      OBVIOUS
    <3>2. Simple(uses)
      BY <3>1 DEF FloatsInv, Restorable
    <3>3. d.wmstate[w] # "Iconic"
      BY <3>2 DEF FloatsInv, Simple
    <3>4. w \in d.mapped
      BY <1>4, <3>3 DEF HIDDEN
    <3> QED
      BY <1>1, <1>2, <3>2, <3>4
  <2>15. ASSUME NEW c \in Managed(t), clean, Stored(d, c)
         PROVE  /\ t.cl[c].mon = props[c].mon /\ t.cl[c].tags = props[c].tags
                /\ t.cl[c].isfloating = props[c].isfloating
    <3>1. CASE c # w
      <4>1. c \in Managed(d) /\ c \in Window
        BY <2>2, <3>1 DEF Managed
      <4>2. IsBack(d, c)
        BY <1>2, <2>15, <4>1
      <4> QED
        BY <2>4, <3>1, <4>1, <4>2 DEF Entered, IsBack
    <3>2. CASE c = w
      <4>1. t.cl[w].mon = props[w].mon /\ t.cl[w].tags = props[w].tags
        BY <2>4, <2>7, <2>15, <3>2 DEF Entered
      <4>2. Parent[w] = NoWin /\ props[w].mon # 0 /\ props[w].isfloating \in BOOLEAN
        BY <1>1, <2>15, <3>2 DEF Stored, Mons, PersistedOK, Props
      <4>3. w \in d.full \/ w \in Fixed => props[w].isfloating
        BY <1>1, <2>14, <2>15, <3>2, <4>2
      <4>4. t.cl[w].isfloating = (props[w].isfloating \/ w \in d.full \/ w \in Fixed)
        <5>1. t.cl[w].isfloating = (p.isfloating \/ w \in d.full \/ Parent[w] # NoWin \/ w \in Fixed)
          BY <2>4 DEF Entered
        <5>2. p.isfloating = props[w].isfloating
          BY <2>7, <2>15, <3>2
        <5> QED
          BY <4>2, <5>1, <5>2, Zenon
      <4>5. t.cl[w].isfloating = props[w].isfloating
        BY <4>2, <4>3, <4>4
      <4> QED
        BY <3>2, <4>1, <4>5
    <3> QED
      BY <3>1, <3>2
  <2>16. t.mons = d.mons
    BY <2>4 DEF Entered
  <2>17. ScanInv'
    <3>1. \A c \in Managed(d') : d'.cl[c].idx = props'[c].idx
      BY <1>1, <2>5, <2>8
    <3>2. \A m \in Mon : Ascending(d'.clients[m], [c \in Window |-> props'[c].idx])
      BY <1>1, <2>5, <2>13 DEF idx
    <3>3. clean' => \A c \in Managed(d') :
            Parent[c] = NoWin /\ props'[c].mon \in Mons(d') =>
                /\ d'.cl[c].mon = props'[c].mon /\ d'.cl[c].tags = props'[c].tags
                /\ d'.cl[c].isfloating = props'[c].isfloating
      BY <1>1, <2>5, <2>15, <2>16 DEF Stored, Mons
    <3>4. clean' /\ Simple(uses') =>
            \A x \in todo' \cap d'.mapped \cap d'.full : props'[x].isfloating
      BY <1>1, <1>2, <2>2, <2>3, <2>5
    <3> QED
      BY <3>1, <3>2, <3>3, <3>4, ScanNext
  <2> QED
    BY <2>6, <2>17
<1> QED
  BY <1>3, <1>4 DEF ScanWindow

(* A desktop that dwm has just started on: no client, and the windows as   *)
(* they were.                                                              *)
Starts(t, mapped, wmstate, full) ==
    /\ Managed(t) = {} /\ Floats(t)
    /\ t.mapped = mapped /\ t.wmstate = wmstate /\ t.full = full
    /\ \A m \in Mon : \A idx : Ascending(t.clients[m], idx)

(* setup. *)
LEMMA SetupStarts ==
    ASSUME NEW n \in Mon, NEW p \in 1..n, NEW exists \in SUBSET Window, NEW mapped \in SUBSET Window,
           NEW wmstate \in [Window -> {"Normal", "Iconic", "Withdrawn"}],
           NEW full \in SUBSET Window, NEW saved \in [Mon -> SUBSET Tag]
    PROVE  Starts(setup(n, p, exists, mapped, wmstate, full, saved), mapped, wmstate, full)
<1> DEFINE t == setup(n, p, exists, mapped, wmstate, full, saved)
<1>1. Managed(t) = {}
  BY SetupRuns
<1>2. /\ t.full = full /\ t.mapped = mapped /\ t.wmstate = wmstate
      /\ t.clients = [m \in Mon |-> <<>>]
  BY DEF setup, createmon
<1> HIDE DEF t
<1>3. Floats(t)
  BY <1>1 DEF Floats
<1>4. \A m \in Mon : \A idx : Ascending(t.clients[m], idx)
  BY <1>2 DEF Ascending
<1>5. Starts(t, mapped, wmstate, full)
  BY <1>1, <1>2, <1>3, <1>4 DEF Starts
<1> QED
  BY <1>5 DEF t

(* dwm starts: nothing is restored yet, and everything can be.             *)
LEMMA StartupRestores ==
    ASSUME DesktopInv, FloatsInv, NEW wmstate \in [Window -> {"Normal", "Iconic", "Withdrawn"}],
           Startup(wmstate), PersistedOK', UNCHANGED uses,
           "hide" \notin uses => \A w \in Window : wmstate[w] # "Iconic",
           \A w \in Window : props'[w].mon # 0 /\ w \in Fixed => props'[w].isfloating,
           clean' /\ Simple(uses) => \A w \in d.mapped \cap d.full : props'[w].isfloating
    PROVE  FloatsInv' /\ ScanInv'
<1>1. /\ d.exists \in SUBSET Window /\ d.mapped \in SUBSET Window /\ d.full \in SUBSET Window
      /\ rootprops' \in [Mon -> SUBSET Tag]
  BY GoodIs, Fields DEF DesktopInv, PersistedOK
<1>2. PICK n \in Mon : \E p \in 1..n :
        d' = setup(n, p, d.exists, d.mapped, wmstate, d.full, rootprops')
  <2>1. Screens \subseteq Mon
    BY DwmAssumption DEF Screens, Mon
  <2> QED
    BY <2>1 DEF Startup
<1>3. PICK p \in 1..n : d' = setup(n, p, d.exists, d.mapped, wmstate, d.full, rootprops')
  BY <1>2
<1>4. PICK saved \in [Mon -> SUBSET Tag] :
        d' = setup(n, p, d.exists, d.mapped, wmstate, d.full, saved)
  BY <1>1, <1>3
<1> DEFINE t == setup(n, p, d.exists, d.mapped, wmstate, d.full, saved)
<1>5. Starts(t, d.mapped, wmstate, d.full)
  BY <1>1, SetupStarts
<1>6. d' = t
  BY <1>4
<1> HIDE DEF t
<1>7. FloatsInv'
  <2>1. Floats(d)'
    BY <1>5, <1>6 DEF Floats, Managed, Starts
  <2> QED
    BY <1>5, <1>6, <2>1 DEF FloatsInv, Starts
<1>8. ScanInv'
  <2>1. \A m \in Mon : Ascending(d'.clients[m], [c \in Window |-> props'[c].idx])
    BY <1>5, <1>6 DEF Starts
  <2> QED
    BY <1>5, <1>6, <2>1, ScanNext DEF Starts
<1> QED
  BY <1>7, <1>8

(* Scan, restart and crash. *)
LEMMA LifecycleRestores ==
    ASSUME DesktopInv, FloatsInv, ScanInv, Simple(uses) => ServerInv, Restorable(uses), Lifecycle,
           UNCHANGED uses
    PROVE  FloatsInv' /\ ScanInv'
<1>1. /\ Good(d) /\ PersistedOK /\ d \in Desktop /\ Floats(d) /\ Carries(d, d) /\ PersistedOK'
      /\ d.wmstate \in [Window -> {"Normal", "Iconic", "Withdrawn"}]
      /\ \A w \in Window : props[w].mon # 0 /\ w \in Fixed => props[w].isfloating
      /\ "hide" \notin uses => \A w \in Window : d.wmstate[w] # "Iconic"
  BY GoodIs, RecordedIs, LifecycleStep, Fields DEF DesktopInv, FloatsInv
<1>2. CASE ScanEnd
  <2>1. pc' # "scan" /\ UNCHANGED <<d, props>>
    BY <1>2 DEF ScanEnd, pvars
  <2>2. FloatsInv'
    BY <1>1, <2>1, CarriesInv DEF SameServer
  <2> QED
    BY <2>1, <2>2, ScanNext
<1>3. CASE Restart
  <2> DEFINE wmstate == [w \in Window |-> IF w \in Managed(d) THEN "Withdrawn" ELSE d.wmstate[w]]
  <2>1. /\ wmstate \in [Window -> {"Normal", "Iconic", "Withdrawn"}]
        /\ "hide" \notin uses => \A w \in Window : wmstate[w] # "Iconic"
    BY <1>1
  <2>2. Startup(wmstate) /\ pc = "run"
    BY <1>3 DEF Restart
  <2> HIDE DEF wmstate
  <2>3. props' = [w \in Window |-> IF w \in Managed(d) THEN Persisted(w) ELSE props[w]]
    BY <1>3 DEF Restart
  <2>4. \A w \in Managed(d) : w \in Window /\ props'[w].isfloating = d.cl[w].isfloating
    BY <2>3 DEF Persisted, Managed
  <2>5. \A w \in Window : props'[w].mon # 0 /\ w \in Fixed => props'[w].isfloating
    BY <1>1, <2>3, <2>4 DEF Floats
  <2>6. Simple(uses) => \A w \in d.mapped \cap d.full : props'[w].isfloating
    <3> SUFFICES ASSUME Simple(uses), NEW w \in d.mapped \cap d.full PROVE props'[w].isfloating
      OBVIOUS
    <3>1. w \in Managed(d)
      BY <2>2 DEF ServerInv, ServerState, Found
    <3> QED
      BY <1>1, <2>4, <3>1 DEF Floats
  <2> QED
    BY <1>1, <2>1, <2>2, <2>5, <2>6, StartupRestores
<1>4. CASE Crash
  BY <1>1, <1>4, StartupRestores DEF Crash
<1> QED
  BY <1>2, <1>3, <1>4, ScanRestores DEF Lifecycle

(* What the programs do: no window becomes mapped or iconic.               *)
LEMMA ProgramsRestore ==
    ASSUME DesktopInv, FloatsInv, ScanInv, Programs, UNCHANGED uses
    PROVE  FloatsInv' /\ ScanInv'
<1>1. /\ d \in Desktop /\ Floats(d) /\ d.wmstate \in [Window -> {"Normal", "Iconic", "Withdrawn"}]
  BY GoodIs, Fields DEF DesktopInv, FloatsInv
<1>2. /\ UNCHANGED <<pc, todo, props, clean>>
      /\ d'.cl = d.cl /\ d'.full = d.full /\ d'.clients = d.clients /\ d'.mons = d.mons
      /\ d'.mapped \subseteq d.mapped
      /\ \A v \in Window : d'.wmstate[v] \in {d.wmstate[v], "Withdrawn"}
  <2> SUFFICES ASSUME NEW w \in Window, \/ ClientMap(w) \/ ClientUnmap(w) \/ ClientWithdraw(w)
                                        \/ ClientDestroy(w) \/ ClientTakesFocus(w)
               PROVE  /\ UNCHANGED <<pc, todo, props, clean>>
                      /\ d'.cl = d.cl /\ d'.full = d.full
                      /\ d'.clients = d.clients /\ d'.mons = d.mons
                      /\ d'.mapped \subseteq d.mapped
                      /\ \A v \in Window : d'.wmstate[v] \in {d.wmstate[v], "Withdrawn"}
    BY DEF Programs
  <2>1. CASE ClientMap(w) \/ ClientWithdraw(w)
    BY <2>1 DEF ClientMap, ClientWithdraw, pvars
  <2>2. CASE ClientUnmap(w)
    BY <1>1, <2>2 DEF ClientUnmap, XUnmapWindow, Desktop, pvars
  <2>3. CASE ClientDestroy(w)
    <3>1. /\ d' = [XUnmapWindow(d, w) EXCEPT !.exists = @ \ {w}, !.wmstate[w] = "Withdrawn"]
          /\ UNCHANGED <<pc, todo, props, clean>>
      BY <2>3 DEF ClientDestroy, pvars
    <3>2. /\ d'.cl = d.cl /\ d'.full = d.full /\ d'.clients = d.clients /\ d'.mons = d.mons
          /\ d'.mapped = d.mapped \ {w} /\ d'.wmstate = [d.wmstate EXCEPT ![w] = "Withdrawn"]
      BY <1>1, <3>1 DEF XUnmapWindow, Desktop
    <3> QED
      BY <1>1, <3>1, <3>2
  <2>4. CASE ClientTakesFocus(w)
    BY <1>1, <2>4 DEF ClientTakesFocus, Desktop, pvars
  <2> QED
    BY <2>1, <2>2, <2>3, <2>4
<1>3. Managed(d') = Managed(d) /\ Floats(d')
  BY <1>1, <1>2 DEF Managed, Floats
<1>4. FloatsInv'
  BY <1>2, <1>3, FloatsNext
<1>5. ScanInv'
  <2> SUFFICES ASSUME pc = "scan" PROVE ScanInv'
    BY <1>2, ScanNext
  <2>1. /\ \A c \in Managed(d) : d.cl[c].idx = props[c].idx
        /\ \A m \in Mon : Ascending(d.clients[m], [c \in Window |-> props[c].idx])
        /\ clean => \A c \in Managed(d) : Stored(d, c) => IsBack(d, c)
        /\ clean /\ Simple(uses) => \A w \in todo \cap d.mapped \cap d.full : props[w].isfloating
    BY DEF ScanInv
  <2> QED
    BY <1>2, <1>3, <2>1, ScanNext DEF Stored, IsBack, Mons
<1> QED
  BY <1>4, <1>5

-----------------------------------------------------------------------------
(* dwm starts with nothing to restore. *)
LEMMA InitRestores == Init => FloatsInv /\ ScanInv
<1> SUFFICES ASSUME Init PROVE FloatsInv /\ ScanInv
  OBVIOUS
<1> DEFINE wmstate == [w \in Window |-> "Withdrawn"]
<1>1. /\ rootprops = [m \in Mon |-> {}] /\ props = [w \in Window |-> NoProps]
      /\ \E n \in Screens : d = setup(n, 1, Window, {}, wmstate, {}, rootprops)
      /\ todo = {}
  BY DEF Init
<1>2. wmstate \in [Window -> {"Normal", "Iconic", "Withdrawn"}] /\ \A w \in Window : wmstate[w] # "Iconic"
  OBVIOUS
<1> HIDE DEF wmstate
<1>3. PICK n \in Mon : d = setup(n, 1, Window, {}, wmstate, {}, rootprops)
  <2>1. Screens \subseteq Mon
    BY DwmAssumption DEF Screens, Mon
  <2> QED
    BY <1>1, <2>1
<1>4. /\ Managed(d) = {} /\ Floats(d) /\ d.full = {} /\ d.wmstate = wmstate
      /\ \A m \in Mon : \A idx : Ascending(d.clients[m], idx)
  <2>1. 1 \in 1..n
    BY DwmAssumption DEF Mon
  <2>2. {} \in SUBSET Window /\ Window \in SUBSET Window /\ rootprops \in [Mon -> SUBSET Tag]
    BY <1>1
  <2>3. PICK saved \in [Mon -> SUBSET Tag] : d = setup(n, 1, Window, {}, wmstate, {}, saved)
    BY <1>3, <2>2
  <2> DEFINE t == setup(n, 1, Window, {}, wmstate, {}, saved)
  <2>4. Starts(t, {}, wmstate, {})
    BY <1>2, <2>1, <2>2, SetupStarts
  <2>5. d = t
    BY <2>3
  <2> HIDE DEF t
  <2> QED
    BY <2>4, <2>5 DEF Starts
<1>5. \A w \in Window : props[w].mon = 0
  BY <1>1 DEF NoProps
<1> QED
  BY <1>1, <1>2, <1>4, <1>5 DEF FloatsInv, ScanInv

(* Every step keeps what a restart can restore. *)
LEMMA NextRestores ==
    ASSUME DesktopInv, FloatsInv, ScanInv, Simple(uses) => ServerInv, Restorable(uses), [Next]_vars
    PROVE  FloatsInv' /\ ScanInv'
<1>1. CASE UNCHANGED vars
  <2>1. UNCHANGED <<d, pc, todo, props, clean, uses>>
    BY <1>1 DEF vars, pvars
  <2>2. Carries(d, d') /\ Managed(d') = Managed(d)
    BY <2>1, RecordedIs, GoodIs DEF DesktopInv
  <2>3. FloatsInv'
    BY <2>1, <2>2, CarriesInv DEF SameServer
  <2>4. ScanInv'
    BY <2>1 DEF ScanInv, Managed, Ascending, Stored, IsBack, Mons
  <2> QED
    BY <2>3, <2>4
<1>2. CASE Next
  <2>1. UNCHANGED uses /\ (Handlers \/ Commands \/ Lifecycle \/ Programs \/ Hints)
    BY <1>2 DEF Next
  <2>2. pc' # "scan" => ScanInv'
    BY ScanNext
  <2> QED
    BY <2>1, <2>2, HandlersFloat, HintsFloat, CommandsFloat, LifecycleRestores, ProgramsRestore
<1> QED
  BY <1>1, <1>2

(* In an ascending list the client with the smaller place is in front.     *)
LEMMA AscendingOrder ==
    ASSUME NEW list \in Seq(Window), NEW b \in Members(list), NEW c \in Members(list),
           NEW idx \in [Window -> Nat], Ascending(list, idx), idx[b] < idx[c]
    PROVE  PositionOf(list, b) < PositionOf(list, c)
<1> DEFINE i == PositionOf(list, b)
           j == PositionOf(list, c)
<1>1. /\ Len(list) \in Nat /\ DOMAIN list = 1..Len(list)
      /\ i \in 1..Len(list) /\ list[i] = b /\ j \in 1..Len(list) /\ list[j] = c
  BY LenProperties, PositionIn
<1> HIDE DEF i, j
<1>2. b \in Window /\ c \in Window
  BY <1>1, ElementOfSeq
<1>3. idx[b] \in Nat /\ idx[c] \in Nat
  BY <1>2
<1> SUFFICES ASSUME j <= i PROVE FALSE
  BY <1>1 DEF i, j
<1>4. i # j
  BY <1>1, <1>3
<1>5. j < i
  BY <1>1, <1>4
<1>6. idx[c] <= idx[b]
  BY <1>1, <1>5 DEF Ascending
<1> QED
  BY <1>3, <1>6

(* Unless windows are fullscreen where some have a fixed size or can be    *)
(* hidden: after a restart every client whose placement was stored and     *)
(* whose monitor is there is back on it, with its tags and its floating    *)
(* state, and in the order of its client list, in whatever order scan met  *)
(* the windows.                                                            *)
THEOREM RestartRestoresHolds == (\A u \in Uses : Restorable(u)) => (Spec => RestartRestores)
<1> DEFINE RestoredInv == FloatsInv /\ ScanInv /\ (Simple(uses) => ServerInv)
<1> SUFFICES ASSUME \A u \in Uses : Restorable(u) PROVE Spec => RestartRestores
  OBVIOUS
<1>1. Init => RestoredInv
  BY InitRestores, InitServer
<1>2. DesktopInv /\ RestoredInv /\ [Next]_vars => RestoredInv'
  <2> SUFFICES ASSUME DesktopInv, RestoredInv, [Next]_vars PROVE RestoredInv'
    OBVIOUS
  <2>1. uses \in Uses
    BY DEF DesktopInv
  <2>2. FloatsInv' /\ ScanInv'
    BY <2>1, NextRestores
  <2>3. uses' = uses
    BY DEF Next, vars
  <2>4. Simple(uses)' => ServerInv'
    <3>1. Simple(uses)' => Simple(uses)
      BY <2>3 DEF Simple
    <3> QED
      BY <3>1, NextServer
  <2> QED
    BY <2>2, <2>4
<1>3. DesktopInv /\ RestoredInv /\ [Next]_vars => [Restored]_vars
  <2> SUFFICES ASSUME DesktopInv, RestoredInv, [Next]_vars, pc = "scan", pc' = "run", clean
               PROVE  Restored
    BY DEF Restored
  <2>1. d' = d /\ UNCHANGED props
    <3>1. Lifecycle \/ Programs \/ Handlers \/ Commands \/ Hints
      BY DEF Next, vars
    <3>2. ASSUME Handlers PROVE FALSE
      BY <3>2 DEF Handlers, maprequest, unmapnotify, destroynotify, focusin, configurenotify, Handle,
                  FullscreenRequest, ActivateRequest, TransientChange, Interactive
    <3>3. ASSUME Commands PROVE FALSE
      BY <3>3 DEF Commands, View, ToggleView, SetTag, ToggleTag, FocusStack, FocusMon, TagMon,
                  Zoom, ToggleWin, ShowHideClient, ToggleFloating, OnWindow, ButtonPress,
                  EnterNotify, PointerEntersMonitor, DragBegin, DragMotion, DragEnd, Interactive
    <3>4. ASSUME Programs PROVE FALSE
      BY <3>4 DEF Programs, ClientMap, ClientUnmap, ClientWithdraw, ClientDestroy, ClientTakesFocus
    <3>5. ASSUME Hints PROVE FALSE
      BY <3>5 DEF Hints, updatewmhints, Interactive
    <3>6. ScanEnd
      BY <3>1, <3>2, <3>3, <3>4, <3>5 DEF Lifecycle, ScanWindow, Restart, Crash, Startup
    <3> QED
      BY <3>6 DEF ScanEnd, pvars
  <2> DEFINE idx == [c \in Window |-> props[c].idx]
  <2>2. /\ Good(d) /\ PersistedOK /\ \A m \in Mon : Ascending(d.clients[m], idx)
        /\ \A c \in Managed(d) : Stored(d, c) => IsBack(d, c)
    BY DEF DesktopInv, ScanInv
  <2>3. idx \in [Window -> Nat] /\ \A c \in Window : idx[c] = props[c].idx
    BY <2>2 DEF PersistedOK, Props
  <2> HIDE DEF idx
  <2>4. ASSUME NEW b \in Managed(d), Stored(d, b), NEW c \in Managed(d), Stored(d, c)
        PROVE  /\ d.cl[c].mon = props[c].mon
               /\ d.cl[c].tags = props[c].tags
               /\ d.cl[c].isfloating = props[c].isfloating
               /\ props[b].mon = props[c].mon /\ props[b].idx < props[c].idx =>
                     PositionOf(d.clients[props[c].mon], b)
                         < PositionOf(d.clients[props[c].mon], c)
    <3>1. IsBack(d, b) /\ IsBack(d, c)
      BY <2>2, <2>4
    <3>2. /\ d.cl[b].mon \in Mon /\ b \in Members(d.clients[d.cl[b].mon])
          /\ d.cl[c].mon \in Mon /\ c \in Members(d.clients[d.cl[c].mon])
          /\ d.clients[d.cl[c].mon] \in Seq(Window) /\ b \in Window /\ c \in Window
      BY <2>2, GoodIs DEF Managed
    <3>3. ASSUME props[b].mon = props[c].mon, props[b].idx < props[c].idx
          PROVE  PositionOf(d.clients[props[c].mon], b) < PositionOf(d.clients[props[c].mon], c)
      BY <2>2, <2>3, <3>1, <3>2, <3>3, AscendingOrder DEF IsBack
    <3> QED
      BY <3>1, <3>3 DEF IsBack
  <2>5. Managed(d') = Managed(d) /\ Mons(d') = Mons(d)
    BY <2>1
  <2> QED
    BY <2>1, <2>4, <2>5 DEF Stored, Restored
<1> HIDE DEF RestoredInv
<1> QED
  BY <1>1, <1>2, <1>3, DesktopHolds, PTL DEF Spec, RestartRestores
=============================================================================
