------------------------------ MODULE StParser ------------------------------
(***************************************************************************)
(* How st reads what the program in the terminal writes (st/st.c): ttyread *)
(* gets pieces of the byte stream, twrite takes characters out of them,    *)
(* and tputc sorts these into text, control codes and sequences.  What the *)
(* screen does with them is in StScreen and StCells; here it is the list   *)
(* `out`.  A byte is a name: ASCII by itself, lead bytes "C2", "C3" and    *)
(* "E2" of UTF-8 and the continuation bytes "9C" and "9D", which alone are *)
(* the control characters ST and OSC.                                      *)
(***************************************************************************)
EXTENDS Integers, SequencesExt

CONSTANTS Alphabets,   (* sets of bytes; the program writes those of one    *)
          MaxSent,     (* bound: bytes written                              *)
          BUFSIZ,      (* size of the buffer of ttyread                     *)
          ESC_BUF_SIZ  (* size of the buffer for one control sequence       *)

Digits   == {"0", "1", "2", "4"}
Finals   == {"[", "]", "\\", "@", "A", "G", "H", "b", "c", "h", "l", "m", "n", "x"}
Ascii    == Digits \cup Finals \cup {"ESC", "BEL", "CAN", "SUB", "LF", "SO", "(", "%", "#", "?", ";"}
Leads    == {"C2", "C3", "E2"}
Conts    == {"9C", "9D"}
Bytes    == Ascii \cup Leads \cup Conts

ParserAssumption ==
    /\ Alphabets \subseteq SUBSET Bytes /\ MaxSent \in Nat
    /\ BUFSIZ \in Nat /\ BUFSIZ >= 4 /\ ESC_BUF_SIZ \in Nat \ {0, 1}

VARIABLES
    alphabet,
    sent,      (* the bytes that st has read                                *)
    buf,       (* those of them that ttyread keeps                          *)
    p          (* term.esc, csiescseq, strescseq, the modes and the output  *)

pvars == <<alphabet, sent, buf, p>>

Invalid == <<"invalid">>

(* A character of several bytes is the sequence of them; in 8-bit mode     *)
(* each byte is a character.                                               *)
C1 == {<<"9C">>, <<"9D">>, <<"C2", "9C">>, <<"C2", "9D">>}
C0 == {<<"ESC">>, <<"BEL">>, <<"CAN">>, <<"SUB">>, <<"LF">>, <<"SO">>}
ISCONTROLC1(u) == u \in C1
ISCONTROL(u)   == u \in C0 \cup C1

-----------------------------------------------------------------------------
(* UTF-8.                                                                  *)

utflen(b) == IF b \in Conts THEN 0 ELSE IF b = "E2" THEN 3 ELSE IF b \in Leads THEN 2 ELSE 1

(* The character at the beginning of c and the bytes it takes, 0 when it   *)
(* is not complete. *)
utf8decode(c) ==
    LET len   == utflen(c[1])
        wrong == {k \in 2..Len(c) : k <= len /\ c[k] \notin Conts}
    IN  IF len = 0 THEN [u |-> Invalid, size |-> 1]
        ELSE IF wrong # {} THEN [u |-> Invalid, size |-> (CHOOSE k \in wrong : \A j \in wrong : k <= j) - 1]
        ELSE IF Len(c) < len THEN [u |-> Invalid, size |-> 0]
        ELSE [u |-> SubSeq(c, 1, len), size |-> len]

-----------------------------------------------------------------------------
(* The operations that sequences name.                                     *)

Out(s, e) == [s EXCEPT !.out = Append(@, e)]

MODBIT(s, set, mode) == [s EXCEPT !.modes = IF set THEN @ \cup {mode} ELSE @ \ {mode}]

Mouse == {"MOUSEX10", "MOUSEBTN", "MOUSEMOTION", "MOUSEMANY"}

(* The private modes that are a flag, those that are on when the flag is   *)
(* off, and the reports of the mouse, which exclude each other.            *)
Private == [n \in {1, 5, 7, 1004, 1006, 1034, 2004} |->
               CASE n = 1 -> "APPCURSOR" [] n = 5 -> "REVERSE" [] n = 7 -> "WRAP" [] n = 1004 -> "FOCUS"
                 [] n = 1006 -> "MOUSESGR" [] n = 1034 -> "8BIT" [] n = 2004 -> "BRCKTPASTE"]
Reports == [n \in {9, 1000, 1002, 1003} |->
               CASE n = 9 -> "MOUSEX10" [] n = 1000 -> "MOUSEBTN" [] n = 1002 -> "MOUSEMOTION"
                 [] n = 1003 -> "MOUSEMANY"]
Ansi == [n \in {2, 4, 20} |-> CASE n = 2 -> "KBDLOCK" [] n = 4 -> "INSERT" [] n = 20 -> "CRLF"]

SetOne(s, priv, set, n) ==
    IF priv
    THEN IF n \in DOMAIN Private THEN MODBIT(s, set, Private[n])
         ELSE IF n \in DOMAIN Reports
         THEN MODBIT([s EXCEPT !.modes = @ \ Mouse], set, Reports[n])
         ELSE IF n = 25 THEN MODBIT(s, ~set, "HIDE")
         ELSE IF n \in {6, 47, 1047, 1048, 1049} THEN Out(s, <<"mode", n, set>>)
         ELSE s
    ELSE IF n \in DOMAIN Ansi THEN MODBIT(s, set, Ansi[n])
    ELSE IF n = 12 THEN MODBIT(s, ~set, "ECHO")
    ELSE s

tsetmode(s, priv, set, args) == FoldLeft(LAMBDA acc, n : SetOne(acc, priv, set, n), s, args)

(* The attributes of characters: a set of flags and two colours.           *)
Flag == [n \in (1..5) \cup (7..9) |-> n]
Default == 0

(* The parameters of a colour after the i-th; where they end and, when     *)
(* they are right, the colour.                                             *)
tdefcolor(args, i) ==
    LET kind == IF i < Len(args) THEN args[i + 1] ELSE 0
        wide == IF kind = 2 THEN 4 ELSE IF kind = 5 THEN 2 ELSE 0
    IN  IF wide = 0 \/ i + wide > Len(args) THEN [next |-> i + 1, colour |-> <<>>]
        ELSE [next |-> i + wide + 1,
              colour |-> IF \A k \in (i + 2)..(i + wide) : args[k] \in 0..255
                         THEN SubSeq(args, i + 1, i + wide) ELSE <<>>]

Coloured(at, which, colour) == IF colour = <<>> THEN at ELSE [at EXCEPT ![which] = colour]

SetAttr(at, n) ==
    CASE n = 0 -> [flags |-> {}, fg |-> <<>>, bg |-> <<>>]
      [] n \in DOMAIN Flag -> [at EXCEPT !.flags = @ \cup {n}]
      [] n = 6 -> [at EXCEPT !.flags = @ \cup {5}]
      [] n = 22 -> [at EXCEPT !.flags = @ \ {1, 2}]
      [] n \in {23, 24, 25, 27, 28, 29} -> [at EXCEPT !.flags = @ \ {n - 20}]
      [] n = 39 -> [at EXCEPT !.fg = <<>>]
      [] n = 49 -> [at EXCEPT !.bg = <<>>]
      [] n \in 30..37 -> [at EXCEPT !.fg = <<n - 30>>]
      [] n \in 40..47 -> [at EXCEPT !.bg = <<n - 40>>]
      [] n \in 90..97 -> [at EXCEPT !.fg = <<n - 82>>]
      [] n \in 100..107 -> [at EXCEPT !.bg = <<n - 92>>]
      [] OTHER -> at

(* 58, the colour of underlines, only has its parameters skipped. *)
tsetattr(at, args) ==
    LET take(acc, i) ==
            LET col == tdefcolor(args, i)
            IN  IF i < acc.next THEN acc
                ELSE IF args[i] \notin {38, 48, 58} THEN [next |-> i + 1, at |-> SetAttr(acc.at, args[i])]
                ELSE [next |-> col.next,
                      at |-> IF args[i] = 58 THEN acc.at
                             ELSE Coloured(acc.at, IF args[i] = 38 THEN "fg" ELSE "bg", col.colour)]
    IN  FoldLeft(take, [next |-> 1, at |-> at], [i \in 1..Len(args) |-> i]).at

-----------------------------------------------------------------------------
(* Control sequences.                                                      *)

csireset(s) == [s EXCEPT !.csi = <<>>]

Value == [d \in Digits |-> CASE d = "0" -> 0 [] d = "1" -> 1 [] d = "2" -> 2 [] d = "4" -> 4]

(* csiparse: a private mark, numbers between semicolons (none counts as    *)
(* 0), and the character that ends them.                                   *)
csiparse(csi) ==
    LET priv == csi[1] = "?"
        body == IF priv THEN Tail(csi) ELSE csi
        num  == [open |-> TRUE, args |-> <<0>>, mode |-> "end"]
        take(acc, c) ==
            IF ~acc.open THEN acc
            ELSE IF c \in Digits
            THEN [acc EXCEPT !.args[Len(acc.args)] = 10 * @ + Value[c]]
            ELSE IF c = ";" THEN [acc EXCEPT !.args = Append(@, 0)]
            ELSE [acc EXCEPT !.open = FALSE, !.mode = c]
        all  == FoldLeft(take, num, body)
    IN  [priv |-> priv, args |-> all.args, mode |-> all.mode]

DEFAULT(args, n, b) == IF n > Len(args) \/ args[n] = 0 THEN b ELSE args[n]

Repeat(s, n) == [s EXCEPT !.out = @ \o [k \in 1..n |-> <<"put", s.lastc>>]]

(* The final characters whose operation has one number, 1 if none is given *)
(* (ICH, CUU, CHA and those like them), and two (CUP). *)
csihandle(s) ==
    LET c == csiparse(s.csi)
        n == IF c.args[1] < 1 THEN 1 ELSE c.args[1]
    IN  CASE c.mode \in {"@", "A", "G"} -> Out(s, <<c.mode, DEFAULT(c.args, 1, 1)>>)
          [] c.mode = "H" -> Out(s, <<"H", DEFAULT(c.args, 1, 1), DEFAULT(c.args, 2, 1)>>)
          [] c.mode = "b" /\ s.lastc # <<>> -> Repeat(s, n)
          [] c.mode = "h" -> tsetmode(s, c.priv, TRUE, c.args)
          [] c.mode = "l" -> tsetmode(s, c.priv, FALSE, c.args)
          [] c.mode = "m" -> [s EXCEPT !.attr = tsetattr(@, c.args)]
          [] c.mode = "c" /\ c.args[1] = 0 -> Out(s, <<"reply">>)
          [] c.mode = "n" /\ c.args[1] \in {5, 6} -> Out(s, <<"reply">>)
          [] OTHER -> s

-----------------------------------------------------------------------------
(* Strings: OSC and its like.                                              *)

tstrsequence(s, type) == [s EXCEPT !.esc = @ \cup {"STR"}, !.str = <<>>, !.strtype = type]

strparse(text) ==
    LET take(acc, c) == IF c = <<";">> THEN Append(acc, <<>>) ELSE [acc EXCEPT ![Len(acc)] = Append(@, c)]
    IN  IF text = <<>> THEN <<>> ELSE FoldLeft(take, <<<<>>>>, text)

(* Strings set titles, colours and the selection; here they are what they  *)
(* say. *)
strhandle(s) ==
    Out([s EXCEPT !.esc = @ \ {"STR_END", "STR"}], <<"string", s.strtype, strparse(s.str)>>)

-----------------------------------------------------------------------------
(* Characters.                                                             *)

(* The modes that treset and RIS set or clear. *)
treset(s) ==
    Out([s EXCEPT !.modes = (@ \ {"INSERT", "CRLF", "ECHO", "HIDE", "BRCKTPASTE"}) \cup {"WRAP", "UTF8"},
                  !.trantbl = [k \in 0..3 |-> "USA"], !.charset = 0,
                  !.attr = [flags |-> {}, fg |-> <<>>, bg |-> <<>>]],
        <<"reset">>)

(* "only CAN, SUB, \a and C1 chars interrupt a sequence" *)
Interrupted(s) == [s EXCEPT !.esc = @ \ {"STR_END", "STR"}]

tcontrolcode(s, u) ==
    CASE u = <<"LF">>  -> Out(s, <<"newline">>)
      [] u = <<"SO">>  -> [s EXCEPT !.charset = 1]
      [] u = <<"BEL">> -> Interrupted(IF "STR_END" \in s.esc THEN strhandle(s) ELSE Out(s, <<"bell">>))
      [] u = <<"ESC">> -> [csireset(s) EXCEPT !.esc = (@ \ {"CSI", "ALTCHARSET", "TEST"}) \cup {"START"}]
      [] u = <<"SUB">> -> Interrupted(csireset(Out(s, <<"substitute">>)))
      [] u = <<"CAN">> -> Interrupted(csireset(s))
      [] u = <<"9D">>  -> tstrsequence(s, "]")
      [] OTHER         -> Interrupted(s)

(* What begins more than one character after ESC, and whether it does. *)
Begins == [c \in {"[", "#", "%", "("} |->
              CASE c = "[" -> "CSI" [] c = "#" -> "TEST" [] c = "%" -> "UTF8" [] c = "(" -> "ALTCHARSET"]

eschandle(s, u) ==
    LET done(r) == [r EXCEPT !.esc = {}]
    IN  CASE u[1] \in DOMAIN Begins ->
                 LET r == [s EXCEPT !.esc = @ \cup {Begins[u[1]]}]
                 IN  IF u[1] = "(" THEN [r EXCEPT !.icharset = 0] ELSE r
          [] u = <<"]">>  -> tstrsequence(s, "]")
          [] u = <<"n">>  -> done([s EXCEPT !.charset = 2])
          [] u = <<"H">>  -> done(Out(s, <<"tabstop">>))
          [] u = <<"c">>  -> done(treset(s))
          [] u = <<"\\">> -> done(IF "STR_END" \in s.esc THEN strhandle(s) ELSE s)
          [] OTHER        -> done(s)

tdefutf8(s, u) == IF u = <<"G">> THEN MODBIT(s, TRUE, "UTF8")
                  ELSE IF u = <<"@">> THEN MODBIT(s, FALSE, "UTF8") ELSE s

tdeftran(s, u) == IF u = <<"0">> THEN [s EXCEPT !.trantbl[s.icharset] = "GRAPHIC0"] ELSE s

(* A character of a sequence that has begun. *)
InSequence(s, u) ==
    LET csi == Append(s.csi, u[1])
    IN  IF "CSI" \in s.esc
        THEN IF u[1] \in Finals \/ Len(csi) >= ESC_BUF_SIZ - 1
             THEN csihandle([s EXCEPT !.csi = csi, !.esc = {}])
             ELSE [s EXCEPT !.csi = csi]
        ELSE IF "UTF8" \in s.esc THEN [tdefutf8(s, u) EXCEPT !.esc = {}]
        ELSE IF "ALTCHARSET" \in s.esc THEN [tdeftran(s, u) EXCEPT !.esc = {}]
        ELSE IF "TEST" \in s.esc THEN [s EXCEPT !.esc = {}]
        ELSE eschandle(s, u)

EndsString(u) == u \in {<<"BEL">>, <<"CAN">>, <<"SUB">>, <<"ESC">>} \/ ISCONTROLC1(u)

(* In UTF-8 mode the control characters of C1 do nothing. *)
Handle(s, u) ==
    IF ISCONTROL(u)
    THEN IF "UTF8" \in s.modes /\ ISCONTROLC1(u) THEN s
         ELSE LET r == tcontrolcode(s, u) IN IF r.esc = {} THEN [r EXCEPT !.lastc = <<>>] ELSE r
    ELSE IF "START" \in s.esc THEN InSequence(s, u)
    ELSE [Out(s, <<"put", u>>) EXCEPT !.lastc = u]

tputc(s, u) ==
    IF "STR" \notin s.esc THEN Handle(s, u)
    ELSE IF EndsString(u) THEN Handle([s EXCEPT !.esc = (@ \ {"START", "STR"}) \cup {"STR_END"}], u)
    ELSE [s EXCEPT !.str = Append(@, u)]

-----------------------------------------------------------------------------
(* Pieces of the stream.                                                   *)

(* twrite: the characters of b one by one, each by the mode that the ones  *)
(* before have left; next is the first byte that is not used.              *)
twrite(s, b) ==
    LET take(acc, n) ==
            LET d == IF "UTF8" \in acc.s.modes THEN utf8decode(SubSeq(b, n, Len(b)))
                     ELSE [u |-> <<b[n]>>, size |-> 1]
            IN  IF n # acc.next \/ d.size = 0 THEN acc
                ELSE [s |-> tputc(acc.s, d.u), next |-> n + d.size]
    IN  FoldLeft(take, [s |-> s, next |-> 1], [n \in 1..Len(b) |-> n])

(* Mutant: what is left of one read is not there for the next. *)
ttyread_NoRest(chunk) ==
    LET b == buf \o chunk
        w == twrite(p, b)
    IN  /\ p' = w.s
        /\ buf' = <<>>

ttyread(chunk) ==
    LET b == buf \o chunk
        w == twrite(p, b)
    IN  /\ p' = w.s
        /\ buf' = SubSeq(b, w.next, Len(b))

NewParser ==
    [esc |-> {}, csi |-> <<>>, str |-> <<>>, strtype |-> "]", modes |-> {"WRAP", "UTF8"},
     trantbl |-> [k \in 0..3 |-> "USA"], charset |-> 0, icharset |-> 0, lastc |-> <<>>,
     attr |-> [flags |-> {}, fg |-> <<>>, bg |-> <<>>], out |-> <<>>]

Init ==
    /\ alphabet \in Alphabets
    /\ sent = <<>> /\ buf = <<>> /\ p = NewParser

(* The program has written some bytes; one read gets as many as have come. *)
Read ==
    \E n \in 1..(BUFSIZ - Len(buf)) :
        /\ Len(sent) + n <= MaxSent
        /\ \E chunk \in [1..n -> alphabet] :
               ttyread(chunk) /\ sent' = sent \o chunk
        /\ UNCHANGED alphabet

Next == Read

Spec == Init /\ [][Next]_pvars

-----------------------------------------------------------------------------
(* However the stream is cut into reads, st does what it would do with all *)
(* of it at once, and keeps only the beginning of a character (twrite,     *)
(* ttyread).                                                               *)
CutsDoNotMatter ==
    LET w == twrite(NewParser, sent)
    IN  p = w.s /\ buf = SubSeq(sent, w.next, Len(sent)) /\ Len(buf) < 3

(* Whatever came before, complete or not, after a string terminator ESC \  *)
(* the next letter is text (tputc, tcontrolcode, eschandle).               *)
TerminatorResyncs ==
    LET w == twrite(p, buf \o <<"ESC", "\\", "x">>)
    IN  w.s.esc = {} /\ Last(w.s.out) = <<"put", <<"x">>>>

(* "RIS -- Reset to initial state": after ESC c the modes, the charsets and *)
(* the attributes are those of a new terminal (eschandle, treset).         *)
ResetIsInitial ==
    (Len(sent) > 1 /\ Last(sent) = "c" /\ sent[Len(sent) - 1] = "ESC"
        /\ p.out # <<>> /\ Last(p.out) = <<"reset">>) =>
            /\ p.modes = NewParser.modes
            /\ p.trantbl = NewParser.trantbl /\ p.charset = 0 /\ p.attr = NewParser.attr
=============================================================================
