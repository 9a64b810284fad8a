------------------------------- MODULE StTty -------------------------------
(***************************************************************************)
(* st between the X server and the program on the pseudoterminal: the loop *)
(* run of st/x.c with its wait for a good moment to draw, and ttyread,     *)
(* ttywrite and ttywriteraw of st/st.c, which call each other: st reads    *)
(* while it waits to write, and writes while it reads, when the program    *)
(* asks for a report.                                                      *)
(*                                                                         *)
(* The pseudoterminal and the program are external: a queue each way,      *)
(* `select` that reports a queue as writable that has room for LIM bytes,   *)
(* or only for one ("tight"), and `write` that waits until all is accepted *)
(* (a signal could cut it short; no handler of st runs while it lives).     *)
(***************************************************************************)
EXTENDS Integers, SequencesExt

CONSTANTS InCap, OutCap,  (* bytes that the queues hold                     *)
          LIM,            (* bytes of one write, 256 in the code            *)
          MaxPaste,       (* bound: bytes of one key or paste               *)
          MaxKeys, MaxOut,(* bounds: bytes typed, numbered bytes written    *)
          MAXLATENCY,     (* ticks after which content is drawn             *)
          TtyUses         (* sets of behaviours; each run picks one         *)

TtyBehaviours == {"type", "text", "flood", "query", "clog", "tight", "echo", "hide"}

ASSUME TtyAssumption ==
    /\ InCap \in Nat \ {0} /\ OutCap \in Nat \ {0} /\ LIM \in Nat \ {0} /\ MaxPaste \in Nat \ {0}
    /\ MaxKeys \in Nat /\ MaxOut \in Nat /\ MAXLATENCY \in Nat
    /\ TtyUses \subseteq SUBSET TtyBehaviours

VARIABLES
    st,        (* st: see Init                                              *)
    inq, outq, (* bytes on their way to the program and from it             *)
    xq,        (* events of the X server that st has not taken              *)
    keys,      (* number of bytes typed                                     *)
    outs,      (* number of numbered bytes that the program has written     *)
    got,       (* what the program has read                                 *)
    screen,    (* what twrite has processed of it                           *)
    echoing,   (* bytes that an echoing program still has to write          *)
    tuses

ttyvars == <<st, inq, outq, xq, keys, outs, got, screen, echoing, tuses>>

(* Bytes: the n-th typed, the n-th of the program's text, and              *)
Key(n)  == <<"key", n>>
Text(n) == <<"text", n>>
Flood   == <<"flood", 0>>    (* text of a program that writes on and on      *)
Query(n) == <<"query", n>>   (* DSR, a request for a report                  *)
Reply   == <<"reply", 0>>

(* A program that asks for reports finds room for them in its queue, unless *)
(* it never reads and clogs the line. *)
Capacity == IF "query" \in tuses /\ "clog" \notin tuses THEN MaxKeys + MaxOut + LIM ELSE InCap
Room     == Len(inq) < Capacity
Writable == Len(inq) + (IF "tight" \in tuses THEN 1 ELSE LIM) <= Capacity

Top      == Last(st.stack)
Pop      == Front(st.stack)
Lesser(a, b) == IF a < b THEN a ELSE b

-----------------------------------------------------------------------------
(* Calls: a stack of ttywriteraw and of the twrite of ttyread.             *)

WriteRaw(s) == [call |-> "ttywriteraw", rest |-> s, lim |-> LIM, at |-> "select", left |-> 0, reads |-> 0,
                n |-> 0, len |-> 0]
Twrite(len) == [call |-> "twrite", rest |-> <<>>, lim |-> 0, at |-> "", left |-> 0, reads |-> 0,
                n |-> 1, len |-> len]

(* ttyread: the bytes come after those in the buffer, and twrite gets the  *)
(* whole buffer. *)
Ttyread(stack) ==
    /\ outq # <<>>
    /\ st' = [st EXCEPT !.buf = @ \o outq, !.stack = Append(stack, Twrite(Len(st.buf) + Len(outq)))]
    /\ outq' = <<>>

(* Mutant: st does not read while it waits to write. *)
WriteSelect_WritesOnly ==
    /\ st.stack # <<>> /\ Top.call = "ttywriteraw" /\ Top.at = "select"
    /\ Writable
    /\ st' = [st EXCEPT !.stack = Append(Pop,
                  [Top EXCEPT !.at = "write", !.left = Lesser(Len(Top.rest), Top.lim)])]
    /\ UNCHANGED <<inq, outq, xq, keys, outs, got, screen, echoing, tuses>>

(* pselect of ttywriteraw: it waits for one of the two. *)
WriteSelect ==
    /\ st.stack # <<>> /\ Top.call = "ttywriteraw" /\ Top.at = "select"
    /\ \/ /\ Writable
          /\ st' = [st EXCEPT !.stack = Append(Pop,
                        [Top EXCEPT !.at = "write", !.left = Lesser(Len(Top.rest), Top.lim),
                                    !.reads = IF outq # <<>> THEN 1 ELSE 0])]
          /\ UNCHANGED outq
       \/ /\ ~Writable
          /\ Ttyread(Append(Pop, [Top EXCEPT !.lim = Len(outq)]))
    /\ UNCHANGED <<inq, xq, keys, outs, got, screen, echoing, tuses>>

(* After write(2): done, or read what there was to read. *)
AfterWrite(f) ==
    IF f.rest = <<>> THEN Pop
    ELSE Append(Pop, [f EXCEPT !.at = IF f.reads = 0 THEN "select" ELSE "read"])

(* A byte is accepted. *)
WriteByte ==
    /\ st.stack # <<>> /\ Top.call = "ttywriteraw" /\ Top.at = "write"
    /\ Room
    /\ inq' = Append(inq, Head(Top.rest))
    /\ LET f == [Top EXCEPT !.rest = Tail(@), !.left = @ - 1]
       IN  st' = [st EXCEPT !.stack = IF f.left > 0 THEN Append(Pop, f) ELSE AfterWrite(f)]
    /\ UNCHANGED <<outq, xq, keys, outs, got, screen, echoing, tuses>>

(* ttyread from ttywriteraw waits if there is nothing to read. *)
WriteReads ==
    /\ st.stack # <<>> /\ Top.call = "ttywriteraw" /\ Top.at = "read"
    /\ Ttyread(Append(Pop, [Top EXCEPT !.lim = Len(outq), !.reads = 0,
                                       !.at = "select"]))
    /\ UNCHANGED <<inq, xq, keys, outs, got, screen, echoing, tuses>>

(* twrite takes a byte; a query is answered at once. *)
TwriteByte ==
    /\ st.stack # <<>> /\ Top.call = "twrite" /\ Top.n <= Top.len
    /\ LET b == st.buf[Top.n]
           s == [st EXCEPT !.stack = Append(Pop, [Top EXCEPT !.n = @ + 1]), !.dirty = TRUE]
       IN  /\ st' = IF b[1] = "query" THEN [s EXCEPT !.stack = Append(@, WriteRaw(<<Reply>>))] ELSE s
           /\ screen' = IF b = Flood THEN screen ELSE Append(screen, b)
    /\ UNCHANGED <<inq, outq, xq, keys, outs, got, echoing, tuses>>

(* Mutant: the bytes that were processed stay in the buffer. *)
TtyreadEnd_Keeps ==
    /\ st.stack # <<>> /\ Top.call = "twrite" /\ Top.n > Top.len
    /\ st' = [st EXCEPT !.stack = Pop]
    /\ UNCHANGED <<inq, outq, xq, keys, outs, got, screen, echoing, tuses>>

(* The rest of ttyread. With a buflen below 0 st writes in front of its    *)
(* buffer. *)
TtyreadEnd ==
    /\ st.stack # <<>> /\ Top.call = "twrite" /\ Top.n > Top.len
    /\ st' = IF Len(st.buf) < Top.len THEN [st EXCEPT !.fault = TRUE, !.stack = <<>>, !.buf = <<>>]
             ELSE [st EXCEPT !.stack = Pop, !.buf = SubSeq(@, Top.len + 1, Len(@))]
    /\ UNCHANGED <<inq, outq, xq, keys, outs, got, screen, echoing, tuses>>

-----------------------------------------------------------------------------
(* run.                                                                    *)

Idle(pc) == st.stack = <<>> /\ st.pc = pc

(* pselect, and ttyread if there is output. *)
Select ==
    /\ Idle("select")
    /\ outq # <<>> \/ xq # <<>> \/ st.timeout
    /\ IF outq # <<>>
       THEN /\ st' = [st EXCEPT !.pc = "events", !.content = TRUE,
                                !.buf = @ \o outq, !.stack = <<Twrite(Len(st.buf) + Len(outq))>>]
            /\ outq' = <<>>
       ELSE /\ st' = [st EXCEPT !.pc = "events", !.content = FALSE]
            /\ UNCHANGED outq
    /\ UNCHANGED <<inq, xq, keys, outs, got, screen, echoing, tuses>>

(* The events that are pending, one after the other. *)
Event ==
    /\ Idle("events")
    /\ IF xq = <<>>
       THEN st' = [st EXCEPT !.pc = "decide"] /\ UNCHANGED xq
       ELSE /\ xq' = Tail(xq)
            /\ st' = IF Head(xq).type = "key"
                     THEN [st EXCEPT !.content = TRUE, !.stack = <<WriteRaw(Head(xq).bytes)>>]
                     ELSE [st EXCEPT !.content = TRUE, !.visible = (Head(xq).type = "visible")]
    /\ UNCHANGED <<inq, outq, keys, outs, got, screen, echoing, tuses>>

(* Mutant: every piece of content starts the wait anew. *)
Decide_Restarts ==
    /\ Idle("decide")
    /\ LET elapsed == 0
           wait    == st.content /\ elapsed < MAXLATENCY
       IN  st' = [st EXCEPT !.pc = "select", !.timeout = wait, !.drawing = wait,
                            !.elapsed = IF wait THEN elapsed ELSE 0,
                            !.dirty = IF wait THEN @ ELSE @ /\ ~st.visible]
    /\ UNCHANGED <<inq, outq, xq, keys, outs, got, screen, echoing, tuses>>

(* After new content st waits for more, for less and less time; when none  *)
(* comes or the time is over it draws. *)
Decide ==
    /\ Idle("decide")
    /\ LET elapsed == IF st.drawing THEN st.elapsed ELSE 0
           wait    == st.content /\ elapsed < MAXLATENCY
       IN  st' = [st EXCEPT !.pc = "select", !.timeout = wait, !.drawing = wait,
                            !.elapsed = IF wait THEN elapsed ELSE 0,
                            !.dirty = IF wait THEN @ ELSE @ /\ ~st.visible]
    /\ UNCHANGED <<inq, outq, xq, keys, outs, got, screen, echoing, tuses>>

-----------------------------------------------------------------------------
(* The clock, the user, the program.                                       *)

Tick ==
    /\ st.drawing /\ st.elapsed < MAXLATENCY
    /\ st' = [st EXCEPT !.elapsed = @ + 1]
    /\ UNCHANGED <<inq, outq, xq, keys, outs, got, screen, echoing, tuses>>

Type ==
    /\ "type" \in tuses /\ xq = <<>>
    /\ \E n \in 1..MaxPaste :
          /\ keys + n <= MaxKeys
          /\ keys' = keys + n
          /\ xq' = <<[type |-> "key", bytes |-> [k \in 1..n |-> Key(keys + k)]]>>
    /\ UNCHANGED <<st, inq, outq, outs, got, screen, echoing, tuses>>

Visibility ==
    /\ "hide" \in tuses /\ xq = <<>>
    /\ xq' = <<[type |-> IF st.visible THEN "obscured" ELSE "visible", bytes |-> <<>>]>>
    /\ UNCHANGED <<st, inq, outq, keys, outs, got, screen, echoing, tuses>>

(* The program reads whatever it is doing, or, if it echoes, when it has   *)
(* written what it has read before. *)
ProgramReads ==
    /\ inq # <<>> /\ echoing = 0
    /\ inq' = Tail(inq)
    /\ got' = Append(got, Head(inq))
    /\ echoing' = IF "echo" \in tuses THEN 1 ELSE 0
    /\ UNCHANGED <<st, outq, xq, keys, outs, screen, tuses>>

ProgramWrites ==
    /\ Len(outq) < OutCap
    /\ \/ /\ "text" \in tuses /\ outs < MaxOut
          /\ outs' = outs + 1 /\ outq' = Append(outq, Text(outs + 1)) /\ UNCHANGED echoing
       \/ /\ "query" \in tuses /\ outs < MaxOut
          /\ outs' = outs + 1 /\ outq' = Append(outq, Query(outs + 1)) /\ UNCHANGED echoing
       \/ /\ "flood" \in tuses
          /\ outq' = Append(outq, Flood) /\ UNCHANGED <<outs, echoing>>
       \/ /\ echoing = 1
          /\ outq' = Append(outq, Flood) /\ echoing' = 0 /\ UNCHANGED outs
    /\ UNCHANGED <<st, inq, xq, keys, got, screen, tuses>>

Init ==
    /\ st = [stack |-> <<>>, pc |-> "select", buf |-> <<>>, timeout |-> FALSE, drawing |-> FALSE,
             elapsed |-> 0, content |-> FALSE, visible |-> TRUE, dirty |-> FALSE, fault |-> FALSE]
    /\ inq = <<>> /\ outq = <<>> /\ xq = <<>> /\ got = <<>> /\ screen = <<>>
    /\ keys = 0 /\ outs = 0 /\ echoing = 0
    /\ tuses \in TtyUses

St == /\ ~st.fault
      /\ \/ WriteSelect \/ WriteByte \/ WriteReads \/ TwriteByte \/ TtyreadEnd
         \/ Select \/ Event \/ Decide

Next == St \/ Tick \/ Type \/ Visibility \/ ProgramReads \/ ProgramWrites

(* st runs, time goes by, and the program reads. *)
Spec == Init /\ [][Next]_ttyvars /\ WF_ttyvars(St) /\ WF_ttyvars(Tick)
             /\ WF_ttyvars(ProgramReads) /\ WF_ttyvars(echoing = 1 /\ ProgramWrites)

-----------------------------------------------------------------------------
(* Of the first i bytes of s those of the kinds; the bytes of the kinds are *)
(* those that were numbered, each once and in order. *)
Upto(s, i, kinds) == Cardinality({j \in 1..i : s[j][1] \in kinds})
Count(s, kinds)   == Upto(s, Len(s), kinds)
Counted(s, kinds) == \A i \in DOMAIN s : s[i][1] \in kinds => s[i][2] = Upto(s, i, kinds)
Arrived == Count(got, {"key"})

(* The program reads what was typed, in order and each byte once, although *)
(* replies come between and the line takes it piecemeal; "append read      *)
(* bytes to unprocessed bytes": st processes what the program writes once  *)
(* and in order, and answers a request once (ttyread, ttywriteraw).        *)
InOrder ==
    /\ Counted(got, {"key"})
    /\ Counted(screen, {"text", "query"})
    /\ Count(got, {"reply"}) <= Count(screen, {"query"})

(* All that is typed arrives at a program that reads ("Writing too much    *)
(* will clog the line. That's why we are doing this dance.").              *)
TypedArrives == \A n \in 1..MaxKeys : keys >= n ~> Arrived >= n

(* What the program writes is drawn while the window is visible, even if   *)
(* the program goes on writing (run, draw).                                *)
OutputDrawn == st.dirty ~> (~st.dirty \/ ~st.visible)
=============================================================================
