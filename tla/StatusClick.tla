---------------------------- MODULE StatusClick ----------------------------
(***************************************************************************)
(* A click on the status: dwmblocks puts the signal number of each block,  *)
(* as a control character, in front of the block's text                    *)
(* (dwmblocks-async/src/status.c); dwm looks which of these characters     *)
(* precede the clicked position in the text that it shows                  *)
(* (dwm/patch/bar_status.c) and queues the real-time signal of that number *)
(* to dwmblocks, which runs the blocks that have it.  A text is the        *)
(* sequence of its control characters, each with the width of the text     *)
(* before it, and its width.                                               *)
(***************************************************************************)
EXTENDS Integers, Sequences, SequencesExt

CONSTANTS NBlocks,     (* number of blocks                                 *)
          Signals,     (* the signal numbers that blocks may have          *)
          MaxWidth,    (* bound: the width of a block's icon and output    *)
          Delimiter    (* the width of DELIMITER                           *)

Block == 1..NBlocks

StatusClickAssumption ==
    /\ NBlocks \in Nat \ {0} /\ Signals \subseteq Nat \ {0}
    /\ MaxWidth \in Nat /\ Delimiter \in Nat

VARIABLES
    signal,   (* the signal of each block, 0 for none: config.h            *)
    output,   (* the width of each block's text, 0: the output is empty    *)
    name,     (* the name of the root window                               *)
    stext     (* dwm's copy of it                                          *)

vars == <<signal, output, name, stext>>

NoText == [ctl |-> <<>>, lefts |-> <<>>, width |-> 0]

(* lefts is not in the text: it tells where each block's own part begins.  *)
status_update(out) ==
    LET append(text, i) ==
            LET left == IF text.width = 0 THEN 0 ELSE text.width + Delimiter
                ctl  == IF signal[i] > 0 THEN <<[at |-> left, sig |-> signal[i]]>> ELSE <<>>
            IN  IF out[i] = 0 THEN text
                ELSE [ctl   |-> text.ctl \o ctl,
                      lefts |-> Append(text.lefts, [block |-> i, at |-> left]),
                      width |-> left + out[i]]
        text == FoldLeft(append, NoText, [i \in Block |-> i])
    IN  IF text = NoText THEN text ELSE [text EXCEPT !.width = @ + Delimiter]

(* Mutant: a character at the clicked position counts. *)
click_status_At(text, x) ==
    LET toggle(statussig, c) == IF c.at > x THEN statussig
                                ELSE IF statussig = c.sig THEN 0 ELSE c.sig
    IN  FoldLeft(toggle, 0, text.ctl)

(* The signal of a click x pixels from the left: each character before it  *)
(* replaces the one before, or ends it if it is the same.                  *)
click_status(text, x) ==
    LET toggle(statussig, c) == IF c.at >= x THEN statussig
                                ELSE IF statussig = c.sig THEN 0 ELSE c.sig
    IN  FoldLeft(toggle, 0, text.ctl)

(* The blocks that the signal runs. *)
sigstatusbar(statussig) ==
    IF statussig = 0 THEN {} ELSE {i \in Block : signal[i] = statussig}

(* dwmblocks-async/README.md: all blocks must have different signals. *)
Init ==
    /\ signal \in [Block -> Signals \cup {0}]
    /\ \A i, j \in Block : i # j /\ signal[i] # 0 => signal[i] # signal[j]
    /\ output = [i \in Block |-> 0]
    /\ name = NoText /\ stext = NoText

(* A block's command has ended; dwmblocks names the root window. *)
Update(i, w) ==
    /\ output' = [output EXCEPT ![i] = w]
    /\ name' = status_update(output')
    /\ UNCHANGED <<signal, stext>>

(* PropertyNotify of the root window: dwm reads the name that is there now *)
(* and draws it.                                                           *)
updatestatus ==
    /\ stext' = name
    /\ UNCHANGED <<signal, output, name>>

Next ==
    \/ \E i \in Block, w \in 0..MaxWidth : Update(i, w)
    \/ updatestatus

Spec == Init /\ [][Next]_vars

-----------------------------------------------------------------------------
(* The blocks that a click x pixels from the left runs. *)
Clicked(x) == sigstatusbar(click_status(stext, x))

(* The positions of the k-th block that is shown, with the delimiter after *)
(* it; the pixel at which it begins counts for the one before.             *)
Part(k) == (stext.lefts[k].at + 1)
             .. (IF k = Len(stext.lefts) THEN stext.width ELSE stext.lefts[k + 1].at)

(* A click on a block with a signal runs this block, and no other, even if *)
(* blocks have appeared, vanished or grown since dwm has drawn the text.   *)
ClickRunsItsBlock ==
    \A k \in DOMAIN stext.lefts :
        LET i == stext.lefts[k].block
        IN  signal[i] > 0 => \A x \in Part(k) : Clicked(x) = {i}

=============================================================================
