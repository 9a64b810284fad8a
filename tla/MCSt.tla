------------------------------- MODULE MCSt -------------------------------
(* TLC instances of the parts of st: one of them moves in each behaviour.  *)
EXTENDS StScreen, StSelection

CONSTANTS Cols, CellRows, MaxTyped, MaxEdited, CellUses,
          Alphabets, MaxSent, BUFSIZ, ESC_BUF_SIZ,
          RowTexts, Grid, InFont, Fallback, Selections, MaxDraws, DrawUses

VARIABLES part, m, typed, where, cuses, alphabet, sent, buf, p,
          term, win, dc, xsrv, idle, draws, duses

cellVars   == <<m, typed, where, cuses>>
parserVars == <<alphabet, sent, buf, p>>
drawVars   == <<term, win, dc, xsrv, idle, draws, duses>>

Cells  == INSTANCE StCells
Parser == INSTANCE StParser
Drawing == INSTANCE StDraw

ASSUME MCStAssumption ==
    /\ ScreenAssumption /\ Lines!LinesAssumption
    /\ Cells!CellsAssumption /\ Parser!ParserAssumption /\ Drawing!DrawAssumption

MCSelUses == {{"select", "take", "copy", "paste"}, {"paste", "incr", "bracket", "copy"},
              {"paste", "bracket", "take"}}

MCScreenUses == {{"region", "scroll"}, {"reverse", "region", "select"}, {"index", "origin", "insert", "delete"},
                 {"index", "reverse"}, {"index", "alt", "reset"}, {"write", "resize"},
                 {"write", "index", "view"}}

MCCellUses == {{"type", "blank"}, {"type"}, {"wide", "move", "delete"}, {"wide", "move", "insert"},
               {"wide", "move", "erase"}, {"wide", "tab", "modes"}}

MCAlphabets == {{"ESC", "[", "1", "m", "h", "CAN", "x"}, {"ESC", "]", "\\", "BEL", "C2", "9C", "x"},
                {"ESC", "%", "@", "G", "C3", "9D"}, {"E2", "9C", "x", "ESC", "(", "0"}}

G(u, mode) == [u |-> u, mode |-> mode, fg |-> "fg", bg |-> "bg"]

MCRowTexts == {<<G("a", {}), G("m", {}), G("n", {})>>,
               <<G("a", {}), G("w", {"wide"}), G("", {"dummy"})>>,
               <<G("w", {"wide"}), G("", {"dummy"}), G("a", {"bold"})>>,
               <<G("b", {"reverse"}), G("a", {"blink"}), G("a", {})>>}

MCGrid     == << <<<<2, 2>>, <<1, 1>>>>, <<<<3, 2>>, <<2, 1>>>> >>
MCInFont   == {"a", "b", " ", "p"}
MCFallback == [r \in {"m", "n", "w"} |-> IF r = "w" THEN {} ELSE {"m", "n"}]

MCSelections == {{}, {<<1, 1>>, <<2, 1>>}, {<<2, 1>>, <<3, 1>>, <<1, 2>>}, {<<1, 2>>}}

MCDrawUses == {{"write", "move", "wide", "select"}, {"write", "mode", "focus", "move"},
               {"write", "wide", "move", "cover", "mode"}, {"write", "blink", "view"},
               {"write", "wide", "resize", "zoom", "move"}, {"write", "colour", "view", "focus"}}

(* What the parts that do not move have. *)
First(S) == CHOOSE x \in S : TRUE

MCParts == {"screen", "cells", "parser", "selection", "drawing"}

NoDrawing ==
    /\ term = "off" /\ win = "off" /\ dc = "off" /\ xsrv = "off"
    /\ idle = TRUE /\ draws = 0 /\ duses = {}

MCInit ==
    /\ part \in MCParts
    /\ ScreenInit /\ (part # "screen" => uses = First(Uses) /\ t.row = 1)
    /\ Cells!Init /\ (part # "cells" => cuses = First(CellUses))
    /\ Parser!Init /\ (part # "parser" => alphabet = First(Alphabets))
    /\ \/ part = "drawing" /\ Drawing!Init
       \/ part # "drawing" /\ NoDrawing
    /\ Init /\ (part # "selection" => suses = First(SelUses))

MCNext ==
    /\ UNCHANGED part
    /\ \/ part = "screen"    /\ ScreenNext /\ UNCHANGED <<cellVars, parserVars, svars, drawVars>>
       \/ part = "cells"     /\ Cells!Next  /\ UNCHANGED <<screenVars, parserVars, svars, drawVars>>
       \/ part = "parser"    /\ Parser!Next /\ UNCHANGED <<screenVars, cellVars, svars, drawVars>>
       \/ part = "selection" /\ Next        /\ UNCHANGED <<screenVars, cellVars, parserVars, drawVars>>
       \/ part = "drawing"   /\ Drawing!Next /\ UNCHANGED <<screenVars, cellVars, parserVars, svars>>

MCSpec == MCInit /\ [][MCNext]_<<part, screenVars, cellVars, parserVars, drawVars, svars>>

(* The properties of the parts, each where its part moves. *)
StTypesOK    == /\ part = "screen" => TypeOK /\ LinesExist
                /\ part = "cells" => Cells!CellsTypeOK /\ Cells!CopyNotCut
SelectedIsTyped  == part = "cells" => Cells!CopyIsTyped /\ Cells!WordIsTyped
ParserSound      == part = "parser" => Parser!CutsDoNotMatter /\ Parser!TerminatorResyncs
DrawingSound     == part = "drawing" => Drawing!WindowIsFresh /\ Drawing!FontsFoundOnce
=============================================================================
