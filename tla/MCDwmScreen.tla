---------------------------- MODULE MCDwmScreen ----------------------------
(* TLC instances of what dwm shows: the settings of a view, the places of   *)
(* windows, the bar and the status.  One of them moves in each behaviour.   *)
EXTENDS Pertag

CONSTANTS tiling, floats,
          NBlocks, Signals, MaxWidth, Delimiter,
          Win, Monitors, Width, Height, GeoNmaster, GeoGap, GeoUses,
          Tags, TagWidth, BarWidths, LtWidths, StatusWidths, MaxClients, BarUses

VARIABLES part, signal, output, name, stext, g, guses, bar, stw, shown, buses

statusVars   == <<signal, output, name, stext>>
geometryVars == <<g, guses>>
barVars      == <<bar, stw, shown, buses>>

MCDefaults == [nmaster |-> 1, mfact |-> 0, sellt |-> 0,
               lt |-> [i \in 0..1 |-> IF i = 0 THEN tiling ELSE floats],
               showbar |-> TRUE, gaps |-> 0]

(* A terminal's hints: base, minimum and increment. *)
MCHints  == {[basew |-> 1, minw |-> 3, incw |-> 2, maxw |-> 0, baseh |-> 0, minh |-> 2, inch |-> 0, maxh |-> 0]}
MCSizes  == {<<4, 3>>, <<9, 9>>}
MCPlaces == {<<7, 4>>}

(* That of config.h, one with a module in the centre and one beyond it. *)
MCAlignments == {<<"left", "right", "left", "right", "left">>, <<"left", "right", "left", "center", "left">>,
                 <<"center", "right", "right_right", "right_left", "left">>}

Status   == INSTANCE StatusClick
Geometry == INSTANCE DwmGeometry WITH MaxNmaster <- GeoNmaster, MaxGap <- GeoGap, Hints <- MCHints,
                                      Sizes <- MCSizes, Places <- MCPlaces
Bar      == INSTANCE DwmBar WITH Alignments <- MCAlignments

ASSUME MCScreenAssumption ==
    Status!StatusClickAssumption /\ Geometry!GeometryAssumption /\ Bar!BarAssumption

(* What the parts that do not move have. *)
First(S) == CHOOSE x \in S : TRUE

MCInit ==
    /\ part \in {"settings", "status", "geometry", "bar"}
    /\ Init
    /\ Status!Init   /\ (part # "status" => signal = [i \in 1..NBlocks |-> 0])
    /\ Geometry!Init /\ (part # "geometry" => guses = First(GeoUses))
    /\ Bar!Init      /\ (part # "bar" => /\ buses = First(BarUses) /\ bar.bw = First(BarWidths) /\ bar.num = 0
                                         /\ bar.ltw = First(LtWidths) /\ stw = First(StatusWidths)
                                         /\ bar.align = First(MCAlignments))

MCNext ==
    /\ UNCHANGED part
    /\ \/ part = "settings" /\ Next          /\ UNCHANGED <<statusVars, geometryVars, barVars>>
       \/ part = "status"   /\ Status!Next   /\ UNCHANGED <<vars, geometryVars, barVars>>
       \/ part = "geometry" /\ Geometry!Next /\ UNCHANGED <<vars, statusVars, barVars>>
       \/ part = "bar"      /\ Bar!Next      /\ UNCHANGED <<vars, statusVars, geometryVars>>

MCSpec == MCInit /\ [][MCNext]_<<part, vars, statusVars, geometryVars, barVars>>

(* The properties of the parts, each where its part moves. *)
ClickRunsItsBlock == part = "status" => Status!ClickRunsItsBlock
WindowsPlaced     == part = "geometry" => /\ Geometry!ServerAgrees
                                         /\ Geometry!TilesFill /\ Geometry!FullscreenCovers
ClickHitsDrawn    == part = "bar" => Bar!ClickHitsDrawn /\ Bar!ModulesDisjoint
=============================================================================
