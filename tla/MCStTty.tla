------------------------------ MODULE MCStTty ------------------------------
(* TLC instance of StTty.                                                  *)
EXTENDS StTty

MCTtyUses == {{"query", "text", "type"}, {"text", "type", "hide"}, {"flood", "type", "hide"},
              {"echo", "type"}}
=============================================================================
