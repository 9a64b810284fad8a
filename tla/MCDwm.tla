------------------------------- MODULE MCDwm -------------------------------
(* TLC instances of Dwm. *)
EXTENDS Dwm

CONSTANTS w1, w2, w3

MCMasks1   == {{1}}
(* Mod-Tab and the keys of tag 2. *)
MCMasks2   == {{}, {2}}

MCNoParent == [w \in Window |-> NoWin]

(* w3 is transient for w1. *)
MCParent   == [w \in Window |-> IF w = w3 THEN w1 ELSE NoWin]

Symmetric  == Permutations(Window)
=============================================================================
