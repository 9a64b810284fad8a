---------------------------- MODULE MCDwmBlocks ----------------------------
(* TLC instances of DwmBlocks. *)
EXTENDS DwmBlocks

(* A periodic block, one that only its signal updates (the volume and the  *)
(* microphone of config.h).                                                *)
MCInterval2  == <<1, 0>>
MCSignalled2 == {2}
=============================================================================
