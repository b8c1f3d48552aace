---------------------------- MODULE MCReassembly ----------------------------
(***************************************************************************)
(* Reassembly of one sample of seven bytes that is cut into pieces of two   *)
(* or three, fits a frame, or does not fit the channel at all, next to one  *)
(* of three bytes.                                                          *)
(***************************************************************************)
EXTENDS Reassembly, TLC

CONSTANTS big, small

Sizes == (big :> 7) @@ (small :> 3)
=============================================================================
