---------------------------- MODULE MCDiscovery ----------------------------
(***************************************************************************)
(* Discovery between two processes with one fault: a crash, with or without *)
(* a restart on the same port, or a peer that times out though it is alive. *)
(***************************************************************************)
EXTENDS Discovery
=============================================================================
