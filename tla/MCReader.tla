------------------------------ MODULE MCReader ------------------------------
(***************************************************************************)
(* Reader with one writer of finite lifespan, a window of three bits and    *)
(* five sequence numbers: enough to fill the window, to jump past it with    *)
(* bits set, to slide over runs of every length and to be gapped beyond it.  *)
(***************************************************************************)
EXTENDS Reader
=============================================================================
