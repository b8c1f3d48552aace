----------------------------- MODULE MCSendLane -----------------------------
(***************************************************************************)
(* SendLane with two lanes and two threads.  A lane's limit is below the    *)
(* shared one, and both lanes together could hold more than the shared      *)
(* limit and the overrun it allows: each check can fail on its own, only    *)
(* the shared check keeps the budget, and the overrun is reached.           *)
(***************************************************************************)
EXTENDS SendLane
=============================================================================
