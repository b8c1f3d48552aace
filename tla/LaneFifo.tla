------------------------------ MODULE LaneFifo ------------------------------
(***************************************************************************)
(* What the lanes of a transport promise, each on its own: a FIFO that      *)
(* accepts frames until it is closed, delivers them in order, and ends when *)
(* it has delivered them all.  Only the caller of stop(false) waives that:  *)
(* then the lane may end early, and delivers nothing from there on.         *)
(***************************************************************************)
EXTENDS Integers, Sequences

CONSTANT Lanes

VARIABLES
  accepted,   \* accepted[l]: how many frames were accepted
  pending,    \* pending[l]: those not yet delivered, by their position
  delivered,  \* delivered[l]: those delivered, in this order
  phase,      \* phase[l]: "open", "closed" or "ended"
  waived      \* the lanes that need not deliver all

fifoVars == <<accepted, pending, delivered, phase, waived>>

FifoInit ==
  /\ accepted = [l \in Lanes |-> 0]
  /\ pending = [l \in Lanes |-> <<>>]
  /\ delivered = [l \in Lanes |-> <<>>]
  /\ phase = [l \in Lanes |-> "open"]
  /\ waived = {}

Accept(l) ==
  /\ phase[l] = "open"
  /\ accepted' = [accepted EXCEPT ![l] = @ + 1]
  /\ pending' = [pending EXCEPT ![l] = Append(@, accepted[l] + 1)]
  /\ UNCHANGED <<delivered, phase, waived>>

Deliver(l) ==
  /\ phase[l] # "ended" /\ pending[l] # <<>>
  /\ delivered' = [delivered EXCEPT ![l] = Append(@, Head(pending[l]))]
  /\ pending' = [pending EXCEPT ![l] = Tail(@)]
  /\ UNCHANGED <<accepted, phase, waived>>

\* A lane may be closed again, and its delivery waived later.
Close(l) ==
  /\ phase' = [phase EXCEPT ![l] = IF @ = "open" THEN "closed" ELSE @]
  /\ waived' \in {waived, waived \cup {l}}
  /\ UNCHANGED <<accepted, pending, delivered>>

End(l) ==
  /\ phase[l] = "closed"
  /\ pending[l] = <<>> \/ l \in waived
  /\ phase' = [phase EXCEPT ![l] = "ended"]
  /\ UNCHANGED <<accepted, pending, delivered, waived>>

\* What is left when the lane ends is given up.
GiveUp(l) ==
  /\ phase[l] = "ended" /\ pending[l] # <<>>
  /\ pending' = [pending EXCEPT ![l] = Tail(@)]
  /\ UNCHANGED <<accepted, delivered, phase, waived>>

FifoNext == \E l \in Lanes : Accept(l) \/ Deliver(l) \/ Close(l) \/ End(l) \/ GiveUp(l)

FifoSpec == FifoInit /\ [][FifoNext]_fifoVars
=============================================================================
