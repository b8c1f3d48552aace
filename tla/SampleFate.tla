----------------------------- MODULE SampleFate -----------------------------
(***************************************************************************)
(* What a reader promises about the samples of its writers, whatever the    *)
(* network does: the fate of a sequence number is decided once.  A pending  *)
(* sample is received or skipped; a received sample is never received       *)
(* again, and a skipped one is never delivered later.  A sample is skipped  *)
(* only together with every pending sample below it.                        *)
(***************************************************************************)
EXTENDS Integers

CONSTANTS Writers, MaxSeq

VARIABLE fate

Seqs == 1 .. MaxSeq

Fates == {"pending", "received", "skipped"}

FateInit == fate = [w \in Writers |-> [s \in Seqs |-> "pending"]]

\* The fates of one writer's samples once the pending ones up to e are skipped.
SkippedUpTo(f, e) ==
  [s \in Seqs |-> IF s <= e /\ f[s] = "pending" THEN "skipped" ELSE f[s]]

\* One pending sample is received.
Receive(w, s) ==
  /\ fate[w][s] = "pending"
  /\ fate' = [fate EXCEPT ![w][s] = "received"]

\* One pending sample is received and the pending ones below it are given up.
ReceiveSkipping(w, s) ==
  /\ fate[w][s] = "pending"
  /\ fate' = [fate EXCEPT ![w] = [SkippedUpTo(fate[w], s) EXCEPT ![s] = "received"]]

\* The pending samples up to e are given up.
Skip(w, e) == fate' = [fate EXCEPT ![w] = SkippedUpTo(fate[w], e)]

FateNext ==
  \E w \in Writers, s \in Seqs :
    Receive(w, s) \/ ReceiveSkipping(w, s) \/ Skip(w, s)

FateSpec == FateInit /\ [][FateNext]_fate
=============================================================================
