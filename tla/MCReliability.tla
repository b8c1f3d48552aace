--------------------------- MODULE MCReliability ---------------------------
(***************************************************************************)
(* Reliability on small instances.                                         *)
(***************************************************************************)
EXTENDS Reliability, TLC

\* Writer profiles of the runs.
KeepLast2 ==
  [reliable |-> TRUE, transient_local |-> FALSE, keep_all |-> FALSE, cap |-> 2, lifespan |-> 0]
KeepLast2Transient == [KeepLast2 EXCEPT !.transient_local = TRUE, !.lifespan = 1]
KeepLast1 == [KeepLast2 EXCEPT !.cap = 1]
KeepAll2 == [KeepLast2 EXCEPT !.keep_all = TRUE]
BestEffortWriter == [KeepLast2 EXCEPT !.reliable = FALSE]

\* The writing threads are interchangeable.
ThreadSymmetry == Permutations(Threads)

OneProfile == {KeepLast2}
LiveProfiles == {KeepLast2, KeepLast1, KeepAll2}
AllProfiles == {KeepLast2Transient, KeepAll2, BestEffortWriter}
=============================================================================
