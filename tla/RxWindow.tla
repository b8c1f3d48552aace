------------------------------ MODULE RxWindow ------------------------------
(***************************************************************************)
(* The receive state a reader keeps for one writer: WriterRxState of       *)
(* participant.cpp, a contiguous baseline last_seq and a window of          *)
(* out-of-order receipts above it, and the pure part of the three           *)
(* operations on it: enqueue(), apply_gap() and nack_state().               *)
(*                                                                         *)
(* The 64-bit word `window' is the set of the positions of its 1-bits: bit  *)
(* b stands for sequence number last_seq + 1 + b.  Window is the width of   *)
(* that word (64 in the code).  `known' says that the map rx_ has an entry  *)
(* for the writer.                                                         *)
(***************************************************************************)
EXTENDS Integers, FiniteSets

CONSTANT Window

ASSUME WindowAssumption == Window \in Nat \ {0}

Bits == 0 .. (Window - 1)

\* WriterRxState, with the presence of the map entry.
RxState == [known : BOOLEAN, last_seq : Nat, window : SUBSET Bits]

NoRxState == [known |-> FALSE, last_seq |-> 0, window |-> {}]

\* window >> k.
ShiftRight(window, k) == {b \in Bits : b + k \in window}

\* The sequence number bit b of st's window stands for, and its inverse.
SeqOfBit(st, b) == st.last_seq + 1 + b

Offset(st, seq) == seq - st.last_seq - 1

\* The number of 1-bits below the first 0-bit: how far the while loop of
\* enqueue() slides.
LeadingOnes(window) ==
  CHOOSE n \in 0 .. Window :
    /\ n \notin window
    /\ \A b \in Bits : b < n => b \in window

-----------------------------------------------------------------------------
(* enqueue() *)

\* Mutation: the last position past the window is still tracked.
JumpsOneLate(st, seq) == seq > st.last_seq /\ Offset(st, seq) > Window

\* Too far ahead to be tracked: the hole is declared lost and the baseline
\* jumps to seq.
Jumps(st, seq) == seq > st.last_seq /\ Offset(st, seq) >= Window

\* Mutation: a contiguous arrival is taken for new without a look at its bit.
IsDuplicateButContiguous(st, seq) ==
  \/ seq <= st.last_seq
  \/ Offset(st, seq) > 0 /\ Offset(st, seq) \in st.window

\* The sample is a duplicate: at or below the baseline, or its bit is set.
IsDuplicate(st, seq) ==
  \/ seq <= st.last_seq
  \/ Offset(st, seq) \in st.window

\* Out of order but inside the window.
OpensHole(st, seq) == ~IsDuplicate(st, seq) /\ Offset(st, seq) \in 1 .. (Window - 1)

\* Contiguous arrival: consume the position and the 1-bits that follow it.
SlideOver(st) ==
  LET shifted == ShiftRight(st.window, 1)
      run     == LeadingOnes(shifted)
  IN  [known    |-> TRUE,
       last_seq |-> st.last_seq + 1 + run,
       window   |-> ShiftRight(shifted, run)]

\* Mutation: the jump leaves the old bits in the window.
AfterEnqueueKeepingBits(st, seq) ==
  CASE seq <= st.last_seq -> [st EXCEPT !.known = TRUE]
    [] Jumps(st, seq) -> [st EXCEPT !.known = TRUE, !.last_seq = seq]
    [] seq = st.last_seq + 1 -> SlideOver(st)
    [] OTHER -> [st EXCEPT !.known = TRUE, !.window = @ \cup {Offset(st, seq)}]

\* The receive state after enqueue(seq), whether or not it is queued.
AfterEnqueue(st, seq) ==
  CASE seq <= st.last_seq -> [st EXCEPT !.known = TRUE]
    [] Jumps(st, seq) -> [known |-> TRUE, last_seq |-> seq, window |-> {}]
    [] seq = st.last_seq + 1 -> SlideOver(st)
    [] OTHER -> [st EXCEPT !.known = TRUE, !.window = @ \cup {Offset(st, seq)}]

\* What enqueue(seq) adds to lost_count_.
LostByEnqueue(st, seq) == IF Jumps(st, seq) THEN Offset(st, seq) ELSE 0

-----------------------------------------------------------------------------
(* apply_gap() and nack_state() *)

\* Mutation: the baseline moves but the window is not shifted with it.
AfterGapUnshifted(st, gapEnd) ==
  IF st.known /\ gapEnd <= st.last_seq
  THEN st
  ELSE [st EXCEPT !.known = TRUE, !.last_seq = gapEnd]

\* Mutation: an old GAP moves the baseline back.
AfterGapAnyEnd(st, gapEnd) ==
  [st EXCEPT !.known = TRUE, !.last_seq = gapEnd,
             !.window = {b \in Bits : b + gapEnd - st.last_seq \in st.window}]

\* The receive state after apply_gap(_, gapEnd).
AfterGap(st, gapEnd) ==
  CASE ~st.known -> [known |-> TRUE, last_seq |-> gapEnd, window |-> {}]
    [] st.known /\ gapEnd <= st.last_seq -> st
    [] OTHER -> [st EXCEPT !.last_seq = gapEnd,
                           !.window = ShiftRight(@, gapEnd - st.last_seq)]

\* Mutation: only the tracked part of the range is counted.
LostByGapTracked(st, gapEnd) ==
  IF st.known /\ gapEnd > st.last_seq
  THEN Cardinality({b \in Bits \ st.window : b < gapEnd - st.last_seq})
  ELSE 0

\* What apply_gap(_, gapEnd) adds to lost_count_.
LostByGap(st, gapEnd) ==
  IF st.known /\ gapEnd > st.last_seq
  THEN (gapEnd - st.last_seq)
         - Cardinality({b \in st.window : b < gapEnd - st.last_seq})
  ELSE 0

\* nack_state(): the base and the bitmap of an ACKNACK.
NackState(st) == [base |-> st.last_seq + 1, bitmap |-> st.window]
=============================================================================
