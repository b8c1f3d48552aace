---------------------------- MODULE ReaderProofs ----------------------------
(***************************************************************************)
(* Proofs about Reader for every set of writers, every window width and     *)
(* every bound: at-most-once queueing and honest ACKNACK bitmaps follow     *)
(* from the inductive invariant ReaderInv, the loss counter covers every    *)
(* sample that is given up, a KEEP_ALL queue gives up nothing, and the      *)
(* reader implements SampleFate.                                            *)
(***************************************************************************)
EXTENDS Reader, DataLemmas, SequenceTheorems

-----------------------------------------------------------------------------
(* What the operations do to a receive state, for every window width *)

\* The slide of enqueue() stops at the first 0-bit.
LEMMA LeadingOnesProperty ==
  ASSUME NEW window \in SUBSET Bits
  PROVE  /\ LeadingOnes(window) \in 0 .. Window
         /\ LeadingOnes(window) \notin window
         /\ \A b \in Bits : b < LeadingOnes(window) => b \in window
<1>1. Window \in Nat /\ window \in SUBSET (0 .. (Window - 1))
  BY WindowAssumption DEF Bits
<1>2. \E n \in 0 .. Window : n \notin window /\ \A b \in Bits : b < n => b \in window
  BY <1>1, LowestAbsent DEF Bits
<1> QED
  BY <1>2 DEF LeadingOnes

\* What a contiguous arrival does to the receive state.
LEMMA SlideOverProperty ==
  ASSUME NEW st \in RxState
  PROVE  /\ SlideOver(st) \in RxState
         /\ SlideOver(st).last_seq >= st.last_seq + 1
         /\ \A s \in Nat :
              s > st.last_seq + 1 =>
                (IsDuplicate(SlideOver(st), s) <=> IsDuplicate(st, s))
         /\ \A b \in SlideOver(st).window :
              SeqOfBit(SlideOver(st), b) - st.last_seq - 1 \in st.window
<1> DEFINE shifted == ShiftRight(st.window, 1)
           run == LeadingOnes(shifted)
<1>1. shifted \in SUBSET Bits
  BY DEF ShiftRight
<1>2. /\ run \in 0 .. Window
      /\ run \notin shifted
      /\ \A b \in Bits : b < run => b \in shifted
  BY <1>1, LeadingOnesProperty
<1> HIDE DEF run
<1>3. SlideOver(st) = [known |-> TRUE, last_seq |-> st.last_seq + 1 + run,
                       window |-> ShiftRight(shifted, run)]
  BY DEF SlideOver, run
<1>4. st.last_seq \in Nat /\ run \in Nat /\ st.window \in SUBSET Bits
  BY <1>2, WindowAssumption DEF RxState
<1>5. SlideOver(st) \in RxState
  BY <1>3, <1>4 DEF RxState, ShiftRight
<1>6. \A b \in Nat : b \in shifted <=> b + 1 \in st.window
  BY <1>4, WindowAssumption DEF ShiftRight, Bits
<1>7. \A b \in Nat : b \in ShiftRight(shifted, run) <=> b + run \in shifted
  BY <1>1, <1>4, WindowAssumption DEF ShiftRight, Bits
<1>8. ASSUME NEW s \in Nat, s > st.last_seq + 1
      PROVE  IsDuplicate(SlideOver(st), s) <=> IsDuplicate(st, s)
  <2>1. IsDuplicate(st, s) <=> s - st.last_seq - 2 \in shifted
    BY <1>4, <1>6, <1>8 DEF IsDuplicate, Offset
  <2>2. CASE s <= st.last_seq + 1 + run
    <3>1. s - st.last_seq - 2 \in Bits /\ s - st.last_seq - 2 < run
      BY <1>2, <1>4, <1>8, <2>2, WindowAssumption DEF Bits
    <3> QED
      BY <1>2, <1>3, <2>1, <2>2, <3>1 DEF IsDuplicate
  <2>3. CASE s > st.last_seq + 1 + run
    <3> DEFINE b == s - (st.last_seq + 1 + run) - 1
    <3>1. b \in Nat /\ b + run = s - st.last_seq - 2
      BY <1>4, <1>8, <2>3
    <3>2. IsDuplicate(SlideOver(st), s) <=> b \in ShiftRight(shifted, run)
      BY <1>3, <1>4, <2>3 DEF IsDuplicate, Offset
    <3> QED
      BY <1>7, <2>1, <3>1, <3>2
  <2> QED
    BY <1>4, <1>8, <2>2, <2>3
<1>9. ASSUME NEW b \in SlideOver(st).window
      PROVE  SeqOfBit(SlideOver(st), b) - st.last_seq - 1 \in st.window
  <2>1. b \in Nat /\ b \in ShiftRight(shifted, run)
    BY <1>3, <1>9, WindowAssumption DEF ShiftRight, Bits
  <2>2. b + run + 1 \in st.window
    BY <1>4, <1>6, <1>7, <2>1
  <2>3. SeqOfBit(SlideOver(st), b) - st.last_seq - 1 = b + run + 1
    BY <1>3, <1>4, <2>1 DEF SeqOfBit
  <2> QED
    BY <2>2, <2>3
<1>10. SlideOver(st).last_seq >= st.last_seq + 1
  BY <1>3, <1>4
<1> QED
  BY <1>5, <1>8, <1>9, <1>10, Zenon

\* What enqueue() does to the receive state: nothing that was recognised as a
\* duplicate is forgotten, the sample itself becomes one, a bit is set only for
\* the sample or for one whose bit was set, and without a jump the baseline
\* passes only the sample and samples whose bits were set.
LEMMA AfterEnqueueProperty ==
  ASSUME NEW st \in RxState, NEW seq \in Nat
  PROVE  LET new == AfterEnqueue(st, seq)
         IN  /\ new \in RxState
             /\ new.last_seq >= st.last_seq
             /\ IsDuplicate(new, seq)
             /\ \A s \in Nat : IsDuplicate(st, s) => IsDuplicate(new, s)
             /\ \A b \in new.window :
                  \/ SeqOfBit(new, b) = seq /\ ~IsDuplicate(st, seq)
                  \/ Offset(st, SeqOfBit(new, b)) \in st.window
             /\ ~Jumps(st, seq) =>
                  \A s \in Nat :
                    s <= new.last_seq => s = seq \/ IsDuplicate(st, s)
<1> DEFINE new == AfterEnqueue(st, seq)
<1>0. /\ st.last_seq \in Nat
      /\ st.window \in SUBSET Bits
      /\ Bits \subseteq Nat
      /\ \A b \in Bits : b < Window
  BY WindowAssumption DEF RxState, Bits
<1>1. CASE seq <= st.last_seq
  <2>1. new = [st EXCEPT !.known = TRUE]
    BY <1>0, <1>1 DEF AfterEnqueue, Jumps
  <2> HIDE DEF new
  <2>2. new \in RxState /\ new.last_seq = st.last_seq /\ new.window = st.window
    BY <2>1 DEF RxState
  <2>3. \A b \in new.window : Offset(st, SeqOfBit(new, b)) \in st.window
    <3> SUFFICES ASSUME NEW b \in st.window
                 PROVE  Offset(st, SeqOfBit(new, b)) = b
      BY <1>0, <2>2
    <3>1. b \in Nat
      BY <1>0
    <3> QED
      BY <1>0, <2>2, <3>1 DEF SeqOfBit, Offset
  <2>4. \A s \in Nat : IsDuplicate(new, s) <=> IsDuplicate(st, s)
    BY <2>2 DEF IsDuplicate, Offset
  <2>5. \A s \in Nat : s <= new.last_seq => IsDuplicate(st, s)
    BY <2>2 DEF IsDuplicate
  <2>6. ~Jumps(st, seq)
    BY <1>0, <1>1 DEF Jumps
  <2> HIDE DEF new
  <2> QED
    BY <1>0, <1>1, <2>2, <2>3, <2>4, <2>5, <2>6 DEF new
<1>2. CASE Jumps(st, seq)
  <2>1. new = [known |-> TRUE, last_seq |-> seq, window |-> {}]
    BY <1>0, <1>2, WindowAssumption DEF AfterEnqueue, Jumps, Offset
  <2>2. \A s \in Nat : IsDuplicate(st, s) => s <= seq
    BY <1>0, <1>2, WindowAssumption DEF IsDuplicate, Jumps, Offset
  <2>3. new \in RxState /\ new.last_seq = seq /\ new.window = {}
    BY <2>1 DEF RxState
  <2>4. \A s \in Nat : s <= seq => IsDuplicate(new, s)
    BY <2>3 DEF IsDuplicate
  <2>5. seq >= st.last_seq
    BY <1>0, <1>2 DEF Jumps
  <2> HIDE DEF new
  <2> QED
    BY <1>2, <2>2, <2>3, <2>4, <2>5 DEF new
<1>3. CASE seq = st.last_seq + 1 /\ ~Jumps(st, seq)
  <2>1. new = SlideOver(st)
    BY <1>0, <1>3 DEF AfterEnqueue
  <2>2. /\ new \in RxState
        /\ new.last_seq >= st.last_seq + 1
        /\ \A s \in Nat :
             s > st.last_seq + 1 => (IsDuplicate(new, s) <=> IsDuplicate(st, s))
        /\ \A b \in new.window : SeqOfBit(new, b) - st.last_seq - 1 \in st.window
    BY <2>1, SlideOverProperty
  <2>3. new.last_seq \in Nat
    BY <2>2 DEF RxState
  <2> HIDE DEF new
  <2>4. \A s \in Nat : s <= st.last_seq + 1 => IsDuplicate(new, s)
    BY <1>0, <2>2, <2>3 DEF IsDuplicate
  <2>5. \A s \in Nat : IsDuplicate(st, s) => IsDuplicate(new, s)
    BY <1>0, <2>2, <2>4
  <2>6. \A s \in Nat : s <= new.last_seq => s = seq \/ IsDuplicate(st, s)
    <3> SUFFICES ASSUME NEW s \in Nat, s <= new.last_seq
                 PROVE  s = seq \/ IsDuplicate(st, s)
      OBVIOUS
    <3>1. CASE s <= st.last_seq
      BY <3>1 DEF IsDuplicate
    <3>2. CASE s > st.last_seq + 1
      <4>1. IsDuplicate(new, s)
        BY DEF IsDuplicate
      <4> QED
        BY <2>2, <3>2, <4>1
    <3> QED
      BY <1>0, <1>3, <3>1, <3>2
  <2> QED
    BY <1>0, <1>3, <2>2, <2>3, <2>4, <2>5, <2>6 DEF Offset, new
<1>4. CASE seq > st.last_seq + 1 /\ ~Jumps(st, seq)
  <2>1. new = [st EXCEPT !.known = TRUE, !.window = @ \cup {Offset(st, seq)}]
    BY <1>0, <1>4 DEF AfterEnqueue
  <2>2. Offset(st, seq) \in Bits
    BY <1>0, <1>4, WindowAssumption DEF Jumps, Offset, Bits
  <2>3. /\ new \in RxState
        /\ new.last_seq = st.last_seq
        /\ new.window = st.window \cup {Offset(st, seq)}
    BY <2>1, <2>2 DEF RxState
  <2>4. \A b \in Bits : Offset(st, SeqOfBit(new, b)) = b
    BY <1>0, <2>3 DEF Offset, SeqOfBit
  <2>5. \A b \in Bits : b = Offset(st, seq) => SeqOfBit(new, b) = seq
    BY <1>0, <2>3 DEF Offset, SeqOfBit
  <2> HIDE DEF new
  <2>6. \A b \in new.window :
          \/ SeqOfBit(new, b) = seq /\ ~IsDuplicate(st, seq)
          \/ Offset(st, SeqOfBit(new, b)) \in st.window
    <3> SUFFICES ASSUME NEW b \in new.window
                 PROVE  \/ SeqOfBit(new, b) = seq /\ ~IsDuplicate(st, seq)
                        \/ Offset(st, SeqOfBit(new, b)) \in st.window
      OBVIOUS
    <3>1. CASE b \in st.window
      BY <1>0, <2>4, <3>1
    <3>2. CASE b = Offset(st, seq) /\ b \notin st.window
      <4>1. SeqOfBit(new, b) = seq
        BY <2>2, <2>5, <3>2
      <4>2. ~IsDuplicate(st, seq)
        BY <1>0, <1>4, <3>2 DEF IsDuplicate
      <4> QED
        BY <4>1, <4>2
    <3> QED
      BY <2>3, <3>1, <3>2
  <2>7. IsDuplicate(new, seq)
    BY <2>3 DEF IsDuplicate, Offset
  <2>8. \A s \in Nat : IsDuplicate(st, s) => IsDuplicate(new, s)
    BY <2>3 DEF IsDuplicate, Offset
  <2>9. \A s \in Nat : s <= new.last_seq => IsDuplicate(st, s)
    BY <2>3 DEF IsDuplicate
  <2> QED
    BY <1>0, <2>3, <2>6, <2>7, <2>8, <2>9 DEF new
<1> QED
  BY <1>0, <1>1, <1>2, <1>3, <1>4

\* What apply_gap() does to the receive state.
LEMMA AfterGapProperty ==
  ASSUME NEW st \in RxState, NEW gapEnd \in Nat,
         st.known \/ st = NoRxState
  PROVE  LET new == AfterGap(st, gapEnd)
         IN  /\ new \in RxState
             /\ new.last_seq >= st.last_seq
             /\ \A s \in Nat : IsDuplicate(st, s) => IsDuplicate(new, s)
             /\ \A b \in new.window : Offset(st, SeqOfBit(new, b)) \in st.window
             /\ \A s \in Nat : s <= new.last_seq <=> (s <= st.last_seq \/ s <= gapEnd)
<1> DEFINE new == AfterGap(st, gapEnd)
<1>0. /\ st.last_seq \in Nat
      /\ st.window \in SUBSET Bits
      /\ Bits \subseteq Nat
      /\ \A b \in Bits : b < Window
  BY WindowAssumption DEF RxState, Bits
<1>1. CASE ~st.known
  <2>1. new = [known |-> TRUE, last_seq |-> gapEnd, window |-> {}]
    BY <1>1 DEF AfterGap
  <2>2. st.last_seq = 0 /\ st.window = {}
    BY <1>1 DEF NoRxState
  <2> QED
    BY <2>1, <2>2 DEF RxState, IsDuplicate
<1>2. CASE st.known /\ gapEnd <= st.last_seq
  <2>1. new = st
    BY <1>2 DEF AfterGap
  <2>2. \A b \in st.window : Offset(st, SeqOfBit(st, b)) = b
    <3> SUFFICES ASSUME NEW b \in st.window
                 PROVE  Offset(st, SeqOfBit(st, b)) = b
      OBVIOUS
    <3>1. b \in Nat
      BY <1>0
    <3> QED
      BY <1>0, <3>1 DEF SeqOfBit, Offset
  <2> HIDE DEF new
  <2> QED
    BY <1>0, <1>2, <2>1, <2>2 DEF new
<1>3. CASE st.known /\ gapEnd > st.last_seq
  <2> DEFINE span == gapEnd - st.last_seq
  <2>1. new = [st EXCEPT !.last_seq = gapEnd, !.window = ShiftRight(@, span)]
    BY <1>0, <1>3 DEF AfterGap
  <2>2. /\ new.last_seq = gapEnd
        /\ new.window = ShiftRight(st.window, span)
        /\ new \in RxState
    BY <2>1 DEF RxState, ShiftRight
  <2>3. \A b \in Nat : b \in new.window <=> b + span \in st.window
    BY <1>0, <1>3, <2>2, WindowAssumption DEF ShiftRight, Bits
  <2>4. \A b \in new.window : b \in Nat
    BY <1>0, <2>2 DEF ShiftRight
  <2> HIDE DEF new
  <2>5. \A s \in Nat : IsDuplicate(st, s) => IsDuplicate(new, s)
    <3> SUFFICES ASSUME NEW s \in Nat, IsDuplicate(st, s), s > gapEnd
                 PROVE  s - gapEnd - 1 \in new.window
      BY <1>0, <2>2 DEF IsDuplicate, Offset
    <3>1. s - st.last_seq - 1 \in st.window
      BY <1>0, <1>3 DEF IsDuplicate, Offset
    <3>2. s - gapEnd - 1 \in Nat /\ (s - gapEnd - 1) + span = s - st.last_seq - 1
      BY <1>0, <1>3
    <3> QED
      BY <2>3, <3>1, <3>2
  <2>6. \A b \in new.window : Offset(st, SeqOfBit(new, b)) = b + span
    BY <1>0, <1>3, <2>2, <2>4 DEF Offset, SeqOfBit
  <2>7. \A b \in new.window : Offset(st, SeqOfBit(new, b)) \in st.window
    BY <2>3, <2>4, <2>6
  <2> QED
    BY <1>0, <1>3, <2>2, <2>5, <2>7 DEF new
<1> QED
  BY <1>0, <1>1, <1>2, <1>3 DEF RxState

\* What a GAP adds to the loss counter is never negative: the window holds no
\* more receipts below the end of the gap than the gap is long.
LEMMA LostByGapNatural ==
  ASSUME NEW st \in RxState, NEW gapEnd \in Nat
  PROVE  LostByGap(st, gapEnd) \in Nat
<1>1. st.last_seq \in Nat
  BY DEF RxState
<1>2. CASE st.known /\ gapEnd > st.last_seq
  <2> DEFINE span == gapEnd - st.last_seq
             low == {b \in st.window : b < span}
  <2>1. span \in Nat /\ low \subseteq 0 .. (span - 1)
    <3>1. \A b \in st.window : b \in Nat
      BY WindowAssumption DEF RxState, Bits
    <3> QED
      BY <1>1, <1>2, <3>1
  <2>2. Cardinality(low) \in Nat /\ Cardinality(low) <= span
    <3> HIDE DEF span, low
    <3> QED
      BY <2>1, CountBelow
  <2> QED
    BY <1>2, <2>1, <2>2 DEF LostByGap
<1>3. CASE ~(st.known /\ gapEnd > st.last_seq)
  BY <1>3 DEF LostByGap
<1> QED
  BY <1>2, <1>3

-----------------------------------------------------------------------------
(* The inductive invariant *)

\* A new reader knows no writer and has received nothing.
LEMMA InitEstablishes == Init => ReaderInv
<1> SUFFICES ASSUME Init PROVE ReaderInv
  OBVIOUS
<1>1. NoRxState \in RxState
  BY DEF NoRxState, RxState
<1>2. RxTypeOK
  BY <1>1 DEF Init, RxTypeOK
<1>3. UnknownIsEmpty /\ ReceivedIsRemembered
  BY DEF Init, UnknownIsEmpty, ReceivedIsRemembered
<1>4. QueuedIsReceived /\ AtMostOnce
  BY DEF Init, QueuedIsReceived, AtMostOnce
<1>5. NackIsHonest
  BY DEF Init, NackIsHonest, NackState, NoRxState
<1> QED
  BY <1>2, <1>3, <1>4, <1>5 DEF ReaderInv

\* enqueue() preserves the invariant.
LEMMA EnqueuePreserves ==
  ASSUME ReaderInv, NEW w \in Writers, NEW s \in Seqs, Enqueue(w, s)
  PROVE  ReaderInv'
<1> DEFINE st == rx[w]
           new == AfterEnqueue(st, s)
           fresh == ~IsDuplicate(st, s)
           queued == fresh /\ <<w, s>> \notin expired
<1>0. /\ RxTypeOK /\ UnknownIsEmpty /\ ReceivedIsRemembered
      /\ QueuedIsReceived /\ NackIsHonest /\ AtMostOnce
  BY DEF ReaderInv
<1>1. /\ st \in RxState
      /\ s \in Nat
      /\ Seqs \subseteq Nat
  BY <1>0, ReaderAssumption DEF RxTypeOK, Seqs
<1>2. /\ new \in RxState
      /\ IsDuplicate(new, s)
      /\ \A t \in Nat : IsDuplicate(st, t) => IsDuplicate(new, t)
      /\ \A b \in new.window :
           \/ SeqOfBit(new, b) = s /\ fresh
           \/ Offset(st, SeqOfBit(new, b)) \in st.window
  BY <1>1, AfterEnqueueProperty
<1>3. new.known
  <2>1. SlideOver(st).known
    BY DEF SlideOver
  <2> QED
    BY <1>1, <2>1 DEF AfterEnqueue, RxState
<1>4. /\ rx' = [rx EXCEPT ![w] = new]
      /\ received' = [received EXCEPT ![w] = IF fresh THEN @ \cup {s} ELSE @]
      /\ pushes' = [pushes EXCEPT ![w][s] = IF queued THEN @ + 1 ELSE @]
      /\ lost_count' = lost_count + LostByEnqueue(st, s)
      /\ joined' = joined
  BY DEF Enqueue
<1>5. LostByEnqueue(st, s) \in Nat
  BY <1>1, WindowAssumption DEF LostByEnqueue, Jumps, Offset, RxState
<1> HIDE DEF st, new, fresh, queued
<1>6. RxTypeOK'
  BY <1>0, <1>2, <1>4, <1>5 DEF RxTypeOK
<1>7. /\ rx'[w] = new
      /\ \A v \in Writers \ {w} : rx'[v] = rx[v] /\ received'[v] = received[v]
      /\ received'[w] = IF fresh THEN received[w] \cup {s} ELSE received[w]
  BY <1>0, <1>4 DEF RxTypeOK
<1>8. UnknownIsEmpty'
  BY <1>0, <1>3, <1>7 DEF UnknownIsEmpty
<1>9. ReceivedIsRemembered'
  <2> SUFFICES ASSUME NEW v \in Writers, NEW t \in received'[v]
               PROVE  IsDuplicate(rx'[v], t)
    BY DEF ReceivedIsRemembered, IsDuplicate, Offset
  <2>1. CASE v # w
    BY <1>0, <1>7, <2>1 DEF ReceivedIsRemembered
  <2>2. CASE v = w
    <3>1. t = s \/ (t \in received[w] /\ t \in Nat)
      BY <1>0, <1>1, <1>7, <2>2 DEF RxTypeOK
    <3>2. t \in received[w] => IsDuplicate(st, t)
      BY <1>0 DEF ReceivedIsRemembered, st
    <3> QED
      BY <1>2, <1>7, <2>2, <3>1, <3>2
  <2> QED
    BY <2>1, <2>2
<1>10. QueuedIsReceived' /\ AtMostOnce'
  <2> SUFFICES ASSUME NEW v \in Writers, NEW t \in Seqs
               PROVE  /\ pushes'[v][t] > 0 => t \in received'[v]
                      /\ pushes'[v][t] <= 1
    BY DEF QueuedIsReceived, AtMostOnce
  <2>0. /\ pushes[v][t] \in Nat
        /\ pushes[v][t] > 0 => t \in received[v]
        /\ pushes[v][t] <= 1
    BY <1>0 DEF RxTypeOK, QueuedIsReceived, AtMostOnce
  <2>1. CASE v = w /\ t = s /\ queued
    <3>1. pushes'[v][t] = pushes[v][t] + 1
      BY <1>0, <1>4, <2>1 DEF RxTypeOK
    <3>2. t \notin received[v]
      BY <1>0, <2>1 DEF ReceivedIsRemembered, queued, fresh, st
    <3>3. t \in received'[v]
      BY <1>7, <2>1 DEF queued
    <3> QED
      BY <2>0, <3>1, <3>2, <3>3
  <2>2. CASE ~(v = w /\ t = s /\ queued)
    <3>1. pushes'[v][t] = pushes[v][t]
      BY <1>0, <1>4, <2>2 DEF RxTypeOK
    <3>2. received[v] \subseteq received'[v]
      BY <1>7
    <3> QED
      BY <2>0, <3>1, <3>2
  <2> QED
    BY <2>1, <2>2
<1>11. NackIsHonest'
  <2> SUFFICES ASSUME NEW v \in Writers, NEW b \in rx'[v].window
               PROVE  rx'[v].last_seq + 1 + b \in received'[v]
    BY DEF NackIsHonest, NackState
  <2>1. CASE v # w
    BY <1>0, <1>7, <2>1 DEF NackIsHonest, NackState
  <2>2. CASE v = w
    <3> DEFINE t == new.last_seq + 1 + b
    <3>1. t = SeqOfBit(new, b)
      BY DEF SeqOfBit
    <3>2. CASE t = s /\ fresh
      BY <1>7, <2>2, <3>2
    <3>3. CASE t - st.last_seq - 1 \in st.window
      <4>1. st.last_seq + 1 + (t - st.last_seq - 1) \in received[w]
        BY <1>0, <3>3 DEF NackIsHonest, NackState, st
      <4>2. b \in Nat /\ new.last_seq \in Nat /\ st.last_seq \in Nat
        BY <1>1, <1>2, <1>7, <2>2, WindowAssumption DEF RxState, Bits
      <4>3. st.last_seq + 1 + (t - st.last_seq - 1) = t
        BY <4>2
      <4> QED
        BY <1>7, <2>2, <4>1, <4>3
    <3> QED
      BY <1>2, <1>7, <2>2, <3>1, <3>2, <3>3 DEF Offset
  <2> QED
    BY <2>1, <2>2
<1> QED
  BY <1>6, <1>8, <1>9, <1>10, <1>11 DEF ReaderInv

\* apply_gap() preserves the invariant.
LEMMA ApplyGapPreserves ==
  ASSUME ReaderInv, NEW w \in Writers, NEW e \in Seqs, ApplyGap(w, e)
  PROVE  ReaderInv'
<1> DEFINE st == rx[w]
           new == AfterGap(st, e)
<1>0. /\ RxTypeOK /\ UnknownIsEmpty /\ ReceivedIsRemembered
      /\ QueuedIsReceived /\ NackIsHonest /\ AtMostOnce
  BY DEF ReaderInv
<1>1. /\ st \in RxState
      /\ e \in Nat
      /\ Seqs \subseteq Nat
      /\ st.known \/ st = NoRxState
  BY <1>0, ReaderAssumption DEF RxTypeOK, UnknownIsEmpty, Seqs
<1>2. /\ new \in RxState
      /\ \A t \in Nat : IsDuplicate(st, t) => IsDuplicate(new, t)
      /\ \A b \in new.window : Offset(st, SeqOfBit(new, b)) \in st.window
  BY <1>1, AfterGapProperty
<1>3. new.known
  BY <1>1 DEF AfterGap, RxState
<1>4. /\ rx' = [rx EXCEPT ![w] = new]
      /\ received' = received
      /\ pushes' = pushes
      /\ lost_count' = lost_count + LostByGap(st, e)
      /\ joined' = [joined EXCEPT ![w] = IF rx[w].known THEN @ ELSE e]
  BY DEF ApplyGap
<1>5. LostByGap(st, e) \in Nat
  BY <1>1, LostByGapNatural
<1> HIDE DEF st, new
<1>6. RxTypeOK'
  BY <1>0, <1>1, <1>2, <1>4, <1>5 DEF RxTypeOK
<1>7. rx'[w] = new /\ \A v \in Writers \ {w} : rx'[v] = rx[v]
  BY <1>0, <1>4 DEF RxTypeOK
<1>8. UnknownIsEmpty'
  BY <1>0, <1>3, <1>7 DEF UnknownIsEmpty
<1>9. ReceivedIsRemembered'
  <2> SUFFICES ASSUME NEW v \in Writers, NEW t \in received[v]
               PROVE  IsDuplicate(rx'[v], t)
    BY <1>4 DEF ReceivedIsRemembered, IsDuplicate, Offset
  <2>1. IsDuplicate(rx[v], t) /\ t \in Nat
    BY <1>0, <1>1 DEF ReceivedIsRemembered, RxTypeOK
  <2> QED
    BY <1>2, <1>7, <2>1 DEF st
<1>10. QueuedIsReceived' /\ AtMostOnce'
  BY <1>0, <1>4 DEF QueuedIsReceived, AtMostOnce
<1>11. NackIsHonest'
  <2> SUFFICES ASSUME NEW v \in Writers, NEW b \in rx'[v].window
               PROVE  rx'[v].last_seq + 1 + b \in received[v]
    BY <1>4 DEF NackIsHonest, NackState
  <2>1. CASE v # w
    BY <1>0, <1>7, <2>1 DEF NackIsHonest, NackState
  <2>2. CASE v = w
    <3> DEFINE t == new.last_seq + 1 + b
    <3>1. t - st.last_seq - 1 \in st.window
      BY <1>2, <1>7, <2>2 DEF SeqOfBit, Offset
    <3>2. st.last_seq + 1 + (t - st.last_seq - 1) \in received[w]
      BY <1>0, <3>1 DEF NackIsHonest, NackState, st
    <3>3. b \in Nat /\ new.last_seq \in Nat /\ st.last_seq \in Nat
      BY <1>1, <1>2, <1>7, <2>2, WindowAssumption DEF RxState, Bits
    <3>4. st.last_seq + 1 + (t - st.last_seq - 1) = t
      BY <3>3
    <3> QED
      BY <1>7, <2>2, <3>2, <3>4
  <2> QED
    BY <2>1, <2>2
<1> QED
  BY <1>6, <1>8, <1>9, <1>10, <1>11 DEF ReaderInv

\* take(), available() and the clock leave the receive state alone.
LEMMA RxUnchangedPreserves ==
  ASSUME ReaderInv, UNCHANGED rxVars
  PROVE  ReaderInv'
BY DEF ReaderInv, rxVars, RxTypeOK, UnknownIsEmpty, ReceivedIsRemembered,
       QueuedIsReceived, NackIsHonest, AtMostOnce, IsDuplicate, Offset, NackState

\* The invariant of the reader holds in every state of every behaviour.
THEOREM ReaderInvariant == Spec => []ReaderInv
<1>1. ReaderInv /\ [Next]_vars => ReaderInv'
  <2> SUFFICES ASSUME ReaderInv, [Next]_vars
               PROVE  ReaderInv'
    OBVIOUS
  <2>1. CASE \E w \in Writers, s \in Seqs : Enqueue(w, s)
    BY <2>1, EnqueuePreserves
  <2>2. CASE \E w \in Writers, s \in Seqs : ApplyGap(w, s)
    BY <2>2, ApplyGapPreserves
  <2>3. CASE \E w \in Writers, s \in Seqs : Expire(w, s)
    BY <2>3, RxUnchangedPreserves DEF Expire
  <2>4. CASE Take
    BY <2>4, RxUnchangedPreserves DEF Take
  <2>5. CASE Available
    BY <2>5, RxUnchangedPreserves DEF Available
  <2>6. CASE UNCHANGED vars
    BY <2>6, RxUnchangedPreserves DEF vars, rxVars
  <2> QED
    BY <2>1, <2>2, <2>3, <2>4, <2>5, <2>6 DEF Next
<1> QED
  BY <1>1, InitEstablishes, PTL DEF Spec

\* enqueue() queues a sample at most once, whatever the network and the GAPs do.
THEOREM AtMostOnceHolds == Spec => []AtMostOnce
<1>1. ReaderInv => AtMostOnce
  BY DEF ReaderInv
<1> QED
  BY <1>1, ReaderInvariant, PTL

\* The bitmaps of ACKNACKs claim received samples only.
THEOREM NackIsHonestHolds == Spec => []NackIsHonest
<1>1. ReaderInv => NackIsHonest
  BY DEF ReaderInv
<1> QED
  BY <1>1, ReaderInvariant, PTL

-----------------------------------------------------------------------------
(* The reader implements SampleFate *)

\* A sample recognised as a duplicate that was not received is below the
\* baseline: it was skipped.
LEMMA DuplicateIsDecided ==
  ASSUME ReaderInv, NEW w \in Writers, NEW t \in Seqs,
         IsDuplicate(rx[w], t), t \notin received[w]
  PROVE  t <= rx[w].last_seq
<1> SUFFICES ASSUME Offset(rx[w], t) \in rx[w].window PROVE FALSE
  BY DEF IsDuplicate
<1>1. rx[w].last_seq + 1 + Offset(rx[w], t) \in received[w]
  BY DEF ReaderInv, NackIsHonest, NackState
<1>2. rx[w].last_seq \in Nat /\ t \in Nat
  BY ReaderAssumption DEF ReaderInv, RxTypeOK, RxState, Seqs
<1>3. rx[w].last_seq + 1 + Offset(rx[w], t) = t
  BY <1>2 DEF Offset
<1> QED
  BY <1>1, <1>3

\* The fate of one sample, from its definition.
LEMMA FateOfSample ==
  ASSUME NEW w \in Writers, NEW t \in Seqs
  PROVE  sampleFate[w][t] = IF t \in received[w] THEN "received"
                            ELSE IF t <= rx[w].last_seq THEN "skipped"
                            ELSE "pending"
BY DEF sampleFate

\* The same in the next state.
LEMMA FateOfSamplePrimed ==
  ASSUME NEW w \in Writers, NEW t \in Seqs
  PROVE  sampleFate'[w][t] = IF t \in received'[w] THEN "received"
                             ELSE IF t <= rx'[w].last_seq THEN "skipped"
                             ELSE "pending"
BY DEF sampleFate

\* Every arrival decides the fate of at most one sample by receiving it, and of
\* those below it when it jumps.
LEMMA EnqueueDecides ==
  ASSUME ReaderInv, NEW w \in Writers, NEW s \in Seqs, Enqueue(w, s)
  PROVE  [F!FateNext]_sampleFate
<1> DEFINE st == rx[w]
           new == AfterEnqueue(st, s)
           fresh == ~IsDuplicate(st, s)
<1>1. /\ st \in RxState /\ st.last_seq \in Nat
      /\ s \in Nat /\ Seqs \subseteq Nat
      /\ rx \in [Writers -> RxState]
      /\ received \in [Writers -> SUBSET Seqs]
  BY ReaderAssumption DEF ReaderInv, RxTypeOK, RxState, Seqs
<1>2. /\ new.last_seq \in Nat
      /\ new.last_seq >= st.last_seq
      /\ ~Jumps(st, s) =>
           \A t \in Nat : t <= new.last_seq => t = s \/ IsDuplicate(st, t)
  BY <1>1, AfterEnqueueProperty DEF RxState
<1>3. /\ rx' = [rx EXCEPT ![w] = new]
      /\ received' = [received EXCEPT ![w] = IF fresh THEN @ \cup {s} ELSE @]
  BY DEF Enqueue
<1>4. /\ rx'[w] = new
      /\ received'[w] = IF fresh THEN received[w] \cup {s} ELSE received[w]
      /\ \A v \in Writers \ {w} : rx'[v] = rx[v] /\ received'[v] = received[v]
  BY <1>1, <1>3
<1>5. Jumps(st, s) => fresh /\ new.last_seq = s
  BY <1>1, WindowAssumption DEF Jumps, IsDuplicate, Offset, AfterEnqueue, RxState, Bits
<1>6. \A v \in Writers \ {w} : sampleFate'[v] = sampleFate[v]
  BY <1>4 DEF sampleFate
<1>7. fresh => s \notin received[w] /\ s > st.last_seq
  BY <1>1 DEF ReaderInv, ReceivedIsRemembered, IsDuplicate
<1> HIDE DEF new
<1>8. ASSUME ~Jumps(st, s), NEW t \in Seqs, t # s \/ ~fresh
      PROVE  sampleFate'[w][t] = sampleFate[w][t]
  <2>1. t \in received'[w] <=> t \in received[w]
    BY <1>4, <1>8
  <2>2. ASSUME t \notin received[w], t <= new.last_seq
        PROVE  t <= st.last_seq
    <3>1. IsDuplicate(st, t)
      BY <1>1, <1>2, <1>8, <2>2
    <3> QED
      BY <2>2, <3>1, DuplicateIsDecided
  <2>3. t \notin received[w] => (t <= new.last_seq <=> t <= st.last_seq)
    BY <1>1, <1>2, <2>2
  <2> QED
    BY <1>4, <2>1, <2>3, FateOfSample, FateOfSamplePrimed
<1>a. /\ sampleFate = [v \in Writers |-> [t \in Seqs |-> sampleFate[v][t]]]
      /\ sampleFate' = [v \in Writers |-> [t \in Seqs |-> sampleFate'[v][t]]]
  BY DEF sampleFate
<1>9. CASE ~fresh
  <2>1. \A t \in Seqs : sampleFate'[w][t] = sampleFate[w][t]
    BY <1>5, <1>8, <1>9
  <2>2. sampleFate' = sampleFate
    BY <1>6, <1>a, <2>1
  <2> QED
    BY <2>2
<1>10. CASE fresh /\ ~Jumps(st, s)
  <2>1. \A t \in Seqs \ {s} : sampleFate'[w][t] = sampleFate[w][t]
    BY <1>8, <1>10
  <2>2. sampleFate[w][s] = "pending" /\ sampleFate'[w][s] = "received"
    BY <1>1, <1>4, <1>7, <1>10, FateOfSample, FateOfSamplePrimed
  <2>3. sampleFate' = [sampleFate EXCEPT ![w][s] = "received"]
    BY <1>6, <1>a, <2>1, <2>2
  <2>4. F!Receive(w, s)
    BY <2>2, <2>3 DEF F!Receive
  <2> QED
    BY <2>4 DEF F!FateNext, F!Seqs, Seqs
<1>11. CASE fresh /\ Jumps(st, s)
  <2> DEFINE skipped == F!SkippedUpTo(sampleFate[w], s)
  <2>1. sampleFate[w][s] = "pending" /\ sampleFate'[w][s] = "received"
    BY <1>1, <1>4, <1>7, <1>11, FateOfSample, FateOfSamplePrimed
  <2>2. ASSUME NEW t \in Seqs, t # s
        PROVE  sampleFate'[w][t] = skipped[t]
    <3>1. skipped[t] = IF t <= s /\ sampleFate[w][t] = "pending"
                       THEN "skipped" ELSE sampleFate[w][t]
      BY DEF F!SkippedUpTo, F!Seqs, Seqs
    <3>2. t \in received'[w] <=> t \in received[w]
      BY <1>4, <2>2
    <3>3. t \in Nat /\ rx'[w].last_seq = s /\ s > st.last_seq
      BY <1>1, <1>4, <1>5, <1>7, <1>11
    <3> QED
      BY <1>1, <3>1, <3>2, <3>3, FateOfSample, FateOfSamplePrimed
  <2>3. sampleFate'[w] = [skipped EXCEPT ![s] = "received"]
    <3>1. skipped = [t \in Seqs |-> skipped[t]]
      BY DEF F!SkippedUpTo, F!Seqs, Seqs
    <3>2. sampleFate'[w] = [t \in Seqs |-> sampleFate'[w][t]]
      BY DEF sampleFate
    <3> HIDE DEF skipped
    <3> QED
      BY <2>1, <2>2, <3>1, <3>2
  <2>4. sampleFate' = [sampleFate EXCEPT ![w] = [skipped EXCEPT ![s] = "received"]]
    <3> HIDE DEF skipped
    <3> QED
      BY <1>6, <1>a, <2>3
  <2>5. F!ReceiveSkipping(w, s)
    BY <2>1, <2>4 DEF F!ReceiveSkipping
  <2> QED
    BY <2>5 DEF F!FateNext, F!Seqs, Seqs
<1> QED
  BY <1>9, <1>10, <1>11

\* A GAP skips what is pending up to its end and changes no other fate.
LEMMA ApplyGapDecides ==
  ASSUME ReaderInv, NEW w \in Writers, NEW e \in Seqs, ApplyGap(w, e)
  PROVE  [F!FateNext]_sampleFate
<1> DEFINE st == rx[w]
           new == AfterGap(st, e)
           skipped == F!SkippedUpTo(sampleFate[w], e)
<1>1. /\ st \in RxState /\ (st.known \/ st = NoRxState)
      /\ e \in Nat /\ Seqs \subseteq Nat
      /\ rx \in [Writers -> RxState]
  BY ReaderAssumption DEF ReaderInv, RxTypeOK, UnknownIsEmpty, Seqs
<1>2. \A t \in Nat : t <= new.last_seq <=> (t <= st.last_seq \/ t <= e)
  BY <1>1, AfterGapProperty
<1>3. /\ rx'[w] = new
      /\ \A v \in Writers \ {w} : rx'[v] = rx[v]
      /\ received' = received
  BY <1>1 DEF ApplyGap
<1> HIDE DEF new
<1>4. ASSUME NEW t \in Seqs
      PROVE  sampleFate'[w][t] = skipped[t]
  <2>1. skipped[t] = IF t <= e /\ sampleFate[w][t] = "pending"
                     THEN "skipped" ELSE sampleFate[w][t]
    BY DEF F!SkippedUpTo, F!Seqs, Seqs
  <2>2. t \in Nat
    BY <1>1
  <2> QED
    BY <1>2, <1>3, <2>1, <2>2, FateOfSample, FateOfSamplePrimed
<1>5. sampleFate'[w] = skipped
  <2>1. skipped = [t \in Seqs |-> skipped[t]]
    BY DEF F!SkippedUpTo, F!Seqs, Seqs
  <2>2. sampleFate'[w] = [t \in Seqs |-> sampleFate'[w][t]]
    BY DEF sampleFate
  <2> HIDE DEF skipped
  <2> QED
    BY <1>4, <2>1, <2>2
<1>6. \A v \in Writers \ {w} : sampleFate'[v] = sampleFate[v]
  BY <1>3 DEF sampleFate
<1>7. sampleFate' = [sampleFate EXCEPT ![w] = skipped]
  <2>1. /\ sampleFate = [v \in Writers |-> sampleFate[v]]
        /\ sampleFate' = [v \in Writers |-> sampleFate'[v]]
    BY DEF sampleFate
  <2> HIDE DEF skipped
  <2> QED
    BY <1>5, <1>6, <2>1
<1> QED
  BY <1>7 DEF F!FateNext, F!Skip, F!Seqs, Seqs

\* The reader decides the fate of each sequence number once: Reader implements
\* SampleFate under the mapping sampleFate.
THEOREM FateRefinementHolds == Spec => FateRefinement
<1>1. Init => F!FateInit
  <2> SUFFICES ASSUME Init PROVE F!FateInit
    OBVIOUS
  <2>1. ASSUME NEW w \in Writers, NEW t \in Seqs
        PROVE  sampleFate[w][t] = "pending"
    <3>1. received[w] = {} /\ rx[w].last_seq = 0 /\ ~(t <= 0)
      BY <2>1, ReaderAssumption DEF Init, NoRxState, Seqs
    <3> QED
      BY <2>1, <3>1, FateOfSample
  <2>2. sampleFate = [v \in Writers |-> [t \in Seqs |-> sampleFate[v][t]]]
    BY DEF sampleFate
  <2> QED
    BY <2>1, <2>2 DEF F!FateInit, F!Seqs, Seqs
<1>2. ReaderInv /\ [Next]_vars => [F!FateNext]_sampleFate
  <2> SUFFICES ASSUME ReaderInv, [Next]_vars
               PROVE  [F!FateNext]_sampleFate
    OBVIOUS
  <2>1. CASE \E w \in Writers, s \in Seqs : Enqueue(w, s)
    BY <2>1, EnqueueDecides
  <2>2. CASE \E w \in Writers, s \in Seqs : ApplyGap(w, s)
    BY <2>2, ApplyGapDecides
  <2>3. CASE UNCHANGED rxVars
    BY <2>3 DEF rxVars, sampleFate
  <2>4. UNCHANGED rxVars \/ (\E w \in Writers, s \in Seqs : Enqueue(w, s))
                         \/ (\E w \in Writers, s \in Seqs : ApplyGap(w, s))
    BY DEF Next, Expire, Take, Available, vars, rxVars
  <2> QED
    BY <2>1, <2>2, <2>3, <2>4
<1> QED
  BY <1>1, <1>2, ReaderInvariant, PTL DEF Spec, FateRefinement, F!FateSpec

-----------------------------------------------------------------------------
(* messages_lost() covers what the reader gives up *)

LossCovered == IsFiniteSet(Missing) /\ NoSilentLoss

\* A step that leaves at most the samples of w in D newly missing keeps the
\* counter above the missing samples if it adds at least their number.
LEMMA LossStep ==
  ASSUME LossCovered, ReaderInv, NEW w \in Writers, NEW D \in SUBSET Nat, IsFiniteSet(D),
         NEW n \in Nat, Cardinality(D) <= n, lost_count' = lost_count + n,
         Missing' \subseteq Missing \cup ({w} \X D)
  PROVE  LossCovered'
<1>1. IsFiniteSet({w}) /\ Cardinality({w}) = 1
  BY FS_Singleton
<1>2. IsFiniteSet({w} \X D) /\ Cardinality({w} \X D) = 1 * Cardinality(D)
  BY <1>1, FS_Product
<1>3. IsFiniteSet(Missing) /\ Cardinality(Missing) <= lost_count /\ lost_count \in Nat
  BY DEF LossCovered, NoSilentLoss, ReaderInv, RxTypeOK
<1>. PICK M : M = Missing /\ IsFiniteSet(M) /\ Cardinality(M) <= lost_count
  BY <1>3
<1>. PICK P : P = {w} \X D /\ IsFiniteSet(P) /\ Cardinality(P) = 1 * Cardinality(D)
  BY <1>2
<1>4. /\ IsFiniteSet(M \cup P)
      /\ Cardinality(M \cup P) = Cardinality(M) + Cardinality(P) - Cardinality(M \cap P)
  BY FS_Union
<1>5. IsFiniteSet(M \cap P)
  BY FS_Intersection
<1>6. /\ Cardinality(M) \in Nat /\ Cardinality(P) \in Nat /\ Cardinality(M \cap P) \in Nat
      /\ Cardinality(D) \in Nat
  BY <1>5, FS_CardinalityType
<1>7. Cardinality(M \cup P) <= lost_count + n
  BY <1>3, <1>4, <1>6
<1>8. IsFiniteSet(Missing') /\ Cardinality(Missing') <= Cardinality(M \cup P)
  BY <1>4, FS_Subset
<1>9. Cardinality(Missing') \in Nat /\ Cardinality(M \cup P) \in Nat
  BY <1>4, <1>8, FS_CardinalityType
<1>10. Cardinality(Missing') <= lost_count'
  BY <1>3, <1>7, <1>8, <1>9
<1> QED
  BY <1>8, <1>10 DEF LossCovered, NoSilentLoss

\* A member of Missing, spelled out.
LEMMA IsMissing ==
  ASSUME NEW v \in Writers, NEW t \in Seqs
  PROVE  /\ <<v, t>> \in Missing
              <=> t > joined[v] /\ t <= rx[v].last_seq /\ t \notin received[v]
         /\ <<v, t>> \in Missing'
              <=> t > joined'[v] /\ t <= rx'[v].last_seq /\ t \notin received'[v]
BY DEF Missing, Samples

\* enqueue() gives up samples only when it jumps, and then counts the whole hole.
LEMMA EnqueueCounts ==
  ASSUME LossCovered, ReaderInv, NEW w \in Writers, NEW s \in Seqs, Enqueue(w, s)
  PROVE  LossCovered'
<1>. PICK st : st = rx[w]
  OBVIOUS
<1>1. /\ st \in RxState /\ st.last_seq \in Nat
      /\ s \in Nat /\ Seqs \subseteq Nat
      /\ rx \in [Writers -> RxState]
      /\ received \in [Writers -> SUBSET Seqs]
  BY ReaderAssumption DEF ReaderInv, RxTypeOK, RxState, Seqs
<1>. PICK new : new = AfterEnqueue(st, s)
  OBVIOUS
<1>2. /\ new.last_seq \in Nat
      /\ new.last_seq >= st.last_seq
      /\ ~Jumps(st, s) =>
           \A t \in Nat : t <= new.last_seq => t = s \/ IsDuplicate(st, t)
  BY <1>1, AfterEnqueueProperty DEF RxState
<1>3. /\ rx' = [rx EXCEPT ![w] = new]
      /\ received' = [received EXCEPT ![w] = IF ~IsDuplicate(st, s) THEN @ \cup {s} ELSE @]
      /\ lost_count' = lost_count + LostByEnqueue(st, s)
      /\ joined' = joined
  BY DEF Enqueue
<1>4. /\ rx'[w] = new
      /\ received'[w] = IF ~IsDuplicate(st, s) THEN received[w] \cup {s} ELSE received[w]
      /\ \A v \in Writers \ {w} : rx'[v] = rx[v] /\ received'[v] = received[v]
  BY <1>1, <1>3
<1>5. Jumps(st, s) => ~IsDuplicate(st, s) /\ new.last_seq = s
  BY <1>1, WindowAssumption DEF Jumps, IsDuplicate, Offset, AfterEnqueue, RxState, Bits
<1>6. Missing' \subseteq Samples
  BY DEF Missing
<1>7. \A v \in Writers \ {w}, t \in Seqs : <<v, t>> \in Missing' => <<v, t>> \in Missing
  BY <1>3, <1>4, IsMissing
<1>8. CASE ~Jumps(st, s)
  <2>1. ASSUME NEW t \in Seqs, <<w, t>> \in Missing' PROVE <<w, t>> \in Missing
    <3>1. t > joined[w] /\ t <= new.last_seq /\ t \notin received[w]
      BY <1>3, <1>4, <2>1, IsMissing
    <3>2. t = s \/ IsDuplicate(st, t)
      BY <1>1, <1>2, <1>8, <3>1
    <3>3. t # s \/ IsDuplicate(st, s)
      BY <1>4, <2>1, IsMissing
    <3>4. t <= st.last_seq
      BY <3>1, <3>2, <3>3, DuplicateIsDecided
    <3> QED
      BY <3>1, <3>4, IsMissing
  <2>2. Missing' \subseteq Missing \cup ({w} \X {})
    BY <1>6, <1>7, <2>1 DEF Samples
  <2>3. lost_count' = lost_count + 0
    BY <1>3, <1>8 DEF LostByEnqueue
  <2>4. IsFiniteSet({}) /\ Cardinality({}) = 0
    BY FS_EmptySet
  <2> QED
    BY <2>2, <2>3, <2>4, LossStep
<1>9. CASE Jumps(st, s)
  <2>1. /\ s > st.last_seq /\ Offset(st, s) = s - st.last_seq - 1
        /\ Offset(st, s) \in Nat
    BY <1>1, <1>9, WindowAssumption DEF Jumps, Offset
  <2>. PICK D : D = (st.last_seq + 1) .. (s - 1)
    OBVIOUS
  <2>2. /\ D \in SUBSET Nat /\ IsFiniteSet(D)
        /\ Cardinality(D) = IF st.last_seq + 1 > s - 1 THEN 0 ELSE (s - 1) - (st.last_seq + 1) + 1
    <3>1. st.last_seq + 1 \in Int /\ s - 1 \in Int
      BY <1>1
    <3>2. /\ IsFiniteSet((st.last_seq + 1) .. (s - 1))
          /\ Cardinality((st.last_seq + 1) .. (s - 1))
               = IF st.last_seq + 1 > s - 1 THEN 0 ELSE (s - 1) - (st.last_seq + 1) + 1
      BY <3>1, FS_Interval
    <3>3. D \in SUBSET Nat
      BY <1>1
    <3> QED
      BY <3>2, <3>3
  <2>3. Cardinality(D) <= Offset(st, s)
    BY <1>1, <2>1, <2>2
  <2>4. ASSUME NEW t \in Seqs, <<w, t>> \in Missing', <<w, t>> \notin Missing PROVE t \in D
    <3>1. t > joined[w] /\ t <= new.last_seq /\ t \notin received[w]
      BY <1>3, <1>4, <2>4, IsMissing
    <3>2. t <= s /\ t # s /\ ~(t <= st.last_seq)
      BY <1>4, <1>5, <1>9, <2>4, <3>1, IsMissing
    <3>3. t \in Int /\ s \in Int /\ st.last_seq \in Int
      BY <1>1
    <3>4. t >= st.last_seq + 1 /\ t <= s - 1
      BY <3>2, <3>3
    <3> QED
      BY <3>3, <3>4
  <2>5. Missing' \subseteq Missing \cup ({w} \X D)
    BY <1>6, <1>7, <2>4 DEF Samples
  <2>6. lost_count' = lost_count + Offset(st, s)
    BY <1>3, <1>9 DEF LostByEnqueue
  <2> QED
    BY <2>1, <2>2, <2>3, <2>5, <2>6, LossStep
<1> QED
  BY <1>8, <1>9

\* The samples of a GAP that have no bit in the window are as many as
\* apply_gap() adds to the counter.
LEMMA GapCountsHoles ==
  ASSUME NEW st \in RxState, NEW e \in Nat, st.known, e > st.last_seq
  PROVE  LET D == {t \in (st.last_seq + 1) .. e : Offset(st, t) \notin st.window}
         IN  /\ IsFiniteSet(D) /\ D \in SUBSET Nat
             /\ Cardinality(D) <= LostByGap(st, e)
             /\ LostByGap(st, e) \in Nat
<1>. PICK D : D = {t \in (st.last_seq + 1) .. e : Offset(st, t) \notin st.window}
  OBVIOUS
<1>. PICK span \in Nat : span = e - st.last_seq /\ span >= 1
  BY DEF RxState
<1>. PICK low : low = {b \in st.window : b < span}
  OBVIOUS
<1>1. st.last_seq \in Nat /\ \A b \in st.window : b \in Nat
  BY WindowAssumption DEF RxState, Bits
<1>. PICK all : all = 0 .. (span - 1)
  OBVIOUS
<1>2. IsFiniteSet(all) /\ Cardinality(all) = span
  <2>1. span - 1 \in Int /\ 0 \in Int
    OBVIOUS
  <2>2. /\ IsFiniteSet(all)
        /\ Cardinality(all) = IF 0 > span - 1 THEN 0 ELSE (span - 1) - 0 + 1
    BY <2>1, FS_Interval
  <2> QED
    BY <2>2
<1>3. low = all \cap low
  BY <1>1
<1>4. IsFiniteSet(all \ low) /\ Cardinality(all \ low) = span - Cardinality(low)
  <2>1. /\ IsFiniteSet(all \ low)
        /\ Cardinality(all \ low) = Cardinality(all) - Cardinality(all \cap low)
    BY <1>2, FS_Difference
  <2> QED
    BY <1>2, <1>3, <2>1, Zenon
<1>5. LostByGap(st, e) = span - Cardinality(low)
  BY DEF LostByGap
<1>6. Cardinality(all \ low) \in Nat
  BY <1>4, FS_CardinalityType
<1>. PICK f : f = [t \in D |-> Offset(st, t)]
  OBVIOUS
<1>7. f \in Injection(D, all \ low)
  <2>1. \A t \in D : Offset(st, t) \in all \ low
    BY <1>1 DEF Offset
  <2>2. \A t, u \in D : Offset(st, t) = Offset(st, u) => t = u
    BY <1>1 DEF Offset
  <2>3. \A t \in D : f[t] = Offset(st, t)
    OBVIOUS
  <2>4. f \in [D -> all \ low]
    BY <2>1
  <2>5. IsInjective(f)
    BY <2>2, <2>3, <2>4 DEF IsInjective
  <2> QED
    BY <2>4, <2>5 DEF Injection
<1>8. IsFiniteSet(D) /\ Cardinality(D) <= Cardinality(all \ low)
  BY <1>4, <1>7, FS_Injection
<1>9. D \in SUBSET Nat
  BY <1>1
<1> QED
  BY <1>4, <1>5, <1>6, <1>8, <1>9

\* apply_gap() counts what it gives up, and a first GAP gives up nothing: it
\* sets the baseline the writer's stream starts from.
LEMMA ApplyGapCounts ==
  ASSUME LossCovered, ReaderInv, NEW w \in Writers, NEW e \in Seqs, ApplyGap(w, e)
  PROVE  LossCovered'
<1>. PICK st : st = rx[w]
  OBVIOUS
<1>1. /\ st \in RxState /\ st.last_seq \in Nat /\ (st.known \/ st = NoRxState)
      /\ e \in Nat /\ Seqs \subseteq Nat
      /\ rx \in [Writers -> RxState]
      /\ joined \in [Writers -> Nat]
  BY ReaderAssumption DEF ReaderInv, RxTypeOK, UnknownIsEmpty, RxState, Seqs
<1>. PICK new : new = AfterGap(st, e)
  OBVIOUS
<1>2. \A t \in Nat : t <= new.last_seq <=> (t <= st.last_seq \/ t <= e)
  BY <1>1, AfterGapProperty
<1>3. /\ rx'[w] = new
      /\ \A v \in Writers \ {w} : rx'[v] = rx[v] /\ joined'[v] = joined[v]
      /\ joined'[w] = IF st.known THEN joined[w] ELSE e
      /\ received' = received
      /\ lost_count' = lost_count + LostByGap(st, e)
  BY <1>1 DEF ApplyGap
<1>4. Missing' \subseteq Samples
  BY DEF Missing
<1>5. \A v \in Writers \ {w}, t \in Seqs : <<v, t>> \in Missing' => <<v, t>> \in Missing
  BY <1>3, IsMissing
<1>6. CASE ~st.known \/ e <= st.last_seq
  <2>1. ASSUME NEW t \in Seqs, <<w, t>> \in Missing' PROVE <<w, t>> \in Missing
    <3>1. t \in Nat /\ t > joined'[w] /\ t <= rx'[w].last_seq /\ t \notin received[w]
      BY <1>1, <1>3, <2>1, IsMissing
    <3>2. CASE ~st.known
      <4>1. st.last_seq = 0
        BY <1>1, <3>2 DEF NoRxState
      <4>2. t > e /\ (t <= 0 \/ t <= e)
        BY <1>2, <1>3, <3>1, <3>2, <4>1
      <4>3. t > 0
        BY ReaderAssumption DEF Seqs
      <4> QED
        BY <1>1, <3>1, <4>2, <4>3
    <3>3. CASE st.known /\ e <= st.last_seq
      <4>1. t <= st.last_seq
        BY <1>1, <1>2, <1>3, <3>1, <3>3
      <4> QED
        BY <1>3, <3>1, <3>3, <4>1, IsMissing
    <3> QED
      BY <1>6, <3>2, <3>3
  <2>2. Missing' \subseteq Missing \cup ({w} \X {})
    BY <1>4, <1>5, <2>1 DEF Samples
  <2>3. lost_count' = lost_count + 0
    BY <1>1, <1>3, <1>6 DEF LostByGap
  <2>4. IsFiniteSet({}) /\ Cardinality({}) = 0
    BY FS_EmptySet
  <2> QED
    BY <2>2, <2>3, <2>4, LossStep
<1>7. CASE st.known /\ e > st.last_seq
  <2>. PICK D : D = {t \in (st.last_seq + 1) .. e : Offset(st, t) \notin st.window}
    OBVIOUS
  <2>1. /\ IsFiniteSet(D) /\ D \in SUBSET Nat
        /\ Cardinality(D) <= LostByGap(st, e)
        /\ LostByGap(st, e) \in Nat
    BY <1>1, <1>7, GapCountsHoles
  <2>2. ASSUME NEW t \in Seqs, <<w, t>> \in Missing', <<w, t>> \notin Missing PROVE t \in D
    <3>1. t \in Nat /\ t > joined[w] /\ t <= new.last_seq /\ t \notin received[w]
      BY <1>1, <1>3, <1>7, <2>2, IsMissing
    <3>2. ~(t <= st.last_seq) /\ t <= e
      BY <1>2, <2>2, <3>1, IsMissing
    <3>3. ~IsDuplicate(st, t)
      BY <3>1, <3>2, DuplicateIsDecided
    <3> QED
      BY <1>1, <3>1, <3>2, <3>3 DEF IsDuplicate
  <2>3. Missing' \subseteq Missing \cup ({w} \X D)
    BY <1>4, <1>5, <2>2 DEF Samples
  <2> QED
    BY <1>3, <2>1, <2>3, LossStep
<1> QED
  BY <1>1, <1>6, <1>7

\* messages_lost() never reports less than was given up: every sample that the
\* baseline passed without its being received was counted, but for those below
\* the baseline a late joiner starts from.
THEOREM NoSilentLossHolds == Spec => []NoSilentLoss
<1>1. Init => LossCovered
  <2> SUFFICES ASSUME Init PROVE LossCovered
    OBVIOUS
  <2>1. Missing = {}
    <3>1. ASSUME NEW v \in Writers, NEW t \in Seqs PROVE <<v, t>> \notin Missing
      <4>1. rx[v].last_seq = 0 /\ ~(t <= 0)
        BY ReaderAssumption DEF Init, NoRxState, Seqs
      <4> QED
        BY <4>1, IsMissing
    <3> QED
      BY <3>1 DEF Missing, Samples
  <2>2. lost_count = 0
    BY DEF Init
  <2> QED
    BY <2>1, <2>2, FS_EmptySet DEF LossCovered, NoSilentLoss
<1>2. LossCovered /\ ReaderInv /\ [Next]_vars => LossCovered'
  <2> SUFFICES ASSUME LossCovered, ReaderInv, [Next]_vars PROVE LossCovered'
    OBVIOUS
  <2>1. CASE \E w \in Writers, s \in Seqs : Enqueue(w, s)
    BY <2>1, EnqueueCounts
  <2>2. CASE \E w \in Writers, s \in Seqs : ApplyGap(w, s)
    BY <2>2, ApplyGapCounts
  <2>3. CASE UNCHANGED rxVars
    BY <2>3 DEF rxVars, LossCovered, NoSilentLoss, Missing
  <2>4. UNCHANGED rxVars \/ (\E w \in Writers, s \in Seqs : Enqueue(w, s))
                         \/ (\E w \in Writers, s \in Seqs : ApplyGap(w, s))
    BY DEF Next, Expire, Take, Available, vars, rxVars
  <2> QED
    BY <2>1, <2>2, <2>3, <2>4
<1>3. LossCovered => NoSilentLoss
  BY DEF LossCovered
<1> QED
  BY <1>1, <1>2, <1>3, ReaderInvariant, PTL DEF Spec

-----------------------------------------------------------------------------
(* The queue *)

\* e is in the queue q.
Queued(q, e) == \E i \in 1 .. Len(q) : q[i] = e

\* The equation of the recursive function of SweepExpired(), for the expired
\* samples gone.
IsSweep(kept, q, gone) ==
  kept = [n \in 0 .. Len(q) |->
            IF n = 0 THEN <<>>
            ELSE IF q[n] \in gone THEN kept[n - 1] ELSE Append(kept[n - 1], q[n])]

\* new is what a sweep leaves of q.
Swept(new, q, gone, S) ==
  /\ new \in Seq(S)
  /\ \A e \in S : Queued(new, e) <=> Queued(q, e) /\ e \notin gone

\* A sample at the end of the queue.
LEMMA QueuedAppend ==
  ASSUME NEW S, NEW q \in Seq(S), NEW x \in S
  PROVE  /\ Append(q, x) \in Seq(S)
         /\ \A e : Queued(Append(q, x), e) <=> Queued(q, e) \/ e = x
<1>. PICK m \in Nat : m = Len(q)
  BY LenProperties
<1>. PICK new : new = Append(q, x)
  OBVIOUS
<1>1. /\ new \in Seq(S) /\ Len(new) = m + 1
      /\ \A k \in 1 .. m : new[k] = q[k]
      /\ new[m + 1] = x
  BY AppendProperties
<1>2. /\ m + 1 \in 1 .. (m + 1)
      /\ \A k \in 1 .. (m + 1) : k = m + 1 \/ k \in 1 .. m
      /\ \A k \in 1 .. m : k \in 1 .. (m + 1)
  OBVIOUS
<1>3. \A e : Queued(new, e) <=> Queued(q, e) \/ e = x
  BY <1>1, <1>2 DEF Queued
<1> QED
  BY <1>1, <1>3

\* sweep_expired_locked() keeps every sample that has not expired, and no other.
LEMMA SweepProperty ==
  ASSUME NEW S, NEW q \in Seq(S)
  PROVE  Swept(SweepExpired(q), q, expired, S)
<1>. PICK gone : gone = expired
  OBVIOUS
<1>. PICK len \in Nat : len = Len(q)
  BY LenProperties
<1>0. \A i \in 1 .. len : q[i] \in S
  BY LenProperties
<1>1. <<>> \in Seq(S)
  BY EmptySeq
<1>. PICK none : none = <<>>
  OBVIOUS
<1>2. \E kept : IsSweep(kept, q, gone)
  <2> DEFINE step == [p \in (1 .. len) \X Seq(S) |->
                        IF q[p[1]] \in gone THEN p[2] ELSE Append(p[2], q[p[1]])]
  <2>1. \A i \in 1 .. len, x \in Seq(S) :
          step[<<i, x>>] = IF q[i] \in gone THEN x ELSE Append(x, q[i])
    OBVIOUS
  <2> HIDE DEF step
  <2>2. ASSUME NEW i \in 1 .. len, NEW x \in Seq(S) PROVE step[<<i, x>>] \in Seq(S)
    <3>1. q[i] \in S
      BY <1>0
    <3>2. Append(x, q[i]) \in Seq(S)
      BY <3>1, AppendProperties
    <3>3. step[<<i, x>>] = x \/ step[<<i, x>>] = Append(x, q[i])
      BY <2>1
    <3> QED
      BY <3>2, <3>3
  <2>3. \E g \in [0 .. len -> Seq(S)] : IsRecursion(g, len, none, step)
    BY <1>1, <2>2, RecursionExists, Zenon
  <2>4. PICK g \in [0 .. len -> Seq(S)] : IsRecursion(g, len, none, step)
    BY <2>3
  <2>5. ASSUME NEW i \in 0 .. len
        PROVE  g[i] = IF i = 0 THEN none
                      ELSE IF q[i] \in gone THEN g[i - 1] ELSE Append(g[i - 1], q[i])
    <3>1. g[i] = IF i = 0 THEN none ELSE step[<<i, g[i - 1]>>]
      BY <2>4 DEF IsRecursion
    <3>2. CASE i # 0
      <4>1. i \in 1 .. len /\ i - 1 \in 0 .. len
        BY <3>2
      <4>2. g[i - 1] \in Seq(S)
        BY <4>1
      <4> QED
        BY <2>1, <3>1, <3>2, <4>1, <4>2
    <3> QED
      BY <3>1, <3>2
  <2>6. g = [i \in 0 .. len |->
               IF i = 0 THEN none
               ELSE IF q[i] \in gone THEN g[i - 1] ELSE Append(g[i - 1], q[i])]
    BY <2>5
  <2>7. IsSweep(g, q, gone)
    BY <2>6 DEF IsSweep
  <2> QED
    BY <2>7
<1> DEFINE kept == CHOOSE g : IsSweep(g, q, gone)
<1>3. IsSweep(kept, q, gone)
  <2> HIDE DEF IsSweep
  <2> QED
    BY <1>2
<1>4. SweepExpired(q) = kept[len]
  BY DEF SweepExpired, IsSweep
<1> HIDE DEF kept
<1>5. /\ kept[0] = none
      /\ \A i \in 1 .. len :
           kept[i] = IF q[i] \in gone THEN kept[i - 1] ELSE Append(kept[i - 1], q[i])
  <2>1. kept = [n \in 0 .. len |->
            IF n = 0 THEN none
            ELSE IF q[n] \in gone THEN kept[n - 1] ELSE Append(kept[n - 1], q[n])]
    BY <1>3 DEF IsSweep
  <2>2. \A i \in 0 .. len :
          kept[i] = IF i = 0 THEN none
                    ELSE IF q[i] \in gone THEN kept[i - 1] ELSE Append(kept[i - 1], q[i])
    BY <2>1
  <2>3. 0 \in 0 .. len /\ \A i \in 1 .. len : i \in 0 .. len /\ i # 0
    OBVIOUS
  <2> QED
    BY <2>2, <2>3
<1> DEFINE Right(k, new) ==
             /\ new \in Seq(S)
             /\ \A e : Queued(new, e) <=> (\E i \in 1 .. k : q[i] = e) /\ e \notin gone
           T == {k \in Nat : k <= len => Right(k, kept[k])}
<1>6. 0 \in T
  <2>1. Len(none) = 0 /\ 1 .. 0 = {}
    OBVIOUS
  <2> QED
    BY <1>1, <1>5, <2>1 DEF Queued
<1>7. ASSUME NEW k \in T PROVE k + 1 \in T
  <2>1. k \in Nat
    OBVIOUS
  <2> SUFFICES ASSUME k + 1 <= len PROVE Right(k + 1, kept[k + 1])
    BY <2>1
  <2>2. Right(k, kept[k]) /\ k + 1 \in 1 .. len /\ (k + 1) - 1 = k
    BY <2>1
  <2>. PICK old, new, x : old = kept[k] /\ new = kept[k + 1] /\ x = q[k + 1]
    OBVIOUS
  <2>3. x \in S /\ new = IF x \in gone THEN old ELSE Append(old, x)
    BY <1>0, <1>5, <2>2
  <2>4. \A e : (\E i \in 1 .. (k + 1) : q[i] = e) <=> (\E i \in 1 .. k : q[i] = e) \/ e = x
    <3>1. /\ k + 1 \in 1 .. (k + 1)
          /\ \A i \in 1 .. (k + 1) : i = k + 1 \/ i \in 1 .. k
          /\ \A i \in 1 .. k : i \in 1 .. (k + 1)
      BY <2>1
    <3> QED
      BY <3>1
  <2>5. CASE x \in gone
    BY <2>2, <2>3, <2>4, <2>5
  <2>6. CASE x \notin gone
    <3>1. /\ Append(old, x) \in Seq(S)
          /\ \A e : Queued(Append(old, x), e) <=> Queued(old, e) \/ e = x
      BY <2>2, <2>3, QueuedAppend
    <3> QED
      BY <2>2, <2>3, <2>4, <2>6, <3>1
  <2> QED
    BY <2>5, <2>6
<1>8. T = Nat
  <2>1. T \in SUBSET Nat
    OBVIOUS
  <2> HIDE DEF T
  <2> QED
    BY <1>6, <1>7, <2>1, SetInduction
<1>9. Right(len, kept[len])
  <2>1. len <= len
    OBVIOUS
  <2> HIDE DEF Right
  <2> QED
    BY <1>8, <2>1
<1> QED
  BY <1>4, <1>9 DEF Swept, Queued

\* Dropping from the front to the depth leaves a queue of samples, and leaves a
\* KEEP_ALL queue alone.
LEMMA TrimProperty ==
  ASSUME NEW S, NEW q \in Seq(S), qos \in QosProfiles
  PROVE  /\ TrimToDepth(q) \in Seq(S)
         /\ qos.history = "KEEP_ALL" => TrimToDepth(q) = q
<1>. PICK len \in Nat : len = Len(q)
  BY LenProperties
<1>1. \A i \in 1 .. len : q[i] \in S
  BY LenProperties
<1>2. qos.depth \in Nat
  BY ReaderAssumption DEF QosProfiles
<1>. PICK first \in Int : first = len - qos.depth + 1
  BY <1>2
<1>3. len > qos.depth => SubSeq(q, first, len) \in Seq(S)
  <2> SUFFICES ASSUME len > qos.depth PROVE SubSeq(q, first, len) \in Seq(S)
    OBVIOUS
  <2>1. \A i \in first .. len : i \in 1 .. len
    BY <1>2
  <2>2. \A i \in first .. len : q[i] \in S
    BY <1>1, <2>1
  <2> QED
    BY <2>2, SubSeqProperties
<1>4. qos.history = "KEEP_ALL" => qos.history # "KEEP_LAST"
  OBVIOUS
<1> QED
  BY <1>3, <1>4 DEF TrimToDepth

\* take() removes the first sample and no other.
LEMMA TailProperty ==
  ASSUME NEW S, NEW q \in Seq(S), q # <<>>
  PROVE  /\ Tail(q) \in Seq(S) /\ Head(q) \in S
         /\ \A e : Queued(q, e) => Queued(Tail(q), e) \/ e = Head(q)
<1>. PICK len \in Nat : len = Len(q)
  BY LenProperties
<1>. PICK rest : rest = Tail(q)
  OBVIOUS
<1>1. /\ rest \in Seq(S) /\ Head(q) \in S /\ Len(rest) = len - 1
      /\ \A i \in 1 .. Len(rest) : rest[i] = q[i + 1]
  BY HeadTailProperties
<1>2. Head(q) = q[1]
  OBVIOUS
<1>3. ASSUME NEW e, Queued(q, e) PROVE Queued(rest, e) \/ e = Head(q)
  <2>1. PICK i \in 1 .. len : q[i] = e
    BY <1>3 DEF Queued
  <2>2. CASE i = 1
    BY <1>2, <2>1, <2>2
  <2>3. CASE i # 1
    <3>1. i - 1 \in 1 .. Len(rest) /\ (i - 1) + 1 = i
      BY <1>1, <2>3
    <3>2. rest[i - 1] = e
      BY <1>1, <2>1, <3>1
    <3> QED
      BY <3>1, <3>2 DEF Queued
  <2> QED
    BY <2>2, <2>3
<1> QED
  BY <1>1, <1>3

\* The queue and what leaves it have their types, and a KEEP_ALL queue gives up
\* only what is taken or expires.
QueueTypeOK ==
  /\ qos \in QosProfiles
  /\ queue \in Seq(Samples)
  /\ expired \in SUBSET (Perishable \X Seqs)
  /\ taken \in SUBSET Samples

\* q still holds the samples that were queued, but for those taken or expired.
Holds(q, had, out, gone) ==
  \A w \in Writers, s \in Seqs :
    had[w][s] > 0 => \/ <<w, s>> \in out \cup gone
                     \/ Queued(q, <<w, s>>)

QueueInv ==
  /\ QueueTypeOK
  /\ qos.history = "KEEP_ALL" => Holds(queue, pushes, taken, expired)

\* Pairs are samples.
LEMMA PairIsSample ==
  ASSUME NEW w \in Writers, NEW s \in Seqs
  PROVE  <<w, s>> \in Samples
BY DEF Samples

\* The queue of a new reader is empty.
LEMMA QueueInit == Init => QueueInv
<1> SUFFICES ASSUME Init PROVE QueueInv
  OBVIOUS
<1>1. queue \in Seq(Samples)
  BY EmptySeq DEF Init
<1>2. \A w \in Writers, s \in Seqs : pushes[w][s] = 0
  BY DEF Init
<1>3. Holds(queue, pushes, taken, expired)
  BY <1>2 DEF Holds
<1> QED
  BY <1>1, <1>3 DEF Init, QueueInv, QueueTypeOK

\* What a sweep leaves still holds what was queued.
LEMMA SweepHolds ==
  ASSUME NEW q \in Seq(Samples), NEW had, NEW out, Holds(q, had, out, expired)
  PROVE  SweepExpired(q) \in Seq(Samples) /\ Holds(SweepExpired(q), had, out, expired)
<1>1. Swept(SweepExpired(q), q, expired, Samples)
  BY SweepProperty
<1>. PICK new : new = SweepExpired(q)
  OBVIOUS
<1>2. /\ new \in Seq(Samples)
      /\ \A e \in Samples : Queued(new, e) <=> Queued(q, e) /\ e \notin expired
  BY <1>1 DEF Swept
<1>3. ASSUME NEW w \in Writers, NEW s \in Seqs, had[w][s] > 0
      PROVE  <<w, s>> \in out \cup expired \/ Queued(new, <<w, s>>)
  <2>1. <<w, s>> \in Samples
    BY PairIsSample
  <2>2. <<w, s>> \in out \cup expired \/ Queued(q, <<w, s>>)
    BY <1>3 DEF Holds
  <2> QED
    BY <1>2, <2>1, <2>2
<1> QED
  BY <1>2, <1>3 DEF Holds

\* long is q with x at its end.
Longer(long, q, x, S) ==
  long \in Seq(S) /\ \A e : Queued(long, e) <=> Queued(q, e) \/ e = x

\* What QueuedAppend says, by its name.
LEMMA AppendIsLonger ==
  ASSUME NEW S, NEW q \in Seq(S), NEW x \in S
  PROVE  Longer(Append(q, x), q, x, S)
BY QueuedAppend DEF Longer

\* enqueue(): the sample goes to the end, or is not queued at all.
LEMMA QueueEnqueue ==
  ASSUME QueueInv, RxTypeOK, NEW w \in Writers, NEW s \in Seqs, Enqueue(w, s)
  PROVE  QueueInv'
<1>. PICK x : x = <<w, s>>
  OBVIOUS
<1>0. /\ x \in Samples /\ queue \in Seq(Samples) /\ qos \in QosProfiles
      /\ UNCHANGED <<qos, expired, taken>>
  BY PairIsSample DEF QueueInv, QueueTypeOK, Enqueue
<1>1. CASE ~IsDuplicate(rx[w], s) /\ x \notin expired
  <2>. PICK long, trimmed : long = Append(queue, x) /\ trimmed = TrimToDepth(long)
    OBVIOUS
  <2>1. /\ queue' = SweepExpired(trimmed)
        /\ pushes' = [pushes EXCEPT ![w][s] = @ + 1]
    BY <1>1 DEF Enqueue
  <2>2. /\ long \in Seq(Samples)
        /\ \A e : Queued(long, e) <=> Queued(queue, e) \/ e = x
    <3>1. queue \in Seq(Samples) /\ x \in Samples
      BY <1>0
    <3>2. Longer(Append(queue, x), queue, x, Samples)
      BY <3>1, AppendIsLonger, Zenon
    <3> QED
      BY <3>2, Zenon DEF Longer
  <2>3. trimmed \in Seq(Samples) /\ (qos.history = "KEEP_ALL" => trimmed = long)
    BY <1>0, <2>2, TrimProperty
  <2>4. queue' \in Seq(Samples)
    <3>1. Swept(SweepExpired(trimmed), trimmed, expired, Samples)
      BY <2>3, SweepProperty
    <3> QED
      BY <2>1, <3>1 DEF Swept
  <2>5. ASSUME qos.history = "KEEP_ALL"
        PROVE  Holds(queue, pushes, taken, expired)'
    <3>1. ASSUME NEW v \in Writers, NEW t \in Seqs, pushes'[v][t] > 0
          PROVE  <<v, t>> \in taken \cup expired \/ Queued(long, <<v, t>>)
      <4>1. CASE v = w /\ t = s
        BY <2>2, <4>1
      <4>2. CASE ~(v = w /\ t = s)
        <5>1. pushes'[v][t] = pushes[v][t]
          BY <2>1, <4>2 DEF RxTypeOK
        <5>2. Holds(queue, pushes, taken, expired)
          BY <2>5 DEF QueueInv
        <5>3. <<v, t>> \in taken \cup expired \/ Queued(queue, <<v, t>>)
          BY <3>1, <5>1, <5>2 DEF Holds
        <5> QED
          BY <2>2, <5>3
      <4> QED
        BY <4>1, <4>2
    <3>. PICK had : had = pushes'
      OBVIOUS
    <3>2. Holds(long, had, taken, expired)
      BY <3>1 DEF Holds
    <3>3. Holds(SweepExpired(long), had, taken, expired)
      BY <2>2, <3>2, SweepHolds
    <3> QED
      BY <1>0, <2>1, <2>3, <2>5, <3>3 DEF Holds
  <2> QED
    BY <1>0, <2>4, <2>5 DEF QueueInv, QueueTypeOK
<1>2. CASE ~(~IsDuplicate(rx[w], s) /\ x \notin expired)
  <2>1. queue' = queue /\ pushes' = [pushes EXCEPT ![w][s] = @]
    BY <1>2 DEF Enqueue
  <2>2. pushes' = pushes
    BY <2>1 DEF RxTypeOK
  <2> QED
    BY <1>0, <2>1, <2>2 DEF QueueInv, QueueTypeOK, Holds, Queued
<1> QED
  BY <1>1, <1>2

\* take() returns the first sample that has not expired, and loses no other.
LEMMA QueueTake ==
  ASSUME QueueInv, Take
  PROVE  QueueInv'
<1>. PICK live : live = SweepExpired(queue)
  OBVIOUS
<1>0. /\ queue \in Seq(Samples) /\ UNCHANGED <<qos, expired, pushes>>
  BY DEF QueueInv, QueueTypeOK, Take, rxVars
<1>1. live \in Seq(Samples)
  BY <1>0, SweepProperty DEF Swept
<1>2. qos.history = "KEEP_ALL" => Holds(live, pushes, taken, expired)
  BY <1>0, SweepHolds DEF QueueInv
<1>3. CASE live = <<>>
  <2>1. queue' = live /\ taken' = taken
    BY <1>3 DEF Take
  <2> QED
    BY <1>0, <1>1, <1>2, <2>1 DEF QueueInv, QueueTypeOK, Holds, Queued
<1>4. CASE live # <<>>
  <2>. PICK rest, first : rest = Tail(live) /\ first = Head(live)
    OBVIOUS
  <2>1. queue' = rest /\ taken' = taken \cup {first}
    BY <1>4 DEF Take
  <2>2. /\ rest \in Seq(Samples) /\ first \in Samples
        /\ \A e : Queued(live, e) => Queued(rest, e) \/ e = first
    BY <1>1, <1>4, TailProperty
  <2>3. taken' \in SUBSET Samples
    BY <2>1, <2>2 DEF QueueInv, QueueTypeOK
  <2>4. ASSUME qos.history = "KEEP_ALL"
        PROVE  Holds(rest, pushes, taken', expired)
    <3>1. ASSUME NEW v \in Writers, NEW t \in Seqs, pushes[v][t] > 0
          PROVE  <<v, t>> \in taken' \cup expired \/ Queued(rest, <<v, t>>)
      BY <1>2, <2>1, <2>2, <2>4, <3>1 DEF Holds
    <3> QED
      BY <3>1 DEF Holds
  <2>5. qos.history = "KEEP_ALL" => Holds(queue, pushes, taken, expired)'
    BY <1>0, <2>1, <2>4 DEF Holds, Queued
  <2> QED
    BY <1>0, <2>1, <2>2, <2>3, <2>5 DEF QueueInv, QueueTypeOK
<1> QED
  BY <1>3, <1>4

\* available() loses only what has expired.
LEMMA QueueAvailable ==
  ASSUME QueueInv, Available
  PROVE  QueueInv'
<1>. PICK live : live = SweepExpired(queue)
  OBVIOUS
<1>0. /\ queue \in Seq(Samples) /\ queue' = live
      /\ UNCHANGED <<qos, expired, pushes, taken>>
  BY DEF QueueInv, QueueTypeOK, Available, rxVars
<1>1. live \in Seq(Samples)
  BY <1>0, SweepProperty DEF Swept
<1>2. qos.history = "KEEP_ALL" => Holds(live, pushes, taken, expired)
  BY <1>0, SweepHolds DEF QueueInv
<1> QED
  BY <1>0, <1>1, <1>2 DEF QueueInv, QueueTypeOK, Holds, Queued

\* Only a sample of a writer with a lifespan expires.
LEMMA QueueExpire ==
  ASSUME QueueInv, NEW w \in Writers, NEW s \in Seqs, Expire(w, s)
  PROVE  QueueInv'
<1>1. /\ w \in Perishable /\ expired' = expired \cup {<<w, s>>}
      /\ UNCHANGED <<qos, queue, taken, pushes>>
  BY DEF Expire, rxVars
<1>2. expired' \in SUBSET (Perishable \X Seqs)
  BY <1>1 DEF QueueInv, QueueTypeOK
<1>3. qos.history = "KEEP_ALL" => Holds(queue, pushes, taken, expired)'
  BY <1>1 DEF QueueInv, Holds, Queued
<1> QED
  BY <1>1, <1>2, <1>3 DEF QueueInv, QueueTypeOK

\* Together with the receive state, the invariant of the queue is inductive.
LEMMA QueueInvariant == Spec => []QueueInv
<1>1. QueueInv /\ ReaderInv /\ [Next]_vars => QueueInv'
  <2> SUFFICES ASSUME QueueInv, ReaderInv, [Next]_vars PROVE QueueInv'
    OBVIOUS
  <2>0. RxTypeOK
    BY DEF ReaderInv
  <2>1. CASE \E w \in Writers, s \in Seqs : Enqueue(w, s)
    BY <2>0, <2>1, QueueEnqueue
  <2>2. CASE \E w \in Writers, s \in Seqs : ApplyGap(w, s)
    <3>1. UNCHANGED <<qos, queue, expired, taken, pushes>>
      BY <2>2 DEF ApplyGap
    <3> QED
      BY <3>1 DEF QueueInv, QueueTypeOK, Holds, Queued
  <2>3. CASE \E w \in Writers, s \in Seqs : Expire(w, s)
    BY <2>3, QueueExpire
  <2>4. CASE Take
    BY <2>4, QueueTake
  <2>5. CASE Available
    BY <2>5, QueueAvailable
  <2>6. CASE UNCHANGED vars
    BY <2>6 DEF vars, QueueInv, QueueTypeOK, Holds, Queued
  <2> QED
    BY <2>1, <2>2, <2>3, <2>4, <2>5, <2>6 DEF Next
<1> QED
  BY <1>1, QueueInit, ReaderInvariant, PTL DEF Spec

\* The queue of ReaderImpl holds samples of its writers only, and only samples
\* of writers with a lifespan expire.
THEOREM ReaderWellTyped == Spec => []TypeOK
<1>1. ReaderInv /\ QueueInv => TypeOK
  BY DEF ReaderInv, QueueInv, QueueTypeOK, TypeOK
<1> QED
  BY <1>1, ReaderInvariant, QueueInvariant, PTL

\* A KEEP_ALL reader gives up no sample that enqueue() queued before it is
\* taken or its lifespan runs out.
THEOREM KeepAllKeepsHolds == Spec => []KeepAllKeeps
<1>1. QueueInv => KeepAllKeeps
  <2> SUFFICES ASSUME QueueInv, qos.history = "KEEP_ALL",
                      NEW w \in Writers, NEW s \in Seqs, pushes[w][s] > 0
               PROVE  \/ <<w, s>> \in taken \cup expired
                      \/ \E i \in DOMAIN queue : queue[i] = <<w, s>>
    BY DEF KeepAllKeeps
  <2>1. DOMAIN queue = 1 .. Len(queue)
    BY LenProperties DEF QueueInv, QueueTypeOK
  <2>2. <<w, s>> \in taken \cup expired \/ Queued(queue, <<w, s>>)
    BY DEF QueueInv, Holds
  <2> QED
    BY <2>1, <2>2 DEF Queued
<1> QED
  BY <1>1, QueueInvariant, PTL
=============================================================================
