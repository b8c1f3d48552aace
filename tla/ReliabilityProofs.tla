------------------------- MODULE ReliabilityProofs -------------------------
(***************************************************************************)
(* The safety of the reliability protocol, proved for every set of threads  *)
(* and readers, every window width and every bound: the types, the          *)
(* contiguity of the writer's history that handle_acknack() relies on, that *)
(* no reader gets ahead of its writer, and that a GAP gives up only what    *)
(* the writer can not or may not supply.                                    *)
(***************************************************************************)
EXTENDS Reliability, DataLemmas, SequenceTheorems

-----------------------------------------------------------------------------
(* The inductive invariant *)

\* A call that stamped its sample read a clock that had started, and a call that
\* committed one holds a sequence number that was claimed.
CallsSound ==
  \A t \in Threads :
    /\ call[t].at = "stamped" => call[t].pub >= 1
    /\ call[t].at = "committed" => call[t].seq \in 1 .. seq

\* The history remembers when its samples were published.
HistoryTimed ==
  \A i \in DOMAIN history : history[i].pub = pub_time[history[i].seq]

\* A writer without a cache has no history.
HistoryUsed == Caches \/ history = <<>>

\* Everything up to e may be given up by r: e predates the volatile reader, or
\* the history no longer goes back to it.
Justified(r, e) ==
  /\ e <= seq
  /\ \/ ~Entitled(r, e)
     \/ \A i \in DOMAIN history : e < history[i].seq

\* What is on the network was published, and its GAPs are justified.
FramesSound ==
  \A m \in net :
    /\ m.type = "DATA" => m.seq <= seq
    /\ m.type = "GAP" => Justified(m.reader, m.end)

\* A receive state reaches no further than sample n.
Within(st, n) ==
  /\ st.last_seq <= n
  /\ \A b \in st.window : SeqOfBit(st, b) <= n

\* Receive states are empty until the first frame, and behind the writer.
ReceiversSound ==
  \A r \in Readers :
    /\ rx[r].known \/ rx[r] = NoRxState
    /\ Within(rx[r], seq)

\* What a reader gave up lies at or below a justified GAP.
GapsJustified ==
  \A r \in Readers : \A s \in gapped[r] : \E e \in s .. seq : Justified(r, e)

ReliabilityInv ==
  /\ TypeOK
  /\ CallsSound
  /\ HistoryContiguous
  /\ HistoryTimed
  /\ HistoryUsed
  /\ FramesSound
  /\ ReceiversSound
  /\ GapsJustified
-----------------------------------------------------------------------------
(* What the operations make of a receive state and of the history *)

\* The slide of enqueue() stops at the first 0-bit.
LEMMA LeadingOnesProperty ==
  ASSUME NEW window \in SUBSET Bits
  PROVE  /\ LeadingOnes(window) \in 0 .. Window
         /\ LeadingOnes(window) \notin window
         /\ \A b \in Bits : b < LeadingOnes(window) => b \in window
<1>1. Window \in Nat /\ window \in SUBSET (0 .. (Window - 1))
  BY WindowAssumption DEF Bits
<1>2. \E n \in 0 .. Window : n \notin window /\ \A b \in Bits : b < n => b \in window
  BY <1>1, LowestAbsent DEF Bits
<1> QED
  BY <1>2 DEF LeadingOnes

\* A contiguous sample takes the baseline over bits that are set, and moves the
\* others with it.
LEMMA SlideWithin ==
  ASSUME NEW st \in RxState, NEW n \in Nat, st.last_seq + 1 <= n, Within(st, n)
  PROVE  /\ SlideOver(st) \in RxState /\ SlideOver(st).known
         /\ Within(SlideOver(st), n)
<1> DEFINE shifted == ShiftRight(st.window, 1)
           run == LeadingOnes(shifted)
<1>1. shifted \in SUBSET Bits
  BY DEF ShiftRight
<1>2. /\ run \in 0 .. Window
      /\ \A b \in Bits : b < run => b \in shifted
  BY <1>1, LeadingOnesProperty
<1> HIDE DEF run
<1>3. SlideOver(st) = [known |-> TRUE, last_seq |-> st.last_seq + 1 + run,
                       window |-> ShiftRight(shifted, run)]
  BY DEF SlideOver, run
<1>4. st.last_seq \in Nat /\ run \in Nat /\ st.window \in SUBSET Bits
  BY <1>2, WindowAssumption DEF RxState
<1>5. SlideOver(st) \in RxState /\ SlideOver(st).known
  BY <1>3, <1>4 DEF RxState, ShiftRight
<1>6. \A b \in Nat : b + 1 \in st.window => st.last_seq + 1 + (b + 1) <= n
  BY <1>4 DEF Within, SeqOfBit
<1>7. \A b \in shifted : b \in Nat /\ b + 1 \in st.window
  BY WindowAssumption DEF ShiftRight, Bits
<1>8. st.last_seq + 1 + run <= n
  <2>1. CASE run = 0
    BY <1>4, <2>1
  <2>2. CASE run # 0
    <3>1. run - 1 \in Bits /\ run - 1 < run
      BY <1>2, <1>4, <2>2, WindowAssumption DEF Bits
    <3>2. run - 1 \in shifted
      BY <1>2, <3>1
    <3>3. run - 1 \in Nat /\ (run - 1) + 1 \in st.window
      BY <1>7, <3>2
    <3> QED
      BY <1>4, <1>6, <3>3
  <2> QED
    BY <2>1, <2>2
<1>9. ASSUME NEW b \in SlideOver(st).window PROVE SeqOfBit(SlideOver(st), b) <= n
  <2>1. b \in Nat /\ b + run \in shifted
    BY <1>3, <1>9, WindowAssumption DEF ShiftRight, Bits
  <2>2. b + run \in Nat /\ (b + run) + 1 \in st.window
    BY <1>7, <2>1
  <2>3. st.last_seq + 1 + ((b + run) + 1) <= n
    BY <1>6, <2>2
  <2>4. SeqOfBit(SlideOver(st), b) = (st.last_seq + 1 + run) + 1 + b
    BY <1>3 DEF SeqOfBit
  <2> QED
    BY <1>4, <2>1, <2>3, <2>4
<1>10. SlideOver(st).last_seq <= n
  BY <1>3, <1>8
<1> QED
  BY <1>5, <1>9, <1>10 DEF Within

\* A sample that was published takes a reader no further than the writer is.
LEMMA EnqueueWithin ==
  ASSUME NEW st \in RxState, NEW s \in Nat, NEW n \in Nat, s <= n, Within(st, n)
  PROVE  /\ AfterEnqueue(st, s) \in RxState
         /\ AfterEnqueue(st, s).known
         /\ Within(AfterEnqueue(st, s), n)
         /\ LostByEnqueue(st, s) \in Nat
<1>a. PICK new : new = AfterEnqueue(st, s)
  OBVIOUS
<1>1. /\ st.last_seq \in Nat
      /\ st.window \in SUBSET Bits
      /\ Bits \subseteq Nat
      /\ st.last_seq <= n /\ \A b \in st.window : st.last_seq + 1 + b <= n
  BY WindowAssumption DEF RxState, Bits, Within, SeqOfBit
<1>2. LostByEnqueue(st, s) \in Nat
  BY <1>1, WindowAssumption DEF LostByEnqueue, Jumps, Offset
<1>3. CASE s <= st.last_seq
  <2>1. new = [st EXCEPT !.known = TRUE]
    BY <1>1, <1>3, <1>a DEF AfterEnqueue, Jumps
  <2>2. /\ new \in RxState /\ new.known
        /\ new.last_seq = st.last_seq /\ new.window = st.window
    BY <2>1 DEF RxState
  <2> QED
    BY <1>1, <1>2, <1>a, <2>2 DEF Within, SeqOfBit
<1>4. CASE Jumps(st, s)
  <2>1. ~(s <= st.last_seq) /\ s # st.last_seq + 1
    BY <1>1, <1>4, WindowAssumption DEF Jumps, Offset
  <2>2. new = [known |-> TRUE, last_seq |-> s, window |-> {}]
    BY <1>4, <1>a, <2>1 DEF AfterEnqueue
  <2> QED
    BY <1>2, <1>a, <2>2 DEF Within, RxState
<1>5. CASE s = st.last_seq + 1 /\ ~Jumps(st, s)
  <2>1. new = SlideOver(st)
    BY <1>1, <1>5, <1>a DEF AfterEnqueue
  <2> QED
    BY <1>2, <1>5, <1>a, <2>1, SlideWithin
<1>6. CASE s > st.last_seq + 1 /\ ~Jumps(st, s)
  <2>1. new = [st EXCEPT !.known = TRUE, !.window = @ \cup {Offset(st, s)}]
    BY <1>1, <1>6, <1>a DEF AfterEnqueue
  <2>2. Offset(st, s) \in Bits /\ st.last_seq + 1 + Offset(st, s) = s
    BY <1>1, <1>6, WindowAssumption DEF Jumps, Offset, Bits
  <2>3. /\ new \in RxState /\ new.known
        /\ new.last_seq = st.last_seq
        /\ new.window = st.window \cup {Offset(st, s)}
    BY <2>1, <2>2 DEF RxState
  <2>4. \A b \in new.window : st.last_seq + 1 + b <= n
    BY <1>1, <2>2, <2>3
  <2> QED
    BY <1>1, <1>2, <1>a, <2>3, <2>4 DEF Within, SeqOfBit
<1> QED
  BY <1>1, <1>3, <1>4, <1>5, <1>6

\* Neither does a GAP that ends at a published sample.
LEMMA GapWithin ==
  ASSUME NEW st \in RxState, NEW e \in Nat, NEW n \in Nat, e <= n, Within(st, n)
  PROVE  /\ AfterGap(st, e) \in RxState
         /\ AfterGap(st, e).known
         /\ Within(AfterGap(st, e), n)
<1>a. PICK new : new = AfterGap(st, e)
  OBVIOUS
<1>1. /\ st.last_seq \in Nat
      /\ st.window \in SUBSET Bits
      /\ Bits \subseteq Nat
      /\ st.last_seq <= n /\ \A b \in st.window : st.last_seq + 1 + b <= n
  BY WindowAssumption DEF RxState, Bits, Within, SeqOfBit
<1>2. CASE ~st.known
  <2>1. new = [known |-> TRUE, last_seq |-> e, window |-> {}]
    BY <1>2, <1>a DEF AfterGap
  <2> QED
    BY <1>a, <2>1 DEF Within, RxState
<1>3. CASE st.known /\ e <= st.last_seq
  <2>1. new = st
    BY <1>3, <1>a DEF AfterGap
  <2> QED
    BY <1>3, <1>a, <2>1
<1>4. CASE st.known /\ e > st.last_seq
  <2> DEFINE span == e - st.last_seq
  <2>1. new = [st EXCEPT !.last_seq = e, !.window = ShiftRight(@, span)]
    BY <1>1, <1>4, <1>a DEF AfterGap
  <2>2. /\ new.last_seq = e /\ new.known
        /\ new.window = ShiftRight(st.window, span)
        /\ new \in RxState
    BY <1>4, <2>1 DEF RxState, ShiftRight
  <2>3. \A b \in new.window : b \in Nat /\ b + span \in st.window
    BY <1>1, <1>4, <2>2, WindowAssumption DEF ShiftRight, Bits
  <2>4. \A b \in new.window : SeqOfBit(new, b) <= n
    BY <1>1, <1>4, <2>2, <2>3 DEF SeqOfBit
  <2> QED
    BY <1>a, <2>2, <2>4 DEF Within
<1> QED
  BY <1>1, <1>2, <1>3, <1>4 DEF RxState

\* What a GAP adds to the loss counter is never negative: the window holds no
\* more receipts below the end of the gap than the gap is long.
LEMMA LostByGapNatural ==
  ASSUME NEW st \in RxState, NEW gapEnd \in Nat
  PROVE  LostByGap(st, gapEnd) \in Nat
<1>1. st.last_seq \in Nat
  BY DEF RxState
<1>2. CASE st.known /\ gapEnd > st.last_seq
  <2> DEFINE span == gapEnd - st.last_seq
             low == {b \in st.window : b < span}
  <2>1. span \in Nat /\ low \subseteq 0 .. (span - 1)
    <3>1. \A b \in st.window : b \in Nat
      BY WindowAssumption DEF RxState, Bits
    <3> QED
      BY <1>1, <1>2, <3>1
  <2>2. Cardinality(low) \in Nat /\ Cardinality(low) <= span
    <3> HIDE DEF span, low
    <3> QED
      BY <2>1, CountBelow
  <2> QED
    BY <1>2, <2>1, <2>2 DEF LostByGap
<1>3. CASE ~(st.known /\ gapEnd > st.last_seq)
  BY <1>3 DEF LostByGap
<1> QED
  BY <1>2, <1>3

\* What is left of a sequence once d entries are taken from its front.
LEMMA SuffixProperties ==
  ASSUME NEW E, NEW s \in Seq(E), NEW d \in 0 .. Len(s)
  PROVE  /\ SubSeq(s, d + 1, Len(s)) \in Seq(E)
         /\ Len(SubSeq(s, d + 1, Len(s))) = Len(s) - d
         /\ \A i \in 1 .. (Len(s) - d) : SubSeq(s, d + 1, Len(s))[i] = s[i + d]
<1> DEFINE m == d + 1
           n == Len(s)
           c == SubSeq(s, m, n)
<1>1. n \in Nat /\ d \in Nat /\ d <= n
  BY LenProperties
<1>2. m \in Int /\ n \in Int /\ \A i \in m .. n : s[i] \in E
  <2>1. \A i \in m .. n : i \in 1 .. n
    BY <1>1
  <2> QED
    BY <1>1, <2>1, LenProperties
<1> HIDE DEF m, n
<1>3. /\ c \in Seq(E)
      /\ Len(c) = IF m <= n THEN n - m + 1 ELSE 0
      /\ \A i \in 1 .. (n - m + 1) : c[i] = s[m + i - 1]
  BY <1>2, SubSeqProperties
<1> HIDE DEF c
<1>4. n - m + 1 = n - d /\ Len(c) = n - d
  BY <1>1, <1>3 DEF m
<1>5. \A i \in 1 .. (n - d) : m + i - 1 = i + d
  BY <1>1 DEF m
<1>6. \A i \in 1 .. (n - d) : c[i] = s[i + d]
  BY <1>3, <1>4, <1>5
<1> QED
  BY <1>3, <1>4, <1>6 DEF c, m, n

\* Exactly the first d entries of c have expired, as the loop of cache_sample()
\* sees it.
FrontExpired(c, d) ==
  /\ \A i \in 1 .. d : LifespanExpired(c[i].pub)
  /\ d < Len(c) => ~LifespanExpired(c[d + 1].pub)

\* That loop stops somewhere.
LEMMA FrontExpiredExists ==
  ASSUME NEW c, NEW n \in Nat, n = Len(c)
  PROVE  \E d \in 0 .. n : FrontExpired(c, d)
<1> DEFINE D == {d \in 0 .. n : d < n => ~LifespanExpired(c[d + 1].pub)}
<1>1. n \in D /\ D \in SUBSET Nat
  OBVIOUS
<1> HIDE DEF D
<1>2. PICK d \in D : \A x \in D : d <= x
  BY <1>1, LeastNatural
<1>3. d \in 0 .. n /\ (d < n => ~LifespanExpired(c[d + 1].pub))
  BY DEF D
<1>4. ASSUME NEW i \in 1 .. d PROVE LifespanExpired(c[i].pub)
  <2>1. i - 1 \in 0 .. n /\ ~(d <= i - 1) /\ (i - 1) + 1 = i
    BY <1>3
  <2>2. i - 1 \notin D
    BY <1>2, <2>1
  <2>3. ~(i - 1 < n => ~LifespanExpired(c[(i - 1) + 1].pub))
    BY <2>1, <2>2 DEF D
  <2> QED
    BY <2>1, <2>3
<1> QED
  BY <1>3, <1>4 DEF FrontExpired

\* c is what is left of the history h with an entry appended, after k entries
\* were taken from its front.
KeepsRest(c, h, entry, k) ==
  /\ Len(c) = Len(h) + 1 - k
  /\ \A i \in 1 .. Len(c) : c[i] = Append(h, entry)[i + k]

\* cache_sample() appends, and takes entries only from the front.
LEMMA CachedProperty ==
  ASSUME NEW E, NEW h \in Seq(E), NEW entry \in E, qos.cap \in Nat
  PROVE  /\ Cached(h, entry) \in Seq(E)
         /\ \E k \in 0 .. (Len(h) + 1) : KeepsRest(Cached(h, entry), h, entry, k)
<1> DEFINE pushed == Append(h, entry)
           over == IF Len(pushed) > qos.cap THEN Len(pushed) - qos.cap ELSE 0
           capped == IF Len(pushed) > qos.cap
                     THEN SubSeq(pushed, Len(pushed) - qos.cap + 1, Len(pushed))
                     ELSE pushed
           dead == CHOOSE d \in 0 .. Len(capped) : FrontExpired(capped, d)
           c == SubSeq(capped, dead + 1, Len(capped))
<1>0. Cached(h, entry) = c
  BY DEF Cached, FrontExpired
<1>1. pushed \in Seq(E) /\ Len(pushed) = Len(h) + 1 /\ Len(h) \in Nat
  BY AppendProperties, LenProperties
<1> HIDE DEF pushed
<1>2. over \in 0 .. Len(pushed)
  BY <1>1
<1>3. /\ capped \in Seq(E)
      /\ Len(capped) = Len(pushed) - over
      /\ \A i \in 1 .. (Len(pushed) - over) : capped[i] = pushed[i + over]
  <2>1. CASE Len(pushed) > qos.cap
    <3>1. over = Len(pushed) - qos.cap
      BY <2>1
    <3>2. capped = SubSeq(pushed, over + 1, Len(pushed))
      BY <2>1, <3>1
    <3> HIDE DEF over, capped
    <3> QED
      BY <1>1, <1>2, <3>2, SuffixProperties
  <2>2. CASE ~(Len(pushed) > qos.cap)
    <3>1. over = 0 /\ capped = pushed
      BY <2>2
    <3> HIDE DEF over, capped
    <3>2. Len(pushed) - 0 = Len(pushed) /\ \A i \in 1 .. Len(pushed) : i + 0 = i
      BY <1>1
    <3> QED
      BY <1>1, <3>1, <3>2
  <2> QED
    BY <2>1, <2>2
<1> HIDE DEF over, capped
<1>4. Len(capped) \in Nat
  BY <1>3, LenProperties
<1>5. dead \in 0 .. Len(capped)
  <2>1. \E d \in 0 .. Len(capped) : FrontExpired(capped, d)
    BY <1>4, FrontExpiredExists
  <2> QED
    BY <2>1
<1> HIDE DEF dead
<1>6. /\ c \in Seq(E)
      /\ Len(c) = Len(capped) - dead
      /\ \A i \in 1 .. (Len(capped) - dead) : c[i] = capped[i + dead]
  BY <1>3, <1>5, SuffixProperties
<1> HIDE DEF c
<1> DEFINE k == over + dead
<1>7. /\ k \in 0 .. (Len(h) + 1)
      /\ Len(capped) - dead = Len(h) + 1 - k
  BY <1>1, <1>2, <1>3, <1>4, <1>5
<1>8. ASSUME NEW i \in 1 .. (Len(capped) - dead) PROVE c[i] = pushed[i + k]
  <2>1. i + dead \in 1 .. (Len(pushed) - over) /\ (i + dead) + over = i + k
    BY <1>1, <1>2, <1>3, <1>4, <1>5
  <2>2. c[i] = capped[i + dead]
    BY <1>6
  <2>3. capped[i + dead] = pushed[(i + dead) + over]
    BY <1>3, <2>1
  <2> QED
    BY <2>1, <2>2, <2>3
<1> HIDE DEF k
<1>9. KeepsRest(c, h, entry, k)
  BY <1>6, <1>7, <1>8 DEF KeepsRest, pushed
<1> QED
  BY <1>0, <1>6, <1>7, <1>9

-----------------------------------------------------------------------------
(* replay_local_history() *)

\* What a replay may make of a reader: a receive state that is behind the
\* writer, a loss that is a number, and samples that were published.
Outcomes ==
  {x \in [rx : RxState, lost : Nat, new : SUBSET Seqs] :
     (x.rx.known \/ x.rx = NoRxState) /\ Within(x.rx, seq)}

\* One entry of the history, as Replayed() takes it.
ReplayEntry(before, i) ==
  IF i \notin Live THEN before
  ELSE [rx   |-> AfterEnqueue(before.rx, history[i].seq),
        lost |-> before.lost + LostByEnqueue(before.rx, history[i].seq),
        new  |-> before.new \cup
                   IF IsDuplicate(before.rx, history[i].seq) THEN {} ELSE {history[i].seq}]

\* An entry of the history leaves the reader behind the writer.
LEMMA ReplayEntryProperty ==
  ASSUME \A i \in 1 .. Len(history) : history[i].seq \in Seqs /\ history[i].seq <= seq,
         seq \in Nat, MaxSeq \in Nat,
         NEW x \in Outcomes, NEW i \in 1 .. Len(history)
  PROVE  ReplayEntry(x, i) \in Outcomes
<1>1. CASE i \notin Live
  BY <1>1 DEF ReplayEntry
<1>2. CASE i \in Live
  <2>. PICK s : s = history[i].seq
    OBVIOUS
  <2>1. s \in Seqs /\ s <= seq /\ s \in Nat
    BY DEF Seqs
  <2>2. /\ x.rx \in RxState /\ x.lost \in Nat /\ x.new \in SUBSET Seqs
        /\ Within(x.rx, seq)
    BY DEF Outcomes
  <2>3. /\ AfterEnqueue(x.rx, s) \in RxState
        /\ AfterEnqueue(x.rx, s).known
        /\ Within(AfterEnqueue(x.rx, s), seq)
        /\ LostByEnqueue(x.rx, s) \in Nat
    BY <2>1, <2>2, EnqueueWithin
  <2>. PICK st, lost, new :
         /\ st = AfterEnqueue(x.rx, s)
         /\ lost = x.lost + LostByEnqueue(x.rx, s)
         /\ new = x.new \cup IF IsDuplicate(x.rx, s) THEN {} ELSE {s}
    OBVIOUS
  <2>4. lost \in Nat /\ new \in SUBSET Seqs
    BY <2>1, <2>2, <2>3
  <2>5. ReplayEntry(x, i) = [rx |-> st, lost |-> lost, new |-> new]
    BY <1>2 DEF ReplayEntry
  <2> HIDE DEF Seqs
  <2> QED
    BY <2>3, <2>4, <2>5 DEF Outcomes
<1> QED
  BY <1>1, <1>2

\* The equation of the recursive function of Replayed().
IsReplay(g, st) ==
  g = [i \in 0 .. Len(history) |->
         IF i = 0 THEN [rx |-> st, lost |-> 0, new |-> {}] ELSE ReplayEntry(g[i - 1], i)]

\* Replaying the history leaves the reader behind the writer.
LEMMA ReplayedProperty ==
  ASSUME \A i \in 1 .. Len(history) : history[i].seq \in Seqs /\ history[i].seq <= seq,
         seq \in Nat, MaxSeq \in Nat, Len(history) \in Nat,
         NEW st \in RxState, st.known \/ st = NoRxState, Within(st, seq)
  PROVE  Replayed(st) \in Outcomes
<1> DEFINE n == Len(history)
           first == [rx |-> st, lost |-> 0, new |-> {}]
<1>1. first \in Outcomes
  BY DEF Outcomes
<1>2. \A i \in 1 .. n, x \in Outcomes : ReplayEntry(x, i) \in Outcomes
  BY ReplayEntryProperty
<1>3. \E g : IsReplay(g, st)
  <2> DEFINE step == [p \in (1 .. n) \X Outcomes |-> ReplayEntry(p[2], p[1])]
  <2>1. \A i \in 1 .. n, x \in Outcomes : step[<<i, x>>] = ReplayEntry(x, i)
    OBVIOUS
  <2> HIDE DEF first, step, n
  <2>2. \A i \in 1 .. n, x \in Outcomes : step[<<i, x>>] \in Outcomes
    BY <1>2, <2>1
  <2>0. n \in Nat
    BY DEF n
  <2>3. PICK g \in [0 .. n -> Outcomes] :
          \A i \in 0 .. n : g[i] = IF i = 0 THEN first ELSE step[<<i, g[i - 1]>>]
    <3>1. \E g \in [0 .. n -> Outcomes] : IsRecursion(g, n, first, step)
      BY <1>1, <2>0, <2>2, RecursionExists, Zenon
    <3> QED
      BY <3>1, Zenon DEF IsRecursion
  <2>4. ASSUME NEW i \in 0 .. n
        PROVE  g[i] = IF i = 0 THEN first ELSE ReplayEntry(g[i - 1], i)
    <3>1. CASE i = 0
      BY <2>3, <3>1
    <3>2. CASE i # 0
      <4>1. i \in 1 .. n /\ i - 1 \in 0 .. n
        BY <2>0, <3>2
      <4>2. g[i] = step[<<i, g[i - 1]>>] /\ g[i - 1] \in Outcomes
        BY <2>3, <3>2, <4>1
      <4> QED
        BY <2>1, <3>2, <4>1, <4>2
    <3> QED
      BY <3>1, <3>2
  <2>5. g = [i \in 0 .. n |-> IF i = 0 THEN first ELSE ReplayEntry(g[i - 1], i)]
    BY <2>4
  <2>6. IsReplay(g, st)
    BY <2>5 DEF IsReplay, first, n
  <2> QED
    BY <2>6
<1> DEFINE state == CHOOSE g : IsReplay(g, st)
<1>4. IsReplay(state, st)
  <2> HIDE DEF IsReplay
  <2> QED
    BY <1>3
<1>5. Replayed(st) = state[n]
  BY DEF Replayed, IsReplay, ReplayEntry
<1> HIDE DEF state
<1>6. /\ state[0] = first
      /\ \A i \in 1 .. n : state[i] = ReplayEntry(state[i - 1], i)
  <2>1. \A i \in 0 .. n :
          state[i] = IF i = 0 THEN first ELSE ReplayEntry(state[i - 1], i)
    <3> HIDE DEF first
    <3>1. state = [i \in 0 .. n |-> IF i = 0 THEN first ELSE ReplayEntry(state[i - 1], i)]
      BY <1>4 DEF IsReplay, first
    <3> QED
      BY <3>1
  <2> HIDE DEF first
  <2> QED
    BY <2>1
<1> DEFINE T == {k \in Nat : k <= n => state[k] \in Outcomes}
<1> HIDE DEF first, n
<1>0. n \in Nat
  BY DEF n
<1>7. 0 \in T
  BY <1>1, <1>6
<1>8. ASSUME NEW k \in T PROVE k + 1 \in T
  <2>1. k \in Nat
    OBVIOUS
  <2> SUFFICES ASSUME k + 1 <= n PROVE state[k + 1] \in Outcomes
    BY <2>1
  <2>2. state[k] \in Outcomes /\ k + 1 \in 1 .. n /\ (k + 1) - 1 = k
    BY <1>0, <2>1
  <2>3. state[k + 1] = ReplayEntry(state[k], k + 1)
    BY <1>6, <2>2
  <2> QED
    BY <1>2, <2>2, <2>3
<1>9. T = Nat
  <2>1. T \in SUBSET Nat
    OBVIOUS
  <2> HIDE DEF T
  <2> QED
    BY <1>7, <1>8, <2>1, SetInduction
<1>10. state[n] \in Outcomes
  BY <1>0, <1>9
<1> QED
  BY <1>5, <1>10

-----------------------------------------------------------------------------
(* The invariant by the part of the state it is about *)

WriterTypes ==
  /\ now \in 1 .. MaxClock
  /\ qos \in WriterProfiles
  /\ seq \in 0 .. MaxSeq
  /\ history \in Seq([seq : Seqs, pub : 1 .. MaxClock])
  /\ call \in [Threads -> [at : {"idle", "stamped", "committed"}, pub : 0 .. MaxClock,
                           seq : 0 .. MaxSeq, send : BOOLEAN,
                           locals : SUBSET LocalReaders]]
  /\ pub_time \in [Seqs -> 0 .. MaxClock]

ReaderTypes ==
  /\ rx \in [Readers -> RxState]
  /\ lost_count \in [Readers -> Nat]
  /\ received \in [Readers -> SUBSET Seqs]
  /\ delivered \in [Readers -> SUBSET Seqs]
  /\ gapped \in [Readers -> SUBSET Seqs]

JoinTypes ==
  /\ birth \in [Readers -> 0 .. MaxClock]
  /\ unreplayed \subseteq LocalReaders
  /\ writer_knows \subseteq RemoteReaders
  /\ reader_knows \in BOOLEAN
  /\ calm \in BOOLEAN
  /\ downs \in 0 .. MaxDowns

WriterInv ==
  /\ WriterTypes /\ CallsSound
  /\ HistoryContiguous /\ HistoryTimed /\ HistoryUsed
ReceiverInv == ReaderTypes /\ ReceiversSound
NetInv == net \subseteq Frames /\ FramesSound

\* The invariant by the component it concerns.
LEMMA InvParts ==
  ReliabilityInv <=> WriterInv /\ ReceiverInv /\ JoinTypes /\ NetInv /\ GapsJustified
BY DEF ReliabilityInv, TypeOK, WriterInv, WriterTypes, ReceiverInv, ReaderTypes, JoinTypes,
       NetInv

\* The same of the next state.
LEMMA InvPartsPrimed ==
  (WriterInv /\ ReceiverInv /\ JoinTypes /\ NetInv /\ GapsJustified)' => ReliabilityInv'
BY InvParts, PTL

\* The numbers and the entries of a well-typed writer.
LEMMA WriterFacts ==
  ASSUME WriterInv
  PROVE  /\ MaxSeq \in Nat /\ MaxClock \in Nat
         /\ seq \in Nat /\ seq <= MaxSeq
         /\ Len(history) \in Nat /\ DOMAIN history = 1 .. Len(history)
         /\ \A i \in 1 .. Len(history) :
              /\ history[i].seq \in Seqs /\ history[i].pub \in 1 .. MaxClock
              /\ history[i].seq \in Nat
              /\ history[i].seq = seq - (Len(history) - i)
              /\ history[i].seq <= seq
              /\ history[i].pub = pub_time[history[i].seq]
<1>0. MaxSeq \in Nat /\ MaxClock \in Nat
  BY ReliabilityAssumption
<1>1. seq \in Nat /\ seq <= MaxSeq /\ history \in Seq([seq : Seqs, pub : 1 .. MaxClock])
  BY <1>0 DEF WriterInv, WriterTypes
<1>2. Len(history) \in Nat /\ DOMAIN history = 1 .. Len(history)
  BY <1>1, LenProperties
<1>3. \A i \in 1 .. Len(history) : history[i] \in [seq : Seqs, pub : 1 .. MaxClock]
  BY <1>1, LenProperties
<1>4. \A i \in 1 .. Len(history) :
        /\ history[i].seq = seq - (Len(history) - i)
        /\ history[i].pub = pub_time[history[i].seq]
  BY <1>2 DEF WriterInv, HistoryContiguous, HistoryTimed
<1> DEFINE n == Len(history)
<1>5. \A i \in 1 .. n : seq - (n - i) <= seq
  <2> HIDE DEF n
  <2>1. n \in Nat
    BY <1>2 DEF n
  <2> QED
    BY <1>1, <2>1
<1>6. Seqs \subseteq Nat
  BY <1>0 DEF Seqs
<1>7. \A i \in 1 .. n : history[i].seq \in Seqs /\ history[i].pub \in 1 .. MaxClock
  BY <1>3
<1> QED
  BY <1>0, <1>1, <1>2, <1>4, <1>5, <1>6, <1>7

\* A new writer has published nothing, and no reader has received anything.
LEMMA InitEstablishesInv == Init => ReliabilityInv
<1> SUFFICES ASSUME Init PROVE ReliabilityInv
  OBVIOUS
<1>0. MaxSeq \in Nat /\ MaxClock \in Nat /\ MaxClock >= 1 /\ MaxDowns \in Nat
  BY ReliabilityAssumption
<1>1. WriterTypes
  <2>1. Idle \in [at : {"idle", "stamped", "committed"}, pub : 0 .. MaxClock,
                  seq : 0 .. MaxSeq, send : BOOLEAN, locals : SUBSET LocalReaders]
    BY <1>0 DEF Idle
  <2>2. call \in [Threads -> [at : {"idle", "stamped", "committed"}, pub : 0 .. MaxClock,
                              seq : 0 .. MaxSeq, send : BOOLEAN,
                              locals : SUBSET LocalReaders]]
    BY <2>1 DEF Init
  <2>3. history \in Seq([seq : Seqs, pub : 1 .. MaxClock])
    BY EmptySeq DEF Init
  <2>4. pub_time \in [Seqs -> 0 .. MaxClock]
    BY <1>0 DEF Init
  <2>5. now \in 1 .. MaxClock /\ qos \in WriterProfiles /\ seq \in 0 .. MaxSeq
    BY <1>0 DEF Init
  <2> QED
    BY <2>2, <2>3, <2>4, <2>5 DEF WriterTypes
<1>2. WriterInv
  <2>1. DOMAIN history = {}
    <3>1. Len(history) = 0 /\ DOMAIN history = 1 .. 0
      BY DEF Init
    <3> QED
      BY <3>1
  <2>2. CallsSound
    BY DEF Init, Idle, CallsSound
  <2> QED
    BY <1>1, <2>1, <2>2 DEF WriterInv, HistoryContiguous, HistoryTimed, HistoryUsed, Init
<1>3. ReceiverInv
  <2>1. NoRxState \in RxState
    BY DEF NoRxState, RxState
  <2>2. ReaderTypes
    BY <2>1 DEF Init, ReaderTypes
  <2>3. Within(NoRxState, 0)
    BY DEF NoRxState, Within
  <2>4. ReceiversSound
    BY <2>3 DEF Init, ReceiversSound
  <2> QED
    BY <2>2, <2>4 DEF ReceiverInv
<1>4. JoinTypes
  <2>1. birth \in [Readers -> 0 .. MaxClock]
    BY <1>0 DEF Init
  <2>2. downs \in 0 .. MaxDowns
    BY <1>0 DEF Init
  <2> QED
    BY <2>1, <2>2 DEF Init, JoinTypes
<1>5. NetInv /\ GapsJustified
  BY DEF Init, NetInv, FramesSound, GapsJustified
<1> QED
  BY <1>2, <1>3, <1>4, <1>5, InvParts

-----------------------------------------------------------------------------
(* Frames *)

\* A frame that may be sent.
FrameSound(m) ==
  /\ m \in Frames
  /\ m.type = "DATA" => m.seq <= seq
  /\ m.type = "GAP" => Justified(m.reader, m.end)

\* What was justified stays so.
JustifiedKept ==
  \A r \in Readers, e \in Nat \ {0} : Justified(r, e) => Justified(r, e)'

\* The fields of each frame type.
LEMMA FrameFields ==
  ASSUME NEW m \in Frames
  PROVE  /\ m.type = "DATA" => m.seq \in Seqs
         /\ m.type = "ACKNACK" => /\ m.reader \in RemoteReaders
                                  /\ m.base \in 1 .. (MaxSeq + 1)
                                  /\ m.bitmap \in SUBSET Bits
         /\ m.type = "GAP" => /\ m.reader \in RemoteReaders
                              /\ m.end \in 1 .. (MaxSeq + Window)
<1>1. CASE m \in [type : {"DATA"}, seq : Seqs]
  BY <1>1
<1>2. CASE m \in [type : {"HEARTBEAT"}, first : 0 .. MaxSeq, last : 0 .. MaxSeq]
  BY <1>2
<1>3. CASE m \in [type : {"ACKNACK"}, reader : RemoteReaders, base : 1 .. (MaxSeq + 1),
                  bitmap : SUBSET Bits]
  BY <1>3
<1>4. CASE m \in [type : {"GAP"}, reader : RemoteReaders, start : 1 .. (MaxSeq + 1),
                  end : 1 .. (MaxSeq + Window)]
  BY <1>4
<1> QED
  BY <1>1, <1>2, <1>3, <1>4, Zenon DEF Frames

\* The network keeps frames, drops them, or takes new ones.
LEMMA NetKept ==
  ASSUME NetInv, JustifiedKept, seq \in Nat, seq' \in Nat, seq <= seq', MaxSeq \in Nat,
         NEW out, net' \subseteq net \cup out, \A m \in out : FrameSound(m)
  PROVE  NetInv'
<1>1. \A m \in net' : FrameSound(m)
  BY DEF NetInv, FramesSound, FrameSound
<1>2. Frames' = Frames
  BY DEF Frames, Seqs, Bits
<1>3. ASSUME NEW m \in net', m.type = "DATA" PROVE m.seq <= seq'
  <2>1. m.seq \in Seqs /\ m.seq <= seq
    BY <1>1, <1>3, FrameFields DEF FrameSound
  <2>2. m.seq \in Nat
    BY <2>1 DEF Seqs
  <2> QED
    BY <2>1, <2>2
<1>4. ASSUME NEW m \in net', m.type = "GAP" PROVE Justified(m.reader, m.end)'
  <2>1. /\ m.reader \in RemoteReaders /\ m.end \in 1 .. (MaxSeq + Window)
        /\ Justified(m.reader, m.end)
    BY <1>1, <1>4, FrameFields DEF FrameSound
  <2>2. m.reader \in Readers /\ m.end \in Nat \ {0}
    BY <2>1, WindowAssumption DEF Readers
  <2>3. ASSUME NEW r \in Readers, NEW e \in Nat \ {0}, r = m.reader, e = m.end
        PROVE  Justified(r, e)'
    BY <2>1, <2>3 DEF JustifiedKept
  <2> QED
    BY <2>2, <2>3
<1>5. net' \subseteq Frames
  BY <1>1 DEF FrameSound
<1> QED
  BY <1>2, <1>3, <1>4, <1>5 DEF NetInv, FramesSound

\* send() and the network: every frame there was there before or was just sent.
LEMMA SendTakes ==
  ASSUME NEW base, NEW out, base \subseteq net, Send(base, out)
  PROVE  net' \subseteq net \cup out
BY DEF Send

\* Receiving a frame leaves it in flight or takes it off the network.
LEMMA ReceiptTakes ==
  ASSUME NEW m, NEW base \in AfterReceipt(m)
  PROVE  base \subseteq net
BY DEF AfterReceipt

\* Nothing about the writer's samples or the readers' births changes.
LEMMA JustifiedUnchanged ==
  ASSUME UNCHANGED <<seq, history, pub_time, birth>>
  PROVE  JustifiedKept
BY DEF JustifiedKept, Justified, Entitled

\* A justified GAP goes on accounting for what a reader gave up.
LEMMA GapsKept ==
  ASSUME GapsJustified, JustifiedKept, seq \in Nat, seq' \in Nat, seq <= seq',
         ReaderTypes, gapped' = gapped, MaxSeq \in Nat
  PROVE  GapsJustified'
<1> SUFFICES ASSUME NEW r \in Readers, NEW s \in gapped[r]
             PROVE  \E e \in s .. seq' : Justified(r, e)'
  BY DEF GapsJustified, Readers
<1>1. s \in Seqs
  BY DEF ReaderTypes
<1>2. s \in Nat \ {0}
  BY <1>1 DEF Seqs
<1>3. PICK e \in s .. seq : Justified(r, e)
  BY DEF GapsJustified
<1>4. e \in Nat \ {0} /\ e \in s .. seq'
  BY <1>2
<1>5. Justified(r, e)'
  BY <1>3, <1>4 DEF JustifiedKept
<1> QED
  BY <1>4, <1>5

-----------------------------------------------------------------------------
(* What a step leaves alone *)

\* A step that leaves the writer alone keeps what concerns it.
LEMMA WriterUnchanged ==
  ASSUME WriterInv, now' \in 1 .. MaxClock, UNCHANGED writerVars
  PROVE  WriterInv'
BY DEF WriterInv, WriterTypes, CallsSound, HistoryContiguous, HistoryTimed, HistoryUsed,
       Caches, writerVars, Seqs

\* A writer that moves on stays ahead of its readers.
LEMMA ReceiversUnchanged ==
  ASSUME ReceiverInv, UNCHANGED readerVars, seq \in Nat, seq' \in Nat, seq <= seq'
  PROVE  ReceiverInv'
<1>1. ReaderTypes'
  BY DEF ReceiverInv, ReaderTypes, readerVars, RxState, Bits, Readers, Seqs
<1>2. ASSUME NEW r \in Readers PROVE Within(rx[r], seq')
  <2>1. rx[r] \in RxState /\ Within(rx[r], seq)
    BY DEF ReceiverInv, ReaderTypes, ReceiversSound
  <2>2. rx[r].last_seq \in Nat /\ \A b \in rx[r].window : b \in Nat
    BY <2>1, WindowAssumption DEF RxState, Bits
  <2>3. \A b \in rx[r].window : SeqOfBit(rx[r], b) \in Nat
    BY <2>2 DEF SeqOfBit
  <2> QED
    BY <2>1, <2>2, <2>3 DEF Within
<1>3. ReceiversSound'
  <2>1. rx' = rx
    BY DEF readerVars
  <2>2. \A r \in Readers : rx[r].known \/ rx[r] = NoRxState
    BY DEF ReceiverInv, ReceiversSound
  <2>3. \A r \in Readers : Within(rx[r], seq)' <=> Within(rx[r], seq')
    BY <2>1 DEF Within, SeqOfBit
  <2> QED
    BY <1>2, <2>1, <2>2, <2>3 DEF ReceiversSound
<1> QED
  BY <1>1, <1>3 DEF ReceiverInv

\* A step that leaves the endpoints alone keeps their types.
LEMMA JoinUnchanged ==
  ASSUME JoinTypes, UNCHANGED joinVars
  PROVE  JoinTypes'
BY DEF JoinTypes, joinVars, Readers

\* A step that publishes nothing and creates no reader: it keeps the invariant
\* if it keeps the writer, the readers and the endpoints, and sends nothing but
\* sound frames.
LEMMA QuietStep ==
  ASSUME ReliabilityInv, UNCHANGED <<seq, history, pub_time, birth, gapped>>,
         WriterInv', ReceiverInv', JoinTypes',
         NEW out, net' \subseteq net \cup out, \A m \in out : FrameSound(m)
  PROVE  ReliabilityInv'
<1>1. WriterInv /\ ReceiverInv /\ NetInv /\ GapsJustified
  BY InvParts
<1>2. MaxSeq \in Nat /\ seq \in Nat /\ seq' = seq /\ seq <= seq'
  BY <1>1, WriterFacts
<1>3. JustifiedKept
  BY JustifiedUnchanged
<1>4. NetInv'
  BY <1>1, <1>2, <1>3, NetKept
<1>5. GapsJustified'
  <2>1. ReaderTypes
    BY <1>1 DEF ReceiverInv
  <2> QED
    BY <1>1, <1>2, <1>3, <2>1, GapsKept
<1> QED
  BY <1>4, <1>5, InvPartsPrimed

\* The same, for a step that neither touches the network.
LEMMA SilentStep ==
  ASSUME ReliabilityInv, UNCHANGED <<seq, history, pub_time, birth, gapped, net>>,
         WriterInv', ReceiverInv', JoinTypes'
  PROVE  ReliabilityInv'
<1>. PICK out : out = {}
  OBVIOUS
<1>1. net' \subseteq net \cup out /\ \A m \in out : FrameSound(m)
  OBVIOUS
<1>2. UNCHANGED <<seq, history, pub_time, birth, gapped>>
  OBVIOUS
<1> QED
  BY <1>1, <1>2, QuietStep

\* The same, for a step that only sends.
LEMMA SendingStep ==
  ASSUME ReliabilityInv, UNCHANGED <<now, writerVars, readerVars, joinVars>>,
         NEW out, net' \subseteq net \cup out, \A m \in out : FrameSound(m)
  PROVE  ReliabilityInv'
<1>1. WriterInv /\ ReceiverInv /\ JoinTypes
  BY InvParts
<1>2. seq \in Nat /\ seq' = seq /\ seq <= seq'
  BY <1>1, WriterFacts DEF writerVars
<1>3. now' \in 1 .. MaxClock
  BY <1>1 DEF WriterInv, WriterTypes
<1>4. WriterInv' /\ ReceiverInv' /\ JoinTypes'
  BY <1>1, <1>2, <1>3, WriterUnchanged, ReceiversUnchanged, JoinUnchanged
<1>5. UNCHANGED <<seq, history, pub_time, birth, gapped>>
  BY DEF writerVars, joinVars, readerVars
<1> QED
  BY <1>4, <1>5, QuietStep

-----------------------------------------------------------------------------
(* write_sample() *)

\* The calls of the other threads stay, and the new one is well formed.
LEMMA CallChanges ==
  ASSUME WriterInv, NEW t \in Threads, NEW c, UNCHANGED <<now, qos, seq, history, pub_time>>,
         c \in [at : {"idle", "stamped", "committed"}, pub : 0 .. MaxClock,
                seq : 0 .. MaxSeq, send : BOOLEAN, locals : SUBSET LocalReaders],
         c.at = "stamped" => c.pub >= 1,
         c.at = "committed" => c.seq \in 1 .. seq,
         call' = [call EXCEPT ![t] = c]
  PROVE  WriterInv'
<1>1. WriterTypes'
  BY DEF WriterInv, WriterTypes, Seqs
<1>2. \A u \in Threads : call'[u] = IF u = t THEN c ELSE call[u]
  BY DEF WriterInv, WriterTypes
<1>3. CallsSound'
  BY <1>2 DEF WriterInv, CallsSound
<1> QED
  BY <1>1, <1>3 DEF WriterInv, HistoryContiguous, HistoryTimed, HistoryUsed, Caches

\* A thread outside write().
LEMMA IdleCall ==
  /\ Idle \in [at : {"idle", "stamped", "committed"}, pub : 0 .. MaxClock,
               seq : 0 .. MaxSeq, send : BOOLEAN, locals : SUBSET LocalReaders]
  /\ Idle.at = "idle"
BY ReliabilityAssumption DEF Idle

\* write() reads the clock before it takes the lock.
LEMMA StampWriteKeeps ==
  ASSUME ReliabilityInv, NEW t \in Threads, StampWrite(t)
  PROVE  ReliabilityInv'
<1>0. WriterInv /\ ReceiverInv /\ JoinTypes
  BY InvParts
<1>1. now \in 1 .. MaxClock /\ seq \in Nat /\ MaxClock \in Nat /\ MaxSeq \in Nat
  BY <1>0, WriterFacts DEF WriterInv, WriterTypes
<1>. PICK c : c = [at |-> "stamped", pub |-> now, seq |-> 0, send |-> FALSE, locals |-> {}]
  OBVIOUS
<1>2. c \in [at : {"idle", "stamped", "committed"}, pub : 0 .. MaxClock,
             seq : 0 .. MaxSeq, send : BOOLEAN, locals : SUBSET LocalReaders]
  BY <1>1
<1>3. c.at = "stamped" /\ c.pub >= 1
  BY <1>1
<1>4. /\ UNCHANGED <<now, qos, seq, history, pub_time, net, readerVars, joinVars>>
      /\ call' = [call EXCEPT ![t] = c]
  <2>. PICK d : d = [Idle EXCEPT !.at = "stamped", !.pub = now]
    OBVIOUS
  <2>1. d = [at |-> "stamped", pub |-> now, seq |-> 0, send |-> FALSE, locals |-> {}]
    BY DEF Idle
  <2>2. c = d
    BY <2>1, Zenon
  <2> QED
    BY <2>2, Zenon DEF StampWrite
<1>5. WriterInv'
  BY <1>0, <1>2, <1>3, <1>4, CallChanges
<1>6. ReceiverInv' /\ JoinTypes'
  BY <1>0, <1>1, <1>4, ReceiversUnchanged, JoinUnchanged
<1>7. UNCHANGED <<birth, gapped>>
  BY <1>4 DEF joinVars, readerVars
<1> QED
  BY <1>4, <1>5, <1>6, <1>7, SilentStep

\* write() of a full KEEP_ALL history changes nothing.
LEMMA RejectWriteKeeps ==
  ASSUME ReliabilityInv, NEW t \in Threads, RejectWrite(t)
  PROVE  ReliabilityInv'
<1>0. WriterInv /\ ReceiverInv /\ JoinTypes
  BY InvParts
<1>1. seq \in Nat
  BY <1>0, WriterFacts
<1>2. /\ UNCHANGED <<now, qos, seq, history, pub_time, net, readerVars, joinVars>>
      /\ call' = [call EXCEPT ![t] = Idle]
  BY DEF RejectWrite
<1>3. WriterInv'
  BY <1>0, <1>2, IdleCall, CallChanges
<1>4. ReceiverInv' /\ JoinTypes'
  BY <1>0, <1>1, <1>2, ReceiversUnchanged, JoinUnchanged
<1>5. UNCHANGED <<birth, gapped>>
  BY <1>2 DEF joinVars, readerVars
<1> QED
  BY <1>2, <1>3, <1>4, <1>5, SilentStep

\* Committing a sample: what the history holds afterwards is what it held or the
\* new sample, and is numbered without a hole up to it.
LEMMA CommitHistory ==
  ASSUME WriterInv, NEW t \in Threads, CommitWrite(t), NEW entry,
         entry = [seq |-> seq + 1, pub |-> call[t].pub]
  PROVE  /\ history' \in Seq([seq : Seqs, pub : 1 .. MaxClock])
         /\ \A i \in 1 .. Len(history') :
              /\ history'[i].seq = (seq + 1) - (Len(history') - i)
              /\ \/ \E j \in 1 .. Len(history) : history'[i] = history[j]
                 \/ history'[i] = entry
         /\ Caches \/ history' = <<>>
<1>0. /\ MaxSeq \in Nat /\ MaxClock \in Nat /\ seq \in Nat /\ seq < MaxSeq
      /\ Len(history) \in Nat
      /\ \A i \in 1 .. Len(history) : history[i].seq = seq - (Len(history) - i)
  BY WriterFacts DEF CommitWrite
<1> DEFINE E == [seq : Seqs, pub : 1 .. MaxClock]
<1>1. history \in Seq(E) /\ qos.cap \in Nat
  BY ReliabilityAssumption DEF WriterInv, WriterTypes, QosProfiles
<1>2. entry \in E
  <2>1. call[t].pub \in 0 .. MaxClock /\ call[t].pub >= 1
    BY DEF WriterInv, WriterTypes, CallsSound, CommitWrite
  <2>2. call[t].pub \in 1 .. MaxClock /\ seq + 1 \in Seqs
    BY <1>0, <2>1 DEF Seqs
  <2> QED
    BY <2>2
<1> HIDE DEF E
<1>3. CASE Caches
  <2>1. history' = Cached(history, entry)
    BY <1>3 DEF CommitWrite
  <2>2. /\ history' \in Seq(E)
        /\ \E k \in 0 .. (Len(history) + 1) : KeepsRest(history', history, entry, k)
    BY <1>1, <1>2, <2>1, CachedProperty
  <2>3. PICK k \in 0 .. (Len(history) + 1) : KeepsRest(history', history, entry, k)
    BY <2>2
  <2>4. /\ \A i \in 1 .. Len(history) : Append(history, entry)[i] = history[i]
        /\ Append(history, entry)[Len(history) + 1] = entry
    BY <1>1, <1>2, AppendProperties
  <2>. PICK m \in Nat, n \in Nat : m = Len(history') /\ n = Len(history)
    BY <1>0, <2>2, LenProperties
  <2>. PICK pushed : pushed = Append(history, entry)
    OBVIOUS
  <2>5. m = n + 1 - k /\ \A i \in 1 .. m : history'[i] = pushed[i + k]
    BY <2>3 DEF KeepsRest
  <2>6. ASSUME NEW i \in 1 .. m
        PROVE  /\ history'[i].seq = (seq + 1) - (m - i)
               /\ \/ \E j \in 1 .. n : history'[i] = history[j]
                  \/ history'[i] = entry
    <3>0. i + k \in 1 .. (n + 1)
      BY <2>5
    <3>1. CASE i + k \in 1 .. n
      <4>1. history'[i] = history[i + k]
        BY <2>4, <2>5, <3>1
      <4>2. history[i + k].seq = seq - (n - (i + k))
        BY <1>0, <3>1
      <4>3. seq - (n - (i + k)) = (seq + 1) - (m - i)
        BY <1>0, <2>5
      <4> QED
        BY <3>1, <4>1, <4>2, <4>3
    <3>2. CASE i + k \notin 1 .. n
      <4>1. i + k = n + 1
        BY <3>0, <3>2
      <4>2. history'[i] = entry
        BY <2>4, <2>5, <4>1
      <4>3. m - i = 0
        BY <2>5, <4>1
      <4>4. (seq + 1) - (m - i) = seq + 1
        BY <1>0, <4>3
      <4> QED
        BY <4>2, <4>4
    <3> QED
      BY <3>1, <3>2
  <2> QED
    BY <1>3, <2>2, <2>6 DEF E
<1>4. CASE ~Caches
  <2>1. history' = history /\ history = <<>>
    BY <1>4 DEF CommitWrite, WriterInv, HistoryUsed
  <2>2. Len(history') = 0
    BY <2>1
  <2>3. 1 .. Len(history') = {}
    BY <2>2
  <2> QED
    BY <1>1, <2>1, <2>3 DEF E
<1> QED
  BY <1>3, <1>4

\* A new sample changes nothing about what was justified: it lies above, and
\* what left the history does not come back.
LEMMA CommitKeepsJustified ==
  ASSUME WriterInv, JoinTypes, NEW t \in Threads, CommitWrite(t)
  PROVE  JustifiedKept
<1> SUFFICES ASSUME NEW r \in Readers, NEW e \in Nat \ {0}, Justified(r, e)
             PROVE  Justified(r, e)'
  BY DEF JustifiedKept
<1>. PICK entry : entry = [seq |-> seq + 1, pub |-> call[t].pub]
  OBVIOUS
<1>0. /\ MaxSeq \in Nat /\ seq \in Nat /\ seq < MaxSeq /\ e <= seq /\ seq' = seq + 1
      /\ DOMAIN history = 1 .. Len(history)
  BY WriterFacts DEF CommitWrite, Justified
<1>1. e <= seq' /\ e # seq + 1 /\ e \in Seqs /\ e < seq + 1
  BY <1>0 DEF Seqs
<1>2. CASE ~Entitled(r, e)
  <2>1. pub_time' = [pub_time EXCEPT ![seq + 1] = call[t].pub] /\ birth' = birth
    BY DEF CommitWrite, joinVars
  <2>2. pub_time'[e] = pub_time[e]
    BY <1>1, <2>1 DEF WriterInv, WriterTypes
  <2>3. ~Entitled(r, e)'
    BY <1>2, <2>1, <2>2 DEF Entitled
  <2> QED
    BY <1>1, <2>3 DEF Justified
<1>3. CASE \A i \in DOMAIN history : e < history[i].seq
  <2>1. DOMAIN history' = 1 .. Len(history')
    BY CommitHistory, LenProperties
  <2>2. ASSUME NEW i \in 1 .. Len(history') PROVE e < history'[i].seq
    <3>1. \/ \E j \in 1 .. Len(history) : history'[i] = history[j]
          \/ history'[i] = entry
      BY CommitHistory
    <3>2. entry.seq = seq + 1
      OBVIOUS
    <3> QED
      BY <1>0, <1>1, <1>3, <3>1, <3>2
  <2> QED
    BY <1>1, <2>1, <2>2 DEF Justified
<1> QED
  BY <1>2, <1>3 DEF Justified

\* cache_sample() appends the next number and evicts from the front, so the
\* history stays a contiguous range that ends at seq_.
LEMMA CommitKeepsWriter ==
  ASSUME WriterInv, NEW t \in Threads, CommitWrite(t)
  PROVE  WriterInv'
<1>. PICK entry : entry = [seq |-> seq + 1, pub |-> call[t].pub]
  OBVIOUS
<1>0. /\ MaxSeq \in Nat /\ MaxClock \in Nat /\ seq \in Nat /\ seq < MaxSeq
      /\ \A i \in 1 .. Len(history) :
           /\ history[i].seq \in Seqs /\ history[i].seq <= seq /\ history[i].seq \in Nat
           /\ history[i].pub = pub_time[history[i].seq]
      /\ seq + 1 \in Seqs
  BY WriterFacts DEF CommitWrite, Seqs
<1>1. /\ seq' = seq + 1 /\ UNCHANGED <<now, qos>>
      /\ pub_time' = [pub_time EXCEPT ![seq + 1] = call[t].pub]
      /\ call[t].at = "stamped"
  BY DEF CommitWrite
<1>2. /\ call[t].pub \in 0 .. MaxClock
      /\ pub_time \in [Seqs -> 0 .. MaxClock]
  BY DEF WriterInv, WriterTypes
<1>. PICK c : c = [at |-> "committed", pub |-> call[t].pub, seq |-> seq + 1,
                   send |-> \E r \in writer_knows : Matches(r),
                   locals |-> MatchingReaders(LocalReaders)]
  OBVIOUS
<1>3. call' = [call EXCEPT ![t] = c]
  BY DEF CommitWrite
<1>4. c \in [at : {"idle", "stamped", "committed"}, pub : 0 .. MaxClock,
             seq : 0 .. MaxSeq, send : BOOLEAN, locals : SUBSET LocalReaders]
  <2>1. MatchingReaders(LocalReaders) \in SUBSET LocalReaders
    BY DEF MatchingReaders
  <2>2. (\E r \in writer_knows : Matches(r)) \in BOOLEAN
    OBVIOUS
  <2>3. seq + 1 \in 0 .. MaxSeq
    BY <1>0
  <2> QED
    BY <1>2, <2>1, <2>2, <2>3, Zenon
<1>5. c.at = "committed" /\ c.seq = seq + 1
  OBVIOUS
<1>6. /\ history' \in Seq([seq : Seqs, pub : 1 .. MaxClock])
      /\ \A i \in 1 .. Len(history') :
           /\ history'[i].seq = (seq + 1) - (Len(history') - i)
           /\ \/ \E j \in 1 .. Len(history) : history'[i] = history[j]
              \/ history'[i] = entry
      /\ Caches \/ history' = <<>>
  BY CommitHistory
<1>7. DOMAIN history' = 1 .. Len(history')
  BY <1>6, LenProperties
<1>8. WriterTypes'
  <2>1. call' \in [Threads -> [at : {"idle", "stamped", "committed"}, pub : 0 .. MaxClock,
                   seq : 0 .. MaxSeq, send : BOOLEAN, locals : SUBSET LocalReaders]]
    BY <1>3, <1>4 DEF WriterInv, WriterTypes
  <2>2. pub_time' \in [Seqs -> 0 .. MaxClock] /\ seq' \in 0 .. MaxSeq
    BY <1>0, <1>1, <1>2
  <2>3. now' \in 1 .. MaxClock /\ qos' \in WriterProfiles
    BY <1>1 DEF WriterInv, WriterTypes
  <2> QED
    BY <1>6, <2>1, <2>2, <2>3 DEF WriterTypes, Seqs
<1>9. CallsSound'
  <2>1. \A u \in Threads : call'[u] = IF u = t THEN c ELSE call[u]
    BY <1>3 DEF WriterInv, WriterTypes
  <2>2. seq + 1 \in 1 .. seq' /\ \A x \in 1 .. seq : x \in 1 .. seq'
    BY <1>0, <1>1
  <2>3. ASSUME NEW u \in Threads
        PROVE  /\ call'[u].at = "stamped" => call'[u].pub >= 1
               /\ call'[u].at = "committed" => call'[u].seq \in 1 .. seq'
    <3>1. CASE u = t
      BY <1>5, <2>1, <2>2, <3>1
    <3>2. CASE u # t
      BY <2>1, <2>2, <3>2 DEF WriterInv, CallsSound
    <3> QED
      BY <3>1, <3>2
  <2> QED
    BY <2>3 DEF CallsSound
<1>10. HistoryContiguous'
  BY <1>1, <1>6, <1>7 DEF HistoryContiguous
<1>11. HistoryTimed'
  <2>1. ASSUME NEW i \in 1 .. Len(history')
        PROVE  history'[i].pub = pub_time'[history'[i].seq]
    <3>1. CASE history'[i] = entry
      <4>1. pub_time'[seq + 1] = call[t].pub
        BY <1>0, <1>1, <1>2
      <4> QED
        BY <3>1, <4>1
    <3>2. CASE \E j \in 1 .. Len(history) : history'[i] = history[j]
      <4>1. PICK j \in 1 .. Len(history) : history'[i] = history[j]
        BY <3>2
      <4>2. /\ history[j].seq \in Seqs /\ history[j].seq # seq + 1
            /\ history[j].pub = pub_time[history[j].seq]
        BY <1>0
      <4>3. pub_time'[history[j].seq] = pub_time[history[j].seq]
        BY <1>1, <1>2, <4>2
      <4> QED
        BY <4>1, <4>2, <4>3
    <3> QED
      BY <1>6, <3>1, <3>2
  <2> QED
    BY <1>7, <2>1 DEF HistoryTimed
<1>12. HistoryUsed'
  BY <1>1, <1>6 DEF HistoryUsed, Caches
<1> QED
  BY <1>8, <1>9, <1>10, <1>11, <1>12 DEF WriterInv

\* write() claims a number under the lock; readers stay behind it.
LEMMA CommitWriteKeeps ==
  ASSUME ReliabilityInv, NEW t \in Threads, CommitWrite(t)
  PROVE  ReliabilityInv'
<1>0. WriterInv /\ ReceiverInv /\ JoinTypes /\ NetInv /\ GapsJustified
  BY InvParts
<1>1. WriterInv'
  BY <1>0, CommitKeepsWriter
<1>2. JustifiedKept
  BY <1>0, CommitKeepsJustified
<1>3. /\ MaxSeq \in Nat /\ seq \in Nat /\ seq' \in Nat /\ seq <= seq'
      /\ UNCHANGED <<net, readerVars, joinVars>>
  BY <1>0, WriterFacts DEF CommitWrite
<1>4. ReceiverInv' /\ JoinTypes'
  BY <1>0, <1>3, ReceiversUnchanged, JoinUnchanged
<1>5. NetInv'
  <2>. PICK out : out = {}
    OBVIOUS
  <2>1. net' \subseteq net \cup out /\ \A m \in out : FrameSound(m)
    BY <1>3
  <2> QED
    BY <1>0, <1>2, <1>3, <2>1, NetKept
<1>6. GapsJustified'
  <2>1. ReaderTypes /\ gapped' = gapped
    BY <1>0, <1>3 DEF ReceiverInv, readerVars
  <2> QED
    BY <1>0, <1>2, <1>3, <2>1, GapsKept
<1> QED
  BY <1>1, <1>4, <1>5, <1>6, InvPartsPrimed

\* enqueue() of a published sample by some readers.
LEMMA EnqueueAllKeeps ==
  ASSUME ReceiverInv, seq \in Nat, seq' = seq, MaxSeq \in Nat,
         NEW R \in SUBSET Readers, NEW s \in Seqs, s <= seq, NEW pub,
         EnqueueAll(R, s, pub)
  PROVE  ReceiverInv' /\ gapped' = gapped
<1>0. s \in Nat
  BY DEF Seqs
<1>1. /\ rx' = [r \in Readers |-> IF r \in R THEN AfterEnqueue(rx[r], s) ELSE rx[r]]
      /\ lost_count' = [r \in Readers |->
           lost_count[r] + IF r \in R THEN LostByEnqueue(rx[r], s) ELSE 0]
      /\ gapped' = gapped
  BY DEF EnqueueAll
<1>2. /\ received' \in [Readers -> SUBSET Seqs]
      /\ delivered' \in [Readers -> SUBSET Seqs]
  <2>1. received \in [Readers -> SUBSET Seqs] /\ delivered \in [Readers -> SUBSET Seqs]
    BY DEF ReceiverInv, ReaderTypes
  <2>. PICK new, fresh : /\ new = {r \in R : ~IsDuplicate(rx[r], s)}
                         /\ fresh = {r \in new : ~LifespanExpired(pub)}
    OBVIOUS
  <2>2. /\ received' = [r \in Readers |-> received[r] \cup IF r \in new THEN {s} ELSE {}]
        /\ delivered' = [r \in Readers |-> delivered[r] \cup IF r \in fresh THEN {s} ELSE {}]
    BY DEF EnqueueAll
  <2>3. \A r \in Readers :
          /\ received[r] \cup (IF r \in new THEN {s} ELSE {}) \in SUBSET Seqs
          /\ delivered[r] \cup (IF r \in fresh THEN {s} ELSE {}) \in SUBSET Seqs
    BY <2>1
  <2> QED
    BY <2>2, <2>3
<1>3. ASSUME NEW r \in Readers
      PROVE  /\ rx'[r] \in RxState
             /\ rx'[r].known \/ rx'[r] = NoRxState
             /\ Within(rx'[r], seq)
             /\ lost_count'[r] \in Nat
  <2>1. /\ rx[r] \in RxState /\ lost_count[r] \in Nat
        /\ rx[r].known \/ rx[r] = NoRxState
        /\ Within(rx[r], seq)
    BY DEF ReceiverInv, ReaderTypes, ReceiversSound
  <2>2. CASE r \in R
    <3>1. /\ AfterEnqueue(rx[r], s) \in RxState
          /\ AfterEnqueue(rx[r], s).known
          /\ Within(AfterEnqueue(rx[r], s), seq)
          /\ LostByEnqueue(rx[r], s) \in Nat
      BY <1>0, <2>1, EnqueueWithin
    <3>2. /\ rx'[r] = AfterEnqueue(rx[r], s)
          /\ lost_count'[r] = lost_count[r] + LostByEnqueue(rx[r], s)
      BY <1>1, <2>2
    <3> QED
      BY <2>1, <3>1, <3>2
  <2>3. CASE r \notin R
    <3>1. rx'[r] = rx[r] /\ lost_count'[r] = lost_count[r] + 0
      BY <1>1, <2>3
    <3> QED
      BY <2>1, <3>1
  <2> QED
    BY <2>2, <2>3
<1>4. ReaderTypes'
  <2>1. rx' \in [Readers -> RxState] /\ lost_count' \in [Readers -> Nat]
    BY <1>1, <1>3
  <2>2. gapped' \in [Readers -> SUBSET Seqs]
    BY <1>1 DEF ReceiverInv, ReaderTypes
  <2> QED
    BY <1>2, <2>1, <2>2 DEF ReaderTypes, RxState, Bits, Readers, Seqs
<1>5. ReceiversSound'
  <2>1. \A r \in Readers : Within(rx[r], seq)' <=> Within(rx'[r], seq)
    BY DEF Within, SeqOfBit
  <2> QED
    BY <1>3, <2>1 DEF ReceiversSound
<1> QED
  BY <1>1, <1>4, <1>5 DEF ReceiverInv

\* A DATA frame for a published sample.
LEMMA DataSound ==
  ASSUME NEW s \in Seqs, s <= seq
  PROVE  FrameSound(Data(s))
<1>1. Data(s) \in [type : {"DATA"}, seq : Seqs] /\ Data(s).type = "DATA" /\ Data(s).seq = s
  BY DEF Data
<1> QED
  BY <1>1 DEF FrameSound, Frames

\* write() hands over a number that it has claimed.
LEMMA FinishWriteKeeps ==
  ASSUME ReliabilityInv, NEW t \in Threads, FinishWrite(t)
  PROVE  ReliabilityInv'
<1>0. WriterInv /\ ReceiverInv /\ JoinTypes
  BY InvParts
<1>1. seq \in Nat /\ MaxSeq \in Nat /\ seq <= MaxSeq
  BY <1>0, WriterFacts
<1>2. /\ UNCHANGED <<now, qos, seq, history, pub_time, joinVars>>
      /\ call' = [call EXCEPT ![t] = Idle]
      /\ EnqueueAll(call[t].locals, call[t].seq, call[t].pub)
      /\ call[t].at = "committed"
      /\ Send(net, IF call[t].send THEN {Data(call[t].seq)} ELSE {})
  BY DEF FinishWrite
<1>3. call[t].seq \in 1 .. seq /\ call[t].locals \in SUBSET Readers
  BY <1>0, <1>2 DEF WriterInv, WriterTypes, CallsSound, Readers
<1>4. call[t].seq \in Seqs /\ call[t].seq <= seq
  BY <1>1, <1>3 DEF Seqs
<1>5. WriterInv'
  BY <1>0, <1>2, IdleCall, CallChanges
<1>6. ReceiverInv' /\ gapped' = gapped
  BY <1>0, <1>1, <1>2, <1>3, <1>4, EnqueueAllKeeps
<1>7. JoinTypes' /\ birth' = birth
  BY <1>0, <1>2, JoinUnchanged DEF joinVars
<1>. PICK out : out = IF call[t].send THEN {Data(call[t].seq)} ELSE {}
  OBVIOUS
<1>8. net' \subseteq net \cup out
  BY <1>2, SendTakes
<1>9. \A m \in out : FrameSound(m)
  BY <1>4, DataSound
<1> QED
  BY <1>2, <1>5, <1>6, <1>7, <1>8, <1>9, QuietStep

-----------------------------------------------------------------------------
(* Readers and peers come and go *)

\* A sample that predates no reader yet can only come to predate it.
LEMMA CreateReaderKeeps ==
  ASSUME ReliabilityInv, NEW r \in Readers, CreateReader(r)
  PROVE  ReliabilityInv'
<1>0. WriterInv /\ ReceiverInv /\ JoinTypes /\ NetInv /\ GapsJustified
  BY InvParts
<1>1. /\ UNCHANGED <<now, net, calm, writerVars, readerVars, writer_knows, reader_knows, downs>>
      /\ birth[r] = 0 /\ birth' = [birth EXCEPT ![r] = now]
      /\ unreplayed' \subseteq unreplayed \cup (LocalReaders \cap TransientLocal)
  BY DEF CreateReader
<1>2. /\ seq \in Nat /\ MaxSeq \in Nat /\ seq <= MaxSeq /\ seq' = seq /\ MaxClock \in Nat
      /\ now \in 1 .. MaxClock /\ now' = now
      /\ UNCHANGED <<history, pub_time, gapped>>
      /\ pub_time \in [Seqs -> 0 .. MaxClock]
  BY <1>0, <1>1, WriterFacts DEF WriterInv, WriterTypes, writerVars, readerVars
<1>3. WriterInv' /\ ReceiverInv'
  BY <1>0, <1>1, <1>2, WriterUnchanged, ReceiversUnchanged
<1>4. JoinTypes'
  <2>1. birth' \in [Readers -> 0 .. MaxClock]
    BY <1>0, <1>1, <1>2 DEF JoinTypes
  <2>2. unreplayed' \subseteq LocalReaders
    BY <1>0, <1>1 DEF JoinTypes
  <2> QED
    BY <1>0, <1>1, <2>1, <2>2 DEF JoinTypes, Readers
<1>5. JustifiedKept
  <2> SUFFICES ASSUME NEW x \in Readers, NEW e \in Nat \ {0}, Justified(x, e)
               PROVE  Justified(x, e)'
    BY DEF JustifiedKept
  <2>1. e <= seq /\ e <= seq'
    BY <1>2 DEF Justified
  <2>2. CASE \A i \in DOMAIN history : e < history[i].seq
    BY <1>2, <2>1, <2>2 DEF Justified
  <2>3. CASE ~Entitled(x, e)
    <3>1. e \in Seqs
      BY <1>2, <2>1 DEF Seqs
    <3>2. x # r
      <4>1. pub_time[e] \in 0 .. MaxClock
        BY <1>2, <3>1
      <4>2. pub_time[e] >= 0
        BY <1>2, <4>1
      <4> QED
        BY <1>1, <2>3, <4>2 DEF Entitled
    <3>3. birth'[x] = birth[x]
      BY <1>0, <1>1, <3>2 DEF JoinTypes
    <3>4. ~Entitled(x, e)'
      BY <1>2, <2>3, <3>3 DEF Entitled
    <3> QED
      BY <2>1, <3>4 DEF Justified
  <2> QED
    BY <2>2, <2>3 DEF Justified
<1>6. NetInv'
  <2>. PICK out : out = {}
    OBVIOUS
  <2>1. net' \subseteq net \cup out /\ \A m \in out : FrameSound(m)
    BY <1>1
  <2> QED
    BY <1>0, <1>2, <1>5, <2>1, NetKept
<1>7. GapsJustified'
  <2>1. ReaderTypes
    BY <1>0 DEF ReceiverInv
  <2> QED
    BY <1>0, <1>2, <1>5, <2>1, GapsKept
<1> QED
  BY <1>3, <1>4, <1>6, <1>7, InvPartsPrimed

\* A local reader is given what the history holds.
LEMMA ReplayLocalKeeps ==
  ASSUME ReliabilityInv, NEW r \in Readers, ReplayLocal(r)
  PROVE  ReliabilityInv'
<1>0. WriterInv /\ ReceiverInv /\ JoinTypes
  BY InvParts
<1>1. /\ MaxSeq \in Nat /\ seq \in Nat /\ Len(history) \in Nat
      /\ \A i \in 1 .. Len(history) : history[i].seq \in Seqs /\ history[i].seq <= seq
      /\ now \in 1 .. MaxClock
  BY <1>0, WriterFacts DEF WriterInv, WriterTypes
<1>2. \A x \in Readers :
        /\ rx[x] \in RxState /\ Within(rx[x], seq)
        /\ rx[x].known \/ rx[x] = NoRxState
  BY <1>0 DEF ReceiverInv, ReaderTypes, ReceiversSound
<1>. PICK final : final = Replayed(rx[r])
  OBVIOUS
<1>3. final \in Outcomes
  BY <1>1, <1>2, ReplayedProperty
<1>4. /\ final.rx \in RxState /\ final.lost \in Nat /\ final.new \in SUBSET Seqs
      /\ final.rx.known \/ final.rx = NoRxState
      /\ Within(final.rx, seq)
  BY <1>3 DEF Outcomes
<1>5. /\ unreplayed' = unreplayed \ {r}
      /\ rx' = [rx EXCEPT ![r] = final.rx]
      /\ lost_count' = [lost_count EXCEPT ![r] = @ + final.lost]
      /\ received' = [received EXCEPT ![r] = @ \cup final.new]
      /\ delivered' = [delivered EXCEPT ![r] = @ \cup final.new]
      /\ UNCHANGED <<now, net, writerVars, calm, birth, writer_knows, reader_knows,
                     downs, gapped>>
  BY DEF ReplayLocal
<1>6. UNCHANGED <<seq, history, pub_time>> /\ now' \in 1 .. MaxClock
  BY <1>1, <1>5 DEF writerVars
<1>7. WriterInv'
  BY <1>0, <1>5, <1>6, WriterUnchanged
<1>8. JoinTypes'
  BY <1>0, <1>5 DEF JoinTypes, Readers
<1>9. ReaderTypes'
  <2>1. rx' \in [Readers -> RxState] /\ lost_count' \in [Readers -> Nat]
    BY <1>0, <1>4, <1>5 DEF ReceiverInv, ReaderTypes
  <2>2. received' \in [Readers -> SUBSET Seqs] /\ delivered' \in [Readers -> SUBSET Seqs]
    BY <1>0, <1>4, <1>5 DEF ReceiverInv, ReaderTypes
  <2>3. gapped' \in [Readers -> SUBSET Seqs]
    BY <1>0, <1>5 DEF ReceiverInv, ReaderTypes
  <2> QED
    BY <2>1, <2>2, <2>3 DEF ReaderTypes, RxState, Bits, Readers, Seqs
<1>10. ReceiversSound'
  <2>1. \A x \in Readers : rx'[x] = IF x = r THEN final.rx ELSE rx[x]
    BY <1>0, <1>5 DEF ReceiverInv, ReaderTypes
  <2>2. \A x \in Readers : Within(rx'[x], seq) /\ (rx'[x].known \/ rx'[x] = NoRxState)
    BY <1>2, <1>4, <2>1
  <2>3. \A x \in Readers : Within(rx[x], seq)' <=> Within(rx'[x], seq)
    BY <1>6 DEF Within, SeqOfBit
  <2> QED
    BY <2>2, <2>3 DEF ReceiversSound
<1>11. UNCHANGED <<seq, history, pub_time, birth, gapped, net>>
  BY <1>5, <1>6
<1> QED
  BY <1>7, <1>8, <1>9, <1>10, <1>11, SilentStep DEF ReceiverInv

\* The endpoints either side knows change, and nothing but sound frames is sent.
LEMMA JoinStep ==
  ASSUME ReliabilityInv, UNCHANGED <<now, writerVars, readerVars, calm, birth, unreplayed>>,
         writer_knows' \subseteq RemoteReaders, reader_knows' \in BOOLEAN,
         downs' \in 0 .. MaxDowns,
         NEW out, net' \subseteq net \cup out, \A m \in out : FrameSound(m)
  PROVE  ReliabilityInv'
<1>0. WriterInv /\ ReceiverInv /\ JoinTypes
  BY InvParts
<1>1. seq \in Nat /\ seq' = seq /\ now' \in 1 .. MaxClock
  BY <1>0, WriterFacts DEF writerVars, WriterInv, WriterTypes
<1>2. WriterInv' /\ ReceiverInv'
  BY <1>0, <1>1, WriterUnchanged, ReceiversUnchanged
<1>3. JoinTypes'
  BY <1>0 DEF JoinTypes, Readers
<1>4. UNCHANGED <<seq, history, pub_time, birth, gapped>>
  BY DEF writerVars, readerVars
<1> QED
  BY <1>2, <1>3, <1>4, QuietStep

\* Replay sends samples of the history, which were published.
LEMMA ReplayFramesSound ==
  ASSUME WriterInv
  PROVE  \A m \in ReplayFrames : FrameSound(m)
<1>1. \A i \in DOMAIN history : history[i].seq \in Seqs /\ history[i].seq <= seq
  BY WriterFacts
<1>2. \A i \in DOMAIN history : FrameSound(Data(history[i].seq))
  BY <1>1, DataSound
<1> QED
  BY <1>2 DEF ReplayFrames

\* The writer learns of remote readers and replays its history to new ones.
LEMMA WriterLearnsKeeps ==
  ASSUME ReliabilityInv, NEW last, WriterLearns(last)
  PROVE  ReliabilityInv'
<1>0. WriterInv /\ JoinTypes
  BY InvParts
<1>. PICK snapshot : snapshot = {r \in RemoteReaders \cap Created : birth[r] <= birth[last]}
  OBVIOUS
<1>. PICK out : out = IF (snapshot \ writer_knows) \cap TransientLocal # {}
                           /\ qos.transient_local
                      THEN ReplayFrames ELSE {}
  OBVIOUS
<1>1. /\ writer_knows' = snapshot
      /\ Send(net, out)
      /\ UNCHANGED <<now, writerVars, readerVars, calm, birth, unreplayed, reader_knows, downs>>
  BY Zenon DEF WriterLearns
<1>2. net' \subseteq net \cup out
  BY <1>1, SendTakes
<1>3. \A m \in out : FrameSound(m)
  BY <1>0, ReplayFramesSound
<1>4. /\ writer_knows' \subseteq RemoteReaders /\ reader_knows' \in BOOLEAN
      /\ downs' \in 0 .. MaxDowns
  BY <1>0, <1>1 DEF JoinTypes
<1> QED
  BY <1>1, <1>2, <1>3, <1>4, JoinStep

\* Either side learns of or forgets the other.
LEMMA PeersKeep ==
  ASSUME ReliabilityInv, ReaderLearns \/ WriterForgets \/ ReaderForgets
  PROVE  ReliabilityInv'
<1>0. JoinTypes /\ MaxDowns \in Nat
  BY InvParts, ReliabilityAssumption
<1>. PICK out : out = {}
  OBVIOUS
<1>1. /\ UNCHANGED <<now, writerVars, readerVars, calm, birth, unreplayed>>
      /\ net' \subseteq net \cup out
  BY DEF ReaderLearns, WriterForgets, ReaderForgets
<1>2. /\ writer_knows' \subseteq RemoteReaders
      /\ reader_knows' \in BOOLEAN
  BY <1>0 DEF JoinTypes, ReaderLearns, WriterForgets, ReaderForgets
<1>3. downs' \in 0 .. MaxDowns
  <2>1. \/ downs' = downs
        \/ downs < MaxDowns /\ downs' = downs + 1
    BY DEF ReaderLearns, WriterForgets, ReaderForgets
  <2> QED
    BY <1>0, <2>1 DEF JoinTypes
<1>4. \A m \in out : FrameSound(m)
  OBVIOUS
<1> QED
  BY <1>1, <1>2, <1>3, <1>4, JoinStep

\* The clock moves on.
LEMMA TickKeeps ==
  ASSUME ReliabilityInv, Tick
  PROVE  ReliabilityInv'
<1>0. WriterInv /\ ReceiverInv /\ JoinTypes
  BY InvParts
<1>1. /\ now < MaxClock /\ now' = now + 1
      /\ UNCHANGED <<net, writerVars, readerVars, joinVars>>
  BY DEF Tick
<1>2. seq \in Nat /\ MaxClock \in Nat /\ now \in 1 .. MaxClock /\ seq' = seq
  BY <1>0, <1>1, WriterFacts DEF WriterInv, WriterTypes, writerVars
<1>3. now' \in 1 .. MaxClock
  BY <1>1, <1>2
<1>4. WriterInv' /\ ReceiverInv' /\ JoinTypes'
  BY <1>0, <1>1, <1>2, <1>3, WriterUnchanged, ReceiversUnchanged, JoinUnchanged
<1>5. UNCHANGED <<seq, history, pub_time, birth, gapped, net>>
  BY <1>1 DEF writerVars, readerVars, joinVars
<1> QED
  BY <1>4, <1>5, SilentStep

-----------------------------------------------------------------------------
(* Frames *)

\* A heartbeat names the range of the history.
LEMMA HeartbeatKeeps ==
  ASSUME ReliabilityInv, SendHeartbeat \/ AssertLiveliness
  PROVE  ReliabilityInv'
<1>0. WriterInv
  BY InvParts
<1>1. /\ MaxSeq \in Nat /\ seq \in Nat /\ seq <= MaxSeq
      /\ Len(history) \in Nat
      /\ \A i \in 1 .. Len(history) : history[i].seq \in Seqs
  BY <1>0, WriterFacts
<1>2. ASSUME history # <<>> PROVE Head(history).seq \in 0 .. MaxSeq
  <2>1. Head(history) \in [seq : Seqs, pub : 1 .. MaxClock]
    BY <1>0, <1>2, HeadTailProperties DEF WriterInv, WriterTypes
  <2> QED
    BY <1>1, <2>1 DEF Seqs
<1>3. PICK first \in 0 .. MaxSeq :
        /\ Send(net, {[type |-> "HEARTBEAT", first |-> first, last |-> seq]})
        /\ UNCHANGED <<now, writerVars, readerVars, joinVars>>
  <2>1. CASE SendHeartbeat
    BY <1>2, <2>1, Zenon DEF SendHeartbeat
  <2>2. CASE AssertLiveliness
    <3>. PICK f : f = IF history = <<>> THEN seq ELSE Head(history).seq
      OBVIOUS
    <3>1. f \in 0 .. MaxSeq
      BY <1>1, <1>2
    <3>2. [type |-> "HEARTBEAT", first |-> f, last |-> seq]
            = [type |-> "HEARTBEAT", last |-> seq, first |-> f]
      OBVIOUS
    <3>3. /\ Send(net, {[type |-> "HEARTBEAT", last |-> seq, first |-> f]})
          /\ UNCHANGED <<now, writerVars, readerVars, joinVars>>
      BY <2>2, Zenon DEF AssertLiveliness
    <3> QED
      BY <3>1, <3>2, <3>3, Zenon
  <2> QED
    BY <2>1, <2>2
<1>. PICK m : m = [type |-> "HEARTBEAT", first |-> first, last |-> seq]
  OBVIOUS
<1>4. FrameSound(m)
  <2>1. m \in [type : {"HEARTBEAT"}, first : 0 .. MaxSeq, last : 0 .. MaxSeq]
    BY <1>1
  <2>2. m \in Frames
    BY <2>1, Zenon DEF Frames
  <2>3. m.type = "HEARTBEAT"
    OBVIOUS
  <2> QED
    BY <2>2, <2>3 DEF FrameSound
<1>5. net' \subseteq net \cup {m}
  BY <1>3, SendTakes
<1> QED
  BY <1>3, <1>4, <1>5, SendingStep

\* An ACKNACK from a reader that is behind the writer.
LEMMA AckNackSound ==
  ASSUME MaxSeq \in Nat, seq \in Nat, seq <= MaxSeq, NEW r \in RemoteReaders,
         NEW st \in RxState, Within(st, seq)
  PROVE  FrameSound(AckNack(r, st))
<1>. PICK base, bitmap, m : /\ base = st.last_seq + 1 /\ bitmap = st.window
                            /\ m = [type |-> "ACKNACK", reader |-> r, base |-> base,
                                    bitmap |-> bitmap]
  OBVIOUS
<1>1. AckNack(r, st) = m
  BY DEF AckNack, NackState
<1>2. base \in 1 .. (MaxSeq + 1) /\ bitmap \in SUBSET Bits
  <2>1. st.last_seq \in Nat /\ st.last_seq <= seq /\ st.window \in SUBSET Bits
    BY DEF RxState, Within
  <2> QED
    BY <2>1
<1>3. m \in [type : {"ACKNACK"}, reader : RemoteReaders, base : 1 .. (MaxSeq + 1),
             bitmap : SUBSET Bits]
  BY <1>2
<1>4. m \in Frames
  BY <1>3, Zenon DEF Frames
<1>5. m.type = "ACKNACK"
  OBVIOUS
<1>6. FrameSound(m)
  BY <1>4, <1>5 DEF FrameSound
<1> QED
  BY <1>1, <1>6

\* handle_heartbeat() answers with the state of the readers that are behind.
LEMMA HandleHeartbeatKeeps ==
  ASSUME ReliabilityInv, NEW m \in net, HandleHeartbeat(m)
  PROVE  ReliabilityInv'
<1>0. WriterInv /\ ReceiverInv
  BY InvParts
<1>. PICK nacking : nacking = {r \in MatchingReaders(RemoteReaders) \ BestEffort :
                                 reader_knows /\ Behind(r, m)}
  OBVIOUS
<1>. PICK out : out = {AckNack(r, rx[r]) : r \in nacking}
  OBVIOUS
<1>1. PICK base \in AfterReceipt(m) : Send(base, out)
  BY Zenon DEF HandleHeartbeat
<1>2. net' \subseteq net \cup out
  BY <1>1, ReceiptTakes, SendTakes
<1>3. \A x \in out : FrameSound(x)
  <2>1. MaxSeq \in Nat /\ seq \in Nat /\ seq <= MaxSeq
    BY <1>0, WriterFacts
  <2>2. \A r \in nacking : r \in RemoteReaders /\ rx[r] \in RxState /\ Within(rx[r], seq)
    BY <1>0 DEF MatchingReaders, ReceiverInv, ReaderTypes, ReceiversSound, Readers
  <2>3. \A r \in nacking : FrameSound(AckNack(r, rx[r]))
    BY <2>1, <2>2, AckNackSound
  <2> QED
    BY <2>3
<1>4. UNCHANGED <<now, writerVars, readerVars, joinVars>>
  BY DEF HandleHeartbeat
<1> QED
  BY <1>2, <1>3, <1>4, SendingStep

\* deliver_sample() enqueues a published sample.
LEMMA HandleDataKeeps ==
  ASSUME ReliabilityInv, NEW m \in net, HandleData(m)
  PROVE  ReliabilityInv'
<1>0. WriterInv /\ ReceiverInv /\ JoinTypes /\ NetInv
  BY InvParts
<1>1. MaxSeq \in Nat /\ seq \in Nat /\ seq <= MaxSeq /\ now \in 1 .. MaxClock
  BY <1>0, WriterFacts DEF WriterInv, WriterTypes
<1>2. m.seq \in Seqs /\ m.seq <= seq /\ m.seq \in Nat
  <2>1. m \in Frames /\ m.type = "DATA"
    BY <1>0 DEF NetInv, HandleData
  <2> QED
    BY <1>0, <1>1, <2>1, FrameFields DEF NetInv, FramesSound, Seqs
<1>. PICK receivers : receivers = IF reader_knows THEN MatchingReaders(RemoteReaders) ELSE {}
  OBVIOUS
<1>. PICK nacking : nacking = {r \in receivers \ BestEffort :
                                 qos.reliable /\ OpensHole(rx[r], m.seq)}
  OBVIOUS
<1>. PICK out : out = {AckNack(r, AfterEnqueue(rx[r], m.seq)) : r \in nacking}
  OBVIOUS
<1>3. /\ EnqueueAll(receivers, m.seq, pub_time[m.seq])
      /\ \E base \in AfterReceipt(m) : Send(base, out)
      /\ UNCHANGED <<now, writerVars, joinVars>>
  BY Zenon DEF HandleData
<1>4. receivers \subseteq RemoteReaders
  BY DEF MatchingReaders
<1>5. receivers \in SUBSET Readers
  BY <1>4 DEF Readers
<1>6. UNCHANGED <<seq, history, pub_time, birth>> /\ now' \in 1 .. MaxClock
  BY <1>1, <1>3 DEF writerVars, joinVars
<1>7. WriterInv' /\ JoinTypes'
  BY <1>0, <1>3, <1>6, WriterUnchanged, JoinUnchanged
<1>8. ReceiverInv' /\ gapped' = gapped
  BY <1>0, <1>1, <1>2, <1>3, <1>5, <1>6, EnqueueAllKeeps
<1>9. net' \subseteq net \cup out
  BY <1>3, ReceiptTakes, SendTakes
<1>10. \A x \in out : FrameSound(x)
  <2>1. \A r \in nacking : r \in RemoteReaders /\ rx[r] \in RxState /\ Within(rx[r], seq)
    BY <1>0, <1>4 DEF ReceiverInv, ReaderTypes, ReceiversSound, Readers
  <2>2. \A r \in nacking : /\ AfterEnqueue(rx[r], m.seq) \in RxState
                           /\ Within(AfterEnqueue(rx[r], m.seq), seq)
    BY <1>1, <1>2, <2>1, EnqueueWithin
  <2>3. \A r \in nacking : FrameSound(AckNack(r, AfterEnqueue(rx[r], m.seq)))
    BY <1>1, <2>1, <2>2, AckNackSound
  <2> QED
    BY <2>3
<1>11. UNCHANGED <<seq, history, pub_time, birth, gapped>>
  BY <1>6, <1>8
<1> QED
  BY <1>7, <1>8, <1>9, <1>10, <1>11, QuietStep

\* handle_acknack(): what it declares unavailable predates a volatile reader or
\* lies below the front of a history that holds everything after it.
LEMMA UnavailableJustified ==
  ASSUME WriterInv, JoinTypes, NEW m \in Frames, m.type = "ACKNACK",
         NEW e \in Unavailable(m)
  PROVE  e \in Seqs /\ Justified(m.reader, e)
<1>0. /\ MaxSeq \in Nat /\ seq \in Nat /\ seq <= MaxSeq /\ MaxClock \in Nat
      /\ Len(history) \in Nat /\ DOMAIN history = 1 .. Len(history)
      /\ \A i \in 1 .. Len(history) :
           /\ history[i].seq \in Seqs /\ history[i].pub \in 1 .. MaxClock
           /\ history[i].seq \in Nat
           /\ history[i].seq = seq - (Len(history) - i)
           /\ history[i].seq <= seq
           /\ history[i].pub = pub_time[history[i].seq]
  BY WriterFacts
<1>1. m.base \in 1 .. (MaxSeq + 1) /\ m.reader \in RemoteReaders
  BY FrameFields
<1>2. CASE \E i \in DOMAIN history : e = history[i].seq /\ PreJoin(m.reader, i)
  <2>1. PICK i \in 1 .. Len(history) : e = history[i].seq /\ PreJoin(m.reader, i)
    BY <1>0, <1>2
  <2>2. m.reader \notin TransientLocal /\ pub_time[e] < birth[m.reader]
    BY <1>0, <2>1 DEF PreJoin
  <2>3. pub_time[e] \in Int
    BY <1>0, <2>1
  <2>4. ~Entitled(m.reader, e)
    <3>1. birth[m.reader] \in Int
      BY <1>1 DEF JoinTypes, Readers
    <3> QED
      BY <2>2, <2>3, <3>1 DEF Entitled
  <2> QED
    BY <1>0, <2>1, <2>4 DEF Justified
<1>3. CASE e \in Requested(m) /\ history # <<>> /\ e < Head(history).seq
  <2>1. PICK b \in Bits : e = m.base + b
    BY <1>3 DEF Requested
  <2>2. e \in Nat /\ e >= 1
    BY <1>0, <1>1, <2>1, WindowAssumption DEF Bits
  <2>. PICK n \in Nat : n = Len(history)
    BY <1>0
  <2>3. n >= 1 /\ Head(history) = history[1]
    <3>1. history \in Seq([seq : Seqs, pub : 1 .. MaxClock])
      BY DEF WriterInv, WriterTypes
    <3>2. n # 0
      BY <1>3, <3>1, EmptySeq
    <3> QED
      BY <3>2, <1>3, <3>1
  <2>4. e < history[1].seq /\ 1 \in 1 .. n
    BY <1>3, <2>3
  <2>5. ASSUME NEW i \in 1 .. n PROVE e < history[i].seq
    <3>1. history[1].seq = seq - (n - 1) /\ history[i].seq = seq - (n - i)
      BY <1>0, <2>4
    <3> QED
      BY <1>0, <2>2, <2>4, <3>1
  <2>6. history[1].seq \in Nat /\ history[1].seq <= seq
    BY <1>0, <2>4
  <2>7. e <= seq /\ e \in Seqs
    BY <1>0, <2>2, <2>4, <2>6 DEF Seqs
  <2> QED
    BY <1>0, <2>5, <2>7 DEF Justified
<1> QED
  BY <1>2, <1>3 DEF Unavailable

\* handle_acknack() resends what the history holds; a GAP covers only what was
\* evicted or what a volatile reader may not have.
LEMMA HandleAckNackKeeps ==
  ASSUME ReliabilityInv, NEW m \in net, HandleAckNack(m)
  PROVE  ReliabilityInv'
<1>0. WriterInv /\ JoinTypes /\ NetInv
  BY InvParts
<1>1. m \in Frames /\ m.type = "ACKNACK"
  BY <1>0 DEF NetInv, HandleAckNack
<1>2. /\ MaxSeq \in Nat
      /\ m.reader \in RemoteReaders /\ m.base \in 1 .. (MaxSeq + 1)
      /\ \A i \in DOMAIN history : history[i].seq \in Seqs /\ history[i].seq <= seq
  BY <1>0, <1>1, FrameFields, WriterFacts
<1> DEFINE Gap(e) == [type |-> "GAP", reader |-> m.reader, start |-> m.base, end |-> e]
<1>. PICK highest : highest = {u \in Unavailable(m) : \A v \in Unavailable(m) : v <= u}
  OBVIOUS
<1>. PICK gap : gap = {Gap(e) : e \in highest}
  OBVIOUS
<1>. PICK out : out = IF m.reader \in writer_knows
                      THEN {Data(s) : s \in Resent(m)} \cup gap ELSE {}
  OBVIOUS
<1>3. PICK base \in AfterReceipt(m) : Send(base, out)
  BY Zenon DEF HandleAckNack
<1>4. net' \subseteq net \cup out
  BY <1>3, ReceiptTakes, SendTakes
<1>5. ASSUME NEW e \in highest PROVE FrameSound(Gap(e))
  <2>1. e \in Seqs /\ Justified(m.reader, e)
    BY <1>0, <1>1, UnavailableJustified
  <2>2. e \in 1 .. (MaxSeq + Window)
    BY <1>2, <2>1, WindowAssumption DEF Seqs
  <2>3. Gap(e) \in [type : {"GAP"}, reader : RemoteReaders, start : 1 .. (MaxSeq + 1),
                    end : 1 .. (MaxSeq + Window)]
    BY <1>2, <2>2
  <2>4. Gap(e).type = "GAP" /\ Gap(e).reader = m.reader /\ Gap(e).end = e
    OBVIOUS
  <2> HIDE DEF Gap
  <2>5. Gap(e) \in Frames
    BY <2>3, Zenon DEF Frames
  <2> QED
    BY <2>1, <2>4, <2>5 DEF FrameSound
<1>6. \A s \in Resent(m) : FrameSound(Data(s))
  <2>1. \A s \in Resent(m) : s \in Seqs /\ s <= seq
    BY <1>2 DEF Resent
  <2> QED
    BY <2>1, DataSound
<1> HIDE DEF Gap
<1>7. \A x \in out : FrameSound(x)
  BY <1>5, <1>6
<1>8. UNCHANGED <<now, writerVars, readerVars, joinVars>>
  BY DEF HandleAckNack
<1> QED
  BY <1>4, <1>7, <1>8, SendingStep

\* handle_gap() moves baselines to the end of a justified GAP, not beyond.
LEMMA HandleGapKeeps ==
  ASSUME ReliabilityInv, NEW m \in net, HandleGap(m)
  PROVE  ReliabilityInv'
<1>0. WriterInv /\ ReceiverInv /\ JoinTypes /\ NetInv /\ GapsJustified
  BY InvParts
<1>1. MaxSeq \in Nat /\ seq \in Nat /\ seq <= MaxSeq /\ now \in 1 .. MaxClock
  BY <1>0, WriterFacts DEF WriterInv, WriterTypes
<1>. PICK w, e : w = m.reader /\ e = m.end
  OBVIOUS
<1>2. w \in Readers /\ e \in Nat \ {0} /\ e <= seq /\ Justified(w, e)
  <2>1. m \in Frames /\ m.type = "GAP"
    BY <1>0 DEF NetInv, HandleGap
  <2>2. w \in RemoteReaders /\ e \in 1 .. (MaxSeq + Window)
    BY <2>1, FrameFields
  <2>3. Justified(w, e)
    BY <1>0, <2>1 DEF NetInv, FramesSound
  <2> QED
    BY <1>1, <2>2, <2>3, WindowAssumption DEF Readers, Justified
<1>. PICK st : st = rx[w]
  OBVIOUS
<1>3. \A r \in Readers : /\ rx[r] \in RxState /\ Within(rx[r], seq)
                         /\ rx[r].known \/ rx[r] = NoRxState
  BY <1>0 DEF ReceiverInv, ReaderTypes, ReceiversSound
<1>4. /\ AfterGap(st, e) \in RxState
      /\ AfterGap(st, e).known
      /\ Within(AfterGap(st, e), seq)
      /\ LostByGap(st, e) \in Nat
  BY <1>1, <1>2, <1>3, GapWithin, LostByGapNatural
<1>. PICK given : given = {s \in Seqs : s > st.last_seq /\ s <= e /\ s \notin received[w]}
  OBVIOUS
<1>5. /\ rx' = [rx EXCEPT ![w] = AfterGap(st, e)]
      /\ lost_count' = [lost_count EXCEPT ![w] = @ + LostByGap(st, e)]
      /\ gapped' = [gapped EXCEPT ![w] = @ \cup given]
      /\ net' \in AfterReceipt(m)
      /\ UNCHANGED <<now, received, delivered, writerVars, joinVars>>
  BY Zenon DEF HandleGap
<1>6. UNCHANGED <<seq, history, pub_time, birth>> /\ now' \in 1 .. MaxClock
  BY <1>1, <1>5 DEF writerVars, joinVars
<1>7. WriterInv' /\ JoinTypes'
  BY <1>0, <1>5, <1>6, WriterUnchanged, JoinUnchanged
<1>8. ReaderTypes'
  <2>1. rx' \in [Readers -> RxState] /\ lost_count' \in [Readers -> Nat]
    <3>1. rx \in [Readers -> RxState] /\ lost_count \in [Readers -> Nat]
      BY <1>0 DEF ReceiverInv, ReaderTypes
    <3>2. lost_count[w] + LostByGap(st, e) \in Nat
      BY <1>2, <1>4, <3>1
    <3>3. rx' \in [Readers -> RxState]
      BY <1>4, <1>5, <3>1
    <3>4. lost_count' \in [Readers -> Nat]
      BY <1>5, <3>1, <3>2
    <3> QED
      BY <3>3, <3>4
  <2>2. gapped' \in [Readers -> SUBSET Seqs]
    BY <1>0, <1>5 DEF ReceiverInv, ReaderTypes
  <2>3. received' \in [Readers -> SUBSET Seqs] /\ delivered' \in [Readers -> SUBSET Seqs]
    BY <1>0, <1>5 DEF ReceiverInv, ReaderTypes
  <2> QED
    BY <2>1, <2>2, <2>3 DEF ReaderTypes, RxState, Bits, Readers, Seqs
<1>9. ReceiversSound'
  <2>1. \A r \in Readers : rx'[r] = IF r = w THEN AfterGap(st, e) ELSE rx[r]
    BY <1>0, <1>5 DEF ReceiverInv, ReaderTypes
  <2>2. \A r \in Readers : Within(rx'[r], seq) /\ (rx'[r].known \/ rx'[r] = NoRxState)
    BY <1>3, <1>4, <2>1
  <2>3. \A r \in Readers : Within(rx[r], seq)' <=> Within(rx'[r], seq)
    BY <1>6 DEF Within, SeqOfBit
  <2> QED
    BY <2>2, <2>3 DEF ReceiversSound
<1>10. JustifiedKept
  BY <1>6, JustifiedUnchanged
<1>11. NetInv'
  <2>. PICK out : out = {}
    OBVIOUS
  <2>1. net' \subseteq net \cup out /\ \A x \in out : FrameSound(x)
    BY <1>5, ReceiptTakes
  <2>2. seq' \in Nat /\ seq <= seq'
    BY <1>1, <1>6
  <2> QED
    BY <1>0, <1>1, <1>10, <2>1, <2>2, NetKept
<1>12. GapsJustified'
  <2> SUFFICES ASSUME NEW r \in Readers, NEW s \in gapped'[r]
               PROVE  \E x \in s .. seq' : Justified(r, x)'
    BY DEF GapsJustified, Readers
  <2>1. CASE s \in gapped[r]
    <3>1. s \in Seqs
      BY <1>0, <2>1 DEF ReceiverInv, ReaderTypes
    <3>2. PICK x \in s .. seq : Justified(r, x)
      BY <1>0, <2>1 DEF GapsJustified
    <3>3. x \in Nat \ {0} /\ x \in s .. seq'
      BY <1>1, <1>6, <3>1 DEF Seqs
    <3> QED
      BY <1>10, <3>2, <3>3 DEF JustifiedKept
  <2>2. CASE s \notin gapped[r]
    <3>1. r = w /\ s \in given
      BY <1>0, <1>2, <1>5, <2>2 DEF ReceiverInv, ReaderTypes
    <3>2. s \in Nat /\ s <= e
      BY <1>1, <3>1 DEF Seqs
    <3>3. e \in s .. seq'
      BY <1>1, <1>2, <1>6, <3>2
    <3>4. Justified(r, e)'
      BY <1>2, <1>10, <3>1 DEF JustifiedKept
    <3> QED
      BY <3>3, <3>4
  <2> QED
    BY <2>1, <2>2
<1> QED
  BY <1>7, <1>8, <1>9, <1>11, <1>12, InvPartsPrimed DEF ReceiverInv

-----------------------------------------------------------------------------
(* The theorems *)

\* Every step of the protocol preserves the invariant.
LEMMA ReliabilityNext == ReliabilityInv /\ [Next]_vars => ReliabilityInv'
<1> SUFFICES ASSUME ReliabilityInv, [Next]_vars PROVE ReliabilityInv'
  OBVIOUS
<1>1. CASE \E t \in Threads :
             StampWrite(t) \/ RejectWrite(t) \/ CommitWrite(t) \/ FinishWrite(t)
  BY <1>1, StampWriteKeeps, RejectWriteKeeps, CommitWriteKeeps, FinishWriteKeeps
<1>2. CASE \E r \in Readers : CreateReader(r) \/ ReplayLocal(r) \/ WriterLearns(r)
  BY <1>2, CreateReaderKeeps, ReplayLocalKeeps, WriterLearnsKeeps
<1>3. CASE ReaderLearns \/ WriterForgets \/ ReaderForgets
  BY <1>3, PeersKeep
<1>4. CASE Tick
  BY <1>4, TickKeeps
<1>5. CASE SendHeartbeat \/ AssertLiveliness
  BY <1>5, HeartbeatKeeps
<1>6. CASE \E m \in net :
             HandleData(m) \/ HandleHeartbeat(m) \/ HandleAckNack(m) \/ HandleGap(m)
  BY <1>6, HandleDataKeeps, HandleHeartbeatKeeps, HandleAckNackKeeps, HandleGapKeeps
<1>7. CASE UNCHANGED vars
  <2>. PICK out : out = {}
    OBVIOUS
  <2>1. /\ UNCHANGED <<now, writerVars, readerVars, joinVars>>
        /\ net' \subseteq net \cup out /\ \A m \in out : FrameSound(m)
    BY <1>7 DEF vars
  <2> QED
    BY <2>1, SendingStep
<1> QED
  BY <1>1, <1>2, <1>3, <1>4, <1>5, <1>6, <1>7 DEF Next

\* The invariant holds in every reachable state, whatever the network loses,
\* duplicates or reorders and whenever readers and peers come and go.
THEOREM ReliabilityInvariant == Spec => []ReliabilityInv
<1>1. Init => ReliabilityInv
  BY InitEstablishesInv
<1>2. ReliabilityInv /\ [Next]_vars => ReliabilityInv'
  BY ReliabilityNext
<1> QED
  BY <1>1, <1>2, PTL DEF Spec

\* Histories, receive states and frames stay within the ranges the handlers
\* compute them in: write_sample(), handle_acknack() and the others never
\* produce a frame or a receive state outside them.
THEOREM ReliabilityWellTyped == Spec => []TypeOK
<1>1. ReliabilityInv => TypeOK
  BY DEF ReliabilityInv
<1> QED
  BY <1>1, ReliabilityInvariant, PTL

\* cache_sample() keeps a contiguous range that ends at the last published
\* sample, which handle_acknack() relies on.
THEOREM HistoriesAreContiguous == Spec => []HistoryContiguous
<1>1. ReliabilityInv => HistoryContiguous
  BY DEF ReliabilityInv
<1> QED
  BY <1>1, ReliabilityInvariant, PTL

\* No GAP, jump or slide of a reader's window gives up a sample that is still to
\* be published.
THEOREM ReadersNeverAhead == Spec => []NeverAheadOfWriter
<1>1. ReliabilityInv => NeverAheadOfWriter
  BY DEF ReliabilityInv, ReceiversSound, Within, NeverAheadOfWriter
<1> QED
  BY <1>1, ReliabilityInvariant, PTL

\* apply_gap() gives up a sample that the writer still holds only if the volatile
\* reader is younger than it, or a later number was stamped before it and predates
\* the reader: the GAPs of handle_acknack() go wrong in no other way.
THEOREM GapsAreJustified == Spec => []GapOnlyUnavailableOrSwapped
<1>1. ReliabilityInv => GapOnlyUnavailableOrSwapped
  <2> SUFFICES ASSUME ReliabilityInv, NEW r \in Readers, NEW s \in gapped[r],
                      s \in HistorySeqs, Entitled(r, s)
               PROVE  \E p \in (s + 1) .. seq :
                        ~Entitled(r, p) /\ pub_time[p] < pub_time[s]
    BY DEF GapOnlyUnavailableOrSwapped
  <2>0. WriterInv /\ ReceiverInv /\ GapsJustified
    BY InvParts
  <2>1. PICK e \in s .. seq : Justified(r, e)
    BY <2>0 DEF GapsJustified
  <2>2. PICK i \in DOMAIN history : s = history[i].seq
    BY DEF HistorySeqs
  <2>3. s \in Nat /\ seq \in Nat
    BY <2>0, <2>2, WriterFacts
  <2>4. ~(e < history[i].seq)
    BY <2>2, <2>3
  <2>5. ~Entitled(r, e)
    BY <2>1, <2>4 DEF Justified
  <2>6. e # s
    BY <2>5
  <2>7. e \in (s + 1) .. seq
    BY <2>1, <2>3, <2>6
  <2>8. TypeOK
    BY DEF ReliabilityInv
  <2>9. s \in Seqs /\ e \in Seqs
    BY <2>1, <2>3, <2>7, <2>8, ReliabilityAssumption DEF TypeOK, Seqs
  <2>10. pub_time[s] \in Int /\ pub_time[e] \in Int /\ birth[r] \in Int
    BY <2>8, <2>9 DEF TypeOK
  <2>11. pub_time[s] >= birth[r] /\ ~(pub_time[e] >= birth[r])
    BY <2>5 DEF Entitled
  <2>12. pub_time[e] < pub_time[s]
    BY <2>10, <2>11
  <2> QED
    BY <2>5, <2>7, <2>12
<1> QED
  BY <1>1, ReliabilityInvariant, PTL
=============================================================================
