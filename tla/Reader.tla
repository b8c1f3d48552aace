------------------------------- MODULE Reader -------------------------------
(***************************************************************************)
(* ReaderImpl of participant.cpp: the queue an application takes samples    *)
(* from, the receive state per writer and the loss counter, under any       *)
(* stream of DATA and GAP frames: lost, duplicated, reordered, in any       *)
(* order.  Every operation runs under queue_mutex_, so it is one action.    *)
(*                                                                         *)
(* A sample is a pair <<writer, seq>>; a lifespan running out is the pair   *)
(* entering `expired', which every copy of the sample sees because all      *)
(* carry the publication time of the first.                                *)
(***************************************************************************)
EXTENDS RxWindow, Sequences

CONSTANTS
  Writers,      \* GUIDs of the writers that send to this reader
  Perishable,   \* the writers whose QoS has a finite lifespan
  MaxSeq,       \* bound: the highest sequence number a writer publishes
  MaxDepth      \* bound: the largest KEEP_LAST depth tried

ASSUME ReaderAssumption ==
  /\ Perishable \subseteq Writers
  /\ MaxSeq \in Nat
  /\ MaxDepth \in Nat \ {0}

VARIABLES
  qos,         \* qos_: history kind and depth, fixed by the constructor
  rx,          \* rx_
  queue,       \* queue_
  lost_count,  \* lost_count_
  expired,     \* samples whose lifespan has run out
  (* history of the behaviour, not state of the program *)
  received,    \* received[w]: the samples enqueue() did not call duplicates
  pushes,      \* pushes[w][s]: how often sample s of w was queued
  joined,      \* joined[w]: the baseline the first GAP of w established
  taken        \* samples take() returned

rxVars == <<rx, lost_count, received, pushes, joined>>
vars == <<qos, rx, queue, lost_count, expired, received, pushes, joined, taken>>

Seqs == 1 .. MaxSeq
Samples == Writers \X Seqs

\* KEEP_ALL ignores the depth; qos_valid() keeps a KEEP_LAST depth above 0.
QosProfiles ==
  [history : {"KEEP_LAST"}, depth : 1 .. MaxDepth]
    \cup [history : {"KEEP_ALL"}, depth : {1}]

Init ==
  /\ qos \in QosProfiles
  /\ rx = [w \in Writers |-> NoRxState]
  /\ queue = <<>>
  /\ lost_count = 0
  /\ expired = {}
  /\ received = [w \in Writers |-> {}]
  /\ pushes = [w \in Writers |-> [s \in Seqs |-> 0]]
  /\ joined = [w \in Writers |-> 0]
  /\ taken = {}

\* sweep_expired_locked(): one pass that erases what has expired.
SweepExpired(q) ==
  LET kept[n \in 0 .. Len(q)] ==
        IF n = 0 THEN <<>>
        ELSE IF q[n] \in expired THEN kept[n - 1] ELSE Append(kept[n - 1], q[n])
  IN  kept[Len(q)]

\* Mutation: the depth is applied to a KEEP_ALL reader too.
TrimAlways(q) ==
  IF Len(q) > qos.depth THEN SubSeq(q, Len(q) - qos.depth + 1, Len(q)) ELSE q

\* KEEP_LAST pops from the front until depth samples are left.
TrimToDepth(q) ==
  IF qos.history = "KEEP_LAST" /\ Len(q) > qos.depth
  THEN SubSeq(q, Len(q) - qos.depth + 1, Len(q))
  ELSE q

\* enqueue(): a DATA frame, a replayed sample or a local write.  A sample
\* that arrives expired moves the baseline but is not queued.
Enqueue(w, s) ==
  LET fresh  == ~IsDuplicate(rx[w], s)
      queued == fresh /\ <<w, s>> \notin expired
  IN  /\ rx' = [rx EXCEPT ![w] = AfterEnqueue(rx[w], s)]
      /\ lost_count' = lost_count + LostByEnqueue(rx[w], s)
      /\ queue' = IF queued
                  THEN SweepExpired(TrimToDepth(Append(queue, <<w, s>>)))
                  ELSE queue
      /\ received' = [received EXCEPT ![w] = IF fresh THEN @ \cup {s} ELSE @]
      /\ pushes' = [pushes EXCEPT ![w][s] = IF queued THEN @ + 1 ELSE @]
      /\ UNCHANGED <<qos, expired, joined, taken>>

\* apply_gap()
ApplyGap(w, gapEnd) ==
  /\ rx' = [rx EXCEPT ![w] = AfterGap(rx[w], gapEnd)]
  /\ lost_count' = lost_count + LostByGap(rx[w], gapEnd)
  /\ joined' = [joined EXCEPT ![w] = IF rx[w].known THEN @ ELSE gapEnd]
  /\ UNCHANGED <<qos, queue, expired, received, pushes, taken>>

\* take(): false, with the sweep still done, when nothing is left.
Take ==
  LET live == SweepExpired(queue)
  IN  /\ queue' = IF live = <<>> THEN live ELSE Tail(live)
      /\ taken' = IF live = <<>> THEN taken ELSE taken \cup {Head(live)}
      /\ UNCHANGED <<qos, expired, rxVars>>

\* available() sweeps too.
Available ==
  /\ queue' = SweepExpired(queue)
  /\ UNCHANGED <<qos, expired, taken, rxVars>>

\* The wall clock passes the lifespan of a sample.
Expire(w, s) ==
  /\ w \in Perishable
  /\ expired' = expired \cup {<<w, s>>}
  /\ UNCHANGED <<qos, queue, taken, rxVars>>

Next ==
  \/ \E w \in Writers, s \in Seqs : Enqueue(w, s)
  \/ \E w \in Writers, s \in Seqs : ApplyGap(w, s)
  \/ \E w \in Writers, s \in Seqs : Expire(w, s)
  \/ Take
  \/ Available

Spec == Init /\ [][Next]_vars

-----------------------------------------------------------------------------
(* Properties *)

\* The part of the type invariant that concerns sequence numbers.
RxTypeOK ==
  /\ rx \in [Writers -> RxState]
  /\ lost_count \in Nat
  /\ received \in [Writers -> SUBSET Seqs]
  /\ pushes \in [Writers -> [Seqs -> Nat]]
  /\ joined \in [Writers -> Nat]

\* Type invariant of the reader.
TypeOK ==
  /\ RxTypeOK
  /\ qos \in QosProfiles
  /\ queue \in Seq(Samples)
  /\ expired \in SUBSET (Perishable \X Seqs)
  /\ taken \in SUBSET Samples

\* However frames are duplicated, reordered, resent after a GAP or dropped by
\* a jump, enqueue() queues a sample at most once.
AtMostOnce == \A w \in Writers, s \in Seqs : pushes[w][s] <= 1

\* nack_state() is honest: a bit of the bitmap it sends stands for a sample
\* that was received, so the writer never withholds a missing sample because
\* of it.
NackIsHonest ==
  \A w \in Writers :
    LET nack == NackState(rx[w])
    IN  \A b \in nack.bitmap : nack.base + b \in received[w]

\* Duplicates stay recognisable: a received sample is at or below the baseline
\* or has its bit set, and only received samples were queued.  With the type
\* and NackIsHonest this is the inductive invariant of the reader.
ReceivedIsRemembered ==
  \A w \in Writers : \A s \in received[w] : IsDuplicate(rx[w], s)

QueuedIsReceived ==
  \A w \in Writers, s \in Seqs : pushes[w][s] > 0 => s \in received[w]

UnknownIsEmpty == \A w \in Writers : rx[w].known \/ rx[w] = NoRxState

ReaderInv ==
  /\ RxTypeOK
  /\ UnknownIsEmpty
  /\ ReceivedIsRemembered
  /\ QueuedIsReceived
  /\ NackIsHonest
  /\ AtMostOnce

\* messages_lost() covers every sample the baseline passed without its being
\* received, except those below the join baseline the first GAP set.
Missing ==
  {m \in Samples :
     /\ m[2] > joined[m[1]]
     /\ m[2] <= rx[m[1]].last_seq
     /\ m[2] \notin received[m[1]]}

NoSilentLoss == Cardinality(Missing) <= lost_count

\* A KEEP_ALL reader gives up no queued sample: it waits in the queue, was
\* taken, or its lifespan ran out.
KeepAllKeeps ==
  qos.history = "KEEP_ALL" =>
    \A w \in Writers, s \in Seqs :
      pushes[w][s] > 0 =>
        \/ <<w, s>> \in taken \cup expired
        \/ \E i \in DOMAIN queue : queue[i] = <<w, s>>

\* The reader implements SampleFate: the fate of each sequence number is
\* decided once, whatever arrives afterwards.
sampleFate ==
  [w \in Writers |->
     [s \in Seqs |->
        CASE s \in received[w] -> "received"
          [] s \notin received[w] /\ s <= rx[w].last_seq -> "skipped"
          [] OTHER -> "pending"]]

F == INSTANCE SampleFate WITH fate <- sampleFate

FateRefinement == F!FateSpec
=============================================================================
