---------------------------- MODULE Reliability ----------------------------
(***************************************************************************)
(* The reliability protocol of participant.cpp from end to end: one writer  *)
(* with its history, the application threads that call write() on it, the   *)
(* readers of its own participant and those of one remote participant, and  *)
(* the DATA, HEARTBEAT, ACKNACK and GAP frames between the two over a       *)
(* network that loses, duplicates and reorders frames.                      *)
(*                                                                         *)
(* The handlers run under mutex_, so each is one action; write_sample()     *)
(* reads the clock before it takes the lock and sends after it released it, *)
(* so a write is three.  Discovery is reduced to what this protocol sees of *)
(* it: either side learns of or forgets the other's endpoints at any time.  *)
(***************************************************************************)
EXTENDS RxWindow, Sequences

CONSTANTS
  Threads,         \* application threads that write
  LocalReaders,    \* readers of the writer's own participant
  RemoteReaders,   \* readers of the remote participant
  TransientLocal,  \* the readers of durability TRANSIENT_LOCAL
  BestEffort,      \* the readers of reliability BEST_EFFORT
  WriterProfiles,  \* QoS profiles the writer may be created with
  MaxSeq,          \* bound: samples written
  MaxClock,        \* bound: clock ticks
  MaxNet,          \* bound: frames the network holds
  MaxDowns         \* bound: how often a peer is lost

Readers == LocalReaders \cup RemoteReaders
Seqs == 1 .. MaxSeq

\* A writer's QosProfile: cap stands for the KEEP_LAST depth or kKeepAllCap, a
\* lifespan of 0 for an infinite one.
QosProfiles ==
  [reliable : BOOLEAN, transient_local : BOOLEAN, keep_all : BOOLEAN,
   cap : Nat \ {0}, lifespan : Nat]

ASSUME ReliabilityAssumption ==
  /\ TransientLocal \subseteq Readers /\ BestEffort \subseteq Readers
  /\ LocalReaders \cap RemoteReaders = {}
  /\ WriterProfiles \subseteq QosProfiles
  /\ {MaxSeq, MaxClock, MaxNet, MaxDowns} \subseteq Nat
  /\ MaxClock >= 1

VARIABLES
  now,           \* system_clock, shared by the two hosts
  qos,           \* WriterImpl::qos_, fixed by create_writer()
  seq,           \* WriterImpl::seq_
  history,       \* WriterImpl::history_, oldest first
  call,          \* call[t]: how far thread t is in write_sample()
  birth,         \* birth_us_ of the created readers, 0 for the others
  unreplayed,    \* local readers whose create_reader() has yet to replay
  writer_knows,  \* reader endpoints in the writer's remote_
  reader_knows,  \* the writer endpoint is in the remote participant's remote_
  net,           \* frames in flight
  calm,          \* the network has stopped losing and duplicating frames
  rx,            \* rx[r]: the receive state of reader r for the writer
  lost_count,    \* lost_count[r]
  downs,         \* how often a peer was lost
  (* history of the behaviour *)
  pub_time,      \* pub_time[s]: the publication time of sample s
  received,      \* received[r]: samples that were new to r
  delivered,     \* delivered[r]: those of them that were queued
  gapped         \* gapped[r]: samples r gave up because of a GAP

writerVars == <<qos, seq, history, call, pub_time>>
readerVars == <<rx, lost_count, received, delivered, gapped>>
joinVars   == <<calm, birth, unreplayed, writer_knows, reader_knows, downs>>
vars == <<now, net, writerVars, readerVars, joinVars>>

Created == {r \in Readers : birth[r] > 0}
Idle == [at |-> "idle", pub |-> 0, seq |-> 0, send |-> FALSE, locals |-> {}]

Frames ==
  [type : {"DATA"}, seq : Seqs]
    \cup [type : {"HEARTBEAT"}, first : 0 .. MaxSeq, last : 0 .. MaxSeq]
    \cup [type : {"ACKNACK"}, reader : RemoteReaders, base : 1 .. (MaxSeq + 1),
          bitmap : SUBSET Bits]
    \cup [type : {"GAP"}, reader : RemoteReaders, start : 1 .. (MaxSeq + 1),
          end : 1 .. (MaxSeq + Window)]

Init ==
  /\ now = 1
  /\ qos \in WriterProfiles
  /\ seq = 0
  /\ history = <<>>
  /\ call = [t \in Threads |-> Idle]
  /\ birth = [r \in Readers |-> 0]
  /\ unreplayed = {}
  /\ writer_knows = {}
  /\ reader_knows = FALSE
  /\ net = {}
  /\ calm = FALSE
  /\ rx = [r \in Readers |-> NoRxState]
  /\ lost_count = [r \in Readers |-> 0]
  /\ downs = 0
  /\ pub_time = [s \in Seqs |-> 0]
  /\ received = [r \in Readers |-> {}]
  /\ delivered = [r \in Readers |-> {}]
  /\ gapped = [r \in Readers |-> {}]

-----------------------------------------------------------------------------
(* Helpers *)

\* qos_accepted_by_reader(): durability is strict, reliability is not.
Matches(r) == r \in TransientLocal => qos.transient_local

MatchingReaders(R) == {r \in R \cap Created : Matches(r)}

\* lifespan_expired()
LifespanExpired(pub) == qos.lifespan > 0 /\ now >= pub + qos.lifespan

\* The network takes the frames of `out' it has room for and loses the others;
\* it may lose any.
Send(base, out) ==
  \/ /\ calm
     /\ net' = base \cup out
  \/ /\ ~calm
     /\ \E kept \in SUBSET out :
          /\ Cardinality(base \cup kept) <= MaxNet
          /\ net' = base \cup kept

\* Receiving a frame takes it off the network, or leaves a duplicate there.
AfterReceipt(m) == IF calm THEN {net \ {m}} ELSE {net, net \ {m}}

\* enqueue() of sample s by each reader of R, in one step under their locks.
EnqueueAll(R, s, pub) ==
  LET new == {r \in R : ~IsDuplicate(rx[r], s)}
  IN  /\ rx' = [r \in Readers |-> IF r \in R THEN AfterEnqueue(rx[r], s) ELSE rx[r]]
      /\ lost_count' = [r \in Readers |->
           lost_count[r] + IF r \in R THEN LostByEnqueue(rx[r], s) ELSE 0]
      /\ received' = [r \in Readers |->
           received[r] \cup IF r \in new THEN {s} ELSE {}]
      /\ delivered' = [r \in Readers |->
           delivered[r] \cup IF r \in new /\ ~LifespanExpired(pub) THEN {s} ELSE {}]
      /\ UNCHANGED gapped

\* cache_sample(): the history with a sample appended, cut to the cap, and
\* without the expired entries at its front.
Cached(h, entry) ==
  LET pushed == Append(h, entry)
      capped == IF Len(pushed) > qos.cap
                THEN SubSeq(pushed, Len(pushed) - qos.cap + 1, Len(pushed))
                ELSE pushed
      dead   == CHOOSE n \in 0 .. Len(capped) :
                  /\ \A i \in 1 .. n : LifespanExpired(capped[i].pub)
                  /\ n < Len(capped) => ~LifespanExpired(capped[n + 1].pub)
  IN  SubSeq(capped, dead + 1, Len(capped))

Caches == qos.reliable \/ qos.transient_local

\* KEEP_ALL backpressure: the write is rejected.
HistoryFull == Caches /\ qos.keep_all /\ Len(history) >= qos.cap

HistorySeqs == {history[i].seq : i \in DOMAIN history}

Data(s) == [type |-> "DATA", seq |-> s]

\* Replay sends the entries that have not expired, oldest first.
ReplayFrames ==
  {Data(history[i].seq) : i \in {j \in DOMAIN history : ~LifespanExpired(history[j].pub)}}

AckNack(r, st) ==
  [type |-> "ACKNACK", reader |-> r, base |-> NackState(st).base,
   bitmap |-> NackState(st).bitmap]

-----------------------------------------------------------------------------
(* write_sample() *)

\* The clock is read before the lock is taken.
StampWrite(t) ==
  /\ call[t].at = "idle"
  /\ seq < MaxSeq
  /\ call' = [call EXCEPT ![t] = [Idle EXCEPT !.at = "stamped", !.pub = now]]
  /\ UNCHANGED <<now, net, qos, seq, history, pub_time, readerVars, joinVars>>

\* Mutation: the rejected write keeps the sequence number it claimed.
RejectWriteBurningSeq(t) ==
  /\ call[t].at = "stamped"
  /\ HistoryFull
  /\ seq < MaxSeq
  /\ seq' = seq + 1
  /\ call' = [call EXCEPT ![t] = Idle]
  /\ UNCHANGED <<now, net, qos, history, pub_time, readerVars, joinVars>>

\* KEEP_ALL history full: rejected, no sequence number is used.
RejectWrite(t) ==
  /\ call[t].at = "stamped"
  /\ HistoryFull
  /\ call' = [call EXCEPT ![t] = Idle]
  /\ UNCHANGED <<now, net, qos, seq, history, pub_time, readerVars, joinVars>>

\* Under the lock: claim the sequence number, cache, pick the receivers.
CommitWrite(t) ==
  LET s == seq + 1
  IN  /\ call[t].at = "stamped"
      /\ ~HistoryFull
      /\ seq < MaxSeq
      /\ seq' = s
      /\ history' = IF Caches
                    THEN Cached(history, [seq |-> s, pub |-> call[t].pub])
                    ELSE history
      /\ pub_time' = [pub_time EXCEPT ![s] = call[t].pub]
      /\ call' = [call EXCEPT ![t] =
           [at |-> "committed", pub |-> call[t].pub, seq |-> s,
            send |-> \E r \in writer_knows : Matches(r),
            locals |-> MatchingReaders(LocalReaders)]]
      /\ UNCHANGED <<now, net, qos, readerVars, joinVars>>

\* After the unlock: local readers get the sample, then matched peers.
FinishWrite(t) ==
  /\ call[t].at = "committed"
  /\ EnqueueAll(call[t].locals, call[t].seq, call[t].pub)
  /\ Send(net, IF call[t].send THEN {Data(call[t].seq)} ELSE {})
  /\ call' = [call EXCEPT ![t] = Idle]
  /\ UNCHANGED <<now, qos, seq, history, pub_time, joinVars>>

-----------------------------------------------------------------------------
(* Readers and peers come and go *)

CreateReader(r) ==
  /\ birth[r] = 0
  /\ birth' = [birth EXCEPT ![r] = now]
  /\ unreplayed' = IF r \in LocalReaders \cap TransientLocal
                   THEN unreplayed \cup {r} ELSE unreplayed
  /\ UNCHANGED <<now, net, calm, writerVars, readerVars, writer_knows, reader_knows, downs>>

\* The cached samples a reader that joins is given.
Live == {i \in DOMAIN history : qos.transient_local /\ ~LifespanExpired(history[i].pub)}

\* Those entries in order, each through enqueue(): state[i] is what the first i
\* entries make of a reader in receive state st.
Replayed(st) ==
  LET state[i \in 0 .. Len(history)] ==
        IF i = 0 THEN [rx |-> st, lost |-> 0, new |-> {}]
        ELSE LET before == state[i - 1]
                 s == history[i].seq
             IN  IF i \notin Live THEN before
                 ELSE [rx   |-> AfterEnqueue(before.rx, s),
                       lost |-> before.lost + LostByEnqueue(before.rx, s),
                       new  |-> before.new \cup
                                  IF IsDuplicate(before.rx, s) THEN {} ELSE {s}]
  IN  state[Len(history)]

\* replay_local_history(), the second half of create_reader().
ReplayLocal(r) ==
  LET final == Replayed(rx[r])
  IN  /\ r \in unreplayed
      /\ unreplayed' = unreplayed \ {r}
      /\ rx' = [rx EXCEPT ![r] = final.rx]
      /\ lost_count' = [lost_count EXCEPT ![r] = @ + final.lost]
      /\ received' = [received EXCEPT ![r] = @ \cup final.new]
      /\ delivered' = [delivered EXCEPT ![r] = @ \cup final.new]
      /\ UNCHANGED <<now, net, writerVars, calm, birth, writer_knows, reader_knows,
                     downs, gapped>>

\* handle_announce() at the writer: the snapshot, as it was when it was sent,
\* replaces what was known; new TRANSIENT_LOCAL readers get the history.
WriterLearns(last) ==
  LET snapshot == {r \in RemoteReaders \cap Created : birth[r] <= birth[last]}
      joining  == snapshot \ writer_knows
  IN  /\ last \in RemoteReaders \cap Created
      /\ writer_knows # snapshot /\ writer_knows \subseteq snapshot
      /\ writer_knows' = snapshot
      /\ Send(net, IF joining \cap TransientLocal # {} /\ qos.transient_local
                   THEN ReplayFrames ELSE {})
      /\ UNCHANGED <<now, writerVars, readerVars, calm, birth, unreplayed, reader_knows, downs>>

\* handle_announce() at the remote participant, which has no writers to replay.
ReaderLearns ==
  /\ ~reader_knows
  /\ reader_knows' = TRUE
  /\ UNCHANGED <<now, net, writerVars, readerVars, calm, birth, unreplayed, writer_knows, downs>>

\* handle_peer_down() on either side erases the endpoints of the peer.
WriterForgets ==
  /\ downs < MaxDowns
  /\ writer_knows # {}
  /\ writer_knows' = {}
  /\ downs' = downs + 1
  /\ UNCHANGED <<now, net, writerVars, readerVars, calm, birth, unreplayed, reader_knows>>

ReaderForgets ==
  /\ downs < MaxDowns
  /\ reader_knows
  /\ reader_knows' = FALSE
  /\ downs' = downs + 1
  /\ UNCHANGED <<now, net, writerVars, readerVars, calm, birth, unreplayed, writer_knows>>

Tick ==
  /\ now < MaxClock
  /\ now' = now + 1
  /\ UNCHANGED <<net, writerVars, readerVars, joinVars>>

-----------------------------------------------------------------------------
(* Frames *)

\* Once the network is calm, a round of frames takes less than the announce
\* period: the next heartbeat finds the network empty.
RoundOver == calm => net = {}

\* send_heartbeats(), from the announce thread.
SendHeartbeat ==
  /\ RoundOver
  /\ qos.reliable /\ history # <<>>
  /\ Send(net, {[type |-> "HEARTBEAT", first |-> Head(history).seq, last |-> seq]})
  /\ UNCHANGED <<now, writerVars, readerVars, joinVars>>

\* assert_liveliness(): a heartbeat for a writer with an empty history too.
AssertLiveliness ==
  /\ RoundOver
  /\ Send(net, {[type |-> "HEARTBEAT", last |-> seq,
                 first |-> IF history = <<>> THEN seq ELSE Head(history).seq]})
  /\ UNCHANGED <<now, writerVars, readerVars, joinVars>>

\* deliver_sample(): dropped while the writer is unknown, otherwise enqueued by
\* every matching reader of the participant; a hole is NACKed at once.
HandleData(m) ==
  LET receivers == IF reader_knows THEN MatchingReaders(RemoteReaders) ELSE {}
      nacking   == {r \in receivers \ BestEffort :
                      qos.reliable /\ OpensHole(rx[r], m.seq)}
      nacks     == {AckNack(r, AfterEnqueue(rx[r], m.seq)) : r \in nacking}
  IN  /\ m.type = "DATA"
      /\ EnqueueAll(receivers, m.seq, pub_time[m.seq])
      /\ \E base \in AfterReceipt(m) : Send(base, nacks)
      /\ UNCHANGED <<now, writerVars, joinVars>>

\* Mutation: a reader that lacks only the last sample does not ask for it.
BehindByTwo(r, m) == NackState(rx[r]).base < m.last

Behind(r, m) == NackState(rx[r]).base <= m.last

\* handle_heartbeat(): reliable readers that are behind NACK.
HandleHeartbeat(m) ==
  LET nacking == {r \in MatchingReaders(RemoteReaders) \ BestEffort :
                    reader_knows /\ Behind(r, m)}
  IN  /\ m.type = "HEARTBEAT"
      /\ \E base \in AfterReceipt(m) : Send(base, {AckNack(r, rx[r]) : r \in nacking})
      /\ UNCHANGED <<now, writerVars, readerVars, joinVars>>

\* The samples an ACKNACK asks for.
Requested(m) == {m.base + b : b \in Bits \ m.bitmap}

\* Mutation: a sample published in the tick of the birth counts as older.
PreJoinOrSameTick(r, i) == r \notin TransientLocal /\ history[i].pub <= birth[r]

\* A cached sample the reader may not have: it predates a volatile reader.
PreJoin(r, i) == r \notin TransientLocal /\ history[i].pub < birth[r]

\* Requested samples that are resent.
Resent(m) ==
  {history[i].seq : i \in {j \in DOMAIN history :
     history[j].seq \in Requested(m) /\ ~PreJoin(m.reader, j)}}

\* Mutation: whatever is not in the history is declared unavailable.
UnavailableIfNotCached(m) ==
  {history[i].seq : i \in {j \in DOMAIN history :
     history[j].seq \in Requested(m) /\ PreJoin(m.reader, j)}}
    \cup {s \in Requested(m) : history # <<>> /\ s \notin HistorySeqs}

\* Requested samples that never will be sent: predating a volatile reader, or
\* evicted.
Unavailable(m) ==
  {history[i].seq : i \in {j \in DOMAIN history :
     history[j].seq \in Requested(m) /\ PreJoin(m.reader, j)}}
    \cup {s \in Requested(m) : history # <<>> /\ s < Head(history).seq}

\* handle_acknack(): ignored while the reader is unknown; resends, then one GAP
\* up to the highest unavailable sample.
HandleAckNack(m) ==
  LET gap == {[type |-> "GAP", reader |-> m.reader, start |-> m.base, end |-> e] :
                e \in {u \in Unavailable(m) : \A v \in Unavailable(m) : v <= u}}
      out == IF m.reader \in writer_knows
             THEN {Data(s) : s \in Resent(m)} \cup gap ELSE {}
  IN  /\ m.type = "ACKNACK"
      /\ \E base \in AfterReceipt(m) : Send(base, out)
      /\ UNCHANGED <<now, writerVars, readerVars, joinVars>>

\* handle_gap() and apply_gap().
HandleGap(m) ==
  LET st == rx[m.reader]
  IN  /\ m.type = "GAP"
      /\ rx' = [rx EXCEPT ![m.reader] = AfterGap(st, m.end)]
      /\ lost_count' = [lost_count EXCEPT ![m.reader] = @ + LostByGap(st, m.end)]
      /\ gapped' = [gapped EXCEPT ![m.reader] = @ \cup
           {s \in Seqs : s > st.last_seq /\ s <= m.end /\ s \notin received[m.reader]}]
      /\ net' \in AfterReceipt(m)
      /\ UNCHANGED <<now, received, delivered, writerVars, joinVars>>

Next ==
  \/ \E t \in Threads :
       StampWrite(t) \/ RejectWrite(t) \/ CommitWrite(t) \/ FinishWrite(t)
  \/ \E r \in Readers : CreateReader(r) \/ ReplayLocal(r) \/ WriterLearns(r)
  \/ ReaderLearns \/ WriterForgets \/ ReaderForgets \/ Tick
  \/ SendHeartbeat \/ AssertLiveliness
  \/ \E m \in net :
       HandleData(m) \/ HandleHeartbeat(m) \/ HandleAckNack(m) \/ HandleGap(m)

Spec == Init /\ [][Next]_vars

(***************************************************************************)
(* Fairness.  From some moment on the network loses and duplicates nothing  *)
(* (it never has to before), and delivers frames of each kind.  Writers     *)
(* finish their calls, each side ends up knowing the other because both     *)
(* announce periodically, and so does the announce thread's heartbeat.      *)
(***************************************************************************)
Stabilise ==
  /\ ~calm
  /\ calm' = TRUE
  /\ UNCHANGED <<now, net, writerVars, readerVars, birth, unreplayed, writer_knows,
                 reader_knows, downs>>

Fairness ==
  /\ \A t \in Threads : WF_vars(RejectWrite(t) \/ CommitWrite(t) \/ FinishWrite(t))
  /\ WF_vars(Stabilise)
  /\ WF_vars(ReaderLearns)
  /\ WF_vars(\E r \in RemoteReaders : WriterLearns(r))
  /\ WF_vars(SendHeartbeat)
  /\ WF_vars(\E m \in net : HandleHeartbeat(m))
  /\ WF_vars(\E m \in net : HandleAckNack(m))
  /\ WF_vars(\E m \in net : HandleData(m))
  /\ WF_vars(\E m \in net : HandleGap(m))

FairSpec == Init /\ [][Next \/ Stabilise]_vars /\ Fairness
-----------------------------------------------------------------------------
(* Properties *)

\* Type invariant of the protocol: histories, receive states and frames stay
\* within the ranges the handlers compute them in.
TypeOK ==
  /\ now \in 1 .. MaxClock
  /\ qos \in WriterProfiles
  /\ seq \in 0 .. MaxSeq
  /\ history \in Seq([seq : Seqs, pub : 1 .. MaxClock])
  /\ call \in [Threads -> [at : {"idle", "stamped", "committed"}, pub : 0 .. MaxClock,
                           seq : 0 .. MaxSeq, send : BOOLEAN,
                           locals : SUBSET LocalReaders]]
  /\ birth \in [Readers -> 0 .. MaxClock]
  /\ unreplayed \subseteq LocalReaders
  /\ writer_knows \subseteq RemoteReaders
  /\ reader_knows \in BOOLEAN
  /\ net \subseteq Frames
  /\ calm \in BOOLEAN
  /\ rx \in [Readers -> RxState]
  /\ lost_count \in [Readers -> Nat]
  /\ downs \in 0 .. MaxDowns
  /\ pub_time \in [Seqs -> 0 .. MaxClock]
  /\ received \in [Readers -> SUBSET Seqs]
  /\ delivered \in [Readers -> SUBSET Seqs]
  /\ gapped \in [Readers -> SUBSET Seqs]

\* handle_acknack() relies on it: the history holds a contiguous range that
\* ends at the last published sample, so what is not in it and lies below its
\* front was evicted.
HistoryContiguous ==
  \A i \in DOMAIN history : history[i].seq = seq - (Len(history) - i)

\* No reader's baseline or window ever reaches past what was published: no
\* GAP, jump or slide gives up a sample that is still to come.
NeverAheadOfWriter ==
  \A r \in Readers :
    /\ rx[r].last_seq <= seq
    /\ \A b \in rx[r].window : SeqOfBit(rx[r], b) <= seq

Entitled(r, s) == r \in TransientLocal \/ pub_time[s] >= birth[r]

\* frame.hpp: a GAP covers samples that were evicted or predate a volatile
\* reader, and handle_acknack() sends one for everything up to the last such
\* sample because "the pre-join set is a contiguous prefix".  So a reader gives
\* up, of what the writer still holds, only samples it is not entitled to.
GapOnlyUnavailable ==
  \A r \in Readers : \A s \in gapped[r] :
    s \in HistorySeqs => ~Entitled(r, s)

\* The same, but for a sample overtaken by one with an earlier publication time:
\* write_sample() reads the clock before the lock under which the number is
\* claimed, and a reader born between two such times is entitled to the lower
\* number and not to the higher.  That is the only way.
GapOnlyUnavailableOrSwapped ==
  \A r \in Readers : \A s \in gapped[r] :
    s \in HistorySeqs =>
      \/ ~Entitled(r, s)
      \/ \E p \in (s + 1) .. seq : ~Entitled(r, p) /\ pub_time[p] < pub_time[s]

\* design.md: a reliable pair heals.  Once writing stops, every published sample
\* is received by every reliable reader or given up by it.
Healed(r) == \A s \in 1 .. seq : IsDuplicate(rx[r], s)

ReliableReaders == MatchingReaders(RemoteReaders) \ BestEffort

EventuallyHealed ==
  <>[](qos.reliable => \A r \in ReliableReaders : Healed(r))

\* The baseline of r stands before a sample it has and its bitmap is full: its
\* ACKNACKs ask for nothing.
Stalled(r) ==
  LET nack == NackState(rx[r])
  IN  nack.base \in received[r] /\ nack.bitmap = Bits

\* The same as EventuallyHealed, but for a reader that apply_gap() left stalled.
EventuallyHealedOrStalled ==
  <>[](qos.reliable => \A r \in ReliableReaders : Healed(r) \/ Stalled(r))
=============================================================================
