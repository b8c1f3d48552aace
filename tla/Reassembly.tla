----------------------------- MODULE Reassembly -----------------------------
(***************************************************************************)
(* fragment.cpp and its use by participant.cpp: Fragmenter cuts a sample to *)
(* the payload limit of the channel, Reassembler collects the fragments of  *)
(* one peer.  A resend may be cut differently (the limit is probed anew for *)
(* each channel), so fragments of one sample overlap and need not align;    *)
(* the network loses and reorders them.                                     *)
(*                                                                         *)
(* A sample is its (writer, seq) key; its payload never changes, so the     *)
(* buffer of a partial is abstracted to the set of the bytes copied into    *)
(* it.  An interval [b, e) is a pair <<b, e>>.                              *)
(***************************************************************************)
EXTENDS Integers, Sequences

CONSTANTS
  Samples,       \* keys of the samples that are sent
  Size,          \* Size[s]: payload length of s
  Limits,        \* payload limits channels may have
  DataOverhead,  \* kHeaderSize + kDataBodyFixedSize
  FragOverhead,  \* kHeaderSize + kDataFragBodyFixedSize
  Timeout,       \* Reassembler::timeout_, in ticks
  MaxSends       \* bound: transmissions of samples

ASSUME ReassemblyAssumption ==
  /\ Size \in [Samples -> Nat]
  /\ Limits \subseteq Nat
  /\ {DataOverhead, FragOverhead, Timeout, MaxSends} \subseteq Nat
  /\ DataOverhead < FragOverhead

VARIABLES
  partials,   \* partials_: the incomplete samples
  net,        \* DATA and DATA_FRAG frames in flight
  sends,      \* transmissions so far
  (* history of the behaviour *)
  delivered   \* the byte sets of the samples handed to deliver_sample()

vars == <<partials, net, sends, delivered>>

Bytes(b, e) == b .. (e - 1)

NoPartial == [intervals |-> <<>>, buffer |-> {}, age |-> 0]

Init ==
  /\ partials = [s \in Samples |-> NoPartial]
  /\ net = {}
  /\ sends = 0
  /\ delivered = {}

-----------------------------------------------------------------------------
(* Fragmenter::fragment() *)

\* Mutation: the last fragment is as long as the others.
CutFullChunks(s, capacity) ==
  {[sample |-> s, offset |-> i * capacity, len |-> capacity] :
     i \in 0 .. ((Size[s] - 1) \div capacity)}

\* The fragments of s, frag_capacity bytes each but for the last.
Cut(s, capacity) ==
  {[sample |-> s, offset |-> i * capacity,
    len |-> IF Size[s] - i * capacity < capacity THEN Size[s] - i * capacity ELSE capacity] :
     i \in 0 .. ((Size[s] - 1) \div capacity)}

\* One DATA frame if it fits, nothing if the channel is too narrow for a
\* fragment, fragments otherwise.
Fragment(s, limit) ==
  IF DataOverhead + Size[s] <= limit
    THEN {[sample |-> s]}
  ELSE IF limit <= FragOverhead \/ Size[s] = 0
    THEN {}
  ELSE Cut(s, limit - FragOverhead)

-----------------------------------------------------------------------------
(* Reassembler *)

Lesser(a, b) == IF a < b THEN a ELSE b
Greater(a, b) == IF a > b THEN a ELSE b

\* Mutation: an interval is absorbed only if it overlaps, not if it touches.
AbsorbOverlapping(acc, iv) ==
  CASE iv[2] <= acc.cur[1] -> [acc EXCEPT !.merged = Append(@, iv)]
    [] iv[2] > acc.cur[1] /\ iv[1] >= acc.cur[2] ->
         [merged |-> Append(acc.merged, acc.cur), cur |-> iv]
    [] OTHER -> [acc EXCEPT !.cur = <<Lesser(@[1], iv[1]), Greater(@[2], iv[2])>>]

\* Mutation: the end of an absorbed interval replaces the end of the merged one.
AbsorbTakingEnd(acc, iv) ==
  CASE iv[2] < acc.cur[1] -> [acc EXCEPT !.merged = Append(@, iv)]
    [] iv[2] >= acc.cur[1] /\ iv[1] > acc.cur[2] ->
         [merged |-> Append(acc.merged, acc.cur), cur |-> iv]
    [] OTHER -> [acc EXCEPT !.cur = <<Lesser(@[1], iv[1]), iv[2]>>]

\* One round of the loop of add_fragment(): an interval below the current one
\* stays, one above it becomes the current one, and one that overlaps or touches
\* it is absorbed.
Absorb(acc, iv) ==
  CASE iv[2] < acc.cur[1] -> [acc EXCEPT !.merged = Append(@, iv)]
    [] iv[2] >= acc.cur[1] /\ iv[1] > acc.cur[2] ->
         [merged |-> Append(acc.merged, acc.cur), cur |-> iv]
    [] OTHER -> [acc EXCEPT !.cur = <<Lesser(@[1], iv[1]), Greater(@[2], iv[2])>>]

\* That loop: [b, e) is carried along the sorted intervals.
Merge(intervals, b, e) ==
  LET acc[i \in 0 .. Len(intervals)] ==
        IF i = 0 THEN [merged |-> <<>>, cur |-> <<b, e>>]
        ELSE Absorb(acc[i - 1], intervals[i])
      end == acc[Len(intervals)]
  IN  Append(end.merged, end.cur)

\* Mutation: reaching the last byte counts as complete.
CompleteAtEnd(s, intervals) == intervals[Len(intervals)][2] = Size[s]

\* The intervals cover the whole sample.
Complete(s, intervals) == intervals = << <<0, Size[s]>> >>

-----------------------------------------------------------------------------
(* Actions *)

\* send_sample_to(): the network loses any of the frames.
SendSample(s, limit) ==
  /\ sends < MaxSends
  /\ sends' = sends + 1
  /\ \E kept \in SUBSET Fragment(s, limit) : net' = net \cup kept
  /\ UNCHANGED <<partials, delivered>>

\* handle_bytes() of a DATA frame.
ReceiveData(f) ==
  /\ DOMAIN f = {"sample"}
  /\ net' = net \ {f}
  /\ delivered' = delivered \cup {[sample |-> f.sample, bytes |-> Bytes(0, Size[f.sample])]}
  /\ UNCHANGED <<partials, sends>>

\* handle_bytes() of a DATA_FRAG frame: add_fragment(), and the sample goes to
\* deliver_sample() when it is complete.
ReceiveFragment(f) ==
  LET s      == f.sample
      merged == Merge(partials[s].intervals, f.offset, f.offset + f.len)
      buffer == partials[s].buffer \cup Bytes(f.offset, f.offset + f.len)
  IN  /\ DOMAIN f # {"sample"}
      /\ net' = net \ {f}
      /\ IF Complete(s, merged)
         THEN /\ partials' = [partials EXCEPT ![s] = NoPartial]
              /\ delivered' = delivered \cup {[sample |-> s, bytes |-> buffer]}
         ELSE /\ partials' = [partials EXCEPT ![s] =
                   [intervals |-> merged, buffer |-> buffer, age |-> 0]]
              /\ UNCHANGED delivered
      /\ UNCHANGED sends

Pending == {s \in Samples : partials[s] # NoPartial}

\* Time passes; ages beyond the timeout are alike.
Tick ==
  /\ \E s \in Pending : partials[s].age <= Timeout
  /\ partials' = [s \in Samples |->
       IF s \in Pending /\ partials[s].age <= Timeout
       THEN [partials[s] EXCEPT !.age = @ + 1] ELSE partials[s]]
  /\ UNCHANGED <<net, sends, delivered>>

\* Mutation: no partial counts as expired.
ExpiredNever(s) == FALSE

Expired(s) == partials[s].age > Timeout

\* sweep_expired(), once per announce period.
Sweep ==
  /\ \E s \in Pending : Expired(s)
  /\ partials' = [s \in Samples |->
       IF s \in Pending /\ Expired(s) THEN NoPartial ELSE partials[s]]
  /\ UNCHANGED <<net, sends, delivered>>

\* handle_peer_down() drops the reassembler of the peer.
PeerDown ==
  /\ Pending # {}
  /\ partials' = [s \in Samples |-> NoPartial]
  /\ UNCHANGED <<net, sends, delivered>>

Next ==
  \/ \E s \in Samples, limit \in Limits : SendSample(s, limit)
  \/ \E f \in net : ReceiveData(f) \/ ReceiveFragment(f)
  \/ Tick \/ Sweep \/ PeerDown

Spec == Init /\ [][Next]_vars

(***************************************************************************)
(* Fairness: time passes and the announce thread sweeps.  Nothing need      *)
(* arrive.                                                                  *)
(***************************************************************************)
FairSpec == Spec /\ WF_vars(Tick) /\ WF_vars(Sweep)
-----------------------------------------------------------------------------
(* Properties *)

Frames ==
  UNION {Fragment(s, limit) : s \in Samples, limit \in Limits}

\* Type invariant of the reassembler; no byte is copied past the end of a
\* buffer.
TypeOK ==
  /\ \A s \in Samples :
       /\ partials[s].intervals \in Seq((0 .. Size[s]) \X (0 .. Size[s]))
       /\ partials[s].buffer \subseteq Bytes(0, Size[s])
       /\ partials[s].age \in 0 .. (Timeout + 1)
  /\ net \subseteq Frames
  /\ sends \in 0 .. MaxSends
  /\ delivered \subseteq [sample : Samples, bytes : SUBSET Nat]

\* fragment.hpp: coverage is tracked with exact merged byte intervals.  They
\* are sorted, neither overlap nor touch, and cover the bytes that were copied,
\* however the fragments overlapped.
IntervalsExact ==
  \A s \in Samples :
    LET ivs == partials[s].intervals
    IN  /\ \A i \in DOMAIN ivs : ivs[i][1] < ivs[i][2]
        /\ \A i, j \in DOMAIN ivs : i < j => ivs[i][2] < ivs[j][1]
        /\ partials[s].buffer = UNION {Bytes(ivs[i][1], ivs[i][2]) : i \in DOMAIN ivs}

\* A sample reaches deliver_sample() only when each of its bytes was copied
\* since the buffer was allocated: no sweep, restart or mix of two cuts lets
\* an unwritten byte through.
DeliveredWhole == \A d \in delivered : d.bytes = Bytes(0, Size[d.sample])

\* A sample is not withheld: once its bytes are all there it is delivered, even
\* if they came from different transmissions.
NothingWithheld ==
  \A s \in Pending : partials[s].buffer # Bytes(0, Size[s])

\* Partials do not accumulate: each completes or is dropped, the one a late
\* duplicate of a delivered sample starts as well.
PartialsEnd == \A s \in Samples : (s \in Pending) ~> (s \notin Pending)
=============================================================================
