# TLA+ verification of mdds

mdds is a small DDS-style middleware in C++: participants discover each other
over a transport (UDP loopback/LAN or DSoftBus), match writers with readers by
topic, type and QoS, and exchange samples with best-effort or reliable delivery.
This directory holds TLA+ models of its core, the TLC configurations that check
them on small instances, and TLAPS proofs of their safety for every instance. File
names below are relative to `src/`.

## 1. The system

| Component | State | Operations | Who calls it |
|---|---|---|---|
| Reader (`ReaderImpl`, `src/participant.cpp`) | `rx_` (baseline and 64-bit window per writer), `queue_`, `lost_count_` | `enqueue`, `apply_gap`, `nack_state`, `take`, `available` | receive threads, local writers, application |
| Writer (`WriterImpl`, `write_sample`) | `seq_`, `history_`, QoS | `write`, `cache_sample`, history replay | application threads |
| Reliability protocol (handlers of `ParticipantImpl`) | none of its own | `deliver_sample`, `handle_heartbeat`, `handle_acknack`, `handle_gap`, `send_heartbeats`, `assert_liveliness` | receive threads, announce thread |
| Discovery (`ParticipantImpl`) | `peers_`, `remote_`, `announce_seq_`, matched counts | `handle_peer_up`, `handle_peer_down`, `handle_announce`, `announce_loop`, `recompute_matches` | transport threads, announce thread, application |
| UDP transport (`src/transport_udp.cpp`) | peer table with timestamps | `recv_loop`, `announce_loop`, `sweep_peers`, `send` | its two threads |
| Send lanes (`src/send_lane.hpp`) | queue, byte count, shared `SendBudget`, stop flags | `push`, `stop`, `run` | transport; one worker per lane |
| Fragmentation (`src/fragment.cpp`) | partials per (writer, seq) | `fragment`, `add_fragment`, `sweep_expired` | participant, one reassembler per peer |
| DSoftBus transport (`src/transport_dsoftbus.cpp`) | `running_`, `s_instance`, `peers_` (channel, pending socket, lane per device) | `start`, `stop`, `poll_loop`, `on_bind`, `on_shutdown`, `on_error`, `deliver` | its poll thread, service callbacks, lane workers, participant |
| Frame and announce codecs (`src/frame.cpp`, `src/discovery.cpp`) | none | `encode_*`, `decode_*`, dispatch in `handle_bytes` | senders, receive threads |
| QoS, GUIDs | none | pure functions | everything |

How they interact. A transport calls its listener (the participant) from its own
threads: peer up, peer down and bytes received. It releases its lock before it
makes the call, so two calls of different threads may arrive in either order.
The participant guards endpoints, peers and the remote view by `mutex_`; each
reader guards its queue and receive state by `queue_mutex_`. Samples go to local
readers and to the transport after `mutex_` is released. The participant's
announce thread sends the full snapshot and the heartbeats once per period and
sweeps partial samples. A frame is lost without notice: on the network, at a
full lane, or because the receiver does not know its sender (yet, or any more).

What is hard: the order of the transport's upcalls; work done after an unlock
from state read before it; a clock read before the lock; peers that restart on
their address; the window arithmetic at its edges; frames of every kind lost,
duplicated and reordered; and termination of lanes while threads push. Section 6
of this file and `hazards` in `PROJECT.json` list these at their lines.

What makes each component correct:

- reader: each sample is queued at most once; acknowledgement bitmaps claim
  received samples only; what is given up is counted; a KEEP_ALL queue loses
  nothing;
- writer and protocol: the history is a contiguous range; readers never get ahead
  of the writer; a GAP covers only what cannot or may not be supplied; a reliable
  pair heals;
- discovery: matched counts are right whenever no thread is in between; a view of
  a participant never moves back; live processes come to know each other and
  forget the ones that are gone;
- lanes: exact byte accounting, limits, order, drain and discard, termination;
- reassembly: exact coverage, delivery at once and whole, no partial kept for ever;
- DSoftBus connections: lanes and sockets live as long as their channel; the
  participant knows the devices that have one; one-sided channels end; devices
  never stop trying to connect; `stop` returns;
- codecs: what is decoded is what was encoded, at every limit of a field; frames of
  later versions are still understood.

## 2. Modules

| Module | Models | Extends |
|---|---|---|
| `RxWindow` | the pure part of `WriterRxState`: duplicate test, slide, jump, gap, NACK state | |
| `SampleFate` | abstract: the fate of each sequence number is decided once | |
| `Reader` | `ReaderImpl` under arbitrary DATA and GAP streams | `RxWindow`; maps to `SampleFate` |
| `Reliability` | one writer, its threads, local readers and the readers of a remote participant over a bad network | `RxWindow` |
| `LaneFifo` | abstract: a queue that accepts until closed, delivers in order and ends empty or waived | |
| `SendLane` | the lanes of a transport with shared budget and condition variables | maps to `LaneFifo` |
| `Reassembly` | fragmenter and reassembler over a bad network | |
| `Discovery` | UDP peer tables, participant peers and views, four threads per process | |
| `DsoftbusConn` | the DSoftBus transports of several devices and the service between them | |
| `Codec` | encoders, decoders and dispatch of all frame types | |
| `DataLemmas` | proofs: induction, sums over finite sets and sequences, functions by recursion | |
| `ReaderProofs` | proofs: the operations on a receive state, and the reader | `Reader`, `DataLemmas` |
| `ReliabilityProofs` | proofs about the protocol | `Reliability`, `DataLemmas` |
| `SendLaneProofs`, `ReassemblyProofs`, `CodecProofs` | proofs about lanes, reassembly and the codecs | `DataLemmas` |
| `DiscoveryProofs`, `DsoftbusProofs` | proofs about discovery and DSoftBus connections | |
| `MC*` | constants of the TLC instances | |

Names follow the code (`last_seq`, `lost_count`, `announce_seq`, ...). A variable
that records the past of a behaviour and is not state of the program is declared
under "history of the behaviour". Operators introduced by a comment "Mutation:"
are wrong variants of the definition that follows them. They are not used by the
specifications; substituted for that definition they must break a property, as
listed in `PROJECT.json`.

**RxWindow and Reader.** The 64-bit word is the set of positions of its 1-bits
and its width is the constant `Window`; a shift is the translation of the set, so
shifting by the width or more empties it, as the code's explicit test for 64
makes it do. `enqueue`, `apply_gap`, `take` and `available` run under one lock and
are one action each, including the trailing trim to the depth and the sweep of
expired samples, a pass over the queue (`SweepExpired`). `Expire` is the wall clock passing a sample's lifespan.

**Reliability.** A write is three steps: read the clock (before the lock), claim
the sequence number, cache and choose the receivers (under the lock), hand the
sample over (after the unlock). The handlers are one action each. Discovery is
reduced to what the protocol sees of it: `WriterLearns` applies a snapshot of the
remote readers as of some earlier moment and replays the history to new
TRANSIENT_LOCAL ones; either side may forget the other. A DATA frame is
resent to a participant, not to a reader: every matching reader there enqueues it.

**SendLane.** `push` checks the budgets and adds to them in two steps, because
the shared counter is changed by other lanes in between while the lane's own lock
is held. Waiting, notification and spurious wakeups are explicit, and a
notification to a worker that does not wait is lost. Calls of `stop` on one lane do
not overlap, because the transport moves the lane out of its table before it stops it.

**Reassembly.** The bytes of a sample are the numbers below its size. A resend may
be cut by another limit, so fragments overlap arbitrarily. Intervals are merged as
the loop of the code does, one round at a time (`Absorb`), and the buffer is tracked apart from them so that the two can
disagree if the merge were wrong.

**Discovery.** Each process has a receive thread, a UDP announce thread that
sweeps, a participant announce thread and an application thread; each program
counter (`recv`, `sweep`, `announcer`, `app`) marks the points where locks are
released. A sweep erases all timed-out peers in one critical section and makes their
down calls afterwards, one by one (`dead`). A frame leaves only if its addressee is in
the transport's table, as `send` checks. A participant is its port and the number of
its predecessors there: the GUID changes with a restart, the PeerId does not.

**DsoftbusConn.** A channel is a connection: the device that binds, the one it binds
to and a count, with a socket at each end; `ends` has the state of each. Its name is
used again when the last connection has left no trace, so a behaviour may connect and
disconnect for ever. The fd of a socket is not this name but a number of its process,
which the service may hand out for any device once that end is released. Open sockets
of a process have different numbers, so the model keeps of a number only whether it is
the one that a lane captured whose own socket is gone (`reassigned`). The poll thread
is three steps: enumerate, `Socket()` with the entry in `peers_`, `BindAsync()`; the
last two may fail. A callback is its critical section and, in a second step, what it
does after the unlock: `OnBindFirst` and `PeerUp`, `OnShutdownChannel` and `PeerDown`,
the latter only when the lane's worker has left the sink. A lane is reduced to whether
its worker stands between the check and `SendBytes()` of `deliver()`; its queue is
`SendLane`. `stop` clears `running_`, joins the poll thread, takes `mutex_`, shuts down
the channels one at a time, then closes the listening socket and clears `s_instance`
and the table, unlocks, and joins the lanes; the service runs between these steps, the
critical sections of callbacks and lanes do not. Other holders of `mutex_` are one step
each, so only `stop` is seen to hold it (`Locked`). After `stop` a transport may be
started again in the same process. The service is assumed, from how the code uses it,
to list every device, to run the callbacks of one socket one after the other and those
of different sockets at any time, to make no callback at the end that calls
`Shutdown()`, to release a number when `Shutdown()` or `OnShutdown` has returned, and
to know nothing of `mutex_`. Two history variables name the cases in which the code
gives up its promise: `abandoned` (sockets that were being bound when `stop` cleared
the table, and inbound binds that find no transport) and `overtaken` (peers whose up
call came before the down call of their previous channel).

**Codec.** A frame is a sequence of bytes and a field a big-endian number of fixed
width that wraps. Encoders and decoders have tables of their own (`Puts`, `Gets`,
`FixedSize`), as the code writes offsets and sizes out on both sides. The trailer is
parsed by position and an ANNOUNCE by a cursor that fails once and for all
(`Reader2`); both loops are recursive functions, one round per step. Base and widths are
parameters, and the messages any that the C++ structs can hold (`IsMessage`). A frame is refused by the transport above `MaxPayload`, may be cut by
`recvfrom` (a receiver configured with a smaller `udp_max_payload`), and may come
from a later version that appends trailer entries or something that is none.

### Simplifications

- One clock, in ticks, stands for the microsecond and millisecond clocks of both
  hosts.
- `FinishWrite` enqueues in all local readers and sends in one step; the readers
  do not observe each other in between. `HandlePeerUp` inserts and announces in one step.
- Topic, type and QoS matching is a boolean in `Discovery`; `Reliability` has the
  durability and reliability rules.
- The snapshot of `Discovery` is one reader, which exists or not, and a version
  number that counts its changes.
- `Reassembly` leaves out the reassembler's rejections of frames that no fragmenter
  makes (zero length, offset past the end, changed totals): every frame of the model
  comes from `fragment`, the size of a sample never changes, and `CutProperty` proves
  that no fragment is empty or reaches past the end.
- Outside `Codec` frames are exchanged decoded.
- `DsoftbusConn` leaves out the probed `max_payload`, dispatches a callback and runs
  its critical section in one step, and counts a call of `stop` among the bounded
  faults.

## 3. Runs

Bounds are constants that appear in guards and are named in the modules
(`Max...`).

| Run | Instance | Result |
|---|---|---|
| `reader` | one writer, window 3, 5 sequence numbers, depth up to 2 and KEEP_ALL | holds, 471 thousand states |
| `reliability` | two threads (symmetric), a local TRANSIENT_LOCAL and a remote volatile reader, three writer profiles, window 2, 3 samples, 2 ticks, 1 frame in flight, 1 peer loss | holds, 2.1 million states |
| `reliability_live` | one volatile remote reader, writers KEEP_LAST 2, KEEP_LAST 1 and KEEP_ALL without lifespan, window 2, 4 samples, 1 peer loss | holds, 477 thousand states |
| `send_lane` | 2 lanes, 2 threads, lengths 1 and 2, limits 4 and 5, 4 pushes, 1 stop | holds, 302 thousand states |
| `reassembly` | samples of 7 and 3 bytes, four frame limits, 3 transmissions | holds, 19 thousand states |
| `discovery` | 2 processes, 1 endpoint change, 1 fault, 2 frames in flight | holds, 255 thousand states |
| `dsoftbus` | 2 devices, 1 channel each way, 1 fault | holds, 102 thousand states |
| `codec` | bytes of 8 values, widths 2, 3, 4 and 2 for u16, u32, u64 and a GUID, frames up to 63 bytes, 300 messages, every cut | holds, 100 thousand states |
| `reliability_heal`, `reliability_swap`, `peer_inversion`, `dsoftbus_glare` | see section 6 | violated |

Why the bounds are enough to be interesting. With a window of three and five
numbers a reader can fill the window, slide over runs of length 0 to 2, jump past
the window with bits set and be gapped inside, at and beyond its width; the proofs
of section 5 remove the bound for the main properties. With a window of two and
three samples the protocol evicts (cap 2), rejects (KEEP_ALL cap 2), lets samples
expire (lifespan 1), jumps and gaps; four samples are needed to stall the healing
loop. In the lanes both limits can reject on their own, two threads can pass the
shared check together, and a thread can push while the other stops the lane. Two lanes
of 4 bytes could hold 8, so only the shared check keeps them at 7, the limit of 5 and
one frame of 2; this overrun is reached. One stop is enough for one lane, because a
second begins when the first has joined the worker. A sample of
seven bytes is cut into pieces of two (limit 5) or three (limit 6), sent whole
(limit 8) or not at all (limit 3). In `discovery` the single fault is a crash, a
crash followed by a restart, or a false timeout. Announce rounds before the network
is calm are bounded by `MaxRounds`, 0 in this run: the announcements before that
are those of peer-up calls, which share sequence number 0 with different snapshots.
Announcements with different numbers are in flight together only in the proof of
`ViewsNeverGoBack`: a run with `MaxRounds` 1 does not end in minutes.

In `dsoftbus` each device has one channel name for its own binds, so it binds again
when the old connection has ended on both sides; the two channels of a pair are enough
for an fd to be handed out again while a lane remembers it. The fault is a crash, a stop, a lost
channel or listening socket, or a failing call. In `codec` a u16 wraps at 64 and a datagram holds 63 bytes, which
keeps the relation of 65536 and 60000; names of 64 and 66 bytes and lists of 64 are
sent, and every value is at 1 or at the largest its field holds. In `reliability` one
frame is in flight at a time: it can be lost, delayed past any other step and
duplicated, but nothing overtakes it. Reordering is covered by the theorems
`ReliabilityWellTyped`, `HistoriesAreContiguous`, `ReadersNeverAhead` and
`GapsAreJustified`, which hold for any number of frames in flight.

Runs say `CHECK_DEADLOCK FALSE` where the bounded system may come to rest: all
samples written, all lanes stopped, everything discovered.

### Fairness

- `Reliability`: `Stabilise` makes the network calm at some time; before that it
  may lose everything. After that frames are delivered. Heartbeats are sent for
  ever because the announce thread is periodic; `RoundOver` says that a calm network
  delivers a round within the announce period. Threads finish the calls they are
  in, and both sides learn of each other because announcements are periodic.
  Nobody has to write, and no peer has to fail. In `reliability_live` the writer
  stops after `MaxSeq` samples.
- `SendLane`: threads finish calls, the worker runs, the sink returns. No fairness
  on spurious wakeups, so a lost notification would show.
- `Reassembly`: time passes and the announce thread sweeps. Delivery is not fair.
- `Discovery`: presence is sent and read periodically, dead peers are swept, threads
  finish their calls, and the announce thread starts rounds. Once calm, rounds that
  would tell nobody anything are left out (`RoundDue`), which bounds `announce_seq`.

- `DsoftbusConn`: the poll thread polls every `kPeerPollMs`; the service decides
  every bind, notices closed channels and makes its callbacks; `SendBytes` returns;
  `stop` proceeds. Nothing has to fail, to stop or to start, and no lane has to have
  a frame to send.

## 4. What the passing runs show

- `reader`: `AtMostOnce`, `NackIsHonest`, `NoSilentLoss` and `KeepAllKeeps` hold in
  every order of arrivals, gaps, takes and expirations; `ReaderInv` is the inductive
  invariant of the proofs; `FateRefinement` says `Reader` implements `SampleFate`.
- `reliability`: `HistoryContiguous`, which `handle_acknack` relies on to tell
  evicted samples from those to come; `NeverAheadOfWriter`; and
  `GapOnlyUnavailableOrSwapped`: a GAP covers a sample that the writer still holds only
  if that sample or one numbered after it predates a volatile reader. The second case is
  a finding, see section 6.
- `reliability_live`: `EventuallyHealedOrStalled`, a reliable volatile reader of the
  three profiles ends up with or gives up each sample, unless it has the sample its
  baseline stands at and its bitmap is full, the stall of section 6.
- `send_lane`: `BudgetExact`, `LaneWithinLimit`, `BoundedOverrun`,
  `ExitLeavesNothing`, `QueuesEmpty`, `StopReturns`; `FifoRefinement` says `SendLane`
  implements `LaneFifo`, which implies `FifoUntilDiscarded` of the proofs. The shared
  limit can be overrun, by at most one frame of each other lane.
- `reassembly`: `IntervalsExact`, `DeliveredWhole`, `NothingWithheld`, `PartialsEnd`.
- `discovery`: `MatchedWhenQuiet`, `ViewNeverGoesBack`, and
  `EventuallyDiscoveredByPeers`: a process announces its final state to every
  live process it still counts among its peers.

- `dsoftbus`: `LaneLivesWithChannel`; `ReassignedOnlyByStop`, the number that a lane
  between its check and its send has captured is handed out again only while `stop` of
  its own transport is under way; `NoSocketLeaked`; `KnownWhenQuiet`, the participant
  knows exactly the devices with a channel whenever no call is on its way;
  `HalfOpenEnds`; `EventuallyConnectedOrOneSided`, no path leaves two running devices
  without another attempt; `StopReturns`. The cases that `stop`, `abandoned` and
  `overtaken` except are real, see section 6.
- `codec`: `NothingGarbled`, what `handle_bytes` passes on is what was sent, even if
  the datagram was cut or a name or list is too long for its u16: a frame that would
  wrap is longer than UDP sends. This is true of UDP only: `send` of DSoftBus checks no
  length. `WholeFrameAccepted`, what arrives whole is decoded and every known entry of
  its trailer is taken, whatever stands around it.

## 5. Proofs

The theorems hold for every value of the constants that satisfies the assumptions of
the module: any set of writers, threads, lanes, devices or ports, any window width,
any size and limit. Each is stated of `Spec`, which leaves fairness out (`Discovery`
states its specification with fairness, and the theorems are about that one). Every
invariant of a run is a theorem, and so are all action properties and both
refinements.

| Module | Theorem | Says |
|---|---|---|
| `ReaderProofs` | `ReaderInvariant` | the inductive invariant `ReaderInv` |
| | `AtMostOnceHolds` | no sample is queued twice |
| | `NackIsHonestHolds` | bitmaps claim received samples only |
| | `FateRefinementHolds` | `Reader` implements `SampleFate` |
| | `NoSilentLossHolds` | the loss counter covers what was given up |
| | `ReaderWellTyped`, `KeepAllKeepsHolds` | the queue, and what a KEEP_ALL reader keeps |
| `ReliabilityProofs` | `HistoriesAreContiguous` | the history is a contiguous range |
| | `ReadersNeverAhead` | no reader gets ahead of the writer |
| | `GapsAreJustified` | `GapOnlyUnavailableOrSwapped` |
| | `ReliabilityInvariant`, `ReliabilityWellTyped` | the inductive invariant, the types |
| `SendLaneProofs` | `LanesKeepExactBudgets` | both counters are the bytes queued |
| | `LanesKeepLimit`, `LanesBoundOverrun` | the limit of a lane; the overrun of the shared one |
| | `LanesAreFifo`, `LanesLeaveNothing` | order and drain |
| | `LanesImplementFifo` | `SendLane` implements `LaneFifo` |
| | `LanesWellTyped` | the types |
| `CodecProofs` | `NothingGarbledHolds` | what is decoded is what was encoded, or nothing |
| | `WholeFrameAcceptedHolds` | what arrives whole is decoded, with every known entry |
| `ReassemblyProofs` | `IntervalsAreExact` | intervals are sorted, apart and what was copied |
| | `SamplesDeliveredWhole`, `SamplesNeverWithheld` | a sample is delivered when, and only when, it is whole |
| | `ReassemblyInvariant`, `ReassemblyWellTyped` | the inductive invariant; no copy past the end |
| `DiscoveryProofs` | `ViewsNeverGoBack` | no view goes back to an earlier snapshot |
| | `MatchedCountsRight` | the matched count is right when nobody is about to recompute it |
| | `DiscoveryWellTyped` | the types |
| `DsoftbusProofs` | `LanesLiveWithChannels` | lanes and channels |
| | `ReassignedOnlyWhileStopping` | outside `stop` no lane can write to a number handed out again |
| | `SocketsNeverLeak` | every open socket is accounted for |
| | `ParticipantsKnowTheirPeers` | the participant knows the devices with a channel |
| | `TransportsWellTyped` | the types, and that the entries of `peers_` are well formed |

Assumptions beyond the types of the constants: the window is not empty; lanes and
frame lengths are finite non-empty sets, and frames are not empty; devices and ports are finite sets, so
that matched readers can be counted; the clock of `Reliability` has a first tick; a
DATA_FRAG header is longer than a DATA header. For `Codec`: the widths of fields are
below the base of a byte, so that a trailer entry can state its length, and a u16 is no
wider than a u32; a datagram is shorter than a u16 counts; what is sent has the shape of
the C++ structs, each number within the type of its member, a fragment inside its sample;
the entries that a later version adds have one byte each for type and length, and what it
adds beyond entries is too short for the length it states. TLC evaluates all of them on
the instances.

**Reader.** `AtMostOnce` is not inductive: it needs to know that a sample which was
queued is recognised when it comes again. `ReaderInv` adds that every received sample
is at or below the baseline or has its bit set (`ReceivedIsRemembered`), that only
received samples were queued (`QueuedIsReceived`), that bits stand for received
samples (`NackIsHonest`), that a writer without a map entry has an empty state
(`UnknownIsEmpty`), and the types of what concerns sequence numbers (`RxTypeOK`).
The argument rests on lemmas about the pure operators, the first part of `ReaderProofs`.
`LeadingOnesProperty` says that the slide stops at the first 0-bit, and
`SlideOverProperty` what the slide consumes. From these `AfterEnqueueProperty` and
`AfterGapProperty` state what one operation does to the set of recognised samples: it
never shrinks, the arriving sample joins it, and a bit is set only for that sample or
one that was set before. For the refinement, `EnqueueDecides` and `ApplyGapDecides`
compute the new fates. For `NoSilentLoss` each operation is shown to add at most as
many samples to `Missing` as it adds to `lost_count`: a jump counts every number it
passes. For `KeepAllKeeps`, `SweepProperty` says what a sweep leaves of a queue.

**Reliability.** `GapOnlyUnavailableOrSwapped` speaks of samples that are still in the history,
and is not inductive because a GAP in flight is applied later, and because publication
times need not follow the numbers. The invariant has the writer (the history ends at
`seq` and is contiguous, its entries carry the recorded publication times, threads hold
numbers that were claimed), every frame in flight (a DATA or GAP frame names published
numbers; the end of a GAP is justified: it is below the history, or predates the
volatile reader it is addressed to), the readers (none ahead of `seq`) and what was
given up (each gapped sample is covered by a justified end). A sample below the history
stays below it because eviction only moves its front upwards.

**SendLane.** First the types, the owner of each lock and the phases of the worker
(`LaneInv`). `BudgetExact` follows with sums over queues and lanes: every step changes
the queue and both counters by the same amount. `LaneWithinLimit` needs that the frame
of a thread between check and addition still fits, which the lane's lock guarantees.
`BoundedOverrun` is strengthened to count the frames that passed the check and are not
yet added (`OverrunInv`): when the last of them passed, the rest were at most one per
other lane. The order invariant relates the ids sent, in flight and queued to `accepted`.
For the refinement a frame is pending from the addition in `push` until the sink is
called: `WorkerPops` is a step that `LaneFifo` does not see, because the frame moves from
the front of the queue into the worker's hands. That `PushAccept` happens in an open lane
needs the lock (`LockHeld`), and that a lane ends early only if it was waived needs the
order invariant.

**Reassembly.** The loop of `add_fragment` has an invariant of its own (`LoopInv`): what
is merged lies below the interval carried and below all that is to come, and together
they hold the bytes seen so far. `AbsorbKeeps` shows it for an interval below, above, and
overlapping or touching the one carried; `MergeProperty` concludes that the list stays
sorted and apart and covers the old bytes and those of the fragment, for every list and
fragment. `WholeIsOneInterval` says that a sorted list which covers a sample is the one
interval from 0 to its size, so the code's test for completeness misses nothing.
`CutProperty` says that no fragment is empty or reaches past its sample.

**Discovery.** A view may be replaced by a frame that was sent before another, so the
invariant is about everything that is said of a participant: in frames, in the hands of
a receive thread and in views. What is said was reached by it (`Reached`), and of two
things said the one with the later sequence number is not of an earlier version
(`Ordered`). The same number may stand for several versions; the code drops an
announcement with the number it already has (`Stale`), so the first of them to arrive
stays until a later number comes. `MatchedWhenQuiet` needs in addition that a thread that changed
the view is about to recompute.

**DsoftbusConn.** The invariant is about one device at a time (`DeviceInv`): where `stop`
and `start` stand (`Phase`), what the poll thread holds (`Polling`), how the entries of
`peers_` agree with the state of each socket (`Table`), who owns an open socket (`Owned`),
which lanes are being joined (`Joined`) and what the participant was told (`Told`).
`Linked` alone joins two devices: a bind is on its way only while its other end is unused.
A number is released while a lane remembers it only between the phases of `stop`, which
is why `ReassignedOnlyByStop` needs `Phase` and `Joined`: `on_shutdown` joins the lane
before it returns and so before its number is free.
Most steps change one channel of one device, so their proofs share a lemma about such a step.

**Codec.** `CodecInv` says what the bytes on the wire are: a frame of the message, or a
proper prefix of one. The rest is about the pure operators. `At(buf, off, s)` says that
the bytes `s` stand at an offset; `GetPut`, that a number read where it was put is that
number, for every number within its width, and `FlattenLaidOut`, that each of several
encoded parts has its place in their concatenation. From these follow the fixed fields
(`FieldsDecoded`), the trailer (`ParseTrailerProperty`: the loop takes the sender's
entries, then the later ones, and stops at what is no entry), and rows and lists of an
ANNOUNCE (`RowAt`, `RowsRead`, `ListRead`). A name or list too long for its u16 would be
read wrongly; `WordSmaller` with the bound on datagrams shows that no frame that `send`
accepts holds one. A proper prefix is refused because `body_len` then exceeds what is
there. The attempt to prove this found a definition that only TLC's order of evaluation
made right: in `GetItem` two guards of a CASE overlapped, and a TLA+ CASE leaves the
choice between them open. They exclude each other now.

**Induction.** The provers cannot instantiate a theorem whose parameter is an operator.
`DataLemmas` states induction with a set instead (`SetInduction`: a set of naturals with
0 and closed under successor is `Nat`; `SubsetInduction` for finite sets), and from it
proves that a function on `0 .. n` can be defined by recursion (`RecursionExists`) and
what sums are; `SameTrace` says that two such functions agree when they start alike and
take the same steps. This is how the loops of `Merge`, `SweepExpired`, `ParseTrailer` and
`GetList` and the sums of `SendLane` are reasoned about.

Only model-checked: every liveness property (`EventuallyHealedOrStalled`, `HalfOpenEnds`,
`EventuallyConnectedOrOneSided`, both `StopReturns`, `QueuesEmpty`, `PartialsEnd`,
`EventuallyDiscoveredByPeers`), because the prover does not reason about fairness.

## 6. Findings and known divergences

Four runs show the code disagreeing with what its comments or documents say:

1. `reliability_heal`: `apply_gap` does not slide over 1-bits left at the front of
   the window (`src/participant.cpp:329`), so the baseline stands before a sample the
   reader has. Once a whole window of samples behind it is received, each ACKNACK is
   full, and a missing sample beyond the window is never requested.
2. `peer_inversion`: the down call of the sweep is overtaken by the up call of the
   receive thread (`src/transport_udp.cpp:327`); the participant then never announces
   to that peer again.
3. `dsoftbus_glare`: two devices that bind at once may each keep the channel they
   hear of first and shut down the other's (`src/transport_dsoftbus.cpp:381`); both
   channels die, both poll threads bind again, and without any fault this can go on
   for ever.
4. `reliability_swap`: two writing threads can be stamped in one order and numbered in
   the other, because the clock is read before the lock (`src/participant.cpp:575`). The
   GAP for a volatile reader born in between covers a sample that the writer holds and
   the reader is entitled to, which lines 816 and 853 and `frame.hpp:177` exclude.

Three more claims are stated in the modules and are false of the code. TLC shows it when
the property is named in the configuration of the component's passing run:

- `StaleLaneNeverWrites` (`MCDsoftbusConn.cfg`): `stop` shuts down the channels
  (`src/transport_dsoftbus.cpp:145`) before the listening socket (153) and before it
  joins the lanes (161). A lane past its check may then write to a number that the
  service gave to an inbound connection in between, which lines 369-371 exclude. This
  rests on the assumption that a number is free when `Shutdown()` has returned.
- `ListenerKnowsPeers` (`MCDsoftbusConn.cfg`): the up call of a new DSoftBus channel can
  come before the down call of the old one (`src/transport_dsoftbus.cpp:419`), after
  which the participant does not know a connected device. This rests on the assumption
  that callbacks of different sockets run concurrently.
- `EventuallyForgotten` (`MCDiscovery.cfg`): a process replaced on its port within the
  presence timeout leaves its endpoints in `remote_` for ever, because no down call is
  made (`src/transport_udp.cpp:374`), and so does one whose announcement is handled
  after it was swept (line 388); `docs/design.md:229` says they are removed.

Without a run of their own: a volatile reader can receive a sample
stamped before its creation, from a write in progress or from a resend meant for
another reader of its participant, which line 812 excludes; `stop` leaves the sockets that are binding open, so that a bind that
completes later makes the other device keep a channel to nobody, and a transport
started again in that process cannot connect to it; after the loss of the listening
socket no frame is delivered although the channels are up, and the next `stop` does
not join the poll thread; an ANNOUNCE above `max_payload` is never sent;
`generate_participant_prefix` writes four bytes past its array
(`src/frame.cpp:31`); `announce_now` notifies a wait whose predicate does not
become true, so a change is announced with the next period; samples received out of
order count as lost when the baseline jumps over them, so `messages_lost()` may
exceed the true loss (`NoSilentLoss` is an inequality for this reason); a KEEP_ALL
writer without a lifespan that reached the cap rejects every further write; with
three or more lanes the overrun of the shared budget grows with their number.

## 7. Not modelled

| Part | Why |
|---|---|
| `destroy_reader`, `destroy_writer` and use of readers after the unlock | planned, needs endpoint lifetimes |
| node lists, graph callback, liveliness timestamps | readers of state that discovery already keeps |
| one participant over two transports | planned |
| QoS presets, `qos_compatible`, GUID generation | pure data; models take distinct identities |
| sockets, interface enumeration, start and stop of the UDP transport | I/O |
| callbacks of DSoftBus that run while the transport is destroyed | `s_instance` is read without a lock; undefined behaviour |
| examples and probes | clients of the interfaces |

## 8. Plan

1. `Reader`, its abstract specification and first proofs (done).
2. `Reliability`, `SendLane`, `Reassembly`, `Discovery` with their runs (done).
3. `DsoftbusConn`: connections of the DSoftBus transport (done); `Codec` (done); two
   writing threads in the passing run of `Reliability` (done).
4. Endpoint destruction during delivery; best-effort readers and several readers
   per participant in a passing run of `Reliability`; QoS matching on both sides of
   a pair.
5. Proofs of the safety invariants and action properties of every component (done,
   section 5).
6. An abstract specification of a lane, shown to be implemented and proved so (done);
   the same for the writer's history.
