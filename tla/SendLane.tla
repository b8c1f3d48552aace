------------------------------ MODULE SendLane ------------------------------
(***************************************************************************)
(* send_lane.hpp: the lanes of one transport.  A lane is a bounded queue    *)
(* drained by one worker thread; all lanes share one SendBudget.  Threads   *)
(* call push() on any lane at any time, before, during and after stop().    *)
(* The transport moves a lane out of its table before it stops it, so two   *)
(* calls of stop() on one lane (the second by the destructor) follow each   *)
(* other.                                                                   *)
(*                                                                         *)
(* Steps under a lane's mutex_ are atomic for that lane, but the budget is  *)
(* an atomic counter that other lanes change meanwhile: push() reads it in  *)
(* one step and adds to it in another, and a discarding worker gives it     *)
(* back frame by frame.  The condition variable is explicit: a worker that  *)
(* waits runs again only when it is notified (or spuriously).               *)
(***************************************************************************)
EXTENDS Integers, Sequences, FiniteSets, Functions

CONSTANTS
  Lanes,        \* the lanes of the transport
  Threads,      \* threads that call push() and stop()
  Lens,         \* lengths of the frames
  ByteLimit,    \* byte_limit_ of each lane
  GlobalLimit,  \* SendBudget::limit
  MaxPushes,    \* bound: calls of push()
  MaxStops      \* bound: calls of stop()

ASSUME SendLaneAssumption ==
  /\ IsFiniteSet(Lanes) /\ Lanes # {}
  /\ Lens \subseteq Nat \ {0} /\ IsFiniteSet(Lens) /\ Lens # {}
  /\ {ByteLimit, GlobalLimit, MaxPushes, MaxStops} \subseteq Nat

VARIABLES
  queue,     \* queue_, a frame being its position among the accepted ones and its length
  bytes,     \* bytes_
  used,      \* SendBudget::used
  stopping,  \* stopping_
  drain,     \* drain_
  dropped,   \* dropped_
  failed,    \* failed_
  worker,    \* where the worker thread is
  inflight,  \* the frame the worker has popped and not yet handed over, or <<>>
  call,      \* call[t]: how far thread t is in push() or stop()
  (* history of the behaviour *)
  pushes, stops,  \* calls so far
  accepted,       \* accepted[l]: frames push() accepted
  sent,           \* sent[l]: frames the sink was called with
  discards        \* the lanes stop(false) was called on

vars == <<queue, bytes, used, stopping, drain, dropped, failed, worker, inflight,
          call, pushes, stops, accepted, sent, discards>>

MaxLen == CHOOSE n \in Lens : \A k \in Lens : k <= n

FrameIds == 1 .. MaxPushes
FrameType == [id : FrameIds, len : Lens]

Idle == [at |-> "idle"]

Init ==
  /\ queue = [l \in Lanes |-> <<>>]
  /\ bytes = [l \in Lanes |-> 0]
  /\ used = 0
  /\ stopping = [l \in Lanes |-> FALSE]
  /\ drain = [l \in Lanes |-> FALSE]
  /\ dropped = [l \in Lanes |-> 0]
  /\ failed = [l \in Lanes |-> 0]
  /\ worker = [l \in Lanes |-> "checking"]
  /\ inflight = [l \in Lanes |-> <<>>]
  /\ call = [t \in Threads |-> Idle]
  /\ pushes = 0 /\ stops = 0
  /\ accepted = [l \in Lanes |-> 0]
  /\ sent = [l \in Lanes |-> <<>>]
  /\ discards = {}

\* Mutation: push() lets go of mutex_ between its checks and its additions.
UnlockedByPush(l) == worker[l] # "discarding"

\* mutex_ of lane l is free between the steps that hold it.
Unlocked(l) ==
  /\ worker[l] # "discarding"
  /\ \A t \in Threads : call[t].at = "accepting" => call[t].lane # l

\* Mutation: push() forgets the budget that the lanes share.
RejectsByLaneOnly(l, len) == stopping[l] \/ bytes[l] + len > ByteLimit

\* Mutation: push() forgets the limit of its own lane.
RejectsBySharedOnly(l, len) == stopping[l] \/ used + len > GlobalLimit

\* push() drops the frame.
Rejects(l, len) ==
  \/ stopping[l]
  \/ bytes[l] + len > ByteLimit
  \/ used + len > GlobalLimit

\* Mutation: the worker is not woken.
NotifiedNobody(l) == worker

\* A notification reaches a worker that waits, and is lost otherwise.
Notified(l) ==
  IF worker[l] = "waiting" THEN [worker EXCEPT ![l] = "checking"] ELSE worker

-----------------------------------------------------------------------------
(* push() *)

\* A budget is exceeded or the lane is stopping: the new frame is dropped.
PushDrop(t, l, len) ==
  /\ call[t].at = "idle" /\ pushes < MaxPushes
  /\ Unlocked(l)
  /\ Rejects(l, len)
  /\ dropped' = [dropped EXCEPT ![l] = @ + 1]
  /\ pushes' = pushes + 1
  /\ UNCHANGED <<queue, bytes, used, stopping, drain, failed, worker, inflight, call,
                 stops, accepted, sent, discards>>

\* The frame passes the checks; the lock is still held.
PushCheck(t, l, len) ==
  /\ call[t].at = "idle" /\ pushes < MaxPushes
  /\ Unlocked(l)
  /\ ~Rejects(l, len)
  /\ call' = [call EXCEPT ![t] = [at |-> "accepting", lane |-> l, len |-> len]]
  /\ pushes' = pushes + 1
  /\ UNCHANGED <<queue, bytes, used, stopping, drain, dropped, failed, worker, inflight,
                 stops, accepted, sent, discards>>

\* The frame is queued and counted, and the lock released.
PushAccept(t) ==
  LET l == call[t].lane
      len == call[t].len
  IN  /\ call[t].at = "accepting"
      /\ queue' = [queue EXCEPT ![l] = Append(@, [id |-> accepted[l] + 1, len |-> len])]
      /\ bytes' = [bytes EXCEPT ![l] = @ + len]
      /\ used' = used + len
      /\ accepted' = [accepted EXCEPT ![l] = @ + 1]
      /\ call' = [call EXCEPT ![t] = [at |-> "pushed", lane |-> l]]
      /\ UNCHANGED <<stopping, drain, dropped, failed, worker, inflight, pushes, stops,
                     sent, discards>>

PushNotify(t) ==
  /\ call[t].at = "pushed"
  /\ worker' = Notified(call[t].lane)
  /\ call' = [call EXCEPT ![t] = Idle]
  /\ UNCHANGED <<queue, bytes, used, stopping, drain, dropped, failed, inflight, pushes,
                 stops, accepted, sent, discards>>

-----------------------------------------------------------------------------
(* stop() *)

Stopping(t, l) == call[t].at \in {"stopped", "joining"} /\ call[t].lane = l

\* A second stop() overwrites drain_.
StopLatch(t, l, d) ==
  /\ call[t].at = "idle" /\ stops < MaxStops
  /\ Unlocked(l)
  /\ \A u \in Threads : ~Stopping(u, l)
  /\ stopping' = [stopping EXCEPT ![l] = TRUE]
  /\ drain' = [drain EXCEPT ![l] = d]
  /\ discards' = IF d THEN discards ELSE discards \cup {l}
  /\ call' = [call EXCEPT ![t] = [at |-> "stopped", lane |-> l]]
  /\ stops' = stops + 1
  /\ UNCHANGED <<queue, bytes, used, dropped, failed, worker, inflight, pushes, accepted,
                 sent>>

StopNotify(t) ==
  /\ call[t].at = "stopped"
  /\ worker' = Notified(call[t].lane)
  /\ call' = [call EXCEPT ![t] = [@ EXCEPT !.at = "joining"]]
  /\ UNCHANGED <<queue, bytes, used, stopping, drain, dropped, failed, inflight, pushes,
                 stops, accepted, sent, discards>>

StopJoin(t) ==
  /\ call[t].at = "joining"
  /\ worker[call[t].lane] = "exited"
  /\ call' = [call EXCEPT ![t] = Idle]
  /\ UNCHANGED <<queue, bytes, used, stopping, drain, dropped, failed, worker, inflight,
                 pushes, stops, accepted, sent, discards>>

-----------------------------------------------------------------------------
(* run() *)

\* Mutation: the shared budget does not get the bytes back.
PopAndReleaseLane(l) ==
  /\ queue' = [queue EXCEPT ![l] = Tail(@)]
  /\ bytes' = [bytes EXCEPT ![l] = @ - Head(queue[l]).len]
  /\ used' = used

\* Mutation: the shared budget gets the bytes back twice.
PopAndReleaseTwice(l) ==
  /\ queue' = [queue EXCEPT ![l] = Tail(@)]
  /\ bytes' = [bytes EXCEPT ![l] = @ - Head(queue[l]).len]
  /\ used' = used - 2 * Head(queue[l]).len

\* The lane without its first frame, whose bytes go back to both budgets.
PopAndRelease(l) ==
  /\ queue' = [queue EXCEPT ![l] = Tail(@)]
  /\ bytes' = [bytes EXCEPT ![l] = @ - Head(queue[l]).len]
  /\ used' = used - Head(queue[l]).len

\* stop(false) was the last call of stop().
Discards(l) == stopping[l] /\ ~drain[l]

\* The worker's wait: nothing to do, or its predicate holds and it goes on.
WorkerWait(l) ==
  /\ worker[l] = "checking" /\ Unlocked(l)
  /\ ~stopping[l] /\ queue[l] = <<>>
  /\ worker' = [worker EXCEPT ![l] = "waiting"]
  /\ UNCHANGED <<queue, bytes, used, stopping, drain, dropped, failed, inflight, call,
                 pushes, stops, accepted, sent, discards>>

SpuriousWakeup(l) ==
  /\ worker[l] = "waiting"
  /\ worker' = [worker EXCEPT ![l] = "checking"]
  /\ UNCHANGED <<queue, bytes, used, stopping, drain, dropped, failed, inflight, call,
                 pushes, stops, accepted, sent, discards>>

\* Mutation: the worker leaves as soon as the lane is stopping.
WorkerExitAtOnce(l) ==
  /\ worker[l] = "checking" /\ Unlocked(l)
  /\ stopping[l]
  /\ worker' = [worker EXCEPT ![l] = "exited"]
  /\ UNCHANGED <<queue, bytes, used, stopping, drain, dropped, failed, inflight, call,
                 pushes, stops, accepted, sent, discards>>

WorkerExit(l) ==
  /\ worker[l] = "checking" /\ Unlocked(l)
  /\ stopping[l] /\ queue[l] = <<>>
  /\ worker' = [worker EXCEPT ![l] = "exited"]
  /\ UNCHANGED <<queue, bytes, used, stopping, drain, dropped, failed, inflight, call,
                 pushes, stops, accepted, sent, discards>>

\* stop(false): the queue is discarded under the lock.
WorkerDiscards(l) ==
  /\ worker[l] = "checking" /\ Unlocked(l)
  /\ Discards(l) /\ queue[l] # <<>>
  /\ worker' = [worker EXCEPT ![l] = "discarding"]
  /\ UNCHANGED <<queue, bytes, used, stopping, drain, dropped, failed, inflight, call,
                 pushes, stops, accepted, sent, discards>>

DiscardOne(l) ==
  /\ worker[l] = "discarding"
  /\ PopAndRelease(l)
  /\ worker' = [worker EXCEPT ![l] = IF Len(queue[l]) = 1 THEN "exited" ELSE @]
  /\ UNCHANGED <<stopping, drain, dropped, failed, inflight, call, pushes, stops,
                 accepted, sent, discards>>

\* The frame is popped and released before it is sent.
WorkerPops(l) ==
  /\ worker[l] = "checking" /\ Unlocked(l)
  /\ ~Discards(l) /\ queue[l] # <<>>
  /\ PopAndRelease(l)
  /\ inflight' = [inflight EXCEPT ![l] = <<Head(queue[l]).id>>]
  /\ worker' = [worker EXCEPT ![l] = "sending"]
  /\ UNCHANGED <<stopping, drain, dropped, failed, call, pushes, stops, accepted, sent,
                 discards>>

\* The sink is called without the lock and may report a failure.
WorkerSends(l) ==
  /\ worker[l] = "sending"
  /\ sent' = [sent EXCEPT ![l] = @ \o inflight[l]]
  /\ inflight' = [inflight EXCEPT ![l] = <<>>]
  /\ \E ok \in BOOLEAN :
       failed' = [failed EXCEPT ![l] = IF ok THEN @ ELSE @ + 1]
  /\ worker' = [worker EXCEPT ![l] = "checking"]
  /\ UNCHANGED <<queue, bytes, used, stopping, drain, dropped, call, pushes, stops,
                 accepted, discards>>

Worker(l) ==
  \/ WorkerWait(l) \/ WorkerExit(l) \/ WorkerDiscards(l) \/ DiscardOne(l)
  \/ WorkerPops(l) \/ WorkerSends(l)

Calls(t) ==
  \/ PushAccept(t) \/ PushNotify(t) \/ StopNotify(t) \/ StopJoin(t)

Next ==
  \/ \E t \in Threads, l \in Lanes, len \in Lens : PushDrop(t, l, len) \/ PushCheck(t, l, len)
  \/ \E t \in Threads, l \in Lanes, d \in BOOLEAN : StopLatch(t, l, d)
  \/ \E t \in Threads : Calls(t)
  \/ \E l \in Lanes : Worker(l) \/ SpuriousWakeup(l)

Spec == Init /\ [][Next]_vars

(***************************************************************************)
(* Fairness: threads finish the calls they are in, workers run, and the     *)
(* sink returns.  Nobody has to call push() or stop(), and no wakeup is     *)
(* spurious by right.                                                       *)
(***************************************************************************)
FairSpec ==
  /\ Spec
  /\ \A t \in Threads : WF_vars(Calls(t))
  /\ \A l \in Lanes : WF_vars(Worker(l))
-----------------------------------------------------------------------------
(* Properties *)

States == {"checking", "waiting", "sending", "discarding", "exited"}

\* Type invariant of the lanes.
TypeOK ==
  /\ queue \in [Lanes -> Seq(FrameType)]
  /\ bytes \in [Lanes -> Nat]
  /\ used \in Nat
  /\ stopping \in [Lanes -> BOOLEAN] /\ drain \in [Lanes -> BOOLEAN]
  /\ dropped \in [Lanes -> Nat] /\ failed \in [Lanes -> Nat]
  /\ worker \in [Lanes -> States]
  /\ inflight \in [Lanes -> {<<>>} \cup {<<i>> : i \in FrameIds}]
  /\ call \in [Threads -> {Idle}
                  \cup [at : {"accepting"}, lane : Lanes, len : Lens]
                  \cup [at : {"pushed", "stopped", "joining"}, lane : Lanes]]
  /\ pushes \in 0 .. MaxPushes /\ stops \in 0 .. MaxStops
  /\ accepted \in [Lanes -> 0 .. MaxPushes]
  /\ sent \in [Lanes -> Seq(FrameIds)]
  /\ discards \subseteq Lanes

QueuedBytes(l) == SumFunction([i \in DOMAIN queue[l] |-> queue[l][i].len])

\* Both budgets count exactly the queued bytes, in every interleaving of
\* pushes, sends, drains and discards: no lane takes bytes with it when it
\* stops, and neither size_t wraps below zero.
BudgetExact ==
  /\ \A l \in Lanes : bytes[l] = QueuedBytes(l)
  /\ used = SumFunction(bytes)

\* send_lane.hpp: a lane holds at most byte_limit_ bytes, though the check and
\* the addition are separate steps.
LaneWithinLimit == \A l \in Lanes : bytes[l] <= ByteLimit

\* The shared budget is overrun by at most one frame of each other lane: the
\* frames that passed the check against the same value of used.
BoundedOverrun == used <= GlobalLimit + (Cardinality(Lanes) - 1) * MaxLen

HandedOver(l) == sent[l] \o inflight[l]
QueuedIds(l) == [i \in DOMAIN queue[l] |-> queue[l][i].id]

\* A lane is a FIFO without holes or repetitions: the sink gets the accepted
\* frames in the order of their acceptance, and until stop(false) is called
\* those it did not get yet are in the queue.  FifoRefinement implies it.
FifoUntilDiscarded ==
  \A l \in Lanes :
    /\ \A i \in DOMAIN HandedOver(l) : HandedOver(l)[i] = i
    /\ l \notin discards =>
         HandedOver(l) \o QueuedIds(l) = [i \in 1 .. accepted[l] |-> i]

\* A worker that has exited leaves nothing behind, and had sent every
\* accepted frame if only stop(true) was called.
ExitLeavesNothing ==
  \A l \in Lanes :
    worker[l] = "exited" =>
      /\ queue[l] = <<>> /\ inflight[l] = <<>>
      /\ l \notin discards => Len(sent[l]) = accepted[l]

fifoPending == [l \in Lanes |-> inflight[l] \o QueuedIds(l)]

fifoPhase ==
  [l \in Lanes |->
     IF worker[l] \in {"discarding", "exited"} THEN "ended"
     ELSE IF stopping[l] THEN "closed" ELSE "open"]

L == INSTANCE LaneFifo WITH
       pending <- fifoPending, delivered <- sent, phase <- fifoPhase, waived <- discards

\* The lanes implement LaneFifo: no frame is accepted once stop() has latched,
\* however push() and stop() interleave, and the worker ends when it has sent
\* everything or after stop(false), with nothing sent after the first frame it
\* discards.
FifoRefinement == L!FifoSpec

\* No wakeup is lost: every accepted frame leaves the queue.
QueuesEmpty == \A l \in Lanes : (queue[l] # <<>>) ~> (queue[l] = <<>>)

\* stop() returns: the worker wakes up and ends, so the join does not hang.
StopReturns == \A t \in Threads : (call[t].at = "stopped") ~> (call[t].at = "idle")
=============================================================================
