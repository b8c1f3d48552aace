--------------------------- MODULE SendLaneProofs ---------------------------
(***************************************************************************)
(* Proofs about SendLane for every set of lanes and threads, every set of   *)
(* frame lengths and every limit.                                           *)
(***************************************************************************)
EXTENDS SendLane, DataLemmas, SequenceTheorems

(***************************************************************************)
(* The first layer of the inductive invariant: the types, but for the signs *)
(* of the two counters, and what mutex_ guarantees.                         *)
(***************************************************************************)
Accepting(t, l) == call[t].at = "accepting" /\ call[t].lane = l

CallType ==
  {Idle} \cup [at : {"accepting"}, lane : Lanes, len : Lens]
         \cup [at : {"pushed", "stopped", "joining"}, lane : Lanes]

LaneTypes ==
  /\ queue \in [Lanes -> Seq(FrameType)]
  /\ bytes \in [Lanes -> Int]
  /\ used \in Int
  /\ stopping \in [Lanes -> BOOLEAN] /\ drain \in [Lanes -> BOOLEAN]
  /\ dropped \in [Lanes -> Nat] /\ failed \in [Lanes -> Nat]
  /\ worker \in [Lanes -> States]
  /\ inflight \in [Lanes -> {<<>>} \cup {<<i>> : i \in FrameIds}]
  /\ call \in [Threads -> CallType]
  /\ pushes \in 0 .. MaxPushes /\ stops \in 0 .. MaxStops
  /\ accepted \in [Lanes -> 0 .. MaxPushes]
  /\ sent \in [Lanes -> Seq(FrameIds)]
  /\ discards \subseteq Lanes

\* push() holds mutex_ from its checks to its additions: no other push() and
\* no discarding worker is in the lane meanwhile, the lane is not stopping, and
\* the frame is one of the calls that were counted.
LockHeld ==
  /\ \A l \in Lanes : accepted[l] <= pushes
  /\ \A l \in Lanes, t \in Threads :
       Accepting(t, l) =>
         /\ \A u \in Threads : Accepting(u, l) => u = t
         /\ worker[l] # "discarding"
         /\ ~stopping[l]
         /\ accepted[l] < pushes

\* A worker discards a stopping lane that holds frames; one that has exited
\* left a stopping lane without any.
WorkerPhase ==
  \A l \in Lanes :
    /\ worker[l] = "discarding" => stopping[l] /\ queue[l] # <<>>
    /\ worker[l] = "exited" => stopping[l] /\ queue[l] = <<>>
    /\ worker[l] # "sending" <=> inflight[l] = <<>>

LaneInv == LaneTypes /\ LockHeld /\ WorkerPhase

\* What call[t] is while push() holds the lock.
LEMMA AcceptingCall ==
  ASSUME LaneTypes, NEW t \in Threads, call[t].at = "accepting"
  PROVE  call[t].lane \in Lanes /\ call[t].len \in Lens
<1>1. call[t] \in CallType
  BY DEF LaneTypes
<1>2. call[t] \in [at : {"accepting"}, lane : Lanes, len : Lens]
  BY <1>1 DEF CallType, Idle
<1> QED
  BY <1>2

\* What call[t] is in the other calls.
LEMMA OtherCall ==
  ASSUME LaneTypes, NEW t \in Threads, call[t].at \in {"pushed", "stopped", "joining"}
  PROVE  call[t].lane \in Lanes /\ call[t] = [at |-> call[t].at, lane |-> call[t].lane]
<1>1. call[t] \in CallType
  BY DEF LaneTypes
<1>2. call[t] \in [at : {"pushed", "stopped", "joining"}, lane : Lanes]
  BY <1>1 DEF CallType, Idle
<1> QED
  BY <1>2

\* Before the first push the lanes are empty and idle.
LEMMA SendLaneInit == Init => LaneInv
BY SendLaneAssumption DEF Init, LaneInv, LaneTypes, LockHeld, WorkerPhase, Accepting, CallType,
   Idle, States

\* Every step of a pushing thread, a stop() and a worker keeps the types, the
\* lock discipline and the phases of the worker.
LEMMA LaneInvNext == LaneInv /\ [Next]_vars => LaneInv'
<1> SUFFICES ASSUME LaneInv, [Next]_vars PROVE LaneInv'
  OBVIOUS
<1>a. LaneTypes /\ LockHeld /\ WorkerPhase
  BY DEF LaneInv
<1>b. MaxPushes \in Nat /\ MaxStops \in Nat /\ \A n \in Lens : n \in Int
  BY SendLaneAssumption
<1>c. pushes \in Nat /\ \A l \in Lanes : accepted[l] \in Nat
  BY <1>a, <1>b DEF LaneTypes
<1>1. ASSUME NEW t \in Threads, NEW l \in Lanes, NEW len \in Lens, PushDrop(t, l, len)
     PROVE  LaneInv'
  <2>1. LaneTypes'
    BY <1>a, <1>b, <1>1
    DEF LaneTypes, PushDrop
  <2>2. LockHeld'
    <3>1. UNCHANGED <<call, worker, stopping, accepted>> /\ pushes' = pushes + 1
      BY <1>1 DEF PushDrop
    <3>2. \A m \in Lanes : accepted[m] <= pushes
      BY <1>a DEF LockHeld
    <3>3. \A m \in Lanes, u \in Threads : Accepting(u, m) => accepted[m] < pushes
      BY <1>a DEF LockHeld
    <3>4. \A m \in Lanes : accepted'[m] <= pushes'
      BY <1>c, <3>1, <3>2
    <3>5. \A m \in Lanes, u \in Threads : Accepting(u, m)' => accepted'[m] < pushes'
      BY <1>c, <3>1, <3>3 DEF Accepting
    <3> QED
      BY <1>a, <3>1, <3>4, <3>5 DEF LockHeld, Accepting
  <2>3. WorkerPhase'
    BY <1>a, <1>1 DEF LaneTypes, LockHeld, Accepting, WorkerPhase, PushDrop, States
  <2> QED
    BY <2>1, <2>2, <2>3 DEF LaneInv
<1>2. ASSUME NEW t \in Threads, NEW l \in Lanes, NEW len \in Lens, PushCheck(t, l, len)
     PROVE  LaneInv'
  <2>1. LaneTypes'
    <3>1. [at |-> "accepting", lane |-> l, len |-> len] \in CallType
      BY DEF CallType
    <3>2. call' \in [Threads -> CallType]
      BY <1>a, <1>2, <3>1 DEF LaneTypes, PushCheck
    <3>3. pushes' \in 0 .. MaxPushes
      BY <1>a, <1>b, <1>2 DEF LaneTypes, PushCheck
    <3> QED
      BY <1>a, <1>2, <3>2, <3>3 DEF LaneTypes, PushCheck
  <2>2. LockHeld'
    <3>1. /\ UNCHANGED <<worker, stopping, accepted>> /\ pushes' = pushes + 1
          /\ call' = [call EXCEPT ![t] = [at |-> "accepting", lane |-> l, len |-> len]]
          /\ worker[l] # "discarding" /\ ~stopping[l]
          /\ \A u \in Threads : ~Accepting(u, l)
      BY <1>2 DEF PushCheck, Unlocked, Rejects, Accepting
    <3>2. \A m \in Lanes, u \in Threads : Accepting(u, m)' <=> (Accepting(u, m) /\ u # t)
                                                                 \/ (u = t /\ m = l)
      BY <1>a, <3>1 DEF Accepting, LaneTypes
    <3>3. \A m \in Lanes : accepted'[m] < pushes'
      BY <1>a, <1>c, <3>1 DEF LockHeld
    <3>4. ASSUME NEW m \in Lanes, NEW u \in Threads, Accepting(u, m)'
          PROVE  /\ \A v \in Threads : Accepting(v, m)' => v = u
                 /\ worker'[m] # "discarding"
                 /\ ~stopping'[m]
      BY <1>a, <3>1, <3>2, <3>4 DEF LockHeld
    <3> QED
      BY <1>c, <3>1, <3>3, <3>4 DEF LockHeld
  <2>3. WorkerPhase'
    BY <1>a, <1>2 DEF LaneTypes, LockHeld, Accepting, WorkerPhase, PushCheck, Unlocked, Rejects, States
  <2> QED
    BY <2>1, <2>2, <2>3 DEF LaneInv
<1>3. ASSUME NEW t \in Threads, NEW l \in Lanes, NEW d \in BOOLEAN, StopLatch(t, l, d)
     PROVE  LaneInv'
  <2>1. LaneTypes'
    <3>1. [at |-> "stopped", lane |-> l] \in CallType
      BY DEF CallType
    <3>2. call' \in [Threads -> CallType]
      BY <1>a, <1>3, <3>1 DEF LaneTypes, StopLatch
    <3>3. stopping' \in [Lanes -> BOOLEAN] /\ drain' \in [Lanes -> BOOLEAN]
      BY <1>a, <1>3 DEF LaneTypes, StopLatch
    <3>4. stops' \in 0 .. MaxStops
      BY <1>a, <1>b, <1>3 DEF LaneTypes, StopLatch
    <3>5. discards' \subseteq Lanes
      BY <1>a, <1>3 DEF LaneTypes, StopLatch
    <3> QED
      BY <1>a, <1>3, <3>2, <3>3, <3>4, <3>5 DEF LaneTypes, StopLatch
  <2>2. LockHeld'
    BY <1>a, <1>c, <1>3 DEF LaneTypes, LockHeld, Accepting, StopLatch, Unlocked, Idle
  <2>3. WorkerPhase'
    BY <1>a, <1>3 DEF LaneTypes, LockHeld, Accepting, WorkerPhase, StopLatch, Unlocked, States
  <2> QED
    BY <2>1, <2>2, <2>3 DEF LaneInv
<1>4. ASSUME NEW t \in Threads, PushAccept(t)
     PROVE  LaneInv'
  <2>1. LaneTypes'
    <3> DEFINE l == call[t].lane
               frame == [id |-> accepted[l] + 1, len |-> call[t].len]
    <3>1. l \in Lanes /\ call[t].len \in Lens
      BY <1>a, <1>4, AcceptingCall DEF PushAccept
    <3>2. accepted[l] + 1 \in 1 .. MaxPushes
      <4>1. accepted[l] < pushes
        BY <1>a, <1>4, <3>1 DEF LockHeld, Accepting, PushAccept
      <4>2. pushes \in 0 .. MaxPushes /\ accepted[l] \in Nat
        BY <1>a, <1>c, <3>1 DEF LaneTypes
      <4> QED
        BY <1>b, <4>1, <4>2
    <3>3. frame \in FrameType
      BY <3>1, <3>2 DEF FrameType, FrameIds
    <3>4. queue' \in [Lanes -> Seq(FrameType)]
      BY <1>a, <1>4, <3>1, <3>3 DEF LaneTypes, PushAccept
    <3>5. bytes' \in [Lanes -> Int] /\ used' \in Int
      <4>1. call[t].len \in Int
        BY <1>b, <3>1
      <4> QED
        <5>1. /\ bytes' = [bytes EXCEPT ![l] = @ + call[t].len]
              /\ used' = used + call[t].len
          BY <1>4 DEF PushAccept
        <5>2. bytes \in [Lanes -> Int] /\ used \in Int
          BY <1>a DEF LaneTypes
        <5> QED
          BY <3>1, <4>1, <5>1, <5>2
    <3>6. accepted' \in [Lanes -> 0 .. MaxPushes]
      <4>1. accepted' = [accepted EXCEPT ![l] = accepted[l] + 1]
        BY <1>4 DEF PushAccept
      <4>2. accepted[l] + 1 \in 0 .. MaxPushes
        BY <1>b, <3>2
      <4>3. accepted \in [Lanes -> 0 .. MaxPushes]
        BY <1>a DEF LaneTypes
      <4> QED
        BY <3>1, <4>1, <4>2, <4>3
    <3>7. call' \in [Threads -> CallType]
      <4>1. [at |-> "pushed", lane |-> l] \in CallType
        BY <3>1 DEF CallType
      <4> QED
        BY <1>a, <1>4, <4>1 DEF LaneTypes, PushAccept
    <3> QED
      BY <1>a, <1>4, <3>4, <3>5, <3>6, <3>7 DEF LaneTypes, PushAccept
  <2>2. LockHeld'
    <3> DEFINE l == call[t].lane
    <3>1. l \in Lanes /\ Accepting(t, l)
      BY <1>a, <1>4, AcceptingCall DEF PushAccept, Accepting
    <3>2. /\ UNCHANGED <<worker, stopping, pushes>>
          /\ call' = [call EXCEPT ![t] = [at |-> "pushed", lane |-> l]]
          /\ accepted' = [accepted EXCEPT ![l] = @ + 1]
      BY <1>4 DEF PushAccept
    <3> HIDE DEF l
    <3>3. \A m \in Lanes, u \in Threads : Accepting(u, m)' <=> Accepting(u, m) /\ u # t
      BY <1>a, <3>2 DEF Accepting, LaneTypes
    <3>4. \A m \in Lanes, u \in Threads : Accepting(u, m)' => m # l
      BY <1>a, <3>1, <3>3 DEF LockHeld
    <3>5. accepted[l] < pushes
      BY <1>a, <3>1 DEF LockHeld
    <3>6. \A m \in Lanes : accepted'[m] <= pushes' /\ (m # l => accepted'[m] = accepted[m])
      BY <1>a, <1>c, <3>1, <3>2, <3>5 DEF LockHeld, LaneTypes
    <3> QED
      BY <1>a, <3>2, <3>3, <3>4, <3>6 DEF LockHeld
  <2>3. WorkerPhase'
    BY <1>a, <1>4, AcceptingCall DEF LaneTypes, LockHeld, Accepting, WorkerPhase, PushAccept, States
  <2> QED
    BY <2>1, <2>2, <2>3 DEF LaneInv
<1>5. ASSUME NEW t \in Threads, PushNotify(t)
     PROVE  LaneInv'
  <2>1. LaneTypes'
    BY <1>a, <1>b, <1>5, OtherCall
    DEF LaneTypes, PushNotify, Notified, CallType, Idle, States
  <2>2. LockHeld'
    BY <1>a, <1>c, <1>5, OtherCall DEF LaneTypes, LockHeld, Accepting, PushNotify, Notified, Idle
  <2>3. WorkerPhase'
    BY <1>a, <1>5, OtherCall DEF LaneTypes, LockHeld, Accepting, WorkerPhase, PushNotify, Notified, States
  <2> QED
    BY <2>1, <2>2, <2>3 DEF LaneInv
<1>6. ASSUME NEW t \in Threads, StopNotify(t)
     PROVE  LaneInv'
  <2>1. LaneTypes'
    <3>1. call[t].lane \in Lanes /\ call[t] = [at |-> "stopped", lane |-> call[t].lane]
      BY <1>a, <1>6, OtherCall DEF StopNotify
    <3>2. [call[t] EXCEPT !.at = "joining"] \in CallType
      BY <3>1 DEF CallType
    <3>3. call' \in [Threads -> CallType]
      BY <1>a, <1>6, <3>2 DEF LaneTypes, StopNotify
    <3>4. worker' \in [Lanes -> States]
      BY <1>a, <1>6 DEF LaneTypes, StopNotify, Notified, States
    <3> QED
      BY <1>a, <1>6, <3>3, <3>4 DEF LaneTypes, StopNotify
  <2>2. LockHeld'
    <3>1. call[t].lane \in Lanes /\ call[t].at = "stopped"
      BY <1>a, <1>6, OtherCall DEF StopNotify
    <3>2. /\ UNCHANGED <<stopping, pushes, accepted>>
          /\ call' = [call EXCEPT ![t] = [@ EXCEPT !.at = "joining"]]
          /\ worker' = Notified(call[t].lane)
      BY <1>6 DEF StopNotify
    <3>3. \A u \in Threads, m \in Lanes : Accepting(u, m)' => Accepting(u, m)
      BY <1>a, <3>1, <3>2 DEF LaneTypes, Accepting
    <3>4. \A m \in Lanes : worker'[m] = "discarding" => worker[m] = "discarding"
      BY <1>a, <3>1, <3>2 DEF LaneTypes, Notified
    <3> QED
      BY <1>a, <3>2, <3>3, <3>4 DEF LockHeld
  <2>3. WorkerPhase'
    BY <1>a, <1>6, OtherCall DEF LaneTypes, LockHeld, Accepting, WorkerPhase, StopNotify, Notified, States
  <2> QED
    BY <2>1, <2>2, <2>3 DEF LaneInv
<1>7. ASSUME NEW t \in Threads, StopJoin(t)
     PROVE  LaneInv'
  <2>1. LaneTypes'
    BY <1>a, <1>b, <1>7, OtherCall
    DEF LaneTypes, StopJoin, CallType, Idle, States
  <2>2. LockHeld'
    <3>1. UNCHANGED <<worker, stopping, pushes, accepted>> /\ call' = [call EXCEPT ![t] = Idle]
      BY <1>7 DEF StopJoin
    <3>2. \A u \in Threads, m \in Lanes : Accepting(u, m)' => Accepting(u, m)
      BY <1>a, <3>1 DEF LaneTypes, Accepting, Idle
    <3> QED
      BY <1>a, <3>1, <3>2 DEF LockHeld
  <2>3. WorkerPhase'
    BY <1>a, <1>7, OtherCall DEF LaneTypes, LockHeld, Accepting, WorkerPhase, StopJoin, States
  <2> QED
    BY <2>1, <2>2, <2>3 DEF LaneInv
<1>8. ASSUME NEW l \in Lanes, WorkerWait(l)
     PROVE  LaneInv'
  <2>1. LaneTypes'
    BY <1>a, <1>b, <1>8
    DEF LaneTypes, WorkerWait, States
  <2>2. LockHeld'
    BY <1>a, <1>c, <1>8 DEF LaneTypes, LockHeld, Accepting, WorkerWait, Idle
  <2>3. WorkerPhase'
    BY <1>a, <1>8 DEF LaneTypes, LockHeld, Accepting, WorkerPhase, WorkerWait, States
  <2> QED
    BY <2>1, <2>2, <2>3 DEF LaneInv
<1>9. ASSUME NEW l \in Lanes, SpuriousWakeup(l)
     PROVE  LaneInv'
  <2>1. LaneTypes'
    BY <1>a, <1>b, <1>9
    DEF LaneTypes, SpuriousWakeup, States
  <2>2. LockHeld'
    BY <1>a, <1>c, <1>9 DEF LaneTypes, LockHeld, Accepting, SpuriousWakeup, Idle
  <2>3. WorkerPhase'
    BY <1>a, <1>9 DEF LaneTypes, LockHeld, Accepting, WorkerPhase, SpuriousWakeup, States
  <2> QED
    BY <2>1, <2>2, <2>3 DEF LaneInv
<1>10. ASSUME NEW l \in Lanes, WorkerExit(l)
     PROVE  LaneInv'
  <2>1. LaneTypes'
    BY <1>a, <1>b, <1>10
    DEF LaneTypes, WorkerExit, States
  <2>2. LockHeld'
    BY <1>a, <1>c, <1>10 DEF LaneTypes, LockHeld, Accepting, WorkerExit, Idle
  <2>3. WorkerPhase'
    BY <1>a, <1>10 DEF LaneTypes, LockHeld, Accepting, WorkerPhase, WorkerExit, States
  <2> QED
    BY <2>1, <2>2, <2>3 DEF LaneInv
<1>11. ASSUME NEW l \in Lanes, WorkerDiscards(l)
     PROVE  LaneInv'
  <2>1. LaneTypes'
    BY <1>a, <1>b, <1>11
    DEF LaneTypes, WorkerDiscards, Unlocked, Discards, States
  <2>2. LockHeld'
    BY <1>a, <1>c, <1>11 DEF LaneTypes, LockHeld, Accepting, WorkerDiscards, Unlocked, Discards, Idle
  <2>3. WorkerPhase'
    BY <1>a, <1>11 DEF LaneTypes, LockHeld, Accepting, WorkerPhase, WorkerDiscards, Unlocked, Discards, States
  <2> QED
    BY <2>1, <2>2, <2>3 DEF LaneInv
<1>12. ASSUME NEW l \in Lanes, DiscardOne(l)
     PROVE  LaneInv'
  <2>1. LaneTypes'
    <3>1. /\ Head(queue[l]) \in FrameType
          /\ Tail(queue[l]) \in Seq(FrameType)
      BY <1>a, <1>12 DEF LaneTypes, WorkerPhase, DiscardOne
    <3>2. queue' \in [Lanes -> Seq(FrameType)]
      BY <1>a, <1>12, <3>1 DEF LaneTypes, DiscardOne, PopAndRelease
    <3>3. bytes' \in [Lanes -> Int] /\ used' \in Int
      <4>0. Head(queue[l]).len \in Lens
        BY <3>1 DEF FrameType
      <4>1. Head(queue[l]).len \in Int
        BY <1>b, <4>0
      <4>2. /\ bytes' = [bytes EXCEPT ![l] = @ - Head(queue[l]).len]
            /\ used' = used - Head(queue[l]).len
        BY <1>12 DEF DiscardOne, PopAndRelease
      <4>3. bytes \in [Lanes -> Int] /\ used \in Int
        BY <1>a DEF LaneTypes
      <4> QED
        BY <4>1, <4>2, <4>3
    <3>4. worker' \in [Lanes -> States]
      BY <1>a, <1>12 DEF LaneTypes, DiscardOne, States
    <3> QED
      BY <1>a, <1>12, <3>2, <3>3, <3>4 DEF LaneTypes, DiscardOne
  <2>2. LockHeld'
    <3>1. /\ UNCHANGED <<call, stopping, accepted, pushes>> /\ worker[l] = "discarding"
          /\ \A m \in Lanes : worker'[m] = "discarding" => worker[m] = "discarding"
      BY <1>a, <1>12 DEF LaneTypes, DiscardOne
    <3> QED
      BY <1>a, <3>1 DEF LockHeld, Accepting
  <2>3. WorkerPhase'
    <3>1. queue[l] \in Seq(FrameType) /\ queue[l] # <<>>
      BY <1>a, <1>12 DEF LaneTypes, WorkerPhase, DiscardOne
    <3>2. Len(Tail(queue[l])) = Len(queue[l]) - 1 /\ Len(queue[l]) \in Nat
            /\ (Tail(queue[l]) = <<>> <=> Len(Tail(queue[l])) = 0)
      <4>1. /\ Tail(queue[l]) \in Seq(FrameType)
            /\ Len(Tail(queue[l])) = Len(queue[l]) - 1
            /\ Len(queue[l]) \in Nat
        BY <3>1
      <4> QED
        BY <4>1, EmptySeq
    <3>3. Len(queue[l]) = 1 <=> Tail(queue[l]) = <<>>
      BY <3>2
    <3>4. /\ queue' = [queue EXCEPT ![l] = Tail(@)]
          /\ worker[l] = "discarding"
          /\ worker' = [worker EXCEPT ![l] = IF Len(queue[l]) = 1 THEN "exited" ELSE @]
          /\ UNCHANGED <<stopping, inflight>>
      BY <1>12 DEF DiscardOne, PopAndRelease
    <3> QED
      BY <1>a, <3>3, <3>4 DEF LaneTypes, WorkerPhase
  <2> QED
    BY <2>1, <2>2, <2>3 DEF LaneInv
<1>13. ASSUME NEW l \in Lanes, WorkerPops(l)
     PROVE  LaneInv'
  <2>1. LaneTypes'
    <3>1. /\ Head(queue[l]) \in FrameType
          /\ Tail(queue[l]) \in Seq(FrameType)
      BY <1>a, <1>13 DEF LaneTypes, WorkerPhase, WorkerPops
    <3>2. queue' \in [Lanes -> Seq(FrameType)]
      BY <1>a, <1>13, <3>1 DEF LaneTypes, WorkerPops, PopAndRelease
    <3>3. bytes' \in [Lanes -> Int] /\ used' \in Int
      <4>0. Head(queue[l]).len \in Lens
        BY <3>1 DEF FrameType
      <4>1. Head(queue[l]).len \in Int
        BY <1>b, <4>0
      <4>2. /\ bytes' = [bytes EXCEPT ![l] = @ - Head(queue[l]).len]
            /\ used' = used - Head(queue[l]).len
        BY <1>13 DEF WorkerPops, PopAndRelease
      <4>3. bytes \in [Lanes -> Int] /\ used \in Int
        BY <1>a DEF LaneTypes
      <4> QED
        BY <4>1, <4>2, <4>3
    <3>4. worker' \in [Lanes -> States]
      BY <1>a, <1>13 DEF LaneTypes, WorkerPops, States
    <3>5. inflight' \in [Lanes -> {<<>>} \cup {<<i>> : i \in FrameIds}]
      <4>1. Head(queue[l]).id \in FrameIds
        BY <3>1 DEF FrameType
      <4> QED
        BY <1>a, <1>13, <4>1 DEF LaneTypes, WorkerPops
    <3> QED
      BY <1>a, <1>13, <3>2, <3>3, <3>4, <3>5 DEF LaneTypes, WorkerPops
  <2>2. LockHeld'
    BY <1>a, <1>c, <1>13 DEF LaneTypes, LockHeld, Accepting, WorkerPops, PopAndRelease, Discards, Unlocked, Idle
  <2>3. WorkerPhase'
    BY <1>a, <1>13 DEF LaneTypes, LockHeld, Accepting, WorkerPhase, WorkerPops, PopAndRelease, Discards, Unlocked, States
  <2> QED
    BY <2>1, <2>2, <2>3 DEF LaneInv
<1>14. ASSUME NEW l \in Lanes, WorkerSends(l)
     PROVE  LaneInv'
  <2>1. LaneTypes'
    <3>1. sent[l] \o inflight[l] \in Seq(FrameIds)
      <4>1. sent[l] \in Seq(FrameIds)
        BY <1>a DEF LaneTypes
      <4>2. inflight[l] \in {<<>>} \cup {<<i>> : i \in FrameIds}
        BY <1>a DEF LaneTypes
      <4>a. <<>> \in Seq(FrameIds) /\ \A i \in FrameIds : <<i>> \in Seq(FrameIds)
        OBVIOUS
      <4>3. inflight[l] \in Seq(FrameIds)
        BY <4>2, <4>a, Zenon
      <4> QED
        BY <4>1, <4>3
    <3>2. sent' \in [Lanes -> Seq(FrameIds)]
      BY <1>a, <1>14, <3>1 DEF LaneTypes, WorkerSends
    <3>3. worker' \in [Lanes -> States] /\ failed' \in [Lanes -> Nat]
      BY <1>a, <1>14 DEF LaneTypes, WorkerSends, States
    <3>4. inflight' \in [Lanes -> {<<>>} \cup {<<i>> : i \in FrameIds}]
      BY <1>a, <1>14 DEF LaneTypes, WorkerSends
    <3> QED
      BY <1>a, <1>14, <3>2, <3>3, <3>4 DEF LaneTypes, WorkerSends
  <2>2. LockHeld'
    BY <1>a, <1>c, <1>14 DEF LaneTypes, LockHeld, Accepting, WorkerSends, Idle
  <2>3. WorkerPhase'
    BY <1>a, <1>14 DEF LaneTypes, LockHeld, Accepting, WorkerPhase, WorkerSends, States
  <2> QED
    BY <2>1, <2>2, <2>3 DEF LaneInv
<1>15. CASE UNCHANGED vars
  BY <1>a, <1>15 DEF vars, LaneInv, LaneTypes, LockHeld, WorkerPhase, Accepting
<1> QED
  BY <1>1, <1>2, <1>3, <1>4, <1>5, <1>6, <1>7, <1>8, <1>9, <1>10, <1>11, <1>12, <1>13, <1>14, <1>15 DEF Next, Calls, Worker

-----------------------------------------------------------------------------
(* The budgets *)

BytesOf(q) == SumFunction([i \in DOMAIN q |-> q[i].len])

\* A frame is not empty.
LEMMA LenOfFrame ==
  ASSUME NEW x \in FrameType
  PROVE  x.len \in Nat \ {0}
<1>1. x.len \in Lens
  BY DEF FrameType
<1> QED
  BY <1>1, SendLaneAssumption

\* A queue of frames, position by position.
LEMMA FrameLen ==
  ASSUME NEW q \in Seq(FrameType)
  PROVE  /\ Len(q) \in Nat /\ DOMAIN q = 1 .. Len(q)
         /\ \A i \in 1 .. Len(q) : q[i] \in FrameType /\ q[i].len \in Nat \ {0}
<1>1. \A i \in 1 .. Len(q) : q[i] \in FrameType
  BY ElementOfSeq
<1> QED
  BY <1>1, LenOfFrame

\* A frame at the back adds its length.
LEMMA BytesOfAppend ==
  ASSUME NEW q \in Seq(FrameType), NEW x \in FrameType
  PROVE  BytesOf(Append(q, x)) = BytesOf(q) + x.len
<1> DEFINE n == Len(q)
           f == [i \in 1 .. n |-> q[i].len]
           h == [i \in 1 .. (n + 1) |-> Append(q, x)[i].len]
<1>1. /\ Append(q, x) \in Seq(FrameType)
      /\ Len(Append(q, x)) = n + 1
      /\ \A i \in 1 .. n : Append(q, x)[i] = q[i]
      /\ Append(q, x)[n + 1] = x
  OBVIOUS
<1>2. n \in Nat /\ DOMAIN q = 1 .. n /\ DOMAIN Append(q, x) = 1 .. (n + 1)
  BY <1>1, FrameLen
<1>3. x.len \in Int /\ \A i \in 1 .. n : q[i].len \in Int
  BY <1>2, FrameLen, LenOfFrame
<1>4. (\A i \in 1 .. n : f[i] \in Int /\ h[i] = f[i]) /\ h[n + 1] = x.len
  BY <1>1, <1>2, <1>3
<1>5. BytesOf(q) = SumFunctionOnSet(f, 1 .. n)
  BY <1>2 DEF BytesOf, SumFunction
<1>6. BytesOf(Append(q, x)) = SumFunctionOnSet(h, 1 .. (n + 1))
  BY <1>2 DEF BytesOf, SumFunction
<1> HIDE DEF f, h, n
<1>7. SumFunctionOnSet(h, 1 .. (n + 1)) = SumFunctionOnSet(f, 1 .. n) + h[n + 1]
  BY <1>2, <1>3, <1>4, SumAppend
<1> QED
  BY <1>4, <1>5, <1>6, <1>7

\* Without its first frame a queue is shorter by the length of that frame.
LEMMA BytesOfTail ==
  ASSUME NEW q \in Seq(FrameType), q # <<>>
  PROVE  BytesOf(q) = Head(q).len + BytesOf(Tail(q))
<1> DEFINE n == Len(q) - 1
           f == [i \in 1 .. (n + 1) |-> q[i].len]
           h == [i \in 1 .. n |-> Tail(q)[i].len]
<1>1. /\ Tail(q) \in Seq(FrameType)
      /\ Len(Tail(q)) = n
      /\ \A i \in 1 .. n : Tail(q)[i] = q[i + 1]
      /\ Head(q) = q[1]
      /\ Len(q) \in Nat \ {0}
  BY HeadTailProperties, EmptySeq
<1>2. n \in Nat /\ DOMAIN q = 1 .. (n + 1) /\ DOMAIN Tail(q) = 1 .. n
  BY <1>1, FrameLen
<1>3. \A i \in 1 .. (n + 1) : q[i].len \in Int
  BY <1>1, <1>2, FrameLen
<1>4. /\ \A i \in 1 .. (n + 1) : f[i] \in Int
      /\ \A i \in 1 .. n : h[i] = f[i + 1]
      /\ f[1] = Head(q).len
  BY <1>1, <1>2, <1>3
<1>5. BytesOf(q) = SumFunctionOnSet(f, 1 .. (n + 1))
  BY <1>2 DEF BytesOf, SumFunction
<1>6. BytesOf(Tail(q)) = SumFunctionOnSet(h, 1 .. n)
  BY <1>2 DEF BytesOf, SumFunction
<1> HIDE DEF f, h, n
<1>7. SumFunctionOnSet(f, 1 .. (n + 1)) = f[1] + SumFunctionOnSet(h, 1 .. n)
  BY <1>2, <1>4, SumTail
<1> QED
  BY <1>4, <1>5, <1>6, <1>7

\* The bytes of a queue.
LEMMA BytesOfNat ==
  ASSUME NEW q \in Seq(FrameType)
  PROVE  BytesOf(q) \in Nat
<1> DEFINE f == [i \in 1 .. Len(q) |-> q[i].len]
<1>1. Len(q) \in Nat /\ DOMAIN q = 1 .. Len(q) /\ \A i \in 1 .. Len(q) : f[i] \in Nat
  BY FrameLen
<1>2. BytesOf(q) = SumFunctionOnSet(f, 1 .. Len(q))
  BY <1>1 DEF BytesOf, SumFunction
<1>3. IsFiniteSet(1 .. Len(q))
  BY <1>1, FS_Interval
<1> HIDE DEF f
<1> QED
  BY <1>1, <1>2, <1>3, SumNat

\* A lane's counter changes by d, and the sum of the counters with it.
LEMMA SumOfCounters ==
  ASSUME NEW b \in [Lanes -> Int], NEW l \in Lanes, NEW d \in Int
  PROVE  SumFunction([b EXCEPT ![l] = @ + d]) = SumFunction(b) + d
<1> DEFINE c == [b EXCEPT ![l] = @ + d]
<1>1. DOMAIN b = Lanes /\ DOMAIN c = Lanes
  OBVIOUS
<1>2. /\ \A m \in Lanes : b[m] \in Int
      /\ c[l] = b[l] + d
      /\ \A m \in Lanes \ {l} : c[m] = b[m]
  OBVIOUS
<1> HIDE DEF c
<1>3. SumFunctionOnSet(c, Lanes) = SumFunctionOnSet(b, Lanes) + d
  BY <1>2, SumChange, SendLaneAssumption
<1> QED
  BY <1>1, <1>3 DEF SumFunction, c

\* The counters start at zero.
LEMMA BudgetInit == Init => BudgetExact
<1> SUFFICES ASSUME Init PROVE BudgetExact
  OBVIOUS
<1>1. \A l \in Lanes : bytes[l] = 0 /\ queue[l] = <<>>
  BY DEF Init
<1>2. BytesOf(<<>>) = 0
  <2>1. DOMAIN <<>> = {}
    OBVIOUS
  <2> QED
    BY <2>1, SumEmpty DEF BytesOf, SumFunction
<1>3. SumFunction(bytes) = 0
  <2>1. DOMAIN bytes = Lanes /\ \A l \in Lanes : bytes[l] \in Nat /\ bytes[l] <= 0
    BY DEF Init
  <2>2. SumFunctionOnSet(bytes, Lanes) \in Nat
    BY <2>1, SumNat, SendLaneAssumption
  <2>3. SumFunctionOnSet(bytes, Lanes) <= Cardinality(Lanes) * 0
    BY <2>1, SumBound, SendLaneAssumption
  <2>4. Cardinality(Lanes) * 0 = 0
    BY FS_CardinalityType, SendLaneAssumption
  <2> QED
    BY <2>1, <2>2, <2>3, <2>4 DEF SumFunction
<1> QED
  BY <1>1, <1>2, <1>3 DEF Init, BudgetExact, QueuedBytes, BytesOf

\* The first frame leaves the lane.
LEMMA BudgetPop ==
  ASSUME LaneInv, BudgetExact, NEW l \in Lanes, queue[l] # <<>>, PopAndRelease(l)
  PROVE  BudgetExact'
<1> DEFINE len == Head(queue[l]).len
<1>1. queue[l] \in Seq(FrameType) /\ bytes \in [Lanes -> Int] /\ used \in Int
      /\ queue \in [Lanes -> Seq(FrameType)]
  BY DEF LaneInv, LaneTypes
<1>2. Head(queue[l]) \in FrameType /\ Tail(queue[l]) \in Seq(FrameType)
  BY <1>1
<1>3. len \in Nat
  BY <1>2, LenOfFrame
<1>4. /\ queue' = [queue EXCEPT ![l] = Tail(@)]
      /\ bytes' = [bytes EXCEPT ![l] = @ - len]
      /\ used' = used - len
  BY DEF PopAndRelease
<1> HIDE DEF len
<1>5. ASSUME NEW m \in Lanes PROVE bytes'[m] = BytesOf(queue'[m])
  <2>1. bytes[m] = BytesOf(queue[m])
    BY DEF BudgetExact, QueuedBytes, BytesOf
  <2>2. CASE m = l
    <3>1. bytes'[m] = bytes[l] - len /\ queue'[m] = Tail(queue[l])
      BY <1>1, <1>4, <2>2
    <3>2. BytesOf(queue[l]) = len + BytesOf(Tail(queue[l]))
      BY <1>1, BytesOfTail DEF len
    <3>3. BytesOf(Tail(queue[l])) \in Nat
      BY <1>2, BytesOfNat
    <3> QED
      BY <1>3, <2>1, <2>2, <3>1, <3>2, <3>3
  <2>3. CASE m # l
    BY <1>1, <1>4, <2>1, <2>3
  <2> QED
    BY <2>2, <2>3
<1>6. used' = SumFunction(bytes')
  <2> DEFINE d == 0 - len
  <2>a. d \in Int /\ bytes[l] - len = bytes[l] + d
    BY <1>1, <1>3
  <2>b. used' = used + d
    BY <1>1, <1>3, <1>4
  <2> HIDE DEF d
  <2>1. bytes' = [bytes EXCEPT ![l] = @ + d]
    BY <1>4, <2>a, Zenon
  <2>c. SumFunction([bytes EXCEPT ![l] = @ + d]) = SumFunction(bytes) + d
    BY <1>1, <2>a, SumOfCounters
  <2>2. SumFunction(bytes') = SumFunction(bytes) + d
    BY <2>1, <2>c, Zenon
  <2>3. used = SumFunction(bytes)
    BY DEF BudgetExact
  <2> QED
    BY <2>b, <2>2, <2>3
<1> QED
  BY <1>5, <1>6 DEF BudgetExact, QueuedBytes, BytesOf

\* Every step changes the queues and the counters by the same amount.
LEMMA BudgetNext == LaneInv /\ BudgetExact /\ [Next]_vars => BudgetExact'
<1> SUFFICES ASSUME LaneInv, BudgetExact, [Next]_vars PROVE BudgetExact'
  OBVIOUS
<1>1. CASE UNCHANGED <<queue, bytes, used>>
  BY <1>1 DEF BudgetExact, QueuedBytes
<1>2. ASSUME NEW t \in Threads, PushAccept(t) PROVE BudgetExact'
  <2> DEFINE l == call[t].lane
             len == call[t].len
             frame == [id |-> accepted[l] + 1, len |-> len]
  <2>1. l \in Lanes /\ len \in Lens
    BY <1>2, AcceptingCall DEF LaneInv, PushAccept
  <2>2. frame \in FrameType
    <3>1. LaneTypes'
      BY LaneInvNext DEF LaneInv
    <3>2. queue'[l] = Append(queue[l], frame) /\ queue'[l] \in Seq(FrameType)
            /\ queue[l] \in Seq(FrameType)
      BY <1>2, <2>1, <3>1 DEF LaneInv, LaneTypes, PushAccept
    <3>3. accepted'[l] = accepted[l] + 1 /\ accepted'[l] \in 0 .. MaxPushes
            /\ accepted[l] \in 0 .. MaxPushes
      BY <1>2, <2>1, <3>1 DEF LaneInv, LaneTypes, PushAccept
    <3>4. accepted[l] + 1 \in 1 .. MaxPushes
      BY <3>3, SendLaneAssumption
    <3> QED
      BY <2>1, <3>4 DEF FrameType, FrameIds
  <2>3. len \in Nat
    BY <2>1, SendLaneAssumption
  <2>4. /\ queue' = [queue EXCEPT ![l] = Append(@, frame)]
        /\ bytes' = [bytes EXCEPT ![l] = @ + len]
        /\ used' = used + len
    BY <1>2 DEF PushAccept
  <2>5. queue \in [Lanes -> Seq(FrameType)] /\ bytes \in [Lanes -> Int] /\ used \in Int
    BY DEF LaneInv, LaneTypes
  <2>6. frame.len = len
    OBVIOUS
  <2> HIDE DEF l, len, frame
  <2>7. ASSUME NEW m \in Lanes PROVE bytes'[m] = BytesOf(queue'[m])
    <3>1. bytes[m] = BytesOf(queue[m])
      BY DEF BudgetExact, QueuedBytes, BytesOf
    <3>2. CASE m = l
      <4>1. bytes'[m] = bytes[l] + len /\ queue'[m] = Append(queue[l], frame)
        BY <2>4, <2>5, <3>2
      <4>2. BytesOf(Append(queue[l], frame)) = BytesOf(queue[l]) + len
        BY <2>1, <2>2, <2>5, <2>6, BytesOfAppend
      <4> QED
        BY <3>1, <3>2, <4>1, <4>2
    <3>3. CASE m # l
      BY <2>4, <2>5, <3>1, <3>3
    <3> QED
      BY <3>2, <3>3
  <2>8. used' = SumFunction(bytes')
    <3>0. len \in Int
      BY <2>3
    <3>1. SumFunction([bytes EXCEPT ![l] = @ + len]) = SumFunction(bytes) + len
      BY <2>1, <2>5, <3>0, SumOfCounters
    <3>2. SumFunction(bytes') = SumFunction(bytes) + len
      BY <2>4, <3>1, Zenon
    <3>3. used = SumFunction(bytes)
      BY DEF BudgetExact
    <3> QED
      BY <2>4, <3>2, <3>3
  <2> QED
    BY <2>7, <2>8 DEF BudgetExact, QueuedBytes, BytesOf
<1>3. ASSUME NEW l \in Lanes, DiscardOne(l) PROVE BudgetExact'
  BY <1>3, BudgetPop DEF DiscardOne, LaneInv, WorkerPhase
<1>4. ASSUME NEW l \in Lanes, WorkerPops(l) PROVE BudgetExact'
  BY <1>4, BudgetPop DEF WorkerPops
<1> QED
  BY <1>1, <1>2, <1>3, <1>4
  DEF Next, Calls, Worker, vars, PushDrop, PushCheck, StopLatch, PushNotify, StopNotify,
      StopJoin, WorkerWait, SpuriousWakeup, WorkerExit, WorkerDiscards, WorkerSends

\* With exact budgets the counters are natural numbers.
LEMMA CountersNatural ==
  ASSUME LaneInv, BudgetExact
  PROVE  bytes \in [Lanes -> Nat] /\ used \in Nat
<1>1. ASSUME NEW l \in Lanes PROVE bytes[l] \in Nat
  <2>1. queue[l] \in Seq(FrameType) /\ bytes[l] = BytesOf(queue[l])
    BY DEF LaneInv, LaneTypes, BudgetExact, QueuedBytes, BytesOf
  <2> QED
    BY <2>1, BytesOfNat
<1>2. bytes \in [Lanes -> Int] /\ DOMAIN bytes = Lanes
  BY DEF LaneInv, LaneTypes
<1>3. SumFunctionOnSet(bytes, Lanes) \in Nat
  BY <1>1, SumNat, SendLaneAssumption
<1> QED
  BY <1>1, <1>2, <1>3 DEF BudgetExact, SumFunction

\* send_lane.hpp: both budgets count exactly the queued bytes, in every
\* interleaving of the lanes' pushes, pops, discards and stops.
THEOREM LanesKeepExactBudgets == Spec => []BudgetExact
<1>1. Init => LaneInv /\ BudgetExact
  BY SendLaneInit, BudgetInit
<1>2. (LaneInv /\ BudgetExact) /\ [Next]_vars => (LaneInv /\ BudgetExact)'
  BY LaneInvNext, BudgetNext
<1> QED
  BY <1>1, <1>2, PTL DEF Spec

\* The type invariant; in particular no counter wraps below zero.
THEOREM LanesWellTyped == Spec => []TypeOK
<1>1. Init => LaneInv /\ BudgetExact
  BY SendLaneInit, BudgetInit
<1>2. (LaneInv /\ BudgetExact) /\ [Next]_vars => (LaneInv /\ BudgetExact)'
  BY LaneInvNext, BudgetNext
<1>3. LaneInv /\ BudgetExact => TypeOK
  <2> SUFFICES ASSUME LaneInv, BudgetExact PROVE TypeOK
    OBVIOUS
  <2>1. bytes \in [Lanes -> Nat] /\ used \in Nat
    BY CountersNatural
  <2> QED
    BY <2>1 DEF LaneInv, LaneTypes, TypeOK, CallType
<1> QED
  BY <1>1, <1>2, <1>3, PTL DEF Spec

-----------------------------------------------------------------------------
(* The limits *)

\* A frame that passed the checks still fits when it is added.
FrameFits ==
  \A l \in Lanes, t \in Threads : Accepting(t, l) => bytes[l] + call[t].len <= ByteLimit

LimitInv == LaneWithinLimit /\ FrameFits

\* Every step keeps each lane within its limit: push() checks under the lock of
\* the lane, and only it adds.
LEMMA LimitNext ==
  LaneInv /\ BudgetExact /\ LimitInv /\ [Next]_vars => LimitInv'
<1> SUFFICES ASSUME LaneInv, BudgetExact, LimitInv, [Next]_vars PROVE LimitInv'
  OBVIOUS
<1>0. /\ LaneTypes /\ LockHeld /\ LaneWithinLimit /\ FrameFits
      /\ ByteLimit \in Nat
      /\ \A l \in Lanes : bytes[l] \in Nat
  BY CountersNatural, SendLaneAssumption DEF LaneInv, LimitInv
<1>1. ASSUME UNCHANGED bytes,
             \A t \in Threads : call'[t].at = "accepting" => call'[t] = call[t]
      PROVE  LimitInv'
  BY <1>0, <1>1 DEF LimitInv, LaneWithinLimit, FrameFits, Accepting
<1>2. ASSUME NEW t \in Threads, NEW l \in Lanes, NEW len \in Lens, PushCheck(t, l, len)
      PROVE  LimitInv'
  <2>1. /\ UNCHANGED bytes
        /\ call' = [call EXCEPT ![t] = [at |-> "accepting", lane |-> l, len |-> len]]
        /\ ~(bytes[l] + len > ByteLimit)
    BY <1>2 DEF PushCheck, Rejects
  <2>2. bytes[l] + len <= ByteLimit
    BY <1>0, <2>1, SendLaneAssumption
  <2> QED
    BY <1>0, <2>1, <2>2 DEF LimitInv, LaneWithinLimit, FrameFits, Accepting, LaneTypes
<1>3. ASSUME NEW t \in Threads, PushAccept(t) PROVE LimitInv'
  <2> DEFINE l == call[t].lane
  <2>1. l \in Lanes /\ Accepting(t, l)
    BY <1>0, <1>3, AcceptingCall DEF PushAccept, Accepting
  <2>2. /\ bytes' = [bytes EXCEPT ![l] = @ + call[t].len]
        /\ call' = [call EXCEPT ![t] = [at |-> "pushed", lane |-> l]]
    BY <1>3 DEF PushAccept
  <2> HIDE DEF l
  <2>3. \A m \in Lanes, u \in Threads :
          Accepting(u, m)' => Accepting(u, m) /\ m # l /\ call'[u] = call[u]
    BY <1>0, <2>1, <2>2 DEF Accepting, LaneTypes, LockHeld
  <2>4. bytes'[l] <= ByteLimit /\ \A m \in Lanes : m # l => bytes'[m] = bytes[m]
    BY <1>0, <2>1, <2>2 DEF FrameFits, LaneTypes
  <2> QED
    BY <1>0, <2>3, <2>4 DEF LimitInv, LaneWithinLimit, FrameFits
<1>4. ASSUME NEW l \in Lanes, PopAndRelease(l), queue[l] # <<>>, UNCHANGED call
      PROVE  LimitInv'
  <2>1. Head(queue[l]) \in FrameType
    BY <1>0, <1>4 DEF LaneTypes
  <2>2. Head(queue[l]).len \in Nat
    BY <2>1, LenOfFrame
  <2>3. bytes' = [bytes EXCEPT ![l] = @ - Head(queue[l]).len]
    BY <1>4 DEF PopAndRelease
  <2>4. \A m \in Lanes : bytes'[m] <= bytes[m] /\ bytes'[m] \in Int
    <3> DEFINE n == Head(queue[l]).len
    <3>1. bytes \in [Lanes -> Int] /\ bytes' = [bytes EXCEPT ![l] = @ - n] /\ n \in Nat
      BY <1>0, <2>2, <2>3 DEF LaneTypes
    <3> HIDE DEF n
    <3> QED
      BY <3>1
  <2>5. ASSUME NEW m \in Lanes, NEW u \in Threads, Accepting(u, m)'
        PROVE  bytes'[m] + call'[u].len <= ByteLimit
    <3>1. Accepting(u, m) /\ call'[u] = call[u]
      BY <1>4, <2>5 DEF Accepting
    <3>2. call[u].len \in Nat
      BY <1>0, <3>1, AcceptingCall, SendLaneAssumption DEF Accepting
    <3>3. bytes[m] + call[u].len <= ByteLimit
      BY <1>0, <3>1 DEF FrameFits
    <3> QED
      BY <1>0, <2>4, <3>1, <3>2, <3>3
  <2>6. \A m \in Lanes : bytes'[m] <= ByteLimit
    BY <1>0, <2>4 DEF LaneWithinLimit
  <2> QED
    BY <2>5, <2>6 DEF LimitInv, LaneWithinLimit, FrameFits
<1>5. ASSUME NEW t \in Threads, PushNotify(t) \/ StopNotify(t) \/ StopJoin(t)
      PROVE  LimitInv'
  <2>1. UNCHANGED bytes /\ \A u \in Threads \ {t} : call'[u] = call[u]
    BY <1>0, <1>5 DEF PushNotify, StopNotify, StopJoin, LaneTypes
  <2>2. call'[t].at # "accepting"
    <3>1. CASE PushNotify(t) \/ StopJoin(t)
      BY <1>0, <3>1 DEF PushNotify, StopJoin, LaneTypes, Idle
    <3>2. CASE StopNotify(t)
      <4>1. call[t] = [at |-> call[t].at, lane |-> call[t].lane]
        BY <1>0, <3>2, OtherCall DEF StopNotify
      <4>2. [call[t] EXCEPT !.at = "joining"].at = "joining"
        BY <4>1
      <4> QED
        BY <1>0, <3>2, <4>2 DEF StopNotify, LaneTypes
    <3> QED
      BY <1>5, <3>1, <3>2
  <2> QED
    BY <1>1, <2>1, <2>2
<1>6. ASSUME NEW t \in Threads, NEW l \in Lanes, NEW d \in BOOLEAN, StopLatch(t, l, d)
      PROVE  LimitInv'
  <2>1. /\ UNCHANGED bytes
        /\ call' = [call EXCEPT ![t] = [at |-> "stopped", lane |-> l]]
    BY <1>6 DEF StopLatch
  <2>2. \A u \in Threads : call'[u].at = "accepting" => call'[u] = call[u]
    BY <1>0, <2>1 DEF LaneTypes
  <2> QED
    BY <1>1, <2>1, <2>2
<1>7. ASSUME NEW l \in Lanes, DiscardOne(l) \/ WorkerPops(l) PROVE LimitInv'
  <2>1. PopAndRelease(l) /\ queue[l] # <<>> /\ UNCHANGED call
    BY <1>7 DEF DiscardOne, WorkerPops, LaneInv, WorkerPhase
  <2> QED
    BY <1>4, <2>1
<1>8. CASE UNCHANGED <<bytes, call>>
  BY <1>1, <1>8
<1> QED
  BY <1>2, <1>3, <1>5, <1>6, <1>7, <1>8
  DEF Next, Calls, Worker, vars, PushDrop, WorkerWait, SpuriousWakeup, WorkerExit,
      WorkerDiscards, WorkerSends

\* send_lane.hpp: a lane holds at most byte_limit_ bytes, though push() checks
\* the limit in one step and adds in another.
THEOREM LanesKeepLimit == Spec => []LaneWithinLimit
<1>1. Init => LaneInv /\ BudgetExact /\ LimitInv
  <2>1. Init => LimitInv
    BY SendLaneAssumption
    DEF Init, LimitInv, LaneWithinLimit, FrameFits, Accepting, Idle
  <2> QED
    BY <2>1, SendLaneInit, BudgetInit
<1>2. (LaneInv /\ BudgetExact /\ LimitInv) /\ [Next]_vars
        => (LaneInv /\ BudgetExact /\ LimitInv)'
  BY LaneInvNext, BudgetNext, LimitNext
<1>3. LimitInv => LaneWithinLimit
  BY DEF LimitInv
<1> QED
  BY <1>1, <1>2, <1>3, PTL DEF Spec

-----------------------------------------------------------------------------
(* The shared budget *)

\* The frames that passed the checks and are not yet counted, at most one in
\* each lane.
Uncounted ==
  [l \in Lanes |-> IF \E t \in Threads : Accepting(t, l)
                   THEN call[CHOOSE t \in Threads : Accepting(t, l)].len ELSE 0]

\* The bytes that are counted or about to be are bounded: a frame that passes
\* the check joins at most one uncounted frame of each other lane.
OverrunInv ==
  used + SumFunction(Uncounted) <= GlobalLimit + (Cardinality(Lanes) - 1) * MaxLen

\* The longest frame.
LEMMA MaxLenProperty == MaxLen \in Lens /\ MaxLen \in Nat /\ \A k \in Lens : k <= MaxLen
<1>1. \E n \in Lens : \A k \in Lens : k <= n
  <2>1. IsFiniteSet(Lens) /\ Lens # {} /\ \A x \in Lens : x \in Int
    BY SendLaneAssumption
  <2> QED
    BY <2>1, GreatestInteger
<1>2. MaxLen \in Lens /\ \A k \in Lens : k <= MaxLen
  BY <1>1 DEF MaxLen
<1> QED
  BY <1>2, SendLaneAssumption

UncountedIsPending ==
  /\ Uncounted \in [Lanes -> Nat]
  /\ \A l \in Lanes : Uncounted[l] <= MaxLen
  /\ \A l \in Lanes, t \in Threads : Accepting(t, l) => Uncounted[l] = call[t].len
  /\ \A l \in Lanes : (\A t \in Threads : ~Accepting(t, l)) => Uncounted[l] = 0

\* What Uncounted is in a lane where push() holds the lock, and in the others.
LEMMA UncountedProperty == LaneInv => UncountedIsPending
<1> SUFFICES ASSUME LaneInv PROVE UncountedIsPending
  OBVIOUS
<1>1. ASSUME NEW l \in Lanes, NEW t \in Threads, Accepting(t, l)
      PROVE  /\ Uncounted[l] = call[t].len
             /\ call[t].len \in Nat /\ call[t].len <= MaxLen
  <2>1. (CHOOSE u \in Threads : Accepting(u, l)) = t
    BY <1>1 DEF LaneInv, LockHeld
  <2>2. call[t].len \in Lens
    BY <1>1, AcceptingCall DEF LaneInv, Accepting
  <2> QED
    BY <1>1, <2>1, <2>2, MaxLenProperty, SendLaneAssumption DEF Uncounted
<1>2. ASSUME NEW l \in Lanes, \A t \in Threads : ~Accepting(t, l)
      PROVE  Uncounted[l] = 0
  BY <1>2 DEF Uncounted
<1>3. \A l \in Lanes : Uncounted[l] \in Nat /\ Uncounted[l] <= MaxLen
  BY <1>1, <1>2, MaxLenProperty
<1>4. Uncounted = [l \in Lanes |-> Uncounted[l]]
  BY DEF Uncounted
<1> QED
  BY <1>1, <1>2, <1>3, <1>4 DEF UncountedIsPending

\* What threads have checked and not yet counted.
LEMMA UncountedSum ==
  ASSUME LaneInv
  PROVE  /\ SumFunction(Uncounted) = SumFunctionOnSet(Uncounted, Lanes)
         /\ SumFunction(Uncounted) \in Nat
<1>1. Uncounted \in [Lanes -> Nat]
  BY UncountedProperty DEF UncountedIsPending
<1>2. DOMAIN Uncounted = Lanes /\ \A l \in Lanes : Uncounted[l] \in Nat
  BY <1>1
<1>3. SumFunctionOnSet(Uncounted, Lanes) \in Nat
  BY <1>2, SumNat, SendLaneAssumption
<1> QED
  BY <1>2, <1>3 DEF SumFunction

\* Without a frame in lane l, the other lanes hold at most MaxLen each.
LEMMA UncountedElsewhere ==
  ASSUME LaneInv, NEW l \in Lanes, \A t \in Threads : ~Accepting(t, l)
  PROVE  SumFunction(Uncounted) <= (Cardinality(Lanes) - 1) * MaxLen
<1> DEFINE R == Lanes \ {l}
<1>1. /\ \A m \in Lanes : Uncounted[m] \in Nat /\ Uncounted[m] <= MaxLen
      /\ Uncounted[l] = 0
  BY UncountedProperty DEF UncountedIsPending
<1>2. IsFiniteSet(Lanes) /\ MaxLen \in Nat
  BY MaxLenProperty, SendLaneAssumption
<1>3. IsFiniteSet(R) /\ Cardinality(R) = Cardinality(Lanes) - 1
  BY <1>2, SmallerByOne
<1>4. Lanes = R \cup {l} /\ l \notin R
  OBVIOUS
<1>5. \A m \in R : Uncounted[m] \in Nat /\ Uncounted[m] <= MaxLen
  BY <1>1
<1> HIDE DEF R
<1>6. SumFunctionOnSet(Uncounted, R) <= Cardinality(R) * MaxLen
  BY <1>2, <1>3, <1>5, SumBound
<1>7. SumFunctionOnSet(Uncounted, R \cup {l}) = Uncounted[l] + SumFunctionOnSet(Uncounted, R)
  <2>1. \A m \in R \cup {l} : Uncounted[m] \in Int
    BY <1>1, <1>4
  <2> QED
    BY <1>3, <1>4, <2>1, SumAdd
<1>8. SumFunctionOnSet(Uncounted, R) \in Nat
  BY <1>3, <1>5, SumNat
<1>9. SumFunctionOnSet(Uncounted, Lanes) = SumFunctionOnSet(Uncounted, R)
  BY <1>1, <1>4, <1>7, <1>8
<1> QED
  BY <1>3, <1>6, <1>9, UncountedSum

\* One entry of Uncounted changes.
LEMMA UncountedChange ==
  ASSUME LaneInv, LaneInv', NEW l \in Lanes, \A m \in Lanes \ {l} : Uncounted'[m] = Uncounted[m]
  PROVE  SumFunction(Uncounted)' = SumFunction(Uncounted) + (Uncounted'[l] - Uncounted[l])
<1>1. SumFunction(Uncounted) = SumFunctionOnSet(Uncounted, Lanes)
  BY UncountedSum
<1>2. SumFunction(Uncounted)' = SumFunctionOnSet(Uncounted', Lanes)
  <2>1. DOMAIN Uncounted' = Lanes
    BY DEF Uncounted
  <2> QED
    BY <2>1 DEF SumFunction
<1>3. /\ \A m \in Lanes : Uncounted[m] \in Int
      /\ Uncounted'[l] \in Int
  <2>1. \A m \in Lanes : Uncounted[m] \in Nat
    BY UncountedProperty DEF UncountedIsPending
  <2>2. Uncounted' \in [Lanes -> Nat]
    <3>1. UncountedIsPending'
      BY UncountedProperty, PTL
    <3> QED
      BY <3>1 DEF UncountedIsPending
  <2> QED
    BY <2>1, <2>2
<1>4. Uncounted'[l] = Uncounted[l] + (Uncounted'[l] - Uncounted[l])
  BY <1>3
<1>5. SumFunctionOnSet(Uncounted', Lanes)
        = SumFunctionOnSet(Uncounted, Lanes) + (Uncounted'[l] - Uncounted[l])
  <2>1. Uncounted'[l] - Uncounted[l] \in Int /\ IsFiniteSet(Lanes)
    BY <1>3, SendLaneAssumption
  <2> QED
    BY <1>3, <1>4, <2>1, SumChange
<1> QED
  BY <1>1, <1>2, <1>5

\* Every step keeps the overrun of the shared budget within one frame of each
\* other lane.
LEMMA OverrunNext ==
  LaneInv /\ BudgetExact /\ OverrunInv /\ [Next]_vars => OverrunInv'
<1> SUFFICES ASSUME LaneInv, BudgetExact, OverrunInv, [Next]_vars PROVE OverrunInv'
  OBVIOUS
<1> DEFINE bound == GlobalLimit + (Cardinality(Lanes) - 1) * MaxLen
<1>0. LaneInv' /\ LaneTypes /\ LockHeld /\ UncountedIsPending /\ UncountedIsPending'
  <2>1. LaneInv'
    BY LaneInvNext
  <2>2. UncountedIsPending'
    BY <2>1, UncountedProperty, PTL
  <2> QED
    BY <2>1, <2>2, UncountedProperty DEF LaneInv
<1>a. /\ used \in Nat /\ SumFunction(Uncounted) \in Nat
      /\ GlobalLimit \in Nat
      /\ (Cardinality(Lanes) - 1) * MaxLen \in Int
  <2>1. Cardinality(Lanes) \in Nat
    BY FS_CardinalityType, SendLaneAssumption
  <2> QED
    BY <2>1, CountersNatural, UncountedSum, MaxLenProperty, SendLaneAssumption
<1>b. used + SumFunction(Uncounted) <= bound
  BY DEF OverrunInv
<1>c. bound \in Int /\ (OverrunInv' <=> used' + SumFunction(Uncounted)' <= bound)
  BY <1>a DEF OverrunInv
<1> HIDE DEF bound
<1>1. ASSUME used' \in Int, used' <= used,
             \A t \in Threads, l \in Lanes : Accepting(t, l)' <=> Accepting(t, l),
             \A t \in Threads : call[t].at = "accepting" => call'[t] = call[t]
      PROVE  OverrunInv'
  <2>1. ASSUME NEW l \in Lanes PROVE Uncounted'[l] = Uncounted[l]
    BY <1>0, <1>1 DEF UncountedIsPending, Accepting
  <2>2. PICK l \in Lanes : TRUE
    BY SendLaneAssumption
  <2>3. SumFunction(Uncounted)' = SumFunction(Uncounted) + (Uncounted'[l] - Uncounted[l])
    BY <1>0, <2>1, UncountedChange
  <2>4. Uncounted[l] \in Nat
    BY <1>0 DEF UncountedIsPending
  <2>5. SumFunction(Uncounted)' = SumFunction(Uncounted)
    BY <1>a, <2>1, <2>3, <2>4
  <2> QED
    BY <1>1, <1>a, <1>b, <1>c, <2>5
<1>2. ASSUME NEW t \in Threads, NEW l \in Lanes, NEW len \in Lens, PushCheck(t, l, len)
      PROVE  OverrunInv'
  <2>1. /\ UNCHANGED used
        /\ call[t].at = "idle"
        /\ call' = [call EXCEPT ![t] = [at |-> "accepting", lane |-> l, len |-> len]]
        /\ ~(used + len > GlobalLimit)
        /\ \A u \in Threads : ~Accepting(u, l)
    BY <1>2 DEF PushCheck, Rejects, Unlocked, Accepting
  <2>2. len \in Nat /\ used + len <= GlobalLimit
    BY <1>a, <2>1, SendLaneAssumption
  <2>3. Uncounted[l] = 0
    BY <1>0, <2>1 DEF UncountedIsPending
  <2>4. Uncounted'[l] = len
    <3>1. Accepting(t, l)' /\ call'[t].len = len
      BY <1>0, <2>1 DEF Accepting, LaneTypes
    <3> QED
      BY <1>0, <3>1 DEF UncountedIsPending
  <2>5. ASSUME NEW m \in Lanes \ {l} PROVE Uncounted'[m] = Uncounted[m]
    <3>1. \A u \in Threads : Accepting(u, m)' <=> Accepting(u, m)
      BY <1>0, <2>1 DEF Accepting, LaneTypes
    <3>2. \A u \in Threads : Accepting(u, m) => call'[u] = call[u]
      BY <1>0, <2>1 DEF Accepting, LaneTypes
    <3> QED
      BY <1>0, <3>1, <3>2 DEF UncountedIsPending
  <2>6. SumFunction(Uncounted)' = SumFunction(Uncounted) + (len - 0)
    BY <1>0, <2>3, <2>4, <2>5, UncountedChange
  <2>7. SumFunction(Uncounted) <= (Cardinality(Lanes) - 1) * MaxLen
    BY <2>1, UncountedElsewhere
  <2>8. bound = GlobalLimit + (Cardinality(Lanes) - 1) * MaxLen
    BY DEF bound
  <2> QED
    BY <1>a, <1>c, <2>1, <2>2, <2>6, <2>7, <2>8
<1>3. ASSUME NEW t \in Threads, PushAccept(t) PROVE OverrunInv'
  <2>0. call[t].at = "accepting" /\ call[t].lane \in Lanes /\ call[t].len \in Nat
    BY <1>0, <1>3, AcceptingCall, SendLaneAssumption DEF PushAccept
  <2>p. PICK l \in Lanes, len \in Nat : l = call[t].lane /\ len = call[t].len
    BY <2>0
  <2>1. Accepting(t, l)
    BY <2>0, <2>p DEF Accepting
  <2>2. /\ used' = used + len
        /\ call' = [call EXCEPT ![t] = [at |-> "pushed", lane |-> l]]
    BY <1>3, <2>p DEF PushAccept
  <2>3. Uncounted[l] = len
    BY <1>0, <2>1, <2>p DEF UncountedIsPending
  <2>4. \A m \in Lanes, u \in Threads : Accepting(u, m)' <=> Accepting(u, m) /\ u # t
    BY <1>0, <2>2 DEF Accepting, LaneTypes
  <2>5. Uncounted'[l] = 0
    <3>1. \A u \in Threads : ~Accepting(u, l)'
      BY <1>0, <2>1, <2>4 DEF LockHeld
    <3> QED
      BY <1>0, <3>1 DEF UncountedIsPending
  <2>6. ASSUME NEW m \in Lanes \ {l} PROVE Uncounted'[m] = Uncounted[m]
    <3>1. ~Accepting(t, m)
      BY <2>1 DEF Accepting
    <3>2. \A u \in Threads : Accepting(u, m)' <=> Accepting(u, m)
      BY <2>4, <3>1
    <3>3. \A u \in Threads : Accepting(u, m) => call'[u] = call[u]
      BY <1>0, <2>2, <3>1 DEF LaneTypes
    <3> QED
      BY <1>0, <3>2, <3>3 DEF UncountedIsPending
  <2>7. SumFunction(Uncounted)' = SumFunction(Uncounted) + (0 - len)
    BY <1>0, <2>3, <2>5, <2>6, UncountedChange
  <2> QED
    BY <1>a, <1>b, <1>c, <2>2, <2>7
<1>4. ASSUME NEW l \in Lanes, DiscardOne(l) \/ WorkerPops(l) PROVE OverrunInv'
  <2>1. PopAndRelease(l) /\ queue[l] # <<>> /\ UNCHANGED call
    BY <1>4 DEF DiscardOne, WorkerPops, LaneInv, WorkerPhase
  <2>2. Head(queue[l]) \in FrameType
    BY <1>0, <2>1 DEF LaneTypes
  <2>3. Head(queue[l]).len \in Nat
    BY <2>2, LenOfFrame
  <2>4. used' = used - Head(queue[l]).len
    BY <2>1 DEF PopAndRelease
  <2>5. used' \in Int /\ used' <= used
    <3> DEFINE n == Head(queue[l]).len
    <3>1. n \in Nat /\ used' = used - n
      BY <2>3, <2>4
    <3> HIDE DEF n
    <3> QED
      BY <1>a, <3>1
  <2> QED
    BY <1>1, <2>1, <2>5 DEF Accepting
<1>5. ASSUME NEW t \in Threads, UNCHANGED used,
             \A u \in Threads \ {t} : call'[u] = call[u],
             call[t].at # "accepting", call'[t].at # "accepting"
      PROVE  OverrunInv'
  BY <1>1, <1>5, <1>a DEF Accepting
<1>6. ASSUME NEW t \in Threads, PushNotify(t) \/ StopNotify(t) \/ StopJoin(t)
      PROVE  OverrunInv'
  <2>1. /\ UNCHANGED used /\ \A u \in Threads \ {t} : call'[u] = call[u]
        /\ call[t].at # "accepting"
    BY <1>0, <1>6 DEF PushNotify, StopNotify, StopJoin, LaneTypes
  <2>2. call'[t].at # "accepting"
    <3>1. CASE PushNotify(t) \/ StopJoin(t)
      BY <1>0, <3>1 DEF PushNotify, StopJoin, LaneTypes, Idle
    <3>2. CASE StopNotify(t)
      <4>1. call[t] = [at |-> call[t].at, lane |-> call[t].lane]
        BY <1>0, <3>2, OtherCall DEF StopNotify
      <4>2. [call[t] EXCEPT !.at = "joining"].at = "joining"
        BY <4>1
      <4> QED
        BY <1>0, <3>2, <4>2 DEF StopNotify, LaneTypes
    <3> QED
      BY <1>6, <3>1, <3>2
  <2> QED
    BY <1>5, <2>1, <2>2
<1>7. ASSUME NEW t \in Threads, NEW l \in Lanes, NEW d \in BOOLEAN, StopLatch(t, l, d)
      PROVE  OverrunInv'
  <2>1. /\ UNCHANGED used /\ call[t].at = "idle"
        /\ call' = [call EXCEPT ![t] = [at |-> "stopped", lane |-> l]]
    BY <1>7 DEF StopLatch
  <2>2. call'[t].at = "stopped" /\ \A u \in Threads \ {t} : call'[u] = call[u]
    BY <1>0, <2>1 DEF LaneTypes
  <2> QED
    BY <1>5, <2>1, <2>2
<1>8. CASE UNCHANGED <<used, call>>
  BY <1>1, <1>8, <1>a DEF Accepting
<1> QED
  BY <1>2, <1>3, <1>4, <1>6, <1>7, <1>8
  DEF Next, Calls, Worker, vars, PushDrop, WorkerWait, SpuriousWakeup, WorkerExit,
      WorkerDiscards, WorkerSends

\* SendBudget: push() checks the shared counter in one step and adds to it in
\* another while other lanes do the same, so the limit is not exact; it is
\* exceeded by at most one frame of each other lane.
THEOREM LanesBoundOverrun == Spec => []BoundedOverrun
<1>1. Init => LaneInv /\ BudgetExact /\ OverrunInv
  <2> SUFFICES ASSUME Init PROVE OverrunInv
    BY SendLaneInit, BudgetInit
  <2>1. PICK l \in Lanes : TRUE
    BY SendLaneAssumption
  <2>2. \A t \in Threads : ~Accepting(t, l)
    BY DEF Init, Accepting, Idle
  <2>3. SumFunction(Uncounted) <= (Cardinality(Lanes) - 1) * MaxLen
    BY <2>2, UncountedElsewhere, SendLaneInit
  <2>4. SumFunction(Uncounted) \in Nat /\ GlobalLimit \in Nat /\ used = 0
    BY UncountedSum, SendLaneInit, SendLaneAssumption DEF Init
  <2>5. (Cardinality(Lanes) - 1) * MaxLen \in Int
    <3>1. Cardinality(Lanes) \in Nat
      BY FS_CardinalityType, SendLaneAssumption
    <3> QED
      BY <3>1, MaxLenProperty
  <2> QED
    BY <2>3, <2>4, <2>5 DEF OverrunInv
<1>2. (LaneInv /\ BudgetExact /\ OverrunInv) /\ [Next]_vars
        => (LaneInv /\ BudgetExact /\ OverrunInv)'
  BY LaneInvNext, BudgetNext, OverrunNext
<1>3. LaneInv /\ BudgetExact /\ OverrunInv => BoundedOverrun
  <2> SUFFICES ASSUME LaneInv, BudgetExact, OverrunInv PROVE BoundedOverrun
    OBVIOUS
  <2>1. used \in Nat /\ SumFunction(Uncounted) \in Nat
    BY CountersNatural, UncountedSum
  <2>2. GlobalLimit + (Cardinality(Lanes) - 1) * MaxLen \in Int
    <3>1. Cardinality(Lanes) \in Nat
      BY FS_CardinalityType, SendLaneAssumption
    <3> QED
      BY <3>1, MaxLenProperty, SendLaneAssumption
  <2> QED
    BY <2>1, <2>2 DEF OverrunInv, BoundedOverrun
<1> QED
  BY <1>1, <1>2, <1>3, PTL DEF Spec
-----------------------------------------------------------------------------
(***************************************************************************)
(* The order of the frames: what the sink got are the first accepted frames *)
(* in order, the frame in the worker's hands is the next one, and while the *)
(* lane keeps its frames those in the queue are the ones after it.  A lane  *)
(* keeps its frames until a worker discards them, which takes stop(false).  *)
(***************************************************************************)
Handed(l) == Len(sent[l]) + Len(inflight[l])

InOrder(l) ==
  /\ \A i \in 1 .. Len(sent[l]) : sent[l][i] = i
  /\ inflight[l] # <<>> => inflight[l] = <<Len(sent[l]) + 1>>

Complete(l) ==
  /\ accepted[l] = Handed(l) + Len(queue[l])
  /\ \A i \in 1 .. Len(queue[l]) : queue[l][i].id = Handed(l) + i

Keeps(l) == l \notin discards \/ worker[l] \notin {"discarding", "exited"}

LaneOrder(l) ==
  /\ InOrder(l)
  /\ Discards(l) \/ worker[l] = "discarding" => l \in discards
  /\ Keeps(l) => Complete(l)

OrderInv == \A l \in Lanes : LaneOrder(l)

\* A step that leaves the lane's frames alone keeps the order, whatever it does
\* to the worker short of bringing back one that discards or has exited.
LEMMA OrderKept ==
  ASSUME NEW l \in Lanes, LaneOrder(l),
         UNCHANGED <<queue[l], sent[l], inflight[l], accepted[l]>>,
         l \in discards => l \in discards',
         Discards(l)' \/ worker'[l] = "discarding" => l \in discards',
         Keeps(l)' => Keeps(l)
  PROVE  LaneOrder(l)'
<1>1. InOrder(l)' /\ (Complete(l)' <=> Complete(l))
  BY DEF LaneOrder, InOrder, Complete, Handed
<1> QED
  BY <1>1 DEF LaneOrder

\* Every step keeps the order of what was accepted, sent and discarded.
LEMMA OrderNext == LaneInv /\ OrderInv /\ [Next]_vars => OrderInv'
<1> SUFFICES ASSUME LaneInv, OrderInv, [Next]_vars, NEW l \in Lanes PROVE LaneOrder(l)'
  BY DEF OrderInv
<1>a. LaneTypes /\ LockHeld /\ WorkerPhase /\ LaneOrder(l)
  BY DEF LaneInv, OrderInv
<1>b. /\ queue[l] \in Seq(FrameType) /\ sent[l] \in Seq(FrameIds)
      /\ inflight[l] = <<>> \/ \E i \in FrameIds : inflight[l] = <<i>>
  BY <1>a DEF LaneTypes
<1>c. /\ Len(queue[l]) \in Nat /\ Len(sent[l]) \in Nat /\ Len(inflight[l]) \in Nat
      /\ accepted[l] \in Nat
  <2>1. accepted[l] \in 0 .. MaxPushes /\ MaxPushes \in Nat
    BY <1>a, SendLaneAssumption DEF LaneTypes
  <2> QED
    BY <1>b, <2>1
<1>1. ASSUME UNCHANGED <<queue[l], sent[l], inflight[l], accepted[l], stopping[l], drain[l],
                         discards>>,
             worker'[l] # worker[l] => /\ worker[l] \notin {"discarding", "exited"}
                                       /\ worker'[l] # "discarding"
      PROVE  LaneOrder(l)'
  <2>1. Discards(l)' <=> Discards(l)
    BY <1>1 DEF Discards
  <2> QED
    BY <1>a, <1>1, <2>1, OrderKept DEF LaneOrder, Keeps
<1>2. ASSUME NEW t \in Threads, PushAccept(t) PROVE LaneOrder(l)'
  <2>0. call[t].at = "accepting" /\ call[t].lane \in Lanes /\ call[t].len \in Lens
    BY <1>a, <1>2, AcceptingCall DEF PushAccept
  <2>1. UNCHANGED <<sent, inflight, stopping, drain, discards, worker>>
    BY <1>2 DEF PushAccept
  <2>2. CASE call[t].lane # l
    BY <1>1, <1>2, <1>a, <2>0, <2>1, <2>2 DEF PushAccept, LaneTypes
  <2>3. CASE call[t].lane = l
    <3>1. worker[l] \notin {"discarding", "exited"}
      BY <1>a, <2>0, <2>3 DEF LockHeld, WorkerPhase, Accepting
    <3>2. Complete(l)
      BY <1>a, <3>1 DEF LaneOrder, Keeps
    <3>. PICK f : f = [id |-> accepted[l] + 1, len |-> call[t].len]
      OBVIOUS
    <3>4. f.id = accepted[l] + 1
      OBVIOUS
    <3>5. queue'[l] = Append(queue[l], f) /\ accepted'[l] = accepted[l] + 1
      BY <1>a, <1>2, <2>3 DEF PushAccept, LaneTypes
    <3>6. /\ Len(queue'[l]) = Len(queue[l]) + 1
          /\ \A i \in 1 .. Len(queue[l]) : queue'[l][i] = queue[l][i]
          /\ queue'[l][Len(queue[l]) + 1] = f
      BY <1>b, <3>5
    <3>7. Handed(l)' = Handed(l) /\ Handed(l) \in Nat
      <4>1. Handed(l) \in Nat
        <5>1. \A i, j \in Nat : i + j \in Nat
          OBVIOUS
        <5> QED
          BY <1>c, <5>1, Zenon DEF Handed
      <4> QED
        BY <2>1, <4>1 DEF Handed
    <3>8. Complete(l)'
      <4>1. accepted'[l] = Handed(l)' + Len(queue'[l])
        <5>1. accepted[l] = Handed(l) + Len(queue[l])
          BY <3>2 DEF Complete
        <5>2. Handed(l) + (Len(queue[l]) + 1) = (Handed(l) + Len(queue[l])) + 1
          BY <1>c, <3>7
        <5> QED
          BY <3>5, <3>6, <3>7, <5>1, <5>2
      <4>2. ASSUME NEW i \in 1 .. Len(queue'[l]) PROVE queue'[l][i].id = Handed(l)' + i
        <5>1. CASE i = Len(queue[l]) + 1
          BY <1>c, <3>2, <3>4, <3>6, <3>7, <5>1 DEF Complete
        <5>2. CASE i # Len(queue[l]) + 1
          <6>1. i \in 1 .. Len(queue[l])
            BY <1>c, <3>6, <5>2
          <6> QED
            BY <3>2, <3>6, <3>7, <6>1 DEF Complete
        <5> QED
          BY <5>1, <5>2
      <4> QED
        BY <4>1, <4>2 DEF Complete
    <3>9. InOrder(l)' /\ (Discards(l)' <=> Discards(l))
      BY <1>a, <2>1 DEF LaneOrder, InOrder, Discards
    <3> QED
      BY <1>a, <2>1, <3>8, <3>9 DEF LaneOrder
  <2> QED
    BY <2>2, <2>3
<1>3. ASSUME NEW t \in Threads, NEW m \in Lanes, NEW d \in BOOLEAN, StopLatch(t, m, d)
      PROVE  LaneOrder(l)'
  <2>1. /\ UNCHANGED <<queue, sent, inflight, accepted, worker>>
        /\ discards \subseteq discards'
        /\ stopping' = [stopping EXCEPT ![m] = TRUE]
        /\ drain' = [drain EXCEPT ![m] = d]
        /\ ~d => m \in discards'
    BY <1>3 DEF StopLatch
  <2>2. Discards(l)' => l \in discards'
    BY <1>a, <2>1 DEF LaneTypes, Discards, LaneOrder
  <2> QED
    BY <1>a, <2>1, <2>2, OrderKept DEF LaneOrder, Keeps
<1>4. ASSUME NEW m \in Lanes, DiscardOne(m) PROVE LaneOrder(l)'
  <2>1. /\ UNCHANGED <<sent, inflight, accepted, stopping, drain, discards>>
        /\ worker[m] = "discarding"
        /\ queue' = [queue EXCEPT ![m] = Tail(@)]
        /\ worker' = [worker EXCEPT ![m] = IF Len(queue[m]) = 1 THEN "exited" ELSE @]
    BY <1>4 DEF DiscardOne, PopAndRelease
  <2>2. CASE m # l
    BY <1>1, <1>a, <2>1, <2>2 DEF LaneTypes
  <2>3. CASE m = l
    <3>1. l \in discards /\ worker'[l] \in {"discarding", "exited"}
      BY <1>a, <2>1, <2>3 DEF LaneTypes, LaneOrder
    <3>2. InOrder(l)' /\ ~Keeps(l)'
      BY <1>a, <2>1, <3>1 DEF LaneOrder, InOrder, Keeps
    <3> QED
      BY <2>1, <3>1, <3>2 DEF LaneOrder
  <2> QED
    BY <2>2, <2>3
<1>5. ASSUME NEW m \in Lanes, WorkerPops(m) PROVE LaneOrder(l)'
  <2>1. /\ UNCHANGED <<sent, accepted, stopping, drain, discards>>
        /\ worker[m] = "checking" /\ ~Discards(m) /\ queue[m] # <<>>
        /\ queue' = [queue EXCEPT ![m] = Tail(@)]
        /\ inflight' = [inflight EXCEPT ![m] = <<Head(queue[m]).id>>]
        /\ worker' = [worker EXCEPT ![m] = "sending"]
    BY <1>5 DEF WorkerPops, PopAndRelease
  <2>2. CASE m # l
    BY <1>1, <1>a, <2>1, <2>2 DEF LaneTypes
  <2>3. CASE m = l
    <3>1. Complete(l) /\ inflight[l] = <<>>
      BY <1>a, <2>1, <2>3 DEF LaneOrder, Keeps, WorkerPhase
    <3>2. /\ Len(queue[l]) >= 1
          /\ queue'[l] = Tail(queue[l]) /\ Len(queue'[l]) = Len(queue[l]) - 1
          /\ \A i \in 1 .. Len(queue'[l]) : queue'[l][i] = queue[l][i + 1]
          /\ Head(queue[l]) = queue[l][1]
      BY <1>a, <1>b, <2>1, <2>3 DEF LaneTypes
    <3>3. Handed(l) = Len(sent[l])
      BY <1>c, <3>1 DEF Handed
    <3>4. Head(queue[l]).id = Len(sent[l]) + 1
      <4>1. queue[l][1].id = Handed(l) + 1
        BY <1>c, <3>1, <3>2 DEF Complete
      <4> QED
        BY <3>2, <3>3, <4>1
    <3>5. inflight'[l] = <<Len(sent[l]) + 1>>
      BY <1>a, <2>1, <2>3, <3>4 DEF LaneTypes
    <3>6. Handed(l)' = Len(sent[l]) + 1
      BY <2>1, <3>5 DEF Handed
    <3>7. Complete(l)'
      <4>1. accepted'[l] = Handed(l)' + Len(queue'[l])
        <5>1. accepted[l] = Len(sent[l]) + Len(queue[l])
          BY <3>1, <3>3 DEF Complete
        <5>2. Len(sent[l]) + Len(queue[l]) = (Len(sent[l]) + 1) + (Len(queue[l]) - 1)
          <6>1. \A i, j \in Nat : i + j = (i + 1) + (j - 1)
            OBVIOUS
          <6> QED
            BY <1>c, <6>1, Zenon
        <5> QED
          BY <2>1, <3>2, <3>6, <5>1, <5>2
      <4>2. ASSUME NEW i \in 1 .. Len(queue'[l]) PROVE queue'[l][i].id = Handed(l)' + i
        <5>1. i + 1 \in 1 .. Len(queue[l])
          BY <1>c, <3>2
        <5>2. queue[l][i + 1].id = Handed(l) + (i + 1)
          BY <3>1, <5>1 DEF Complete
        <5>3. Len(sent[l]) + (i + 1) = (Len(sent[l]) + 1) + i
          <6>1. \A j, k \in Int : j + (k + 1) = (j + 1) + k
            OBVIOUS
          <6>2. Len(sent[l]) \in Int /\ i \in Int
            BY <1>c
          <6> QED
            BY <6>1, <6>2, Zenon
        <5> QED
          BY <3>2, <3>3, <3>6, <5>2, <5>3
      <4> QED
        BY <4>1, <4>2 DEF Complete
    <3>8. InOrder(l)'
      BY <1>a, <2>1, <3>5 DEF LaneOrder, InOrder
    <3>9. (Discards(l)' <=> Discards(l)) /\ worker'[l] # "discarding"
      BY <1>a, <2>1, <2>3 DEF LaneTypes, Discards
    <3> QED
      BY <1>a, <2>1, <3>7, <3>8, <3>9 DEF LaneOrder
  <2> QED
    BY <2>2, <2>3
<1>6. ASSUME NEW m \in Lanes, WorkerSends(m) PROVE LaneOrder(l)'
  <2>1. /\ UNCHANGED <<queue, accepted, stopping, drain, discards>>
        /\ worker[m] = "sending"
        /\ sent' = [sent EXCEPT ![m] = @ \o inflight[m]]
        /\ inflight' = [inflight EXCEPT ![m] = <<>>]
        /\ worker' = [worker EXCEPT ![m] = "checking"]
    BY <1>6 DEF WorkerSends
  <2>2. CASE m # l
    BY <1>1, <1>a, <2>1, <2>2 DEF LaneTypes
  <2>3. CASE m = l
    <3>1. inflight[l] # <<>> /\ inflight[l] = <<Len(sent[l]) + 1>>
      BY <1>a, <2>1, <2>3 DEF WorkerPhase, LaneOrder, InOrder
    <3>2. sent'[l] = sent[l] \o <<Len(sent[l]) + 1>> /\ inflight'[l] = <<>>
      BY <1>a, <2>1, <2>3, <3>1 DEF LaneTypes
    <3>3. /\ Len(sent'[l]) = Len(sent[l]) + 1
          /\ \A i \in 1 .. Len(sent[l]) : sent'[l][i] = sent[l][i]
          /\ sent'[l][Len(sent[l]) + 1] = Len(sent[l]) + 1
      BY <1>b, <3>2
    <3>4. InOrder(l)'
      <4>1. ASSUME NEW i \in 1 .. Len(sent'[l]) PROVE sent'[l][i] = i
        <5>1. i \in 1 .. Len(sent[l]) \/ i = Len(sent[l]) + 1
          BY <1>c, <3>3
        <5> QED
          BY <1>a, <3>3, <5>1 DEF LaneOrder, InOrder
      <4> QED
        BY <3>2, <4>1 DEF InOrder
    <3>5. Handed(l)' = Handed(l)
      BY <1>c, <3>1, <3>2, <3>3 DEF Handed
    <3>6. Complete(l)' <=> Complete(l)
      BY <2>1, <3>5 DEF Complete
    <3>7. /\ Discards(l)' <=> Discards(l)
          /\ worker'[l] # "discarding"
          /\ Keeps(l)
      BY <1>a, <2>1, <2>3 DEF LaneTypes, Discards, Keeps
    <3> QED
      BY <1>a, <2>1, <3>4, <3>6, <3>7 DEF LaneOrder
  <2> QED
    BY <2>2, <2>3
<1>7. ASSUME NEW m \in Lanes, WorkerExit(m) \/ WorkerDiscards(m) PROVE LaneOrder(l)'
  <2>1. /\ UNCHANGED <<queue, sent, inflight, accepted, stopping, drain, discards>>
        /\ worker[m] = "checking"
        /\ \/ worker' = [worker EXCEPT ![m] = "exited"]
           \/ worker' = [worker EXCEPT ![m] = "discarding"] /\ Discards(m)
    BY <1>7 DEF WorkerExit, WorkerDiscards
  <2>2. Discards(l)' <=> Discards(l)
    BY <2>1 DEF Discards
  <2>3. worker'[l] = worker[l] \/ m = l
    BY <1>a, <2>1 DEF LaneTypes
  <2>4. worker'[l] = "discarding" => l \in discards
    BY <1>a, <2>1, <2>3 DEF LaneTypes, LaneOrder
  <2>5. Keeps(l)' => Keeps(l)
    BY <2>1, <2>3 DEF Keeps
  <2> QED
    BY <1>a, <2>1, <2>2, <2>4, <2>5, OrderKept DEF LaneOrder
<1>8. ASSUME NEW m \in Lanes, WorkerWait(m) \/ SpuriousWakeup(m) PROVE LaneOrder(l)'
  BY <1>1, <1>8, <1>a DEF WorkerWait, SpuriousWakeup, LaneTypes
<1>9. ASSUME NEW t \in Threads, PushNotify(t) \/ StopNotify(t) PROVE LaneOrder(l)'
  <2>1. worker' = Notified(call[t].lane)
    BY <1>9 DEF PushNotify, StopNotify
  <2>2. worker'[l] # worker[l] => worker[l] = "waiting" /\ worker'[l] = "checking"
    BY <1>a, <2>1 DEF Notified, LaneTypes
  <2> QED
    BY <1>1, <1>9, <2>2 DEF PushNotify, StopNotify
<1>10. CASE UNCHANGED <<queue, sent, inflight, accepted, stopping, drain, discards, worker>>
  BY <1>1, <1>10
<1> QED
  BY <1>2, <1>3, <1>4, <1>5, <1>6, <1>7, <1>8, <1>9, <1>10
  DEF Next, Calls, Worker, vars, PushDrop, PushCheck, StopJoin

\* At first nothing was accepted.
LEMMA OrderInit == Init => OrderInv
<1> SUFFICES ASSUME Init, NEW l \in Lanes PROVE LaneOrder(l)
  BY DEF OrderInv
<1>1. /\ queue[l] = <<>> /\ sent[l] = <<>> /\ inflight[l] = <<>> /\ accepted[l] = 0
      /\ ~stopping[l] /\ worker[l] = "checking"
  BY DEF Init
<1>2. Handed(l) = 0
  BY <1>1 DEF Handed
<1>3. InOrder(l)
  BY <1>1 DEF InOrder
<1>4. Complete(l)
  BY <1>1, <1>2 DEF Complete
<1> QED
  BY <1>1, <1>3, <1>4 DEF LaneOrder, Discards

\* The order holds in every state of every behaviour.
LEMMA OrderInvariant == Spec => [](LaneInv /\ OrderInv)
<1>1. Init => LaneInv /\ OrderInv
  BY SendLaneInit, OrderInit
<1>2. LaneInv /\ OrderInv /\ [Next]_vars => LaneInv' /\ OrderInv'
  BY LaneInvNext, OrderNext
<1> QED
  BY <1>1, <1>2, PTL DEF Spec

\* The frames the sink got and the one on its way are 1, 2, 3 and so on.
LEMMA HandedOverInOrder ==
  ASSUME LaneInv, OrderInv, NEW l \in Lanes
  PROVE  /\ HandedOver(l) \in Seq(FrameIds) /\ Len(HandedOver(l)) = Handed(l)
         /\ \A i \in 1 .. Handed(l) : HandedOver(l)[i] = i
<1>1. /\ sent[l] \in Seq(FrameIds)
      /\ inflight[l] = <<>> \/ \E i \in FrameIds : inflight[l] = <<i>>
  BY DEF LaneInv, LaneTypes
<1>2. /\ \A i \in 1 .. Len(sent[l]) : sent[l][i] = i
      /\ inflight[l] # <<>> => inflight[l] = <<Len(sent[l]) + 1>>
  BY DEF OrderInv, LaneOrder, InOrder
<1>3. CASE inflight[l] = <<>>
  <2>1. HandedOver(l) = sent[l]
    BY <1>1, <1>3 DEF HandedOver
  <2>2. Handed(l) = Len(sent[l])
    BY <1>1, <1>3 DEF Handed
  <2> QED
    BY <1>1, <1>2, <2>1, <2>2
<1>4. CASE inflight[l] # <<>>
  <2>. PICK s \in Seq(FrameIds), n \in FrameIds :
         s = sent[l] /\ inflight[l] = <<n>> /\ n = Len(s) + 1
    BY <1>1, <1>2, <1>4
  <2>1. HandedOver(l) = s \o <<n>> /\ Handed(l) = Len(s) + 1
    BY DEF HandedOver, Handed
  <2>2. /\ s \o <<n>> \in Seq(FrameIds) /\ Len(s \o <<n>>) = Len(s) + 1
        /\ \A i \in 1 .. Len(s) : (s \o <<n>>)[i] = s[i]
        /\ (s \o <<n>>)[Len(s) + 1] = n
    OBVIOUS
  <2>3. ASSUME NEW i \in 1 .. Len(s) + 1 PROVE (s \o <<n>>)[i] = i
    <3>1. i \in 1 .. Len(s) \/ i = Len(s) + 1
      OBVIOUS
    <3> QED
      BY <1>2, <2>2, <3>1
  <2> QED
    BY <2>1, <2>2, <2>3
<1> QED
  BY <1>3, <1>4

\* run() under stop(): the sink gets the accepted frames in the order in which
\* push() accepted them, none twice and none left out, and unless stop(false)
\* is called those it did not get yet are still queued in that order.
THEOREM LanesAreFifo == Spec => []FifoUntilDiscarded
<1>1. LaneInv /\ OrderInv => FifoUntilDiscarded
  <2> SUFFICES ASSUME LaneInv, OrderInv, NEW l \in Lanes
               PROVE  /\ \A i \in DOMAIN HandedOver(l) : HandedOver(l)[i] = i
                      /\ l \notin discards =>
                           HandedOver(l) \o QueuedIds(l) = [i \in 1 .. accepted[l] |-> i]
    BY DEF FifoUntilDiscarded
  <2>. PICK h \in Seq(FrameIds) : h = HandedOver(l)
    BY HandedOverInOrder
  <2>1. Len(h) = Handed(l) /\ \A i \in 1 .. Len(h) : h[i] = i
    BY HandedOverInOrder
  <2>2. \A i \in DOMAIN h : h[i] = i
    BY <2>1
  <2>3. ASSUME l \notin discards
        PROVE  h \o QueuedIds(l) = [i \in 1 .. accepted[l] |-> i]
    <3>1. Complete(l)
      BY <2>3 DEF OrderInv, LaneOrder, Keeps
    <3>. PICK q \in Seq(FrameType) : q = queue[l]
      BY DEF LaneInv, LaneTypes
    <3>2. accepted[l] = Len(h) + Len(q) /\ \A i \in 1 .. Len(q) : q[i].id = Len(h) + i
      BY <2>1, <3>1 DEF Complete
    <3>3. QueuedIds(l) = [i \in 1 .. Len(q) |-> q[i].id]
      BY DEF QueuedIds
    <3>4. \A i \in 1 .. Len(q) : q[i].id \in FrameIds
      <4>1. \A f \in FrameType : f.id \in FrameIds
        BY DEF FrameType
      <4> QED
        BY <4>1
    <3>. PICK r \in Seq(FrameIds) : r = QueuedIds(l)
      BY <3>3, <3>4
    <3>5. Len(r) = Len(q) /\ \A i \in 1 .. Len(r) : r[i] = Len(h) + i
      BY <3>2, <3>3
    <3>6. /\ DOMAIN (h \o r) = 1 .. Len(h) + Len(r)
          /\ \A i \in 1 .. Len(h) + Len(r) :
               (h \o r)[i] = IF i <= Len(h) THEN h[i] ELSE r[i - Len(h)]
          /\ h \o r \in Seq(FrameIds)
      BY ConcatProperties
    <3>7. ASSUME NEW i \in 1 .. Len(h) + Len(r)
          PROVE  (IF i <= Len(h) THEN h[i] ELSE r[i - Len(h)]) = i
      <4>1. CASE i <= Len(h)
        BY <2>1, <4>1
      <4>2. CASE ~(i <= Len(h))
        <5>1. i - Len(h) \in 1 .. Len(r) /\ Len(h) + (i - Len(h)) = i
          BY <4>2
        <5> QED
          BY <3>5, <4>2, <5>1
      <4> QED
        BY <4>1, <4>2
    <3>8. h \o r = [i \in 1 .. Len(h) + Len(r) |-> i]
      <4>. PICK c \in Seq(FrameIds) : c = h \o r
        BY <3>6
      <4>1. c = [i \in DOMAIN c |-> c[i]]
        BY LenProperties, Zenon
      <4>2. DOMAIN c = 1 .. Len(h) + Len(r) /\ \A i \in 1 .. Len(h) + Len(r) : c[i] = i
        BY <3>6, <3>7
      <4> QED
        BY <4>1, <4>2
    <3> QED
      BY <3>2, <3>5, <3>8
  <2> QED
    BY <2>2, <2>3
<1> QED
  BY <1>1, OrderInvariant, PTL

\* The worker ends with nothing queued and nothing in its hands, and when only
\* stop(true) was called every accepted frame had been sent.
THEOREM LanesLeaveNothing == Spec => []ExitLeavesNothing
<1>1. LaneInv /\ OrderInv => ExitLeavesNothing
  <2> SUFFICES ASSUME LaneInv, OrderInv, NEW l \in Lanes, worker[l] = "exited"
               PROVE  /\ queue[l] = <<>> /\ inflight[l] = <<>>
                      /\ l \notin discards => Len(sent[l]) = accepted[l]
    BY DEF ExitLeavesNothing
  <2>1. queue[l] = <<>> /\ inflight[l] = <<>>
    BY DEF LaneInv, WorkerPhase
  <2>2. ASSUME l \notin discards PROVE Len(sent[l]) = accepted[l]
    <3>1. accepted[l] = (Len(sent[l]) + Len(inflight[l])) + Len(queue[l])
      BY <2>2 DEF OrderInv, LaneOrder, Keeps, Complete, Handed
    <3>2. Len(sent[l]) \in Nat /\ Len(inflight[l]) = 0 /\ Len(queue[l]) = 0
      BY <2>1 DEF LaneInv, LaneTypes
    <3> QED
      BY <3>1, <3>2
  <2> QED
    BY <2>1, <2>2
<1> QED
  BY <1>1, OrderInvariant, PTL
-----------------------------------------------------------------------------
(***************************************************************************)
(* The lanes implement LaneFifo.  A frame is pending from PushAccept until  *)
(* the sink is called with it: popping it moves it from the queue into the  *)
(* worker's hands and changes nothing that LaneFifo sees.                   *)
(***************************************************************************)
Ids(q) == [i \in DOMAIN q |-> q[i].id]

\* The ids of a queue, frame by frame.
LEMMA IdsOfQueue ==
  ASSUME NEW q \in Seq(FrameType)
  PROVE  /\ Ids(q) \in Seq(FrameIds) /\ Len(Ids(q)) = Len(q)
         /\ \A i \in 1 .. Len(q) : Ids(q)[i] = q[i].id
<1>1. Len(q) \in Nat /\ DOMAIN q = 1 .. Len(q)
  OBVIOUS
<1>2. \A i \in 1 .. Len(q) : q[i].id \in FrameIds
  <2>1. \A i \in 1 .. Len(q) : q[i] \in FrameType
    OBVIOUS
  <2> QED
    BY <2>1 DEF FrameType
<1>3. Ids(q) = [i \in 1 .. Len(q) |-> q[i].id]
  BY <1>1 DEF Ids
<1>4. Ids(q) \in Seq(FrameIds)
  BY <1>1, <1>2, <1>3
<1> QED
  BY <1>1, <1>3, <1>4

\* A frame pushed at the end.
LEMMA IdsOfAppend ==
  ASSUME NEW q \in Seq(FrameType), NEW f \in FrameType
  PROVE  Ids(Append(q, f)) = Append(Ids(q), f.id)
<1>1. f.id \in FrameIds /\ Append(q, f) \in Seq(FrameType)
  BY DEF FrameType
<1>2. /\ Len(Append(q, f)) = Len(q) + 1 /\ Append(q, f)[Len(q) + 1] = f
      /\ \A i \in 1 .. Len(q) : Append(q, f)[i] = q[i]
  OBVIOUS
<1>a. PICK a \in Seq(FrameIds) : a = Ids(q)
  BY IdsOfQueue
<1>b. PICK b \in Seq(FrameIds) : b = Ids(Append(q, f))
  BY <1>1, IdsOfQueue
<1>3. Len(a) = Len(q) /\ \A i \in 1 .. Len(q) : a[i] = q[i].id
  BY <1>a, IdsOfQueue
<1>4. Len(b) = Len(q) + 1 /\ \A i \in 1 .. (Len(q) + 1) : b[i] = Append(q, f)[i].id
  BY <1>1, <1>2, <1>b, IdsOfQueue
<1>5. \A i \in 1 .. Len(q) : b[i] = a[i]
  BY <1>2, <1>3, <1>4
<1>6. b[Len(q) + 1] = f.id
  BY <1>2, <1>4
<1>c. PICK c \in Seq(FrameIds) : c = Append(a, f.id)
  BY <1>1, AppendProperties
<1>7. /\ Len(c) = Len(q) + 1 /\ c[Len(q) + 1] = f.id
      /\ \A i \in 1 .. Len(q) : c[i] = a[i]
  BY <1>1, <1>3, <1>c
<1>8. Len(q) \in Nat
  OBVIOUS
<1>9. \A i \in 1 .. Len(b) : b[i] = c[i]
  BY <1>4, <1>5, <1>6, <1>7, <1>8
<1>10. b = c
  BY <1>4, <1>7, <1>9, SeqEqual
<1> QED
  BY <1>10, <1>a, <1>b, <1>c

\* A frame taken from the front.
LEMMA IdsOfTail ==
  ASSUME NEW q \in Seq(FrameType), q # <<>>
  PROVE  /\ Ids(Tail(q)) = Tail(Ids(q)) /\ Head(Ids(q)) = Head(q).id
         /\ Ids(q) # <<>> /\ Head(q).id \in FrameIds
<1>1. /\ Tail(q) \in Seq(FrameType) /\ Len(Tail(q)) = Len(q) - 1 /\ Len(q) \in Nat /\ Len(q) >= 1
      /\ \A i \in 1 .. (Len(q) - 1) : Tail(q)[i] = q[i + 1]
      /\ Head(q) = q[1] /\ q[1] \in FrameType
  OBVIOUS
<1>a. PICK a \in Seq(FrameIds) : a = Ids(q)
  BY IdsOfQueue
<1>b. PICK b \in Seq(FrameIds) : b = Ids(Tail(q))
  BY <1>1, IdsOfQueue
<1>2. Len(a) = Len(q) /\ \A i \in 1 .. Len(q) : a[i] = q[i].id
  BY <1>a, IdsOfQueue
<1>3. Len(b) = Len(q) - 1 /\ \A i \in 1 .. (Len(q) - 1) : b[i] = Tail(q)[i].id
  BY <1>1, <1>b, IdsOfQueue
<1>4. a # <<>>
  BY <1>1, <1>2, EmptySeq
<1>c. PICK c \in Seq(FrameIds) : c = Tail(a)
  BY <1>4, HeadTailProperties
<1>5. Len(c) = Len(q) - 1 /\ \A i \in 1 .. (Len(q) - 1) : c[i] = a[i + 1]
  BY <1>2, <1>4, <1>c
<1>6. \A i \in 1 .. Len(b) : b[i] = c[i]
  <2> SUFFICES ASSUME NEW i \in 1 .. (Len(q) - 1) PROVE b[i] = c[i]
    BY <1>3
  <2>1. i + 1 \in 1 .. Len(q)
    BY <1>1
  <2>2. b[i] = q[i + 1].id /\ c[i] = q[i + 1].id
    BY <1>1, <1>2, <1>3, <1>5, <2>1
  <2> QED
    BY <2>2
<1>7. b = c
  BY <1>3, <1>5, <1>6, SeqEqual
<1>8. Head(a) = a[1] /\ a[1] = q[1].id
  BY <1>1, <1>2, <1>4
<1> QED
  BY <1>1, <1>4, <1>7, <1>8, <1>a, <1>b, <1>c DEF FrameType

\* A sequence behind one more element, and a sequence taken apart.
LEMMA HeadTailOfConcat ==
  ASSUME NEW S, NEW n \in S, NEW a \in Seq(S)
  PROVE  <<n>> \o a # <<>> /\ Head(<<n>> \o a) = n /\ Tail(<<n>> \o a) = a
<1>0. <<n>> \in Seq(S)
  OBVIOUS
<1>a. PICK b \in Seq(S) : b = <<n>> \o a
  BY <1>0, ConcatProperties
<1>1. /\ Len(b) = 1 + Len(a) /\ Len(a) \in Nat /\ b[1] = n
      /\ \A i \in 1 .. Len(a) : b[i + 1] = a[i]
  BY <1>a
<1>2. b # <<>>
  BY <1>1, EmptySeq
<1>3. Head(b) = b[1]
  BY <1>2
<1>b. PICK c \in Seq(S) : c = Tail(b)
  BY <1>2, HeadTailProperties
<1>4. Len(c) = Len(a) /\ \A i \in 1 .. Len(a) : c[i] = b[i + 1]
  BY <1>1, <1>2, <1>b
<1>5. c = a
  BY <1>1, <1>4, SeqEqual
<1> QED
  BY <1>1, <1>2, <1>3, <1>5, <1>a, <1>b

\* The first element and the rest make up the sequence.
LEMMA HeadThenTail ==
  ASSUME NEW S, NEW a \in Seq(S), a # <<>>
  PROVE  <<Head(a)>> \o Tail(a) = a
<1>1. /\ Len(a) \in Nat /\ Len(a) >= 1 /\ Head(a) = a[1] /\ Head(a) \in S
      /\ Tail(a) \in Seq(S) /\ Len(Tail(a)) = Len(a) - 1
      /\ \A i \in 1 .. (Len(a) - 1) : Tail(a)[i] = a[i + 1]
  OBVIOUS
<1>a. PICK t \in Seq(S) : t = Tail(a)
  BY <1>1
<1>b. PICK n \in S : n = Head(a)
  BY <1>1
<1>0. <<n>> \in Seq(S)
  OBVIOUS
<1>c. PICK b \in Seq(S) : b = <<n>> \o t
  BY <1>0, ConcatProperties
<1>2. /\ Len(b) = 1 + Len(t) /\ b[1] = n
      /\ \A i \in 1 .. Len(t) : b[i + 1] = t[i]
  BY <1>c
<1>3. Len(t) = Len(a) - 1 /\ \A i \in 1 .. (Len(a) - 1) : t[i] = a[i + 1]
  BY <1>1, <1>a
<1>4. Len(b) = Len(a)
  BY <1>1, <1>2, <1>3
<1>5. ASSUME NEW i \in 1 .. Len(a) PROVE b[i] = a[i]
  <2>1. CASE i = 1
    BY <1>1, <1>2, <1>b, <2>1
  <2>2. CASE i # 1
    <3>1. i - 1 \in 1 .. (Len(a) - 1) /\ (i - 1) + 1 = i
      BY <1>1, <2>2
    <3>2. b[(i - 1) + 1] = t[i - 1] /\ t[i - 1] = a[(i - 1) + 1]
      BY <1>2, <1>3, <3>1
    <3> QED
      BY <3>1, <3>2
  <2> QED
    BY <2>1, <2>2
<1>6. b = a
  BY <1>4, <1>5, SeqEqual
<1> QED
  BY <1>6, <1>a, <1>b, <1>c

\* How the pending frames of one lane change when the others are left alone.
LEMMA PendingOfLane ==
  ASSUME NEW m \in Lanes, NEW p, inflight'[m] \o Ids(queue'[m]) = p,
         \A l \in Lanes \ {m} : inflight'[l] = inflight[l] /\ queue'[l] = queue[l]
  PROVE  fifoPending' = [fifoPending EXCEPT ![m] = p]
<1>1. /\ fifoPending = [l \in Lanes |-> inflight[l] \o Ids(queue[l])]
      /\ fifoPending' = [l \in Lanes |-> inflight'[l] \o Ids(queue'[l])]
  BY DEF fifoPending, QueuedIds, Ids
<1> DEFINE old(l) == inflight[l] \o Ids(queue[l])
           new(l) == inflight'[l] \o Ids(queue'[l])
<1>2. \A l \in Lanes \ {m} : new(l) = old(l)
  OBVIOUS
<1>3. new(m) = p
  OBVIOUS
<1> HIDE DEF old, new
<1>4. fifoPending = [l \in Lanes |-> old(l)] /\ fifoPending' = [l \in Lanes |-> new(l)]
  BY <1>1 DEF old, new
<1> QED
  BY <1>2, <1>3, <1>4

\* What is pending in a lane: the frame in the worker's hands, then the queue.
LEMMA PendingProperty ==
  ASSUME NEW l \in Lanes
  PROVE  fifoPending[l] = inflight[l] \o Ids(queue[l])
BY DEF fifoPending, QueuedIds, Ids

\* push() accepts only into an open lane, at its end.
LEMMA PushAcceptRefines ==
  ASSUME LaneInv, NEW t \in Threads, PushAccept(t)
  PROVE  \E l \in Lanes : L!Accept(l)
<1>a. PICK m \in Lanes, len \in Lens :
        call[t].at = "accepting" /\ call[t].lane = m /\ call[t].len = len
  BY AcceptingCall DEF LaneInv, PushAccept
<1>b. PICK f : f = [id |-> accepted[m] + 1, len |-> len]
  OBVIOUS
<1>1. /\ queue' = [queue EXCEPT ![m] = Append(@, f)]
      /\ accepted' = [accepted EXCEPT ![m] = @ + 1]
      /\ UNCHANGED <<stopping, worker, inflight, sent, discards>>
  BY <1>a, <1>b DEF PushAccept
<1>2. /\ queue[m] \in Seq(FrameType) /\ queue \in [Lanes -> Seq(FrameType)]
      /\ inflight[m] = <<>> \/ \E i \in FrameIds : inflight[m] = <<i>>
      /\ accepted[m] \in Nat /\ accepted[m] < pushes /\ pushes <= MaxPushes
      /\ pushes \in Nat /\ MaxPushes \in Nat
  <2>1. Accepting(t, m)
    BY <1>a DEF Accepting
  <2>2. accepted[m] < pushes
    BY <2>1 DEF LaneInv, LockHeld
  <2>3. accepted[m] \in 0 .. MaxPushes /\ pushes \in 0 .. MaxPushes /\ MaxPushes \in Nat
    BY SendLaneAssumption DEF LaneInv, LaneTypes
  <2>4. /\ queue[m] \in Seq(FrameType) /\ queue \in [Lanes -> Seq(FrameType)]
        /\ inflight[m] = <<>> \/ \E i \in FrameIds : inflight[m] = <<i>>
    BY DEF LaneInv, LaneTypes
  <2> QED
    BY <2>2, <2>3, <2>4
<1>3. accepted[m] + 1 \in FrameIds
  BY <1>2 DEF FrameIds
<1>4. f \in FrameType /\ f.id = accepted[m] + 1
  BY <1>3, <1>b DEF FrameType
<1>c. PICK a \in Seq(FrameIds) : a = Ids(queue[m])
  BY <1>2, IdsOfQueue
<1>d. PICK h \in Seq(FrameIds) : h = inflight[m]
  <2>1. <<>> \in Seq(FrameIds) /\ \A i \in FrameIds : <<i>> \in Seq(FrameIds)
    OBVIOUS
  <2>2. inflight[m] \in Seq(FrameIds)
    BY <1>2, <2>1
  <2> QED
    BY <2>2
<1>e. PICK n \in FrameIds : n = accepted[m] + 1
  BY <1>3
<1>5. Ids(queue'[m]) = Append(a, n)
  <2>1. queue'[m] = Append(queue[m], f)
    BY <1>1, <1>2
  <2> QED
    BY <1>2, <1>4, <1>c, <1>e, <2>1, IdsOfAppend
<1>6. h \o Append(a, n) = Append(h \o a, n)
  <2>1. <<n>> \in Seq(FrameIds) /\ h \o a \in Seq(FrameIds)
    OBVIOUS
  <2>2. Append(a, n) = a \o <<n>> /\ Append(h \o a, n) = (h \o a) \o <<n>>
    BY <2>1, AppendIsConcat
  <2>3. (h \o a) \o <<n>> = h \o (a \o <<n>>)
    BY <2>1, ConcatAssociative
  <2> QED
    BY <2>2, <2>3
<1>7. inflight'[m] \o Ids(queue'[m]) = Append(fifoPending[m], n)
  BY <1>1, <1>5, <1>6, <1>c, <1>d, PendingProperty
<1>8. \A l \in Lanes \ {m} : inflight'[l] = inflight[l] /\ queue'[l] = queue[l]
  BY <1>1, <1>2
<1>9. fifoPending' = [fifoPending EXCEPT ![m] = Append(fifoPending[m], n)]
  BY <1>7, <1>8, PendingOfLane
<1>10. fifoPending' = [fifoPending EXCEPT ![m] = Append(@, accepted[m] + 1)]
  BY <1>9, <1>e
<1>11. fifoPhase[m] = "open" /\ fifoPhase' = fifoPhase
  <2>1. worker[m] \notin {"discarding", "exited"} /\ ~stopping[m]
    BY <1>a DEF LaneInv, LockHeld, WorkerPhase, Accepting
  <2> QED
    BY <1>1, <2>1 DEF fifoPhase
<1>12. L!Accept(m)
  BY <1>1, <1>10, <1>11 DEF L!Accept
<1> QED
  BY <1>12

\* The sink gets the first pending frame of a lane that has not ended.
LEMMA WorkerSendsRefines ==
  ASSUME LaneInv, NEW m \in Lanes, WorkerSends(m)
  PROVE  L!Deliver(m)
<1>1. /\ worker[m] = "sending" /\ worker' = [worker EXCEPT ![m] = "checking"]
      /\ sent' = [sent EXCEPT ![m] = @ \o inflight[m]]
      /\ inflight' = [inflight EXCEPT ![m] = <<>>]
      /\ UNCHANGED <<queue, stopping, accepted, discards>>
  BY DEF WorkerSends
<1>2. /\ queue[m] \in Seq(FrameType) /\ sent[m] \in Seq(FrameIds)
      /\ inflight \in [Lanes -> {<<>>} \cup {<<i>> : i \in FrameIds}]
      /\ sent \in [Lanes -> Seq(FrameIds)] /\ worker \in [Lanes -> States]
      /\ inflight[m] # <<>>
  BY <1>1 DEF LaneInv, LaneTypes, WorkerPhase
<1>a. PICK n \in FrameIds : inflight[m] = <<n>>
  BY <1>2
<1>b. PICK a \in Seq(FrameIds) : a = Ids(queue[m])
  BY <1>2, IdsOfQueue
<1>c. PICK p : p = fifoPending[m]
  OBVIOUS
<1>3. p = <<n>> \o a
  BY <1>a, <1>b, <1>c, PendingProperty
<1>4. <<n>> \o a # <<>> /\ Head(<<n>> \o a) = n /\ Tail(<<n>> \o a) = a
  BY HeadTailOfConcat
<1>5. inflight'[m] \o Ids(queue'[m]) = Tail(p)
  <2>1. inflight'[m] = <<>> /\ Ids(queue'[m]) = a
    BY <1>1, <1>2, <1>b
  <2>2. <<>> \o a = a
    BY ConcatEmptySeq
  <2> QED
    BY <1>3, <1>4, <2>1, <2>2
<1>6. \A l \in Lanes \ {m} : inflight'[l] = inflight[l] /\ queue'[l] = queue[l]
  BY <1>1, <1>2
<1>7. fifoPending' = [fifoPending EXCEPT ![m] = Tail(p)]
  BY <1>5, <1>6, PendingOfLane
<1>8. fifoPending' = [fifoPending EXCEPT ![m] = Tail(@)]
  BY <1>7, <1>c
<1>9. sent[m] \o inflight[m] = Append(sent[m], n)
  BY <1>2, <1>a, AppendIsConcat
<1>10. sent' = [sent EXCEPT ![m] = Append(@, Head(fifoPending[m]))]
  <2>1. Head(fifoPending[m]) = n
    BY <1>3, <1>4, <1>c
  <2>2. sent' = [sent EXCEPT ![m] = Append(sent[m], n)]
    BY <1>1, <1>9
  <2> QED
    BY <2>1, <2>2
<1>11. fifoPending[m] # <<>>
  BY <1>3, <1>4, <1>c
<1>12. fifoPhase[m] # "ended" /\ fifoPhase' = fifoPhase
  BY <1>1, <1>2 DEF fifoPhase
<1> QED
  BY <1>1, <1>8, <1>10, <1>11, <1>12 DEF L!Deliver

\* Popping a frame moves it into the worker's hands.
LEMMA WorkerPopsRefines ==
  ASSUME LaneInv, NEW m \in Lanes, WorkerPops(m)
  PROVE  fifoPending' = fifoPending /\ fifoPhase' = fifoPhase
<1>1. /\ worker[m] = "checking" /\ worker' = [worker EXCEPT ![m] = "sending"]
      /\ queue[m] # <<>> /\ queue' = [queue EXCEPT ![m] = Tail(@)]
      /\ inflight' = [inflight EXCEPT ![m] = <<Head(queue[m]).id>>]
      /\ UNCHANGED stopping
  BY DEF WorkerPops, PopAndRelease
<1>2. /\ queue[m] \in Seq(FrameType) /\ queue \in [Lanes -> Seq(FrameType)]
      /\ inflight \in [Lanes -> {<<>>} \cup {<<i>> : i \in FrameIds}]
      /\ worker \in [Lanes -> States] /\ inflight[m] = <<>>
  BY <1>1 DEF LaneInv, LaneTypes, WorkerPhase
<1>a. PICK a \in Seq(FrameIds) : a = Ids(queue[m])
  BY <1>2, IdsOfQueue
<1>3. a # <<>> /\ Ids(Tail(queue[m])) = Tail(a) /\ Head(queue[m]).id = Head(a)
  BY <1>1, <1>2, <1>a, IdsOfTail
<1>4. inflight'[m] = <<Head(a)>> /\ Ids(queue'[m]) = Tail(a)
  BY <1>1, <1>2, <1>3
<1>5. <<Head(a)>> \o Tail(a) = a /\ <<>> \o a = a
  BY <1>3, HeadTailProperties, HeadThenTail, ConcatEmptySeq
<1>6. fifoPending[m] = a
  BY <1>2, <1>5, <1>a, PendingProperty
<1>7. inflight'[m] \o Ids(queue'[m]) = fifoPending[m]
  BY <1>4, <1>5, <1>6
<1>8. \A l \in Lanes \ {m} : inflight'[l] = inflight[l] /\ queue'[l] = queue[l]
  BY <1>1, <1>2
<1>9. fifoPending' = [fifoPending EXCEPT ![m] = fifoPending[m]]
  BY <1>7, <1>8, PendingOfLane
<1>10. fifoPending' = fifoPending
  BY <1>9 DEF fifoPending
<1> QED
  BY <1>1, <1>2, <1>10 DEF fifoPhase

\* A worker that discards has ended its lane and gives up its frames one by one.
LEMMA DiscardOneRefines ==
  ASSUME LaneInv, NEW m \in Lanes, DiscardOne(m)
  PROVE  L!GiveUp(m)
<1>1. /\ worker[m] = "discarding"
      /\ worker' = [worker EXCEPT ![m] = IF Len(queue[m]) = 1 THEN "exited" ELSE @]
      /\ queue' = [queue EXCEPT ![m] = Tail(@)]
      /\ UNCHANGED <<inflight, sent, stopping, accepted, discards>>
  BY DEF DiscardOne, PopAndRelease
<1>2. /\ queue[m] \in Seq(FrameType) /\ queue \in [Lanes -> Seq(FrameType)]
      /\ worker \in [Lanes -> States] /\ inflight[m] = <<>> /\ queue[m] # <<>>
  BY <1>1 DEF LaneInv, LaneTypes, WorkerPhase
<1>a. PICK a \in Seq(FrameIds) : a = Ids(queue[m])
  BY <1>2, IdsOfQueue
<1>3. a # <<>> /\ Ids(Tail(queue[m])) = Tail(a)
  BY <1>2, <1>a, IdsOfTail
<1>4. Tail(a) \in Seq(FrameIds)
  BY <1>3, HeadTailProperties
<1>5. <<>> \o a = a /\ <<>> \o Tail(a) = Tail(a)
  BY <1>4, ConcatEmptySeq
<1>6. fifoPending[m] = a
  BY <1>2, <1>5, <1>a, PendingProperty
<1>7. inflight'[m] \o Ids(queue'[m]) = Tail(a)
  BY <1>1, <1>2, <1>3, <1>5
<1>8. \A l \in Lanes \ {m} : inflight'[l] = inflight[l] /\ queue'[l] = queue[l]
  BY <1>1, <1>2
<1>9. fifoPending' = [fifoPending EXCEPT ![m] = Tail(a)]
  BY <1>7, <1>8, PendingOfLane
<1>10. fifoPending' = [fifoPending EXCEPT ![m] = Tail(@)]
  BY <1>6, <1>9
<1>11. fifoPhase[m] = "ended" /\ fifoPhase' = fifoPhase
  BY <1>1, <1>2 DEF fifoPhase
<1> QED
  BY <1>1, <1>3, <1>6, <1>10, <1>11 DEF L!GiveUp

\* stop() closes the lane.
LEMMA StopLatchRefines ==
  ASSUME LaneInv, NEW t \in Threads, NEW m \in Lanes, NEW d \in BOOLEAN, StopLatch(t, m, d)
  PROVE  L!Close(m)
<1>1. /\ stopping' = [stopping EXCEPT ![m] = TRUE]
      /\ discards' = discards \/ discards' = discards \cup {m}
      /\ UNCHANGED <<queue, worker, inflight, sent, accepted>>
  BY DEF StopLatch
<1>2. /\ stopping \in [Lanes -> BOOLEAN]
      /\ worker[m] \in {"discarding", "exited"} => stopping[m]
  BY DEF LaneInv, LaneTypes, WorkerPhase
<1>a. PICK x : x = IF fifoPhase[m] = "open" THEN "closed" ELSE fifoPhase[m]
  OBVIOUS
<1>3. fifoPhase' = [fifoPhase EXCEPT ![m] = IF @ = "open" THEN "closed" ELSE @]
  <2>1. fifoPhase'[m] = x
    <3>1. stopping'[m] = TRUE /\ worker'[m] = worker[m]
      BY <1>1, <1>2
    <3>2. CASE worker[m] \in {"discarding", "exited"}
      BY <1>a, <3>1, <3>2 DEF fifoPhase
    <3>3. CASE worker[m] \notin {"discarding", "exited"} /\ stopping[m]
      BY <1>a, <3>1, <3>3 DEF fifoPhase
    <3>4. CASE worker[m] \notin {"discarding", "exited"} /\ ~stopping[m]
      BY <1>a, <3>1, <3>4 DEF fifoPhase
    <3> QED
      BY <3>2, <3>3, <3>4
  <2>2. \A l \in Lanes \ {m} : fifoPhase'[l] = fifoPhase[l]
    BY <1>1, <1>2 DEF fifoPhase
  <2>3. /\ fifoPhase = [l \in Lanes |-> fifoPhase[l]]
        /\ fifoPhase' = [l \in Lanes |-> fifoPhase'[l]]
    BY DEF fifoPhase
  <2>4. fifoPhase' = [fifoPhase EXCEPT ![m] = x]
    BY <2>1, <2>2, <2>3
  <2> QED
    BY <1>a, <2>4
<1>4. fifoPending' = fifoPending
  BY <1>1 DEF fifoPending, QueuedIds
<1> QED
  BY <1>1, <1>3, <1>4 DEF L!Close

\* The worker leaves its loop: nothing is pending, or stop(false) was called.
LEMMA WorkerEndsRefines ==
  ASSUME LaneInv, OrderInv, NEW m \in Lanes, WorkerExit(m) \/ WorkerDiscards(m)
  PROVE  L!End(m)
<1>1. /\ worker[m] = "checking" /\ stopping[m]
      /\ queue[m] = <<>> \/ Discards(m)
      /\ \/ worker' = [worker EXCEPT ![m] = "exited"]
         \/ worker' = [worker EXCEPT ![m] = "discarding"]
      /\ UNCHANGED <<queue, stopping, inflight, sent, accepted, discards>>
  BY DEF WorkerExit, WorkerDiscards, Discards
<1>2. worker \in [Lanes -> States] /\ inflight[m] = <<>> /\ (Discards(m) => m \in discards)
  BY <1>1 DEF LaneInv, LaneTypes, WorkerPhase, OrderInv, LaneOrder
<1>3. queue[m] = <<>> => fifoPending[m] = <<>>
  <2> SUFFICES ASSUME queue[m] = <<>> PROVE inflight[m] \o Ids(queue[m]) = <<>>
    BY PendingProperty
  <2>1. Ids(queue[m]) = <<>>
    BY DEF Ids
  <2> QED
    BY <1>2, <2>1
<1>4. fifoPhase[m] = "closed" /\ fifoPhase' = [fifoPhase EXCEPT ![m] = "ended"]
  BY <1>1, <1>2 DEF fifoPhase
<1>5. fifoPending' = fifoPending
  BY <1>1 DEF fifoPending, QueuedIds
<1> QED
  BY <1>1, <1>2, <1>3, <1>4, <1>5 DEF L!End

\* The lanes of a transport implement LaneFifo: every step of a thread or a
\* worker is one step of one lane's FIFO, or none that it can see.
THEOREM LanesImplementFifo == Spec => FifoRefinement
<1>1. Init => L!FifoInit
  <2> SUFFICES ASSUME Init PROVE L!FifoInit
    OBVIOUS
  <2>1. fifoPending = [l \in Lanes |-> <<>>]
    <3>1. \A l \in Lanes : inflight[l] \o QueuedIds(l) = <<>>
      <4>1. \A l \in Lanes : inflight[l] = <<>> /\ queue[l] = <<>>
        BY DEF Init
      <4>2. \A l \in Lanes : QueuedIds(l) = <<>>
        BY <4>1 DEF QueuedIds
      <4> QED
        BY <4>1, <4>2
    <3> QED
      BY <3>1 DEF fifoPending
  <2>2. fifoPhase = [l \in Lanes |-> "open"]
    BY DEF Init, fifoPhase
  <2> QED
    BY <2>1, <2>2 DEF Init, L!FifoInit
<1>2. LaneInv /\ OrderInv /\ [Next]_vars => [L!FifoNext]_(L!fifoVars)
  <2> SUFFICES ASSUME LaneInv, OrderInv, [Next]_vars
               PROVE  L!FifoNext \/ UNCHANGED L!fifoVars
    OBVIOUS
  <2>1. ASSUME NEW t \in Threads, PushAccept(t) PROVE L!FifoNext
    BY <2>1, PushAcceptRefines DEF L!FifoNext
  <2>2. ASSUME NEW m \in Lanes, WorkerSends(m) PROVE L!FifoNext
    BY <2>2, WorkerSendsRefines DEF L!FifoNext
  <2>3. ASSUME NEW m \in Lanes, WorkerPops(m) PROVE UNCHANGED L!fifoVars
    BY <2>3, WorkerPopsRefines DEF L!fifoVars, WorkerPops
  <2>4. ASSUME NEW m \in Lanes, DiscardOne(m) PROVE L!FifoNext
    BY <2>4, DiscardOneRefines DEF L!FifoNext
  <2>5. ASSUME NEW t \in Threads, NEW m \in Lanes, NEW d \in BOOLEAN, StopLatch(t, m, d)
        PROVE  L!FifoNext
    BY <2>5, StopLatchRefines DEF L!FifoNext
  <2>6. ASSUME NEW m \in Lanes, WorkerExit(m) \/ WorkerDiscards(m) PROVE L!FifoNext
    BY <2>6, WorkerEndsRefines DEF L!FifoNext
  <2>7. ASSUME UNCHANGED <<queue, inflight, sent, accepted, stopping, discards>>,
               \A l \in Lanes : worker'[l] # worker[l] =>
                 {worker[l], worker'[l]} \cap {"discarding", "exited"} = {}
        PROVE  UNCHANGED L!fifoVars
    <3>1. fifoPending' = fifoPending
      BY <2>7 DEF fifoPending, QueuedIds
    <3>2. fifoPhase' = fifoPhase
      BY <2>7 DEF fifoPhase
    <3> QED
      BY <2>7, <3>1, <3>2 DEF L!fifoVars
  <2>8. ASSUME NEW m \in Lanes, WorkerWait(m) \/ SpuriousWakeup(m)
        PROVE  UNCHANGED L!fifoVars
    <3>1. \A l \in Lanes : worker'[l] # worker[l] =>
            {worker[l], worker'[l]} \cap {"discarding", "exited"} = {}
      BY <2>8 DEF WorkerWait, SpuriousWakeup, LaneInv, LaneTypes
    <3> QED
      BY <2>7, <2>8, <3>1 DEF WorkerWait, SpuriousWakeup
  <2>9. ASSUME NEW t \in Threads, PushNotify(t) \/ StopNotify(t)
        PROVE  UNCHANGED L!fifoVars
    <3>1. worker' = Notified(call[t].lane)
      BY <2>9 DEF PushNotify, StopNotify
    <3>2. \A l \in Lanes : worker'[l] # worker[l] =>
            {worker[l], worker'[l]} \cap {"discarding", "exited"} = {}
      BY <3>1 DEF Notified, LaneInv, LaneTypes
    <3> QED
      BY <2>7, <2>9, <3>2 DEF PushNotify, StopNotify
  <2>10. CASE UNCHANGED <<queue, inflight, sent, accepted, stopping, discards, worker>>
    BY <2>7, <2>10
  <2> QED
    BY <2>1, <2>2, <2>3, <2>4, <2>5, <2>6, <2>8, <2>9, <2>10
    DEF Next, Calls, Worker, vars, PushDrop, PushCheck, StopJoin
<1> QED
  BY <1>1, <1>2, OrderInvariant, PTL DEF Spec, FifoRefinement, L!FifoSpec
=============================================================================
