--------------------------- MODULE DiscoveryProofs ---------------------------
(***************************************************************************)
(* Proofs about Discovery for every set of ports and every bound: the state *)
(* is well typed, no view of a participant goes back to an earlier          *)
(* snapshot, and a matched count is right once nobody is about to           *)
(* recompute it.                                                            *)
(***************************************************************************)
EXTENDS Discovery, FiniteSetTheorems, TLAPS

RecvStates ==
  {Idle, Recomputing} \cup [at : {"up"}, peer : Ports] \cup [at : {"frame"}, frame : Frames]
CallStates == {Idle, Recomputing}
AnnouncerStates == {Idle, [at |-> "broadcast"]}
Endpoints == [reader : BOOLEAN, version : 0 .. MaxChanges]
Counts == 0 .. (Cardinality(Participants) + 1)

\* The types alone.
Types ==
  /\ alive \in [Ports -> BOOLEAN]
  /\ inc \in [Ports -> 0 .. MaxFaults]
  /\ endpoints \in [Ports -> Endpoints]
  /\ announce_seq \in [Ports -> Nat]
  /\ table \in [Ports -> SUBSET Ports]
  /\ peers \in [Ports -> SUBSET Ports]
  /\ remote \in [Ports -> [Participants -> View \cup {Unknown}]]
  /\ matched \in [Ports -> Counts]
  /\ recv \in [Ports -> RecvStates]
  /\ sweep \in [Ports -> CallStates]
  /\ dead \in [Ports -> SUBSET Ports]
  /\ app \in [Ports -> CallStates]
  /\ announcer \in [Ports -> AnnouncerStates]
  /\ net \subseteq Frames
  /\ calm \in BOOLEAN
  /\ changes \in 0 .. MaxChanges
  /\ faults \in 0 .. MaxFaults

\* Processes started on a port were preceded by as many crashes, and versions of a
\* snapshot by as many changes.
Counted ==
  \A p \in Ports :
    /\ inc[p] + (IF alive[p] THEN 0 ELSE 1) <= faults
    /\ endpoints[p].version <= changes

\* No process takes itself for a peer, or is about to.
NotSelf ==
  \A p \in Ports :
    /\ p \notin table[p] /\ p \notin peers[p]
    /\ recv[p].at = "up" => recv[p].peer # p

\* A frame in flight, a frame being handled or a view says: with sequence number s,
\* participant x was at version v.
Said(x, s, v) ==
  \/ \E m \in net : m.guid = x /\ m.seq = s /\ m.version = v
  \/ \E p \in Ports :
       /\ recv[p].at = "frame"
       /\ recv[p].frame.guid = x /\ recv[p].frame.seq = s /\ recv[p].frame.version = v
  \/ \E p \in Ports :
       /\ remote[p][x] # Unknown
       /\ remote[p][x].seq = s /\ remote[p][x].version = v

\* Nothing is said of a participant that has not started, and of the present one no
\* more than it has reached.
Reached ==
  \A p \in Ports, i \in 0 .. MaxFaults, s \in Nat, v \in Nat :
    Said(<<p, i>>, s, v) =>
      /\ i <= inc[p]
      /\ i = inc[p] => s <= announce_seq[p] /\ v <= endpoints[p].version

\* A later sequence number is never of an earlier version, though the same number
\* may stand for several versions.
Ordered ==
  \A x \in Participants, s \in Nat, v \in Nat, t \in Nat, w \in Nat :
    Said(x, s, v) /\ Said(x, t, w) /\ s < t => v <= w

DiscoveryInv == Types /\ Counted /\ NotSelf /\ Reached /\ Ordered

-----------------------------------------------------------------------------
(* Types *)

\* The states of the threads are told apart by where they are.
LEMMA ThreadStates ==
  /\ Idle \in RecvStates /\ Recomputing \in RecvStates
  /\ Idle \in CallStates /\ Recomputing \in CallStates
  /\ Idle \in AnnouncerStates /\ [at |-> "broadcast"] \in AnnouncerStates
  /\ Idle.at = "idle" /\ Recomputing.at = "recompute" /\ Idle # Recomputing
  /\ \A r \in RecvStates : r.at = "up" => r.peer \in Ports
  /\ \A r \in RecvStates : r.at = "frame" => r.frame \in Frames
BY DEF RecvStates, CallStates, AnnouncerStates, Idle, Recomputing

\* The bounds are natural numbers.
LEMMA Bounds == MaxChanges \in Nat /\ MaxFaults \in Nat
BY DiscoveryAssumption

\* The participants are finitely many, so that readers can be counted.
LEMMA CountTypes ==
  /\ IsFiniteSet(Participants) /\ Cardinality(Participants) \in Nat
  /\ \A S \in SUBSET Participants :
       /\ Cardinality(S) \in Nat /\ Cardinality(S) <= Cardinality(Participants)
       /\ Cardinality(S) \in Counts /\ Cardinality(S) + 1 \in Counts
<1>1. IsFiniteSet(Participants)
  <2>1. IsFiniteSet(Ports)
    BY DiscoveryAssumption
  <2>2. IsFiniteSet(0 .. MaxFaults)
    BY Bounds, FS_Interval
  <2>3. IsFiniteSet(Ports \X (0 .. MaxFaults))
    BY <2>1, <2>2, FS_Product
  <2> QED
    BY <2>3 DEF Participants
<1>2. Cardinality(Participants) \in Nat
  BY <1>1, FS_CardinalityType
<1>3. \A S \in SUBSET Participants :
        Cardinality(S) \in Nat /\ Cardinality(S) <= Cardinality(Participants)
  BY <1>1, FS_Subset, FS_CardinalityType
<1> QED
  BY <1>1, <1>2, <1>3 DEF Counts

\* A matched count is one of the possible ones.
LEMMA MatchCountType == \A p \in Ports : MatchCount(p) \in Counts
<1> SUFFICES ASSUME NEW p \in Ports PROVE MatchCount(p) \in Counts
  OBVIOUS
<1>. DEFINE S == {x \in Participants : remote[p][x] # Unknown /\ remote[p][x].reader}
<1>1. Cardinality(S) \in Nat /\ Cardinality(S) \in Counts /\ Cardinality(S) + 1 \in Counts
  <2>1. S \in SUBSET Participants
    OBVIOUS
  <2> QED
    BY <2>1, CountTypes
<1>2. MatchCount(p) = Cardinality(S) + IF endpoints[p].reader THEN 1 ELSE 0
  BY DEF MatchCount
<1> HIDE DEF S
<1> QED
  BY <1>1, <1>2

\* What a participant announces is a frame.
LEMMA AnnounceType ==
  ASSUME Types, NEW p \in Ports, NEW q \in Ports
  PROVE  /\ Announce(p, q) \in Frames
         /\ Announce(p, q).guid = <<p, inc[p]>> /\ Announce(p, q).seq = announce_seq[p]
         /\ Announce(p, q).version = endpoints[p].version
<1>1. /\ inc[p] \in 0 .. MaxFaults /\ announce_seq[p] \in Nat
      /\ endpoints[p].reader \in BOOLEAN /\ endpoints[p].version \in 0 .. MaxChanges
  BY DEF Types, Endpoints
<1>2. Self(p) \in Participants
  BY <1>1 DEF Self, Participants
<1> QED
  BY <1>1, <1>2 DEF Announce, Frames, Self

\* Sending puts nothing but the frames sent into the network.
LEMMA SendAdds ==
  ASSUME NEW base, NEW out, Send(base, out)
  PROVE  net' \subseteq base \cup out
BY DEF Send

Safe == Types /\ Counted /\ NotSelf

\* A presence datagram of a peer that is not in the table.
LEMMA PresenceSafe ==
  ASSUME Safe, NEW p \in Ports, NEW q \in Ports, Presence(p, q)
  PROVE  Safe'
<1>0. Types /\ Counted /\ NotSelf
  BY DEF Safe
<1>1. UNCHANGED <<alive, inc, endpoints, announce_seq, peers, remote, matched, sweep, dead, app, announcer, net, calm, changes, faults>>
  BY DEF Presence, budget, threads
<1>2. /\ p # q
      /\ table' = [table EXCEPT ![p] = @ \cup {q}]
      /\ recv' = [recv EXCEPT ![p] = [at |-> "up", peer |-> q]]
  BY DEF Presence
<1>3. [at |-> "up", peer |-> q] \in RecvStates
  BY DEF RecvStates
<1>4. table' \in [Ports -> SUBSET Ports] /\ recv' \in [Ports -> RecvStates]
  BY <1>0, <1>2, <1>3 DEF Types
<1>5. /\ \A f \in Ports : f # p => table'[f] = table[f] /\ recv'[f] = recv[f]
      /\ table'[p] = table[p] \cup {q} /\ recv'[p] = [at |-> "up", peer |-> q]
  BY <1>0, <1>2 DEF Types
<1>6. Types'
  BY <1>0, <1>1, <1>4 DEF Types
<1>7. Counted'
  BY <1>0, <1>1 DEF Counted
<1>8. NotSelf'
  BY <1>0, <1>1, <1>2, <1>5 DEF NotSelf
<1> QED
  BY <1>6, <1>7, <1>8 DEF Safe

\* The participant adds the peer and announces itself to it.
LEMMA HandlePeerUpSafe ==
  ASSUME Safe, NEW p \in Ports, HandlePeerUp(p)
  PROVE  Safe'
<1>0. Types /\ Counted /\ NotSelf
  BY DEF Safe
<1>1. UNCHANGED <<alive, inc, endpoints, announce_seq, table, remote, matched, sweep, dead, app, announcer, calm, changes, faults>>
  BY DEF HandlePeerUp, budget, threads
<1>2. PICK q : q = recv[p].peer
  OBVIOUS
<1>3. /\ recv[p].at = "up" /\ Send(net, {Announce(p, q)})
      /\ peers' = [peers EXCEPT ![p] = @ \cup {q}]
      /\ recv' = [recv EXCEPT ![p] = Idle]
  BY <1>2 DEF HandlePeerUp
<1>4. q \in Ports /\ q # p
  BY <1>0, <1>2, <1>3, ThreadStates DEF Types, NotSelf
<1>5. net' \subseteq Frames
  BY <1>0, <1>3, <1>4, SendAdds, AnnounceType DEF Types
<1>6. peers' \in [Ports -> SUBSET Ports] /\ recv' \in [Ports -> RecvStates]
  BY <1>0, <1>3, <1>4, ThreadStates DEF Types
<1>7. /\ \A f \in Ports : f # p => peers'[f] = peers[f] /\ recv'[f] = recv[f]
      /\ peers'[p] = peers[p] \cup {q} /\ recv'[p] = Idle
  BY <1>0, <1>3 DEF Types
<1>8. Types'
  BY <1>0, <1>1, <1>5, <1>6 DEF Types
<1>9. Counted'
  BY <1>0, <1>1 DEF Counted
<1>10. NotSelf'
  BY <1>0, <1>1, <1>4, <1>7, ThreadStates DEF NotSelf
<1> QED
  BY <1>8, <1>9, <1>10 DEF Safe

\* Peers were not heard of for four periods.
LEMMA SweepPeersSafe ==
  ASSUME Safe, NEW p \in Ports, NEW gone \in SUBSET Ports, SweepPeers(p, gone)
  PROVE  Safe'
<1>0. Types /\ Counted /\ NotSelf
  BY DEF Safe
<1>1. UNCHANGED <<alive, inc, endpoints, announce_seq, peers, remote, matched, recv, sweep, app, announcer, net, calm, changes>>
  BY DEF SweepPeers, budget, threads
<1>. PICK n : n = Cardinality({q \in gone : alive[q]})
  OBVIOUS
<1>2. /\ table' = [table EXCEPT ![p] = @ \ gone]
      /\ dead' = [dead EXCEPT ![p] = gone]
      /\ faults' = faults + n /\ faults' <= MaxFaults
  BY DEF SweepPeers
<1>3. n \in Nat
  <2>1. IsFiniteSet(Ports) /\ {q \in gone : alive[q]} \in SUBSET Ports
    BY DiscoveryAssumption
  <2>2. IsFiniteSet({q \in gone : alive[q]})
    BY <2>1, FS_Subset
  <2> QED
    BY <2>2, FS_CardinalityType
<1>4. table' \in [Ports -> SUBSET Ports] /\ dead' \in [Ports -> SUBSET Ports]
  BY <1>0, <1>2 DEF Types
<1>5. \A f \in Ports : table'[f] \subseteq table[f]
  BY <1>0, <1>2 DEF Types
<1>6. faults' \in 0 .. MaxFaults /\ faults' >= faults
  BY <1>0, <1>2, <1>3, Bounds DEF Types
<1>7. \A f \in Ports : inc[f] \in 0 .. MaxFaults
  BY <1>0 DEF Types
<1>8. faults \in 0 .. MaxFaults
  BY <1>0 DEF Types
<1>9. Types'
  BY <1>0, <1>1, <1>4, <1>6 DEF Types
<1>10. Counted'
  BY <1>0, <1>1, <1>6, <1>7, <1>8, Bounds DEF Counted
<1>11. NotSelf'
  BY <1>0, <1>1, <1>5 DEF NotSelf
<1> QED
  BY <1>9, <1>10, <1>11 DEF Safe

\* The participant forgets the peer and the participants behind it.
LEMMA HandlePeerDownSafe ==
  ASSUME Safe, NEW p \in Ports, NEW q \in Ports, HandlePeerDown(p, q)
  PROVE  Safe'
<1>0. Types /\ Counted /\ NotSelf
  BY DEF Safe
<1>1. UNCHANGED <<alive, inc, endpoints, announce_seq, table, matched, recv, app, announcer, net, calm, changes, faults>>
  BY DEF HandlePeerDown, budget, threads
<1>. PICK r : r = [x \in Participants |->
                    IF x[1] = q /\ remote[p][x] # Unknown THEN Unknown ELSE remote[p][x]]
  OBVIOUS
<1>2. /\ peers' = [peers EXCEPT ![p] = @ \ {q}]
      /\ remote' = [remote EXCEPT ![p] = r]
      /\ dead' = [dead EXCEPT ![p] = @ \ {q}]
      /\ \E a \in {Idle, Recomputing} : sweep' = [sweep EXCEPT ![p] = a]
  BY DEF HandlePeerDown
<1>3. r \in [Participants -> View \cup {Unknown}]
  BY <1>0 DEF Types
<1>4. remote' \in [Ports -> [Participants -> View \cup {Unknown}]]
  BY <1>0, <1>2, <1>3 DEF Types
<1>5. /\ peers' \in [Ports -> SUBSET Ports] /\ dead' \in [Ports -> SUBSET Ports]
      /\ sweep' \in [Ports -> CallStates]
  BY <1>0, <1>2, ThreadStates DEF Types
<1>6. \A f \in Ports : peers'[f] \subseteq peers[f]
  BY <1>0, <1>2 DEF Types
<1>7. Types'
  BY <1>0, <1>1, <1>4, <1>5 DEF Types
<1>8. Counted'
  BY <1>0, <1>1 DEF Counted
<1>9. NotSelf'
  BY <1>0, <1>1, <1>6 DEF NotSelf
<1> QED
  BY <1>7, <1>8, <1>9 DEF Safe

\* A reader is created or destroyed.
LEMMA ChangeEndpointsSafe ==
  ASSUME Safe, NEW p \in Ports, ChangeEndpoints(p)
  PROVE  Safe'
<1>0. Types /\ Counted /\ NotSelf
  BY DEF Safe
<1>1. UNCHANGED <<alive, inc, announce_seq, table, peers, remote, matched, recv, sweep, dead, announcer, net, calm, faults>>
  BY DEF ChangeEndpoints, budget, threads
<1>. PICK n : n = [reader |-> ~endpoints[p].reader, version |-> endpoints[p].version + 1]
  OBVIOUS
<1>2. /\ changes < MaxChanges /\ changes' = changes + 1
      /\ endpoints' = [endpoints EXCEPT ![p] = n]
      /\ app' = [app EXCEPT ![p] = Recomputing]
  BY DEF ChangeEndpoints
<1>3. changes \in 0 .. MaxChanges /\ \A f \in Ports : endpoints[f].version \in 0 .. MaxChanges
  BY <1>0 DEF Types, Endpoints
<1>4. endpoints[p].version <= changes
  BY <1>0 DEF Counted
<1>5. n \in Endpoints /\ n.version = endpoints[p].version + 1
  BY <1>2, <1>3, <1>4, Bounds DEF Endpoints
<1>6. /\ endpoints' \in [Ports -> Endpoints] /\ app' \in [Ports -> CallStates]
      /\ changes' \in 0 .. MaxChanges
  BY <1>0, <1>2, <1>3, <1>5, ThreadStates, Bounds DEF Types
<1>7. \A f \in Ports : endpoints'[f] = IF f = p THEN n ELSE endpoints[f]
  BY <1>0, <1>2 DEF Types
<1>8. \A f \in Ports : endpoints'[f].version <= changes'
  BY <1>0, <1>2, <1>3, <1>5, <1>7, Bounds DEF Counted
<1>9. Types'
  BY <1>0, <1>1, <1>6 DEF Types
<1>10. Counted'
  BY <1>0, <1>1, <1>8 DEF Counted
<1>11. NotSelf'
  BY <1>0, <1>1 DEF NotSelf
<1> QED
  BY <1>9, <1>10, <1>11 DEF Safe

\* A round of the announce thread takes its number.
LEMMA NextRoundSafe ==
  ASSUME Safe, NEW p \in Ports, NextRound(p)
  PROVE  Safe'
<1>0. Types /\ Counted /\ NotSelf
  BY DEF Safe
<1>1. UNCHANGED <<alive, inc, endpoints, table, peers, remote, matched, recv, sweep, dead, app, net, calm, changes, faults>>
  BY DEF NextRound, budget, threads
<1>2. /\ announce_seq' = [announce_seq EXCEPT ![p] = @ + 1]
      /\ announcer' = [announcer EXCEPT ![p] = [at |-> "broadcast"]]
  BY DEF NextRound
<1>3. announce_seq' \in [Ports -> Nat] /\ announcer' \in [Ports -> AnnouncerStates]
  BY <1>0, <1>2, ThreadStates DEF Types
<1>4. Types'
  BY <1>0, <1>1, <1>3 DEF Types
<1>5. Counted'
  BY <1>0, <1>1 DEF Counted
<1>6. NotSelf'
  BY <1>0, <1>1 DEF NotSelf
<1> QED
  BY <1>4, <1>5, <1>6 DEF Safe

\* The round is sent to the peers of the moment.
LEMMA BroadcastSafe ==
  ASSUME Safe, NEW p \in Ports, Broadcast(p)
  PROVE  Safe'
<1>0. Types /\ Counted /\ NotSelf
  BY DEF Safe
<1>1. UNCHANGED <<alive, inc, endpoints, announce_seq, table, peers, remote, matched, recv, sweep, dead, app, calm, changes, faults>>
  BY DEF Broadcast, budget, threads
<1>2. /\ Send(net, {Announce(p, q) : q \in peers[p]})
      /\ announcer' = [announcer EXCEPT ![p] = Idle]
  BY DEF Broadcast
<1>3. {Announce(p, q) : q \in peers[p]} \subseteq Frames
  <2>1. peers[p] \subseteq Ports
    BY <1>0 DEF Types
  <2> QED
    BY <1>0, <2>1, AnnounceType
<1>4. net' \subseteq Frames
  BY <1>0, <1>2, <1>3, SendAdds DEF Types
<1>5. announcer' \in [Ports -> AnnouncerStates]
  BY <1>0, <1>2, ThreadStates DEF Types
<1>6. Types'
  BY <1>0, <1>1, <1>4, <1>5 DEF Types
<1>7. Counted'
  BY <1>0, <1>1 DEF Counted
<1>8. NotSelf'
  BY <1>0, <1>1 DEF NotSelf
<1> QED
  BY <1>6, <1>7, <1>8 DEF Safe

\* A frame is read; one from a sender that is not in the table is dropped.
LEMMA ReceiveFrameSafe ==
  ASSUME Safe, NEW m \in Frames, ReceiveFrame(m)
  PROVE  Safe'
<1>0. Types /\ Counted /\ NotSelf
  BY DEF Safe
<1>1. UNCHANGED <<alive, inc, endpoints, announce_seq, table, peers, remote, matched, sweep, dead, app, announcer, calm, changes, faults>>
  BY DEF ReceiveFrame, budget, threads
<1>2. m.to \in Ports
  BY DEF Frames
<1>3. PICK a \in {Idle, [at |-> "frame", frame |-> m]} : recv' = [recv EXCEPT ![m.to] = a]
  BY DEF ReceiveFrame
<1>4. net' \subseteq net
  BY DEF ReceiveFrame, AfterReceipt
<1>5. a \in RecvStates /\ a.at # "up"
  BY <1>3, ThreadStates DEF RecvStates
<1>6. recv' \in [Ports -> RecvStates] /\ \A f \in Ports : recv'[f] = recv[f] \/ recv'[f] = a
  BY <1>0, <1>2, <1>3, <1>5 DEF Types
<1>7. Types'
  BY <1>0, <1>1, <1>4, <1>6 DEF Types
<1>8. Counted'
  BY <1>0, <1>1 DEF Counted
<1>9. NotSelf'
  BY <1>0, <1>1, <1>5, <1>6 DEF NotSelf
<1> QED
  BY <1>7, <1>8, <1>9 DEF Safe

\* An announcement is dropped, or becomes the view of its sender.
LEMMA HandleAnnounceSafe ==
  ASSUME Safe, NEW p \in Ports, HandleAnnounce(p)
  PROVE  Safe'
<1>0. Types /\ Counted /\ NotSelf
  BY DEF Safe
<1>1. UNCHANGED <<alive, inc, endpoints, announce_seq, table, peers, matched, sweep, dead, app, announcer, net, calm, changes, faults>>
  BY DEF HandleAnnounce, budget, threads
<1>. PICK m : m = recv[p].frame
  OBVIOUS
<1>. PICK n : n = [seq |-> m.seq, reader |-> m.reader, version |-> m.version]
  OBVIOUS
<1>2. /\ recv[p].at = "frame"
      /\ remote' = remote \/ remote' = [remote EXCEPT ![p][m.guid] = n]
      /\ \E a \in {Idle, Recomputing} : recv' = [recv EXCEPT ![p] = a]
  BY DEF HandleAnnounce
<1>3. m \in Frames
  BY <1>0, <1>2, ThreadStates DEF Types
<1>4. m.guid \in Participants /\ n \in View
  BY <1>3 DEF Frames, View
<1>5. remote' \in [Ports -> [Participants -> View \cup {Unknown}]]
  <2>1. remote \in [Ports -> [Participants -> View \cup {Unknown}]]
    BY <1>0 DEF Types
  <2>2. n \in View \cup {Unknown}
    BY <1>4
  <2>3. CASE remote' = remote
    BY <2>1, <2>3
  <2>4. CASE remote' = [remote EXCEPT ![p][m.guid] = n]
    BY <1>4, <2>1, <2>2, <2>4
  <2> QED
    BY <1>2, <2>3, <2>4
<1>6. recv' \in [Ports -> RecvStates]
  BY <1>0, <1>2, ThreadStates DEF Types
<1>7. \A f \in Ports : recv'[f] = recv[f] \/ recv'[f].at # "up"
  BY <1>0, <1>2, ThreadStates DEF Types
<1>8. Types'
  BY <1>0, <1>1, <1>5, <1>6 DEF Types
<1>9. Counted'
  BY <1>0, <1>1 DEF Counted
<1>10. NotSelf'
  BY <1>0, <1>1, <1>7 DEF NotSelf
<1> QED
  BY <1>8, <1>9, <1>10 DEF Safe

\* One of the threads recomputes the matches.
LEMMA RecomputeSafe ==
  ASSUME Safe, NEW p \in Ports, Recompute(p)
  PROVE  Safe'
<1>0. Types /\ Counted /\ NotSelf
  BY DEF Safe
<1>1. UNCHANGED <<alive, inc, endpoints, announce_seq, table, peers, remote, dead, announcer, net, calm, changes, faults>>
  BY DEF Recompute, budget, threads
<1>2. matched' = [matched EXCEPT ![p] = MatchCount(p)]
  BY DEF Recompute
<1>3. matched' \in [Ports -> Counts]
  BY <1>0, <1>2, MatchCountType DEF Types
<1>4. /\ recv' = recv \/ recv' = [recv EXCEPT ![p] = Idle]
      /\ sweep' = sweep \/ sweep' = [sweep EXCEPT ![p] = Idle]
      /\ app' = app \/ app' = [app EXCEPT ![p] = Idle]
  BY DEF Recompute
<1>5. /\ recv' \in [Ports -> RecvStates] /\ sweep' \in [Ports -> CallStates]
      /\ app' \in [Ports -> CallStates]
  <2>1. recv \in [Ports -> RecvStates] /\ sweep \in [Ports -> CallStates]
    BY <1>0 DEF Types
  <2>2. app \in [Ports -> CallStates]
    BY <1>0 DEF Types
  <2>3. recv' \in [Ports -> RecvStates]
    BY <1>4, <2>1, ThreadStates
  <2>4. sweep' \in [Ports -> CallStates]
    BY <1>4, <2>1, ThreadStates
  <2>5. app' \in [Ports -> CallStates]
    BY <1>4, <2>2, ThreadStates
  <2> QED
    BY <2>3, <2>4, <2>5
<1>6. \A f \in Ports : recv'[f] = recv[f] \/ recv'[f].at # "up"
  BY <1>0, <1>4, ThreadStates DEF Types
<1>7. Types'
  BY <1>0, <1>1, <1>3, <1>5 DEF Types
<1>8. Counted'
  BY <1>0, <1>1 DEF Counted
<1>9. NotSelf'
  BY <1>0, <1>1, <1>6 DEF NotSelf
<1> QED
  BY <1>7, <1>8, <1>9 DEF Safe

\* A process ends.
LEMMA CrashSafe ==
  ASSUME Safe, NEW p \in Ports, Crash(p)
  PROVE  Safe'
<1>0. Types /\ Counted /\ NotSelf
  BY DEF Safe
<1>1. UNCHANGED <<inc, endpoints, announce_seq, table, peers, remote, matched, calm, changes>>
  BY DEF Crash, budget, threads
<1>2. /\ alive[p] /\ faults < MaxFaults /\ faults' = faults + 1
      /\ alive' = [alive EXCEPT ![p] = FALSE]
      /\ recv' = [recv EXCEPT ![p] = Idle] /\ sweep' = [sweep EXCEPT ![p] = Idle]
      /\ app' = [app EXCEPT ![p] = Idle] /\ announcer' = [announcer EXCEPT ![p] = Idle]
      /\ dead' = [dead EXCEPT ![p] = {}]
      /\ net' = {m \in net : m.to # p}
  BY DEF Crash
<1>3. /\ recv' \in [Ports -> RecvStates] /\ sweep' \in [Ports -> CallStates]
      /\ app' \in [Ports -> CallStates] /\ announcer' \in [Ports -> AnnouncerStates]
      /\ alive' \in [Ports -> BOOLEAN] /\ net' \subseteq Frames
      /\ dead' \in [Ports -> SUBSET Ports]
  BY <1>0, <1>2, ThreadStates DEF Types
<1>4. faults' \in 0 .. MaxFaults /\ faults \in Nat
  BY <1>0, <1>2, Bounds DEF Types
<1>5. \A f \in Ports : recv'[f] = recv[f] \/ recv'[f].at # "up"
  BY <1>0, <1>2, ThreadStates DEF Types
<1>6. ASSUME NEW f \in Ports PROVE inc[f] + (IF alive'[f] THEN 0 ELSE 1) <= faults'
  <2>1. alive'[f] = IF f = p THEN FALSE ELSE alive[f]
    BY <1>0, <1>2 DEF Types
  <2>2. inc[f] \in Nat /\ inc[f] + (IF alive[f] THEN 0 ELSE 1) <= faults
    BY <1>0, Bounds DEF Types, Counted
  <2> QED
    BY <1>2, <1>4, <2>1, <2>2
<1>7. Types'
  BY <1>0, <1>1, <1>3, <1>4 DEF Types
<1>8. Counted'
  BY <1>0, <1>1, <1>6 DEF Counted
<1>9. NotSelf'
  BY <1>0, <1>1, <1>5 DEF NotSelf
<1> QED
  BY <1>7, <1>8, <1>9 DEF Safe

\* Another process starts on the port.
LEMMA RestartSafe ==
  ASSUME Safe, NEW p \in Ports, Restart(p)
  PROVE  Safe'
<1>0. Types /\ Counted /\ NotSelf
  BY DEF Safe
<1>1. UNCHANGED <<recv, sweep, dead, app, announcer, net, calm, changes, faults>>
  BY DEF Restart, budget, threads
<1>. PICK n : n = [reader |-> FALSE, version |-> 0]
  OBVIOUS
<1>2. /\ ~alive[p] /\ alive' = [alive EXCEPT ![p] = TRUE]
      /\ inc' = [inc EXCEPT ![p] = @ + 1]
      /\ endpoints' = [endpoints EXCEPT ![p] = n]
      /\ announce_seq' = [announce_seq EXCEPT ![p] = 0]
      /\ table' = [table EXCEPT ![p] = {}] /\ peers' = [peers EXCEPT ![p] = {}]
      /\ remote' = [remote EXCEPT ![p] = [x \in Participants |-> Unknown]]
      /\ matched' = [matched EXCEPT ![p] = 0]
  BY DEF Restart
<1>3. inc[p] \in 0 .. MaxFaults /\ faults \in 0 .. MaxFaults /\ inc[p] + 1 <= faults
  BY <1>0, <1>2 DEF Types, Counted
<1>4. n \in Endpoints /\ n.version = 0 /\ 0 \in Counts
  BY Bounds, CountTypes DEF Endpoints, Counts
<1>5. inc' \in [Ports -> 0 .. MaxFaults]
  BY <1>0, <1>2, <1>3, Bounds DEF Types
<1>6. /\ alive' \in [Ports -> BOOLEAN] /\ endpoints' \in [Ports -> Endpoints]
      /\ announce_seq' \in [Ports -> Nat] /\ matched' \in [Ports -> Counts]
      /\ table' \in [Ports -> SUBSET Ports] /\ peers' \in [Ports -> SUBSET Ports]
  BY <1>0, <1>2, <1>4 DEF Types
<1>7. remote' \in [Ports -> [Participants -> View \cup {Unknown}]]
  BY <1>0, <1>2 DEF Types
<1>8. ASSUME NEW f \in Ports
      PROVE  /\ inc'[f] + (IF alive'[f] THEN 0 ELSE 1) <= faults
             /\ endpoints'[f].version <= changes
  <2>1. CASE f = p
    <3>1. inc'[f] = inc[p] + 1 /\ alive'[f] = TRUE /\ endpoints'[f] = n
      BY <1>0, <1>2, <2>1 DEF Types
    <3>2. changes \in Nat
      BY <1>0, Bounds DEF Types
    <3> QED
      BY <1>3, <1>4, <3>1, <3>2
  <2>2. CASE f # p
    <3>1. inc'[f] = inc[f] /\ alive'[f] = alive[f] /\ endpoints'[f] = endpoints[f]
      BY <1>0, <1>2, <2>2 DEF Types
    <3> QED
      BY <1>0, <3>1 DEF Counted
  <2> QED
    BY <2>1, <2>2
<1>9. \A f \in Ports : table'[f] \subseteq table[f] /\ peers'[f] \subseteq peers[f]
  BY <1>0, <1>2 DEF Types
<1>10. Types'
  BY <1>0, <1>1, <1>5, <1>6, <1>7 DEF Types
<1>11. Counted'
  BY <1>0, <1>1, <1>8 DEF Counted
<1>12. NotSelf'
  BY <1>0, <1>1, <1>9 DEF NotSelf
<1> QED
  BY <1>10, <1>11, <1>12 DEF Safe

-----------------------------------------------------------------------------
(* Snapshots *)

\* What a participant of the moment would say.
Now(x, s, v) ==
  \E p \in Ports : x = <<p, inc[p]>> /\ s = announce_seq[p] /\ v = endpoints[p].version

\* A step adds to what is said only what a participant says of itself now.
Honest == \A x \in Participants, s \in Nat, v \in Nat : Said(x, s, v)' => Said(x, s, v) \/ Now(x, s, v)

\* Numbers and versions grow, until another process takes the port.
Forward ==
  \A p \in Ports :
    \/ inc'[p] > inc[p]
    \/ /\ inc'[p] = inc[p]
       /\ announce_seq'[p] >= announce_seq[p]
       /\ endpoints'[p].version >= endpoints[p].version

\* The numbers of a port.
LEMMA PortNumbers ==
  ASSUME Types, NEW p \in Ports
  PROVE  /\ inc[p] \in 0 .. MaxFaults /\ inc[p] \in Nat
         /\ announce_seq[p] \in Nat /\ endpoints[p].version \in Nat
BY Bounds DEF Types, Endpoints

\* Numbers and versions stay in step.
LEMMA SnapshotsOrdered ==
  ASSUME Types, Types', Reached, Ordered, Honest, Forward
  PROVE  Reached' /\ Ordered'
<1>1. ASSUME NEW p \in Ports, NEW i \in 0 .. MaxFaults, NEW s \in Nat, NEW v \in Nat,
             Said(<<p, i>>, s, v)'
      PROVE  /\ i <= inc'[p]
             /\ i = inc'[p] => s <= announce_seq'[p] /\ v <= endpoints'[p].version
  <2>0. /\ inc[p] \in Nat /\ announce_seq[p] \in Nat /\ endpoints[p].version \in Nat
        /\ inc'[p] \in Nat /\ announce_seq'[p] \in Nat /\ endpoints'[p].version \in Nat
        /\ i \in Nat
    <3>1. /\ inc[p] \in Nat /\ announce_seq[p] \in Nat /\ endpoints[p].version \in Nat
      BY PortNumbers
    <3>2. /\ inc' \in [Ports -> 0 .. MaxFaults] /\ announce_seq' \in [Ports -> Nat]
          /\ endpoints' \in [Ports -> Endpoints]
      BY DEF Types
    <3> QED
      BY <3>1, <3>2, Bounds DEF Endpoints
  <2>1. <<p, i>> \in Participants
    BY DEF Participants
  <2>2. Said(<<p, i>>, s, v) \/ Now(<<p, i>>, s, v)
    BY <1>1, <2>1 DEF Honest
  <2>3. i <= inc[p] /\ (i = inc[p] => s <= announce_seq[p] /\ v <= endpoints[p].version)
    <3>1. CASE Said(<<p, i>>, s, v)
      BY <3>1 DEF Reached
    <3>2. CASE Now(<<p, i>>, s, v)
      BY <2>0, <3>2 DEF Now
    <3> QED
      BY <2>2, <3>1, <3>2
  <2>4. \/ inc'[p] > inc[p]
        \/ /\ inc'[p] = inc[p] /\ announce_seq'[p] >= announce_seq[p]
           /\ endpoints'[p].version >= endpoints[p].version
    BY DEF Forward
  <2> QED
    BY <2>0, <2>3, <2>4
<1>2. Reached'
  BY <1>1 DEF Reached
<1>3. ASSUME NEW x \in Participants, NEW s \in Nat, NEW v \in Nat, NEW t \in Nat, NEW w \in Nat,
             Said(x, s, v)', Said(x, t, w)', s < t
      PROVE  v <= w
  <2>1. /\ Said(x, s, v) \/ Now(x, s, v)
        /\ Said(x, t, w) \/ Now(x, t, w)
    BY <1>3 DEF Honest
  <2>2. PICK p \in Ports, i \in 0 .. MaxFaults : x = <<p, i>>
    BY DEF Participants
  <2>3. inc[p] \in Nat /\ announce_seq[p] \in Nat /\ endpoints[p].version \in Nat
    BY PortNumbers
  <2>4. ASSUME NEW r \in Nat, NEW u \in Nat, Now(x, r, u)
        PROVE  i = inc[p] /\ r = announce_seq[p] /\ u = endpoints[p].version
    BY <2>2, <2>4 DEF Now
  <2>5. ASSUME NEW r \in Nat, NEW u \in Nat, Said(x, r, u), i = inc[p]
        PROVE  r <= announce_seq[p] /\ u <= endpoints[p].version
    BY <2>2, <2>5 DEF Reached
  <2>6. CASE Said(x, s, v) /\ Said(x, t, w)
    BY <1>3, <2>6 DEF Ordered
  <2>7. CASE Now(x, s, v)
    BY <1>3, <2>1, <2>3, <2>4, <2>5, <2>7
  <2>8. CASE Said(x, s, v) /\ Now(x, t, w)
    BY <2>4, <2>5, <2>8
  <2> QED
    BY <2>1, <2>6, <2>7, <2>8
<1>4. Ordered'
  BY <1>3 DEF Ordered
<1> QED
  BY <1>2, <1>4

\* A step that sends nothing and takes no frame.
Silent ==
  /\ net' \subseteq net
  /\ \A p \in Ports : recv'[p] = recv[p] \/ recv'[p].at # "frame"
  /\ \A p \in Ports, x \in Participants : remote'[p][x] = remote[p][x] \/ remote'[p][x] = Unknown

\* Nothing new is said by such a step.
LEMMA SilentIsHonest == Silent => Honest
<1> SUFFICES ASSUME Silent, NEW x \in Participants, NEW s \in Nat, NEW v \in Nat, Said(x, s, v)'
             PROVE  Said(x, s, v)
  BY DEF Honest
<1>1. CASE \E m \in net' : m.guid = x /\ m.seq = s /\ m.version = v
  BY <1>1 DEF Said, Silent
<1>2. CASE \E p \in Ports :
             /\ recv'[p].at = "frame" /\ recv'[p].frame.guid = x
             /\ recv'[p].frame.seq = s /\ recv'[p].frame.version = v
  BY <1>2 DEF Said, Silent
<1>3. CASE \E p \in Ports :
             remote'[p][x] # Unknown /\ remote'[p][x].seq = s /\ remote'[p][x].version = v
  BY <1>3 DEF Said, Silent
<1> QED
  BY <1>1, <1>2, <1>3 DEF Said

\* Announcements carry what their sender has reached.
LEMMA AnnouncingIsHonest ==
  ASSUME Types, NEW p \in Ports,
         \A m \in net' : m \in net \/ \E q \in Ports : m = Announce(p, q),
         \A f \in Ports : recv'[f] = recv[f] \/ recv'[f].at # "frame",
         remote' = remote
  PROVE  Honest
<1> SUFFICES ASSUME NEW x \in Participants, NEW s \in Nat, NEW v \in Nat, Said(x, s, v)'
             PROVE  Said(x, s, v) \/ Now(x, s, v)
  BY DEF Honest
<1>1. CASE \E m \in net' : m.guid = x /\ m.seq = s /\ m.version = v
  <2>1. PICK m \in net' : m.guid = x /\ m.seq = s /\ m.version = v
    BY <1>1
  <2>2. CASE m \in net
    BY <2>1, <2>2 DEF Said
  <2>3. CASE \E q \in Ports : m = Announce(p, q)
    <3>1. PICK q \in Ports : m = Announce(p, q)
      BY <2>3
    <3>2. /\ m.guid = <<p, inc[p]>> /\ m.seq = announce_seq[p]
          /\ m.version = endpoints[p].version
      BY <3>1, AnnounceType
    <3>3. x = <<p, inc[p]>> /\ s = announce_seq[p] /\ v = endpoints[p].version
      BY <2>1, <3>2
    <3> QED
      BY <3>3 DEF Now
  <2> QED
    BY <2>2, <2>3
<1>2. CASE \E f \in Ports :
             /\ recv'[f].at = "frame" /\ recv'[f].frame.guid = x
             /\ recv'[f].frame.seq = s /\ recv'[f].frame.version = v
  BY <1>2 DEF Said
<1>3. CASE \E f \in Ports :
             remote'[f][x] # Unknown /\ remote'[f][x].seq = s /\ remote'[f][x].version = v
  BY <1>3 DEF Said
<1> QED
  BY <1>1, <1>2, <1>3 DEF Said

\* A frame that is read was in flight.
LEMMA ReceivingIsHonest ==
  ASSUME Types, NEW m \in net, ReceiveFrame(m)
  PROVE  Honest
<1>1. m.to \in Ports
  BY DEF Types, Frames
<1>2. \A f \in Ports : recv'[f] = recv[f] \/ recv'[f] = Idle \/ recv'[f] = [at |-> "frame", frame |-> m]
  BY <1>1 DEF ReceiveFrame, Types
<1>3. net' \subseteq net /\ remote' = remote
  BY DEF ReceiveFrame, AfterReceipt
<1> SUFFICES ASSUME NEW x \in Participants, NEW s \in Nat, NEW v \in Nat, Said(x, s, v)'
             PROVE  Said(x, s, v)
  BY DEF Honest
<1>4. CASE \E b \in net' : b.guid = x /\ b.seq = s /\ b.version = v
  BY <1>3, <1>4 DEF Said
<1>5. CASE \E f \in Ports :
             /\ recv'[f].at = "frame" /\ recv'[f].frame.guid = x
             /\ recv'[f].frame.seq = s /\ recv'[f].frame.version = v
  <2>1. PICK f \in Ports :
          /\ recv'[f].at = "frame" /\ recv'[f].frame.guid = x
          /\ recv'[f].frame.seq = s /\ recv'[f].frame.version = v
    BY <1>5
  <2>2. CASE recv'[f] = recv[f]
    BY <2>1, <2>2 DEF Said
  <2>3. CASE recv'[f] = [at |-> "frame", frame |-> m]
    BY <2>1, <2>3 DEF Said
  <2> QED
    BY <1>2, <2>1, <2>2, <2>3, ThreadStates
<1>6. CASE \E f \in Ports :
             remote'[f][x] # Unknown /\ remote'[f][x].seq = s /\ remote'[f][x].version = v
  BY <1>3, <1>6 DEF Said
<1> QED
  BY <1>4, <1>5, <1>6 DEF Said

\* What handle_announce() does to the view of the sender.
Taken(p, m) ==
  /\ recv[p].at = "frame" /\ m = recv[p].frame /\ m.guid \in Participants
  /\ \A f \in Ports, x \in Participants :
       \/ remote'[f][x] = remote[f][x]
       \/ /\ f = p /\ x = m.guid /\ ~Stale(remote[p][x], m)
          /\ remote'[f][x] = [seq |-> m.seq, reader |-> m.reader, version |-> m.version]
  /\ \A f \in Ports : recv'[f] = recv[f] \/ recv'[f] \in {Idle, Recomputing}
  /\ net' = net

\* handle_announce() takes one frame off the network.
LEMMA AnnounceTaken ==
  ASSUME Types, NEW p \in Ports, HandleAnnounce(p)
  PROVE  \E m \in Frames : Taken(p, m)
<1>. PICK m : m = recv[p].frame
  OBVIOUS
<1>1. recv[p].at = "frame" /\ net' = net
  BY DEF HandleAnnounce
<1>2. m \in Frames /\ m.guid \in Participants
  <2>1. m \in Frames
    BY <1>1, ThreadStates DEF Types
  <2> QED
    BY <2>1 DEF Frames
<1>. PICK n : n = [seq |-> m.seq, reader |-> m.reader, version |-> m.version]
  OBVIOUS
<1>3. \/ remote' = remote
      \/ ~Stale(remote[p][m.guid], m) /\ remote' = [remote EXCEPT ![p][m.guid] = n]
  BY DEF HandleAnnounce
<1>4. \A f \in Ports, x \in Participants :
        \/ remote'[f][x] = remote[f][x]
        \/ f = p /\ x = m.guid /\ ~Stale(remote[p][x], m) /\ remote'[f][x] = n
  BY <1>2, <1>3 DEF Types
<1>5. \E a \in {Idle, Recomputing} : recv' = [recv EXCEPT ![p] = a]
  BY DEF HandleAnnounce
<1>6. \A f \in Ports : recv'[f] = recv[f] \/ recv'[f] \in {Idle, Recomputing}
  BY <1>5 DEF Types
<1> QED
  BY <1>1, <1>2, <1>4, <1>6 DEF Taken

\* A view says what the frame said.
LEMMA HandlingIsHonest ==
  ASSUME Types, NEW p \in Ports, HandleAnnounce(p)
  PROVE  Honest
<1>0. PICK m \in Frames : Taken(p, m)
  BY AnnounceTaken
<1>1. /\ recv[p].at = "frame" /\ m = recv[p].frame /\ m.guid \in Participants
      /\ \A f \in Ports, x \in Participants :
           \/ remote'[f][x] = remote[f][x]
           \/ /\ f = p /\ x = m.guid /\ ~Stale(remote[p][x], m)
              /\ remote'[f][x] = [seq |-> m.seq, reader |-> m.reader, version |-> m.version]
      /\ \A f \in Ports : recv'[f] = recv[f] \/ recv'[f] \in {Idle, Recomputing}
      /\ net' = net
  BY <1>0 DEF Taken
<1> SUFFICES ASSUME NEW x \in Participants, NEW s \in Nat, NEW v \in Nat, Said(x, s, v)'
             PROVE  Said(x, s, v)
  BY DEF Honest
<1>2. CASE \E b \in net' : b.guid = x /\ b.seq = s /\ b.version = v
  BY <1>1, <1>2 DEF Said
<1>3. CASE \E f \in Ports :
             /\ recv'[f].at = "frame" /\ recv'[f].frame.guid = x
             /\ recv'[f].frame.seq = s /\ recv'[f].frame.version = v
  BY <1>1, <1>3, ThreadStates DEF Said
<1>4. CASE \E f \in Ports :
             remote'[f][x] # Unknown /\ remote'[f][x].seq = s /\ remote'[f][x].version = v
  <2>1. PICK f \in Ports :
          remote'[f][x] # Unknown /\ remote'[f][x].seq = s /\ remote'[f][x].version = v
    BY <1>4
  <2>2. CASE remote'[f][x] = remote[f][x]
    BY <2>1, <2>2 DEF Said
  <2>3. CASE /\ f = p /\ x = m.guid
             /\ remote'[f][x] = [seq |-> m.seq, reader |-> m.reader, version |-> m.version]
    <3>1. m.guid = x /\ m.seq = s /\ m.version = v
      BY <2>1, <2>3
    <3>2. recv[p].at = "frame" /\ m = recv[p].frame
      BY <1>1
    <3> QED
      BY <3>1, <3>2 DEF Said
  <2> QED
    BY <1>1, <2>2, <2>3
<1> QED
  BY <1>2, <1>3, <1>4 DEF Said

\* Numbers and versions of all ports are as before.
LEMMA SameIsForward ==
  Types /\ UNCHANGED <<inc, announce_seq, endpoints>> => Forward
BY PortNumbers DEF Forward

\* Every step says only what was said or is so now, and numbers and versions grow.
LEMMA StepIsHonest ==
  ASSUME Types, NotSelf, Next \/ Stabilise
  PROVE  Honest /\ Forward
<1>1. ASSUME NEW p \in Ports, NEW q \in Ports, Presence(p, q)
      PROVE  Honest /\ Forward
  <2>1. Silent
    BY <1>1 DEF Presence, Types, Silent
  <2> QED
    BY <1>1, <2>1, SilentIsHonest, SameIsForward DEF Presence
<1>2. ASSUME NEW p \in Ports, ChangeEndpoints(p) PROVE Honest /\ Forward
  <2>1. Silent
    BY <1>2 DEF ChangeEndpoints, Silent
  <2>2. endpoints'[p].version = endpoints[p].version + 1
    BY <1>2 DEF ChangeEndpoints, Types
  <2>3. \A f \in Ports : f # p => endpoints'[f] = endpoints[f]
    BY <1>2 DEF ChangeEndpoints, Types
  <2>4. inc' = inc /\ announce_seq' = announce_seq
    BY <1>2 DEF ChangeEndpoints
  <2>5. Forward
    BY <2>2, <2>3, <2>4, PortNumbers DEF Forward
  <2> QED
    BY <2>1, <2>5, SilentIsHonest
<1>3. ASSUME NEW p \in Ports, NextRound(p) PROVE Honest /\ Forward
  <2>1. Silent
    BY <1>3 DEF NextRound, Silent
  <2>2. \A f \in Ports : announce_seq'[f] = IF f = p THEN announce_seq[f] + 1 ELSE announce_seq[f]
    BY <1>3 DEF NextRound, Types
  <2>3. inc' = inc /\ endpoints' = endpoints
    BY <1>3 DEF NextRound
  <2>4. Forward
    BY <2>2, <2>3, PortNumbers DEF Forward
  <2> QED
    BY <2>1, <2>4, SilentIsHonest
<1>4. ASSUME NEW p \in Ports, HandlePeerUp(p) PROVE Honest /\ Forward
  <2>1. PICK q : q = recv[p].peer
    OBVIOUS
  <2>2. /\ recv[p].at = "up" /\ Send(net, {Announce(p, q)})
        /\ recv' = [recv EXCEPT ![p] = Idle]
        /\ UNCHANGED <<inc, endpoints, announce_seq, remote>>
    BY <1>4, <2>1 DEF HandlePeerUp
  <2>3. q \in Ports
    BY <2>1, <2>2, ThreadStates DEF Types
  <2>4. \A m \in net' : m \in net \/ \E g \in Ports : m = Announce(p, g)
    BY <2>2, <2>3, SendAdds
  <2>5. \A f \in Ports : recv'[f] = recv[f] \/ recv'[f].at # "frame"
    BY <2>2, ThreadStates DEF Types
  <2> QED
    BY <2>2, <2>4, <2>5, AnnouncingIsHonest, SameIsForward
<1>5. ASSUME NEW p \in Ports, Broadcast(p) PROVE Honest /\ Forward
  <2>1. /\ Send(net, {Announce(p, q) : q \in peers[p]})
        /\ UNCHANGED <<inc, endpoints, announce_seq, remote, recv>>
    BY <1>5 DEF Broadcast
  <2>2. peers[p] \subseteq Ports
    BY DEF Types
  <2>3. \A m \in net' : m \in net \/ \E g \in Ports : m = Announce(p, g)
    BY <2>1, <2>2, SendAdds
  <2> QED
    BY <2>1, <2>3, AnnouncingIsHonest, SameIsForward
<1>6. ASSUME NEW p \in Ports, NEW q \in Ports, HandlePeerDown(p, q)
      PROVE  Honest /\ Forward
  <2>. PICK r : r = [x \in Participants |->
                      IF x[1] = q /\ remote[p][x] # Unknown THEN Unknown ELSE remote[p][x]]
    OBVIOUS
  <2>1. /\ remote' = [remote EXCEPT ![p] = r]
        /\ UNCHANGED <<inc, endpoints, announce_seq, recv, net>>
    BY <1>6 DEF HandlePeerDown
  <2>2. \A f \in Ports : remote'[f] = IF f = p THEN r ELSE remote[f]
    BY <2>1 DEF Types
  <2>3. \A f \in Ports, x \in Participants :
          remote'[f][x] = remote[f][x] \/ remote'[f][x] = Unknown
    BY <2>2
  <2> QED
    BY <2>1, <2>3, SilentIsHonest, SameIsForward DEF Silent
<1>7. ASSUME NEW p \in Ports, HandleAnnounce(p) PROVE Honest /\ Forward
  BY <1>7, HandlingIsHonest, SameIsForward DEF HandleAnnounce
<1>8. ASSUME NEW p \in Ports, Recompute(p) PROVE Honest /\ Forward
  <2>1. /\ recv' = recv \/ recv' = [recv EXCEPT ![p] = Idle]
        /\ UNCHANGED <<inc, endpoints, announce_seq, remote, net>>
    BY <1>8 DEF Recompute
  <2>2. \A f \in Ports : recv'[f] = recv[f] \/ recv'[f].at # "frame"
    BY <2>1, ThreadStates DEF Types
  <2> QED
    BY <2>1, <2>2, SilentIsHonest, SameIsForward DEF Silent
<1>9. ASSUME NEW p \in Ports, Crash(p) PROVE Honest /\ Forward
  <2>1. /\ recv' = [recv EXCEPT ![p] = Idle] /\ net' \subseteq net
        /\ UNCHANGED <<inc, endpoints, announce_seq, remote>>
    BY <1>9 DEF Crash
  <2>2. \A f \in Ports : recv'[f] = recv[f] \/ recv'[f].at # "frame"
    BY <2>1, ThreadStates DEF Types
  <2> QED
    BY <2>1, <2>2, SilentIsHonest, SameIsForward DEF Silent
<1>10. ASSUME NEW p \in Ports, Restart(p) PROVE Honest /\ Forward
  <2>1. /\ inc' = [inc EXCEPT ![p] = @ + 1]
        /\ endpoints' = [endpoints EXCEPT ![p] = [reader |-> FALSE, version |-> 0]]
        /\ announce_seq' = [announce_seq EXCEPT ![p] = 0]
        /\ remote' = [remote EXCEPT ![p] = [x \in Participants |-> Unknown]]
        /\ UNCHANGED <<recv, net>>
    BY <1>10 DEF Restart, threads
  <2>2. \A f \in Ports, x \in Participants :
          remote'[f][x] = remote[f][x] \/ remote'[f][x] = Unknown
    BY <2>1 DEF Types
  <2>3. inc'[p] = inc[p] + 1
    BY <2>1 DEF Types
  <2>4. \A f \in Ports : f # p => /\ inc'[f] = inc[f] /\ endpoints'[f] = endpoints[f]
                                  /\ announce_seq'[f] = announce_seq[f]
    BY <2>1 DEF Types
  <2>5. Forward
    BY <2>3, <2>4, PortNumbers DEF Forward
  <2> QED
    BY <2>1, <2>2, <2>5, SilentIsHonest DEF Silent
<1>11. ASSUME NEW m \in net, ReceiveFrame(m) PROVE Honest /\ Forward
  BY <1>11, ReceivingIsHonest, SameIsForward DEF ReceiveFrame
<1>12. CASE Stabilise
  <2>1. Silent
    BY <1>12 DEF Stabilise, Silent, threads
  <2> QED
    BY <1>12, <2>1, SilentIsHonest, SameIsForward DEF Stabilise
<1>13. ASSUME NEW p \in Ports, NEW gone \in SUBSET Ports, SweepPeers(p, gone)
       PROVE  Honest /\ Forward
  <2>1. UNCHANGED <<inc, endpoints, announce_seq, remote, recv, net>>
    BY <1>13 DEF SweepPeers
  <2>2. Silent
    BY <2>1 DEF Silent
  <2> QED
    BY <2>1, <2>2, SilentIsHonest, SameIsForward
<1> QED
  BY <1>1, <1>2, <1>3, <1>4, <1>5, <1>6, <1>7, <1>8, <1>9, <1>10, <1>11, <1>12, <1>13
  DEF Next, ThreadsOf

\* Every step is well typed.
LEMMA StepIsSafe ==
  ASSUME Safe, Next \/ Stabilise
  PROVE  Safe'
<1>1. CASE Stabilise
  <2>1. UNCHANGED <<alive, inc, endpoints, announce_seq, table, peers, remote, matched, recv,
                    sweep, dead, app, announcer, net, changes, faults>> /\ calm' = TRUE
    BY <1>1 DEF Stabilise, threads, budget
  <2> QED
    BY <2>1 DEF Safe, Types, Counted, NotSelf
<1>2. ASSUME NEW m \in net, ReceiveFrame(m) PROVE Safe'
  <2>1. m \in Frames
    BY DEF Safe, Types
  <2> QED
    BY <1>2, <2>1, ReceiveFrameSafe
<1> QED
  BY <1>1, <1>2, PresenceSafe, SweepPeersSafe, ChangeEndpointsSafe, NextRoundSafe,
     HandlePeerUpSafe, HandlePeerDownSafe, HandleAnnounceSafe, RecomputeSafe, BroadcastSafe,
     CrashSafe, RestartSafe DEF Next, ThreadsOf

\* Before any process has started, nothing is known or counted.
LEMMA DiscoveryStarts == Init => DiscoveryInv
<1> SUFFICES ASSUME Init PROVE DiscoveryInv
  OBVIOUS
<1>1. 0 \in 0 .. MaxFaults /\ 0 \in 0 .. MaxChanges /\ 0 \in Counts
  BY Bounds, CountTypes DEF Counts
<1>2. [reader |-> FALSE, version |-> 0] \in Endpoints
  BY <1>1 DEF Endpoints
<1>3. Types
  BY <1>1, <1>2, ThreadStates DEF Init, Types
<1>4. Counted /\ NotSelf
  BY ThreadStates DEF Init, Counted, NotSelf
<1>5. \A x \in Participants, s \in Nat, v \in Nat : ~Said(x, s, v)
  BY ThreadStates DEF Init, Said
<1>6. Reached /\ Ordered
  BY <1>5 DEF Reached, Ordered, Participants
<1> QED
  BY <1>3, <1>4, <1>6 DEF DiscoveryInv

\* Every step of a thread, of the network and of the clock keeps the invariant.
LEMMA DiscoveryNext == DiscoveryInv /\ [Next \/ Stabilise]_vars => DiscoveryInv'
<1> SUFFICES ASSUME DiscoveryInv, [Next \/ Stabilise]_vars PROVE DiscoveryInv'
  OBVIOUS
<1>1. CASE UNCHANGED vars
  <2>1. UNCHANGED <<alive, inc, endpoints, announce_seq, table, peers, remote, matched, recv,
                    sweep, dead, app, announcer, net, calm, changes, faults>>
    BY <1>1 DEF vars, threads, budget
  <2> QED
    BY <2>1 DEF DiscoveryInv, Types, Counted, NotSelf, Reached, Ordered, Said
<1>2. CASE Next \/ Stabilise
  <2>1. Safe'
    BY <1>2, StepIsSafe DEF DiscoveryInv, Safe
  <2>2. Honest /\ Forward
    BY <1>2, StepIsHonest DEF DiscoveryInv
  <2> QED
    BY <2>1, <2>2, SnapshotsOrdered DEF DiscoveryInv, Safe
<1> QED
  BY <1>1, <1>2

\* The invariant holds in every state of every behaviour.
LEMMA DiscoveryInvariant == FairSpec => []DiscoveryInv
<1>1. FairSpec => Init /\ [][Next \/ Stabilise]_vars
  BY PTL DEF FairSpec
<1> QED
  BY <1>1, DiscoveryStarts, DiscoveryNext, PTL

-----------------------------------------------------------------------------
(* Theorems *)

\* Whatever is lost, duplicated or reordered and whoever crashes or restarts, the
\* state is well typed, and no process takes itself for a peer.
THEOREM DiscoveryWellTyped == FairSpec => []TypeOK
<1>1. DiscoveryInv => TypeOK
  <2> SUFFICES ASSUME DiscoveryInv PROVE TypeOK
    OBVIOUS
  <2>1. Types /\ NotSelf
    BY DEF DiscoveryInv
  <2>2. \A p \in Ports :
          /\ matched[p] \in 0 .. (Cardinality(Participants) + 1)
          /\ recv[p] \in {Idle, Recomputing} \cup [at : {"up"}, peer : Ports]
                           \cup [at : {"frame"}, frame : Frames]
          /\ {sweep[p], app[p]} \subseteq {Idle, Recomputing}
          /\ announcer[p] \in {Idle, [at |-> "broadcast"]}
    BY <2>1, Zenon DEF Types, Counts, RecvStates, CallStates, AnnouncerStates
  <2>3. {changes, faults} \subseteq Nat
    BY <2>1, Bounds DEF Types
  <2> QED
    BY <2>1, <2>2, <2>3 DEF TypeOK, Types, NotSelf, Endpoints
<1> QED
  BY <1>1, DiscoveryInvariant, PTL

\* handle_announce() compares sequence numbers only, and peer-up announcements reuse
\* them; all the same no view returns to an earlier snapshot of its participant.
THEOREM ViewsNeverGoBack == FairSpec => ViewNeverGoesBack
<1>1. ASSUME DiscoveryInv, [Next \/ Stabilise]_vars,
             NEW p \in Ports, NEW x \in Participants,
             remote[p][x] # Unknown, remote'[p][x] # Unknown
      PROVE  remote'[p][x].version >= remote[p][x].version
  <2>0. Types /\ Ordered
    BY <1>1 DEF DiscoveryInv
  <2>1. remote[p][x] \in View
    BY <1>1, <2>0 DEF Types
  <2>2. remote[p][x].version \in Nat /\ remote[p][x].seq \in Nat
    BY <2>1, Bounds DEF View
  <2>3. CASE remote'[p][x] = remote[p][x]
    BY <2>2, <2>3
  <2>4. CASE remote'[p][x] # remote[p][x]
    <3>1. HandleAnnounce(p)
      <4>1. \/ UNCHANGED remote \/ \E f \in Ports : HandleAnnounce(f) \/ Restart(f)
            \/ \E f, q \in Ports : HandlePeerDown(f, q)
        BY <1>1 DEF Next, ThreadsOf, Stabilise, vars, Presence, SweepPeers, ChangeEndpoints,
              NextRound, HandlePeerUp, Recompute, Broadcast, Crash, ReceiveFrame
      <4>2. ASSUME NEW f \in Ports, NEW q \in Ports, HandlePeerDown(f, q)
            PROVE  remote'[p][x] = remote[p][x] \/ remote'[p][x] = Unknown
        <5>. PICK r : r = [y \in Participants |->
                        IF y[1] = q /\ remote[f][y] # Unknown THEN Unknown
                        ELSE remote[f][y]]
          OBVIOUS
        <5>1. remote' = [remote EXCEPT ![f] = r]
          BY <4>2 DEF HandlePeerDown
        <5>2. remote'[p] = IF p = f THEN r ELSE remote[p]
          BY <2>0, <5>1 DEF Types
        <5> QED
          BY <5>2
      <4>3. ASSUME NEW f \in Ports, Restart(f)
            PROVE  remote'[p][x] = remote[p][x] \/ remote'[p][x] = Unknown
        BY <2>0, <4>3 DEF Restart, Types
      <4>4. ASSUME NEW f \in Ports, HandleAnnounce(f) PROVE f = p
        <5>1. PICK m \in Frames : Taken(f, m)
          BY <2>0, <4>4, AnnounceTaken
        <5> QED
          BY <2>4, <5>1 DEF Taken
      <4> QED
        BY <1>1, <2>4, <4>1, <4>2, <4>3, <4>4
    <3>. PICK m \in Frames : Taken(p, m)
      BY <2>0, <3>1, AnnounceTaken
    <3>2. /\ recv[p].at = "frame" /\ m = recv[p].frame
          /\ x = m.guid /\ ~Stale(remote[p][x], m)
          /\ remote'[p][x] = [seq |-> m.seq, reader |-> m.reader, version |-> m.version]
      BY <2>4 DEF Taken
    <3>3. m.seq \in Nat /\ m.version \in Nat
      BY Bounds DEF Frames
    <3>4. Said(x, m.seq, m.version)
      BY <3>2 DEF Said
    <3>5. Said(x, remote[p][x].seq, remote[p][x].version)
      BY <1>1 DEF Said
    <3>6. remote[p][x].seq < m.seq
      BY <1>1, <2>2, <3>2, <3>3 DEF Stale
    <3>7. remote[p][x].version <= m.version
      BY <2>0, <2>2, <3>3, <3>4, <3>5, <3>6 DEF Ordered
    <3> QED
      BY <2>2, <3>2, <3>3, <3>7
  <2> QED
    BY <2>3, <2>4
<1>2. DiscoveryInv /\ [Next \/ Stabilise]_vars =>
        [\A p \in Ports : \A x \in Participants :
           remote[p][x] # Unknown /\ remote'[p][x] # Unknown =>
             remote'[p][x].version >= remote[p][x].version]_vars
  BY <1>1
<1>3. FairSpec => [][Next \/ Stabilise]_vars
  BY PTL DEF FairSpec
<1> QED
  BY <1>2, <1>3, DiscoveryInvariant, PTL DEF ViewNeverGoesBack

-----------------------------------------------------------------------------
(* Matched counts *)

\* A thread of p is between its change and its recompute_matches().
Pending(p) == Recomputing \in {recv[p], sweep[p], app[p]}
CountRight(p) == alive[p] /\ ~Pending(p) => matched[p] = MatchCount(p)
HasReader(p, x) == remote[p][x] # Unknown /\ remote[p][x].reader

\* The count depends on which participants have a reader, and on nothing else.
LEMMA SameCount ==
  ASSUME NEW p \in Ports, endpoints'[p] = endpoints[p],
         \A x \in Participants : HasReader(p, x)' <=> HasReader(p, x)
  PROVE  MatchCount(p)' = MatchCount(p)
<1>1. {x \in Participants : HasReader(p, x)'} = {x \in Participants : HasReader(p, x)}
  OBVIOUS
<1>2. PICK a, b : /\ a = Cardinality({x \in Participants : HasReader(p, x)})
                  /\ b = IF endpoints[p].reader THEN 1 ELSE 0
  OBVIOUS
<1>3. PICK c, d : /\ c = Cardinality({x \in Participants : HasReader(p, x)'})
                  /\ d = IF endpoints'[p].reader THEN 1 ELSE 0
  OBVIOUS
<1>4. MatchCount(p) = a + b
  BY <1>2 DEF MatchCount, HasReader
<1>5. MatchCount(p)' = c + d
  BY <1>3 DEF MatchCount, HasReader
<1>6. a = c
  BY <1>1, <1>2, <1>3, Zenon
<1>7. b = d
  BY <1>2, <1>3
<1> QED
  BY <1>4, <1>5, <1>6, <1>7

\* A step that changes nothing the count of p depends on, and does not take a
\* recomputation away.
LEMMA CountKept ==
  ASSUME NEW p \in Ports, CountRight(p), alive'[p] = alive[p], matched'[p] = matched[p],
         endpoints'[p] = endpoints[p], remote'[p] = remote[p], Pending(p) => Pending(p)'
  PROVE  CountRight(p)'
<1>1. MatchCount(p)' = MatchCount(p)
  BY SameCount DEF HasReader
<1> QED
  BY <1>1 DEF CountRight

\* handle_announce() asks for a recomputation when the count may have changed.
LEMMA AnnounceCounts ==
  ASSUME Types, NEW p \in Ports, CountRight(p), HandleAnnounce(p)
  PROVE  CountRight(p)'
<1>. PICK m : m = recv[p].frame
  OBVIOUS
<1>. PICK n : n = [seq |-> m.seq, reader |-> m.reader, version |-> m.version]
  OBVIOUS
<1>. PICK view : view = remote[p][m.guid]
  OBVIOUS
<1>1. /\ recv[p].at = "frame" /\ recv[p] # Recomputing
      /\ UNCHANGED <<alive, endpoints, matched, sweep, dead, app>>
  BY ThreadStates DEF HandleAnnounce
<1>2. CASE recv' = [recv EXCEPT ![p] = Recomputing]
  <2>1. recv'[p] = Recomputing
    BY <1>2 DEF Types
  <2> QED
    BY <2>1 DEF CountRight, Pending
<1>3. CASE ~(recv' = [recv EXCEPT ![p] = Recomputing])
  <2>1. \/ remote' = remote
        \/ ~Changed(view, m) /\ remote' = [remote EXCEPT ![p][m.guid] = n]
    BY <1>3 DEF HandleAnnounce
  <2>2. \A x \in Participants : HasReader(p, x)' <=> HasReader(p, x)
    <3>1. CASE remote' = remote
      BY <3>1 DEF HasReader
    <3>2. CASE ~Changed(view, m) /\ remote' = [remote EXCEPT ![p][m.guid] = n]
      <4>1. m \in Frames
        BY <1>1, ThreadStates DEF Types
      <4>2. m.guid \in Participants /\ n \in View /\ n.reader = m.reader
        BY <4>1 DEF Frames, View
      <4>3. view # Unknown /\ view.reader = m.reader
        BY <3>2 DEF Changed
      <4>4. n # Unknown
        BY <4>2 DEF View, Unknown
      <4>5. \A x \in Participants : remote'[p][x] = IF x = m.guid THEN n ELSE remote[p][x]
        BY <3>2, <4>2 DEF Types
      <4> QED
        BY <4>2, <4>3, <4>4, <4>5 DEF HasReader
    <3> QED
      BY <2>1, <3>1, <3>2
  <2>3. MatchCount(p)' = MatchCount(p)
    BY <1>1, <2>2, SameCount
  <2>4. Pending(p) => Pending(p)'
    BY <1>1 DEF Pending
  <2> QED
    BY <1>1, <2>3, <2>4 DEF CountRight
<1> QED
  BY <1>2, <1>3

\* handle_peer_down() asks for a recomputation when it removed a participant.
LEMMA PeerDownCounts ==
  ASSUME Types, NEW p \in Ports, NEW q \in Ports, CountRight(p), HandlePeerDown(p, q)
  PROVE  CountRight(p)'
<1>. PICK gone : gone = {x \in Participants : x[1] = q /\ remote[p][x] # Unknown}
  OBVIOUS
<1>1. /\ sweep[p] # Recomputing
      /\ remote' = [remote EXCEPT ![p] = [x \in Participants |->
                      IF x \in gone THEN Unknown ELSE remote[p][x]]]
      /\ sweep' = [sweep EXCEPT ![p] = IF gone # {} THEN Recomputing ELSE Idle]
      /\ UNCHANGED <<alive, endpoints, matched, recv, app>>
  BY ThreadStates DEF HandlePeerDown
<1>2. CASE gone # {}
  <2>1. sweep'[p] = Recomputing
    BY <1>1, <1>2 DEF Types
  <2> QED
    BY <2>1 DEF CountRight, Pending
<1>3. CASE gone = {}
  <2>1. \A x \in Participants : remote'[p][x] = remote[p][x]
    BY <1>1, <1>3 DEF Types
  <2>2. MatchCount(p)' = MatchCount(p)
    BY <1>1, <2>1, SameCount DEF HasReader
  <2>3. Pending(p) => Pending(p)'
    BY <1>1 DEF Pending
  <2> QED
    BY <1>1, <2>2, <2>3 DEF CountRight
<1> QED
  BY <1>2, <1>3

\* Another process of the port has no readers and knows nobody.
LEMMA RestartCounts ==
  ASSUME Types, NEW p \in Ports, Restart(p)
  PROVE  CountRight(p)'
<1>1. /\ matched'[p] = 0 /\ endpoints'[p].reader = FALSE
      /\ \A x \in Participants : remote'[p][x] = Unknown
  BY DEF Restart, Types
<1>2. {x \in Participants : remote'[p][x] # Unknown /\ remote'[p][x].reader} = {}
  BY <1>1
<1>3. MatchCount(p)' = 0
  <2>1. MatchCount(p)' = Cardinality({}) + 0
    BY <1>1, <1>2, Zenon DEF MatchCount
  <2>2. Cardinality({}) = 0
    BY FS_EmptySet
  <2> QED
    BY <2>1, <2>2
<1> QED
  BY <1>1, <1>3 DEF CountRight

\* Each step keeps every count right.
LEMMA CountsStep ==
  ASSUME Types, \A p \in Ports : CountRight(p), Next \/ Stabilise, NEW p \in Ports
  PROVE  CountRight(p)'
<1>0. CountRight(p)
  OBVIOUS
<1>1. CASE Stabilise
  BY <1>0, <1>1, CountKept DEF Stabilise, threads, Pending
<1>2. ASSUME NEW f \in Ports, NEW q \in Ports, Presence(f, q) PROVE CountRight(p)'
  <2>1. recv[f] = Idle /\ recv' = [recv EXCEPT ![f] = [at |-> "up", peer |-> q]]
    BY <1>2 DEF Presence
  <2>2. recv'[p] = recv[p] \/ recv[p] # Recomputing
    BY <2>1, ThreadStates DEF Types
  <2> QED
    BY <1>0, <1>2, <2>2, CountKept DEF Presence, Pending
<1>3. ASSUME NEW f \in Ports, NEW gone \in SUBSET Ports, SweepPeers(f, gone)
      PROVE  CountRight(p)'
  BY <1>0, <1>3, CountKept DEF SweepPeers, Pending
<1>4. ASSUME NEW f \in Ports, ChangeEndpoints(f) PROVE CountRight(p)'
  <2>1. CASE f = p
    <3>1. app'[p] = Recomputing
      BY <1>4, <2>1 DEF ChangeEndpoints, Types
    <3> QED
      BY <3>1 DEF CountRight, Pending
  <2>2. CASE f # p
    <3>1. endpoints'[p] = endpoints[p] /\ app'[p] = app[p]
      BY <1>4, <2>2 DEF ChangeEndpoints, Types
    <3> QED
      BY <1>0, <1>4, <3>1, CountKept DEF ChangeEndpoints, Pending
  <2> QED
    BY <2>1, <2>2
<1>5. ASSUME NEW f \in Ports, NextRound(f) \/ Broadcast(f) PROVE CountRight(p)'
  BY <1>0, <1>5, CountKept DEF NextRound, Broadcast, Pending
<1>6. ASSUME NEW f \in Ports, HandlePeerUp(f) PROVE CountRight(p)'
  <2>1. recv[f].at = "up" /\ recv' = [recv EXCEPT ![f] = Idle]
    BY <1>6 DEF HandlePeerUp
  <2>2. recv'[p] = recv[p] \/ recv[p] # Recomputing
    BY <2>1, ThreadStates DEF Types
  <2> QED
    BY <1>0, <1>6, <2>2, CountKept DEF HandlePeerUp, Pending
<1>7. ASSUME NEW f \in Ports, NEW q \in Ports, HandlePeerDown(f, q) PROVE CountRight(p)'
  <2>1. CASE f = p
    BY <1>0, <1>7, <2>1, PeerDownCounts
  <2>2. CASE f # p
    <3>1. remote'[p] = remote[p] /\ sweep'[p] = sweep[p]
      BY <1>7, <2>2 DEF HandlePeerDown, Types
    <3> QED
      BY <1>0, <1>7, <3>1, CountKept DEF HandlePeerDown, Pending
  <2> QED
    BY <2>1, <2>2
<1>8. ASSUME NEW f \in Ports, HandleAnnounce(f) PROVE CountRight(p)'
  <2>1. CASE f = p
    BY <1>0, <1>8, <2>1, AnnounceCounts
  <2>2. CASE f # p
    <3>1. remote'[p] = remote[p] /\ recv'[p] = recv[p]
      BY <1>8, <2>2 DEF HandleAnnounce, Types
    <3> QED
      BY <1>0, <1>8, <3>1, CountKept DEF HandleAnnounce, Pending
  <2> QED
    BY <2>1, <2>2
<1>9. ASSUME NEW f \in Ports, Recompute(f) PROVE CountRight(p)'
  <2>1. /\ matched' = [matched EXCEPT ![f] = MatchCount(f)]
        /\ recv' = recv \/ recv' = [recv EXCEPT ![f] = Idle]
        /\ sweep' = sweep \/ sweep' = [sweep EXCEPT ![f] = Idle]
        /\ app' = app \/ app' = [app EXCEPT ![f] = Idle]
        /\ UNCHANGED <<alive, endpoints, remote>>
    BY <1>9 DEF Recompute
  <2>2. CASE f = p
    <3>1. matched'[p] = MatchCount(p)
      BY <2>1, <2>2 DEF Types
    <3>2. MatchCount(p)' = MatchCount(p)
      BY <2>1 DEF MatchCount
    <3> QED
      BY <3>1, <3>2 DEF CountRight
  <2>3. CASE f # p
    <3>1. matched'[p] = matched[p] /\ recv'[p] = recv[p] /\ sweep'[p] = sweep[p] /\ app'[p] = app[p]
      BY <2>1, <2>3 DEF Types
    <3> QED
      BY <1>0, <2>1, <3>1, CountKept DEF Pending
  <2> QED
    BY <2>2, <2>3
<1>10. ASSUME NEW f \in Ports, Crash(f) PROVE CountRight(p)'
  <2>1. CASE f = p
    <3>1. alive'[p] = FALSE
      BY <1>10, <2>1 DEF Crash, Types
    <3> QED
      BY <3>1 DEF CountRight
  <2>2. CASE f # p
    <3>1. alive'[p] = alive[p] /\ recv'[p] = recv[p] /\ sweep'[p] = sweep[p] /\ app'[p] = app[p]
      BY <1>10, <2>2 DEF Crash, Types
    <3> QED
      BY <1>0, <1>10, <3>1, CountKept DEF Crash, Pending
  <2> QED
    BY <2>1, <2>2
<1>11. ASSUME NEW f \in Ports, Restart(f) PROVE CountRight(p)'
  <2>1. CASE f = p
    BY <1>11, <2>1, RestartCounts
  <2>2. CASE f # p
    <3>1. /\ alive'[p] = alive[p] /\ matched'[p] = matched[p]
          /\ endpoints'[p] = endpoints[p] /\ remote'[p] = remote[p]
      BY <1>11, <2>2 DEF Restart, Types
    <3> QED
      BY <1>0, <1>11, <3>1, CountKept DEF Restart, Pending, threads
  <2> QED
    BY <2>1, <2>2
<1>12. ASSUME NEW m \in net, ReceiveFrame(m) PROVE CountRight(p)'
  <2>1. recv[m.to] = Idle /\ \E a : recv' = [recv EXCEPT ![m.to] = a]
    BY <1>12 DEF ReceiveFrame
  <2>2. recv'[p] = recv[p] \/ recv[p] # Recomputing
    BY <2>1, ThreadStates DEF Types
  <2> QED
    BY <1>0, <1>12, <2>2, CountKept DEF ReceiveFrame, Pending
<1> QED
  BY <1>1, <1>2, <1>3, <1>4, <1>5, <1>6, <1>7, <1>8, <1>9, <1>10, <1>11, <1>12 DEF Next, ThreadsOf

\* Three threads change what a matched count depends on and recompute it later, each
\* under its own lock; whatever their order, the count is right when none is about to.
THEOREM MatchedCountsRight == FairSpec => []MatchedWhenQuiet
<1>. DEFINE Right == \A p \in Ports : CountRight(p)
<1>1. Init => Right
  <2> SUFFICES ASSUME Init, NEW p \in Ports PROVE matched[p] = MatchCount(p)
    BY DEF CountRight
  <2>1. /\ matched[p] = 0 /\ endpoints[p].reader = FALSE
        /\ \A x \in Participants : remote[p][x] = Unknown
    BY DEF Init
  <2>2. {x \in Participants : remote[p][x] # Unknown /\ remote[p][x].reader} = {}
    BY <2>1
  <2> QED
    BY <2>1, <2>2, FS_EmptySet DEF MatchCount
<1>2. DiscoveryInv /\ Right /\ [Next \/ Stabilise]_vars => Right'
  <2> SUFFICES ASSUME DiscoveryInv, Right, [Next \/ Stabilise]_vars, NEW p \in Ports
               PROVE  CountRight(p)'
    OBVIOUS
  <2>1. CASE UNCHANGED vars
    BY <2>1, CountKept DEF vars, threads, Pending
  <2>2. CASE Next \/ Stabilise
    BY <2>2, CountsStep DEF DiscoveryInv
  <2> QED
    BY <2>1, <2>2
<1>3. Right => MatchedWhenQuiet
  BY DEF CountRight, Pending, MatchedWhenQuiet
<1>4. FairSpec => Init /\ [][Next \/ Stabilise]_vars
  BY PTL DEF FairSpec
<1>. HIDE DEF Right
<1> QED
  BY <1>1, <1>2, <1>3, <1>4, DiscoveryInvariant, PTL
=============================================================================
