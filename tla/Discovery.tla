----------------------------- MODULE Discovery -----------------------------
(***************************************************************************)
(* Discovery over the UDP transport: the peer table that presence datagrams *)
(* keep alive (transport_udp.cpp), the participant's own set of peers and   *)
(* its view of the remote participants (participant.cpp), and the full      *)
(* ANNOUNCE snapshots between them.                                         *)
(*                                                                         *)
(* Four threads of a process take part.  The receive thread and the UDP     *)
(* announce thread change the peer table under peers_mutex_ and call the    *)
(* participant after they released it; the participant's announce thread    *)
(* and the application change its state under mutex_.  A process may crash, *)
(* and another start on the same port: a new participant, the same PeerId.  *)
(* Datagrams are lost, duplicated and reordered.                            *)
(***************************************************************************)
EXTENDS Integers, FiniteSets

CONSTANTS
  Ports,        \* UDP ports, one process each
  MaxRounds,    \* bound: announce rounds of a process before the network is calm
  MaxChanges,   \* bound: endpoint changes
  MaxFaults,    \* bound: crashes, and peers timed out though they are alive
  MaxNet        \* bound: frames in flight

ASSUME DiscoveryAssumption ==
  /\ IsFiniteSet(Ports)
  /\ {MaxRounds, MaxChanges, MaxFaults, MaxNet} \subseteq Nat

VARIABLES
  alive,         \* alive[p]: a process has bound port p
  inc,           \* inc[p]: how many processes had p before; the participant GUID
  endpoints,     \* endpoints[p]: a matching reader exists, and the number of changes
  announce_seq,  \* announce_seq_
  table,         \* UdpLoopbackTransport::peers_
  peers,         \* ParticipantImpl::peers_
  remote,        \* remote_
  matched,       \* matched_count_ of a writer of p
  recv, sweep, app, announcer,  \* where the four threads are
  dead,          \* dead of sweep_peers(): erased peers whose down call is to come
  net,           \* ANNOUNCE frames in flight
  calm,          \* the network has stopped losing and duplicating frames
  changes, faults  \* how often

threads == <<recv, sweep, dead, app, announcer>>
budget == <<changes, faults>>
vars == <<alive, inc, endpoints, announce_seq, table, peers, remote, matched, threads,
          net, calm, budget>>

Participants == Ports \X (0 .. MaxFaults)
Unknown == [seq |-> -1]
Idle == [at |-> "idle"]
Recomputing == [at |-> "recompute"]

Init ==
  /\ alive = [p \in Ports |-> TRUE]
  /\ inc = [p \in Ports |-> 0]
  /\ endpoints = [p \in Ports |-> [reader |-> FALSE, version |-> 0]]
  /\ announce_seq = [p \in Ports |-> 0]
  /\ table = [p \in Ports |-> {}]
  /\ peers = [p \in Ports |-> {}]
  /\ remote = [p \in Ports |-> [x \in Participants |-> Unknown]]
  /\ matched = [p \in Ports |-> 0]
  /\ recv = [p \in Ports |-> Idle]
  /\ sweep = [p \in Ports |-> Idle]
  /\ dead = [p \in Ports |-> {}]
  /\ app = [p \in Ports |-> Idle]
  /\ announcer = [p \in Ports |-> Idle]
  /\ net = {}
  /\ calm = FALSE
  /\ changes = 0 /\ faults = 0

-----------------------------------------------------------------------------
(* Helpers *)

Self(p) == <<p, inc[p]>>

\* snapshot_locked() with the announce_seq_ of the moment, addressed to q.
Announce(p, q) ==
  [to |-> q, from |-> p, guid |-> Self(p), seq |-> announce_seq[p],
   reader |-> endpoints[p].reader, version |-> endpoints[p].version]

\* send() refuses a frame for a peer that is not in the table any more.  The
\* network loses any frame before it is calm, and those to a dead process at any
\* time.
Send(base, out) ==
  LET heard == {m \in out : m.to \in table[m.from] /\ alive[m.to]}
  IN  \/ /\ calm
         /\ net' = base \cup heard
      \/ /\ ~calm
         /\ \E kept \in SUBSET heard :
              /\ Cardinality(base \cup kept) <= MaxNet
              /\ net' = base \cup kept

AfterReceipt(m) == IF calm THEN {net \ {m}} ELSE {net, net \ {m}}

\* What recompute_matches() finds for a writer of p: readers of known
\* participants and of its own.
MatchCount(p) ==
  Cardinality({x \in Participants : remote[p][x] # Unknown /\ remote[p][x].reader})
    + IF endpoints[p].reader THEN 1 ELSE 0

\* q's view of p is what p is now.
Current(q, p) ==
  LET view == remote[q][Self(p)]
  IN  view # Unknown /\ view.reader = endpoints[p].reader

-----------------------------------------------------------------------------
(* Presence *)

\* Mutation: a datagram of its own is not told apart.
PresenceOfAnyone(p, q) ==
  /\ alive[p] /\ alive[q]
  /\ recv[p] = Idle
  /\ q \notin table[p]
  /\ table' = [table EXCEPT ![p] = @ \cup {q}]
  /\ recv' = [recv EXCEPT ![p] = [at |-> "up", peer |-> q]]
  /\ UNCHANGED <<alive, inc, endpoints, announce_seq, peers, remote, matched, sweep,
                 dead, app, announcer, net, calm, budget>>

\* recv_loop(), a presence datagram from a peer that is not in the table; one
\* from a known peer only renews its timestamp.
Presence(p, q) ==
  /\ alive[p] /\ alive[q] /\ p # q
  /\ recv[p] = Idle
  /\ q \notin table[p]
  /\ table' = [table EXCEPT ![p] = @ \cup {q}]
  /\ recv' = [recv EXCEPT ![p] = [at |-> "up", peer |-> q]]
  /\ UNCHANGED <<alive, inc, endpoints, announce_seq, peers, remote, matched, sweep,
                 dead, app, announcer, net, calm, budget>>

\* handle_peer_up() with send_announce()
HandlePeerUp(p) ==
  LET q == recv[p].peer
  IN  /\ recv[p].at = "up"
      /\ peers' = [peers EXCEPT ![p] = @ \cup {q}]
      /\ Send(net, {Announce(p, q)})
      /\ recv' = [recv EXCEPT ![p] = Idle]
      /\ UNCHANGED <<alive, inc, endpoints, announce_seq, table, remote, matched, sweep,
                     dead, app, announcer, calm, budget>>

\* sweep_peers(): no presence for four periods, since the process is gone or
\* since the network lost it.  All such peers are erased at once.
SweepPeers(p, gone) ==
  LET silent == {q \in gone : alive[q]}
  IN  /\ alive[p] /\ sweep[p] = Idle /\ dead[p] = {}
      /\ gone # {} /\ gone \subseteq table[p]
      /\ calm => silent = {}
      /\ faults' = faults + Cardinality(silent)
      /\ faults' <= MaxFaults
      /\ table' = [table EXCEPT ![p] = @ \ gone]
      /\ dead' = [dead EXCEPT ![p] = gone]
      /\ UNCHANGED <<alive, inc, endpoints, announce_seq, peers, remote, matched, recv,
                     sweep, app, announcer, net, calm, changes>>

\* handle_peer_down(), the next of the down calls: forget all participants behind
\* the peer.
HandlePeerDown(p, q) ==
  LET gone == {x \in Participants : x[1] = q /\ remote[p][x] # Unknown}
  IN  /\ sweep[p] = Idle /\ q \in dead[p]
      /\ dead' = [dead EXCEPT ![p] = @ \ {q}]
      /\ peers' = [peers EXCEPT ![p] = @ \ {q}]
      /\ remote' = [remote EXCEPT ![p] = [x \in Participants |->
                      IF x \in gone THEN Unknown ELSE remote[p][x]]]
      /\ sweep' = [sweep EXCEPT ![p] = IF gone # {} THEN Recomputing ELSE Idle]
      /\ UNCHANGED <<alive, inc, endpoints, announce_seq, table, matched, recv, app,
                     announcer, net, calm, budget>>

-----------------------------------------------------------------------------
(* Announcing *)

\* create_reader() and destroy_reader() change the snapshot; announce_now()
\* notifies the announce thread, whose wait goes on because its predicate is
\* false.
ChangeEndpoints(p) ==
  /\ alive[p] /\ app[p] = Idle
  /\ changes < MaxChanges
  /\ changes' = changes + 1
  /\ endpoints' = [endpoints EXCEPT ![p] =
       [reader |-> ~endpoints[p].reader, version |-> endpoints[p].version + 1]]
  /\ app' = [app EXCEPT ![p] = Recomputing]
  /\ UNCHANGED <<alive, inc, announce_seq, table, peers, remote, matched, recv, sweep,
                 dead, announcer, net, calm, faults>>

\* Rounds that would tell nobody anything new are left out once the network is
\* calm, and a round begins when the frames of the last one are processed.
RoundDue(p) ==
  IF calm
  THEN /\ net = {}
       /\ \A q \in Ports : recv[q] = Idle
       /\ \E q \in peers[p] \cap table[p] : alive[q] /\ p \in table[q] /\ ~Current(q, p)
  ELSE announce_seq[p] < MaxRounds

\* Mutation: the sequence number stays.
NextRoundSameSeq(p) ==
  /\ alive[p] /\ announcer[p] = Idle
  /\ RoundDue(p)
  /\ announcer' = [announcer EXCEPT ![p] = [at |-> "broadcast"]]
  /\ UNCHANGED <<alive, inc, endpoints, announce_seq, table, peers, remote, matched,
                 recv, sweep, dead, app, net, calm, budget>>

\* announce_loop(): the sequence number first ...
NextRound(p) ==
  /\ alive[p] /\ announcer[p] = Idle
  /\ RoundDue(p)
  /\ announce_seq' = [announce_seq EXCEPT ![p] = @ + 1]
  /\ announcer' = [announcer EXCEPT ![p] = [at |-> "broadcast"]]
  /\ UNCHANGED <<alive, inc, endpoints, table, peers, remote, matched, recv, sweep,
                 dead, app, net, calm, budget>>

\* ... then broadcast_announce(), to the peers of that moment.
Broadcast(p) ==
  /\ announcer[p].at = "broadcast"
  /\ Send(net, {Announce(p, q) : q \in peers[p]})
  /\ announcer' = [announcer EXCEPT ![p] = Idle]
  /\ UNCHANGED <<alive, inc, endpoints, announce_seq, table, peers, remote, matched,
                 recv, sweep, dead, app, calm, budget>>

\* recv_loop(), a data frame: dropped unless its sender is in the table.
ReceiveFrame(m) ==
  /\ recv[m.to] = Idle
  /\ net' \in AfterReceipt(m)
  /\ recv' = [recv EXCEPT ![m.to] =
       IF m.from \in table[m.to] THEN [at |-> "frame", frame |-> m] ELSE Idle]
  /\ UNCHANGED <<alive, inc, endpoints, announce_seq, table, peers, remote, matched,
                 sweep, dead, app, announcer, calm, budget>>

\* Mutation: an announcement with the sequence number already seen is taken.
StaleIfOlder(view, m) == view # Unknown /\ view.seq > m.seq

\* handle_announce() drops what it has seen before.
Stale(view, m) == view # Unknown /\ view.seq >= m.seq

\* Mutation: only a new participant counts as a change.
ChangedIfNew(view, m) == view = Unknown

\* The graph changed.
Changed(view, m) == view = Unknown \/ view.reader # m.reader

\* handle_announce(), up to the unlock.
HandleAnnounce(p) ==
  LET m    == recv[p].frame
      view == remote[p][m.guid]
  IN  /\ recv[p].at = "frame"
      /\ \/ /\ Stale(view, m)
            /\ recv' = [recv EXCEPT ![p] = Idle]
            /\ UNCHANGED remote
         \/ /\ ~Stale(view, m)
            /\ remote' = [remote EXCEPT ![p][m.guid] =
                 [seq |-> m.seq, reader |-> m.reader, version |-> m.version]]
            /\ recv' = [recv EXCEPT ![p] = IF Changed(view, m) THEN Recomputing ELSE Idle]
      /\ UNCHANGED <<alive, inc, endpoints, announce_seq, table, peers, matched, sweep,
                     dead, app, announcer, net, calm, budget>>

\* recompute_matches(), which locks mutex_ anew, by any of the three threads.
Recompute(p) ==
  /\ matched' = [matched EXCEPT ![p] = MatchCount(p)]
  /\ \/ /\ recv[p] = Recomputing
        /\ recv' = [recv EXCEPT ![p] = Idle]
        /\ UNCHANGED <<sweep, app>>
     \/ /\ sweep[p] = Recomputing
        /\ sweep' = [sweep EXCEPT ![p] = Idle]
        /\ UNCHANGED <<recv, app>>
     \/ /\ app[p] = Recomputing
        /\ app' = [app EXCEPT ![p] = Idle]
        /\ UNCHANGED <<recv, sweep>>
  /\ UNCHANGED <<alive, inc, endpoints, announce_seq, table, peers, remote, announcer,
                 net, calm, dead, budget>>

-----------------------------------------------------------------------------
(* Processes *)

\* A process ends, orderly or not: its last announcement stays.
Crash(p) ==
  /\ alive[p] /\ faults < MaxFaults
  /\ faults' = faults + 1
  /\ alive' = [alive EXCEPT ![p] = FALSE]
  /\ recv' = [recv EXCEPT ![p] = Idle]
  /\ sweep' = [sweep EXCEPT ![p] = Idle]
  /\ dead' = [dead EXCEPT ![p] = {}]
  /\ app' = [app EXCEPT ![p] = Idle]
  /\ announcer' = [announcer EXCEPT ![p] = Idle]
  /\ net' = {m \in net : m.to # p}
  /\ UNCHANGED <<inc, endpoints, announce_seq, table, peers, remote, matched, calm,
                 changes>>

\* start() binds the first free port, which may be the one of a process that
\* just ended.
Restart(p) ==
  /\ ~alive[p]
  /\ alive' = [alive EXCEPT ![p] = TRUE]
  /\ inc' = [inc EXCEPT ![p] = @ + 1]
  /\ endpoints' = [endpoints EXCEPT ![p] = [reader |-> FALSE, version |-> 0]]
  /\ announce_seq' = [announce_seq EXCEPT ![p] = 0]
  /\ table' = [table EXCEPT ![p] = {}]
  /\ peers' = [peers EXCEPT ![p] = {}]
  /\ remote' = [remote EXCEPT ![p] = [x \in Participants |-> Unknown]]
  /\ matched' = [matched EXCEPT ![p] = 0]
  /\ UNCHANGED <<threads, net, calm, budget>>

ThreadsOf(p) ==
  HandlePeerUp(p) \/ HandleAnnounce(p) \/ Recompute(p) \/ Broadcast(p)

Next ==
  \/ \E p, q \in Ports : Presence(p, q) \/ HandlePeerDown(p, q)
  \/ \E p \in Ports, gone \in SUBSET Ports : SweepPeers(p, gone)
  \/ \E p \in Ports : ChangeEndpoints(p) \/ NextRound(p) \/ ThreadsOf(p)
  \/ \E p \in Ports : Crash(p) \/ Restart(p)
  \/ \E m \in net : ReceiveFrame(m)

Spec == Init /\ [][Next]_vars

\* The network becomes calm.
Stabilise ==
  /\ ~calm
  /\ calm' = TRUE
  /\ UNCHANGED <<alive, inc, endpoints, announce_seq, table, peers, remote, matched,
                 threads, net, budget>>

(***************************************************************************)
(* Fairness.  Both announce threads of a live process run periodically and  *)
(* its receive thread reads what arrives; threads finish their calls; the   *)
(* network is calm in the end.  Nothing else has to happen: no process need *)
(* crash, restart or change an endpoint.                                    *)
(***************************************************************************)
FairSpec ==
  /\ Init /\ [][Next \/ Stabilise]_vars
  /\ WF_vars(Stabilise)
  /\ \A p, q \in Ports :
       /\ WF_vars(Presence(p, q)) /\ WF_vars(HandlePeerDown(p, q))
       /\ WF_vars(~alive[q] /\ \E gone \in SUBSET Ports : q \in gone /\ SweepPeers(p, gone))
  /\ \A p \in Ports :
       /\ WF_vars(HandlePeerUp(p))
       /\ WF_vars(HandleAnnounce(p)) /\ WF_vars(Recompute(p))
       /\ WF_vars(NextRound(p)) /\ WF_vars(Broadcast(p))
       /\ WF_vars(\E m \in net : m.to = p /\ ReceiveFrame(m))
-----------------------------------------------------------------------------
(* Properties *)

View == [seq : Nat, reader : BOOLEAN, version : 0 .. MaxChanges]

Frames ==
  [to : Ports, from : Ports, guid : Participants, seq : Nat, reader : BOOLEAN,
   version : 0 .. MaxChanges]

\* Type invariant of discovery; no process takes itself for a peer.
TypeOK ==
  /\ alive \in [Ports -> BOOLEAN]
  /\ inc \in [Ports -> 0 .. MaxFaults]
  /\ endpoints \in [Ports -> [reader : BOOLEAN, version : 0 .. MaxChanges]]
  /\ announce_seq \in [Ports -> Nat]
  /\ table \in [Ports -> SUBSET Ports] /\ peers \in [Ports -> SUBSET Ports]
  /\ \A p \in Ports : p \notin table[p] \cup peers[p]
  /\ remote \in [Ports -> [Participants -> View \cup {Unknown}]]
  /\ \A p \in Ports : matched[p] \in 0 .. (Cardinality(Participants) + 1)
  /\ \A p \in Ports : recv[p] \in {Idle, Recomputing} \cup [at : {"up"}, peer : Ports]
                                    \cup [at : {"frame"}, frame : Frames]
  /\ \A p \in Ports : {sweep[p], app[p]} \subseteq {Idle, Recomputing}
  /\ dead \in [Ports -> SUBSET Ports]
  /\ \A p \in Ports : announcer[p] \in {Idle, [at |-> "broadcast"]}
  /\ net \subseteq Frames
  /\ calm \in BOOLEAN
  /\ {changes, faults} \subseteq Nat

\* However the threads interleave, a matched count is right once no thread is
\* between its change and its recompute_matches().
MatchedWhenQuiet ==
  \A p \in Ports :
    alive[p] /\ Recomputing \notin {recv[p], sweep[p], app[p]} =>
      matched[p] = MatchCount(p)

\* While a participant is known, its view only moves forward: no reordered,
\* duplicated or concurrently sent announcement takes it back to an earlier
\* snapshot, though peer-up announcements reuse sequence numbers.
ViewNeverGoesBack ==
  [][\A p \in Ports : \A x \in Participants :
       remote[p][x] # Unknown /\ remote'[p][x] # Unknown =>
         remote'[p][x].version >= remote[p][x].version]_vars

\* design.md: the periodic full ANNOUNCE makes up for lost ones.  Every live
\* process comes to know the others' endpoints.
EventuallyDiscovered ==
  <>[](\A p, q \in Ports : alive[p] /\ alive[q] /\ p # q => Current(p, q))

\* The same for the processes that still have the other as a peer.
EventuallyDiscoveredByPeers ==
  <>[](\A p, q \in Ports : alive[p] /\ alive[q] /\ p \in peers[q] => Current(p, q))

\* design.md: when a peer is gone its endpoints are removed.
EventuallyForgotten ==
  <>[](\A p \in Ports : \A x \in Participants :
         alive[p] /\ remote[p][x] # Unknown => alive[x[1]] /\ x = Self(x[1]))
=============================================================================
