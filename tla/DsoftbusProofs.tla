--------------------------- MODULE DsoftbusProofs ---------------------------
(***************************************************************************)
(* Proofs about DsoftbusConn for every set of devices and any number of     *)
(* channels and faults.  The inductive invariant is about one device at a   *)
(* time, but for Linked, which joins the two ends of a channel.             *)
(***************************************************************************)
EXTENDS DsoftbusConn, TLAPS

\* What the table says of device e at d, and the service of a channel there.
Sock(d, e) == peers[d][e].socket_fd
Pend(d, e) == peers[d][e].pending_fd
Up(d, e) == peers[d][e].up_notified
End(c, d) == ends[c][d]
LaneOf(c, d) == lane[d][c]

\* The types alone.
Types ==
  /\ running \in [Devices -> BOOLEAN] /\ instance \in [Devices -> BOOLEAN]
  /\ listening \in [Devices -> BOOLEAN]
  /\ peers \in [Devices -> [Devices -> PeerState]]
  /\ lane \in [Devices -> [Channels -> {"none", "idle", "checked"}]]
  /\ poll \in [Devices -> [at : {"asleep", "binding", "exited"}, to_bind : SUBSET Devices,
                           fd : Channels \cup {None}]]
  /\ app \in [Devices -> {"idle", "joining poll", "clearing", "joining lanes", "stopped"}]
  /\ known \in [Devices -> SUBSET Devices]
  /\ ends \in [Channels -> [Devices -> EndStates]]
  /\ abandoned \subseteq Channels \X Devices
  /\ overtaken \in [Devices -> SUBSET Devices]
  /\ faults \in 0 .. MaxFaults

\* What else TypeOK says of an entry of the table.
Entries(d) ==
  \A e \in Devices :
    /\ Up(d, e) <=> Sock(d, e) # None
    /\ Sock(d, e) # None => Sock(d, e) # Pend(d, e)

\* s_instance is set from start() to the middle of stop(): before and after,
\* nothing listens, no thread runs and the table is empty.
Phase(d) ==
  /\ instance[d] <=> app[d] \in {"idle", "joining poll", "clearing"}
  /\ app[d] = "clearing" => poll[d].at = "exited"
  /\ ~instance[d] =>
       /\ ~listening[d] /\ poll[d] = Exited
       /\ \A e \in Devices : Sock(d, e) = None /\ Pend(d, e) = None
       /\ \A c \in Channels : End(c, d) # "joining"
  /\ app[d] = "stopped" => known[d] = {} /\ overtaken[d] = {}

\* The poll thread alone creates sockets, one at a time, for devices that have
\* none pending; the socket it holds is recorded in the table.
Polling(d) ==
  /\ poll[d].at # "binding" => poll[d].to_bind = {} /\ poll[d].fd = None
  /\ d \notin poll[d].to_bind
  /\ \A e \in Devices : e \in poll[d].to_bind => Pend(d, e) \in {None, poll[d].fd}
  /\ \A c \in Channels :
       /\ End(c, d) = "created" <=> poll[d].fd = c
       /\ poll[d].fd = c => Pend(d, c.to) = c

\* What the table says of a socket agrees with the state the service has it in.
TableAt(d, e, c) ==
  /\ Sock(d, e) = c =>
       /\ e = Other(c, d)
       /\ End(c, d) \in {"upcall", "open", "lost"}
       /\ LaneOf(c, d) # "none"
  /\ Pend(d, e) = c =>
       /\ c.from = d /\ c.to = e
       /\ End(c, d) \in {"created", "binding", "failed", "bound", "lost"}

Table(d) == \A e \in Devices, c \in Channels : TableAt(d, e, c)

\* An open socket is in the table, or stop() left it behind.
OwnedAt(c, d) ==
  /\ d \notin {c.from, c.to} => End(c, d) = "none"
  /\ End(c, d) = "upcall" => Sock(d, Other(c, d)) = c
  /\ End(c, d) = "open" => Sock(d, Other(c, d)) = c \/ <<c, d>> \in abandoned
  /\ End(c, d) \in {"created", "binding", "failed", "dead"} =>
       c.from = d /\ (Pend(d, c.to) = c \/ <<c, d>> \in abandoned)

Owned(d) == \A c \in Channels : OwnedAt(c, d)

\* A lane without its channel is being joined, and its socket was not handed out
\* again.
JoinedAt(c, d) ==
  LaneOf(c, d) # "none" =>
    \/ Sock(d, Other(c, d)) = c
    \/ End(c, d) \in {"joining", "leaving"}
    \/ app[d] \in {"clearing", "joining lanes"} /\ End(c, d) = "none"

Joined(d) == \A c \in Channels : JoinedAt(c, d)

\* The participant knows a peer without a channel only while the down call is
\* due, and a peer with a channel since its up call.
Due(d, e) == \E c \in Channels : End(c, d) = "joining" /\ Other(c, d) = e

Told(d) ==
  app[d] \in {"idle", "joining poll"} =>
    \A e \in Devices : e \notin overtaken[d] =>
      /\ Sock(d, e) = None /\ e \in known[d] => Due(d, e)
      /\ \A c \in Channels :
           Sock(d, e) = c /\ End(c, d) # "upcall" => e \in known[d] /\ ~Due(d, e)

\* A bind is on its way only while the other end has neither socket nor lane.
Linked ==
  \A c \in Channels :
    End(c, c.from) \in {"created", "binding"} => End(c, c.to) = "none" /\ LaneOf(c, c.to) = "none"

DeviceInv(d) ==
  Entries(d) /\ Phase(d) /\ Polling(d) /\ Table(d) /\ Owned(d) /\ Joined(d) /\ Told(d)

DsoftbusInv == Types /\ Linked /\ \A d \in Devices : DeviceInv(d)

-----------------------------------------------------------------------------
(* Channels and the table *)

\* A channel joins two different devices and is not the absence of one.
LEMMA ChannelFacts ==
  /\ None \notin Channels
  /\ \A c \in Channels :
       /\ c.from \in Devices /\ c.to \in Devices /\ c.from # c.to
       /\ \A d \in Devices : Other(c, d) \in Devices
       /\ Other(c, c.from) = c.to /\ Other(c, c.to) = c.from
<1>1. \A c \in Channels : c.from \in Devices /\ c.to \in Devices /\ c.from # c.to /\ c.n >= 1
  BY DEF Channels
<1>2. None.n = 0
  BY DEF None
<1> QED
  BY <1>1, <1>2 DEF Other

\* The fields of an entry of the table.
LEMMA EntryTypes ==
  ASSUME Types, NEW d \in Devices, NEW e \in Devices
  PROVE  /\ peers[d][e] \in PeerState
         /\ Sock(d, e) \in Channels \cup {None}
         /\ Pend(d, e) \in Channels \cup {None}
         /\ Up(d, e) \in BOOLEAN
<1>1. peers \in [Devices -> [Devices -> PeerState]]
  BY DEF Types
<1>2. peers[d][e] \in PeerState
  BY <1>1, Zenon
<1> QED
  BY <1>2 DEF PeerState, Sock, Pend, Up

\* An empty entry of peers_ has neither channel nor pending socket.
LEMMA NoPeerEntry ==
  /\ NoPeer \in PeerState
  /\ NoPeer.socket_fd = None /\ NoPeer.pending_fd = None /\ NoPeer.up_notified = FALSE
BY DEF NoPeer, PeerState

\* The table with one entry replaced.
EntryBecomes(d, e, sock, pend, up) ==
  /\ peers' \in [Devices -> [Devices -> PeerState]]
  /\ \A f \in Devices : f # d => peers'[f] = peers[f]
  /\ \A g \in Devices : Sock(d, g)' = IF g = e THEN sock ELSE Sock(d, g)
  /\ \A g \in Devices : Pend(d, g)' = IF g = e THEN pend ELSE Pend(d, g)
  /\ \A g \in Devices : Up(d, g)' = IF g = e THEN up ELSE Up(d, g)

\* An assignment to one entry of peers_, field by field.
LEMMA EntryReplaced ==
  ASSUME Types, NEW d \in Devices, NEW e \in Devices,
         NEW sock, NEW pend, NEW up,
         NEW q \in PeerState, q.socket_fd = sock, q.pending_fd = pend, q.up_notified = up,
         peers' = [peers EXCEPT ![d][e] = q]
  PROVE  EntryBecomes(d, e, sock, pend, up)
<1>1. peers \in [Devices -> [Devices -> PeerState]]
  BY DEF Types
<1>2. \A g \in Devices : peers'[d][g] = IF g = e THEN q ELSE peers[d][g]
  BY <1>1
<1>3. peers' \in [Devices -> [Devices -> PeerState]]
  BY <1>1
<1>4. \A f \in Devices : f # d => peers'[f] = peers[f]
  BY <1>1
<1> QED
  BY <1>2, <1>3, <1>4 DEF Sock, Pend, Up, EntryBecomes

\* The table of a transport that has stopped.
LEMMA TableCleared ==
  ASSUME Types, NEW d \in Devices,
         peers' = [peers EXCEPT ![d] = [e \in Devices |-> NoPeer]]
  PROVE  /\ peers' \in [Devices -> [Devices -> PeerState]]
         /\ \A f \in Devices : f # d => peers'[f] = peers[f]
         /\ \A g \in Devices : Sock(d, g)' = None /\ Pend(d, g)' = None /\ Up(d, g)' = FALSE
<1>1. peers \in [Devices -> [Devices -> PeerState]]
  BY DEF Types
<1>2. \A g \in Devices : peers'[d][g] = NoPeer
  BY <1>1
<1>3. peers' \in [Devices -> [Devices -> PeerState]]
  BY <1>1, NoPeerEntry
<1>4. \A f \in Devices : f # d => peers'[f] = peers[f]
  BY <1>1
<1> QED
  BY <1>2, <1>3, <1>4, NoPeerEntry DEF Sock, Pend, Up

\* One end of a channel in a new state.
EndBecomes(c, d, s) ==
  /\ ends' \in [Channels -> [Devices -> EndStates]]
  /\ \A b \in Channels, f \in Devices : End(b, f)' = IF b = c /\ f = d THEN s ELSE End(b, f)

\* The service changes one end of one channel.
LEMMA OneEnd ==
  ASSUME Types, NEW c \in Channels, NEW d \in Devices, NEW s \in EndStates, SetEnd(c, d, s)
  PROVE  EndBecomes(c, d, s)
<1>1. ends \in [Channels -> [Devices -> EndStates]]
  BY DEF Types
<1> QED
  BY <1>1 DEF SetEnd, End, EndBecomes

\* The service leaves both ends alone.
LEMMA SameEnd ==
  ASSUME Types, UNCHANGED ends, NEW c \in Channels, NEW d \in Devices, NEW s, s = End(c, d)
  PROVE  EndBecomes(c, d, s)
<1>1. ends \in [Channels -> [Devices -> EndStates]]
  BY DEF Types
<1> QED
  BY <1>1 DEF End, EndBecomes

\* One lane in a new state.
LaneStates == {"none", "idle", "checked"}

LaneBecomes(c, d, l) ==
  /\ lane' \in [Devices -> [Channels -> LaneStates]]
  /\ \A f \in Devices : f # d => lane'[f] = lane[f]
  /\ \A b \in Channels : LaneOf(b, d)' = IF b = c THEN l ELSE LaneOf(b, d)

\* One lane is created, moves or ends.
LEMMA OneLane ==
  ASSUME Types, NEW c \in Channels, NEW d \in Devices, NEW l \in LaneStates,
         lane' = [lane EXCEPT ![d][c] = l]
  PROVE  LaneBecomes(c, d, l)
<1>1. lane \in [Devices -> [Channels -> LaneStates]]
  BY DEF Types, LaneStates
<1> QED
  BY <1>1 DEF LaneOf, LaneBecomes

\* No lane changes.
LEMMA SameLane ==
  ASSUME Types, UNCHANGED lane, NEW c \in Channels, NEW d \in Devices, NEW l, l = LaneOf(c, d)
  PROVE  LaneBecomes(c, d, l)
<1>1. lane \in [Devices -> [Channels -> LaneStates]]
  BY DEF Types, LaneStates
<1> QED
  BY <1>1 DEF LaneOf, LaneBecomes

\* What d itself keeps, and the service keeps of it.
Untouched(d) ==
  /\ UNCHANGED <<instance[d], peers[d], lane[d], poll[d], app[d], known[d], overtaken[d],
                 listening[d]>>
  /\ \A c \in Channels : End(c, d)' = End(c, d)
  /\ \A c \in Channels : <<c, d>> \in abandoned' <=> <<c, d>> \in abandoned

\* A device that a step does not touch keeps its invariant.
LEMMA UntouchedKeeps ==
  ASSUME NEW d \in Devices, DeviceInv(d), Untouched(d)
  PROVE  DeviceInv(d)'
<1>1. \A e \in Devices : /\ Sock(d, e)' = Sock(d, e) /\ Pend(d, e)' = Pend(d, e)
                         /\ Up(d, e)' = Up(d, e)
  BY DEF Untouched, Sock, Pend, Up
<1>2. \A c \in Channels : LaneOf(c, d)' = LaneOf(c, d) /\ End(c, d)' = End(c, d)
  BY DEF Untouched, LaneOf
<1>3. /\ UNCHANGED <<instance[d], poll[d], app[d], known[d], overtaken[d], listening[d]>>
      /\ \A c \in Channels : <<c, d>> \in abandoned' <=> <<c, d>> \in abandoned
  BY DEF Untouched
<1>4. Entries(d)'
  BY <1>1 DEF DeviceInv, Entries
<1>5. Phase(d)'
  BY <1>1, <1>2, <1>3 DEF DeviceInv, Phase
<1>6. Polling(d)'
  BY <1>1, <1>2, <1>3, ChannelFacts DEF DeviceInv, Polling
<1>7. Table(d)'
  BY <1>1, <1>2 DEF DeviceInv, Table, TableAt
<1>9. Owned(d)'
  BY <1>1, <1>2, <1>3, ChannelFacts DEF DeviceInv, Owned, OwnedAt
<1>10. Joined(d)'
  BY <1>1, <1>2, <1>3, ChannelFacts DEF DeviceInv, Joined, JoinedAt
<1>8. Told(d)'
  <2>1. \A e \in Devices : Due(d, e)' <=> Due(d, e)
    BY <1>2 DEF Due
  <2> QED
    BY <1>1, <1>2, <1>3, <2>1 DEF DeviceInv, Told
<1> QED
  BY <1>4, <1>5, <1>6, <1>7, <1>8, <1>9, <1>10 DEF DeviceInv

\* A step at d about channel c: its end goes to state s, the entry of the other
\* device to sock, pend and up, the lane to l.  The poll thread of d, what the
\* participant of d knows and whether stop() left this end behind may change.
PollStates == [at : {"asleep", "binding", "exited"}, to_bind : SUBSET Devices,
               fd : Channels \cup {None}]

OnlyAt(d) ==
  /\ UNCHANGED <<instance, app, listening>>
  /\ running' \in [Devices -> BOOLEAN]
  /\ poll' \in [Devices -> PollStates]
  /\ \A f \in Devices : f # d => poll'[f] = poll[f]
  /\ known' \in [Devices -> SUBSET Devices]
  /\ \A f \in Devices : f # d => known'[f] = known[f]
  /\ overtaken' \in [Devices -> SUBSET Devices]
  /\ \A f \in Devices : f # d => overtaken'[f] = overtaken[f]
  /\ faults' \in 0 .. MaxFaults

OnlyFor(c, d) ==
  /\ abandoned' \subseteq Channels \X Devices
  /\ \A b \in Channels, f \in Devices :
       b # c \/ f # d => (<<b, f>> \in abandoned' <=> <<b, f>> \in abandoned)

Effect(c, d, s, sock, pend, up, l) ==
  /\ EndBecomes(c, d, s)
  /\ EntryBecomes(d, Other(c, d), sock, pend, up)
  /\ LaneBecomes(c, d, l)
  /\ OnlyAt(d)
  /\ OnlyFor(c, d)

\* Such a step is well typed and leaves the other devices alone; what is left to
\* show is about d.
LEMMA EffectKeeps ==
  ASSUME DsoftbusInv, NEW c \in Channels, NEW d \in Devices,
         NEW s, NEW sock, NEW pend, NEW up \in BOOLEAN, NEW l,
         Effect(c, d, s, sock, pend, up, l),
         \/ s = End(c, d)
         \/ s = "none"
         \/ s = "created" /\ c.from = d /\ End(c, c.to) = "none" /\ LaneOf(c, c.to) = "none"
         \/ s = "binding" /\ End(c, d) = "created"
         \/ s \notin {"created", "binding"} /\ End(c, d) # "none",
         l # "none" => LaneOf(c, d) # "none" \/ End(c, d) # "none",
         up <=> sock # None, sock # None => sock # pend,
         Phase(d)', Polling(d)', Table(d)', Owned(d)', Joined(d)', Told(d)'
  PROVE  DsoftbusInv'
<1>1. Types /\ Linked /\ Entries(d)
  BY DEF DsoftbusInv, DeviceInv
<1>2. Types'
  BY <1>1 DEF Types, Effect, EntryBecomes, EndBecomes, LaneBecomes, LaneStates, OnlyAt, OnlyFor,
              PollStates
<1>3. ASSUME NEW b \in Channels, End(b, b.from)' \in {"created", "binding"}
      PROVE  End(b, b.to)' = "none" /\ LaneOf(b, b.to)' = "none"
  <2>1. /\ \A f \in Devices : End(b, f)' = IF b = c /\ f = d THEN s ELSE End(b, f)
        /\ End(b, b.from) \in {"created", "binding"} =>
             End(b, b.to) = "none" /\ LaneOf(b, b.to) = "none"
        /\ b.from \in Devices /\ b.to \in Devices /\ b.from # b.to
    BY <1>1, ChannelFacts DEF Effect, EndBecomes, Linked
  <2>5. \A f \in Devices : LaneOf(b, f)' = IF b = c /\ f = d THEN l ELSE LaneOf(b, f)
    BY DEF Effect, LaneBecomes, LaneOf
  <2>2. CASE b = c /\ d = b.from
    <3>1. /\ s \in {"created", "binding"} /\ End(b, b.to)' = End(b, b.to)
          /\ LaneOf(b, b.to)' = LaneOf(b, b.to)
      BY <1>3, <2>1, <2>2, <2>5
    <3> QED
      BY <2>1, <2>2, <3>1
  <2>3. CASE b = c /\ d = b.to
    <3>1. /\ End(b, b.to) = "none" /\ End(b, b.to)' = s
          /\ LaneOf(b, b.to) = "none" /\ LaneOf(b, b.to)' = l
      BY <1>3, <2>1, <2>3, <2>5
    <3> QED
      BY <2>1, <2>3, <3>1
  <2>4. CASE b # c \/ d \notin {b.from, b.to}
    BY <1>3, <2>1, <2>4, <2>5
  <2> QED
    BY <2>2, <2>3, <2>4
<1>4. Linked'
  BY <1>3 DEF Linked
<1>5. Entries(d)'
  <2> SUFFICES ASSUME NEW g \in Devices
               PROVE  /\ Up(d, g)' <=> Sock(d, g)' # None
                      /\ Sock(d, g)' # None => Sock(d, g)' # Pend(d, g)'
    BY DEF Entries
  <2>1. CASE g = Other(c, d)
    <3>1. Sock(d, g)' = sock /\ Pend(d, g)' = pend /\ Up(d, g)' = up
      BY <2>1 DEF Effect, EntryBecomes
    <3> QED
      BY <3>1, Zenon
  <2>2. CASE g # Other(c, d)
    <3>1. Sock(d, g)' = Sock(d, g) /\ Pend(d, g)' = Pend(d, g) /\ Up(d, g)' = Up(d, g)
      BY <2>2 DEF Effect, EntryBecomes
    <3> QED
      BY <1>1, <3>1, Zenon DEF Entries
  <2> QED
    BY <2>1, <2>2
<1>6. ASSUME NEW f \in Devices \ {d} PROVE DeviceInv(f)'
  <2>1. Untouched(f)
    BY <1>6 DEF Untouched, Effect, EntryBecomes, EndBecomes, LaneBecomes, OnlyAt, OnlyFor
  <2> QED
    BY <2>1, UntouchedKeeps DEF DsoftbusInv
<1> QED
  BY <1>2, <1>4, <1>5, <1>6 DEF DsoftbusInv, DeviceInv

\* What the step changes at d.
Locally(c, d, s, sock, pend, l) ==
  /\ UNCHANGED <<instance, app, listening>>
  /\ \A b \in Channels : End(b, d)' = IF b = c THEN s ELSE End(b, d)
  /\ \A b \in Channels : LaneOf(b, d)' = IF b = c THEN l ELSE LaneOf(b, d)
  /\ \A g \in Devices : Sock(d, g)' = IF g = Other(c, d) THEN sock ELSE Sock(d, g)
  /\ \A g \in Devices : Pend(d, g)' = IF g = Other(c, d) THEN pend ELSE Pend(d, g)
  /\ \A b \in Channels : b # c => (<<b, d>> \in abandoned' <=> <<b, d>> \in abandoned)

\* A step with a whole effect has the local one.
LEMMA EffectLocally ==
  ASSUME NEW c \in Channels, NEW d \in Devices, NEW s, NEW sock, NEW pend, NEW up, NEW l,
         Effect(c, d, s, sock, pend, up, l)
  PROVE  Locally(c, d, s, sock, pend, l)
BY DEF Effect, EntryBecomes, EndBecomes, LaneBecomes, OnlyAt, OnlyFor, Locally

\* An entry that does not change.
LEMMA SameEntry ==
  ASSUME Types, UNCHANGED peers, NEW d \in Devices, NEW e \in Devices,
         NEW p \in PeerState, p = peers[d][e]
  PROVE  EntryBecomes(d, e, p.socket_fd, p.pending_fd, p.up_notified)
<1>1. peers \in [Devices -> [Devices -> PeerState]]
  BY DEF Types
<1> QED
  BY <1>1 DEF EntryBecomes, Sock, Pend, Up

\* An action that counts a fault.
LEMMA FaultCounted == Types /\ (Fault \/ UNCHANGED faults) => faults' \in 0 .. MaxFaults
<1>1. Types => faults \in 0 .. MaxFaults
  BY DEF Types
<1> QED
  BY <1>1, DsoftbusAssumption DEF Fault

\* The parts of the invariant about one device.
LEMMA DeviceParts ==
  ASSUME DsoftbusInv, NEW d \in Devices
  PROVE  /\ Types /\ Linked
         /\ Entries(d) /\ Phase(d) /\ Polling(d) /\ Table(d) /\ Owned(d) /\ Joined(d) /\ Told(d)
BY DEF DsoftbusInv, DeviceInv

-----------------------------------------------------------------------------
(* The steps of callbacks, of the service and of the lanes *)

\* What the invariant says of channel c at device d: e is the other device, p its
\* entry, l the lane and z the state of the channel.
Around(c, d, e, p, l, z) ==
  /\ e = Other(c, d) /\ p = peers[d][e] /\ l = LaneOf(c, d) /\ z = End(c, d)
  /\ p.socket_fd = Sock(d, e) /\ p.pending_fd = Pend(d, e)
  /\ p.socket_fd \in Channels \cup {None} /\ p.pending_fd \in Channels \cup {None}
  /\ p.up_notified \in BOOLEAN /\ (p.up_notified <=> p.socket_fd # None)
  /\ p.socket_fd # None => p.socket_fd # p.pending_fd
  /\ c # None /\ (c.from = d => e = c.to)
  /\ p.socket_fd = c => z \in {"upcall", "open", "lost"} /\ l # "none"
  /\ p.pending_fd = c =>
       /\ c.from = d /\ c.to = e
       /\ z \in {"created", "binding", "failed", "bound", "lost"}
  /\ d \notin {c.from, c.to} => z = "none"
  /\ z = "upcall" => p.socket_fd = c
  /\ z = "open" => p.socket_fd = c \/ <<c, d>> \in abandoned
  /\ z \in {"created", "binding", "failed", "dead"} =>
       c.from = d /\ (p.pending_fd = c \/ <<c, d>> \in abandoned)
  /\ l # "none" =>
       \/ p.socket_fd = c
       \/ z \in {"joining", "leaving"}
       \/ app[d] \in {"clearing", "joining lanes"} /\ z = "none"
  /\ ~instance[d] => p.socket_fd = None /\ p.pending_fd = None /\ z # "joining"
  /\ instance[d] <=> app[d] \in {"idle", "joining poll", "clearing"}
  /\ app[d] = "stopped" => known[d] = {} /\ overtaken[d] = {}

\* What the invariant says of a device and one of its channels, named.
LEMMA AroundChannel ==
  ASSUME DsoftbusInv, NEW c \in Channels, NEW d \in Devices
  PROVE  \E e \in Devices, p \in PeerState, l \in LaneStates, z \in EndStates :
           Around(c, d, e, p, l, z)
<1>1. Types /\ Entries(d) /\ Table(d) /\ Owned(d) /\ Joined(d) /\ Phase(d)
  BY DeviceParts
<1>. PICK e \in Devices : e = Other(c, d)
  BY ChannelFacts
<1>. PICK p \in PeerState : p = peers[d][e]
  BY <1>1, EntryTypes
<1>2. /\ p.socket_fd = Sock(d, e) /\ p.pending_fd = Pend(d, e) /\ p.up_notified = Up(d, e)
      /\ p.socket_fd \in Channels \cup {None} /\ p.pending_fd \in Channels \cup {None}
      /\ p.up_notified \in BOOLEAN
  BY DEF Sock, Pend, Up, PeerState
<1>3. (p.up_notified <=> p.socket_fd # None) /\ (p.socket_fd # None => p.socket_fd # p.pending_fd)
  BY <1>1, <1>2, Zenon DEF Entries
<1>. PICK l \in LaneStates : l = LaneOf(c, d)
  <2>1. lane \in [Devices -> [Channels -> LaneStates]]
    BY <1>1 DEF Types, LaneStates
  <2> QED
    BY <2>1, Zenon DEF LaneOf
<1>. PICK z \in EndStates : z = End(c, d)
  <2>1. ends \in [Channels -> [Devices -> EndStates]]
    BY <1>1 DEF Types
  <2> QED
    BY <2>1, Zenon DEF End
<1>4. c # None /\ (c.from = d => e = c.to)
  BY ChannelFacts DEF Other
<1>5. TableAt(d, e, c) /\ OwnedAt(c, d) /\ JoinedAt(c, d)
  BY <1>1 DEF Table, Owned, Joined
<1>6. /\ p.socket_fd = c => z \in {"upcall", "open", "lost"} /\ l # "none"
      /\ p.pending_fd = c =>
           /\ c.from = d /\ c.to = e
           /\ z \in {"created", "binding", "failed", "bound", "lost"}
  BY <1>2, <1>5 DEF TableAt
<1>7. /\ d \notin {c.from, c.to} => z = "none"
      /\ z = "upcall" => p.socket_fd = c
      /\ z = "open" => p.socket_fd = c \/ <<c, d>> \in abandoned
      /\ z \in {"created", "binding", "failed", "dead"} =>
           c.from = d /\ (p.pending_fd = c \/ <<c, d>> \in abandoned)
  BY <1>2, <1>4, <1>5 DEF OwnedAt
<1>8. l # "none" =>
       \/ p.socket_fd = c
       \/ z \in {"joining", "leaving"}
       \/ app[d] \in {"clearing", "joining lanes"} /\ z = "none"
  BY <1>2, <1>5 DEF JoinedAt
<1>9. /\ ~instance[d] => p.socket_fd = None /\ p.pending_fd = None /\ z # "joining"
      /\ instance[d] <=> app[d] \in {"idle", "joining poll", "clearing"}
      /\ app[d] = "stopped" => known[d] = {} /\ overtaken[d] = {}
  BY <1>1, <1>2 DEF Phase
<1>10. Around(c, d, e, p, l, z)
  BY <1>2, <1>3, <1>4, <1>6, <1>7, <1>8, <1>9 DEF Around
<1> QED
  BY <1>10

\* A field of the entry of c is set to c, cleared of c, or left.
Swaps(c, old, new) == new = old \/ (old = c /\ new = None) \/ (old = None /\ new = c)

\* What the invariant says of the other channels at d is not affected.
LEMMA OtherChannels ==
  ASSUME NEW c \in Channels, NEW d \in Devices, NEW b \in Channels \ {c},
         NEW s, NEW sock, NEW pend, NEW l,
         Locally(c, d, s, sock, pend, l),
         Swaps(c, Sock(d, Other(c, d)), sock), Swaps(c, Pend(d, Other(c, d)), pend)
  PROVE  /\ OwnedAt(b, d) => OwnedAt(b, d)'
         /\ JoinedAt(b, d) => JoinedAt(b, d)'
         /\ \A g \in Devices : TableAt(d, g, b) => TableAt(d, g, b)'
         /\ \A g \in Devices : Sock(d, g)' = b <=> Sock(d, g) = b
         /\ \A g \in Devices : Pend(d, g)' = b <=> Pend(d, g) = b
<1>0. b # None /\ Other(b, d) \in Devices /\ b.to \in Devices
  BY ChannelFacts
<1>1. \A g \in Devices : Sock(d, g)' = b <=> Sock(d, g) = b
  BY <1>0 DEF Locally, Swaps
<1>2. \A g \in Devices : Pend(d, g)' = b <=> Pend(d, g) = b
  BY <1>0 DEF Locally, Swaps
<1>3. /\ End(b, d)' = End(b, d) /\ LaneOf(b, d)' = LaneOf(b, d) /\ app' = app
      /\ <<b, d>> \in abandoned' <=> <<b, d>> \in abandoned
  BY DEF Locally
<1>4. OwnedAt(b, d) => OwnedAt(b, d)'
  BY <1>0, <1>1, <1>2, <1>3 DEF OwnedAt
<1>5. JoinedAt(b, d) => JoinedAt(b, d)'
  BY <1>0, <1>1, <1>3 DEF JoinedAt
<1>6. \A g \in Devices : TableAt(d, g, b) => TableAt(d, g, b)'
  BY <1>1, <1>2, <1>3 DEF TableAt
<1> QED
  BY <1>1, <1>2, <1>4, <1>5, <1>6

\* What the new state must say of c itself.
Sound(c, d, s, sock, pend, l) ==
  /\ d \notin {c.from, c.to} => s = "none"
  /\ s = "upcall" => sock = c
  /\ s = "open" => sock = c \/ <<c, d>> \in abandoned'
  /\ s \in {"created", "binding", "failed", "dead"} =>
       c.from = d /\ (pend = c \/ <<c, d>> \in abandoned')
  /\ l # "none" =>
       \/ sock = c
       \/ s \in {"joining", "leaving"}
       \/ app[d] \in {"clearing", "joining lanes"} /\ s = "none"
  /\ sock = c => s \in {"upcall", "open", "lost"} /\ l # "none"
  /\ pend = c =>
       /\ c.from = d
       /\ s \in {"created", "binding", "failed", "bound", "lost"}

\* A step that changes one channel of a device and leaves it sound keeps what
\* the device's invariant says of tables, ownership and joined lanes.
LEMMA ChannelKept ==
  ASSUME DsoftbusInv, NEW c \in Channels, NEW d \in Devices,
         NEW s, NEW sock, NEW pend, NEW l,
         Locally(c, d, s, sock, pend, l), Sound(c, d, s, sock, pend, l),
         Swaps(c, Sock(d, Other(c, d)), sock), Swaps(c, Pend(d, Other(c, d)), pend)
  PROVE  Table(d)' /\ Owned(d)' /\ Joined(d)'
<1>1. Table(d) /\ Owned(d) /\ Joined(d)
  BY DeviceParts
<1>. PICK e \in Devices : e = Other(c, d)
  BY ChannelFacts
<1>2. c # None /\ (c.from = d => e = c.to)
  BY ChannelFacts DEF Other
<1>3. /\ End(c, d)' = s /\ LaneOf(c, d)' = l /\ Sock(d, e)' = sock /\ Pend(d, e)' = pend
      /\ app' = app
  BY DEF Locally
<1>4. OwnedAt(c, d)'
  BY <1>2, <1>3 DEF OwnedAt, Sound
<1>5. JoinedAt(c, d)'
  BY <1>3 DEF JoinedAt, Sound
<1>6. ASSUME NEW g \in Devices PROVE TableAt(d, g, c)'
  <2>1. CASE g = e
    BY <1>2, <1>3, <2>1 DEF TableAt, Sound
  <2>2. CASE g # e
    <3>1. Sock(d, g)' = Sock(d, g) /\ Pend(d, g)' = Pend(d, g)
      BY <2>2 DEF Locally
    <3>2. Sock(d, g) # c /\ Pend(d, g) # c
      BY <1>1, <1>2, <2>2 DEF Table, TableAt
    <3> QED
      BY <3>1, <3>2 DEF TableAt
  <2> QED
    BY <2>1, <2>2
<1>7. \A b \in Channels \ {c} :
        OwnedAt(b, d)' /\ JoinedAt(b, d)' /\ \A g \in Devices : TableAt(d, g, b)'
  BY <1>1, OtherChannels DEF Table, Owned, Joined
<1>8. \A b \in Channels : OwnedAt(b, d)' /\ JoinedAt(b, d)' /\ \A g \in Devices : TableAt(d, g, b)'
  BY <1>4, <1>5, <1>6, <1>7
<1> QED
  BY <1>8 DEF Table, Owned, Joined

\* A step that is not one of the poll thread leaves the socket it holds.
LEMMA PollKept ==
  ASSUME DsoftbusInv, NEW c \in Channels, NEW d \in Devices,
         NEW s, NEW sock, NEW pend, NEW l,
         Locally(c, d, s, sock, pend, l), poll'[d] = poll[d],
         End(c, d) # "created", s # "created",
         Swaps(c, Sock(d, Other(c, d)), sock),
         pend = Pend(d, Other(c, d)) \/ (Pend(d, Other(c, d)) = c /\ pend = None)
  PROVE  Polling(d)'
<1>1. Polling(d)
  BY DeviceParts
<1>2. ASSUME NEW g \in Devices, g \in poll[d].to_bind
      PROVE  Pend(d, g)' \in {None, poll[d].fd}
  BY <1>1, <1>2 DEF Polling, Locally
<1>3. poll[d].fd # c
  BY <1>1 DEF Polling
<1>4. ASSUME NEW b \in Channels
      PROVE  /\ End(b, d)' = "created" <=> poll[d].fd = b
             /\ poll[d].fd = b => Pend(d, b.to)' = b
  <2>1. CASE b = c
    BY <1>3, <2>1 DEF Locally
  <2>2. CASE b # c
    <3>1. Swaps(c, Pend(d, Other(c, d)), pend)
      BY DEF Swaps
    <3>2. \A g \in Devices : Pend(d, g)' = b <=> Pend(d, g) = b
      BY <2>2, <3>1, OtherChannels
    <3>3. End(b, d)' = End(b, d) /\ b.to \in Devices
      BY <2>2, ChannelFacts DEF Locally
    <3> QED
      BY <1>1, <3>2, <3>3 DEF Polling
  <2> QED
    BY <2>1, <2>2
<1> QED
  BY <1>1, <1>2, <1>4 DEF Polling

\* A step that makes no call to the participant and keeps the channel in use.
LEMMA ToldKept ==
  ASSUME DsoftbusInv, NEW c \in Channels, NEW d \in Devices,
         NEW s, NEW sock, NEW pend, NEW l,
         Locally(c, d, s, sock, pend, l), known'[d] = known[d], overtaken'[d] = overtaken[d],
         sock = Sock(d, Other(c, d)), s = "joining" <=> End(c, d) = "joining",
         s = "upcall" <=> End(c, d) = "upcall"
  PROVE  Told(d)'
<1>1. Told(d)
  BY DeviceParts
<1>2. \A b \in Channels : /\ End(b, d)' = "joining" <=> End(b, d) = "joining"
                          /\ End(b, d)' = "upcall" <=> End(b, d) = "upcall"
  BY DEF Locally
<1>3. \A g \in Devices : Due(d, g)' <=> Due(d, g)
  BY <1>2 DEF Due
<1>4. \A g \in Devices : Sock(d, g)' = Sock(d, g)
  BY DEF Locally
<1>5. app' = app
  BY DEF Locally
<1> QED
  BY <1>1, <1>2, <1>3, <1>4, <1>5 DEF Told

\* A step about channel c that is not one of the poll thread: the new state is
\* sound, the entry keeps its shape, and the participant was told.
Acceptable(c, d, s, sock, pend, up, l) ==
  /\ Effect(c, d, s, sock, pend, up, l) /\ Sound(c, d, s, sock, pend, l)
  /\ up \in BOOLEAN /\ (up <=> sock # None) /\ (sock # None => sock # pend)
  /\ Swaps(c, Sock(d, Other(c, d)), sock)
  /\ pend = Pend(d, Other(c, d)) \/ (Pend(d, Other(c, d)) = c /\ pend = None)
  /\ poll'[d] = poll[d] /\ End(c, d) # "created"
  /\ s \notin {"created", "binding"} \/ s = End(c, d)
  /\ s # "none" => s = End(c, d) \/ End(c, d) # "none"
  /\ l # "none" => LaneOf(c, d) # "none" \/ End(c, d) # "none"
  /\ ~instance[d] => sock = None /\ pend = None /\ s # "joining"
  /\ app[d] = "stopped" => known'[d] = {} /\ overtaken'[d] = {}
  /\ Told(d)'

\* An acceptable step about one channel keeps the invariant.
LEMMA ChannelStep ==
  ASSUME DsoftbusInv, NEW c \in Channels, NEW d \in Devices,
         NEW s, NEW sock, NEW pend, NEW up, NEW l, Acceptable(c, d, s, sock, pend, up, l)
  PROVE  DsoftbusInv'
<1>0. /\ Effect(c, d, s, sock, pend, up, l) /\ Sound(c, d, s, sock, pend, l)
      /\ up \in BOOLEAN /\ (up <=> sock # None) /\ (sock # None => sock # pend)
      /\ Swaps(c, Sock(d, Other(c, d)), sock)
      /\ pend = Pend(d, Other(c, d)) \/ (Pend(d, Other(c, d)) = c /\ pend = None)
      /\ poll'[d] = poll[d] /\ End(c, d) # "created"
      /\ s \notin {"created", "binding"} \/ s = End(c, d)
      /\ s # "none" => s = End(c, d) \/ End(c, d) # "none"
      /\ l # "none" => LaneOf(c, d) # "none" \/ End(c, d) # "none"
      /\ ~instance[d] => sock = None /\ pend = None /\ s # "joining"
      /\ app[d] = "stopped" => known'[d] = {} /\ overtaken'[d] = {}
      /\ Told(d)'
  BY DEF Acceptable
<1>1. Locally(c, d, s, sock, pend, l)
  BY <1>0, EffectLocally
<1>2. Swaps(c, Pend(d, Other(c, d)), pend)
  BY <1>0 DEF Swaps
<1>3. Table(d)' /\ Owned(d)' /\ Joined(d)'
  BY <1>0, <1>1, <1>2, ChannelKept
<1>4. Polling(d)'
  BY <1>0, <1>1, PollKept
<1>5. Phase(d)'
  <2>1. Phase(d)
    BY DeviceParts
  <2>2. ASSUME ~instance[d]
        PROVE  /\ \A g \in Devices : Sock(d, g)' = None /\ Pend(d, g)' = None
               /\ \A b \in Channels : End(b, d)' # "joining"
    BY <1>0, <1>1, <2>1, <2>2 DEF Locally, Phase
  <2>3. UNCHANGED <<instance, app, listening>>
    BY <1>1 DEF Locally
  <2> QED
    BY <1>0, <2>1, <2>2, <2>3 DEF Phase
<1> QED
  BY <1>0, <1>3, <1>4, <1>5, EffectKeeps

\* The first channel to a device is kept.
LEMMA OnBindFirstKeeps ==
  ASSUME DsoftbusInv, NEW c \in Channels, NEW d \in Devices, OnBindFirst(c, d)
  PROVE  DsoftbusInv'
<1>. PICK e \in Devices, p \in PeerState, l \in LaneStates, z \in EndStates :
       Around(c, d, e, p, l, z)
  BY AroundChannel
<1>a. Types
  BY DeviceParts
<1>b. e = Other(c, d) /\ p = peers[d][e] /\ l = LaneOf(c, d) /\ z = End(c, d)
  BY DEF Around
<1>. PICK x : x = IF p.pending_fd = c THEN None ELSE p.pending_fd
  OBVIOUS
<1>. PICK q : q = [BindCompleted(p, c) EXCEPT !.socket_fd = c, !.up_notified = TRUE]
  OBVIOUS
<1>q. q \in PeerState /\ q.socket_fd = c /\ q.pending_fd = x /\ q.up_notified = TRUE
  BY DEF BindCompleted, PeerState
<1>0. /\ abandoned' = abandoned \ {<<c, d>>}
      /\ SetEnd(c, d, "upcall")
      /\ peers' = [peers EXCEPT ![d][e] = q]
      /\ lane' = [lane EXCEPT ![d][c] = "idle"]
      /\ UNCHANGED <<running, instance, poll, app, known, listening, overtaken, faults>>
  BY <1>b DEF OnBindFirst, End, LaneOf
<1>1. /\ z = "bound" /\ instance[d] /\ p.socket_fd = None
      /\ <<c, d>> \notin abandoned'
  BY <1>0, <1>b DEF OnBindFirst, End, LaneOf, Around
<1>2. Effect(c, d, "upcall", c, x, TRUE, "idle")
  <2>1. EndBecomes(c, d, "upcall")
    BY <1>a, <1>0, <1>1, <1>b, OneEnd DEF EndStates
  <2>2. EntryBecomes(d, e, c, x, TRUE)
    BY <1>a, <1>0, <1>q, EntryReplaced
  <2>3. LaneBecomes(c, d, "idle")
    BY <1>a, <1>0, <1>b, OneLane DEF LaneStates
  <2>4. OnlyAt(d)
    BY <1>a, <1>0, <1>1 DEF OnlyAt, Types, PollStates
  <2>5. OnlyFor(c, d)
    <3>1. abandoned' \subseteq Channels \X Devices
      BY <1>a, <1>0 DEF Types
    <3> QED
      BY <1>0, <3>1 DEF OnlyFor
  <2> QED
    BY <1>b, <2>1, <2>2, <2>3, <2>4, <2>5 DEF Effect
<1>3. Locally(c, d, "upcall", c, x, "idle")
  BY <1>2, EffectLocally
<1>4. Sound(c, d, "upcall", c, x, "idle")
  BY <1>1 DEF Sound, Around, LaneStates
<1>5. /\ Sock(d, e) = p.socket_fd /\ Pend(d, e) = p.pending_fd
      /\ Swaps(c, Sock(d, e), c)
      /\ x = Pend(d, e) \/ (Pend(d, e) = c /\ x = None)
      /\ TRUE \in BOOLEAN /\ (TRUE <=> c # None) /\ (c # None => c # x)
  BY <1>1 DEF Around, Swaps
<1>6. /\ z # "created" /\ ("upcall" \notin {"created", "binding"} \/ "upcall" = z)
      /\ "upcall" # "none" => "upcall" = z \/ z # "none"
      /\ ~instance[d] => c = None /\ x = None /\ "upcall" # "joining"
      /\ "idle" # "none" => l # "none" \/ z # "none"
  BY <1>1 DEF Around
<1>7. poll'[d] = poll[d]
  BY <1>0
<1>8. app[d] = "stopped" => known'[d] = {} /\ overtaken'[d] = {}
  BY <1>0 DEF Around
<1>9. Told(d)'
  <2>1. Told(d) /\ Table(d)
    BY DeviceParts
  <2>2. \A g \in Devices : Due(d, g)' <=> Due(d, g)
    BY <1>1, <1>b, <1>3 DEF Due, Locally
  <2>3. /\ Sock(d, e)' = c /\ End(c, d)' = "upcall" /\ c # None
        /\ \A g \in Devices : g # e => Sock(d, g)' = Sock(d, g) /\ Sock(d, g) # c
        /\ \A b \in Channels : b # c => End(b, d)' = End(b, d)
    BY <1>b, <1>3, <2>1 DEF Locally, Table, TableAt, Around
  <2>4. known' = known /\ overtaken' = overtaken /\ app' = app
    BY <1>0
  <2> QED
    BY <2>1, <2>2, <2>3, <2>4 DEF Told
<1>10. Acceptable(c, d, "upcall", c, x, TRUE, "idle")
  BY <1>2, <1>4, <1>5, <1>6, <1>7, <1>8, <1>9, <1>b DEF Acceptable
<1> QED
  BY <1>10, ChannelStep

\* A second channel is shut down; if it was our own bind, that is no longer pending.
LEMMA OnBindDuplicateKeeps ==
  ASSUME DsoftbusInv, NEW c \in Channels, NEW d \in Devices, OnBindDuplicate(c, d)
  PROVE  DsoftbusInv'
<1>. PICK e \in Devices, p \in PeerState, l \in LaneStates, z \in EndStates :
       Around(c, d, e, p, l, z)
  BY AroundChannel
<1>a. Types
  BY DeviceParts
<1>b. e = Other(c, d) /\ p = peers[d][e] /\ l = LaneOf(c, d) /\ z = End(c, d)
  BY DEF Around
<1>. PICK x : x = IF p.pending_fd = c THEN None ELSE p.pending_fd
  OBVIOUS
<1>. PICK q : q = BindCompleted(p, c)
  OBVIOUS
<1>q. /\ q \in PeerState /\ q.socket_fd = p.socket_fd /\ q.pending_fd = x
      /\ q.up_notified = p.up_notified
  BY DEF BindCompleted, PeerState
<1>0. /\ abandoned' = abandoned \ {<<c, d>>}
      /\ SetEnd(c, d, "none")
      /\ peers' = [peers EXCEPT ![d][e] = q]
      /\ UNCHANGED <<running, instance, lane, poll, app, known, listening, overtaken, faults>>
  BY <1>b DEF OnBindDuplicate, End, LaneOf, DropDuplicate
<1>1. /\ z = "bound" /\ instance[d] /\ p.socket_fd \notin {None, c}
      /\ <<c, d>> \notin abandoned'
  BY <1>0, <1>b DEF OnBindDuplicate, End, LaneOf, DropDuplicate, Around
<1>2. Effect(c, d, "none", p.socket_fd, x, p.up_notified, l)
  <2>1. EndBecomes(c, d, "none")
    BY <1>a, <1>0, <1>1, <1>b, OneEnd DEF EndStates
  <2>2. EntryBecomes(d, e, p.socket_fd, x, p.up_notified)
    BY <1>a, <1>0, <1>q, EntryReplaced
  <2>3. LaneBecomes(c, d, l)
    BY <1>a, <1>0, <1>b, SameLane
  <2>4. OnlyAt(d)
    BY <1>a, <1>0, <1>1 DEF OnlyAt, Types, PollStates
  <2>5. OnlyFor(c, d)
    <3>1. abandoned' \subseteq Channels \X Devices
      BY <1>a, <1>0 DEF Types
    <3> QED
      BY <1>0, <3>1 DEF OnlyFor
  <2> QED
    BY <1>b, <2>1, <2>2, <2>3, <2>4, <2>5 DEF Effect
<1>3. Locally(c, d, "none", p.socket_fd, x, l)
  BY <1>2, EffectLocally
<1>4. Sound(c, d, "none", p.socket_fd, x, l)
  BY <1>1 DEF Sound, Around, LaneStates
<1>5. /\ Sock(d, e) = p.socket_fd /\ Pend(d, e) = p.pending_fd
      /\ Swaps(c, Sock(d, e), p.socket_fd)
      /\ x = Pend(d, e) \/ (Pend(d, e) = c /\ x = None)
      /\ p.up_notified \in BOOLEAN /\ (p.up_notified <=> p.socket_fd # None) /\ (p.socket_fd # None => p.socket_fd # x)
  BY <1>1 DEF Around, Swaps
<1>6. /\ z # "created" /\ ("none" \notin {"created", "binding"} \/ "none" = z)
      /\ "none" # "none" => "none" = z \/ z # "none"
      /\ ~instance[d] => p.socket_fd = None /\ x = None /\ "none" # "joining"
      /\ l # "none" => l # "none" \/ z # "none"
  BY <1>1 DEF Around
<1>7. poll'[d] = poll[d]
  BY <1>0
<1>8. app[d] = "stopped" => known'[d] = {} /\ overtaken'[d] = {}
  BY <1>0 DEF Around
<1>9. Told(d)'
  <2>1. /\ known'[d] = known[d] /\ overtaken'[d] = overtaken[d]
        /\ "none" = "joining" <=> z = "joining"
        /\ "none" = "upcall" <=> z = "upcall"
    BY <1>0, <1>1 DEF Around
  <2> QED
    BY <1>3, <1>b, <1>5, <2>1, ToldKept
<1>10. Acceptable(c, d, "none", p.socket_fd, x, p.up_notified, l)
  BY <1>2, <1>4, <1>5, <1>6, <1>7, <1>8, <1>9, <1>b DEF Acceptable
<1> QED
  BY <1>10, ChannelStep

\* Without a transport the callback leaves the socket open.
LEMMA OnBindIgnoredKeeps ==
  ASSUME DsoftbusInv, NEW c \in Channels, NEW d \in Devices, OnBindIgnored(c, d)
  PROVE  DsoftbusInv'
<1>. PICK e \in Devices, p \in PeerState, l \in LaneStates, z \in EndStates :
       Around(c, d, e, p, l, z)
  BY AroundChannel
<1>a. Types
  BY DeviceParts
<1>b. e = Other(c, d) /\ p = peers[d][e] /\ l = LaneOf(c, d) /\ z = End(c, d)
  BY DEF Around
<1>0. /\ abandoned' = abandoned \cup {<<c, d>>}
      /\ SetEnd(c, d, "open")
      /\ UNCHANGED <<running, instance, peers, lane, poll, app, known, listening, overtaken,
                     faults>>
  BY <1>b DEF OnBindIgnored, End, LaneOf, transport
<1>1. /\ z = "bound" /\ ~instance[d]
      /\ <<c, d>> \in abandoned'
  BY <1>0, <1>b DEF OnBindIgnored, End, LaneOf, transport, Around
<1>2. Effect(c, d, "open", p.socket_fd, p.pending_fd, p.up_notified, l)
  <2>1. EndBecomes(c, d, "open")
    BY <1>a, <1>0, <1>1, <1>b, OneEnd DEF EndStates
  <2>2. EntryBecomes(d, e, p.socket_fd, p.pending_fd, p.up_notified)
    BY <1>a, <1>b, <1>0, SameEntry
  <2>3. LaneBecomes(c, d, l)
    BY <1>a, <1>0, <1>b, SameLane
  <2>4. OnlyAt(d)
    BY <1>a, <1>0, <1>1 DEF OnlyAt, Types, PollStates
  <2>5. OnlyFor(c, d)
    <3>1. abandoned' \subseteq Channels \X Devices
      <4>1. abandoned \subseteq Channels \X Devices
        BY <1>a DEF Types
      <4>2. <<c, d>> \in Channels \X Devices
        OBVIOUS
      <4>3. abandoned' = abandoned \cup {<<c, d>>}
        BY <1>0
      <4> QED
        BY <4>1, <4>2, <4>3, Zenon
    <3> QED
      BY <1>0, <3>1 DEF OnlyFor
  <2> QED
    BY <1>b, <2>1, <2>2, <2>3, <2>4, <2>5 DEF Effect
<1>3. Locally(c, d, "open", p.socket_fd, p.pending_fd, l)
  BY <1>2, EffectLocally
<1>4. Sound(c, d, "open", p.socket_fd, p.pending_fd, l)
  BY <1>1 DEF Sound, Around, LaneStates
<1>5. /\ Sock(d, e) = p.socket_fd /\ Pend(d, e) = p.pending_fd
      /\ Swaps(c, Sock(d, e), p.socket_fd)
      /\ p.pending_fd = Pend(d, e) \/ (Pend(d, e) = c /\ p.pending_fd = None)
      /\ p.up_notified \in BOOLEAN /\ (p.up_notified <=> p.socket_fd # None) /\ (p.socket_fd # None => p.socket_fd # p.pending_fd)
  BY <1>1 DEF Around, Swaps
<1>6. /\ z # "created" /\ ("open" \notin {"created", "binding"} \/ "open" = z)
      /\ "open" # "none" => "open" = z \/ z # "none"
      /\ ~instance[d] => p.socket_fd = None /\ p.pending_fd = None /\ "open" # "joining"
      /\ l # "none" => l # "none" \/ z # "none"
  BY <1>1 DEF Around
<1>7. poll'[d] = poll[d]
  BY <1>0
<1>8. app[d] = "stopped" => known'[d] = {} /\ overtaken'[d] = {}
  BY <1>0 DEF Around
<1>9. Told(d)'
  <2>1. /\ known'[d] = known[d] /\ overtaken'[d] = overtaken[d]
        /\ "open" = "joining" <=> z = "joining"
        /\ "open" = "upcall" <=> z = "upcall"
    BY <1>0, <1>1 DEF Around
  <2> QED
    BY <1>3, <1>b, <1>5, <2>1, ToldKept
<1>10. Acceptable(c, d, "open", p.socket_fd, p.pending_fd, p.up_notified, l)
  BY <1>2, <1>4, <1>5, <1>6, <1>7, <1>8, <1>9, <1>b DEF Acceptable
<1> QED
  BY <1>10, ChannelStep

\* on_bind() calls on_peer_up() after the unlock.
LEMMA PeerUpKeeps ==
  ASSUME DsoftbusInv, NEW c \in Channels, NEW d \in Devices, PeerUp(c, d)
  PROVE  DsoftbusInv'
<1>. PICK e \in Devices, p \in PeerState, l \in LaneStates, z \in EndStates :
       Around(c, d, e, p, l, z)
  BY AroundChannel
<1>a. Types
  BY DeviceParts
<1>b. e = Other(c, d) /\ p = peers[d][e] /\ l = LaneOf(c, d) /\ z = End(c, d)
  BY DEF Around
<1>0. /\ known' = [known EXCEPT ![d] = @ \cup {e}]
      /\ overtaken' = [overtaken EXCEPT ![d] = IF DownCallDue(d, e) THEN @ \cup {e} ELSE @ \ {e}]
      /\ SetEnd(c, d, "open")
      /\ UNCHANGED <<running, instance, peers, lane, poll, app, listening, abandoned, faults>>
  BY <1>b DEF PeerUp, End, LaneOf, UpCall
<1>1. /\ z = "upcall"
      /\ abandoned' = abandoned
  BY <1>0, <1>b DEF PeerUp, End, LaneOf, UpCall, Around
<1>2. Effect(c, d, "open", p.socket_fd, p.pending_fd, p.up_notified, l)
  <2>1. EndBecomes(c, d, "open")
    BY <1>a, <1>0, <1>1, <1>b, OneEnd DEF EndStates
  <2>2. EntryBecomes(d, e, p.socket_fd, p.pending_fd, p.up_notified)
    BY <1>a, <1>b, <1>0, SameEntry
  <2>3. LaneBecomes(c, d, l)
    BY <1>a, <1>0, <1>b, SameLane
  <2>4. OnlyAt(d)
    <3>1. /\ known' \in [Devices -> SUBSET Devices]
          /\ \A f \in Devices : f # d => known'[f] = known[f]
      BY <1>a, <1>0 DEF Types
    <3>2. /\ overtaken' \in [Devices -> SUBSET Devices]
          /\ \A f \in Devices : f # d => overtaken'[f] = overtaken[f]
      BY <1>a, <1>0 DEF Types
    <3> QED
      BY <1>a, <1>0, <3>1, <3>2 DEF OnlyAt, Types, PollStates
  <2>5. OnlyFor(c, d)
    <3>1. abandoned' \subseteq Channels \X Devices
      BY <1>a, <1>0 DEF Types
    <3> QED
      BY <1>0, <3>1 DEF OnlyFor
  <2> QED
    BY <1>b, <2>1, <2>2, <2>3, <2>4, <2>5 DEF Effect
<1>3. Locally(c, d, "open", p.socket_fd, p.pending_fd, l)
  BY <1>2, EffectLocally
<1>4. Sound(c, d, "open", p.socket_fd, p.pending_fd, l)
  BY <1>1 DEF Sound, Around, LaneStates
<1>5. /\ Sock(d, e) = p.socket_fd /\ Pend(d, e) = p.pending_fd
      /\ Swaps(c, Sock(d, e), p.socket_fd)
      /\ p.pending_fd = Pend(d, e) \/ (Pend(d, e) = c /\ p.pending_fd = None)
      /\ p.up_notified \in BOOLEAN /\ (p.up_notified <=> p.socket_fd # None) /\ (p.socket_fd # None => p.socket_fd # p.pending_fd)
  BY <1>1 DEF Around, Swaps
<1>6. /\ z # "created" /\ ("open" \notin {"created", "binding"} \/ "open" = z)
      /\ "open" # "none" => "open" = z \/ z # "none"
      /\ ~instance[d] => p.socket_fd = None /\ p.pending_fd = None /\ "open" # "joining"
      /\ l # "none" => l # "none" \/ z # "none"
  BY <1>1 DEF Around
<1>7. poll'[d] = poll[d]
  BY <1>0
<1>8. app[d] = "stopped" => known'[d] = {} /\ overtaken'[d] = {}
  BY <1>1 DEF Around
<1>9. Told(d)'
  <2>0. Told(d) /\ Table(d)
    BY DeviceParts
  <2>1. Sock(d, e) = c /\ c # None
    BY <1>1 DEF Around
  <2>2. DownCallDue(d, e) <=> Due(d, e)
    BY DEF DownCallDue, Due, End
  <2>3. \A g \in Devices : Due(d, g)' <=> Due(d, g)
    BY <1>1, <1>b, <1>3 DEF Due, Locally
  <2>4. /\ known'[d] = known[d] \cup {e}
        /\ overtaken'[d] = IF Due(d, e) THEN overtaken[d] \cup {e} ELSE overtaken[d] \ {e}
    BY <1>a, <1>0, <2>2 DEF Types
  <2>5. \A g \in Devices : Sock(d, g)' = Sock(d, g)
    BY <1>b, <1>3, <1>5 DEF Locally
  <2>6. app' = app /\ \A b \in Channels : b # c => End(b, d)' = End(b, d)
    BY <1>3 DEF Locally
  <2>7. ASSUME NEW g \in Devices, app[d] \in {"idle", "joining poll"}, g \notin overtaken'[d]
        PROVE  /\ Sock(d, g)' = None /\ g \in known'[d] => Due(d, g)'
               /\ \A b \in Channels :
                    Sock(d, g)' = b /\ End(b, d)' # "upcall" => g \in known'[d] /\ ~Due(d, g)'
    <3>1. CASE g = e
      BY <2>1, <2>3, <2>4, <2>5, <2>7, <3>1
    <3>2. CASE g # e
      <4>1. g \notin overtaken[d] /\ (g \in known'[d] <=> g \in known[d])
        BY <2>4, <2>7, <3>2
      <4>2. \A b \in Channels : Sock(d, g) = b => b # c
        BY <1>b, <2>0, <3>2 DEF Table, TableAt
      <4> QED
        BY <2>0, <2>3, <2>5, <2>6, <2>7, <4>1, <4>2 DEF Told
    <3> QED
      BY <3>1, <3>2
  <2> QED
    BY <2>6, <2>7 DEF Told
<1>10. Acceptable(c, d, "open", p.socket_fd, p.pending_fd, p.up_notified, l)
  BY <1>2, <1>4, <1>5, <1>6, <1>7, <1>8, <1>9, <1>b DEF Acceptable
<1> QED
  BY <1>10, ChannelStep

\* on_shutdown() of the channel in use clears its entry.
LEMMA OnShutdownChannelKeeps ==
  ASSUME DsoftbusInv, NEW c \in Channels, NEW d \in Devices, OnShutdownChannel(c, d)
  PROVE  DsoftbusInv'
<1>. PICK e \in Devices, p \in PeerState, l \in LaneStates, z \in EndStates :
       Around(c, d, e, p, l, z)
  BY AroundChannel
<1>a. Types
  BY DeviceParts
<1>b. e = Other(c, d) /\ p = peers[d][e] /\ l = LaneOf(c, d) /\ z = End(c, d)
  BY DEF Around
<1>. PICK q : q = [p EXCEPT !.socket_fd = None, !.up_notified = FALSE]
  OBVIOUS
<1>q. q \in PeerState /\ q.socket_fd = None /\ q.pending_fd = p.pending_fd /\ q.up_notified = FALSE
  BY DEF PeerState
<1>0. /\ SetEnd(c, d, "joining")
      /\ peers' = [peers EXCEPT ![d][e] = q]
      /\ UNCHANGED <<running, instance, lane, poll, app, known, listening, abandoned, overtaken,
                     faults>>
  BY <1>b DEF OnShutdownChannel, End, LaneOf, history
<1>1. /\ z = "lost" /\ instance[d] /\ p.socket_fd = c
      /\ abandoned' = abandoned
  BY <1>0, <1>b DEF OnShutdownChannel, End, LaneOf, history, Around
<1>2. Effect(c, d, "joining", None, p.pending_fd, FALSE, l)
  <2>1. EndBecomes(c, d, "joining")
    BY <1>a, <1>0, <1>1, <1>b, OneEnd DEF EndStates
  <2>2. EntryBecomes(d, e, None, p.pending_fd, FALSE)
    BY <1>a, <1>0, <1>q, EntryReplaced
  <2>3. LaneBecomes(c, d, l)
    BY <1>a, <1>0, <1>b, SameLane
  <2>4. OnlyAt(d)
    BY <1>a, <1>0, <1>1 DEF OnlyAt, Types, PollStates
  <2>5. OnlyFor(c, d)
    <3>1. abandoned' \subseteq Channels \X Devices
      BY <1>a, <1>0 DEF Types
    <3> QED
      BY <1>0, <3>1 DEF OnlyFor
  <2> QED
    BY <1>b, <2>1, <2>2, <2>3, <2>4, <2>5 DEF Effect
<1>3. Locally(c, d, "joining", None, p.pending_fd, l)
  BY <1>2, EffectLocally
<1>4. Sound(c, d, "joining", None, p.pending_fd, l)
  BY <1>1 DEF Sound, Around, LaneStates
<1>5. /\ Sock(d, e) = p.socket_fd /\ Pend(d, e) = p.pending_fd
      /\ Swaps(c, Sock(d, e), None)
      /\ p.pending_fd = Pend(d, e) \/ (Pend(d, e) = c /\ p.pending_fd = None)
      /\ FALSE \in BOOLEAN /\ (FALSE <=> None # None) /\ (None # None => None # p.pending_fd)
  BY <1>1 DEF Around, Swaps
<1>6. /\ z # "created" /\ ("joining" \notin {"created", "binding"} \/ "joining" = z)
      /\ "joining" # "none" => "joining" = z \/ z # "none"
      /\ ~instance[d] => None = None /\ p.pending_fd = None /\ "joining" # "joining"
      /\ l # "none" => l # "none" \/ z # "none"
  BY <1>1 DEF Around
<1>7. poll'[d] = poll[d]
  BY <1>0
<1>8. app[d] = "stopped" => known'[d] = {} /\ overtaken'[d] = {}
  BY <1>0 DEF Around
<1>9. Told(d)'
  <2>1. Told(d)
    BY DeviceParts
  <2>2. /\ Sock(d, e)' = None /\ End(c, d)' = "joining" /\ None \notin Channels
        /\ \A g \in Devices : g # e => Sock(d, g)' = Sock(d, g)
        /\ \A b \in Channels : b # c => End(b, d)' = End(b, d)
    BY <1>b, <1>3, ChannelFacts DEF Locally
  <2>3. \A g \in Devices : Due(d, g)' <=> Due(d, g) \/ g = e
    BY <1>b, <2>2 DEF Due
  <2>4. known' = known /\ overtaken' = overtaken /\ app' = app
    BY <1>0
  <2>5. \A g \in Devices : g # e => Sock(d, g) # c
    <3>1. Table(d)
      BY DeviceParts
    <3> QED
      BY <1>b, <3>1 DEF Table, TableAt
  <2> QED
    BY <2>1, <2>2, <2>3, <2>4, <2>5 DEF Told
<1>10. Acceptable(c, d, "joining", None, p.pending_fd, FALSE, l)
  BY <1>2, <1>4, <1>5, <1>6, <1>7, <1>8, <1>9, <1>b DEF Acceptable
<1> QED
  BY <1>10, ChannelStep

\* on_shutdown() of any other socket forgets the bind it belongs to.
LEMMA OnShutdownOtherKeeps ==
  ASSUME DsoftbusInv, NEW c \in Channels, NEW d \in Devices, OnShutdownOther(c, d)
  PROVE  DsoftbusInv'
<1>. PICK e \in Devices, p \in PeerState, l \in LaneStates, z \in EndStates :
       Around(c, d, e, p, l, z)
  BY AroundChannel
<1>a. Types
  BY DeviceParts
<1>b. e = Other(c, d) /\ p = peers[d][e] /\ l = LaneOf(c, d) /\ z = End(c, d)
  BY DEF Around
<1>. PICK x : x = IF instance[d] /\ p.pending_fd = c THEN None ELSE p.pending_fd
  OBVIOUS
<1>. PICK q : q = IF instance[d] THEN BindCompleted(p, c) ELSE p
  OBVIOUS
<1>q. /\ q \in PeerState /\ q.socket_fd = p.socket_fd /\ q.pending_fd = x
      /\ q.up_notified = p.up_notified
  BY DEF BindCompleted, PeerState
<1>0. /\ abandoned' = abandoned \ {<<c, d>>}
      /\ SetEnd(c, d, "none")
      /\ peers' = [peers EXCEPT ![d][e] = q]
      /\ UNCHANGED <<running, instance, lane, poll, app, known, listening, overtaken, faults>>
  BY <1>b DEF OnShutdownOther, End, LaneOf
<1>1. /\ z = "lost" /\ (instance[d] => p.socket_fd # c)
      /\ <<c, d>> \notin abandoned'
  <2>1. z = "lost" /\ (instance[d] => p.socket_fd # c)
    BY <1>b DEF OnShutdownOther, End
  <2>2. <<c, d>> \notin abandoned'
    BY <1>0
  <2> QED
    BY <2>1, <2>2
<1>2. Effect(c, d, "none", p.socket_fd, x, p.up_notified, l)
  <2>1. EndBecomes(c, d, "none")
    BY <1>a, <1>0, <1>1, <1>b, OneEnd DEF EndStates
  <2>2. EntryBecomes(d, e, p.socket_fd, x, p.up_notified)
    BY <1>a, <1>0, <1>q, EntryReplaced
  <2>3. LaneBecomes(c, d, l)
    BY <1>a, <1>0, <1>b, SameLane
  <2>4. OnlyAt(d)
    BY <1>a, <1>0, <1>1 DEF OnlyAt, Types, PollStates
  <2>5. OnlyFor(c, d)
    <3>1. abandoned' \subseteq Channels \X Devices
      BY <1>a, <1>0 DEF Types
    <3> QED
      BY <1>0, <3>1 DEF OnlyFor
  <2> QED
    BY <1>b, <2>1, <2>2, <2>3, <2>4, <2>5 DEF Effect
<1>3. Locally(c, d, "none", p.socket_fd, x, l)
  BY <1>2, EffectLocally
<1>4. Sound(c, d, "none", p.socket_fd, x, l)
  <2>1. x # c /\ p.socket_fd # c
    <3>1. CASE instance[d]
      BY <1>1, <3>1 DEF Around
    <3>2. CASE ~instance[d]
      BY <3>2 DEF Around
    <3> QED
      BY <3>1, <3>2
  <2>2. d \in {c.from, c.to} /\ l = "none"
    BY <1>1, <2>1 DEF Around
  <2> QED
    BY <2>1, <2>2 DEF Sound
<1>5. /\ Sock(d, e) = p.socket_fd /\ Pend(d, e) = p.pending_fd
      /\ Swaps(c, Sock(d, e), p.socket_fd)
      /\ x = Pend(d, e) \/ (Pend(d, e) = c /\ x = None)
      /\ p.up_notified \in BOOLEAN /\ (p.up_notified <=> p.socket_fd # None) /\ (p.socket_fd # None => p.socket_fd # x)
  BY <1>1 DEF Around, Swaps
<1>6. /\ z # "created" /\ ("none" \notin {"created", "binding"} \/ "none" = z)
      /\ "none" # "none" => "none" = z \/ z # "none"
      /\ ~instance[d] => p.socket_fd = None /\ x = None /\ "none" # "joining"
      /\ l # "none" => l # "none" \/ z # "none"
  BY <1>1 DEF Around
<1>7. poll'[d] = poll[d]
  BY <1>0
<1>8. app[d] = "stopped" => known'[d] = {} /\ overtaken'[d] = {}
  BY <1>0 DEF Around
<1>9. Told(d)'
  <2>1. /\ known'[d] = known[d] /\ overtaken'[d] = overtaken[d]
        /\ "none" = "joining" <=> z = "joining"
        /\ "none" = "upcall" <=> z = "upcall"
    BY <1>0, <1>1 DEF Around
  <2> QED
    BY <1>3, <1>b, <1>5, <2>1, ToldKept
<1>10. Acceptable(c, d, "none", p.socket_fd, x, p.up_notified, l)
  BY <1>2, <1>4, <1>5, <1>6, <1>7, <1>8, <1>9, <1>b DEF Acceptable
<1> QED
  BY <1>10, ChannelStep

\* on_shutdown() joins the lane and then calls on_peer_down().
LEMMA PeerDownKeeps ==
  ASSUME DsoftbusInv, NEW c \in Channels, NEW d \in Devices, PeerDown(c, d)
  PROVE  DsoftbusInv'
<1>. PICK e \in Devices, p \in PeerState, l \in LaneStates, z \in EndStates :
       Around(c, d, e, p, l, z)
  BY AroundChannel
<1>a. Types
  BY DeviceParts
<1>b. e = Other(c, d) /\ p = peers[d][e] /\ l = LaneOf(c, d) /\ z = End(c, d)
  BY DEF Around
<1>0. /\ lane' = [lane EXCEPT ![d][c] = "none"]
      /\ known' = [known EXCEPT ![d] = IF z = "joining" THEN @ \ {e} ELSE @]
      /\ SetEnd(c, d, "none")
      /\ UNCHANGED <<running, instance, peers, poll, app, listening, abandoned, overtaken,
                     faults>>
  BY <1>b DEF PeerDown, End, LaneOf, LaneJoins, history, LaneStates
<1>1. /\ z \in {"joining", "leaving"} /\ l # "checked"
      /\ abandoned' = abandoned
  BY <1>0, <1>b DEF PeerDown, End, LaneOf, LaneJoins, history, LaneStates, Around
<1>2. Effect(c, d, "none", p.socket_fd, p.pending_fd, p.up_notified, "none")
  <2>1. EndBecomes(c, d, "none")
    BY <1>a, <1>0, <1>1, <1>b, OneEnd DEF EndStates
  <2>2. EntryBecomes(d, e, p.socket_fd, p.pending_fd, p.up_notified)
    BY <1>a, <1>b, <1>0, SameEntry
  <2>3. LaneBecomes(c, d, "none")
    BY <1>a, <1>0, <1>b, OneLane DEF LaneStates
  <2>4. OnlyAt(d)
    BY <1>a, <1>0, <1>1 DEF OnlyAt, Types, PollStates
  <2>5. OnlyFor(c, d)
    <3>1. abandoned' \subseteq Channels \X Devices
      BY <1>a, <1>0 DEF Types
    <3> QED
      BY <1>0, <3>1 DEF OnlyFor
  <2> QED
    BY <1>b, <2>1, <2>2, <2>3, <2>4, <2>5 DEF Effect
<1>3. Locally(c, d, "none", p.socket_fd, p.pending_fd, "none")
  BY <1>2, EffectLocally
<1>4. Sound(c, d, "none", p.socket_fd, p.pending_fd, "none")
  BY <1>1 DEF Sound, Around, LaneStates
<1>5. /\ Sock(d, e) = p.socket_fd /\ Pend(d, e) = p.pending_fd
      /\ Swaps(c, Sock(d, e), p.socket_fd)
      /\ p.pending_fd = Pend(d, e) \/ (Pend(d, e) = c /\ p.pending_fd = None)
      /\ p.up_notified \in BOOLEAN /\ (p.up_notified <=> p.socket_fd # None) /\ (p.socket_fd # None => p.socket_fd # p.pending_fd)
  BY <1>1 DEF Around, Swaps
<1>6. /\ z # "created" /\ ("none" \notin {"created", "binding"} \/ "none" = z)
      /\ "none" # "none" => "none" = z \/ z # "none"
      /\ ~instance[d] => p.socket_fd = None /\ p.pending_fd = None /\ "none" # "joining"
      /\ "none" # "none" => l # "none" \/ z # "none"
  BY <1>1 DEF Around
<1>7. poll'[d] = poll[d]
  BY <1>0
<1>8. app[d] = "stopped" => known'[d] = {} /\ overtaken'[d] = {}
  <2>1. app[d] = "stopped" => z # "joining" /\ known[d] = {} /\ overtaken[d] = {}
    BY DEF Around
  <2> QED
    BY <1>a, <1>0, <2>1 DEF Types
<1>9. Told(d)'
  <2>0. Told(d)
    BY DeviceParts
  <2>1. known'[d] = IF z = "joining" THEN known[d] \ {e} ELSE known[d]
    BY <1>a, <1>0 DEF Types
  <2>2. \A g \in Devices : Sock(d, g)' = Sock(d, g)
    BY <1>b, <1>3, <1>5 DEF Locally
  <2>3. /\ app' = app /\ overtaken' = overtaken /\ End(c, d)' = "none"
        /\ \A b \in Channels : b # c => End(b, d)' = End(b, d)
    BY <1>0, <1>3 DEF Locally
  <2>4. \A g \in Devices : /\ Due(d, g)' => Due(d, g)
                           /\ g # e \/ z # "joining" => (Due(d, g)' <=> Due(d, g))
    BY <1>b, <2>3 DEF Due
  <2>5. z = "joining" => Due(d, e)
    BY <1>b DEF Due
  <2>6. \A g \in Devices : Sock(d, g) # c
    <3>1. Table(d)
      BY DeviceParts
    <3> QED
      BY <1>1, <1>b, <3>1 DEF Table, TableAt
  <2>7. ASSUME NEW g \in Devices, app[d] \in {"idle", "joining poll"}, g \notin overtaken[d]
        PROVE  /\ Sock(d, g)' = None /\ g \in known'[d] => Due(d, g)'
               /\ \A b \in Channels :
                    Sock(d, g)' = b /\ End(b, d)' # "upcall" => g \in known'[d] /\ ~Due(d, g)'
    <3>1. CASE g = e /\ z = "joining"
      <4>1. \A b \in Channels : Sock(d, g) = b => End(b, d) = "upcall"
        BY <2>0, <2>5, <2>7, <3>1 DEF Told
      <4> QED
        BY <2>1, <2>2, <2>3, <2>6, <3>1, <4>1
    <3>2. CASE g # e \/ z # "joining"
      BY <2>0, <2>1, <2>2, <2>3, <2>4, <2>6, <2>7, <3>2 DEF Told
    <3> QED
      BY <3>1, <3>2
  <2> QED
    BY <2>3, <2>7 DEF Told
<1>10. Acceptable(c, d, "none", p.socket_fd, p.pending_fd, p.up_notified, "none")
  BY <1>2, <1>4, <1>5, <1>6, <1>7, <1>8, <1>9, <1>b DEF Acceptable
<1> QED
  BY <1>10, ChannelStep

\* on_error() forgets the pending bind and shuts its socket down.
LEMMA OnErrorKeeps ==
  ASSUME DsoftbusInv, NEW c \in Channels, NEW d \in Devices, OnError(c, d)
  PROVE  DsoftbusInv'
<1>. PICK e \in Devices, p \in PeerState, l \in LaneStates, z \in EndStates :
       Around(c, d, e, p, l, z)
  BY AroundChannel
<1>a. Types
  BY DeviceParts
<1>b. e = Other(c, d) /\ p = peers[d][e] /\ l = LaneOf(c, d) /\ z = End(c, d)
  BY DEF Around
<1>. PICK q : q = [p EXCEPT !.pending_fd = None]
  OBVIOUS
<1>q. /\ q \in PeerState /\ q.socket_fd = p.socket_fd /\ q.pending_fd = None
      /\ q.up_notified = p.up_notified
  BY DEF PeerState
<1>0. /\ SetEnd(c, d, "none")
      /\ peers' = [peers EXCEPT ![d][e] = q]
      /\ UNCHANGED <<running, instance, lane, poll, app, known, listening, abandoned, overtaken,
                     faults>>
  BY <1>b DEF OnError, End, LaneOf, history
<1>1. /\ z = "failed" /\ instance[d] /\ p.pending_fd = c
      /\ abandoned' = abandoned
  <2>1. z = "failed" /\ instance[d] /\ p.pending_fd = c
    BY <1>b DEF OnError, End
  <2>2. abandoned' = abandoned
    BY <1>0
  <2> QED
    BY <2>1, <2>2
<1>2. Effect(c, d, "none", p.socket_fd, None, p.up_notified, l)
  <2>1. EndBecomes(c, d, "none")
    BY <1>a, <1>0, <1>1, <1>b, OneEnd DEF EndStates
  <2>2. EntryBecomes(d, e, p.socket_fd, None, p.up_notified)
    BY <1>a, <1>0, <1>q, EntryReplaced
  <2>3. LaneBecomes(c, d, l)
    BY <1>a, <1>0, <1>b, SameLane
  <2>4. OnlyAt(d)
    BY <1>a, <1>0, <1>1 DEF OnlyAt, Types, PollStates
  <2>5. OnlyFor(c, d)
    <3>1. abandoned' \subseteq Channels \X Devices
      BY <1>a, <1>0 DEF Types
    <3> QED
      BY <1>0, <3>1 DEF OnlyFor
  <2> QED
    BY <1>b, <2>1, <2>2, <2>3, <2>4, <2>5 DEF Effect
<1>3. Locally(c, d, "none", p.socket_fd, None, l)
  BY <1>2, EffectLocally
<1>4. Sound(c, d, "none", p.socket_fd, None, l)
  BY <1>1 DEF Sound, Around, LaneStates
<1>5. /\ Sock(d, e) = p.socket_fd /\ Pend(d, e) = p.pending_fd
      /\ Swaps(c, Sock(d, e), p.socket_fd)
      /\ None = Pend(d, e) \/ (Pend(d, e) = c /\ None = None)
      /\ p.up_notified \in BOOLEAN /\ (p.up_notified <=> p.socket_fd # None) /\ (p.socket_fd # None => p.socket_fd # None)
  BY <1>1 DEF Around, Swaps
<1>6. /\ z # "created" /\ ("none" \notin {"created", "binding"} \/ "none" = z)
      /\ "none" # "none" => "none" = z \/ z # "none"
      /\ ~instance[d] => p.socket_fd = None /\ None = None /\ "none" # "joining"
      /\ l # "none" => l # "none" \/ z # "none"
  BY <1>1 DEF Around
<1>7. poll'[d] = poll[d]
  BY <1>0
<1>8. app[d] = "stopped" => known'[d] = {} /\ overtaken'[d] = {}
  BY <1>0 DEF Around
<1>9. Told(d)'
  <2>1. /\ known'[d] = known[d] /\ overtaken'[d] = overtaken[d]
        /\ "none" = "joining" <=> z = "joining"
        /\ "none" = "upcall" <=> z = "upcall"
    BY <1>0, <1>1 DEF Around
  <2> QED
    BY <1>3, <1>b, <1>5, <2>1, ToldKept
<1>10. Acceptable(c, d, "none", p.socket_fd, None, p.up_notified, l)
  BY <1>2, <1>4, <1>5, <1>6, <1>7, <1>8, <1>9, <1>b DEF Acceptable
<1> QED
  BY <1>10, ChannelStep

\* on_error() of a socket the transport does not know leaves it.
LEMMA OnErrorIgnoredKeeps ==
  ASSUME DsoftbusInv, NEW c \in Channels, NEW d \in Devices, OnErrorIgnored(c, d)
  PROVE  DsoftbusInv'
<1>. PICK e \in Devices, p \in PeerState, l \in LaneStates, z \in EndStates :
       Around(c, d, e, p, l, z)
  BY AroundChannel
<1>a. Types
  BY DeviceParts
<1>b. e = Other(c, d) /\ p = peers[d][e] /\ l = LaneOf(c, d) /\ z = End(c, d)
  BY DEF Around
<1>0. /\ SetEnd(c, d, "dead")
      /\ UNCHANGED <<running, instance, peers, lane, poll, app, known, listening, abandoned,
                     overtaken, faults>>
  BY <1>b DEF OnErrorIgnored, End, LaneOf, transport, history
<1>1. /\ z = "failed" /\ ~(instance[d] /\ p.pending_fd = c)
      /\ abandoned' = abandoned
  BY <1>0, <1>b DEF OnErrorIgnored, End, LaneOf, transport, history, Around
<1>2. Effect(c, d, "dead", p.socket_fd, p.pending_fd, p.up_notified, l)
  <2>1. EndBecomes(c, d, "dead")
    BY <1>a, <1>0, <1>1, <1>b, OneEnd DEF EndStates
  <2>2. EntryBecomes(d, e, p.socket_fd, p.pending_fd, p.up_notified)
    BY <1>a, <1>b, <1>0, SameEntry
  <2>3. LaneBecomes(c, d, l)
    BY <1>a, <1>0, <1>b, SameLane
  <2>4. OnlyAt(d)
    BY <1>a, <1>0, <1>1 DEF OnlyAt, Types, PollStates
  <2>5. OnlyFor(c, d)
    <3>1. abandoned' \subseteq Channels \X Devices
      BY <1>a, <1>0 DEF Types
    <3> QED
      BY <1>0, <3>1 DEF OnlyFor
  <2> QED
    BY <1>b, <2>1, <2>2, <2>3, <2>4, <2>5 DEF Effect
<1>3. Locally(c, d, "dead", p.socket_fd, p.pending_fd, l)
  BY <1>2, EffectLocally
<1>4. Sound(c, d, "dead", p.socket_fd, p.pending_fd, l)
  BY <1>1 DEF Sound, Around, LaneStates
<1>5. /\ Sock(d, e) = p.socket_fd /\ Pend(d, e) = p.pending_fd
      /\ Swaps(c, Sock(d, e), p.socket_fd)
      /\ p.pending_fd = Pend(d, e) \/ (Pend(d, e) = c /\ p.pending_fd = None)
      /\ p.up_notified \in BOOLEAN /\ (p.up_notified <=> p.socket_fd # None) /\ (p.socket_fd # None => p.socket_fd # p.pending_fd)
  BY <1>1 DEF Around, Swaps
<1>6. /\ z # "created" /\ ("dead" \notin {"created", "binding"} \/ "dead" = z)
      /\ "dead" # "none" => "dead" = z \/ z # "none"
      /\ ~instance[d] => p.socket_fd = None /\ p.pending_fd = None /\ "dead" # "joining"
      /\ l # "none" => l # "none" \/ z # "none"
  BY <1>1 DEF Around
<1>7. poll'[d] = poll[d]
  BY <1>0
<1>8. app[d] = "stopped" => known'[d] = {} /\ overtaken'[d] = {}
  BY <1>0 DEF Around
<1>9. Told(d)'
  <2>1. /\ known'[d] = known[d] /\ overtaken'[d] = overtaken[d]
        /\ "dead" = "joining" <=> z = "joining"
        /\ "dead" = "upcall" <=> z = "upcall"
    BY <1>0, <1>1 DEF Around
  <2> QED
    BY <1>3, <1>b, <1>5, <2>1, ToldKept
<1>10. Acceptable(c, d, "dead", p.socket_fd, p.pending_fd, p.up_notified, l)
  BY <1>2, <1>4, <1>5, <1>6, <1>7, <1>8, <1>9, <1>b DEF Acceptable
<1> QED
  BY <1>10, ChannelStep

-----------------------------------------------------------------------------
(* The service and the lanes *)

\* A closed channel is noticed.
LEMMA DetectKeeps ==
  ASSUME DsoftbusInv, NEW c \in Channels, NEW d \in Devices, Detect(c, d)
  PROVE  DsoftbusInv'
<1>. PICK e \in Devices, p \in PeerState, l \in LaneStates, z \in EndStates :
       Around(c, d, e, p, l, z)
  BY AroundChannel
<1>a. Types
  BY DeviceParts
<1>b. e = Other(c, d) /\ p = peers[d][e] /\ l = LaneOf(c, d) /\ z = End(c, d)
  BY DEF Around
<1>0. /\ SetEnd(c, d, "lost")
      /\ UNCHANGED <<running, instance, peers, lane, poll, app, known, listening, abandoned,
                     overtaken, faults>>
  BY <1>b DEF Detect, End, LaneOf, transport, history
<1>1. /\ z = "open"
      /\ abandoned' = abandoned
  BY <1>0, <1>b DEF Detect, End, LaneOf, transport, history, Around
<1>2. Effect(c, d, "lost", p.socket_fd, p.pending_fd, p.up_notified, l)
  <2>1. EndBecomes(c, d, "lost")
    BY <1>a, <1>0, <1>1, <1>b, OneEnd DEF EndStates
  <2>2. EntryBecomes(d, e, p.socket_fd, p.pending_fd, p.up_notified)
    BY <1>a, <1>b, <1>0, SameEntry
  <2>3. LaneBecomes(c, d, l)
    BY <1>a, <1>0, <1>b, SameLane
  <2>4. OnlyAt(d)
    BY <1>a, <1>0, <1>1 DEF OnlyAt, Types, PollStates
  <2>5. OnlyFor(c, d)
    <3>1. abandoned' \subseteq Channels \X Devices
      BY <1>a, <1>0 DEF Types
    <3> QED
      BY <1>0, <3>1 DEF OnlyFor
  <2> QED
    BY <1>b, <2>1, <2>2, <2>3, <2>4, <2>5 DEF Effect
<1>3. Locally(c, d, "lost", p.socket_fd, p.pending_fd, l)
  BY <1>2, EffectLocally
<1>4. Sound(c, d, "lost", p.socket_fd, p.pending_fd, l)
  BY <1>1 DEF Sound, Around, LaneStates
<1>5. /\ Sock(d, e) = p.socket_fd /\ Pend(d, e) = p.pending_fd
      /\ Swaps(c, Sock(d, e), p.socket_fd)
      /\ p.pending_fd = Pend(d, e) \/ (Pend(d, e) = c /\ p.pending_fd = None)
      /\ p.up_notified \in BOOLEAN /\ (p.up_notified <=> p.socket_fd # None) /\ (p.socket_fd # None => p.socket_fd # p.pending_fd)
  BY <1>1 DEF Around, Swaps
<1>6. /\ z # "created" /\ ("lost" \notin {"created", "binding"} \/ "lost" = z)
      /\ "lost" # "none" => "lost" = z \/ z # "none"
      /\ ~instance[d] => p.socket_fd = None /\ p.pending_fd = None /\ "lost" # "joining"
      /\ l # "none" => l # "none" \/ z # "none"
  BY <1>1 DEF Around
<1>7. poll'[d] = poll[d]
  BY <1>0
<1>8. app[d] = "stopped" => known'[d] = {} /\ overtaken'[d] = {}
  BY <1>0 DEF Around
<1>9. Told(d)'
  <2>1. /\ known'[d] = known[d] /\ overtaken'[d] = overtaken[d]
        /\ "lost" = "joining" <=> z = "joining"
        /\ "lost" = "upcall" <=> z = "upcall"
    BY <1>0, <1>1 DEF Around
  <2> QED
    BY <1>3, <1>b, <1>5, <2>1, ToldKept
<1>10. Acceptable(c, d, "lost", p.socket_fd, p.pending_fd, p.up_notified, l)
  BY <1>2, <1>4, <1>5, <1>6, <1>7, <1>8, <1>9, <1>b DEF Acceptable
<1> QED
  BY <1>10, ChannelStep

\* A channel breaks.
LEMMA LoseChannelKeeps ==
  ASSUME DsoftbusInv, NEW c \in Channels, NEW d \in Devices, LoseChannel(c, d)
  PROVE  DsoftbusInv'
<1>. PICK e \in Devices, p \in PeerState, l \in LaneStates, z \in EndStates :
       Around(c, d, e, p, l, z)
  BY AroundChannel
<1>a. Types
  BY DeviceParts
<1>b. e = Other(c, d) /\ p = peers[d][e] /\ l = LaneOf(c, d) /\ z = End(c, d)
  BY DEF Around
<1>0. /\ SetEnd(c, d, "lost")
      /\ UNCHANGED <<running, instance, peers, lane, poll, app, known, listening, abandoned,
                     overtaken>>
  BY <1>b DEF LoseChannel, End, LaneOf, transport, history
<1>1. /\ z = "open" /\ Fault
      /\ abandoned' = abandoned
  BY <1>0, <1>b DEF LoseChannel, End, LaneOf, transport, history, Around
<1>2. Effect(c, d, "lost", p.socket_fd, p.pending_fd, p.up_notified, l)
  <2>1. EndBecomes(c, d, "lost")
    BY <1>a, <1>0, <1>1, <1>b, OneEnd DEF EndStates
  <2>2. EntryBecomes(d, e, p.socket_fd, p.pending_fd, p.up_notified)
    BY <1>a, <1>b, <1>0, SameEntry
  <2>3. LaneBecomes(c, d, l)
    BY <1>a, <1>0, <1>b, SameLane
  <2>4. OnlyAt(d)
    BY <1>a, <1>0, <1>1, FaultCounted DEF OnlyAt, Types, PollStates
  <2>5. OnlyFor(c, d)
    <3>1. abandoned' \subseteq Channels \X Devices
      BY <1>a, <1>0 DEF Types
    <3> QED
      BY <1>0, <3>1 DEF OnlyFor
  <2> QED
    BY <1>b, <2>1, <2>2, <2>3, <2>4, <2>5 DEF Effect
<1>3. Locally(c, d, "lost", p.socket_fd, p.pending_fd, l)
  BY <1>2, EffectLocally
<1>4. Sound(c, d, "lost", p.socket_fd, p.pending_fd, l)
  BY <1>1 DEF Sound, Around, LaneStates
<1>5. /\ Sock(d, e) = p.socket_fd /\ Pend(d, e) = p.pending_fd
      /\ Swaps(c, Sock(d, e), p.socket_fd)
      /\ p.pending_fd = Pend(d, e) \/ (Pend(d, e) = c /\ p.pending_fd = None)
      /\ p.up_notified \in BOOLEAN /\ (p.up_notified <=> p.socket_fd # None) /\ (p.socket_fd # None => p.socket_fd # p.pending_fd)
  BY <1>1 DEF Around, Swaps
<1>6. /\ z # "created" /\ ("lost" \notin {"created", "binding"} \/ "lost" = z)
      /\ "lost" # "none" => "lost" = z \/ z # "none"
      /\ ~instance[d] => p.socket_fd = None /\ p.pending_fd = None /\ "lost" # "joining"
      /\ l # "none" => l # "none" \/ z # "none"
  BY <1>1 DEF Around
<1>7. poll'[d] = poll[d]
  BY <1>0
<1>8. app[d] = "stopped" => known'[d] = {} /\ overtaken'[d] = {}
  BY <1>0 DEF Around
<1>9. Told(d)'
  <2>1. /\ known'[d] = known[d] /\ overtaken'[d] = overtaken[d]
        /\ "lost" = "joining" <=> z = "joining"
        /\ "lost" = "upcall" <=> z = "upcall"
    BY <1>0, <1>1 DEF Around
  <2> QED
    BY <1>3, <1>b, <1>5, <2>1, ToldKept
<1>10. Acceptable(c, d, "lost", p.socket_fd, p.pending_fd, p.up_notified, l)
  BY <1>2, <1>4, <1>5, <1>6, <1>7, <1>8, <1>9, <1>b DEF Acceptable
<1> QED
  BY <1>10, ChannelStep

\* A bind fails, and the service owes a callback.
LEMMA BindFailsKeeps ==
  ASSUME DsoftbusInv, NEW c \in Channels, BindFails(c)
  PROVE  DsoftbusInv'
<1>. PICK d \in Devices : d = c.from
  BY ChannelFacts
<1>. PICK s \in {"failed", "lost"} : SetEnd(c, d, s)
  BY DEF BindFails
<1>. PICK e \in Devices, p \in PeerState, l \in LaneStates, z \in EndStates :
       Around(c, d, e, p, l, z)
  BY AroundChannel
<1>a. Types
  BY DeviceParts
<1>b. e = Other(c, d) /\ p = peers[d][e] /\ l = LaneOf(c, d) /\ z = End(c, d)
  BY DEF Around
<1>0. /\ SetEnd(c, d, s)
      /\ UNCHANGED <<running, instance, peers, lane, poll, app, known, listening, abandoned,
                     overtaken>>
  BY <1>b DEF BindFails, End, LaneOf, transport, history
<1>1. /\ z = "binding" /\ (Fault \/ UNCHANGED faults)
      /\ abandoned' = abandoned
  BY <1>0, <1>b DEF BindFails, End, LaneOf, transport, history, Around
<1>2. Effect(c, d, s, p.socket_fd, p.pending_fd, p.up_notified, l)
  <2>1. EndBecomes(c, d, s)
    BY <1>a, <1>0, <1>1, <1>b, OneEnd DEF EndStates
  <2>2. EntryBecomes(d, e, p.socket_fd, p.pending_fd, p.up_notified)
    BY <1>a, <1>b, <1>0, SameEntry
  <2>3. LaneBecomes(c, d, l)
    BY <1>a, <1>0, <1>b, SameLane
  <2>4. OnlyAt(d)
    BY <1>a, <1>0, <1>1, FaultCounted DEF OnlyAt, Types, PollStates
  <2>5. OnlyFor(c, d)
    <3>1. abandoned' \subseteq Channels \X Devices
      BY <1>a, <1>0 DEF Types
    <3> QED
      BY <1>0, <3>1 DEF OnlyFor
  <2> QED
    BY <1>b, <2>1, <2>2, <2>3, <2>4, <2>5 DEF Effect
<1>3. Locally(c, d, s, p.socket_fd, p.pending_fd, l)
  BY <1>2, EffectLocally
<1>4. Sound(c, d, s, p.socket_fd, p.pending_fd, l)
  BY <1>1 DEF Sound, Around, LaneStates
<1>5. /\ Sock(d, e) = p.socket_fd /\ Pend(d, e) = p.pending_fd
      /\ Swaps(c, Sock(d, e), p.socket_fd)
      /\ p.pending_fd = Pend(d, e) \/ (Pend(d, e) = c /\ p.pending_fd = None)
      /\ p.up_notified \in BOOLEAN /\ (p.up_notified <=> p.socket_fd # None) /\ (p.socket_fd # None => p.socket_fd # p.pending_fd)
  BY <1>1 DEF Around, Swaps
<1>6. /\ z # "created" /\ (s \notin {"created", "binding"} \/ s = z)
      /\ s # "none" => s = z \/ z # "none"
      /\ ~instance[d] => p.socket_fd = None /\ p.pending_fd = None /\ s # "joining"
      /\ l # "none" => l # "none" \/ z # "none"
  BY <1>1 DEF Around
<1>7. poll'[d] = poll[d]
  BY <1>0
<1>8. app[d] = "stopped" => known'[d] = {} /\ overtaken'[d] = {}
  BY <1>0 DEF Around
<1>9. Told(d)'
  <2>1. /\ known'[d] = known[d] /\ overtaken'[d] = overtaken[d]
        /\ s = "joining" <=> z = "joining"
        /\ s = "upcall" <=> z = "upcall"
    BY <1>0, <1>1 DEF Around
  <2> QED
    BY <1>3, <1>b, <1>5, <2>1, ToldKept
<1>10. Acceptable(c, d, s, p.socket_fd, p.pending_fd, p.up_notified, l)
  BY <1>2, <1>4, <1>5, <1>6, <1>7, <1>8, <1>9, <1>b DEF Acceptable
<1> QED
  BY <1>10, ChannelStep

\* deliver() finds its socket in use.
LEMMA DeliverCheckKeeps ==
  ASSUME DsoftbusInv, NEW c \in Channels, NEW d \in Devices, DeliverCheck(c, d)
  PROVE  DsoftbusInv'
<1>. PICK e \in Devices, p \in PeerState, l \in LaneStates, z \in EndStates :
       Around(c, d, e, p, l, z)
  BY AroundChannel
<1>a. Types
  BY DeviceParts
<1>b. e = Other(c, d) /\ p = peers[d][e] /\ l = LaneOf(c, d) /\ z = End(c, d)
  BY DEF Around
<1>0. /\ lane' = [lane EXCEPT ![d][c] = "checked"]
      /\ UNCHANGED <<running, instance, peers, poll, app, known, ends, listening, abandoned,
                     overtaken, faults>>
  BY <1>b DEF DeliverCheck, End, LaneOf, service, history
<1>1. /\ l = "idle"
      /\ abandoned' = abandoned
  BY <1>0, <1>b DEF DeliverCheck, End, LaneOf, service, history, Around
<1>2. Effect(c, d, z, p.socket_fd, p.pending_fd, p.up_notified, "checked")
  <2>1. EndBecomes(c, d, z)
    BY <1>a, <1>0, <1>1, <1>b, SameEnd
  <2>2. EntryBecomes(d, e, p.socket_fd, p.pending_fd, p.up_notified)
    BY <1>a, <1>b, <1>0, SameEntry
  <2>3. LaneBecomes(c, d, "checked")
    BY <1>a, <1>0, <1>b, OneLane DEF LaneStates
  <2>4. OnlyAt(d)
    BY <1>a, <1>0, <1>1 DEF OnlyAt, Types, PollStates
  <2>5. OnlyFor(c, d)
    <3>1. abandoned' \subseteq Channels \X Devices
      BY <1>a, <1>0 DEF Types
    <3> QED
      BY <1>0, <3>1 DEF OnlyFor
  <2> QED
    BY <1>b, <2>1, <2>2, <2>3, <2>4, <2>5 DEF Effect
<1>3. Locally(c, d, z, p.socket_fd, p.pending_fd, "checked")
  BY <1>2, EffectLocally
<1>4. Sound(c, d, z, p.socket_fd, p.pending_fd, "checked")
  BY <1>1 DEF Sound, Around, LaneStates
<1>5. /\ Sock(d, e) = p.socket_fd /\ Pend(d, e) = p.pending_fd
      /\ Swaps(c, Sock(d, e), p.socket_fd)
      /\ p.pending_fd = Pend(d, e) \/ (Pend(d, e) = c /\ p.pending_fd = None)
      /\ p.up_notified \in BOOLEAN /\ (p.up_notified <=> p.socket_fd # None) /\ (p.socket_fd # None => p.socket_fd # p.pending_fd)
  BY <1>1 DEF Around, Swaps
<1>6. /\ z # "created" /\ (z \notin {"created", "binding"} \/ z = z)
      /\ z # "none" => z = z \/ z # "none"
      /\ ~instance[d] => p.socket_fd = None /\ p.pending_fd = None /\ z # "joining"
      /\ "checked" # "none" => l # "none" \/ z # "none"
  BY <1>1 DEF Around
<1>7. poll'[d] = poll[d]
  BY <1>0
<1>8. app[d] = "stopped" => known'[d] = {} /\ overtaken'[d] = {}
  BY <1>0 DEF Around
<1>9. Told(d)'
  <2>1. /\ known'[d] = known[d] /\ overtaken'[d] = overtaken[d]
        /\ z = "joining" <=> z = "joining"
        /\ z = "upcall" <=> z = "upcall"
    BY <1>0, <1>1 DEF Around
  <2> QED
    BY <1>3, <1>b, <1>5, <2>1, ToldKept
<1>10. Acceptable(c, d, z, p.socket_fd, p.pending_fd, p.up_notified, "checked")
  BY <1>2, <1>4, <1>5, <1>6, <1>7, <1>8, <1>9, <1>b DEF Acceptable
<1> QED
  BY <1>10, ChannelStep

\* SendBytes() returns.
LEMMA DeliverSendKeeps ==
  ASSUME DsoftbusInv, NEW c \in Channels, NEW d \in Devices, DeliverSend(c, d)
  PROVE  DsoftbusInv'
<1>. PICK e \in Devices, p \in PeerState, l \in LaneStates, z \in EndStates :
       Around(c, d, e, p, l, z)
  BY AroundChannel
<1>a. Types
  BY DeviceParts
<1>b. e = Other(c, d) /\ p = peers[d][e] /\ l = LaneOf(c, d) /\ z = End(c, d)
  BY DEF Around
<1>0. /\ lane' = [lane EXCEPT ![d][c] = "idle"]
      /\ UNCHANGED <<running, instance, peers, poll, app, known, ends, listening, abandoned,
                     overtaken, faults>>
  BY <1>b DEF DeliverSend, End, LaneOf, service, history
<1>1. /\ l = "checked"
      /\ abandoned' = abandoned
  BY <1>0, <1>b DEF DeliverSend, End, LaneOf, service, history, Around
<1>2. Effect(c, d, z, p.socket_fd, p.pending_fd, p.up_notified, "idle")
  <2>1. EndBecomes(c, d, z)
    BY <1>a, <1>0, <1>1, <1>b, SameEnd
  <2>2. EntryBecomes(d, e, p.socket_fd, p.pending_fd, p.up_notified)
    BY <1>a, <1>b, <1>0, SameEntry
  <2>3. LaneBecomes(c, d, "idle")
    BY <1>a, <1>0, <1>b, OneLane DEF LaneStates
  <2>4. OnlyAt(d)
    BY <1>a, <1>0, <1>1 DEF OnlyAt, Types, PollStates
  <2>5. OnlyFor(c, d)
    <3>1. abandoned' \subseteq Channels \X Devices
      BY <1>a, <1>0 DEF Types
    <3> QED
      BY <1>0, <3>1 DEF OnlyFor
  <2> QED
    BY <1>b, <2>1, <2>2, <2>3, <2>4, <2>5 DEF Effect
<1>3. Locally(c, d, z, p.socket_fd, p.pending_fd, "idle")
  BY <1>2, EffectLocally
<1>4. Sound(c, d, z, p.socket_fd, p.pending_fd, "idle")
  BY <1>1 DEF Sound, Around, LaneStates
<1>5. /\ Sock(d, e) = p.socket_fd /\ Pend(d, e) = p.pending_fd
      /\ Swaps(c, Sock(d, e), p.socket_fd)
      /\ p.pending_fd = Pend(d, e) \/ (Pend(d, e) = c /\ p.pending_fd = None)
      /\ p.up_notified \in BOOLEAN /\ (p.up_notified <=> p.socket_fd # None) /\ (p.socket_fd # None => p.socket_fd # p.pending_fd)
  BY <1>1 DEF Around, Swaps
<1>6. /\ z # "created" /\ (z \notin {"created", "binding"} \/ z = z)
      /\ z # "none" => z = z \/ z # "none"
      /\ ~instance[d] => p.socket_fd = None /\ p.pending_fd = None /\ z # "joining"
      /\ "idle" # "none" => l # "none" \/ z # "none"
  BY <1>1 DEF Around
<1>7. poll'[d] = poll[d]
  BY <1>0
<1>8. app[d] = "stopped" => known'[d] = {} /\ overtaken'[d] = {}
  BY <1>0 DEF Around
<1>9. Told(d)'
  <2>1. /\ known'[d] = known[d] /\ overtaken'[d] = overtaken[d]
        /\ z = "joining" <=> z = "joining"
        /\ z = "upcall" <=> z = "upcall"
    BY <1>0, <1>1 DEF Around
  <2> QED
    BY <1>3, <1>b, <1>5, <2>1, ToldKept
<1>10. Acceptable(c, d, z, p.socket_fd, p.pending_fd, p.up_notified, "idle")
  BY <1>2, <1>4, <1>5, <1>6, <1>7, <1>8, <1>9, <1>b DEF Acceptable
<1> QED
  BY <1>10, ChannelStep

-----------------------------------------------------------------------------
(* The poll thread, stop() and start() *)

\* A step that changes one device only.
LEMMA AloneKeeps ==
  ASSUME DsoftbusInv, NEW d \in Devices, Types', Linked', DeviceInv(d)',
         \A f \in Devices \ {d} : Untouched(f)
  PROVE  DsoftbusInv'
<1>1. ASSUME NEW f \in Devices \ {d} PROVE DeviceInv(f)'
  BY UntouchedKeeps DEF DsoftbusInv
<1> QED
  BY <1>1 DEF DsoftbusInv

\* Where d is in its poll loop and in stop() changes; table, lanes and sockets stay.
ControlOnly(d) ==
  /\ UNCHANGED <<peers, lane, known, ends, abandoned, overtaken>>
  /\ \A f \in Devices \ {d} : UNCHANGED <<instance[f], poll[f], app[f], listening[f]>>

\* A step of start(), stop() or the poll thread that touches no channel.
LEMMA ControlKeeps ==
  ASSUME DsoftbusInv, NEW d \in Devices, ControlOnly(d), Types',
         Phase(d)', Polling(d)', Told(d)',
         app[d] \in {"clearing", "joining lanes"} => app'[d] \in {"clearing", "joining lanes"}
  PROVE  DsoftbusInv'
<1>1. Linked /\ Entries(d) /\ Table(d) /\ Owned(d) /\ Joined(d)
  BY DeviceParts
<1>2. /\ \A e \in Devices : /\ Sock(d, e)' = Sock(d, e) /\ Pend(d, e)' = Pend(d, e)
                            /\ Up(d, e)' = Up(d, e)
      /\ \A c \in Channels, f \in Devices : LaneOf(c, f)' = LaneOf(c, f)
      /\ \A c \in Channels, f \in Devices : End(c, f)' = End(c, f)
      /\ abandoned' = abandoned
  BY DEF ControlOnly, Sock, Pend, Up, LaneOf, End
<1>3. Linked'
  BY <1>1, <1>2, ChannelFacts DEF Linked
<1>4. Entries(d)'
  BY <1>1, <1>2 DEF Entries
<1>5. Table(d)'
  <2>1. ASSUME NEW e \in Devices, NEW c \in Channels PROVE TableAt(d, e, c)'
    <3>1. /\ Sock(d, e)' = Sock(d, e) /\ Pend(d, e)' = Pend(d, e)
          /\ End(c, d)' = End(c, d) /\ LaneOf(c, d)' = LaneOf(c, d)
      BY <1>2
    <3>2. TableAt(d, e, c)
      BY <1>1 DEF Table
    <3> QED
      BY <3>1, <3>2 DEF TableAt
  <2> QED
    BY <2>1 DEF Table
<1>6. Owned(d)'
  BY <1>1, <1>2, ChannelFacts DEF Owned, OwnedAt
<1>7. Joined(d)'
  BY <1>1, <1>2, ChannelFacts DEF Joined, JoinedAt
<1>8. \A f \in Devices \ {d} : Untouched(f)
  BY <1>2 DEF ControlOnly, Untouched
<1> QED
  BY <1>3, <1>4, <1>5, <1>6, <1>7, <1>8, AloneKeeps DEF DeviceInv

\* Told(d) reads nothing that such a step changes.
LEMMA ControlTold ==
  ASSUME DsoftbusInv, NEW d \in Devices, ControlOnly(d),
         app'[d] \in {"idle", "joining poll"} => app[d] \in {"idle", "joining poll"}
  PROVE  Told(d)'
<1>1. Told(d)
  BY DeviceParts
<1>2. /\ \A e \in Devices : Sock(d, e)' = Sock(d, e)
      /\ \A c \in Channels : End(c, d)' = End(c, d)
      /\ known' = known /\ overtaken' = overtaken
  BY DEF ControlOnly, Sock, End
<1>3. \A e \in Devices : Due(d, e)' <=> Due(d, e)
  BY <1>2 DEF Due
<1> QED
  BY <1>1, <1>2, <1>3 DEF Told

\* A step of the poll thread that holds no socket before or after it.
LEMMA PollOnlyKeeps ==
  ASSUME DsoftbusInv, NEW d \in Devices, NEW q \in PollStates,
         poll' = [poll EXCEPT ![d] = q], poll[d].fd = None, q.fd = None,
         ~instance[d] \/ app[d] = "clearing" => q = Exited,
         q.at # "binding" => q.to_bind = {}, d \notin q.to_bind,
         \A e \in Devices : e \in q.to_bind => Pend(d, e) = None,
         UNCHANGED <<running, instance, peers, lane, app, known, ends, listening, abandoned,
                     overtaken>>,
         faults' \in 0 .. MaxFaults
  PROVE  DsoftbusInv'
<1>1. Types /\ Phase(d) /\ Polling(d)
  BY DeviceParts
<1>2. poll \in [Devices -> PollStates]
  BY <1>1 DEF Types, PollStates
<1>3. poll' \in [Devices -> PollStates] /\ poll'[d] = q
  BY <1>2
<1>4. ControlOnly(d)
  BY <1>2 DEF ControlOnly
<1>5. Types'
  BY <1>1, <1>3 DEF Types, PollStates
<1>6. Told(d)'
  BY <1>4, ControlTold
<1>7. /\ \A e \in Devices : Sock(d, e)' = Sock(d, e) /\ Pend(d, e)' = Pend(d, e)
      /\ \A c \in Channels : End(c, d)' = End(c, d)
  BY DEF Sock, Pend, End
<1>8. Phase(d)'
  <2>1. Exited.at = "exited"
    BY DEF Exited, Asleep
  <2> QED
    BY <1>1, <1>3, <1>7, <2>1 DEF Phase
<1>9. Polling(d)'
  BY <1>1, <1>3, <1>7, ChannelFacts DEF Polling
<1> QED
  BY <1>4, <1>5, <1>6, <1>8, <1>9, ControlKeeps

\* The next device of to_bind.
LEMMA Advances ==
  ASSUME Types, NEW d \in Devices, NEW e, NextToBind(d, e), poll[d].at = "binding"
  PROVE  \E q \in PollStates :
           /\ poll' = [poll EXCEPT ![d] = q]
           /\ q.fd = None /\ q.to_bind = poll[d].to_bind \ {e}
           /\ q.at # "binding" => q.to_bind = {}
<1>. PICK r : r = poll[d].to_bind \ {e}
  OBVIOUS
<1>. PICK q : q = IF r = {} THEN Asleep ELSE [poll[d] EXCEPT !.to_bind = r, !.fd = None]
  OBVIOUS
<1>1. poll[d] \in PollStates
  BY DEF Types, PollStates
<1>2. poll' = [poll EXCEPT ![d] = q]
  BY DEF NextToBind
<1>3. q \in PollStates /\ q.fd = None /\ q.to_bind = r /\ (q.at # "binding" => q.to_bind = {})
  <2>1. CASE r = {}
    BY <2>1 DEF Asleep, PollStates
  <2>2. CASE r # {}
    <3>1. q = [poll[d] EXCEPT !.to_bind = r, !.fd = None] /\ r \subseteq Devices
      BY <1>1, <2>2 DEF PollStates
    <3> QED
      BY <1>1, <3>1 DEF PollStates
  <2> QED
    BY <2>1, <2>2
<1> QED
  BY <1>2, <1>3

\* The poll thread finds devices to bind to.
LEMMA PollEnumerateKeeps ==
  ASSUME DsoftbusInv, NEW d \in Devices, PollEnumerate(d)
  PROVE  DsoftbusInv'
<1>1. Types /\ Phase(d)
  BY DeviceParts
<1>. PICK r : r = {e \in Devices \ {d} : NeedsBind(d, e)}
  OBVIOUS
<1>. PICK q : q = [at |-> "binding", to_bind |-> r, fd |-> None]
  OBVIOUS
<1>2. /\ poll[d] = Asleep /\ poll' = [poll EXCEPT ![d] = q]
      /\ UNCHANGED <<running, instance, peers, lane, app, known, ends, listening, abandoned,
                     overtaken, faults>>
  BY DEF PollEnumerate, service, history
<1>3. q \in PollStates /\ q.fd = None /\ q.at = "binding" /\ d \notin q.to_bind
  BY DEF PollStates
<1>4. \A e \in Devices : e \in q.to_bind => Pend(d, e) = None
  BY DEF NeedsBind, Pend
<1>5. poll[d].fd = None /\ poll[d] # Exited /\ poll[d].at = "asleep"
  BY <1>2 DEF Asleep, Exited
<1>6. instance[d] /\ app[d] # "clearing"
  BY <1>1, <1>5 DEF Phase
<1>7. faults' \in 0 .. MaxFaults
  BY <1>1, <1>2, FaultCounted
<1> QED
  BY <1>2, <1>3, <1>4, <1>5, <1>6, <1>7, PollOnlyKeeps

\* The poll loop ends.
LEMMA PollExitKeeps ==
  ASSUME DsoftbusInv, NEW d \in Devices, PollExit(d)
  PROVE  DsoftbusInv'
<1>1. Types
  BY DeviceParts
<1>2. /\ poll[d] = Asleep /\ poll' = [poll EXCEPT ![d] = Exited]
      /\ UNCHANGED <<running, instance, peers, lane, app, known, ends, listening, abandoned,
                     overtaken, faults>>
  BY DEF PollExit, service, history
<1>3. Exited \in PollStates /\ Exited.fd = None /\ Exited.to_bind = {}
  BY DEF PollStates, Exited, Asleep
<1>4. poll[d].fd = None
  BY <1>2 DEF Asleep
<1>5. faults' \in 0 .. MaxFaults
  BY <1>1, <1>2, FaultCounted
<1> QED
  BY <1>2, <1>3, <1>4, <1>5, PollOnlyKeeps

\* Socket() fails: the next device.
LEMMA PollSocketFailsKeeps ==
  ASSUME DsoftbusInv, NEW d \in Devices, NEW e \in Devices, PollSocketFails(d, e)
  PROVE  DsoftbusInv'
<1>1. Types /\ Phase(d) /\ Polling(d)
  BY DeviceParts
<1>2. /\ poll[d].at = "binding" /\ poll[d].fd = None /\ NextToBind(d, e) /\ Fault
      /\ UNCHANGED <<running, instance, peers, lane, app, known, ends, listening, abandoned,
                     overtaken>>
  BY DEF PollSocketFails, service
<1>3. PICK q \in PollStates :
        /\ poll' = [poll EXCEPT ![d] = q]
        /\ q.fd = None /\ q.to_bind = poll[d].to_bind \ {e}
        /\ q.at # "binding" => q.to_bind = {}
  BY <1>1, <1>2, Advances
<1>4. d \notin q.to_bind /\ \A g \in Devices : g \in q.to_bind => Pend(d, g) = None
  BY <1>1, <1>2, <1>3 DEF Polling
<1>5. instance[d] /\ app[d] # "clearing"
  BY <1>1, <1>2 DEF Phase, Exited, Asleep
<1>6. faults' \in 0 .. MaxFaults
  BY <1>1, <1>2, FaultCounted
<1> QED
  BY <1>2, <1>3, <1>4, <1>5, <1>6, PollOnlyKeeps

\* Socket() and, under the lock, pending_fd.
LEMMA PollSocketKeeps ==
  ASSUME DsoftbusInv, NEW d \in Devices, NEW g \in Devices, PollSocket(d, g)
  PROVE  DsoftbusInv'
<1>1. Types /\ Phase(d) /\ Polling(d)
  BY DeviceParts
<1>. PICK c \in FreeChannels(d, g) :
       /\ SetEnd(c, d, "created")
       /\ peers' = [peers EXCEPT ![d][g].pending_fd = c]
       /\ poll' = [poll EXCEPT ![d].fd = c]
       /\ UNCHANGED <<running, instance, lane, app, known, listening, abandoned, overtaken, faults>>
  BY DEF PollSocket, history
<1>2. /\ c \in Channels /\ c.from = d /\ c.to = g /\ End(c, d) = "none" /\ End(c, g) = "none"
      /\ LaneOf(c, d) = "none" /\ LaneOf(c, g) = "none"
      /\ poll[d].at = "binding" /\ poll[d].fd = None /\ g \in poll[d].to_bind
  BY DEF FreeChannels, End, LaneOf, PollSocket
<1>. PICK e \in Devices, p \in PeerState, l \in LaneStates, z \in EndStates :
       Around(c, d, e, p, l, z)
  BY <1>2, AroundChannel
<1>b. e = Other(c, d) /\ p = peers[d][e] /\ l = LaneOf(c, d) /\ z = End(c, d) /\ e = g
  BY <1>2 DEF Around
<1>3. instance[d] /\ app[d] # "clearing"
  BY <1>1, <1>2 DEF Phase, Exited, Asleep
<1>4. p.pending_fd = None /\ p.socket_fd # c /\ z = "none" /\ l = "none"
  <2>1. p.pending_fd = None
    BY <1>1, <1>2, <1>b DEF Polling, Around
  <2> QED
    BY <1>2, <1>b, <2>1 DEF Around
<1>. PICK q : q = [p EXCEPT !.pending_fd = c]
  OBVIOUS
<1>q. /\ q \in PeerState /\ q.socket_fd = p.socket_fd /\ q.pending_fd = c
      /\ q.up_notified = p.up_notified
  BY <1>2 DEF PeerState
<1>5. Effect(c, d, "created", p.socket_fd, c, p.up_notified, l)
  <2>1. EndBecomes(c, d, "created")
    BY <1>1, <1>2, OneEnd DEF EndStates
  <2>2. EntryBecomes(d, e, p.socket_fd, c, p.up_notified)
    <3>1. peers' = [peers EXCEPT ![d][e] = q]
      BY <1>b
    <3> QED
      BY <1>1, <1>q, <3>1, EntryReplaced
  <2>3. LaneBecomes(c, d, l)
    BY <1>1, <1>2, <1>b, SameLane
  <2>4. OnlyAt(d)
    <3>1. poll \in [Devices -> PollStates]
      BY <1>1 DEF Types, PollStates
    <3>2. poll' \in [Devices -> PollStates] /\ \A f \in Devices : f # d => poll'[f] = poll[f]
      BY <1>2, <3>1 DEF PollStates
    <3> QED
      BY <1>1, <3>2 DEF OnlyAt, Types
  <2>5. OnlyFor(c, d)
    BY <1>1 DEF OnlyFor, Types
  <2> QED
    BY <1>b, <2>1, <2>2, <2>3, <2>4, <2>5 DEF Effect
<1>6. Locally(c, d, "created", p.socket_fd, c, l)
  BY <1>2, <1>5, EffectLocally
<1>7. Sound(c, d, "created", p.socket_fd, c, l)
  BY <1>2, <1>4 DEF Sound
<1>8. /\ Sock(d, e) = p.socket_fd /\ Pend(d, e) = None
      /\ Swaps(c, Sock(d, e), p.socket_fd) /\ Swaps(c, Pend(d, e), c)
  BY <1>4 DEF Around, Swaps
<1>9. Table(d)' /\ Owned(d)' /\ Joined(d)'
  BY <1>2, <1>6, <1>7, <1>8, <1>b, ChannelKept
<1>10. Told(d)'
  <2>1. /\ known'[d] = known[d] /\ overtaken'[d] = overtaken[d]
        /\ "created" = "joining" <=> z = "joining"
        /\ "created" = "upcall" <=> z = "upcall"
    BY <1>4
  <2> QED
    BY <1>2, <1>6, <1>8, <1>b, <2>1, ToldKept
<1>11. Phase(d)'
  BY <1>1, <1>3 DEF Phase
<1>12. Polling(d)'
  <2>1. /\ poll'[d].at = poll[d].at /\ poll'[d].to_bind = poll[d].to_bind /\ poll'[d].fd = c
    <3>1. poll \in [Devices -> PollStates]
      BY <1>1 DEF Types, PollStates
    <3>2. poll'[d] = [poll[d] EXCEPT !.fd = c] /\ poll[d] \in PollStates
      BY <3>1
    <3> QED
      BY <3>2 DEF PollStates
  <2>2. \A h \in Devices : Pend(d, h)' = IF h = e THEN c ELSE Pend(d, h)
    BY <1>6, <1>b DEF Locally
  <2>3. \A b \in Channels : End(b, d)' = "created" <=> b = c
    BY <1>1, <1>2, <1>6, ChannelFacts DEF Locally, Polling
  <2> QED
    BY <1>1, <1>2, <1>b, <2>1, <2>2, <2>3 DEF Polling
<1> QED
  <2>1. /\ p.up_notified \in BOOLEAN /\ (p.up_notified <=> p.socket_fd # None)
        /\ p.socket_fd # None => p.socket_fd # c
        /\ c.from = d /\ End(c, c.to) = "none" /\ LaneOf(c, c.to) = "none" /\ l = "none"
    BY <1>2, <1>4 DEF Around
  <2> QED
    BY <1>2, <1>5, <1>9, <1>10, <1>11, <1>12, <2>1, EffectKeeps

\* BindAsync() is accepted.
LEMMA PollBindAsyncKeeps ==
  ASSUME DsoftbusInv, NEW d \in Devices, PollBindAsync(d)
  PROVE  DsoftbusInv'
<1>1. Types /\ Phase(d) /\ Polling(d) /\ Table(d)
  BY DeviceParts
<1>. PICK c : c = poll[d].fd
  OBVIOUS
<1>2. c \in Channels /\ End(c, d) = "created" /\ Pend(d, c.to) = c /\ poll[d].at = "binding"
  <2>1. poll[d].fd \in Channels \cup {None} /\ c # None
    BY <1>1 DEF Types, PollBindAsync
  <2> QED
    BY <1>1, <2>1 DEF Polling
<1>. PICK e \in Devices, p \in PeerState, l \in LaneStates, z \in EndStates :
       Around(c, d, e, p, l, z)
  BY <1>2, AroundChannel
<1>b. /\ e = Other(c, d) /\ p = peers[d][e] /\ l = LaneOf(c, d) /\ z = End(c, d)
      /\ c.from = d /\ e = c.to /\ p.pending_fd = c /\ p.socket_fd # c /\ l = "none"
  BY <1>2 DEF Around
<1>3. /\ SetEnd(c, d, "binding") /\ NextToBind(d, e)
      /\ UNCHANGED <<running, instance, peers, lane, app, known, listening, abandoned,
                     overtaken, faults>>
  BY <1>b DEF PollBindAsync, history
<1>4. PICK n \in PollStates :
        /\ poll' = [poll EXCEPT ![d] = n]
        /\ n.fd = None /\ n.to_bind = poll[d].to_bind \ {e}
        /\ n.at # "binding" => n.to_bind = {}
  BY <1>1, <1>2, <1>3, Advances
<1>5. Effect(c, d, "binding", p.socket_fd, c, p.up_notified, l)
  <2>1. EndBecomes(c, d, "binding")
    BY <1>1, <1>2, <1>3, OneEnd DEF EndStates
  <2>2. EntryBecomes(d, e, p.socket_fd, c, p.up_notified)
    BY <1>1, <1>3, <1>b, SameEntry
  <2>3. LaneBecomes(c, d, l)
    BY <1>1, <1>2, <1>3, <1>b, SameLane
  <2>4. OnlyAt(d)
    <3>1. poll \in [Devices -> PollStates]
      BY <1>1 DEF Types, PollStates
    <3>2. poll' \in [Devices -> PollStates] /\ \A f \in Devices : f # d => poll'[f] = poll[f]
      BY <1>4, <3>1
    <3>3. faults' \in 0 .. MaxFaults
      BY <1>1, <1>3, FaultCounted
    <3> QED
      BY <1>1, <1>3, <3>2, <3>3 DEF OnlyAt, Types
  <2>5. OnlyFor(c, d)
    BY <1>1, <1>3 DEF OnlyFor, Types
  <2> QED
    BY <1>b, <2>1, <2>2, <2>3, <2>4, <2>5 DEF Effect
<1>6. Locally(c, d, "binding", p.socket_fd, c, l)
  BY <1>2, <1>5, EffectLocally
<1>7. Sound(c, d, "binding", p.socket_fd, c, l)
  BY <1>2, <1>b DEF Sound, Around
<1>8. /\ Sock(d, e) = p.socket_fd /\ Pend(d, e) = c
      /\ Swaps(c, Sock(d, e), p.socket_fd) /\ Swaps(c, Pend(d, e), c)
  BY <1>b DEF Around, Swaps
<1>9. Table(d)' /\ Owned(d)' /\ Joined(d)'
  BY <1>2, <1>6, <1>7, <1>8, <1>b, ChannelKept
<1>10. Told(d)'
  <2>1. /\ known'[d] = known[d] /\ overtaken'[d] = overtaken[d]
        /\ "binding" = "joining" <=> z = "joining"
        /\ "binding" = "upcall" <=> z = "upcall"
    BY <1>2, <1>3, <1>b
  <2> QED
    BY <1>2, <1>6, <1>8, <1>b, <2>1, ToldKept
<1>11. Phase(d)'
  <2>1. instance[d] /\ app[d] # "clearing"
    BY <1>1, <1>2 DEF Phase, Exited, Asleep
  <2> QED
    BY <1>1, <1>3, <2>1 DEF Phase
<1>12. Polling(d)'
  <2>1. poll'[d] = n
    BY <1>1, <1>4 DEF Types
  <2>2. \A h \in Devices : h # e => Pend(d, h)' = Pend(d, h)
    BY <1>6, <1>b DEF Locally
  <2>3. \A b \in Channels : End(b, d)' # "created"
    BY <1>1, <1>2, <1>6 DEF Locally, Polling
  <2>4. \A h \in Devices : h \in n.to_bind => h # e /\ Pend(d, h) \in {None, c}
    BY <1>1, <1>4 DEF Polling
  <2>5. \A h \in Devices : Pend(d, h) = c => h = e
    BY <1>1, <1>2, <1>b DEF Table, TableAt
  <2>6. \A b \in Channels : b # None
    BY ChannelFacts
  <2> QED
    BY <1>1, <1>4, <2>1, <2>2, <2>3, <2>4, <2>5, <2>6 DEF Polling
<1> QED
  <2>1. /\ p.up_notified \in BOOLEAN /\ (p.up_notified <=> p.socket_fd # None)
        /\ p.socket_fd # None => p.socket_fd # c
        /\ l = "none"
    BY <1>b DEF Around
  <2> QED
    BY <1>2, <1>5, <1>9, <1>10, <1>11, <1>12, <2>1, EffectKeeps

\* BindAsync() is refused: the socket is shut down and no longer pending.
LEMMA PollBindAsyncFailsKeeps ==
  ASSUME DsoftbusInv, NEW d \in Devices, PollBindAsyncFails(d)
  PROVE  DsoftbusInv'
<1>1. Types /\ Phase(d) /\ Polling(d) /\ Table(d)
  BY DeviceParts
<1>. PICK c : c = poll[d].fd
  OBVIOUS
<1>2. c \in Channels /\ End(c, d) = "created" /\ Pend(d, c.to) = c /\ poll[d].at = "binding"
  <2>1. poll[d].fd \in Channels \cup {None} /\ c # None
    BY <1>1 DEF Types, PollBindAsyncFails
  <2> QED
    BY <1>1, <2>1 DEF Polling
<1>. PICK e \in Devices, p \in PeerState, l \in LaneStates, z \in EndStates :
       Around(c, d, e, p, l, z)
  BY <1>2, AroundChannel
<1>b. /\ e = Other(c, d) /\ p = peers[d][e] /\ l = LaneOf(c, d) /\ z = End(c, d)
      /\ c.from = d /\ e = c.to /\ p.pending_fd = c /\ p.socket_fd # c /\ l = "none"
  BY <1>2 DEF Around
<1>. PICK q : q = [p EXCEPT !.pending_fd = None]
  OBVIOUS
<1>q. /\ q \in PeerState /\ q.socket_fd = p.socket_fd /\ q.pending_fd = None
      /\ q.up_notified = p.up_notified
  BY DEF PeerState
<1>3. /\ SetEnd(c, d, "none") /\ NextToBind(d, e)
      /\ UNCHANGED <<running, instance, lane, app, known, listening, abandoned, overtaken>>
      /\ peers' = [peers EXCEPT ![d][e] = q]
      /\ Fault
  BY <1>b DEF PollBindAsyncFails
<1>4. PICK n \in PollStates :
        /\ poll' = [poll EXCEPT ![d] = n]
        /\ n.fd = None /\ n.to_bind = poll[d].to_bind \ {e}
        /\ n.at # "binding" => n.to_bind = {}
  BY <1>1, <1>2, <1>3, Advances
<1>5. Effect(c, d, "none", p.socket_fd, None, p.up_notified, l)
  <2>1. EndBecomes(c, d, "none")
    BY <1>1, <1>2, <1>3, OneEnd DEF EndStates
  <2>2. EntryBecomes(d, e, p.socket_fd, None, p.up_notified)
    BY <1>1, <1>3, <1>q, EntryReplaced
  <2>3. LaneBecomes(c, d, l)
    BY <1>1, <1>2, <1>3, <1>b, SameLane
  <2>4. OnlyAt(d)
    <3>1. poll \in [Devices -> PollStates]
      BY <1>1 DEF Types, PollStates
    <3>2. poll' \in [Devices -> PollStates] /\ \A f \in Devices : f # d => poll'[f] = poll[f]
      BY <1>4, <3>1
    <3>3. faults' \in 0 .. MaxFaults
      BY <1>1, <1>3, FaultCounted
    <3> QED
      BY <1>1, <1>3, <3>2, <3>3 DEF OnlyAt, Types
  <2>5. OnlyFor(c, d)
    BY <1>1, <1>3 DEF OnlyFor, Types
  <2> QED
    BY <1>b, <2>1, <2>2, <2>3, <2>4, <2>5 DEF Effect
<1>6. Locally(c, d, "none", p.socket_fd, None, l)
  BY <1>2, <1>5, EffectLocally
<1>7. Sound(c, d, "none", p.socket_fd, None, l)
  BY <1>2, <1>b DEF Sound, Around
<1>8. /\ Sock(d, e) = p.socket_fd /\ Pend(d, e) = c
      /\ Swaps(c, Sock(d, e), p.socket_fd) /\ Swaps(c, Pend(d, e), None)
  BY <1>b DEF Around, Swaps
<1>9. Table(d)' /\ Owned(d)' /\ Joined(d)'
  BY <1>2, <1>6, <1>7, <1>8, <1>b, ChannelKept
<1>10. Told(d)'
  <2>1. /\ known'[d] = known[d] /\ overtaken'[d] = overtaken[d]
        /\ "none" = "joining" <=> z = "joining"
        /\ "none" = "upcall" <=> z = "upcall"
    BY <1>2, <1>3, <1>b
  <2> QED
    BY <1>2, <1>6, <1>8, <1>b, <2>1, ToldKept
<1>11. Phase(d)'
  <2>1. instance[d] /\ app[d] # "clearing"
    BY <1>1, <1>2 DEF Phase, Exited, Asleep
  <2> QED
    BY <1>1, <1>3, <2>1 DEF Phase
<1>12. Polling(d)'
  <2>1. poll'[d] = n
    BY <1>1, <1>4 DEF Types
  <2>2. \A h \in Devices : h # e => Pend(d, h)' = Pend(d, h)
    BY <1>6, <1>b DEF Locally
  <2>3. \A b \in Channels : End(b, d)' # "created"
    BY <1>1, <1>2, <1>6 DEF Locally, Polling
  <2>4. \A h \in Devices : h \in n.to_bind => h # e /\ Pend(d, h) \in {None, c}
    BY <1>1, <1>4 DEF Polling
  <2>5. \A h \in Devices : Pend(d, h) = c => h = e
    BY <1>1, <1>2, <1>b DEF Table, TableAt
  <2>6. \A b \in Channels : b # None
    BY ChannelFacts
  <2> QED
    BY <1>1, <1>4, <2>1, <2>2, <2>3, <2>4, <2>5, <2>6 DEF Polling
<1> QED
  <2>1. /\ p.up_notified \in BOOLEAN /\ (p.up_notified <=> p.socket_fd # None)
        /\ p.socket_fd # None => p.socket_fd # None
        /\ l = "none"
    BY <1>b DEF Around
  <2> QED
    BY <1>2, <1>5, <1>9, <1>10, <1>11, <1>12, <2>1, EffectKeeps

\* stop() gives up running_ and waits for the poll thread.
LEMMA StopLatchKeeps ==
  ASSUME DsoftbusInv, NEW d \in Devices, StopLatch(d)
  PROVE  DsoftbusInv'
<1>1. Types /\ Phase(d) /\ Polling(d)
  BY DeviceParts
<1>2. /\ app[d] = "idle" /\ Fault
      /\ running' = [running EXCEPT ![d] = FALSE]
      /\ app' = [app EXCEPT ![d] = "joining poll"]
      /\ UNCHANGED <<instance, peers, lane, poll, known, ends, listening, abandoned, overtaken>>
  BY DEF StopLatch, service
<1>3. faults' \in 0 .. MaxFaults
  BY <1>1, <1>2, FaultCounted
<1>4. ControlOnly(d) /\ app'[d] = "joining poll"
  BY <1>1, <1>2 DEF ControlOnly, Types
<1>5. Types'
  BY <1>1, <1>2, <1>3 DEF Types
<1>6. Told(d)'
  BY <1>2, <1>4, ControlTold
<1>7. /\ \A e \in Devices : Sock(d, e)' = Sock(d, e) /\ Pend(d, e)' = Pend(d, e)
      /\ \A c \in Channels : End(c, d)' = End(c, d)
  BY <1>2 DEF Sock, Pend, End
<1>8. Phase(d)'
  BY <1>1, <1>2, <1>4, <1>7 DEF Phase
<1>9. Polling(d)'
  BY <1>1, <1>2, <1>7, ChannelFacts DEF Polling
<1> QED
  BY <1>2, <1>4, <1>5, <1>6, <1>8, <1>9, ControlKeeps

\* The loss of the listening socket ends the poll loop.
LEMMA OnShutdownListenKeeps ==
  ASSUME DsoftbusInv, NEW d \in Devices, OnShutdownListen(d)
  PROVE  DsoftbusInv'
<1>1. Types /\ Phase(d) /\ Polling(d)
  BY DeviceParts
<1>2. /\ listening[d] /\ Fault
      /\ listening' = [listening EXCEPT ![d] = FALSE]
      /\ running' = [running EXCEPT ![d] = FALSE]
      /\ UNCHANGED <<instance, peers, lane, poll, app, known, ends, abandoned, overtaken>>
  BY DEF OnShutdownListen
<1>3. faults' \in 0 .. MaxFaults
  BY <1>1, <1>2, FaultCounted
<1>4. ControlOnly(d) /\ listening'[d] = FALSE
  BY <1>1, <1>2 DEF ControlOnly, Types
<1>5. Types'
  BY <1>1, <1>2, <1>3 DEF Types
<1>6. Told(d)'
  BY <1>2, <1>4, ControlTold
<1>7. /\ \A e \in Devices : Sock(d, e)' = Sock(d, e) /\ Pend(d, e)' = Pend(d, e)
      /\ \A c \in Channels : End(c, d)' = End(c, d)
  BY <1>2 DEF Sock, Pend, End
<1>8. Phase(d)'
  BY <1>1, <1>2, <1>4, <1>7 DEF Phase
<1>9. Polling(d)'
  BY <1>1, <1>2, <1>7, ChannelFacts DEF Polling
<1> QED
  BY <1>2, <1>4, <1>5, <1>6, <1>8, <1>9, ControlKeeps

\* start() on a transport that stopped.
LEMMA StartKeeps ==
  ASSUME DsoftbusInv, NEW d \in Devices, Start(d)
  PROVE  DsoftbusInv'
<1>1. Types /\ Phase(d) /\ Polling(d)
  BY DeviceParts
<1>2. /\ app[d] = "stopped" /\ ~instance[d]
      /\ running' = [running EXCEPT ![d] = TRUE]
      /\ instance' = [instance EXCEPT ![d] = TRUE]
      /\ listening' = [listening EXCEPT ![d] = TRUE]
      /\ poll' = [poll EXCEPT ![d] = Asleep]
      /\ app' = [app EXCEPT ![d] = "idle"]
      /\ UNCHANGED <<peers, lane, known, ends, abandoned, overtaken, faults>>
  BY DEF Start, history
<1>3. Asleep \in PollStates /\ Asleep.at # "binding" /\ Asleep.to_bind = {} /\ Asleep.fd = None
  BY DEF Asleep, PollStates
<1>4. /\ ControlOnly(d) /\ app'[d] = "idle" /\ instance'[d] = TRUE /\ poll'[d] = Asleep
  BY <1>1, <1>2 DEF ControlOnly, Types
<1>5. Types'
  BY <1>1, <1>2, <1>3 DEF Types, PollStates
<1>6. /\ \A e \in Devices : Sock(d, e)' = Sock(d, e) /\ Pend(d, e)' = Pend(d, e)
      /\ \A c \in Channels : End(c, d)' = End(c, d)
  BY <1>2 DEF Sock, Pend, End
<1>7. /\ \A e \in Devices : Sock(d, e) = None /\ Pend(d, e) = None
      /\ known[d] = {} /\ poll[d].fd = None
  BY <1>1, <1>2 DEF Phase, Exited, Asleep
<1>8. Told(d)'
  BY <1>2, <1>6, <1>7, ChannelFacts DEF Told
<1>9. Phase(d)'
  BY <1>4 DEF Phase
<1>10. Polling(d)'
  BY <1>1, <1>3, <1>4, <1>6, <1>7, ChannelFacts DEF Polling
<1> QED
  BY <1>2, <1>4, <1>5, <1>8, <1>9, <1>10, ControlKeeps

\* Ends of channels that are closed at d leave no bind on its way.
LEMMA LinkedAlone ==
  ASSUME Linked, NEW d \in Devices,
         \A c \in Channels, f \in Devices : f # d =>
           End(c, f)' = End(c, f) /\ LaneOf(c, f)' = LaneOf(c, f),
         \A c \in Channels : LaneOf(c, d)' \in {LaneOf(c, d), "none"},
         \A c \in Channels : End(c, d)' = End(c, d) \/ End(c, d)' = "none" \/
                             (End(c, d) # "none" /\ End(c, d)' = "leaving")
  PROVE  Linked'
<1>1. ASSUME NEW c \in Channels, End(c, c.from)' \in {"created", "binding"}
      PROVE  End(c, c.to)' = "none" /\ LaneOf(c, c.to)' = "none"
  <2>1. c.from \in Devices /\ c.to \in Devices
    BY ChannelFacts
  <2>2. End(c, c.from)' = End(c, c.from)
    BY <1>1, <2>1
  <2>3. End(c, c.to) = "none" /\ LaneOf(c, c.to) = "none"
    BY <1>1, <2>2 DEF Linked
  <2> QED
    BY <2>1, <2>3
<1> QED
  BY <1>1 DEF Linked

\* The poll thread has ended and stop() takes the lock.
LEMMA StopLockKeeps ==
  ASSUME DsoftbusInv, NEW d \in Devices, StopLock(d)
  PROVE  DsoftbusInv'
<1>1. Types /\ Phase(d) /\ Polling(d)
  BY DeviceParts
<1>2. /\ app[d] = "joining poll" /\ poll[d].at = "exited"
      /\ app' = [app EXCEPT ![d] = "clearing"]
      /\ UNCHANGED <<running, instance, peers, lane, poll, known, ends, listening, abandoned,
                     overtaken, faults>>
  BY DEF StopLock, service, history
<1>3. ControlOnly(d) /\ app'[d] = "clearing"
  BY <1>1, <1>2 DEF ControlOnly, Types
<1>4. Types'
  BY <1>1, <1>2 DEF Types
<1>5. Told(d)'
  BY <1>3 DEF Told
<1>6. /\ \A e \in Devices : Sock(d, e)' = Sock(d, e) /\ Pend(d, e)' = Pend(d, e)
      /\ \A c \in Channels : End(c, d)' = End(c, d)
  BY <1>2 DEF Sock, Pend, End
<1>7. Phase(d)'
  BY <1>1, <1>2, <1>3, <1>6 DEF Phase
<1>8. Polling(d)'
  BY <1>1, <1>2, <1>6, ChannelFacts DEF Polling
<1> QED
  BY <1>2, <1>3, <1>4, <1>5, <1>7, <1>8, ControlKeeps

\* stop() shuts down a channel in use; its lane is joined later.
LEMMA StopShutdownKeeps ==
  ASSUME DsoftbusInv, NEW d \in Devices, NEW g \in Devices, StopShutdown(d, g)
  PROVE  DsoftbusInv'
<1>. PICK c : c = peers[d][g].socket_fd
  OBVIOUS
<1>a. Types /\ Table(d)
  BY DeviceParts
<1>g. c \in Channels /\ g = Other(c, d)
  <2>1. c = Sock(d, g) /\ c # None
    BY DEF Sock, StopShutdown
  <2> QED
    BY <1>a, <2>1, EntryTypes DEF Table, TableAt
<1>. PICK e \in Devices, p \in PeerState, l \in LaneStates, z \in EndStates :
       Around(c, d, e, p, l, z)
  BY <1>g, AroundChannel
<1>b. e = g /\ e = Other(c, d) /\ p = peers[d][e] /\ l = LaneOf(c, d) /\ z = End(c, d)
  BY <1>g DEF Around
<1>. PICK q : q = [p EXCEPT !.socket_fd = None, !.up_notified = FALSE]
  OBVIOUS
<1>q. /\ q \in PeerState /\ q.socket_fd = None /\ q.pending_fd = p.pending_fd
      /\ q.up_notified = FALSE
  BY DEF PeerState
<1>0. /\ SetEnd(c, d, "none") /\ app[d] = "clearing"
      /\ peers' = [peers EXCEPT ![d][e] = q]
      /\ UNCHANGED <<running, instance, lane, poll, app, known, listening, abandoned,
                     overtaken, faults>>
  BY <1>b DEF StopShutdown, Locked, history
<1>1. p.socket_fd = c /\ z \in {"upcall", "open", "lost"} /\ instance[d] /\ p.pending_fd # c
  <2>1. p.socket_fd = c
    BY <1>b
  <2> QED
    BY <1>0, <2>1 DEF Around
<1>2. Effect(c, d, "none", None, p.pending_fd, FALSE, l)
  <2>1. EndBecomes(c, d, "none")
    BY <1>a, <1>0, <1>g, OneEnd DEF EndStates
  <2>2. EntryBecomes(d, e, None, p.pending_fd, FALSE)
    BY <1>a, <1>0, <1>q, EntryReplaced
  <2>3. LaneBecomes(c, d, l)
    BY <1>a, <1>0, <1>b, <1>g, SameLane
  <2>4. OnlyAt(d)
    BY <1>a, <1>0 DEF OnlyAt, Types, PollStates
  <2>5. OnlyFor(c, d)
    BY <1>a, <1>0 DEF OnlyFor, Types
  <2> QED
    BY <1>b, <2>1, <2>2, <2>3, <2>4, <2>5 DEF Effect
<1>4. Sound(c, d, "none", None, p.pending_fd, l)
  BY <1>0, <1>1 DEF Sound, Around
<1>5. /\ Sock(d, e) = p.socket_fd /\ Pend(d, e) = p.pending_fd
      /\ Swaps(c, Sock(d, e), None)
      /\ p.pending_fd = Pend(d, e) \/ (Pend(d, e) = c /\ p.pending_fd = None)
      /\ FALSE \in BOOLEAN /\ (FALSE <=> None # None) /\ (None # None => None # p.pending_fd)
  BY <1>1 DEF Around, Swaps
<1>6. /\ z # "created" /\ ("none" \notin {"created", "binding"} \/ "none" = z)
      /\ "none" # "none" => "none" = z \/ z # "none"
      /\ ~instance[d] => None = None /\ p.pending_fd = None /\ "none" # "joining"
      /\ l # "none" => l # "none" \/ z # "none"
  BY <1>1 DEF Around
<1>7. poll'[d] = poll[d]
  BY <1>0
<1>8. app[d] = "stopped" => known'[d] = {} /\ overtaken'[d] = {}
  BY <1>0
<1>9. Told(d)'
  <2>1. app'[d] = "clearing"
    BY <1>0
  <2> QED
    BY <2>1 DEF Told
<1>10. Acceptable(c, d, "none", None, p.pending_fd, FALSE, l)
  BY <1>2, <1>4, <1>5, <1>6, <1>7, <1>8, <1>9, <1>b DEF Acceptable
<1> QED
  BY <1>10, <1>g, ChannelStep

\* stop() clears the table once the channels in use are shut down.
LEMMA StopClearKeeps ==
  ASSUME DsoftbusInv, NEW d \in Devices, StopClear(d)
  PROVE  DsoftbusInv'
<1>1. Types /\ Linked /\ Phase(d) /\ Polling(d) /\ Table(d) /\ Owned(d) /\ Joined(d)
  BY DeviceParts
<1>2. /\ app[d] = "clearing" /\ poll[d].at = "exited" /\ Sockets(d) = {}
      /\ peers' = [peers EXCEPT ![d] = [e \in Devices |-> NoPeer]]
      /\ abandoned' = abandoned \cup {<<c, d>> : c \in Pending(d)}
      /\ listening' = [listening EXCEPT ![d] = FALSE]
      /\ instance' = [instance EXCEPT ![d] = FALSE]
      /\ app' = [app EXCEPT ![d] = "joining lanes"]
      /\ UNCHANGED <<running, lane, poll, known, overtaken, faults>>
  BY <1>1 DEF StopClear, Locked, Phase
<1>3. /\ ends' \in [Channels -> [Devices -> EndStates]]
      /\ \A c \in Channels, f \in Devices : f # d => End(c, f)' = End(c, f)
      /\ \A c \in Channels :
           End(c, d)' = IF End(c, d) = "joining" THEN "leaving" ELSE End(c, d)
  <2>1. ends \in [Channels -> [Devices -> EndStates]]
    BY <1>1 DEF Types
  <2>2. ends' = [c \in Channels |->
                  [ends[c] EXCEPT ![d] = IF @ = "joining" THEN "leaving" ELSE @]]
    BY DEF StopClear
  <2>3. \A c \in Channels :
          /\ \A f \in Devices : f # d => ends'[c][f] = ends[c][f]
          /\ ends'[c][d] = IF ends[c][d] = "joining" THEN "leaving" ELSE ends[c][d]
    BY <2>1, <2>2
  <2>4. ends' \in [Channels -> [Devices -> EndStates]]
    BY <2>1, <2>2 DEF EndStates
  <2> QED
    BY <2>3, <2>4 DEF End
<1>4. /\ peers' \in [Devices -> [Devices -> PeerState]]
      /\ \A f \in Devices : f # d => peers'[f] = peers[f]
      /\ \A g \in Devices : Sock(d, g)' = None /\ Pend(d, g)' = None /\ Up(d, g)' = FALSE
  BY <1>1, <1>2, TableCleared
<1>5. /\ instance'[d] = FALSE /\ listening'[d] = FALSE /\ app'[d] = "joining lanes"
      /\ \A f \in Devices : f # d => UNCHANGED <<instance[f], listening[f], app[f]>>
  BY <1>1, <1>2 DEF Types
<1>6. Pending(d) \subseteq Channels
  <2>1. \A e \in Devices : Pend(d, e) \in Channels \cup {None}
    BY <1>1, EntryTypes
  <2> QED
    BY <2>1 DEF Pending, Pend
<1>7. abandoned' \subseteq Channels \X Devices
  <2>1. {<<c, d>> : c \in Pending(d)} \subseteq Channels \X Devices
    BY <1>6
  <2>2. abandoned \subseteq Channels \X Devices
    BY <1>1 DEF Types
  <2> QED
    BY <1>2, <2>1, <2>2, Zenon
<1>8. Types'
  BY <1>1, <1>2, <1>3, <1>4, <1>7 DEF Types
<1>9. Linked'
  <2>1. \A c \in Channels : End(c, d)' = End(c, d) \/ End(c, d)' = "none" \/
                            (End(c, d) # "none" /\ End(c, d)' = "leaving")
    BY <1>3
  <2>2. \A c \in Channels, f \in Devices : LaneOf(c, f)' = LaneOf(c, f)
    BY <1>2 DEF LaneOf
  <2> QED
    BY <1>1, <1>3, <2>1, <2>2, LinkedAlone
<1>10. poll'[d] = Exited /\ poll[d].fd = None /\ poll[d].to_bind = {}
  <2>1. poll[d].fd = None /\ poll[d].to_bind = {}
    BY <1>1, <1>2 DEF Polling
  <2>2. poll[d] \in PollStates
    BY <1>1 DEF Types, PollStates
  <2>3. poll[d] = [at |-> "exited", to_bind |-> {}, fd |-> None]
    BY <1>2, <2>1, <2>2 DEF PollStates
  <2>4. Exited = [at |-> "exited", to_bind |-> {}, fd |-> None]
    BY DEF Exited, Asleep
  <2> QED
    BY <1>2, <2>1, <2>3, <2>4
<1>11. \A b \in Channels : End(b, d)' # "joining" /\ End(b, d)' # "created"
  BY <1>1, <1>3, <1>10, ChannelFacts DEF Polling
<1>12. \A c \in Channels : LaneOf(c, d)' = LaneOf(c, d)
  BY <1>2 DEF LaneOf
<1>13. None \notin Channels /\ \A c \in Channels : Other(c, d) \in Devices /\ c.to \in Devices
  BY ChannelFacts
<1>14. Entries(d)'
  BY <1>4 DEF Entries
<1>15. Phase(d)'
  BY <1>2, <1>4, <1>5, <1>10, <1>11 DEF Phase
<1>16. Polling(d)'
  BY <1>2, <1>10, <1>11, <1>13 DEF Polling, Exited, Asleep
<1>17. Table(d)'
  BY <1>4, <1>13 DEF Table, TableAt
<1>18. Told(d)'
  BY <1>5 DEF Told
<1>19. ASSUME NEW c \in Channels PROVE OwnedAt(c, d)' /\ JoinedAt(c, d)'
  <2>1. OwnedAt(c, d) /\ JoinedAt(c, d) /\ \A e \in Devices : TableAt(d, e, c)
    BY <1>1 DEF Owned, Joined, Table
  <2>2. \A e \in Devices : Sock(d, e) = c => c \in Sockets(d)
    BY <1>13 DEF Sock, Sockets
  <2>3. \A e \in Devices : Pend(d, e) = c => <<c, d>> \in abandoned'
    BY <1>2, <1>13 DEF Pend, Pending
  <2>4. <<c, d>> \in abandoned => <<c, d>> \in abandoned'
    BY <1>2
  <2>5. \A e \in Devices : Sock(d, e) # c
    BY <1>2, <2>2
  <2>7. End(c, d)' = IF End(c, d) = "joining" THEN "leaving" ELSE End(c, d)
    BY <1>3
  <2>8. OwnedAt(c, d)'
    BY <1>13, <2>1, <2>3, <2>4, <2>5, <2>7 DEF OwnedAt
  <2>9. JoinedAt(c, d)'
    BY <1>2, <1>5, <1>12, <1>13, <2>1, <2>5, <2>7 DEF JoinedAt
  <2> QED
    BY <2>8, <2>9
<1>20. ASSUME NEW f \in Devices \ {d} PROVE Untouched(f)
  <2>1. \A c \in Channels : <<c, f>> \in abandoned' <=> <<c, f>> \in abandoned
    BY <1>2
  <2>2. UNCHANGED <<lane, poll, known, overtaken>>
    BY <1>2
  <2>3. peers'[f] = peers[f] /\ UNCHANGED <<instance[f], listening[f], app[f]>>
    BY <1>4, <1>5
  <2>4. \A c \in Channels : End(c, f)' = End(c, f)
    BY <1>3
  <2> QED
    BY <2>1, <2>2, <2>3, <2>4 DEF Untouched
<1> QED
  <2>1. DeviceInv(d)'
    BY <1>14, <1>15, <1>16, <1>17, <1>18, <1>19 DEF DeviceInv, Owned, Joined
  <2> QED
    BY <1>8, <1>9, <1>20, <2>1, AloneKeeps

\* stop() has joined the lanes.
LEMMA StopReturnKeeps ==
  ASSUME DsoftbusInv, NEW d \in Devices, StopReturn(d)
  PROVE  DsoftbusInv'
<1>1. Types /\ Linked /\ Entries(d) /\ Phase(d) /\ Polling(d) /\ Table(d) /\ Owned(d) /\ Joined(d)
  BY DeviceParts
<1>2. /\ app[d] = "joining lanes"
      /\ known' = [known EXCEPT ![d] = {}]
      /\ overtaken' = [overtaken EXCEPT ![d] = {}]
      /\ app' = [app EXCEPT ![d] = "stopped"]
      /\ UNCHANGED <<running, instance, peers, poll, ends, listening, abandoned, faults>>
  BY DEF StopReturn, service
<1>3. /\ lane' \in [Devices -> [Channels -> LaneStates]]
      /\ \A f \in Devices : f # d => lane'[f] = lane[f]
      /\ \A c \in Channels : LaneOf(c, d)' = IF c \in LanesOfStop(d) THEN "none" ELSE LaneOf(c, d)
  <2>1. lane \in [Devices -> [Channels -> LaneStates]]
    BY <1>1 DEF Types, LaneStates
  <2>2. PICK r : r = [c \in Channels |-> IF c \in LanesOfStop(d) THEN "none" ELSE lane[d][c]]
    OBVIOUS
  <2>3. lane' = [lane EXCEPT ![d] = r]
    BY <2>2 DEF StopReturn
  <2>4. r \in [Channels -> LaneStates]
    BY <2>1, <2>2 DEF LaneStates
  <2>5. lane' \in [Devices -> [Channels -> LaneStates]] /\ lane'[d] = r
    BY <2>1, <2>3, <2>4
  <2>6. \A f \in Devices : f # d => lane'[f] = lane[f]
    BY <2>1, <2>3
  <2> QED
    BY <2>2, <2>5, <2>6 DEF LaneOf
<1>4. /\ known'[d] = {} /\ overtaken'[d] = {} /\ app'[d] = "stopped"
      /\ \A f \in Devices : f # d => UNCHANGED <<known[f], overtaken[f], app[f]>>
  BY <1>1, <1>2 DEF Types
<1>5. /\ \A e \in Devices : /\ Sock(d, e)' = Sock(d, e) /\ Pend(d, e)' = Pend(d, e)
                            /\ Up(d, e)' = Up(d, e)
      /\ \A c \in Channels, f \in Devices : End(c, f)' = End(c, f)
  BY <1>2 DEF Sock, Pend, Up, End
<1>6. Types'
  BY <1>1, <1>2, <1>3 DEF Types, LaneStates
<1>7. Linked'
  <2>1. \A c \in Channels : LaneOf(c, d)' \in {LaneOf(c, d), "none"}
    BY <1>3
  <2>2. \A c \in Channels, f \in Devices : f # d => LaneOf(c, f)' = LaneOf(c, f)
    BY <1>3 DEF LaneOf
  <2> QED
    BY <1>1, <1>5, <2>1, <2>2, LinkedAlone
<1>8. ~instance[d] /\ \A e \in Devices : Sock(d, e) = None /\ Pend(d, e) = None
  BY <1>1, <1>2 DEF Phase
<1>9. \A c \in Channels : End(c, d)' = End(c, d)
  BY <1>5
<1>10. None \notin Channels /\ \A c \in Channels : Other(c, d) \in Devices /\ c.to \in Devices
  BY ChannelFacts
<1>11. Entries(d)'
  BY <1>1, <1>5 DEF Entries
<1>12. Phase(d)'
  BY <1>1, <1>2, <1>4, <1>5, <1>8, <1>9 DEF Phase
<1>13. Polling(d)'
  BY <1>1, <1>2, <1>5, <1>9, <1>10 DEF Polling
<1>14. Table(d)'
  BY <1>5, <1>8, <1>10 DEF Table, TableAt
<1>15. Owned(d)'
  BY <1>1, <1>2, <1>5, <1>9, <1>10 DEF Owned, OwnedAt
<1>16. ASSUME NEW c \in Channels PROVE JoinedAt(c, d)'
  <2>1. /\ c \in LanesOfStop(d) <=> LaneOf(c, d) # "none" /\ End(c, d) # "leaving"
        /\ LaneOf(c, d)' = IF c \in LanesOfStop(d) THEN "none" ELSE LaneOf(c, d)
    BY <1>3 DEF LanesOfStop, LaneOf, End
  <2> QED
    BY <1>9, <2>1 DEF JoinedAt
<1>17. Told(d)'
  BY <1>4 DEF Told
<1>18. ASSUME NEW f \in Devices \ {d} PROVE Untouched(f)
  BY <1>2, <1>3, <1>4, <1>5 DEF Untouched
<1> QED
  <2>1. DeviceInv(d)'
    BY <1>11, <1>12, <1>13, <1>14, <1>15, <1>16, <1>17 DEF DeviceInv, Joined
  <2> QED
    BY <1>6, <1>7, <1>18, <2>1, AloneKeeps

\* The process of a transport ends, and with it all it had.
LEMMA ProcessEndsKeeps ==
  ASSUME DsoftbusInv, NEW d \in Devices, ProcessEnds(d), Fault \/ UNCHANGED faults
  PROVE  DsoftbusInv'
<1>1. Types /\ Linked
  BY DeviceParts
<1>2. /\ running' = [running EXCEPT ![d] = FALSE]
      /\ instance' = [instance EXCEPT ![d] = FALSE]
      /\ peers' = [peers EXCEPT ![d] = [e \in Devices |-> NoPeer]]
      /\ lane' = [lane EXCEPT ![d] = [c \in Channels |-> "none"]]
      /\ poll' = [poll EXCEPT ![d] = Exited]
      /\ app' = [app EXCEPT ![d] = "stopped"]
      /\ known' = [known EXCEPT ![d] = {}]
      /\ ends' = [c \in Channels |-> [ends[c] EXCEPT ![d] = "none"]]
      /\ listening' = [listening EXCEPT ![d] = FALSE]
      /\ abandoned' = {r \in abandoned : r[2] # d}
      /\ overtaken' = [overtaken EXCEPT ![d] = {}]
  BY DEF ProcessEnds
<1>3. /\ ends' \in [Channels -> [Devices -> EndStates]]
      /\ \A c \in Channels, f \in Devices : End(c, f)' = IF f = d THEN "none" ELSE End(c, f)
  <2>1. ends \in [Channels -> [Devices -> EndStates]]
    BY <1>1 DEF Types
  <2> QED
    BY <1>2, <2>1 DEF End, EndStates
<1>4. /\ peers' \in [Devices -> [Devices -> PeerState]]
      /\ \A f \in Devices : f # d => peers'[f] = peers[f]
      /\ \A g \in Devices : Sock(d, g)' = None /\ Pend(d, g)' = None /\ Up(d, g)' = FALSE
  BY <1>1, <1>2, TableCleared
<1>5. /\ instance'[d] = FALSE /\ listening'[d] = FALSE /\ app'[d] = "stopped"
      /\ poll'[d] = Exited /\ known'[d] = {} /\ overtaken'[d] = {}
      /\ \A f \in Devices : f # d =>
           UNCHANGED <<instance[f], listening[f], app[f], poll[f], known[f], overtaken[f], lane[f]>>
  BY <1>1, <1>2 DEF Types
<1>6. /\ lane' \in [Devices -> [Channels -> LaneStates]]
      /\ \A c \in Channels : LaneOf(c, d)' = "none"
  <2>1. lane \in [Devices -> [Channels -> LaneStates]]
    BY <1>1 DEF Types, LaneStates
  <2> QED
    BY <1>2, <2>1 DEF LaneOf, LaneStates
<1>7. Exited \in PollStates /\ Exited.at # "binding" /\ Exited.to_bind = {} /\ Exited.fd = None
  BY DEF Exited, Asleep, PollStates
<1>8. Types'
  <2>1. faults' \in 0 .. MaxFaults
    BY <1>1, FaultCounted
  <2>2. abandoned' \subseteq Channels \X Devices
    BY <1>1, <1>2 DEF Types
  <2>3. poll' \in [Devices -> PollStates]
    BY <1>1, <1>2, <1>7 DEF Types, PollStates
  <2>4. /\ running' \in [Devices -> BOOLEAN] /\ instance' \in [Devices -> BOOLEAN]
        /\ listening' \in [Devices -> BOOLEAN]
        /\ app' \in [Devices -> {"idle", "joining poll", "clearing", "joining lanes", "stopped"}]
        /\ known' \in [Devices -> SUBSET Devices]
        /\ overtaken' \in [Devices -> SUBSET Devices]
    BY <1>1, <1>2 DEF Types
  <2> QED
    BY <1>3, <1>4, <1>6, <2>1, <2>2, <2>3, <2>4 DEF Types, LaneStates, PollStates
<1>9. Linked'
  <2>1. \A c \in Channels, f \in Devices : f # d => LaneOf(c, f)' = LaneOf(c, f)
    BY <1>5 DEF LaneOf
  <2> QED
    BY <1>1, <1>3, <1>6, <2>1, LinkedAlone
<1>10. None \notin Channels /\ \A c \in Channels : Other(c, d) \in Devices /\ c.to \in Devices
  BY ChannelFacts
<1>11. \A c \in Channels : End(c, d)' = "none"
  BY <1>3
<1>12. Entries(d)'
  BY <1>4 DEF Entries
<1>13. Phase(d)'
  BY <1>4, <1>5, <1>11 DEF Phase
<1>14. Polling(d)'
  BY <1>4, <1>5, <1>7, <1>10, <1>11 DEF Polling
<1>15. Table(d)'
  BY <1>4, <1>10 DEF Table, TableAt
<1>16. Owned(d)'
  BY <1>11 DEF Owned, OwnedAt
<1>17. Joined(d)'
  BY <1>6 DEF Joined, JoinedAt
<1>18. Told(d)'
  BY <1>5 DEF Told
<1>19. ASSUME NEW f \in Devices \ {d} PROVE Untouched(f)
  <2>1. \A c \in Channels : <<c, f>> \in abandoned' <=> <<c, f>> \in abandoned
    BY <1>2
  <2>2. \A c \in Channels : End(c, f)' = End(c, f)
    BY <1>3
  <2> QED
    BY <1>4, <1>5, <2>1, <2>2 DEF Untouched
<1> QED
  <2>1. DeviceInv(d)'
    BY <1>12, <1>13, <1>14, <1>15, <1>16, <1>17, <1>18 DEF DeviceInv
  <2> QED
    BY <1>8, <1>9, <1>19, <2>1, AloneKeeps

\* The service joins the two ends of a channel.
LEMMA EstablishKeeps ==
  ASSUME DsoftbusInv, NEW c \in Channels, Establish(c)
  PROVE  DsoftbusInv'
<1>. PICK f \in Devices, t \in Devices : f = c.from /\ t = c.to /\ f # t
  BY ChannelFacts
<1>1. Types /\ Linked
  BY DEF DsoftbusInv
<1>2. /\ End(c, f) = "binding" /\ listening[t] /\ End(c, t) = "none" /\ LaneOf(c, t) = "none"
      /\ ends' = [ends EXCEPT ![c][f] = "bound", ![c][t] = "bound"]
      /\ UNCHANGED <<running, instance, peers, lane, poll, app, known, listening, abandoned,
                     overtaken, faults>>
  BY <1>1 DEF Establish, End, transport, history, Linked
<1>3. /\ ends' \in [Channels -> [Devices -> EndStates]]
      /\ \A b \in Channels, d \in Devices :
           End(b, d)' = IF b = c /\ d \in {f, t} THEN "bound" ELSE End(b, d)
  <2>1. ends \in [Channels -> [Devices -> EndStates]]
    BY <1>1 DEF Types
  <2> QED
    BY <1>2, <2>1 DEF End, EndStates
<1>4. Types'
  BY <1>1, <1>2, <1>3 DEF Types
<1>5. Linked'
  <2>1. ASSUME NEW b \in Channels, End(b, b.from)' \in {"created", "binding"}
        PROVE  End(b, b.to)' = "none" /\ LaneOf(b, b.to)' = "none"
    <3>1. b # c /\ b.from \in Devices /\ b.to \in Devices
      BY <1>3, <2>1, ChannelFacts
    <3>2. LaneOf(b, b.to)' = LaneOf(b, b.to)
      BY <1>2 DEF LaneOf
    <3> QED
      BY <1>1, <1>3, <2>1, <3>1, <3>2 DEF Linked
  <2> QED
    BY <2>1 DEF Linked
<1>6. ASSUME NEW d \in {f, t} PROVE DeviceInv(d)'
  <2>. PICK e \in Devices, p \in PeerState, l \in LaneStates, z \in EndStates :
         Around(c, d, e, p, l, z)
    BY AroundChannel
  <2>b. /\ e = Other(c, d) /\ l = LaneOf(c, d) /\ z = End(c, d)
        /\ Sock(d, e) = p.socket_fd /\ Pend(d, e) = p.pending_fd
    BY DEF Around
  <2>1. Entries(d) /\ Phase(d)
    BY DeviceParts
  <2>2. /\ \A g \in Devices : /\ Sock(d, g)' = Sock(d, g) /\ Pend(d, g)' = Pend(d, g)
                              /\ Up(d, g)' = Up(d, g)
        /\ \A b \in Channels : LaneOf(b, d)' = LaneOf(b, d)
    BY <1>2 DEF Sock, Pend, Up, LaneOf
  <2>3. Locally(c, d, "bound", p.socket_fd, p.pending_fd, l)
    BY <1>2, <1>3, <2>2, <2>b DEF Locally
  <2>4. z = (IF d = f THEN "binding" ELSE "none") /\ (d = t => l = "none")
    BY <1>2, <2>b
  <2>5. Sound(c, d, "bound", p.socket_fd, p.pending_fd, l)
    BY <2>4 DEF Sound, Around
  <2>6. /\ Swaps(c, Sock(d, e), p.socket_fd) /\ Swaps(c, Pend(d, e), p.pending_fd)
    BY <2>b DEF Swaps
  <2>7. Table(d)' /\ Owned(d)' /\ Joined(d)'
    BY <2>3, <2>5, <2>6, <2>b, ChannelKept
  <2>8. Polling(d)'
    BY <1>2, <2>3, <2>4, <2>6, <2>b, PollKept
  <2>9. Told(d)'
    <3>1. /\ known'[d] = known[d] /\ overtaken'[d] = overtaken[d]
          /\ "bound" = "joining" <=> z = "joining"
          /\ "bound" = "upcall" <=> z = "upcall"
      BY <1>2, <2>4
    <3> QED
      BY <2>3, <2>b, <3>1, ToldKept
  <2>10. Entries(d)'
    BY <2>1, <2>2 DEF Entries
  <2>11. Phase(d)'
    <3>1. \A b \in Channels : End(b, d)' = "joining" => End(b, d) = "joining"
      BY <1>3
    <3> QED
      BY <1>2, <2>1, <2>2, <3>1 DEF Phase
  <2> QED
    BY <2>7, <2>8, <2>9, <2>10, <2>11 DEF DeviceInv
<1>7. ASSUME NEW d \in Devices \ {f, t} PROVE DeviceInv(d)'
  <2>1. Untouched(d)
    BY <1>2, <1>3 DEF Untouched
  <2> QED
    BY <2>1, UntouchedKeeps DEF DsoftbusInv
<1> QED
  BY <1>4, <1>5, <1>6, <1>7 DEF DsoftbusInv

-----------------------------------------------------------------------------
(* The invariant and what follows from it *)

\* The state after start() on every device.
LEMMA DsoftbusStarts == Init => DsoftbusInv
<1> SUFFICES ASSUME Init PROVE DsoftbusInv
  OBVIOUS
<1>1. Asleep \in PollStates /\ Asleep.at # "binding" /\ Asleep.to_bind = {} /\ Asleep.fd = None
  BY DEF Asleep, PollStates
<1>2. 0 \in 0 .. MaxFaults
  BY DsoftbusAssumption
<1>3. Types
  BY <1>1, <1>2, NoPeerEntry DEF Init, Types, PollStates, EndStates
<1>4. \A c \in Channels, d \in Devices : End(c, d) = "none" /\ LaneOf(c, d) = "none"
  BY DEF Init, End, LaneOf
<1>5. Linked
  BY <1>4, ChannelFacts DEF Linked
<1>6. ASSUME NEW d \in Devices PROVE DeviceInv(d)
  <2>1. \A e \in Devices : Sock(d, e) = None /\ Pend(d, e) = None /\ Up(d, e) = FALSE
    BY NoPeerEntry DEF Init, Sock, Pend, Up
  <2>2. /\ instance[d] /\ app[d] = "idle" /\ poll[d] = Asleep /\ known[d] = {}
    BY DEF Init
  <2>3. None \notin Channels /\ \A c \in Channels : Other(c, d) \in Devices /\ c.to \in Devices
    BY ChannelFacts
  <2>4. Entries(d) /\ Phase(d) /\ Table(d) /\ Told(d)
    BY <2>1, <2>2, <2>3 DEF Entries, Phase, Table, TableAt, Told
  <2>5. Polling(d)
    BY <1>1, <1>4, <2>1, <2>2, <2>3 DEF Polling
  <2>6. Owned(d) /\ Joined(d)
    BY <1>4 DEF Owned, OwnedAt, Joined, JoinedAt
  <2> QED
    BY <2>4, <2>5, <2>6 DEF DeviceInv
<1> QED
  BY <1>3, <1>5, <1>6 DEF DsoftbusInv

\* Nothing happens, nothing changes.
LEMMA DsoftbusStutters == DsoftbusInv /\ UNCHANGED vars => DsoftbusInv'
<1> SUFFICES ASSUME DsoftbusInv, UNCHANGED vars PROVE DsoftbusInv'
  OBVIOUS
<1>1. UNCHANGED <<running, instance, peers, lane, poll, app, known, ends, listening, abandoned,
                  overtaken, faults>>
  BY DEF vars, transport, service, history
<1>2. Types'
  BY <1>1 DEF DsoftbusInv, Types
<1>3. Linked'
  BY <1>1 DEF DsoftbusInv, Linked, End, LaneOf
<1>4. \A d \in Devices : Untouched(d)
  BY <1>1 DEF Untouched, End
<1> QED
  BY <1>2, <1>3, <1>4, UntouchedKeeps DEF DsoftbusInv

\* Every step keeps the invariant.
LEMMA DsoftbusNext == DsoftbusInv /\ [Next]_vars => DsoftbusInv'
<1> SUFFICES ASSUME DsoftbusInv, [Next]_vars PROVE DsoftbusInv'
  OBVIOUS
<1>1. CASE UNCHANGED vars
  BY <1>1, DsoftbusStutters
<1>2. ASSUME NEW d \in Devices, Poll(d) PROVE DsoftbusInv'
  BY <1>2, PollEnumerateKeeps, PollBindAsyncKeeps, PollExitKeeps, PollSocketKeeps DEF Poll
<1>3. ASSUME NEW d \in Devices, StopLatch(d) \/ Stop(d) \/ Start(d) \/ StopUnjoined(d)
      PROVE  DsoftbusInv'
  BY <1>3, StopLatchKeeps, StopLockKeeps, StopShutdownKeeps, StopClearKeeps, StopReturnKeeps,
     StartKeeps, ProcessEndsKeeps DEF Stop, StopUnjoined
<1>4. ASSUME NEW c \in Channels, Establish(c) \/ BindFails(c) PROVE DsoftbusInv'
  BY <1>4, EstablishKeeps, BindFailsKeeps
<1>5. ASSUME NEW c \in Channels, NEW d \in Devices, Callback(c, d) PROVE DsoftbusInv'
  BY <1>5, OnBindFirstKeeps, OnBindDuplicateKeeps, OnBindIgnoredKeeps, PeerUpKeeps,
     OnShutdownChannelKeeps, OnShutdownOtherKeeps, PeerDownKeeps, OnErrorKeeps,
     OnErrorIgnoredKeeps DEF Callback
<1>6. ASSUME NEW c \in Channels, NEW d \in Devices,
             Detect(c, d) \/ DeliverCheck(c, d) \/ DeliverSend(c, d) \/ LoseChannel(c, d)
      PROVE  DsoftbusInv'
  BY <1>6, DetectKeeps, DeliverCheckKeeps, DeliverSendKeeps, LoseChannelKeeps
<1>7. ASSUME NEW d \in Devices, PollBindAsyncFails(d) \/ OnShutdownListen(d) \/ Crash(d)
      PROVE  DsoftbusInv'
  BY <1>7, PollBindAsyncFailsKeeps, OnShutdownListenKeeps, ProcessEndsKeeps DEF Crash
<1>8. ASSUME NEW d \in Devices, NEW e \in Devices, PollSocketFails(d, e) PROVE DsoftbusInv'
  BY <1>8, PollSocketFailsKeeps
<1> QED
  BY <1>1, <1>2, <1>3, <1>4, <1>5, <1>6, <1>7, <1>8 DEF Next, Faults

\* The invariant holds in every state of every behaviour.
LEMMA DsoftbusInvariant == Spec => []DsoftbusInv
<1> QED
  BY DsoftbusStarts, DsoftbusNext, PTL DEF Spec

\* An fd that a lane captured was handed out again only after stop() has taken the
\* channels down and before it has joined the lanes.
ReassignedAt(c, d) == <<c, d>> \in reassigned => app[d] \in {"clearing", "joining lanes"}

ReassignedInv ==
  /\ reassigned \subseteq Channels \X Devices
  /\ \A c \in Channels, d \in Devices : ReassignedAt(c, d)

\* Steps that hand out no number and leave stop() where it is, or start it.
LEMMA NoNewFd ==
  ASSUME ReassignedInv, UNCHANGED reassigned,
         \A d \in Devices : app[d] \in {"clearing", "joining lanes"} =>
                           app'[d] \in {"clearing", "joining lanes"}
  PROVE  ReassignedInv'
BY DEF ReassignedInv, ReassignedAt

\* A lane that has outlived its socket belongs to a stop() that is under way: the
\* number a new socket gets is that of such a lane or of none.
LEMMA NewFdKeeps ==
  ASSUME DsoftbusInv, ReassignedInv, NEW d \in Devices, NewFd(d), UNCHANGED app
  PROVE  ReassignedInv'
<1>1. CASE UNCHANGED reassigned
  BY <1>1, NoNewFd
<1>2. ASSUME NEW c \in Leftover(d), reassigned' = reassigned \cup {<<c, d>>}
      PROVE  ReassignedInv'
  <2>1. c \in Channels /\ LaneOf(c, d) # "none" /\ End(c, d) = "none"
    BY DEF Leftover, LaneOf, End
  <2>2. JoinedAt(c, d) /\ TableAt(d, Other(c, d), c)
    BY <2>1, DeviceParts, ChannelFacts DEF Joined, Table
  <2>3. app[d] \in {"clearing", "joining lanes"}
    BY <2>1, <2>2 DEF JoinedAt, TableAt
  <2>4. reassigned' \subseteq Channels \X Devices
    BY <1>2, <2>1 DEF ReassignedInv
  <2>5. ASSUME NEW b \in Channels, NEW f \in Devices, <<b, f>> \in reassigned'
        PROVE  app'[f] \in {"clearing", "joining lanes"}
    <3>1. CASE <<b, f>> \in reassigned
      BY <3>1 DEF ReassignedInv, ReassignedAt
    <3>2. CASE <<b, f>> = <<c, d>>
      BY <2>3, <3>2
    <3> QED
      BY <1>2, <2>5, <3>1, <3>2
  <2> QED
    BY <2>4, <2>5 DEF ReassignedInv, ReassignedAt
<1> QED
  BY <1>1, <1>2 DEF NewFd

\* stop() returns, or the process ends: the lanes at d are gone.
LEMMA FdsForgotten ==
  ASSUME DsoftbusInv, ReassignedInv, NEW d \in Devices, NEW a,
         reassigned' = {r \in reassigned : r[2] # d}, app' = [app EXCEPT ![d] = a]
  PROVE  ReassignedInv'
<1>1. reassigned' \subseteq Channels \X Devices
  BY DEF ReassignedInv
<1>2. ASSUME NEW b \in Channels, NEW f \in Devices, <<b, f>> \in reassigned'
      PROVE  app'[f] \in {"clearing", "joining lanes"}
  <2>1. <<b, f>> \in reassigned /\ f # d
    BY <1>2
  <2>2. app'[f] = app[f]
    BY <2>1 DEF DsoftbusInv, Types
  <2> QED
    BY <2>1, <2>2 DEF ReassignedInv, ReassignedAt
<1> QED
  BY <1>1, <1>2 DEF ReassignedInv, ReassignedAt

\* The steps of the poll thread.
LEMMA PollKeepsReassigned ==
  ASSUME DsoftbusInv, ReassignedInv, NEW d \in Devices,
         Poll(d) \/ PollBindAsyncFails(d) \/ \E e \in Devices : PollSocketFails(d, e)
  PROVE  ReassignedInv'
<1>1. ASSUME NEW e \in Devices, PollSocket(d, e) PROVE ReassignedInv'
  BY <1>1, NewFdKeeps DEF PollSocket
<1>2. CASE PollEnumerate(d) \/ PollBindAsync(d) \/ PollExit(d) \/ PollBindAsyncFails(d)
  <2>1. UNCHANGED <<app, reassigned>>
    BY <1>2 DEF PollEnumerate, PollBindAsync, PollExit, PollBindAsyncFails, service
  <2> QED
    BY <2>1, NoNewFd
<1>3. ASSUME NEW e \in Devices, PollSocketFails(d, e) PROVE ReassignedInv'
  <2>1. UNCHANGED <<app, reassigned>>
    BY <1>3 DEF PollSocketFails, service
  <2> QED
    BY <2>1, NoNewFd
<1> QED
  BY <1>1, <1>2, <1>3 DEF Poll

\* The service decides about a bind.
LEMMA BindKeepsReassigned ==
  ASSUME DsoftbusInv, ReassignedInv, NEW c \in Channels, Establish(c) \/ BindFails(c)
  PROVE  ReassignedInv'
<1>1. CASE Establish(c)
  <2>1. c.to \in Devices /\ NewFd(c.to) /\ UNCHANGED app
    BY <1>1, ChannelFacts DEF Establish, transport
  <2> QED
    BY <2>1, NewFdKeeps
<1>2. CASE BindFails(c)
  <2>1. UNCHANGED <<app, reassigned>>
    BY <1>2 DEF BindFails, transport
  <2> QED
    BY <2>1, NoNewFd
<1> QED
  BY <1>1, <1>2

\* Lost channels, callbacks and the sink of the lanes.
LEMMA CallbackKeepsReassigned ==
  ASSUME ReassignedInv, NEW c \in Channels, NEW d \in Devices,
         \/ Detect(c, d) \/ LoseChannel(c, d) \/ Callback(c, d)
         \/ DeliverCheck(c, d) \/ DeliverSend(c, d)
  PROVE  ReassignedInv'
<1>1. UNCHANGED <<app, reassigned>>
  <2>1. CASE OnBindFirst(c, d) \/ OnBindDuplicate(c, d) \/ OnBindIgnored(c, d) \/ PeerUp(c, d)
    BY <2>1 DEF OnBindFirst, OnBindDuplicate, OnBindIgnored, PeerUp, transport
  <2>2. CASE OnShutdownChannel(c, d) \/ OnShutdownOther(c, d) \/ PeerDown(c, d)
    BY <2>2 DEF OnShutdownChannel, OnShutdownOther, PeerDown
  <2>3. CASE OnError(c, d) \/ OnErrorIgnored(c, d) \/ Detect(c, d) \/ LoseChannel(c, d)
    BY <2>3 DEF OnError, OnErrorIgnored, Detect, LoseChannel, transport
  <2>4. CASE DeliverCheck(c, d) \/ DeliverSend(c, d)
    BY <2>4 DEF DeliverCheck, DeliverSend, service
  <2> QED
    BY <2>1, <2>2, <2>3, <2>4 DEF Callback
<1> QED
  BY <1>1, NoNewFd

\* stop(), start() and the end of the process.
LEMMA AppKeepsReassigned ==
  ASSUME DsoftbusInv, ReassignedInv, NEW d \in Devices,
         \/ StopLatch(d) \/ Stop(d) \/ Start(d) \/ StopUnjoined(d) \/ Crash(d)
         \/ OnShutdownListen(d)
  PROVE  ReassignedInv'
<1>0. app \in [Devices -> {"idle", "joining poll", "clearing", "joining lanes", "stopped"}]
  BY DEF DsoftbusInv, Types
<1>1. CASE StopLatch(d) \/ StopLock(d) \/ Start(d)
  <2>1. /\ UNCHANGED reassigned /\ app[d] \in {"idle", "joining poll", "stopped"}
        /\ \A f \in Devices : f # d => app'[f] = app[f]
    BY <1>0, <1>1 DEF StopLatch, StopLock, Start, service
  <2> QED
    BY <2>1, NoNewFd
<1>2. ASSUME NEW e \in Devices, StopShutdown(d, e) PROVE ReassignedInv'
  <2>1. UNCHANGED <<app, reassigned>>
    BY <1>2 DEF StopShutdown
  <2> QED
    BY <2>1, NoNewFd
<1>3. CASE StopClear(d)
  <2>1. /\ UNCHANGED reassigned /\ app'[d] = "joining lanes"
        /\ \A f \in Devices : f # d => app'[f] = app[f]
    BY <1>0, <1>3 DEF StopClear
  <2> QED
    BY <2>1, NoNewFd
<1>4. CASE StopReturn(d)
  BY <1>4, FdsForgotten DEF StopReturn
<1>5. CASE StopUnjoined(d) \/ Crash(d)
  <2>1. ProcessEnds(d)
    BY <1>5 DEF StopUnjoined, Crash
  <2>2. reassigned' = {r \in reassigned : r[2] # d} /\ app' = [app EXCEPT ![d] = "stopped"]
    BY <2>1 DEF ProcessEnds
  <2> QED
    BY <2>2, FdsForgotten
<1>6. CASE OnShutdownListen(d)
  <2>1. UNCHANGED <<app, reassigned>>
    BY <1>6 DEF OnShutdownListen
  <2> QED
    BY <2>1, NoNewFd
<1> QED
  BY <1>1, <1>2, <1>3, <1>4, <1>5, <1>6 DEF Stop

\* Every step keeps it.
LEMMA ReassignedNext == DsoftbusInv /\ ReassignedInv /\ [Next]_vars => ReassignedInv'
<1> SUFFICES ASSUME DsoftbusInv, ReassignedInv, [Next]_vars PROVE ReassignedInv'
  OBVIOUS
<1>1. CASE UNCHANGED vars
  <2>1. UNCHANGED <<app, reassigned>>
    BY <1>1 DEF vars, transport, service
  <2> QED
    BY <2>1, NoNewFd
<1>2. ASSUME NEW d \in Devices,
             \/ Poll(d) \/ StopLatch(d) \/ Stop(d) \/ Start(d) \/ StopUnjoined(d)
             \/ PollBindAsyncFails(d) \/ OnShutdownListen(d) \/ Crash(d)
             \/ \E e \in Devices : PollSocketFails(d, e)
      PROVE  ReassignedInv'
  BY <1>2, PollKeepsReassigned, AppKeepsReassigned
<1>3. ASSUME NEW c \in Channels, Establish(c) \/ BindFails(c) PROVE ReassignedInv'
  BY <1>3, BindKeepsReassigned
<1>4. ASSUME NEW c \in Channels, NEW d \in Devices,
             \/ Detect(c, d) \/ LoseChannel(c, d) \/ Callback(c, d)
             \/ DeliverCheck(c, d) \/ DeliverSend(c, d)
      PROVE  ReassignedInv'
  BY <1>4, CallbackKeepsReassigned
<1> QED
  BY <1>1, <1>2, <1>3, <1>4 DEF Next, Faults

\* The invariant with the numbers that were handed out again.
LEMMA ReassignedInvariant == Spec => [](DsoftbusInv /\ ReassignedInv)
<1>1. Init => ReassignedInv
  BY DEF Init, ReassignedInv, ReassignedAt
<1> QED
  BY <1>1, DsoftbusStarts, DsoftbusNext, ReassignedNext, PTL DEF Spec

\* Whatever callbacks, poll steps, stop(), start() and crashes follow each other,
\* the table is well formed: an entry has announced its channel (up_notified) just
\* when it has one, and the channel in use is not pending as well.
THEOREM TransportsWellTyped == Spec => []TypeOK
<1>1. DsoftbusInv /\ ReassignedInv => TypeOK
  <2> SUFFICES ASSUME DsoftbusInv, ReassignedInv PROVE TypeOK
    OBVIOUS
  <2>1. Types /\ \A d \in Devices : Entries(d)
    BY DEF DsoftbusInv, DeviceInv
  <2>2. ASSUME NEW d \in Devices, NEW e \in Devices
        PROVE  /\ peers[d][e].up_notified <=> peers[d][e].socket_fd # None
               /\ peers[d][e].socket_fd # None => peers[d][e].socket_fd # peers[d][e].pending_fd
    BY <2>1, Zenon DEF Entries, Up, Sock, Pend
  <2> QED
    BY <2>1, <2>2 DEF TypeOK, Types, ReassignedInv
<1> QED
  BY <1>1, ReassignedInvariant, PTL

\* "alive while socket_fd is connected": the channel in use has a lane, and a lane
\* outlives its channel only while on_shutdown() or stop() is joining it.
THEOREM LanesLiveWithChannels == Spec => []LaneLivesWithChannel
<1>1. DsoftbusInv => LaneLivesWithChannel
  <2> SUFFICES ASSUME DsoftbusInv, NEW d \in Devices, NEW c \in Channels
               PROVE  /\ c \in Sockets(d) => lane[d][c] # "none"
                      /\ lane[d][c] # "none" =>
                           \/ c \in Sockets(d)
                           \/ ends[c][d] \in {"joining", "leaving"}
                           \/ app[d] \in {"clearing", "joining lanes"}
    BY DEF LaneLivesWithChannel, TearingDown
  <2>1. JoinedAt(c, d) /\ \A e \in Devices : TableAt(d, e, c)
    BY DEF DsoftbusInv, DeviceInv, Table, Joined
  <2>2. c \in Sockets(d) <=> \E e \in Devices : Sock(d, e) = c
    BY ChannelFacts DEF Sockets, Sock
  <2>3. Other(c, d) \in Devices
    BY ChannelFacts
  <2> QED
    BY <2>1, <2>2, <2>3 DEF JoinedAt, TableAt, LaneOf, End
<1> QED
  BY <1>1, DsoftbusInvariant, PTL

\* An fd is handed out again while the lane that captured it still runs only by a
\* stop() that is under way: on_shutdown() has joined the lane before the service
\* may reuse the number, whatever the interleaving of callbacks, polls and sends.
THEOREM ReassignedOnlyWhileStopping == Spec => []ReassignedOnlyByStop
<1>1. ReassignedInv => ReassignedOnlyByStop
  BY DEF ReassignedInv, ReassignedAt, ReassignedOnlyByStop, TearingDown
<1> QED
  BY <1>1, ReassignedInvariant, PTL

\* No socket is forgotten: one that is open is in use or pending, or a callback or a
\* step of the poll thread decides about it, or stop() came before the end of its bind.
THEOREM SocketsNeverLeak == Spec => []NoSocketLeaked
<1>1. DsoftbusInv => NoSocketLeaked
  <2> SUFFICES ASSUME DsoftbusInv, NEW d \in Devices, NEW c \in Channels
               PROVE  /\ ends[c][d] \in {"created", "binding", "failed", "dead"} =>
                           c \in Pending(d) \/ <<c, d>> \in abandoned
                      /\ ends[c][d] \in {"upcall", "open"} =>
                           c \in Sockets(d) \/ <<c, d>> \in abandoned
    BY DEF NoSocketLeaked
  <2>1. OwnedAt(c, d)
    BY DEF DsoftbusInv, DeviceInv, Owned
  <2>2. \A e \in Devices : /\ Sock(d, e) = c => c \in Sockets(d)
                           /\ Pend(d, e) = c => c \in Pending(d)
    BY ChannelFacts DEF Sockets, Sock, Pending, Pend
  <2>3. Other(c, d) \in Devices /\ c.to \in Devices
    BY ChannelFacts
  <2> QED
    BY <2>1, <2>2, <2>3 DEF OwnedAt, End
<1> QED
  BY <1>1, DsoftbusInvariant, PTL

\* When no up or down call is on its way, the participant knows exactly the peers
\* with a channel, apart from those whose up call overtook a down call.
THEOREM ParticipantsKnowTheirPeers == Spec => []KnownWhenQuiet
<1>1. DsoftbusInv => KnownWhenQuiet
  <2> SUFFICES ASSUME DsoftbusInv, NEW d \in Devices, app[d] = "idle",
                      \A c \in Channels : ends[c][d] \notin {"upcall", "joining"},
                      NEW e \in Devices, e \notin overtaken[d]
               PROVE  e \in known[d] <=> Sock(d, e) # None
    BY DEF KnownWhenQuiet, Quiet, Sock
  <2>1. Types /\ Phase(d) /\ Told(d)
    BY DeviceParts
  <2>3. \A c \in Channels : End(c, d) # "upcall" /\ End(c, d) # "joining"
    BY DEF End
  <2>4. ~Due(d, e)
    BY <2>3 DEF Due
  <2>5. Sock(d, e) \in Channels \cup {None} /\ None \notin Channels
    BY <2>1, EntryTypes, ChannelFacts
  <2> QED
    BY <2>1, <2>3, <2>4, <2>5 DEF Told
<1> QED
  BY <1>1, DsoftbusInvariant, PTL
=============================================================================
