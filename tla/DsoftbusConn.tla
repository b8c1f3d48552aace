---------------------------- MODULE DsoftbusConn ----------------------------
(***************************************************************************)
(* transport_dsoftbus.cpp on several devices, and the DSoftBus service that *)
(* joins them.  Every transport polls for devices it has no channel to and  *)
(* binds to them; the service reports bound, lost and failed sockets by     *)
(* callbacks on its own threads; each kept channel has a send lane.         *)
(*                                                                         *)
(* A channel is a connection: the device that binds, the one it binds to and *)
(* a count that tells apart those that exist at one time.  It has a socket  *)
(* at each end, and names a new connection once the last one has left no    *)
(* trace, so the number of connections is not bounded.                      *)
(*                                                                         *)
(* The fd of a socket is a number of its process, which the service hands   *)
(* out again, for whatever device, once that end is released.  Open sockets *)
(* of a process have different numbers, so all that a number can show is    *)
(* that it is the one a lane captured whose own socket is gone: reassigned. *)
(*                                                                         *)
(* The service is external.  Assumed from how the code uses it: Shutdown()  *)
(* makes no callback at its own end (the code calls it with mutex_ held);   *)
(* LNN lists every device, and OnBind names the other device; the           *)
(* callbacks of one socket follow each other, those of different sockets    *)
(* may run at the same time; a number is released when Shutdown() or the    *)
(* OnShutdown callback has returned; the service knows nothing of mutex_;   *)
(* the sockets of a process that ends are closed.                           *)
(***************************************************************************)
EXTENDS Integers, FiniteSets

CONSTANTS
  Devices,          \* the devices, one transport each
  MaxChannels,      \* bound: channels from a device to another at one time
  MaxFaults         \* bound: crashes, lost sockets, failing calls, calls of stop()

ASSUME DsoftbusAssumption ==
  /\ IsFiniteSet(Devices)
  /\ MaxChannels \in Nat \ {0}
  /\ MaxFaults \in Nat

VARIABLES
  running,    \* running_
  instance,   \* s_instance points to the transport
  peers,      \* peers_: socket_fd, pending_fd and up_notified by device
  lane,       \* the lane that captured a socket, and whether it is in SendBytes
  poll,       \* the poll thread: where it is, to_bind, and the socket it binds
  app,        \* how far the application is in stop()
  known,      \* the peers the participant knows from up and down calls
  (* the service *)
  ends,       \* the state of each end of a channel
  listening,  \* the transport's listening socket is open
  reassigned, \* <<channel, device>>: the fd its lane captured was handed out again
  (* history of the behaviour *)
  abandoned,  \* <<channel, device>>: stop() came before the end of its bind
  overtaken,  \* peers whose up call overtook the down call of their old channel
  faults

transport == <<running, instance, peers, lane, poll, app, known>>
service == <<ends, listening, reassigned>>
history == <<abandoned, overtaken, faults>>
vars == <<transport, service, history>>

Channels == {c \in [from : Devices, to : Devices, n : 1 .. MaxChannels] : c.from # c.to}
None == [n |-> 0]

\* The states of a socket.  "created", "binding" and "failed" belong to the end
\* that binds; "bound", "lost" and "failed" owe a callback; "upcall" and
\* "joining" are callbacks between their critical section and their call of
\* the participant; stop() turns "joining" into "leaving", as the call then
\* reaches nobody; a "dead" socket was never shut down.
EndStates == {"none", "created", "binding", "failed", "bound", "upcall", "open",
              "lost", "joining", "leaving", "dead"}

PeerState == [socket_fd : Channels \cup {None}, pending_fd : Channels \cup {None},
              up_notified : BOOLEAN]
NoPeer == [socket_fd |-> None, pending_fd |-> None, up_notified |-> FALSE]

Other(c, d) == IF c.from = d THEN c.to ELSE c.from

Asleep == [at |-> "asleep", to_bind |-> {}, fd |-> None]
Exited == [Asleep EXCEPT !.at = "exited"]

\* The state after start() on every device.
Init ==
  /\ running = [d \in Devices |-> TRUE]
  /\ instance = [d \in Devices |-> TRUE]
  /\ peers = [d \in Devices |-> [e \in Devices |-> NoPeer]]
  /\ lane = [d \in Devices |-> [c \in Channels |-> "none"]]
  /\ poll = [d \in Devices |-> Asleep]
  /\ app = [d \in Devices |-> "idle"]
  /\ known = [d \in Devices |-> {}]
  /\ ends = [c \in Channels |-> [d \in Devices |-> "none"]]
  /\ listening = [d \in Devices |-> TRUE]
  /\ reassigned = {}
  /\ abandoned = {}
  /\ overtaken = [d \in Devices |-> {}]
  /\ faults = 0

Fault == faults < MaxFaults /\ faults' = faults + 1

SetEnd(c, d, s) == ends' = [ends EXCEPT ![c][d] = s]

\* Names for a new connection from d to e: neither a socket nor a lane is left of
\* the one before.
FreeChannels(d, e) ==
  {c \in Channels : /\ c.from = d /\ c.to = e
                    /\ \A f \in {d, e} : ends[c][f] = "none" /\ lane[f][c] = "none"}

\* Lanes at d that have outlived the socket whose fd they captured.
Leftover(d) == {c \in Channels : lane[d][c] # "none" /\ ends[c][d] = "none"}

\* A new socket at d gets any fd that no open socket of the process has: one that
\* nobody remembers, or the one that a lane there captured.
NewFd(d) ==
  \/ UNCHANGED reassigned
  \/ \E c \in Leftover(d) : reassigned' = reassigned \cup {<<c, d>>}

\* stop() holds mutex_ while it shuts down sockets; critical sections wait.
Locked(d) == app[d] = "clearing"

-----------------------------------------------------------------------------
(* poll_loop(), connect_online_peers() and bind_peer() *)

\* A device that LNN lists and that has neither a channel nor one on the way.
NeedsBind(d, e) == peers[d][e].socket_fd = None /\ peers[d][e].pending_fd = None

\* Mutation: only the loss of the listening socket ends the loop.
PollEndsUnlistened(d) == ~listening[d]

\* The test at the head of the loop.
PollEnds(d) == ~running[d]

\* One enumeration; polls that find nothing to do change nothing.
PollEnumerate(d) ==
  LET to_bind == {e \in Devices \ {d} : NeedsBind(d, e)}
  IN  /\ poll[d] = Asleep /\ ~PollEnds(d)
      /\ to_bind # {}
      /\ poll' = [poll EXCEPT ![d] = [at |-> "binding", to_bind |-> to_bind, fd |-> None]]
      /\ UNCHANGED <<running, instance, peers, lane, app, known, service, history>>

\* bind_peer() returned: the next device of to_bind, or sleep.
NextToBind(d, e) ==
  LET rest == poll[d].to_bind \ {e}
  IN  poll' = [poll EXCEPT ![d] =
                 IF rest = {} THEN Asleep ELSE [@ EXCEPT !.to_bind = rest, !.fd = None]]

\* Socket() and, under the lock, pending_fd.  peers_ is cleared only after the
\* poll thread has ended, so the entry is there.
PollSocket(d, e) ==
  /\ poll[d].at = "binding" /\ poll[d].fd = None /\ e \in poll[d].to_bind
  /\ \E c \in FreeChannels(d, e) :
      /\ \A b \in FreeChannels(d, e) : c.n <= b.n
      /\ SetEnd(c, d, "created")
      /\ peers' = [peers EXCEPT ![d][e].pending_fd = c]
      /\ poll' = [poll EXCEPT ![d].fd = c]
      /\ NewFd(d)
      /\ UNCHANGED <<running, instance, lane, app, known, listening, history>>

PollSocketFails(d, e) ==
  /\ poll[d].at = "binding" /\ poll[d].fd = None /\ e \in poll[d].to_bind
  /\ Fault
  /\ NextToBind(d, e)
  /\ UNCHANGED <<running, instance, peers, lane, app, known, service, abandoned,
                 overtaken>>

\* BindAsync() is accepted; a callback tells how it ends.
PollBindAsync(d) ==
  LET c == poll[d].fd
  IN  /\ c # None
      /\ SetEnd(c, d, "binding")
      /\ NextToBind(d, Other(c, d))
      /\ UNCHANGED <<running, instance, peers, lane, app, known, listening, reassigned,
                     history>>

PollBindAsyncFails(d) ==
  LET c == poll[d].fd
      e == Other(c, d)
  IN  /\ c # None
      /\ Fault
      /\ peers' = [peers EXCEPT ![d][e].pending_fd = IF @ = c THEN None ELSE @]
      /\ SetEnd(c, d, "none")
      /\ NextToBind(d, e)
      /\ UNCHANGED <<running, instance, lane, app, known, listening, reassigned,
                     abandoned, overtaken>>

PollExit(d) ==
  /\ poll[d] = Asleep /\ PollEnds(d)
  /\ poll' = [poll EXCEPT ![d] = Exited]
  /\ UNCHANGED <<running, instance, peers, lane, app, known, service, history>>

-----------------------------------------------------------------------------
(* The service *)

Establish(c) ==
  LET f == c.from
      t == c.to
  IN  /\ ends[c][f] = "binding" /\ listening[t]
      /\ ends' = [ends EXCEPT ![c][f] = "bound", ![c][t] = "bound"]
      /\ NewFd(t)
      /\ UNCHANGED <<transport, listening, history>>

\* Nobody listens at the other device, or the bind times out.  The failure is
\* reported as an error or as a shutdown; the code handles both.  Binds that
\* stop() left behind fail without being counted: stop() was.
BindFails(c) ==
  LET f == c.from
  IN  /\ ends[c][f] = "binding"
      /\ IF listening[c.to] /\ <<c, f>> \notin abandoned THEN Fault ELSE UNCHANGED faults
      /\ \E s \in {"failed", "lost"} : SetEnd(c, f, s)
      /\ UNCHANGED <<transport, listening, reassigned, abandoned, overtaken>>

\* The other end is gone.
Detect(c, d) ==
  /\ ends[c][d] = "open" /\ ends[c][Other(c, d)] \in {"none", "lost", "joining", "leaving"}
  /\ SetEnd(c, d, "lost")
  /\ UNCHANGED <<transport, listening, reassigned, history>>

LoseChannel(c, d) ==
  /\ ends[c][d] = "open"
  /\ Fault
  /\ SetEnd(c, d, "lost")
  /\ UNCHANGED <<transport, listening, reassigned, abandoned, overtaken>>

-----------------------------------------------------------------------------
(* Callbacks *)

\* Mutation: a completed bind stays marked as pending.
BindCompletedPending(p, c) == p

\* Our outgoing bind completed, if it is ours.
BindCompleted(p, c) == [p EXCEPT !.pending_fd = IF @ = c THEN None ELSE @]

\* The first channel to the device is kept and gets a lane.
OnBindFirst(c, d) ==
  LET e == Other(c, d)
  IN  /\ ends[c][d] = "bound" /\ instance[d] /\ ~Locked(d)
      /\ peers[d][e].socket_fd = None
      /\ peers' = [peers EXCEPT ![d][e] =
                     [BindCompleted(@, c) EXCEPT !.socket_fd = c, !.up_notified = TRUE]]
      /\ lane' = [lane EXCEPT ![d][c] = "idle"]
      /\ SetEnd(c, d, "upcall")
      /\ abandoned' = abandoned \ {<<c, d>>}
      /\ UNCHANGED <<running, instance, poll, app, known, listening, reassigned,
                     overtaken, faults>>

\* Mutation: a duplicate is ignored and stays open.
DuplicateLeftOpen(c, d) == SetEnd(c, d, "open")

\* Shutdown() of a duplicate.
DropDuplicate(c, d) == SetEnd(c, d, "none")

OnBindDuplicate(c, d) ==
  LET e == Other(c, d)
  IN  /\ ends[c][d] = "bound" /\ instance[d] /\ ~Locked(d)
      /\ peers[d][e].socket_fd \notin {None, c}
      /\ peers' = [peers EXCEPT ![d][e] = BindCompleted(@, c)]
      /\ DropDuplicate(c, d)
      /\ abandoned' = abandoned \ {<<c, d>>}
      /\ UNCHANGED <<running, instance, lane, poll, app, known, listening, reassigned,
                     overtaken, faults>>

\* No transport in the process: the callback does nothing.
OnBindIgnored(c, d) ==
  /\ ends[c][d] = "bound" /\ ~instance[d]
  /\ SetEnd(c, d, "open")
  /\ abandoned' = abandoned \cup {<<c, d>>}
  /\ UNCHANGED <<transport, listening, reassigned, overtaken, faults>>

\* A down call for the device is still to come.
DownCallDue(d, e) == \E c \in Channels : ends[c][d] = "joining" /\ Other(c, d) = e

\* Mutation: the participant hears only of channels that this side bound.
UpCallIfOutgoing(c, d) ==
  known' = [known EXCEPT ![d] = IF c.from = d THEN @ \cup {c.to} ELSE @]

\* on_peer_up(): the participant adds the peer.
UpCall(c, d) == known' = [known EXCEPT ![d] = @ \cup {Other(c, d)}]

\* on_bind() calls on_peer_up() after the unlock.
PeerUp(c, d) ==
  LET e == Other(c, d)
  IN  /\ ends[c][d] = "upcall"
      /\ UpCall(c, d)
      /\ overtaken' = [overtaken EXCEPT ![d] =
                         IF DownCallDue(d, e) THEN @ \cup {e} ELSE @ \ {e}]
      /\ SetEnd(c, d, "open")
      /\ UNCHANGED <<running, instance, peers, lane, poll, app, listening, reassigned,
                     abandoned, faults>>

\* on_shutdown() of the channel in use: the entry is cleared under the lock.
OnShutdownChannel(c, d) ==
  LET e == Other(c, d)
  IN  /\ ends[c][d] = "lost" /\ instance[d] /\ ~Locked(d)
      /\ peers[d][e].socket_fd = c
      /\ peers' = [peers EXCEPT ![d][e].socket_fd = None, ![d][e].up_notified = FALSE]
      /\ SetEnd(c, d, "joining")
      /\ UNCHANGED <<running, instance, lane, poll, app, known, listening, reassigned,
                     history>>

\* Any other socket: forgotten if it was binding.
OnShutdownOther(c, d) ==
  LET e == Other(c, d)
  IN  /\ ends[c][d] = "lost" /\ ~Locked(d)
      /\ instance[d] => peers[d][e].socket_fd # c
      /\ peers' = [peers EXCEPT ![d][e] = IF instance[d] THEN BindCompleted(@, c) ELSE @]
      /\ SetEnd(c, d, "none")
      /\ abandoned' = abandoned \ {<<c, d>>}
      /\ UNCHANGED <<running, instance, lane, poll, app, known, listening, reassigned,
                     overtaken, faults>>

\* Mutation: the worker is not joined.
LaneNeedsNoJoin(c, d) == TRUE

\* The lane's worker is not in the sink, so stop(false) returns.
LaneJoins(c, d) == lane[d][c] # "checked"

\* on_shutdown() joins the lane and then calls on_peer_down().
PeerDown(c, d) ==
  LET e == Other(c, d)
  IN  /\ ends[c][d] \in {"joining", "leaving"}
      /\ LaneJoins(c, d)
      /\ lane' = [lane EXCEPT ![d][c] = IF @ = "idle" THEN "none" ELSE @]
      /\ known' = [known EXCEPT ![d] = IF ends[c][d] = "joining" THEN @ \ {e} ELSE @]
      /\ SetEnd(c, d, "none")
      /\ UNCHANGED <<running, instance, peers, poll, app, listening, reassigned, history>>

\* The pending socket is forgotten and shut down; the poll thread retries.
OnError(c, d) ==
  /\ ends[c][d] = "failed" /\ ~Locked(d)
  /\ instance[d] /\ peers[d][Other(c, d)].pending_fd = c
  /\ peers' = [peers EXCEPT ![d][Other(c, d)].pending_fd = None]
  /\ SetEnd(c, d, "none")
  /\ UNCHANGED <<running, instance, lane, poll, app, known, listening, reassigned, history>>

\* No transport, or one that does not know the socket: it is not shut down.
OnErrorIgnored(c, d) ==
  /\ ends[c][d] = "failed" /\ ~Locked(d)
  /\ ~(instance[d] /\ peers[d][Other(c, d)].pending_fd = c)
  /\ SetEnd(c, d, "dead")
  /\ UNCHANGED <<transport, listening, reassigned, history>>

\* The listening socket is lost: on_shutdown() ends the poll thread only.
OnShutdownListen(d) ==
  /\ running[d] /\ listening[d]
  /\ Fault
  /\ listening' = [listening EXCEPT ![d] = FALSE]
  /\ running' = [running EXCEPT ![d] = FALSE]
  /\ UNCHANGED <<instance, peers, lane, poll, app, known, ends, reassigned, abandoned,
                 overtaken>>

-----------------------------------------------------------------------------
(* deliver(), the sink of the lanes *)

\* The lane's socket is still the channel in use.
Live(c, d) == running[d] /\ \E e \in Devices : peers[d][e].socket_fd = c

\* A frame was queued and the check under the lock passes.
DeliverCheck(c, d) ==
  /\ lane[d][c] = "idle" /\ Live(c, d)
  /\ lane' = [lane EXCEPT ![d][c] = "checked"]
  /\ UNCHANGED <<running, instance, peers, poll, app, known, service, history>>

\* SendBytes() returns.
DeliverSend(c, d) ==
  /\ lane[d][c] = "checked"
  /\ lane' = [lane EXCEPT ![d][c] = "idle"]
  /\ UNCHANGED <<running, instance, peers, poll, app, known, service, history>>

-----------------------------------------------------------------------------
(* stop() and start(), by the application, and the end of a process *)

StopLatch(d) ==
  /\ app[d] = "idle" /\ running[d]
  /\ Fault
  /\ running' = [running EXCEPT ![d] = FALSE]
  /\ app' = [app EXCEPT ![d] = "joining poll"]
  /\ UNCHANGED <<instance, peers, lane, poll, known, service, abandoned, overtaken>>

Sockets(d) == {peers[d][e].socket_fd : e \in Devices} \ {None}
Pending(d) == {peers[d][e].pending_fd : e \in Devices} \ {None}

\* The poll thread is joined; stop() takes mutex_.
StopLock(d) ==
  /\ app[d] = "joining poll" /\ poll[d].at = "exited"
  /\ app' = [app EXCEPT ![d] = "clearing"]
  /\ UNCHANGED <<running, instance, peers, lane, poll, known, service, history>>

\* The channels in use are shut down, one after the other; the sockets that are
\* binding are not.  The lane goes to the local list of stop().
StopShutdown(d, e) ==
  LET c == peers[d][e].socket_fd
  IN  /\ Locked(d) /\ c # None
      /\ SetEnd(c, d, "none")
      /\ peers' = [peers EXCEPT ![d][e].socket_fd = None, ![d][e].up_notified = FALSE]
      /\ UNCHANGED <<running, instance, lane, poll, app, known, listening, reassigned,
                     history>>

\* The table is cleared, the listening socket shut down, s_instance reset and the
\* lock released.  A callback that has yet to make its up call makes it to a
\* listener that goes away.
StopClear(d) ==
  /\ Locked(d) /\ Sockets(d) = {}
  /\ ends' = [c \in Channels |->
                [ends[c] EXCEPT ![d] = IF @ = "joining" THEN "leaving" ELSE @]]
  /\ peers' = [peers EXCEPT ![d] = [e \in Devices |-> NoPeer]]
  /\ abandoned' = abandoned \cup {<<c, d>> : c \in Pending(d)}
  /\ listening' = [listening EXCEPT ![d] = FALSE]
  /\ instance' = [instance EXCEPT ![d] = FALSE]
  /\ app' = [app EXCEPT ![d] = "joining lanes"]
  /\ UNCHANGED <<running, lane, poll, known, reassigned, overtaken, faults>>

\* Mutation: the lanes are left running.
LanesOfStopNone(d) == {}

\* The lanes stop() took out of the table.
LanesOfStop(d) == {c \in Channels : lane[d][c] # "none" /\ ends[c][d] # "leaving"}

\* The lanes are joined, and with them go the numbers they captured; the
\* participant goes with its transports.
StopReturn(d) ==
  /\ app[d] = "joining lanes"
  /\ \A c \in LanesOfStop(d) : LaneJoins(c, d)
  /\ lane' = [lane EXCEPT ![d] =
                [c \in Channels |-> IF c \in LanesOfStop(d) THEN "none" ELSE @[c]]]
  /\ known' = [known EXCEPT ![d] = {}]
  /\ overtaken' = [overtaken EXCEPT ![d] = {}]
  /\ reassigned' = {r \in reassigned : r[2] # d}
  /\ app' = [app EXCEPT ![d] = "stopped"]
  /\ UNCHANGED <<running, instance, peers, poll, ends, listening, abandoned, faults>>

Start(d) ==
  /\ app[d] = "stopped" /\ ~running[d] /\ ~instance[d]
  /\ running' = [running EXCEPT ![d] = TRUE]
  /\ instance' = [instance EXCEPT ![d] = TRUE]
  /\ listening' = [listening EXCEPT ![d] = TRUE]
  /\ poll' = [poll EXCEPT ![d] = Asleep]
  /\ app' = [app EXCEPT ![d] = "idle"]
  /\ UNCHANGED <<peers, lane, known, ends, reassigned, history>>

\* The process of the transport ends.
ProcessEnds(d) ==
  /\ running' = [running EXCEPT ![d] = FALSE]
  /\ instance' = [instance EXCEPT ![d] = FALSE]
  /\ peers' = [peers EXCEPT ![d] = [e \in Devices |-> NoPeer]]
  /\ lane' = [lane EXCEPT ![d] = [c \in Channels |-> "none"]]
  /\ poll' = [poll EXCEPT ![d] = Exited]
  /\ app' = [app EXCEPT ![d] = "stopped"]
  /\ known' = [known EXCEPT ![d] = {}]
  /\ ends' = [c \in Channels |-> [ends[c] EXCEPT ![d] = "none"]]
  /\ listening' = [listening EXCEPT ![d] = FALSE]
  /\ reassigned' = {r \in reassigned : r[2] # d}
  /\ abandoned' = {r \in abandoned : r[2] # d}
  /\ overtaken' = [overtaken EXCEPT ![d] = {}]

Crash(d) ==
  /\ app[d] # "stopped"
  /\ Fault
  /\ ProcessEnds(d)

\* After the loss of the listening socket stop() returns at once: the destructor
\* meets a poll thread that was not joined, which terminates the process.
StopUnjoined(d) ==
  /\ app[d] = "idle" /\ ~running[d] /\ instance[d]
  /\ ProcessEnds(d)
  /\ UNCHANGED faults

-----------------------------------------------------------------------------
Poll(d) ==
  \/ PollEnumerate(d) \/ PollBindAsync(d) \/ PollExit(d)
  \/ \E e \in Devices : PollSocket(d, e)

Callback(c, d) ==
  \/ OnBindFirst(c, d) \/ OnBindDuplicate(c, d) \/ OnBindIgnored(c, d) \/ PeerUp(c, d)
  \/ OnShutdownChannel(c, d) \/ OnShutdownOther(c, d) \/ PeerDown(c, d)
  \/ OnError(c, d) \/ OnErrorIgnored(c, d)

Stop(d) ==
  \/ StopLock(d) \/ StopClear(d) \/ StopReturn(d)
  \/ \E e \in Devices : StopShutdown(d, e)

Faults ==
  \/ \E d \in Devices :
       \/ PollBindAsyncFails(d) \/ OnShutdownListen(d) \/ Crash(d)
       \/ \E e \in Devices : PollSocketFails(d, e)
  \/ \E c \in Channels, d \in Devices : LoseChannel(c, d)

Next ==
  \/ \E d \in Devices : Poll(d) \/ StopLatch(d) \/ Stop(d) \/ Start(d) \/ StopUnjoined(d)
  \/ \E c \in Channels : Establish(c) \/ BindFails(c)
  \/ \E c \in Channels, d \in Devices :
       Detect(c, d) \/ Callback(c, d) \/ DeliverCheck(c, d) \/ DeliverSend(c, d)
  \/ Faults

Spec == Init /\ [][Next]_vars

(***************************************************************************)
(* Fairness: the poll thread polls every kPeerPollMs, the service decides   *)
(* every bind, detects closed channels and makes its callbacks, SendBytes   *)
(* returns, and stop() proceeds.  Nothing has to fail, stop or start.       *)
(***************************************************************************)
FairSpec ==
  /\ Spec
  /\ \A d \in Devices : WF_vars(Poll(d)) /\ WF_vars(Stop(d))
  /\ \A c \in Channels : WF_vars(Establish(c) \/ BindFails(c))
  /\ \A c \in Channels, d \in Devices :
       WF_vars(Detect(c, d) \/ Callback(c, d)) /\ WF_vars(DeliverSend(c, d))
-----------------------------------------------------------------------------
(* Properties *)

\* Type invariant; a channel in use has been announced, and is not pending too.
TypeOK ==
  /\ running \in [Devices -> BOOLEAN] /\ instance \in [Devices -> BOOLEAN]
  /\ listening \in [Devices -> BOOLEAN]
  /\ peers \in [Devices -> [Devices -> PeerState]]
  /\ \A d, e \in Devices :
       LET p == peers[d][e]
       IN  /\ p.up_notified <=> p.socket_fd # None
           /\ p.socket_fd # None => p.socket_fd # p.pending_fd
  /\ lane \in [Devices -> [Channels -> {"none", "idle", "checked"}]]
  /\ poll \in [Devices -> [at : {"asleep", "binding", "exited"}, to_bind : SUBSET Devices,
                           fd : Channels \cup {None}]]
  /\ app \in [Devices -> {"idle", "joining poll", "clearing", "joining lanes", "stopped"}]
  /\ known \in [Devices -> SUBSET Devices]
  /\ ends \in [Channels -> [Devices -> EndStates]]
  /\ reassigned \subseteq Channels \X Devices
  /\ abandoned \subseteq Channels \X Devices
  /\ overtaken \in [Devices -> SUBSET Devices]
  /\ faults \in 0 .. MaxFaults

\* stop() is shutting down the channels or joining their lanes.
TearingDown(d) == app[d] \in {"clearing", "joining lanes"}

\* "alive while socket_fd is connected": a channel in use has a lane, and a lane
\* without its channel is being joined by on_shutdown() or by stop().
LaneLivesWithChannel ==
  \A d \in Devices, c \in Channels :
    /\ c \in Sockets(d) => lane[d][c] # "none"
    /\ lane[d][c] # "none" =>
         c \in Sockets(d) \/ ends[c][d] \in {"joining", "leaving"} \/ TearingDown(d)

\* "a stale lane never writes to a reassigned fd": deliver() checks under the lock
\* and sends after it, yet no lane is about to send on an fd that the service
\* has handed out again in between.
StaleLaneNeverWrites ==
  \A d \in Devices, c \in Channels : <<c, d>> \in reassigned => lane[d][c] # "checked"

\* on_shutdown() joins the lane before it returns and the fd is released, so an
\* fd is handed out again under a lane's feet only while stop(), which shuts the
\* channels down before it joins their lanes, is under way.
ReassignedOnlyByStop ==
  \A d \in Devices, c \in Channels : <<c, d>> \in reassigned => TearingDown(d)

\* A socket stays open only as the channel in use, or while a bind, a callback
\* or a step of the poll thread still has to decide about it; the exception is
\* a socket that was being bound when stop() cleared the table.
NoSocketLeaked ==
  \A d \in Devices, c \in Channels :
    CASE ends[c][d] \in {"created", "binding", "failed", "dead"} ->
           c \in Pending(d) \/ <<c, d>> \in abandoned
      [] ends[c][d] \in {"upcall", "open"} -> c \in Sockets(d) \/ <<c, d>> \in abandoned
      [] OTHER -> TRUE

\* No up or down call of the transport is on its way.
Quiet(d) ==
  app[d] = "idle" /\ \A c \in Channels : ends[c][d] \notin {"upcall", "joining"}

\* transport.hpp: on_peer_up() says that a peer became reachable, on_peer_down()
\* that it went away.  When no call is on its way the participant knows exactly
\* the peers that the transport has a channel to.
ListenerKnowsPeers ==
  \A d \in Devices :
    Quiet(d) => \A e \in Devices : e \in known[d] <=> peers[d][e].socket_fd # None

\* The same, unless an up call overtook the down call of the channel before,
\* which on_shutdown() makes after it has joined the lane: that is the only way
\* in which the calls of on_bind() and on_shutdown() can mislead the participant.
KnownWhenQuiet ==
  \A d \in Devices :
    Quiet(d) => \A e \in Devices \ overtaken[d] :
                  e \in known[d] <=> peers[d][e].socket_fd # None

HalfOpen(c, d, e) == peers[d][e].socket_fd = c /\ peers[e][d].socket_fd # c

\* A channel that the other side dropped or lost is given up, unless its other
\* end is a socket that stop() left behind.
HalfOpenEnds ==
  \A d, e \in Devices : d # e =>
    \A c \in Channels :
      HalfOpen(c, d, e) ~> (~HalfOpen(c, d, e) \/ <<c, e>> \in abandoned)

Connected(d, e) ==
  peers[d][e].socket_fd # None /\ peers[d][e].socket_fd = peers[e][d].socket_fd

\* A side keeps a channel that the other does not.
OneSided(d, e) == \E c \in Channels : HalfOpen(c, d, e) \/ HalfOpen(c, e, d)

\* Two running transports are never left without an attempt to connect: they
\* end up with one common channel, or again and again with one that only one
\* of them keeps (when both bind at once, each may drop the other's choice).
EventuallyConnectedOrOneSided ==
  \A d, e \in Devices : d # e =>
    (<>[](running[d] /\ running[e]) => (<>[]Connected(d, e) \/ []<>OneSided(d, e)))

\* Two running transports end up with one common channel.
EventuallyConnected ==
  \A d, e \in Devices : d # e =>
    (<>[](running[d] /\ running[e]) => <>[]Connected(d, e))

\* stop() returns: neither the poll thread nor a lane in SendBytes() holds it up.
StopReturns == \A d \in Devices : (app[d] = "joining poll") ~> (app[d] \in {"stopped", "idle"})
=============================================================================
