------------------------------ MODULE Overlay ------------------------------
(***************************************************************************)
(* The connections of the overlay (src/tpn/overlay.cpp): how nodes find,   *)
(* open, accept and lose them.  A connection has two ends.  Each end does  *)
(* its part of the handshake, registers a handler under mMutex, and a      *)
(* thread of that handler reads until the stream is closed and then        *)
(* unregisters it.  The alarm of a node starts update, in the pool, which  *)
(* opens connections to the peers the node knows and to those its tracker  *)
(* names.                                                                  *)
(*                                                                         *)
(* Only two things about an address matter here, the host and the port.    *)
(***************************************************************************)
EXTENDS Naturals, FiniteSets, Functions

CONSTANTS
  Nodes,
  Conns,            \* the connections there may be at one time
  NoConn,
  Updaters,         \* the tasks of update a node may have at one time
  NoUpdater,
  MinConnections,   \* the option min_connections of each node
  Transports,       \* the backends in use: "UDP" or "TCP"
  MaxFaults         \* bound on what goes wrong: see Fault

ASSUME OverlayAssumption ==
  /\ IsFiniteSet(Nodes) /\ IsFiniteSet(Conns) /\ IsFiniteSet(Updaters) /\ Updaters # {}
  /\ Transports \subseteq {"UDP", "TCP"}
  /\ NoConn \notin Conns /\ NoUpdater \notin Updaters
  /\ MinConnections \in [Nodes -> Nat] /\ MaxFaults \in Nat

VARIABLES
  running,          \* the nodes whose program runs; it never changes
  reachable,        \* the nodes that others can connect to; it never changes
  handlers,         \* mHandlers: the connection of the handler of each peer
  remoteAddresses,  \* mRemoteAddresses
  knownPeers,       \* the peers in mKnownPeers, kept in the file "keys"
  alarm,            \* mRunAlarm is scheduled
  updating,         \* the tasks of update, in the pool
  firstRun,         \* mFirstRun
  conns,            \* the connections, with the state of both ends
  faults            \* how much has gone wrong

overlayVars == <<running, reachable, handlers, remoteAddresses, knownPeers, alarm, updating,
                 firstRun, conns, faults>>

Ports == {"listen"} \cup Conns
Address == [host : Nodes, port : Ports]

\* An end is "shaking" hands, "live" once it has registered its handler, or
\* "gone", its stream deleted.
EndStates == {"shaking", "live", "gone"}
NoConnection == [opener |-> "nobody"]
Connections ==
  [opener : Nodes, acceptor : Nodes, from : Ports, sync : Updaters \cup {NoUpdater},
   broken : BOOLEAN, end : [{"opener", "acceptor"} -> EndStates]]

\* A task of update goes through the peers the node knew ("known"), then
\* through those the tracker named ("tracked"), with the ones left to try.
NoUpdate == [phase |-> "idle", todo |-> {}]
Updates == [phase : {"idle", "known", "tracked"}, todo : SUBSET Nodes]

OverlayInit ==
  /\ running \in SUBSET Nodes
  /\ reachable \in SUBSET running
  /\ handlers = [n \in Nodes |-> [p \in Nodes |-> NoConn]]
  /\ remoteAddresses = [n \in Nodes |-> {}]
  /\ knownPeers \in [Nodes -> SUBSET Nodes]
  /\ \A n \in Nodes : n \notin knownPeers[n]
  /\ alarm = [n \in Nodes |-> TRUE]
  /\ updating = [n \in Nodes |-> [t \in Updaters |-> NoUpdate]]
  /\ firstRun = [n \in Nodes |-> TRUE]
  /\ conns = [c \in Conns |-> NoConnection]
  /\ faults = 0

Used(c) == conns[c] # NoConnection
Side(c, n) == IF conns[c].opener = n THEN "opener" ELSE "acceptor"
Peer(c, n) == IF conns[c].opener = n THEN conns[c].acceptor ELSE conns[c].opener
End(c, n) == conns[c].end[Side(c, n)]
Ends(c) == {conns[c].opener, conns[c].acceptor}

\* The address the end of n has for the other end: where it connected to, or
\* where the connection came from.
RemoteAddress(c, n) ==
  IF conns[c].opener = n
  THEN [host |-> conns[c].acceptor, port |-> "listen"]
  ELSE [host |-> conns[c].opener, port |-> conns[c].from]

Connected(n) == {p \in Nodes : handlers[n][p] # NoConn}

\* The end of n is over; a connection without ends is forgotten.
Without(c, n) ==
  IF End(c, Peer(c, n)) = "gone" THEN NoConnection
  ELSE [conns[c] EXCEPT !.end[Side(c, n)] = "gone"]

Fault == faults < MaxFaults /\ faults' = faults + 1

-----------------------------------------------------------------------------
(* The handlers.                                                           *)

\* registerHandler when the node has a handler already: Map::insert leaves the
\* old one in its place.  The new one is destroyed on return, with its stream;
\* its thread finds another handler in the map and unregisters nothing.
\* mRemoteAddresses keeps the address.
KeepHandler(n, c) ==
  /\ conns' = [conns EXCEPT ![c] = Without(c, n)]
  /\ UNCHANGED handlers

\* Its first handler for that node is started.
AddHandler(n, c) ==
  /\ handlers' = [handlers EXCEPT ![n][Peer(c, n)] = c]
  /\ conns' = [conns EXCEPT ![c].end[Side(c, n)] = "live"]

\* The handshake of one end is done: the other end has answered, and may have
\* failed or closed since.  The opener remembers the peer.
Register(n, c) ==
  /\ Used(c) /\ n \in Ends(c) /\ End(c, n) = "shaking"
  /\ IF handlers[n][Peer(c, n)] = NoConn THEN AddHandler(n, c) ELSE KeepHandler(n, c)
  /\ remoteAddresses' = [remoteAddresses EXCEPT ![n] = @ \cup {RemoteAddress(c, n)}]
  /\ knownPeers' = [knownPeers EXCEPT ![n] =
       @ \cup IF conns[c].opener = n THEN {conns[c].acceptor} ELSE {}]
  /\ UNCHANGED <<running, reachable, alarm, updating, firstRun, faults>>

\* MUTANT of Unregister: the addresses are left behind.
UnregisterLeaving(n, c) ==
  /\ Used(c) /\ n \in Ends(c) /\ End(c, n) = "live"
  /\ conns[c].broken \/ End(c, Peer(c, n)) = "gone"
  /\ handlers' = [handlers EXCEPT ![n][Peer(c, n)] = NoConn]
  /\ alarm' = [alarm EXCEPT ![n] = @ \/ Connected(n) = {Peer(c, n)}]
  /\ conns' = [conns EXCEPT ![c] = Without(c, n)]
  /\ UNCHANGED <<running, reachable, remoteAddresses, knownPeers, updating, firstRun, faults>>

\* run has returned, as the stream is closed: unregisterHandler.  A node left
\* without a handler tries to reconnect now.
Unregister(n, c) ==
  /\ Used(c) /\ n \in Ends(c) /\ End(c, n) = "live"
  /\ conns[c].broken \/ End(c, Peer(c, n)) = "gone"
  /\ handlers' = [handlers EXCEPT ![n][Peer(c, n)] = NoConn]
  /\ remoteAddresses' = [remoteAddresses EXCEPT ![n] = @ \ {RemoteAddress(c, n)}]
  /\ alarm' = [alarm EXCEPT ![n] = @ \/ Connected(n) = {Peer(c, n)}]
  /\ conns' = [conns EXCEPT ![c] = Without(c, n)]
  /\ UNCHANGED <<running, reachable, knownPeers, updating, firstRun, faults>>

\* The handshake of one end throws: the other end is gone, or time is up.  An
\* opener that fails may forget the peer, once in a hundred times.
FailHandshake(n, c) ==
  /\ Used(c) /\ n \in Ends(c) /\ End(c, n) = "shaking"
  /\ \/ (conns[c].broken \/ End(c, Peer(c, n)) = "gone") /\ UNCHANGED faults
     \/ ~conns[c].broken /\ End(c, Peer(c, n)) # "gone" /\ Fault
  /\ knownPeers' \in
       {knownPeers} \cup
       IF n = conns[c].opener
       THEN {[knownPeers EXCEPT ![n] = @ \ {conns[c].acceptor}]} ELSE {}
  /\ conns' = [conns EXCEPT ![c] = Without(c, n)]
  /\ UNCHANGED <<running, reachable, handlers, remoteAddresses, alarm, updating, firstRun>>

-----------------------------------------------------------------------------
(* mRunAlarm and update.                                                   *)

Enough(n) == Cardinality(Connected(n)) >= MinConnections[n]

\* The alarm enqueues a task, which starts with the peers in mKnownPeers; the
\* alarm may be set again, by unregisterHandler, while the task runs.
RunAlarm(n, t) ==
  /\ n \in running /\ alarm[n] /\ updating[n][t] = NoUpdate
  /\ alarm' = [alarm EXCEPT ![n] = FALSE]
  /\ updating' = [updating EXCEPT ![n][t] =
       [phase |-> "known", todo |-> IF Enough(n) THEN {} ELSE knownPeers[n] \ Connected(n)]]
  /\ UNCHANGED <<running, reachable, handlers, remoteAddresses, knownPeers, firstRun, conns,
                 faults>>

\* connect filters out the addresses of any host it has an address of.
MayTry(n, p) ==
  /\ handlers[n][p] = NoConn
  /\ \A a \in remoteAddresses[n] : a.host # p

\* Until its synchronous connect returns, a task does not go on.
IsWaiting(n, t) ==
  \E c \in Conns : Used(c) /\ conns[c].opener = n /\ conns[c].sync = t /\ End(c, n) = "shaking"

\* A datagram comes from the port its sender listens on, a TCP connection from
\* one of its own.
FromPorts(c) ==
  (IF "UDP" \in Transports THEN {"listen"} ELSE {}) \cup (IF "TCP" \in Transports THEN {c} ELSE {})

Open(n, p, sync) ==
  \E c \in Conns : \E port \in FromPorts(c) :
    /\ ~Used(c)
    /\ conns' = [conns EXCEPT ![c] =
         [opener |-> n, acceptor |-> p, from |-> port, sync |-> sync, broken |-> FALSE,
          end |-> [s \in {"opener", "acceptor"} |-> "shaking"]]]

\* connect(addr, remote), in a task of its own for the known peers of the first
\* run.  To a peer that cannot be reached it fails.
Connect(n, t, p) ==
  /\ updating[n][t].phase \in {"known", "tracked"} /\ p \in updating[n][t].todo
  /\ ~IsWaiting(n, t)
  /\ updating' = [updating EXCEPT ![n][t].todo = @ \ {p}]
  /\ \/ /\ MayTry(n, p) /\ p \in reachable
        /\ Open(n, p, IF firstRun[n] /\ updating[n][t].phase = "known" THEN NoUpdater ELSE t)
        /\ UNCHANGED knownPeers
     \/ /\ MayTry(n, p) /\ p \notin reachable /\ UNCHANGED conns
        /\ knownPeers' \in {knownPeers, [knownPeers EXCEPT ![n] = @ \ {p}]}
     \/ ~MayTry(n, p) /\ UNCHANGED <<conns, knownPeers>>
  /\ UNCHANGED <<running, reachable, handlers, remoteAddresses, alarm, firstRun, faults>>

IsThrough(n, t, phase) ==
  updating[n][t] = [phase |-> phase, todo |-> {}] /\ ~IsWaiting(n, t)

\* The tracker names the nodes that run, whether they can be reached or not.
Track(n, t) ==
  /\ IsThrough(n, t, "known")
  /\ updating' = [updating EXCEPT ![n][t] =
       [phase |-> "tracked", todo |-> IF Enough(n) THEN {} ELSE running \ {n}]]
  /\ UNCHANGED <<running, reachable, handlers, remoteAddresses, knownPeers, alarm, firstRun,
                 conns, faults>>

\* MUTANT of Reschedule: the alarm is set only while connections are missing.
RescheduleIfNeeded(n) == alarm' = [alarm EXCEPT ![n] = @ \/ ~Enough(n)]

\* mRunAlarm.schedule, in 1 or about 20 minutes.
Reschedule(n) == alarm' = [alarm EXCEPT ![n] = TRUE]

\* update is over; the tracker may have failed to answer.
EndUpdate(n, t) ==
  /\ \/ IsThrough(n, t, "tracked") /\ UNCHANGED faults
     \/ IsThrough(n, t, "known") /\ Fault
  /\ updating' = [updating EXCEPT ![n][t] = NoUpdate]
  /\ Reschedule(n)
  /\ firstRun' = [firstRun EXCEPT ![n] = FALSE]
  /\ UNCHANGED <<running, reachable, handlers, remoteAddresses, knownPeers, conns>>

-----------------------------------------------------------------------------
(* What goes wrong.                                                        *)

\* A connection breaks; each end notices in its own time.
Break(c) ==
  /\ Used(c) /\ ~conns[c].broken /\ Fault
  /\ conns' = [conns EXCEPT ![c].broken = TRUE]
  /\ UNCHANGED <<running, reachable, handlers, remoteAddresses, knownPeers, alarm, updating,
                 firstRun>>

\* A node is killed and started again: only mKnownPeers is kept.
Restart(n) ==
  /\ n \in running /\ Fault
  /\ handlers' = [handlers EXCEPT ![n] = [p \in Nodes |-> NoConn]]
  /\ remoteAddresses' = [remoteAddresses EXCEPT ![n] = {}]
  /\ alarm' = [alarm EXCEPT ![n] = TRUE]
  /\ updating' = [updating EXCEPT ![n] = [t \in Updaters |-> NoUpdate]]
  /\ firstRun' = [firstRun EXCEPT ![n] = TRUE]
  /\ conns' = [c \in Conns |->
       IF Used(c) /\ n \in Ends(c) THEN Without(c, n) ELSE conns[c]]
  /\ UNCHANGED <<running, reachable, knownPeers>>

-----------------------------------------------------------------------------
HandlerStep(n, c) == Register(n, c) \/ Unregister(n, c)

UpdateStep(n, t) ==
  \/ RunAlarm(n, t) \/ Track(n, t) \/ EndUpdate(n, t)
  \/ \E p \in Nodes : Connect(n, t, p)

OverlayNext ==
  \/ \E n \in Nodes, c \in Conns : HandlerStep(n, c) \/ FailHandshake(n, c)
  \/ \E n \in Nodes, t \in Updaters : UpdateStep(n, t)
  \/ \E n \in Nodes : Restart(n)
  \/ \E c \in Conns : Break(c)

\* Threads are scheduled and alarms fire.  A handshake that nothing disturbs
\* is completed by both ends.
OverlayFairness ==
  /\ \A n \in Nodes, c \in Conns : WF_overlayVars(HandlerStep(n, c))
  /\ \A n \in Nodes, t \in Updaters : WF_overlayVars(UpdateStep(n, t))

OverlaySpec == OverlayInit /\ [][OverlayNext]_overlayVars /\ OverlayFairness

-----------------------------------------------------------------------------
OverlayTypeOK ==
  /\ running \subseteq Nodes /\ reachable \subseteq running
  /\ handlers \in [Nodes -> [Nodes -> Conns \cup {NoConn}]]
  /\ remoteAddresses \in [Nodes -> SUBSET Address]
  /\ knownPeers \in [Nodes -> SUBSET Nodes]
  /\ alarm \in [Nodes -> BOOLEAN] /\ firstRun \in [Nodes -> BOOLEAN]
  /\ updating \in [Nodes -> [Updaters -> Updates]]
  /\ conns \in [Conns -> Connections \cup {NoConnection}]
  /\ faults \in 0 .. MaxFaults

\* A node always has its alarm set or a task of update on its way
\* (overlay.cpp:98, :806, :975-985): it never stops looking for peers.
KeepsTrying ==
  \A n \in running : alarm[n] \/ \E t \in Updaters : updating[n][t] # NoUpdate

\* A handler's address is in mRemoteAddresses, so that the peer is not opened
\* twice; and a node that only opens connections has no other address there,
\* which would keep it from opening that host again.
AddressesAreLive ==
  \A n \in Nodes :
    LET live == {RemoteAddress(handlers[n][p], n) : p \in Connected(n)}
    IN  /\ live \subseteq remoteAddresses[n]
        /\ n \notin reachable => remoteAddresses[n] = live

\* Two nodes use the same connection, and it works.
Linked(n, p) ==
  \E c \in Conns : handlers[n][p] = c /\ handlers[p][n] = c /\ ~conns[c].broken

\* Whatever breaks, and whichever node restarts, a node that can reach another,
\* and cannot be reached by it, ends up connected to it on one connection that
\* both keep (overlay.cpp:737-810).
Reconnects ==
  <>[](\A n \in running \ reachable, p \in reachable : Linked(n, p))

\* overlay.cpp:805 says "Try to reconnect now" of a node left without handlers.
ReconnectsBothWays ==
  \A n, p \in Nodes :
    n # p /\ n \in reachable /\ p \in reachable /\ handlers[n][p] = NoConn
      ~> handlers[n][p] # NoConn
=============================================================================
