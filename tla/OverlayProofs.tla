---------------------------- MODULE OverlayProofs ----------------------------
(***************************************************************************)
(* Proofs about how nodes stay connected (modules Overlay, HttpTunnel).    *)
(* For any number of nodes, connections and faults, a node never stops     *)
(* looking for peers, and the addresses it has are those of its handlers;  *)
(* and a stream through a proxy loses no byte and doubles none, whatever   *)
(* the sizes of posts, records and downloads.                              *)
(***************************************************************************)
EXTENDS MCNode, SchedulerProofs, SinkProofs

\* The tasks of update, which no other part of the state has a say in.
UpdatesTyped ==
  /\ alarm \in [Nodes -> BOOLEAN]
  /\ updating \in [Nodes -> [Updaters -> Updates]]

\* How a step changes the tasks of update: one begins, one goes on, or one ends
\* and sets the alarm.
LEMMA UpdatesKept ==
  ASSUME knownPeers \in [Nodes -> SUBSET Nodes], running \subseteq Nodes,
         UpdatesTyped, KeepsTrying, [OverlayNext]_overlayVars
  PROVE  UpdatesTyped' /\ KeepsTrying'
<1> USE DEF UpdatesTyped, KeepsTrying
<1>1. ASSUME UNCHANGED <<running, alarm, updating>>
      PROVE  UpdatesTyped' /\ KeepsTrying'
  BY <1>1
<1>2. ASSUME NEW n \in Nodes, NEW c \in Conns, Register(n, c) \/ FailHandshake(n, c)
      PROVE  UpdatesTyped' /\ KeepsTrying'
  BY <1>1, <1>2 DEF Register, FailHandshake
<1>3. ASSUME NEW n \in Nodes, NEW c \in Conns, Unregister(n, c)
      PROVE  UpdatesTyped' /\ KeepsTrying'
  <2>1. /\ alarm' = [alarm EXCEPT ![n] = alarm[n] \/ Connected(n) = {Peer(c, n)}]
        /\ UNCHANGED <<running, updating>>
    BY <1>3 DEF Unregister
  <2>2. alarm' \in [Nodes -> BOOLEAN]
    BY <2>1
  <2>3. \A m \in Nodes : alarm[m] => alarm'[m]
    BY <2>1
  <2> QED
    BY <2>1, <2>2, <2>3
<1>4. ASSUME NEW n \in Nodes, NEW t \in Updaters, RunAlarm(n, t)
      PROVE  UpdatesTyped' /\ KeepsTrying'
  <2> DEFINE started == [phase |-> "known",
                       todo |-> IF Enough(n) THEN {} ELSE knownPeers[n] \ Connected(n)]
  <2>1. started \in Updates /\ started # NoUpdate
    BY DEF Updates, NoUpdate
  <2>2. alarm' = [alarm EXCEPT ![n] = FALSE] /\ updating' = [updating EXCEPT ![n][t] = started]
    BY <1>4 DEF RunAlarm
  <2> HIDE DEF started
  <2>3. UpdatesTyped'
    BY <2>1, <2>2
  <2>4. running' = running
    BY <1>4 DEF RunAlarm
  <2>5. updating'[n][t] # NoUpdate
    BY <2>1, <2>2
  <2>6. \A m \in Nodes \ {n} : alarm'[m] = alarm[m] /\ updating'[m] = updating[m]
    BY <2>2
  <2> QED
    BY <2>3, <2>4, <2>5, <2>6
<1>5. ASSUME NEW n \in Nodes, NEW t \in Updaters, NEW p \in Nodes, Connect(n, t, p)
      PROVE  UpdatesTyped' /\ KeepsTrying'
  <2> DEFINE next == [updating[n][t] EXCEPT !.todo = @ \ {p}]
  <2>1. updating[n][t] \in Updates /\ updating[n][t].phase # "idle"
    BY <1>5 DEF Connect
  <2>2. next \in Updates /\ next.phase = updating[n][t].phase
    BY <2>1 DEF Updates
  <2>3. next # NoUpdate
    BY <2>1, <2>2 DEF NoUpdate
  <2>4. updating' = [updating EXCEPT ![n][t] = next]
    BY <1>5 DEF Connect
  <2>5. UNCHANGED <<alarm, running>>
    BY <1>5 DEF Connect
  <2> HIDE DEF next
  <2>6. UpdatesTyped'
    BY <2>2, <2>4, <2>5
  <2>7. updating'[n][t] # NoUpdate /\ \A m \in Nodes \ {n} : updating'[m] = updating[m]
    BY <2>3, <2>4
  <2> QED
    BY <2>5, <2>6, <2>7
<1>6. ASSUME NEW n \in Nodes, NEW t \in Updaters, Track(n, t)
      PROVE  UpdatesTyped' /\ KeepsTrying'
  <2> DEFINE tracked == [phase |-> "tracked", todo |-> IF Enough(n) THEN {} ELSE running \ {n}]
  <2>1. tracked \in Updates /\ tracked # NoUpdate
    BY DEF Updates, NoUpdate
  <2>2. updating' = [updating EXCEPT ![n][t] = tracked] /\ UNCHANGED <<alarm, running>>
    BY <1>6 DEF Track
  <2> HIDE DEF tracked
  <2>3. UpdatesTyped'
    BY <2>1, <2>2
  <2>4. updating'[n][t] # NoUpdate /\ \A m \in Nodes \ {n} : updating'[m] = updating[m]
    BY <2>1, <2>2
  <2> QED
    BY <2>2, <2>3, <2>4
<1>7. ASSUME NEW n \in Nodes, NEW t \in Updaters, EndUpdate(n, t)
      PROVE  UpdatesTyped' /\ KeepsTrying'
  <2>1. NoUpdate \in Updates
    BY DEF NoUpdate, Updates
  <2>2. /\ updating' = [updating EXCEPT ![n][t] = NoUpdate]
        /\ alarm' = [alarm EXCEPT ![n] = TRUE]
        /\ UNCHANGED running
    BY <1>7 DEF EndUpdate, Reschedule
  <2>3. UpdatesTyped'
    BY <2>1, <2>2
  <2>4. alarm'[n] /\ \A m \in Nodes \ {n} : alarm'[m] = alarm[m] /\ updating'[m] = updating[m]
    BY <2>2
  <2> QED
    BY <2>2, <2>3, <2>4
<1>8. ASSUME NEW n \in Nodes, Restart(n)
      PROVE  UpdatesTyped' /\ KeepsTrying'
  <2>1. NoUpdate \in Updates
    BY DEF NoUpdate, Updates
  <2>2. /\ updating' = [updating EXCEPT ![n] = [t \in Updaters |-> NoUpdate]]
        /\ alarm' = [alarm EXCEPT ![n] = TRUE]
        /\ UNCHANGED running
    BY <1>8 DEF Restart
  <2>3. UpdatesTyped'
    BY <2>1, <2>2
  <2>4. alarm'[n] /\ \A m \in Nodes \ {n} : alarm'[m] = alarm[m] /\ updating'[m] = updating[m]
    BY <2>2
  <2> QED
    BY <2>2, <2>3, <2>4
<1>9. ASSUME NEW c \in Conns, Break(c)
      PROVE  UpdatesTyped' /\ KeepsTrying'
  BY <1>1, <1>9 DEF Break
<1>10. ASSUME UNCHANGED overlayVars
       PROVE  UpdatesTyped' /\ KeepsTrying'
  BY <1>1, <1>10 DEF overlayVars
<1> QED
  BY <1>2, <1>3, <1>4, <1>5, <1>6, <1>7, <1>8, <1>9, <1>10
  DEF OverlayNext, HandlerStep, UpdateStep

-----------------------------------------------------------------------------
(* The connections and their ends.                                         *)

ConnsTyped == conns \in [Conns -> Connections \cup {NoConnection}]

\* A connection there is has its fields.
LEMMA UsedTyped ==
  ASSUME ConnsTyped, NEW c \in Conns
  PROVE  Used(c) <=> conns[c] \in Connections
BY DEF ConnsTyped, Used, Connections, NoConnection

\* They have their types.
LEMMA Fields ==
  ASSUME NEW r \in Connections
  PROVE  /\ r.opener \in Nodes /\ r.acceptor \in Nodes /\ r.from \in Ports /\ r.broken \in BOOLEAN
         /\ r.sync \in Updaters \cup {NoUpdater}
         /\ r.end \in [{"opener", "acceptor"} -> EndStates]
BY DEF Connections

\* What changes when one end does.
LEMMA EndSet ==
  ASSUME NEW r \in Connections, NEW side \in {"opener", "acceptor"}, NEW state \in EndStates,
         NEW q, q = [r EXCEPT !.end[side] = state]
  PROVE  /\ q \in Connections
         /\ q.opener = r.opener /\ q.acceptor = r.acceptor /\ q.from = r.from
         /\ q.end = [r.end EXCEPT ![side] = state]
BY DEF Connections

\* What one end is, and what it sees of the other.
LEMMA EndsTyped ==
  ASSUME ConnsTyped, NEW c \in Conns, Used(c), NEW n \in Ends(c)
  PROVE  /\ n \in Nodes /\ Peer(c, n) \in Nodes /\ Peer(c, n) \in Ends(c)
         /\ Side(c, n) \in {"opener", "acceptor"} /\ End(c, n) \in EndStates
         /\ RemoteAddress(c, n) \in Address /\ RemoteAddress(c, n).host = Peer(c, n)
<1>1. conns[c] \in Connections
  BY UsedTyped
<1>2. /\ conns[c].opener \in Nodes /\ conns[c].acceptor \in Nodes /\ conns[c].from \in Ports
      /\ conns[c].end \in [{"opener", "acceptor"} -> EndStates]
  BY <1>1, Fields
<1>3. "listen" \in Ports
  BY DEF Ports
<1> QED
  BY <1>2, <1>3 DEF Ends, Peer, Side, End, RemoteAddress, Address

\* A connection whose end is over is forgotten, or keeps its other end.
LEMMA WithoutTyped ==
  ASSUME ConnsTyped, NEW c \in Conns, Used(c), NEW n \in Ends(c)
  PROVE  /\ Without(c, n) \in Connections \cup {NoConnection}
         /\ \/ Without(c, n) = NoConnection
            \/ /\ Without(c, n) \in Connections
               /\ Without(c, n).opener = conns[c].opener
               /\ Without(c, n).acceptor = conns[c].acceptor
               /\ Without(c, n).from = conns[c].from
               /\ Without(c, n).end = [conns[c].end EXCEPT ![Side(c, n)] = "gone"]
<1>1. conns[c] \in Connections /\ Side(c, n) \in {"opener", "acceptor"}
  BY UsedTyped, EndsTyped
<1>2. "gone" \in EndStates
  BY DEF EndStates
<1> QED
  BY <1>1, <1>2, EndSet DEF Without
\* A connection whose end goes live keeps its other end.
LEMMA AddTyped ==
  ASSUME ConnsTyped, NEW c \in Conns, Used(c), NEW n \in Ends(c)
  PROVE  \E q \in Connections :
           /\ q = [conns[c] EXCEPT !.end[Side(c, n)] = "live"]
           /\ q.opener = conns[c].opener /\ q.acceptor = conns[c].acceptor
           /\ q.from = conns[c].from
           /\ q.end = [conns[c].end EXCEPT ![Side(c, n)] = "live"]
<1>1. conns[c] \in Connections /\ Side(c, n) \in {"opener", "acceptor"}
  BY UsedTyped, EndsTyped
<1>2. "live" \in EndStates
  BY DEF EndStates
<1>3. [conns[c] EXCEPT !.end[Side(c, n)] = "live"] \in Connections
  BY <1>1, <1>2, EndSet
<1> QED
  BY <1>1, <1>2, <1>3, EndSet

\* A connection is between two nodes, and was opened to one that can be reached.
ConnsSane ==
  /\ ConnsTyped
  /\ \A c \in Conns :
       Used(c) => conns[c].opener # conns[c].acceptor /\ conns[c].acceptor \in reachable

\* The handler of a peer is on a connection with it, and every live end is that
\* of a handler.
HandlersSane ==
  /\ handlers \in [Nodes -> [Nodes -> Conns \cup {NoConn}]]
  /\ \A n, p \in Nodes :
       handlers[n][p] # NoConn =>
         Used(handlers[n][p]) /\ n \in Ends(handlers[n][p]) /\ Peer(handlers[n][p], n) = p
  /\ \A c \in Conns : Used(c) =>
       \A n \in Ends(c) : End(c, n) = "live" <=> handlers[n][Peer(c, n)] = c

\* An end that starts a handler.
LEMMA AddKept ==
  ASSUME ConnsSane, HandlersSane, NEW c \in Conns, Used(c), NEW n \in Ends(c),
         End(c, n) = "shaking", handlers[n][Peer(c, n)] = NoConn,
         AddHandler(n, c), reachable' = reachable
  PROVE  ConnsSane' /\ HandlersSane'
<1>1. /\ conns[c] \in Connections /\ Side(c, n) \in {"opener", "acceptor"}
      /\ n \in Nodes /\ Peer(c, n) \in Nodes
  BY UsedTyped, EndsTyped DEF ConnsSane
<1>3. PICK q \in Connections :
        /\ q = [conns[c] EXCEPT !.end[Side(c, n)] = "live"]
        /\ q.opener = conns[c].opener /\ q.acceptor = conns[c].acceptor /\ q.from = conns[c].from
        /\ q.end = [conns[c].end EXCEPT ![Side(c, n)] = "live"]
  BY AddTyped DEF ConnsSane
<1>4. conns' = [conns EXCEPT ![c] = q]
  BY <1>3 DEF AddHandler
<1>5. ConnsTyped'
  BY <1>3, <1>4 DEF ConnsTyped, ConnsSane
<1>6. conns'[c] = q /\ \A d \in Conns \ {c} : conns'[d] = conns[d]
  BY <1>4 DEF ConnsTyped, ConnsSane
<1>7. \A d \in Conns : Used(d)' <=> Used(d)
  BY <1>3, <1>5, <1>6, UsedTyped DEF Used, Connections, NoConnection
<1>8. ConnsSane'
  BY <1>3, <1>5, <1>6, <1>7, ZenonT(40) DEF ConnsSane
<1>9. \A d \in Conns : Ends(d)' = Ends(d) /\ \A m : Peer(d, m)' = Peer(d, m)
  BY <1>3, <1>6 DEF Ends, Peer
<1>10. \A d \in Conns : Used(d) => \A m \in Ends(d) :
         End(d, m)' = IF d = c /\ m = n THEN "live" ELSE End(d, m)
  <2>1. ASSUME NEW d \in Conns, d # c, NEW m \in Ends(d)
        PROVE  End(d, m)' = End(d, m)
    BY <1>6, <2>1 DEF End, Side
  <2>2. conns[c].end \in [{"opener", "acceptor"} -> EndStates]
    BY <1>1, Fields
  <2>3. ASSUME NEW m \in Ends(c), m # n
        PROVE  End(c, m)' = End(c, m) /\ Side(c, m) # Side(c, n)
    BY <1>3, <1>6, <2>2, <2>3 DEF End, Side, Ends
  <2>4. End(c, n)' = "live"
    BY <1>1, <1>3, <1>6, <2>2 DEF End, Side, Ends
  <2> QED
    BY <2>1, <2>3, <2>4
<1>11. handlers' = [handlers EXCEPT ![n][Peer(c, n)] = c]
  BY DEF AddHandler
<1>12. handlers' \in [Nodes -> [Nodes -> Conns \cup {NoConn}]]
  BY <1>1, <1>11 DEF HandlersSane
<1>13. \A m, p \in Nodes :
         handlers'[m][p] = IF m = n /\ p = Peer(c, n) THEN c ELSE handlers[m][p]
  BY <1>1, <1>11 DEF HandlersSane
<1>14. NoConn \notin Conns
  BY OverlayAssumption
<1>15. ASSUME NEW m \in Nodes, NEW p \in Nodes, handlers'[m][p] # NoConn
       PROVE  /\ Used(handlers[m][p])' /\ m \in Ends(handlers[m][p])'
              /\ Peer(handlers[m][p], m)' = p
  BY <1>7, <1>9, <1>13, <1>15, <1>12 DEF HandlersSane
<1>16. ASSUME NEW d \in Conns, Used(d)', NEW m \in Ends(d)'
       PROVE  (End(d, m)' = "live") <=> (handlers'[m][Peer(d, m)'] = d)
  <2>1. Used(d) /\ m \in Ends(d) /\ Peer(d, m)' = Peer(d, m)
    BY <1>7, <1>9, <1>16
  <2>2. m \in Nodes /\ Peer(d, m) \in Nodes
    BY <2>1, EndsTyped DEF ConnsSane
  <2> QED
    BY <2>1, <2>2, <1>10, <1>13, <1>14 DEF HandlersSane
<1> QED
  BY <1>8, <1>12, <1>15, <1>16 DEF HandlersSane

\* The ends of n of some connections are over, and with them their handlers.
LEMMA GoneKept ==
  ASSUME ConnsSane, HandlersSane, reachable' = reachable, NEW n \in Nodes, NEW D \in SUBSET Conns,
         \A d \in D : Used(d) /\ n \in Ends(d),
         conns' = [d \in Conns |-> IF d \in D THEN Without(d, n) ELSE conns[d]],
         handlers' = [handlers EXCEPT ![n] =
           [p \in Nodes |-> IF handlers[n][p] \in D THEN NoConn ELSE handlers[n][p]]]
  PROVE  ConnsSane' /\ HandlersSane'
<1>1. ASSUME NEW d \in D
      PROVE  \/ conns'[d] = NoConnection /\ End(d, Peer(d, n)) = "gone"
             \/ /\ conns'[d] \in Connections
                /\ conns'[d].opener = conns[d].opener
                /\ conns'[d].acceptor = conns[d].acceptor
                /\ conns'[d].from = conns[d].from
                /\ conns'[d].end = [conns[d].end EXCEPT ![Side(d, n)] = "gone"]
  <2>1. d \in Conns /\ Used(d) /\ n \in Ends(d) /\ ConnsTyped /\ conns'[d] = Without(d, n)
    BY DEF ConnsSane
  <2>2. Without(d, n) = NoConnection => End(d, Peer(d, n)) = "gone"
    <3>1. conns[d] \in Connections /\ Side(d, n) \in {"opener", "acceptor"}
      BY <2>1, UsedTyped, EndsTyped
    <3>2. "gone" \in EndStates
      BY DEF EndStates
    <3>3. [conns[d] EXCEPT !.end[Side(d, n)] = "gone"] \in Connections
      BY <3>1, <3>2, EndSet
    <3> QED
      BY <3>3 DEF Without, Connections, NoConnection
  <2> QED
    BY <2>1, <2>2, WithoutTyped
<1>2. \A d \in Conns \ D : conns'[d] = conns[d]
  OBVIOUS
<1>3. ConnsTyped'
  BY <1>1, <1>2 DEF ConnsTyped, ConnsSane
<1>4. \A d \in Conns : Used(d)' => Used(d)
  BY <1>2 DEF Used
<1>5. ASSUME NEW d \in Conns, Used(d)'
      PROVE  /\ conns'[d].opener = conns[d].opener /\ conns'[d].acceptor = conns[d].acceptor
             /\ Ends(d)' = Ends(d) /\ \A m : Peer(d, m)' = Peer(d, m) /\ Side(d, m)' = Side(d, m)
  <2>1. conns'[d].opener = conns[d].opener /\ conns'[d].acceptor = conns[d].acceptor
    BY <1>1, <1>2, <1>5 DEF Used
  <2> QED
    BY <2>1 DEF Ends, Peer, Side
<1>6. ConnsSane'
  BY <1>3, <1>4, <1>5 DEF ConnsSane
<1>7. ASSUME NEW d \in Conns, Used(d)', NEW m \in Ends(d)
      PROVE  End(d, m)' = IF d \in D /\ m = n THEN "gone" ELSE End(d, m)
  <2>1. CASE d \notin D
    BY <1>2, <2>1 DEF End, Side
  <2>2. CASE d \in D
    <3>1. conns'[d].end = [conns[d].end EXCEPT ![Side(d, n)] = "gone"]
      BY <1>1, <1>7, <2>2 DEF Used
    <3>2. conns[d].end \in [{"opener", "acceptor"} -> EndStates]
      BY <1>4, <1>7, UsedTyped, Fields DEF ConnsSane
    <3>3. Side(d, n) \in {"opener", "acceptor"} /\ Side(d, m) \in {"opener", "acceptor"}
      BY DEF Side
    <3>4. m # n => Side(d, m) # Side(d, n)
      BY <2>2, <1>7 DEF Side, Ends
    <3>5. Side(d, m)' = Side(d, m)
      BY <1>5, <1>7
    <3> QED
      BY <2>2, <3>1, <3>2, <3>3, <3>4, <3>5 DEF End
  <2> QED
    BY <2>1, <2>2
<1>8. handlers' \in [Nodes -> [Nodes -> Conns \cup {NoConn}]]
  BY DEF HandlersSane
<1>9. /\ \A m \in Nodes \ {n} : handlers'[m] = handlers[m]
      /\ \A p \in Nodes :
           handlers'[n][p] = IF handlers[n][p] \in D THEN NoConn ELSE handlers[n][p]
  BY DEF HandlersSane
<1>10. NoConn \notin Conns
  BY OverlayAssumption
<1>11. ASSUME NEW m \in Nodes, NEW p \in Nodes, handlers'[m][p] # NoConn
       PROVE  /\ Used(handlers[m][p])' /\ m \in Ends(handlers[m][p])'
              /\ Peer(handlers[m][p], m)' = p /\ handlers'[m][p] = handlers[m][p]
  <2>1. PICK d \in Conns : d = handlers[m][p] /\ handlers'[m][p] = d
    BY <1>8, <1>9, <1>10, <1>11
  <2>2. Used(d) /\ m \in Ends(d) /\ Peer(d, m) = p
    BY <1>10, <2>1 DEF HandlersSane
  <2>3. d \in D => m # n
    BY <1>9, <1>11, <2>1, <1>10
  <2>4. End(d, m) = "live"
    BY <2>1, <2>2 DEF HandlersSane
  <2>5. d \in D => m = Peer(d, n)
    BY <2>2, <2>3 DEF Peer, Ends
  <2>6. Used(d)'
    <3>1. CASE d \in D
      <4>1. conns'[d] \in Connections
        BY <1>1, <2>4, <2>5, <3>1
      <4> QED
        BY <4>1 DEF Used, Connections, NoConnection
    <3>2. CASE d \notin D
      BY <1>2, <2>2, <3>2 DEF Used
    <3> QED
      BY <3>1, <3>2
  <2>7. Used(handlers[m][p])' /\ m \in Ends(handlers[m][p])' /\ Peer(handlers[m][p], m)' = p
    <3>1. m \in Ends(d)' /\ Peer(d, m)' = p
      BY <1>5, <2>2, <2>6
    <3> QED
      BY <2>1, <2>6, <3>1, SMTT(20) DEF Used, Ends, Peer
  <2> QED
    BY <2>1, <2>7
<1>12. ASSUME NEW d \in Conns, Used(d)', NEW m \in Ends(d)'
       PROVE  (End(d, m)' = "live") <=> (handlers'[m][Peer(d, m)'] = d)
  <2>1. Used(d) /\ m \in Ends(d) /\ Peer(d, m)' = Peer(d, m)
    BY <1>4, <1>5, <1>12
  <2>2. m \in Nodes /\ Peer(d, m) \in Nodes
    BY <2>1, EndsTyped DEF ConnsSane
  <2>3. (End(d, m) = "live") <=> (handlers[m][Peer(d, m)] = d)
    BY <2>1 DEF HandlersSane
  <2>4. End(d, m)' = IF d \in D /\ m = n THEN "gone" ELSE End(d, m)
    BY <1>7, <1>12, <2>1
  <2>5. CASE m # n
    BY <1>9, <2>1, <2>2, <2>3, <2>4, <2>5
  <2>6. CASE m = n
    BY <1>9, <1>10, <2>1, <2>2, <2>3, <2>4, <2>6
  <2> QED
    BY <2>5, <2>6
<1> QED
  BY <1>6, <1>8, <1>11, <1>12 DEF HandlersSane

\* A connection that is opened.
LEMMA OpenKept ==
  ASSUME ConnsSane, HandlersSane, UNCHANGED <<handlers, reachable>>,
         NEW n \in Nodes, NEW p \in reachable, p # n, p \in Nodes,
         NEW sync \in Updaters \cup {NoUpdater}, Open(n, p, sync)
  PROVE  ConnsSane' /\ HandlersSane'
<1>0. PICK c \in Conns : \E port \in FromPorts(c) :
        /\ ~Used(c)
        /\ conns' = [conns EXCEPT ![c] =
             [opener |-> n, acceptor |-> p, from |-> port, sync |-> sync, broken |-> FALSE,
              end |-> [s \in {"opener", "acceptor"} |-> "shaking"]]]
  BY DEF Open
<1>1. PICK port \in FromPorts(c) :
        /\ ~Used(c)
        /\ conns' = [conns EXCEPT ![c] =
             [opener |-> n, acceptor |-> p, from |-> port, sync |-> sync, broken |-> FALSE,
              end |-> [s \in {"opener", "acceptor"} |-> "shaking"]]]
  BY <1>0
<1>2. port \in Ports
  BY DEF FromPorts, Ports
<1>3. PICK q : q = [opener |-> n, acceptor |-> p, from |-> port, sync |-> sync, broken |-> FALSE,
                    end |-> [s \in {"opener", "acceptor"} |-> "shaking"]]
  OBVIOUS
<1>4. /\ q \in Connections /\ q.opener = n /\ q.acceptor = p
      /\ q.end["opener"] = "shaking" /\ q.end["acceptor"] = "shaking"
  BY <1>2, <1>3 DEF Connections, EndStates
<1>5. conns' = [conns EXCEPT ![c] = q]
  BY <1>1, <1>3
<1>6. ConnsTyped'
  BY <1>4, <1>5 DEF ConnsTyped, ConnsSane
<1>7. conns'[c] = q /\ \A d \in Conns \ {c} : conns'[d] = conns[d]
  BY <1>5 DEF ConnsTyped, ConnsSane
<1>8. ConnsSane'
  BY <1>4, <1>6, <1>7 DEF ConnsSane, Used
<1>9. NoConn \notin Conns
  BY OverlayAssumption
<1>10. \A m, o \in Nodes : handlers[m][o] # c
  BY <1>1, <1>9 DEF HandlersSane
<1>11. ASSUME NEW m \in Nodes, NEW o \in Nodes, handlers'[m][o] # NoConn
       PROVE  /\ Used(handlers[m][o])' /\ m \in Ends(handlers[m][o])'
              /\ Peer(handlers[m][o], m)' = o
  <2>1. handlers[m][o] \in Conns \ {c}
    BY <1>10, <1>11 DEF HandlersSane
  <2> QED
    BY <1>7, <1>11, <2>1 DEF HandlersSane, Used, Ends, Peer
<1>12. ASSUME NEW d \in Conns, Used(d)', NEW m \in Ends(d)'
       PROVE  (End(d, m)' = "live") <=> (handlers'[m][Peer(d, m)'] = d)
  <2>1. CASE d = c
    <3>1. m \in Nodes /\ Peer(d, m)' \in Nodes
      BY <1>4, <1>7, <1>12, <2>1 DEF Ends, Peer
    <3>2. End(d, m)' = "shaking"
      BY <1>4, <1>7, <2>1 DEF End, Side
    <3> QED
      BY <1>10, <2>1, <3>1, <3>2
  <2>2. CASE d # c
    BY <1>7, <1>12, <2>2 DEF HandlersSane, Used, Ends, Peer, End, Side
  <2> QED
    BY <2>1, <2>2
<1> QED
  BY <1>8, <1>11, <1>12 DEF HandlersSane

\* A connection that breaks.
LEMMA BreakKept ==
  ASSUME ConnsSane, HandlersSane, NEW c \in Conns, Break(c)
  PROVE  ConnsSane' /\ HandlersSane'
<1>1. conns[c] \in Connections
  BY UsedTyped DEF Break, ConnsSane
<1>2. PICK q : q = [conns[c] EXCEPT !.broken = TRUE]
  OBVIOUS
<1>3. /\ q \in Connections
      /\ q.opener = conns[c].opener /\ q.acceptor = conns[c].acceptor /\ q.end = conns[c].end
  BY <1>1, <1>2 DEF Connections
<1>4. conns' = [conns EXCEPT ![c] = q] /\ UNCHANGED <<handlers, reachable>>
  BY <1>2 DEF Break
<1>5. ConnsTyped'
  BY <1>3, <1>4 DEF ConnsTyped, ConnsSane
<1>6. conns'[c] = q /\ \A d \in Conns \ {c} : conns'[d] = conns[d]
  BY <1>4 DEF ConnsTyped, ConnsSane
<1>7. \A d \in Conns : Used(d)' <=> Used(d)
  BY <1>1, <1>3, <1>5, <1>6, UsedTyped DEF Used, Connections, NoConnection
<1>8. \A d \in Conns :
        /\ conns'[d].opener = conns[d].opener /\ conns'[d].acceptor = conns[d].acceptor
        /\ conns'[d].end = conns[d].end
  BY <1>3, <1>6
<1>9. \A d \in Conns :
        Ends(d)' = Ends(d) /\ \A m : Peer(d, m)' = Peer(d, m) /\ End(d, m)' = End(d, m)
  BY <1>8 DEF Ends, Peer, End, Side
<1>10. ConnsSane'
  BY <1>4, <1>5, <1>7, <1>8 DEF ConnsSane
<1>11. HandlersSane'
  BY <1>4, <1>7, <1>9 DEF HandlersSane
<1> QED
  BY <1>10, <1>11

\* The end of n of one connection is over.
LEMMA DropKept ==
  ASSUME ConnsSane, HandlersSane, reachable' = reachable,
         NEW c \in Conns, Used(c), NEW n \in Ends(c),
         conns' = [conns EXCEPT ![c] = Without(c, n)],
         handlers' = IF End(c, n) = "live" THEN [handlers EXCEPT ![n][Peer(c, n)] = NoConn]
                     ELSE handlers
  PROVE  ConnsSane' /\ HandlersSane'
<1>1. n \in Nodes /\ Peer(c, n) \in Nodes
  BY EndsTyped DEF ConnsSane
<1>2. conns' = [d \in Conns |-> IF d \in {c} THEN Without(d, n) ELSE conns[d]]
  BY DEF ConnsSane, ConnsTyped
<1>3. NoConn \notin Conns
  BY OverlayAssumption
<1>4. \A p \in Nodes : handlers[n][p] = c <=> p = Peer(c, n) /\ End(c, n) = "live"
  BY <1>1, <1>3 DEF HandlersSane
<1>5. handlers' = [handlers EXCEPT ![n] =
        [p \in Nodes |-> IF handlers[n][p] \in {c} THEN NoConn ELSE handlers[n][p]]]
  <2>1. CASE End(c, n) = "live"
    <3>1. handlers[n] \in [Nodes -> Conns \cup {NoConn}]
      BY <1>1 DEF HandlersSane
    <3>2. \A p \in Nodes : handlers[n][p] \in {c} <=> p = Peer(c, n)
      BY <1>4, <2>1
    <3>3. [handlers[n] EXCEPT ![Peer(c, n)] = NoConn] =
            [p \in Nodes |-> IF handlers[n][p] \in {c} THEN NoConn ELSE handlers[n][p]]
      BY <1>1, <3>1, <3>2
    <3> QED
      BY <2>1, <3>3
  <2>2. CASE End(c, n) # "live"
    BY <1>1, <1>4, <2>2 DEF HandlersSane
  <2> QED
    BY <2>1, <2>2
<1>6. {c} \in SUBSET Conns /\ \A d \in {c} : Used(d) /\ n \in Ends(d)
  OBVIOUS
<1> QED
  BY <1>1, <1>2, <1>5, <1>6, GoneKept

\* Every step is one of these, or leaves the connections alone.
LEMMA LinksKept ==
  ASSUME ConnsSane, HandlersSane, [OverlayNext]_overlayVars,
         \A n \in Nodes, t \in Updaters : n \notin updating[n][t].todo
  PROVE  ConnsSane' /\ HandlersSane'
<1>1. ASSUME UNCHANGED <<reachable, conns, handlers>>
      PROVE  ConnsSane' /\ HandlersSane'
  BY <1>1 DEF ConnsSane, ConnsTyped, HandlersSane, Used, Ends, Peer, End, Side
<1>2. ASSUME NEW n \in Nodes, NEW c \in Conns, Register(n, c)
      PROVE  ConnsSane' /\ HandlersSane'
  <2>1. Used(c) /\ n \in Ends(c) /\ End(c, n) = "shaking" /\ UNCHANGED reachable
    BY <1>2 DEF Register
  <2>2. CASE handlers[n][Peer(c, n)] = NoConn
    BY <1>2, <2>1, <2>2, AddKept DEF Register
  <2>3. CASE handlers[n][Peer(c, n)] # NoConn
    BY <1>2, <2>1, <2>3, DropKept DEF Register, KeepHandler
  <2> QED
    BY <2>2, <2>3
<1>3. ASSUME NEW n \in Nodes, NEW c \in Conns, Unregister(n, c)
      PROVE  ConnsSane' /\ HandlersSane'
  BY <1>3, DropKept DEF Unregister
<1>4. ASSUME NEW n \in Nodes, NEW c \in Conns, FailHandshake(n, c)
      PROVE  ConnsSane' /\ HandlersSane'
  BY <1>4, DropKept DEF FailHandshake
<1>5. ASSUME NEW n \in Nodes, NEW t \in Updaters,
             RunAlarm(n, t) \/ Track(n, t) \/ EndUpdate(n, t)
      PROVE  ConnsSane' /\ HandlersSane'
  BY <1>1, <1>5 DEF RunAlarm, Track, EndUpdate
<1>6. ASSUME NEW n \in Nodes, NEW t \in Updaters, NEW p \in Nodes, Connect(n, t, p)
      PROVE  ConnsSane' /\ HandlersSane'
  <2>1. p # n /\ UNCHANGED <<handlers, reachable>>
    BY <1>6 DEF Connect
  <2>2. \/ UNCHANGED conns
        \/ p \in reachable /\ \E sync \in Updaters \cup {NoUpdater} : Open(n, p, sync)
    BY <1>6 DEF Connect
  <2> QED
    BY <1>1, <2>1, <2>2, OpenKept
<1>7. ASSUME NEW n \in Nodes, Restart(n)
      PROVE  ConnsSane' /\ HandlersSane'
  <2> DEFINE D == {c \in Conns : Used(c) /\ n \in Ends(c)}
  <2>1. D \in SUBSET Conns /\ \A d \in D : Used(d) /\ n \in Ends(d)
    OBVIOUS
  <2>2. conns' = [d \in Conns |-> IF d \in D THEN Without(d, n) ELSE conns[d]]
    BY <1>7 DEF Restart
  <2>3. \A p \in Nodes : handlers[n][p] \in D \/ handlers[n][p] = NoConn
    BY DEF HandlersSane
  <2>4. handlers' = [handlers EXCEPT ![n] =
          [p \in Nodes |-> IF handlers[n][p] \in D THEN NoConn ELSE handlers[n][p]]]
    BY <1>7, <2>3 DEF Restart
  <2>5. reachable' = reachable
    BY <1>7 DEF Restart
  <2> HIDE DEF D
  <2> QED
    BY <2>1, <2>2, <2>4, <2>5, GoneKept
<1>8. ASSUME NEW c \in Conns, Break(c)
      PROVE  ConnsSane' /\ HandlersSane'
  BY <1>8, BreakKept
<1>9. ASSUME UNCHANGED overlayVars
      PROVE  ConnsSane' /\ HandlersSane'
  BY <1>1, <1>9 DEF overlayVars
<1> QED
  BY <1>2, <1>3, <1>4, <1>5, <1>6, <1>7, <1>8, <1>9 DEF OverlayNext, HandlerStep, UpdateStep

\* The types of the rest of the state.
PlainTyped ==
  /\ running \subseteq Nodes /\ reachable \subseteq running
  /\ remoteAddresses \in [Nodes -> SUBSET Address]
  /\ knownPeers \in [Nodes -> SUBSET Nodes]
  /\ firstRun \in [Nodes -> BOOLEAN]
  /\ faults \in 0 .. MaxFaults

\* The faults are counted up to their bound.
LEMMA FaultTyped ==
  ASSUME faults \in 0 .. MaxFaults, Fault
  PROVE  faults' \in 0 .. MaxFaults
BY OverlayAssumption DEF Fault

\* Every step keeps those types.
LEMMA PlainKept ==
  ASSUME PlainTyped, ConnsSane, [OverlayNext]_overlayVars
  PROVE  PlainTyped'
<1>1. running' = running /\ reachable' = reachable
  BY DEF OverlayNext, overlayVars, HandlerStep, UpdateStep, Register, Unregister, FailHandshake,
         RunAlarm, Connect, Track, EndUpdate, Break, Restart
<1>2. remoteAddresses' \in [Nodes -> SUBSET Address]
  <2>1. ASSUME NEW n \in Nodes, NEW c \in Conns, Register(n, c)
        PROVE  remoteAddresses' \in [Nodes -> SUBSET Address]
    <3>1. RemoteAddress(c, n) \in Address
      BY <2>1, EndsTyped DEF Register, ConnsSane
    <3>2. remoteAddresses' = [remoteAddresses EXCEPT ![n] = @ \cup {RemoteAddress(c, n)}]
      BY <2>1 DEF Register
    <3> QED
      BY <3>1, <3>2 DEF PlainTyped
  <2>2. ASSUME NEW n \in Nodes, NEW c \in Conns, Unregister(n, c)
        PROVE  remoteAddresses' \in [Nodes -> SUBSET Address]
    BY <2>2 DEF Unregister, PlainTyped
  <2>3. ASSUME NEW n \in Nodes, Restart(n)
        PROVE  remoteAddresses' \in [Nodes -> SUBSET Address]
    BY <2>3 DEF Restart, PlainTyped
  <2>4. ASSUME UNCHANGED remoteAddresses
        PROVE  remoteAddresses' \in [Nodes -> SUBSET Address]
    BY <2>4 DEF PlainTyped
  <2> QED
    BY <2>1, <2>2, <2>3, <2>4
    DEF OverlayNext, overlayVars, HandlerStep, UpdateStep, FailHandshake, RunAlarm, Connect, Track,
        EndUpdate, Break
<1>3. knownPeers' \in [Nodes -> SUBSET Nodes]
  <2>1. ASSUME NEW n \in Nodes, NEW c \in Conns, Register(n, c)
        PROVE  knownPeers' \in [Nodes -> SUBSET Nodes]
    <3>1. conns[c].acceptor \in Nodes
      BY <2>1, UsedTyped, Fields DEF Register, ConnsSane
    <3>2. knownPeers' = [knownPeers EXCEPT ![n] =
            @ \cup IF conns[c].opener = n THEN {conns[c].acceptor} ELSE {}]
      BY <2>1 DEF Register
    <3> QED
      BY <3>1, <3>2 DEF PlainTyped
  <2>2. ASSUME NEW n \in Nodes, NEW p \in Nodes,
               knownPeers' \in {knownPeers, [knownPeers EXCEPT ![n] = @ \ {p}]}
        PROVE  knownPeers' \in [Nodes -> SUBSET Nodes]
    BY <2>2 DEF PlainTyped
  <2>3. ASSUME NEW n \in Nodes, NEW c \in Conns, FailHandshake(n, c)
        PROVE  knownPeers' \in [Nodes -> SUBSET Nodes]
    <3>1. conns[c].acceptor \in Nodes
      BY <2>3, UsedTyped, Fields DEF FailHandshake, ConnsSane
    <3>2. knownPeers' \in {knownPeers, [knownPeers EXCEPT ![n] = @ \ {conns[c].acceptor}]}
      BY <2>3 DEF FailHandshake
    <3> QED
      BY <2>2, <3>1, <3>2
  <2>4. ASSUME NEW n \in Nodes, NEW t \in Updaters, NEW p \in Nodes, Connect(n, t, p)
        PROVE  knownPeers' \in [Nodes -> SUBSET Nodes]
    <3>1. knownPeers' \in {knownPeers, [knownPeers EXCEPT ![n] = @ \ {p}]}
      BY <2>4 DEF Connect
    <3> QED
      BY <2>2, <3>1
  <2>5. ASSUME UNCHANGED knownPeers
        PROVE  knownPeers' \in [Nodes -> SUBSET Nodes]
    BY <2>5 DEF PlainTyped
  <2> QED
    BY <2>1, <2>3, <2>4, <2>5
    DEF OverlayNext, overlayVars, HandlerStep, UpdateStep, Unregister, RunAlarm, Track, EndUpdate,
        Break, Restart
<1>4. firstRun' \in [Nodes -> BOOLEAN]
  <2>1. ASSUME NEW n \in Nodes, NEW v \in BOOLEAN, firstRun' = [firstRun EXCEPT ![n] = v]
        PROVE  firstRun' \in [Nodes -> BOOLEAN]
    BY <2>1 DEF PlainTyped
  <2>2. ASSUME NEW n \in Nodes, NEW t \in Updaters, EndUpdate(n, t)
        PROVE  firstRun' \in [Nodes -> BOOLEAN]
    BY <2>1, <2>2 DEF EndUpdate
  <2>3. ASSUME NEW n \in Nodes, Restart(n)
        PROVE  firstRun' \in [Nodes -> BOOLEAN]
    BY <2>1, <2>3 DEF Restart
  <2>4. ASSUME UNCHANGED firstRun
        PROVE  firstRun' \in [Nodes -> BOOLEAN]
    BY <2>4 DEF PlainTyped
  <2>5. ASSUME NEW n \in Nodes, NEW c \in Conns, HandlerStep(n, c) \/ FailHandshake(n, c)
        PROVE  UNCHANGED firstRun
    BY <2>5 DEF HandlerStep, Register, Unregister, FailHandshake
  <2>6. ASSUME NEW n \in Nodes, NEW t \in Updaters, UpdateStep(n, t)
        PROVE  UNCHANGED firstRun \/ EndUpdate(n, t)
    BY <2>6 DEF UpdateStep, RunAlarm, Connect, Track
  <2>7. ASSUME NEW c \in Conns, Break(c)
        PROVE  UNCHANGED firstRun
    BY <2>7 DEF Break
  <2>8. CASE UNCHANGED overlayVars
    BY <2>4, <2>8 DEF overlayVars
  <2> QED
    BY <2>2, <2>3, <2>4, <2>5, <2>6, <2>7, <2>8 DEF OverlayNext
<1>5. faults' \in 0 .. MaxFaults
  <2>1. faults \in 0 .. MaxFaults
    BY DEF PlainTyped
  <2>2. faults' = faults \/ Fault
    BY DEF OverlayNext, overlayVars, HandlerStep, UpdateStep, Register, Unregister,
           FailHandshake, RunAlarm, Connect, Track, EndUpdate, Break, Restart
  <2> QED
    BY <2>1, <2>2, FaultTyped
<1> QED
  BY <1>1, <1>2, <1>3, <1>4, <1>5 DEF PlainTyped

\* A node is not a peer of itself.
PeersSane ==
  /\ \A n \in Nodes : n \notin knownPeers[n]
  /\ \A n \in Nodes, t \in Updaters : n \notin updating[n][t].todo

\* No step makes it one.
LEMMA PeersKept ==
  ASSUME PeersSane, ConnsSane, [OverlayNext]_overlayVars,
         knownPeers \in [Nodes -> SUBSET Nodes], updating \in [Nodes -> [Updaters -> Updates]]
  PROVE  PeersSane'
<1> USE DEF PeersSane
<1>1. \A n \in Nodes : n \notin knownPeers'[n]
  <2>1. ASSUME NEW n \in Nodes, NEW c \in Conns, Register(n, c)
        PROVE  \A m \in Nodes : m \notin knownPeers'[m]
    BY <2>1 DEF Register, ConnsSane
  <2>2. ASSUME NEW n \in Nodes, NEW p,
               knownPeers' \in {knownPeers, [knownPeers EXCEPT ![n] = @ \ {p}]}
        PROVE  \A m \in Nodes : m \notin knownPeers'[m]
    BY <2>2
  <2>3. ASSUME NEW n \in Nodes, NEW c \in Conns, FailHandshake(n, c)
        PROVE  \A m \in Nodes : m \notin knownPeers'[m]
    <3>1. knownPeers' \in {knownPeers, [knownPeers EXCEPT ![n] = @ \ {conns[c].acceptor}]}
      BY <2>3 DEF FailHandshake
    <3> QED
      BY <2>2, <3>1
  <2>4. ASSUME NEW n \in Nodes, NEW t \in Updaters, NEW p \in Nodes, Connect(n, t, p)
        PROVE  \A m \in Nodes : m \notin knownPeers'[m]
    <3>1. knownPeers' \in {knownPeers, [knownPeers EXCEPT ![n] = @ \ {p}]}
      BY <2>4 DEF Connect
    <3> QED
      BY <2>2, <3>1
  <2>5. ASSUME UNCHANGED knownPeers
        PROVE  \A m \in Nodes : m \notin knownPeers'[m]
    BY <2>5
  <2> QED
    BY <2>1, <2>3, <2>4, <2>5
    DEF OverlayNext, overlayVars, HandlerStep, UpdateStep, Unregister, RunAlarm, Track, EndUpdate,
        Break, Restart
<1>2. \A n \in Nodes, t \in Updaters : n \notin updating'[n][t].todo
  <2>1. ASSUME NEW n \in Nodes, NEW t \in Updaters, NEW u,
               n \notin u.todo, updating' = [updating EXCEPT ![n][t] = u]
        PROVE  \A m \in Nodes, r \in Updaters : m \notin updating'[m][r].todo
    BY <2>1
  <2>2. ASSUME NEW n \in Nodes, NEW t \in Updaters, RunAlarm(n, t)
        PROVE  \A m \in Nodes, r \in Updaters : m \notin updating'[m][r].todo
    <3>1. PICK u : u = [phase |-> "known",
                        todo |-> IF Enough(n) THEN {} ELSE knownPeers[n] \ Connected(n)]
      OBVIOUS
    <3>2. n \notin u.todo
      BY <3>1
    <3>3. updating' = [updating EXCEPT ![n][t] = u]
      BY <2>2, <3>1 DEF RunAlarm
    <3> QED
      BY <2>1, <3>2, <3>3
  <2>3. ASSUME NEW n \in Nodes, NEW t \in Updaters, Track(n, t)
        PROVE  \A m \in Nodes, r \in Updaters : m \notin updating'[m][r].todo
    <3>1. PICK u : u = [phase |-> "tracked", todo |-> IF Enough(n) THEN {} ELSE running \ {n}]
      OBVIOUS
    <3>2. n \notin u.todo
      BY <3>1
    <3>3. updating' = [updating EXCEPT ![n][t] = u]
      BY <2>3, <3>1 DEF Track
    <3> QED
      BY <2>1, <3>2, <3>3
  <2>4. ASSUME NEW n \in Nodes, NEW t \in Updaters, NEW p \in Nodes, Connect(n, t, p)
        PROVE  \A m \in Nodes, r \in Updaters : m \notin updating'[m][r].todo
    <3>1. PICK u : u = [updating[n][t] EXCEPT !.todo = @ \ {p}]
      OBVIOUS
    <3>2. updating[n][t] \in Updates
      OBVIOUS
    <3>3. u.todo = updating[n][t].todo \ {p}
      BY <3>1, <3>2 DEF Updates
    <3>4. n \notin u.todo
      BY <3>3
    <3>5. updating' = [updating EXCEPT ![n][t] = u]
      BY <2>4, <3>1 DEF Connect
    <3> QED
      BY <2>1, <3>4, <3>5
  <2>5. ASSUME NEW n \in Nodes, NEW t \in Updaters, EndUpdate(n, t)
        PROVE  \A m \in Nodes, r \in Updaters : m \notin updating'[m][r].todo
    BY <2>5 DEF EndUpdate, NoUpdate
  <2>6. ASSUME NEW n \in Nodes, Restart(n)
        PROVE  \A m \in Nodes, r \in Updaters : m \notin updating'[m][r].todo
    BY <2>6 DEF Restart, NoUpdate
  <2>7. ASSUME UNCHANGED updating
        PROVE  \A m \in Nodes, r \in Updaters : m \notin updating'[m][r].todo
    BY <2>7
  <2> QED
    BY <2>2, <2>3, <2>4, <2>5, <2>6, <2>7
    DEF OverlayNext, overlayVars, HandlerStep, UpdateStep, Register, Unregister, FailHandshake, Break
<1> QED
  BY <1>1, <1>2

\* AddressesAreLive as it is kept: the address of a handler is there, and one of a
\* node that only opens connections is that of a handler for its host.
AddressInv ==
  \A n \in Nodes :
    /\ \A p \in Nodes :
         handlers[n][p] # NoConn => RemoteAddress(handlers[n][p], n) \in remoteAddresses[n]
    /\ n \notin reachable =>
         \A a \in remoteAddresses[n] : a.port = "listen" /\ handlers[n][a.host] # NoConn

\* A node that cannot be reached has opened its connections.
LEMMA OpenerAddress ==
  ASSUME ConnsSane, NEW c \in Conns, Used(c), NEW n \in Ends(c), n \notin reachable
  PROVE  RemoteAddress(c, n) = [host |-> Peer(c, n), port |-> "listen"]
BY DEF ConnsSane, Ends, Peer, RemoteAddress

\* A connection keeps its nodes and its port.
LEMMA FieldsKept ==
  ASSUME ConnsSane, [OverlayNext]_overlayVars, NEW d \in Conns, Used(d), Used(d)'
  PROVE  /\ conns'[d].opener = conns[d].opener /\ conns'[d].acceptor = conns[d].acceptor
         /\ conns'[d].from = conns[d].from
<1> DEFINE Same == /\ conns'[d].opener = conns[d].opener /\ conns'[d].acceptor = conns[d].acceptor
                   /\ conns'[d].from = conns[d].from
<1>0. ConnsTyped /\ conns[d] \in Connections
  BY UsedTyped DEF ConnsSane
<1>1. ASSUME NEW n \in Nodes, NEW c \in Conns, Used(c), n \in Ends(c),
             conns' = [conns EXCEPT ![c] = Without(c, n)]
      PROVE  Same
  <2>1. CASE c = d
    <3>1. conns'[d] = Without(c, n) /\ Without(c, n) # NoConnection
      BY <1>0, <1>1, <2>1 DEF ConnsTyped, Used
    <3> QED
      BY <1>0, <1>1, <2>1, <3>1, WithoutTyped
  <2>2. CASE c # d
    BY <1>1, <2>2
  <2> QED
    BY <2>1, <2>2
<1>2. ASSUME NEW n \in Nodes, NEW c \in Conns, Register(n, c)
      PROVE  Same
  <2>1. CASE handlers[n][Peer(c, n)] # NoConn
    BY <1>1, <1>2, <2>1 DEF Register, KeepHandler
  <2>2. CASE handlers[n][Peer(c, n)] = NoConn
    <3>1. PICK q \in Connections :
            /\ q = [conns[c] EXCEPT !.end[Side(c, n)] = "live"]
            /\ q.opener = conns[c].opener /\ q.acceptor = conns[c].acceptor
            /\ q.from = conns[c].from
            /\ q.end = [conns[c].end EXCEPT ![Side(c, n)] = "live"]
      BY <1>0, <1>2, AddTyped DEF Register
    <3>2. conns' = [conns EXCEPT ![c] = q]
      BY <1>2, <2>2, <3>1 DEF Register, AddHandler
    <3> QED
      BY <1>0, <3>1, <3>2 DEF ConnsTyped
  <2> QED
    BY <2>1, <2>2
<1>3. ASSUME NEW n \in Nodes, NEW c \in Conns, Unregister(n, c) \/ FailHandshake(n, c)
      PROVE  Same
  BY <1>1, <1>3 DEF Unregister, FailHandshake
<1>4. ASSUME NEW n \in Nodes, NEW t \in Updaters, NEW p \in Nodes, Connect(n, t, p)
      PROVE  Same
  <2>1. UNCHANGED conns \/ \E sync : Open(n, p, sync)
    BY <1>4 DEF Connect
  <2>2. ASSUME NEW sync, Open(n, p, sync)
        PROVE  conns'[d] = conns[d]
    BY <2>2, <1>0 DEF Open, ConnsTyped
  <2> QED
    BY <2>1, <2>2
<1>5. ASSUME NEW n \in Nodes, Restart(n)
      PROVE  Same
  <2>1. CASE n \in Ends(d)
    <3>1. conns'[d] = Without(d, n) /\ Without(d, n) # NoConnection
      BY <1>5, <2>1 DEF Restart, Used
    <3> QED
      BY <1>0, <2>1, <3>1, WithoutTyped
  <2>2. CASE n \notin Ends(d)
    BY <1>5, <2>2 DEF Restart
  <2> QED
    BY <2>1, <2>2
<1>6. ASSUME NEW c \in Conns, Break(c)
      PROVE  Same
  <2>1. conns[c] \in Connections
    BY <1>0, <1>6, UsedTyped DEF Break
  <2>2. PICK q : q = [conns[c] EXCEPT !.broken = TRUE]
    OBVIOUS
  <2>3. q.opener = conns[c].opener /\ q.acceptor = conns[c].acceptor /\ q.from = conns[c].from
    BY <2>1, <2>2 DEF Connections
  <2>4. conns' = [conns EXCEPT ![c] = q]
    BY <1>6, <2>2 DEF Break
  <2> QED
    BY <1>0, <2>3, <2>4 DEF ConnsTyped
<1>7. ASSUME UNCHANGED conns
      PROVE  Same
  BY <1>7
<1> HIDE DEF Same
<1>8. Same
  BY <1>2, <1>3, <1>4, <1>5, <1>6, <1>7
  DEF OverlayNext, overlayVars, HandlerStep, UpdateStep, RunAlarm, Track, EndUpdate
<1> QED
  BY <1>8 DEF Same

\* The addresses follow the handlers.
LEMMA AddressKept ==
  ASSUME AddressInv, ConnsSane, HandlersSane, PlainTyped, HandlersSane',
         [OverlayNext]_overlayVars
  PROVE  AddressInv'
<1>0. reachable' = reachable
  BY DEF OverlayNext, overlayVars, HandlerStep, UpdateStep, Register, Unregister, FailHandshake,
         RunAlarm, Connect, Track, EndUpdate, Break, Restart
<1>1. ASSUME NEW n \in Nodes, NEW p \in Nodes, handlers[n][p] # NoConn,
             handlers'[n][p] = handlers[n][p]
      PROVE  /\ RemoteAddress(handlers[n][p], n)' = RemoteAddress(handlers[n][p], n)
             /\ RemoteAddress(handlers[n][p], n) \in remoteAddresses[n]
             /\ RemoteAddress(handlers[n][p], n).host = p
  <2>1. PICK d \in Conns : d = handlers[n][p] /\ d = handlers'[n][p]
    BY <1>1 DEF HandlersSane
  <2>2. Used(d) /\ n \in Ends(d) /\ Peer(d, n) = p
    BY <1>1, <2>1 DEF HandlersSane
  <2>3. Used(d)'
    BY <1>1, <2>1 DEF HandlersSane, Used
  <2>4. RemoteAddress(d, n)' = RemoteAddress(d, n)
    BY <2>2, <2>3, FieldsKept DEF RemoteAddress
  <2>5. RemoteAddress(handlers[n][p], n)' = RemoteAddress(d, n)
    BY <2>1, <2>4 DEF RemoteAddress
  <2>6. RemoteAddress(d, n).host = p
    BY <2>2, EndsTyped DEF ConnsSane
  <2> QED
    BY <1>1, <2>1, <2>5, <2>6 DEF AddressInv
<1>2. ASSUME UNCHANGED <<handlers, remoteAddresses>>
      PROVE  AddressInv'
  BY <1>0, <1>1, <1>2 DEF AddressInv
<1>3. ASSUME NEW n \in Nodes, NEW c \in Conns, Register(n, c)
      PROVE  AddressInv'
  <2>1. Used(c) /\ n \in Ends(c)
    BY <1>3 DEF Register
  <2>2. Peer(c, n) \in Nodes /\ RemoteAddress(c, n).host = Peer(c, n)
    BY <2>1, EndsTyped DEF ConnsSane
  <2>3. remoteAddresses' = [remoteAddresses EXCEPT ![n] = @ \cup {RemoteAddress(c, n)}]
    BY <1>3 DEF Register
  <2>4. /\ \A m, p \in Nodes :
             handlers'[m][p] = IF m = n /\ p = Peer(c, n) /\ handlers[m][p] = NoConn THEN c
                               ELSE handlers[m][p]
        /\ handlers'[n][Peer(c, n)] # NoConn
    BY <1>3, <2>2, OverlayAssumption DEF Register, AddHandler, KeepHandler, HandlersSane
  <2>5. ASSUME NEW m \in Nodes, NEW p \in Nodes, handlers'[m][p] # NoConn
        PROVE  RemoteAddress(handlers[m][p], m)' \in remoteAddresses'[m]
    <3>1. CASE handlers[m][p] # NoConn
      BY <1>1, <2>3, <2>4, <2>5, <3>1 DEF PlainTyped
    <3>2. CASE handlers[m][p] = NoConn
      <4>1. m = n /\ p = Peer(c, n) /\ handlers'[m][p] = c
        BY <2>4, <2>5, <3>2
      <4>2. Used(c)'
        BY <2>5, <4>1 DEF HandlersSane, Used
      <4>3. RemoteAddress(c, n)' = RemoteAddress(c, n)
        BY <2>1, <4>2, FieldsKept DEF RemoteAddress
      <4>4. RemoteAddress(handlers[m][p], m)' = RemoteAddress(c, n)
        BY <4>1, <4>3 DEF RemoteAddress
      <4> QED
        BY <2>3, <4>1, <4>4 DEF PlainTyped
    <3> QED
      BY <3>1, <3>2
  <2>6. ASSUME NEW m \in Nodes, m \notin reachable, NEW a \in remoteAddresses'[m]
        PROVE  a.port = "listen" /\ handlers'[m][a.host] # NoConn
    <3>1. CASE a \in remoteAddresses[m]
      <4>1. a.port = "listen" /\ handlers[m][a.host] # NoConn /\ a.host \in Nodes
        BY <2>6, <3>1 DEF AddressInv, PlainTyped, Address
      <4> QED
        BY <2>4, <4>1
    <3>2. CASE m = n /\ a = RemoteAddress(c, n)
      BY <2>1, <2>2, <2>4, <2>6, <3>2, OpenerAddress
    <3> QED
      BY <2>3, <2>6, <3>1, <3>2 DEF PlainTyped
  <2> QED
    BY <1>0, <2>5, <2>6 DEF AddressInv
<1>4. ASSUME NEW n \in Nodes, NEW c \in Conns, Unregister(n, c)
      PROVE  AddressInv'
  <2>1. Used(c) /\ n \in Ends(c)
    BY <1>4 DEF Unregister
  <2>2. Peer(c, n) \in Nodes /\ RemoteAddress(c, n).host = Peer(c, n)
    BY <2>1, EndsTyped DEF ConnsSane
  <2>3. remoteAddresses' = [remoteAddresses EXCEPT ![n] = @ \ {RemoteAddress(c, n)}]
    BY <1>4 DEF Unregister
  <2>4. \A m, p \in Nodes :
          handlers'[m][p] = IF m = n /\ p = Peer(c, n) THEN NoConn ELSE handlers[m][p]
    BY <1>4, <2>2 DEF Unregister, HandlersSane
  <2>5. ASSUME NEW m \in Nodes, NEW p \in Nodes, handlers'[m][p] # NoConn
        PROVE  RemoteAddress(handlers[m][p], m)' \in remoteAddresses'[m]
    <3>1. handlers[m][p] # NoConn /\ handlers'[m][p] = handlers[m][p]
      BY <2>4, <2>5
    <3>2. m = n => p # Peer(c, n)
      BY <2>4, <2>5
    <3> QED
      BY <1>1, <2>2, <2>3, <3>1, <3>2 DEF PlainTyped
  <2>6. ASSUME NEW m \in Nodes, m \notin reachable, NEW a \in remoteAddresses'[m]
        PROVE  a.port = "listen" /\ handlers'[m][a.host] # NoConn
    <3>1. a \in remoteAddresses[m] /\ (m = n => a # RemoteAddress(c, n))
      BY <2>3, <2>6 DEF PlainTyped
    <3>2. a \in Address /\ a.port = "listen" /\ handlers[m][a.host] # NoConn
      BY <2>6, <3>1 DEF AddressInv, PlainTyped
    <3>3. a = [host |-> a.host, port |-> "listen"] /\ a.host \in Nodes
      BY <3>2 DEF Address
    <3>4. m = n => a.host # Peer(c, n)
      BY <2>1, <2>6, <3>1, <3>3, OpenerAddress
    <3> QED
      BY <2>4, <3>2, <3>3, <3>4
  <2> QED
    BY <1>0, <2>5, <2>6 DEF AddressInv
<1>5. ASSUME NEW n \in Nodes, Restart(n)
      PROVE  AddressInv'
  <2>1. remoteAddresses' = [remoteAddresses EXCEPT ![n] = {}]
    BY <1>5 DEF Restart
  <2>2. \A m, p \in Nodes : handlers'[m][p] = IF m = n THEN NoConn ELSE handlers[m][p]
    BY <1>5 DEF Restart, HandlersSane
  <2>3. ASSUME NEW m \in Nodes, NEW p \in Nodes, handlers'[m][p] # NoConn
        PROVE  RemoteAddress(handlers[m][p], m)' \in remoteAddresses'[m]
    BY <1>1, <2>1, <2>2, <2>3 DEF PlainTyped
  <2>4. ASSUME NEW m \in Nodes, m \notin reachable, NEW a \in remoteAddresses'[m]
        PROVE  a.port = "listen" /\ handlers'[m][a.host] # NoConn
    <3>1. m # n /\ a \in remoteAddresses[m]
      BY <2>1, <2>4 DEF PlainTyped
    <3>2. a.port = "listen" /\ handlers[m][a.host] # NoConn /\ a.host \in Nodes
      BY <2>4, <3>1 DEF AddressInv, PlainTyped, Address
    <3> QED
      BY <2>2, <3>1, <3>2
  <2> QED
    BY <1>0, <2>3, <2>4 DEF AddressInv
<1> QED
  BY <1>2, <1>3, <1>4, <1>5
  DEF OverlayNext, overlayVars, HandlerStep, UpdateStep, FailHandshake, RunAlarm, Connect, Track,
      EndUpdate, Break

\* This is what AddressesAreLive says.
LEMMA LiveAddresses ==
  ASSUME AddressInv, ConnsSane, HandlersSane, PlainTyped
  PROVE  AddressesAreLive
<1> SUFFICES ASSUME NEW n \in Nodes
             PROVE  LET live == {RemoteAddress(handlers[n][p], n) : p \in Connected(n)}
                    IN  /\ live \subseteq remoteAddresses[n]
                        /\ n \notin reachable => remoteAddresses[n] = live
  BY DEF AddressesAreLive
<1> DEFINE live == {RemoteAddress(handlers[n][p], n) : p \in Connected(n)}
<1>1. live \subseteq remoteAddresses[n]
  BY DEF AddressInv, Connected
<1>2. ASSUME n \notin reachable, NEW a \in remoteAddresses[n]
      PROVE  a \in live
  <2>1. a \in Address /\ a.port = "listen" /\ handlers[n][a.host] # NoConn
    BY <1>2 DEF AddressInv, PlainTyped
  <2>2. a = [host |-> a.host, port |-> "listen"] /\ a.host \in Nodes
    BY <2>1 DEF Address
  <2>3. a.host \in Connected(n)
    BY <2>1, <2>2 DEF Connected
  <2>4. RemoteAddress(handlers[n][a.host], n) = a
    <3>1. PICK c \in Conns : c = handlers[n][a.host]
      BY <2>1, <2>2 DEF HandlersSane
    <3>2. Used(c) /\ n \in Ends(c) /\ Peer(c, n) = a.host
      BY <2>1, <2>2, <3>1 DEF HandlersSane
    <3>3. RemoteAddress(c, n) = a
      BY <1>2, <2>2, <3>2, OpenerAddress
    <3> QED
      BY <3>1, <3>3
  <2> QED
    BY <2>3, <2>4
<1> QED
  BY <1>1, <1>2

-----------------------------------------------------------------------------

OverlayInv ==
  OverlayTypeOK /\ KeepsTrying /\ ConnsSane /\ HandlersSane /\ PeersSane /\ AddressInv

LEMMA TypeParts ==
  OverlayTypeOK <=>
    /\ PlainTyped /\ UpdatesTyped /\ ConnsTyped
    /\ handlers \in [Nodes -> [Nodes -> Conns \cup {NoConn}]]
BY DEF OverlayTypeOK, PlainTyped, UpdatesTyped, ConnsTyped

\* A node starts with its alarm set and without connections.
LEMMA OverlayInvInit == OverlayInit => OverlayInv
<1> SUFFICES ASSUME OverlayInit PROVE OverlayInv
  OBVIOUS
<1> USE DEF OverlayInit
<1>1. PlainTyped
  BY OverlayAssumption DEF PlainTyped
<1>2. UpdatesTyped /\ KeepsTrying
  BY DEF UpdatesTyped, KeepsTrying, Updates, NoUpdate
<1>3. ConnsTyped /\ \A c \in Conns : ~Used(c)
  BY DEF ConnsTyped, Used
<1>4. /\ handlers \in [Nodes -> [Nodes -> Conns \cup {NoConn}]]
      /\ \A n, p \in Nodes : handlers[n][p] = NoConn
  OBVIOUS
<1>5. ConnsSane /\ HandlersSane
  BY <1>3, <1>4 DEF ConnsSane, HandlersSane
<1>6. PeersSane
  BY DEF PeersSane, NoUpdate
<1>7. AddressInv
  BY <1>4 DEF AddressInv
<1> QED
  BY <1>1, <1>2, <1>3, <1>4, <1>5, <1>6, <1>7, TypeParts DEF OverlayInv

\* Every step keeps the invariant.
LEMMA OverlayInvKept == OverlayInv /\ [OverlayNext]_overlayVars => OverlayInv'
<1> SUFFICES ASSUME OverlayInv, [OverlayNext]_overlayVars PROVE OverlayInv'
  OBVIOUS
<1>1. /\ PlainTyped /\ UpdatesTyped /\ KeepsTrying /\ ConnsSane /\ HandlersSane /\ PeersSane
      /\ AddressInv
  BY TypeParts DEF OverlayInv
<1>2. PlainTyped'
  BY <1>1, PlainKept
<1>3. UpdatesTyped' /\ KeepsTrying'
  BY <1>1, UpdatesKept DEF PlainTyped
<1>4. ConnsSane' /\ HandlersSane'
  BY <1>1, LinksKept DEF PeersSane
<1>5. PeersSane'
  BY <1>1, PeersKept DEF PlainTyped, UpdatesTyped
<1>6. AddressInv'
  BY <1>1, <1>4, AddressKept
<1>7. OverlayTypeOK'
  BY <1>2, <1>3, <1>4
  DEF OverlayTypeOK, PlainTyped, UpdatesTyped, ConnsSane, ConnsTyped, HandlersSane
<1> QED
  BY <1>2, <1>3, <1>4, <1>5, <1>6, <1>7 DEF OverlayInv

\* OverlayTypeOK: the connections, the handlers and the tasks of update keep
\* their types (overlay.cpp:201-282, :737-810, :924-989).
THEOREM OverlayTyped == OverlaySpec => []OverlayTypeOK
<1>1. OverlayInv => OverlayTypeOK
  BY DEF OverlayInv
<1> QED
  BY <1>1, OverlayInvInit, OverlayInvKept, PTL DEF OverlaySpec

\* KeepsTrying: no node that runs is ever left without its alarm and without a
\* task of update, which would be the end of its search (overlay.cpp:806, :975-985).
THEOREM NeverStopsTrying == OverlaySpec => []KeepsTrying
<1>1. OverlayInv => KeepsTrying
  BY DEF OverlayInv
<1> QED
  BY <1>1, OverlayInvInit, OverlayInvKept, PTL DEF OverlaySpec

\* AddressesAreLive: mRemoteAddresses follows mHandlers, also when a handshake
\* ends at a node that has a handler for the peer, so that a node that only opens
\* connections can open one again when it has lost one (overlay.cpp:755-759, :799).
THEOREM AddressesFollowHandlers == OverlaySpec => []AddressesAreLive
<1>1. OverlayInv => AddressesAreLive
  BY LiveAddresses, TypeParts DEF OverlayInv
<1> QED
  BY <1>1, OverlayInvInit, OverlayInvKept, PTL DEF OverlaySpec

-----------------------------------------------------------------------------
(* A stream through HTTP requests.                                         *)

LEMMA HttpBounds ==
  /\ DefaultPostSize \in Nat /\ MaxPostSize \in Nat /\ MaxDownloadSize \in Nat
  /\ MaxRecord \in Nat /\ MaxWritten \in Nat
  /\ 8 <= DefaultPostSize /\ DefaultPostSize <= MaxPostSize
  /\ MaxDownloadSize > 1 /\ MaxRecord > 0
BY HttpTunnelAssumption

Posts == [size : Nat, sent : Nat, data : Nat]
Finished == {"whole", "incoming", "answered"}

\* What a request carries that the server has not read.
OnTheWayUp == IF postState = "answered" THEN 0 ELSE post.data

\* A body that is open has exactly the bytes left that it lacks, two at least:
\* the last one is for TunnelDisconnect.  One that is finished lacks none.
UpInv ==
  /\ mPostSize \in DefaultPostSize .. MaxPostSize + 1
  /\ mPostLeft \in Nat /\ post \in Posts
  /\ postState \in {"none", "open"} \cup Finished
  /\ post.size <= MaxPostSize + 1 /\ post.sent <= post.size /\ post.data <= post.sent
  /\ postState = "open" =>
       mPostLeft >= 2 /\ post.size = post.sent + mPostLeft /\ post.size = mPostSize
  /\ postState # "open" => mPostLeft = 0
  /\ postState = "none" => post = NoPost
  /\ postState \in Finished => post.sent = post.size
  /\ upTodo \in Nat /\ upRead \in Nat /\ upWritten \in 0 .. MaxWritten
  /\ upFlusher \in BOOLEAN

\* What is written is left to write, on its way, or read: nothing is lost and
\* nothing comes twice.
UpKept == upWritten = upRead + upTodo + OnTheWayUp

\* The connection that the server writes to is the one the client reads from,
\* and its response takes no more than it announced.
DownInv ==
  /\ mDownloadLeft \in 0 .. MaxDownloadSize
  /\ serverDown \in {"none", "open", "closed"}
  /\ entryDown \in BOOLEAN /\ clientDown \in BOOLEAN /\ downFlusher \in BOOLEAN
  /\ response \in [data : Nat, ended : BOOLEAN] /\ response.data <= MaxDownloadSize
  /\ serverDown = "open" =>
       /\ clientDown /\ ~entryDown /\ response.ended = FALSE
       /\ response.data + mDownloadLeft <= MaxDownloadSize
  /\ entryDown => clientDown /\ response = NewResponse
  /\ ~clientDown => response.data = 0
  /\ downTodo \in Nat /\ downRead \in Nat /\ downWritten \in 0 .. MaxWritten

DownKept == downWritten = downRead + downTodo + response.data

HttpInv == UpInv /\ UpKept /\ DownInv /\ DownKept

LEMMA HttpInitOK == HttpInit => HttpInv
<1> SUFFICES ASSUME HttpInit PROVE HttpInv
  OBVIOUS
<1>1. UpInv /\ UpKept
  <2>1. post = [size |-> 0, sent |-> 0, data |-> 0] /\ postState = "none"
    BY DEF HttpInit, NoPost
  <2>2. post \in Posts /\ post.size = 0 /\ post.sent = 0 /\ post.data = 0
    BY <2>1 DEF Posts
  <2>3. /\ mPostSize = DefaultPostSize /\ mPostLeft = 0 /\ upTodo = 0 /\ upFlusher = FALSE
        /\ upWritten = 0 /\ upRead = 0 /\ post = NoPost
    BY DEF HttpInit
  <2>4. OnTheWayUp = 0
    BY <2>1, <2>2 DEF OnTheWayUp
  <2>5. UpInv
    <3>1. mPostSize \in DefaultPostSize .. MaxPostSize + 1 /\ upWritten \in 0 .. MaxWritten
      BY <2>3, HttpBounds
    <3>2. /\ post.size <= MaxPostSize + 1 /\ post.sent <= post.size /\ post.data <= post.sent
      BY <2>2, HttpBounds
    <3>3. /\ postState \in {"none", "open"} \cup Finished
          /\ postState # "open" /\ postState \notin Finished
      BY <2>1 DEF Finished
    <3> QED
      BY <2>2, <2>3, <3>1, <3>2, <3>3 DEF UpInv
  <2>6. UpKept
    BY <2>3, <2>4 DEF UpKept
  <2> QED
    BY <2>5, <2>6
<1>2. DownInv /\ DownKept
  <2>1. response = [data |-> 0, ended |-> FALSE]
    BY DEF HttpInit, NewResponse
  <2>2. response \in [data : Nat, ended : BOOLEAN] /\ response.data = 0
    BY <2>1
  <2>3. /\ mDownloadLeft = 0 /\ serverDown = "none" /\ ~entryDown /\ ~clientDown
        /\ entryDown \in BOOLEAN /\ clientDown \in BOOLEAN /\ downFlusher \in BOOLEAN
        /\ downTodo = 0 /\ downWritten = 0 /\ downRead = 0
    BY DEF HttpInit
  <2> QED
    BY <2>2, <2>3, HttpBounds DEF DownInv, DownKept
<1> QED
  BY <1>1, <1>2 DEF HttpInv

\* The next body is never shorter than the default, and never longer than one
\* more than the largest.
LEMMA PostSizeKept ==
  ASSUME mPostSize \in DefaultPostSize .. MaxPostSize + 1, NEW left \in 0 .. mPostSize,
         UpdatePostSize(left)
  PROVE  mPostSize' \in DefaultPostSize .. MaxPostSize + 1
BY HttpBounds DEF UpdatePostSize, Most, Smaller

\* The body that a turn of the loop of writeData writes to, and its record.
LEMMA BodyAndLeft ==
  ASSUME UpInv, AtWork
  PROVE  /\ Body \in Posts /\ Left \in Nat /\ Left >= 2
         /\ Body.size = Body.sent + Left /\ Body.size = mPostSize
         /\ Body.data <= Body.sent /\ Body.data = post.data
<1>1. CASE postState = "open"
  <2>1. Started /\ Body = post /\ Left = mPostLeft
    BY <1>1 DEF Started, Body, Left, UpInv
  <2> QED
    BY <1>1, <2>1 DEF UpInv
<1>2. CASE postState = "none"
  <2>1. ~Started
    BY <1>2 DEF Started
  <2>2. Body = [size |-> mPostSize, sent |-> 3, data |-> 0] /\ Left = mPostSize - 3
    BY <2>1 DEF Body, Left
  <2>3. post = [size |-> 0, sent |-> 0, data |-> 0]
    BY <1>2 DEF UpInv, NoPost
  <2>4. mPostSize \in Nat /\ mPostSize >= 8
    BY HttpBounds DEF UpInv
  <2> QED
    BY <2>2, <2>3, <2>4 DEF Posts
<1> QED
  BY <1>1, <1>2 DEF AtWork

LEMMA RecordFits ==
  ASSUME UpInv, AtWork, upTodo > 0
  PROVE  /\ RecordLength \in Nat /\ RecordLength <= upTodo
         /\ RecordLength > 0 => RecordLength + 4 <= Left
BY BodyAndLeft, HttpBounds DEF RecordLength, Smaller, UpInv

\* The body takes a record, and padding.
LEMMA PostGrows ==
  ASSUME NEW body \in Posts, NEW more \in Nat, NEW r \in Nat
  PROVE  LET new == [body EXCEPT !.sent = @ + more, !.data = @ + r]
         IN  /\ new \in Posts /\ new.size = body.size
             /\ new.sent = body.sent + more /\ new.data = body.data + r
<1> DEFINE new == [body EXCEPT !.sent = @ + more, !.data = @ + r]
<1>1. body.sent + more \in Nat /\ body.data + r \in Nat
  BY DEF Posts
<1>2. new \in Posts
  BY <1>1 DEF Posts
<1>3. new.size = body.size /\ new.sent = body.sent + more /\ new.data = body.data + r
  BY DEF Posts
<1> QED
  BY <1>2, <1>3

LEMMA WriteRecordKeeps ==
  ASSUME UpInv, UpKept, WriteRecord
  PROVE  UpInv' /\ UpKept'
<1> DEFINE r == RecordLength
           left == Left
           body == Body
           b == IF r > 0 THEN r + 3 ELSE left - 1
<1>1. /\ AtWork /\ upTodo > 0 /\ upTodo' = upTodo - r
      /\ upFlusher' = (upTodo' = 0) /\ upWritten' = upWritten /\ upRead' = upRead
  BY DEF WriteRecord, downVars
<1>2. IF left - b = 1
      THEN /\ post' = [body EXCEPT !.sent = @ + b + 1, !.data = @ + r]
           /\ postState' = "whole" /\ mPostLeft' = 0
           /\ UpdatePostSize(0)
      ELSE /\ post' = [body EXCEPT !.sent = @ + b, !.data = @ + r]
           /\ postState' = "open" /\ mPostLeft' = left - b
           /\ UNCHANGED mPostSize
  BY DEF WriteRecord
<1>3. /\ body \in Posts /\ left \in Nat /\ left >= 2
      /\ body.size = body.sent + left /\ body.size = mPostSize
      /\ body.data <= body.sent /\ body.data = post.data
  BY <1>1, BodyAndLeft
<1>4. r \in Nat /\ r <= upTodo /\ (r > 0 => r + 4 <= left)
  BY <1>1, RecordFits
<1> HIDE DEF r, left, body
<1>5. b \in Nat /\ b + 1 <= left /\ r <= b
  BY <1>3, <1>4
<1>6. /\ body.size \in Nat /\ body.sent \in Nat /\ body.data \in Nat
      /\ mPostSize \in DefaultPostSize .. MaxPostSize + 1 /\ mPostSize <= MaxPostSize + 1
      /\ upTodo \in Nat /\ upRead \in Nat /\ upWritten \in 0 .. MaxWritten
  BY <1>3, HttpBounds DEF Posts, UpInv
<1>7. upWritten = upRead + upTodo + body.data
  BY <1>1, <1>3 DEF UpKept, OnTheWayUp, AtWork
<1>8. upTodo - r \in Nat /\ upWritten = upRead + (upTodo - r) + (body.data + r)
  BY <1>4, <1>6, <1>7
<1>9. CASE left - b = 1
  <2>1. /\ post' = [body EXCEPT !.sent = @ + (b + 1), !.data = @ + r]
        /\ postState' = "whole" /\ mPostLeft' = 0 /\ UpdatePostSize(0)
    <3>1. body.sent + b + 1 = body.sent + (b + 1)
      BY <1>5, <1>6
    <3> QED
      BY <1>2, <1>9, <3>1
  <2> HIDE DEF b
  <2>2. /\ post' \in Posts /\ post'.size = body.size
        /\ post'.sent = body.sent + (b + 1) /\ post'.data = body.data + r
    <3>1. b + 1 \in Nat
      BY <1>5
    <3> QED
      BY <1>3, <1>4, <2>1, <3>1, PostGrows, ZenonT(40)
  <2>3. post'.sent = body.size /\ post'.data <= body.size
    BY <1>3, <1>4, <1>5, <1>6, <1>9, <2>2
  <2>4. mPostSize' \in DefaultPostSize .. MaxPostSize + 1
    BY <1>6, <2>1, PostSizeKept, HttpBounds
  <2>5. UpKept'
    BY <1>1, <1>8, <2>1, <2>2 DEF UpKept, OnTheWayUp
  <2> QED
    BY <1>1, <1>3, <1>6, <1>8, <2>1, <2>2, <2>3, <2>4, <2>5 DEF UpInv, Finished
<1>10. CASE left - b # 1
  <2>1. /\ post' = [body EXCEPT !.sent = @ + b, !.data = @ + r]
        /\ postState' = "open" /\ mPostLeft' = left - b /\ mPostSize' = mPostSize
    BY <1>2, <1>10
  <2> HIDE DEF b
  <2>2. /\ post' \in Posts /\ post'.size = body.size
        /\ post'.sent = body.sent + b /\ post'.data = body.data + r
    BY <1>3, <1>4, <1>5, <2>1, PostGrows
  <2>3. /\ left - b \in Nat /\ left - b >= 2 /\ body.size = body.sent + b + (left - b)
        /\ body.sent + b <= body.size /\ body.data + r <= body.sent + b
    BY <1>3, <1>4, <1>5, <1>6, <1>10
  <2>4. UpKept'
    BY <1>1, <1>8, <2>1, <2>2 DEF UpKept, OnTheWayUp
  <2> QED
    BY <1>1, <1>3, <1>6, <1>8, <2>1, <2>2, <2>3, <2>4 DEF UpInv, Finished
<1> QED
  BY <1>9, <1>10

LEMMA FlushKeeps ==
  ASSUME UpInv, UpKept, Flush
  PROVE  UpInv' /\ UpKept'
<1>1. /\ AtWork /\ upFlusher' = FALSE
      /\ UNCHANGED <<upTodo, upWritten, upRead>>
  BY DEF Flush
<1>2. CASE Started
  <2>1. /\ postState = "open" /\ UpdatePostSize(mPostLeft)
        /\ post' = Pad /\ postState' = "whole" /\ mPostLeft' = 0
    BY <1>2 DEF Flush, Started
  <2>2. /\ mPostLeft \in Nat /\ mPostLeft >= 2 /\ post \in Posts
        /\ post.size = post.sent + mPostLeft /\ post.size = mPostSize
        /\ post.data <= post.sent /\ post.size <= MaxPostSize + 1
        /\ post.size \in Nat /\ post.sent \in Nat /\ post.data \in Nat
    BY <2>1 DEF UpInv, Posts
  <2>3. post' = [post EXCEPT !.sent = @ + mPostLeft]
    <3>1. post.sent + (mPostLeft - 1) + 1 = post.sent + mPostLeft
      BY <2>2
    <3> QED
      BY <2>1, <3>1 DEF Pad
  <2>4. /\ post' \in Posts /\ post'.size = post.size /\ post'.sent = post.sent + mPostLeft
        /\ post'.data = post.data
    BY <2>2, <2>3 DEF Posts
  <2>5. mPostSize' \in DefaultPostSize .. MaxPostSize + 1
    <3>1. mPostLeft \in 0 .. mPostSize
      BY <2>2
    <3> QED
      BY <2>1, <3>1, PostSizeKept DEF UpInv
  <2>6. UpKept'
    BY <1>1, <2>1, <2>4 DEF UpKept, OnTheWayUp
  <2>7. post.data <= post.sent + mPostLeft /\ post.sent + mPostLeft = post.size
    BY <2>2
  <2>8. /\ postState' \in Finished /\ postState' # "open" /\ postState' # "none"
        /\ postState' \in {"none", "open"} \cup Finished
    BY <2>1 DEF Finished
  <2>9. /\ post'.size <= MaxPostSize + 1 /\ post'.sent = post'.size /\ post'.sent <= post'.size
        /\ post'.data <= post'.sent
    BY <2>2, <2>4, <2>7
  <2>10. UpInv'
    BY <1>1, <2>1, <2>4, <2>5, <2>8, <2>9 DEF UpInv
  <2> QED
    BY <2>6, <2>10
<1>3. CASE ~Started
  <2>1. UNCHANGED <<mPostSize, post, postState, mPostLeft>>
    BY <1>3 DEF Flush
  <2> QED
    BY <1>1, <2>1 DEF UpInv, UpKept, OnTheWayUp
<1> QED
  BY <1>2, <1>3

\* The other steps of the way up.
LEMMA UpStepsKeep ==
  ASSUME UpInv, UpKept,
         \/ \E size \in 1 .. MaxWritten : Write(size)
         \/ RecvResponse \/ IncomingPost \/ ServerRead
  PROVE  UpInv' /\ UpKept'
<1>1. ASSUME NEW size \in 1 .. MaxWritten, Write(size)
      PROVE  UpInv' /\ UpKept'
  <2>1. /\ AtWork /\ upTodo = 0 /\ upTodo' = size /\ upWritten' = upWritten + size
        /\ upWritten + size <= MaxWritten /\ upFlusher' = FALSE
        /\ UNCHANGED <<mPostSize, mPostLeft, post, postState, upRead>>
    BY <1>1 DEF Write
  <2>2. upWritten + size \in 0 .. MaxWritten /\ size \in Nat
    BY <2>1, HttpBounds DEF UpInv
  <2>3. UpInv'
    BY <2>1, <2>2 DEF UpInv
  <2>4. OnTheWayUp' = OnTheWayUp /\ OnTheWayUp \in Nat
    BY <2>1 DEF OnTheWayUp, UpInv, Posts
  <2>5. upWritten + size = upRead + size + OnTheWayUp
    BY <2>1, <2>2, <2>4, HttpBounds DEF UpInv, UpKept
  <2> QED
    BY <2>1, <2>3, <2>4, <2>5 DEF UpKept
<1>2. CASE RecvResponse
  <2>1. /\ postState = "answered" /\ postState' = "none" /\ post' = NoPost
        /\ UNCHANGED <<mPostSize, mPostLeft, upTodo, upFlusher, upWritten, upRead>>
    BY <1>2 DEF RecvResponse
  <2>2. post' \in Posts /\ post'.size = 0 /\ post'.sent = 0 /\ post'.data = 0
    BY <2>1 DEF NoPost, Posts
  <2> QED
    BY <2>1, <2>2, HttpBounds DEF UpInv, UpKept, OnTheWayUp, Finished
<1>3. CASE IncomingPost
  <2>1. /\ postState = "whole" /\ postState' = "incoming"
        /\ UNCHANGED <<mPostSize, mPostLeft, post, upTodo, upFlusher, upWritten, upRead>>
    BY <1>3 DEF IncomingPost
  <2> QED
    BY <2>1 DEF UpInv, UpKept, OnTheWayUp, Finished
<1>4. CASE ServerRead
  <2>1. /\ postState = "incoming" /\ postState' = "answered" /\ upRead' = upRead + post.data
        /\ UNCHANGED <<mPostSize, mPostLeft, post, upTodo, upFlusher, upWritten>>
    BY <1>4 DEF ServerRead
  <2>2. upRead \in Nat /\ upTodo \in Nat /\ post.data \in Nat
    BY DEF UpInv, Posts
  <2>3. upWritten = (upRead + post.data) + upTodo + 0 /\ upRead + post.data \in Nat
    BY <2>1, <2>2 DEF UpKept, OnTheWayUp
  <2> QED
    BY <2>1, <2>3 DEF UpInv, UpKept, OnTheWayUp, Finished
<1> QED
  BY <1>1, <1>2, <1>3, <1>4

\* The steps of the way down: a request and what the client reads, ...
LEMMA ClientDownKeeps ==
  ASSUME DownInv, DownKept, Get \/ ClientRead \/ ClientReadEnd
  PROVE  DownInv' /\ DownKept'
<1> DEFINE Responses == [data : Nat, ended : BOOLEAN]
<1>0. /\ response \in Responses /\ response.data \in Nat /\ downRead \in Nat /\ downTodo \in Nat
      /\ downWritten = downRead + downTodo + response.data
  BY DEF DownInv, DownKept
<1>1. CASE Get
  <2>1. /\ ~clientDown /\ ~entryDown /\ clientDown' = TRUE /\ entryDown' = TRUE
        /\ response' = NewResponse
        /\ UNCHANGED <<mDownloadLeft, serverDown, downTodo, downFlusher, downWritten, downRead>>
    BY <1>1 DEF Get
  <2>2. response' \in Responses /\ response'.data = 0
    BY <2>1 DEF NewResponse
  <2>3. serverDown # "open" /\ response.data = 0
    BY <2>1 DEF DownInv
  <2>4. DownKept'
    BY <1>0, <2>1, <2>2, <2>3 DEF DownKept
  <2>5. DownInv'
    BY <2>1, <2>2, <2>3, HttpBounds DEF DownInv
  <2> QED
    BY <2>4, <2>5
<1>2. CASE ClientRead
  <2>1. /\ clientDown /\ response.data > 0 /\ downRead' = downRead + response.data
        /\ response' = [response EXCEPT !.data = 0]
        /\ UNCHANGED <<mDownloadLeft, serverDown, entryDown, clientDown, downTodo, downFlusher,
                       downWritten>>
    BY <1>2 DEF ClientRead
  <2>2. /\ response' \in Responses /\ response'.data = 0 /\ response'.ended = response.ended
    BY <1>0, <2>1
  <2>3. ~entryDown
    <3>1. NewResponse.data = 0
      BY DEF NewResponse
    <3> QED
      BY <1>0, <2>1, <3>1 DEF DownInv
  <2>4. downWritten = (downRead + response.data) + downTodo + 0
        /\ downRead + response.data \in Nat
    BY <1>0
  <2>5. DownKept'
    BY <2>1, <2>2, <2>4 DEF DownKept
  <2>6. /\ serverDown = "open" =>
             clientDown /\ response.ended = FALSE /\ 0 + mDownloadLeft <= MaxDownloadSize
        /\ 0 <= MaxDownloadSize
    BY <1>0, HttpBounds DEF DownInv
  <2>7. DownInv'
    BY <2>1, <2>2, <2>3, <2>4, <2>6 DEF DownInv
  <2> QED
    BY <2>5, <2>7
<1>3. CASE ClientReadEnd
  <2>1. /\ clientDown /\ response = [data |-> 0, ended |-> TRUE] /\ clientDown' = FALSE
        /\ UNCHANGED <<mDownloadLeft, serverDown, entryDown, response, downTodo, downFlusher,
                       downWritten, downRead>>
    BY <1>3 DEF ClientReadEnd
  <2>2. response.data = 0 /\ response.ended = TRUE /\ response # NewResponse
    BY <2>1 DEF NewResponse
  <2>3. serverDown # "open" /\ ~entryDown
    BY <2>2 DEF DownInv
  <2> QED
    BY <2>1, <2>2, <2>3 DEF DownInv, DownKept
<1> QED
  BY <1>1, <1>2, <1>3

\* ... and what the server writes.
LEMMA ServerDownKeeps ==
  ASSUME DownInv, DownKept,
         \/ \E size \in 1 .. MaxWritten : ServerWrite(size)
         \/ ServerStep \/ ServerFlush
  PROVE  DownInv' /\ DownKept'
<1> DEFINE Responses == [data : Nat, ended : BOOLEAN]
<1>0. /\ response \in Responses /\ response.data \in Nat /\ downRead \in Nat /\ downTodo \in Nat
      /\ downWritten \in 0 .. MaxWritten /\ mDownloadLeft \in 0 .. MaxDownloadSize
      /\ mDownloadLeft \in Nat /\ downWritten \in Nat
      /\ downWritten = downRead + downTodo + response.data
  BY HttpBounds DEF DownInv, DownKept
<1>1. ASSUME NEW size \in 1 .. MaxWritten, ServerWrite(size)
      PROVE  DownInv' /\ DownKept'
  <2>1. /\ downTodo = 0 /\ downWritten + size <= MaxWritten
        /\ downTodo' = size /\ downWritten' = downWritten + size /\ downFlusher' = FALSE
        /\ UNCHANGED <<mDownloadLeft, serverDown, entryDown, clientDown, response, downRead>>
    BY <1>1 DEF ServerWrite
  <2>2. /\ size \in Nat /\ downWritten + size \in 0 .. MaxWritten
        /\ downWritten + size = downRead + size + response.data
    BY <1>0, <2>1, HttpBounds
  <2> QED
    BY <2>1, <2>2 DEF DownInv, DownKept
<1>2. CASE ReplaceDown
  <2>1. /\ serverDown \in {"open", "closed"} /\ serverDown' = "none"
        /\ response' = IF serverDown = "open" THEN [response EXCEPT !.ended = TRUE] ELSE response
        /\ UNCHANGED <<mDownloadLeft, entryDown, clientDown, downTodo, downFlusher, downWritten,
                       downRead>>
    BY <1>2 DEF ReplaceDown, DownInv
  <2>2. /\ response' \in Responses /\ response'.data = response.data
        /\ entryDown => response' = response
    BY <1>0, <2>1 DEF DownInv
  <2>3. DownKept'
    BY <1>0, <2>1, <2>2 DEF DownKept
  <2>4. DownInv'
    BY <2>1, <2>2 DEF DownInv
  <2> QED
    BY <2>3, <2>4
<1>3. CASE WaitServerDown
  <2>1. /\ serverDown = "none" /\ entryDown /\ serverDown' = "open" /\ entryDown' = FALSE
        /\ mDownloadLeft' = MaxDownloadSize
        /\ UNCHANGED <<clientDown, response, downTodo, downFlusher, downWritten, downRead>>
    BY <1>3 DEF WaitServerDown
  <2>2. clientDown /\ response = NewResponse
    BY <2>1 DEF DownInv
  <2>3. response.data = 0 /\ response.ended = FALSE
    BY <2>2 DEF NewResponse
  <2>4. 0 + MaxDownloadSize <= MaxDownloadSize /\ MaxDownloadSize \in 0 .. MaxDownloadSize
    BY HttpBounds
  <2>5. DownInv'
    BY <2>1, <2>2, <2>3, <2>4 DEF DownInv
  <2> QED
    BY <2>1, <2>5 DEF DownKept
<1>4. CASE WriteDown
  <2> DEFINE size == Smaller(downTodo, mDownloadLeft)
  <2>1. /\ downTodo > 0 /\ serverDown = "open" /\ mDownloadLeft > 0
        /\ downTodo' = downTodo - size /\ mDownloadLeft' = mDownloadLeft - size
        /\ serverDown' = IF size < downTodo THEN "closed" ELSE "open"
        /\ response' = [data |-> response.data + size, ended |-> size < downTodo]
        /\ downFlusher' = (downTodo' = 0)
        /\ UNCHANGED <<entryDown, clientDown, downWritten, downRead>>
    BY <1>4 DEF WriteDown
  <2>2. size \in Nat /\ size <= downTodo /\ size <= mDownloadLeft
    BY <1>0 DEF Smaller
  <2> HIDE DEF size
  <2>3. /\ downTodo - size \in Nat /\ mDownloadLeft - size \in 0 .. MaxDownloadSize
        /\ response.data + size \in Nat
        /\ downWritten = downRead + (downTodo - size) + (response.data + size)
        /\ (response.data + size) + (mDownloadLeft - size) = response.data + mDownloadLeft
    BY <1>0, <2>2, HttpBounds
  <2>4. /\ clientDown /\ ~entryDown /\ response.data + mDownloadLeft <= MaxDownloadSize
        /\ response.data + size <= MaxDownloadSize
    BY <1>0, <2>1, <2>2, HttpBounds DEF DownInv
  <2>5. /\ response' \in Responses /\ response'.data = response.data + size
        /\ response'.ended = (size < downTodo)
    BY <2>1, <2>3
  <2>6. serverDown' = "open" => response'.ended = FALSE
    BY <1>0, <2>1, <2>2, <2>5
  <2>7. DownKept'
    BY <2>1, <2>3, <2>5 DEF DownKept
  <2>8. serverDown' \in {"none", "open", "closed"} /\ downFlusher' \in BOOLEAN
    BY <2>1
  <2>9. response'.data + mDownloadLeft' <= MaxDownloadSize
    BY <2>1, <2>3, <2>4, <2>5
  <2>10. DownInv'
    BY <1>0, <2>1, <2>3, <2>4, <2>5, <2>6, <2>8, <2>9 DEF DownInv
  <2> QED
    BY <2>7, <2>10
<1>5. CASE ServerFlush
  <2>1. /\ downFlusher' = FALSE /\ mDownloadLeft' = 0
        /\ UNCHANGED <<entryDown, clientDown, downTodo, downWritten, downRead>>
    BY <1>5 DEF ServerFlush
  <2>2. /\ serverDown' # "open" /\ serverDown' \in {"none", "open", "closed"}
        /\ response' \in Responses /\ response'.data = response.data
        /\ entryDown => response' = response
    <3>1. CASE serverDown = "open"
      <4>1. serverDown' = "closed" /\ response' = [response EXCEPT !.ended = TRUE] /\ ~entryDown
        BY <1>5, <3>1 DEF ServerFlush, DownInv
      <4> QED
        BY <1>0, <4>1
    <3>2. CASE serverDown # "open"
      BY <1>0, <1>5, <3>2 DEF ServerFlush, DownInv
    <3> QED
      BY <3>1, <3>2
  <2>3. DownKept'
    BY <1>0, <2>1, <2>2 DEF DownKept
  <2>4. 0 \in 0 .. MaxDownloadSize
    BY HttpBounds
  <2>5. DownInv'
    BY <2>1, <2>2, <2>4 DEF DownInv
  <2> QED
    BY <2>3, <2>5
<1> QED
  BY <1>1, <1>2, <1>3, <1>4, <1>5 DEF ServerStep

\* Each step goes one way and leaves the other.
LEMMA HttpNextKeeps ==
  ASSUME HttpInv, [HttpNext]_httpVars
  PROVE  HttpInv'
<1>1. ASSUME UNCHANGED downVars
      PROVE  DownInv' /\ DownKept'
  BY <1>1 DEF downVars, HttpInv, DownInv, DownKept
<1>2. ASSUME UNCHANGED upVars
      PROVE  UpInv' /\ UpKept'
  BY <1>2 DEF upVars, HttpInv, UpInv, UpKept, OnTheWayUp
<1>3. CASE UNCHANGED httpVars
  BY <1>1, <1>2, <1>3 DEF httpVars, HttpInv
<1>4. CASE \/ \E size \in 1 .. MaxWritten : Write(size)
           \/ RecvResponse \/ IncomingPost \/ ServerRead
  <2>1. UNCHANGED downVars
    BY <1>4 DEF Write, RecvResponse, IncomingPost, ServerRead
  <2> QED
    BY <1>1, <1>4, <2>1, UpStepsKeep DEF HttpInv
<1>5. CASE WriteRecord \/ Flush
  <2>1. UNCHANGED downVars
    BY <1>5 DEF WriteRecord, Flush
  <2> QED
    BY <1>1, <1>5, <2>1, WriteRecordKeeps, FlushKeeps DEF HttpInv
<1>6. CASE Get \/ ClientRead \/ ClientReadEnd
  <2>1. UNCHANGED upVars
    BY <1>6 DEF Get, ClientRead, ClientReadEnd
  <2> QED
    BY <1>2, <1>6, <2>1, ClientDownKeeps DEF HttpInv
<1>7. CASE (\E size \in 1 .. MaxWritten : ServerWrite(size)) \/ ServerStep \/ ServerFlush
  <2>1. UNCHANGED upVars
    BY <1>7 DEF ServerWrite, ServerStep, ReplaceDown, WaitServerDown, WriteDown, ServerFlush
  <2> QED
    BY <1>2, <1>7, <2>1, ServerDownKeeps DEF HttpInv
<1> QED
  BY <1>3, <1>4, <1>5, <1>6, <1>7 DEF HttpNext, ClientStep

LEMMA HttpCorrect == HttpSpec => []HttpInv
BY HttpInitOK, HttpNextKeeps, PTL DEF HttpSpec

LEMMA HttpIsTyped == HttpInv => HttpTypeOK
<1> SUFFICES ASSUME HttpInv PROVE HttpTypeOK
  OBVIOUS
<1>1. UpInv /\ UpKept /\ DownInv /\ DownKept
  BY DEF HttpInv
<1>2. /\ mPostSize \in DefaultPostSize .. MaxPostSize + 1
      /\ mPostLeft \in 0 .. mPostSize
      /\ post.size \in 0 .. MaxPostSize + 1 /\ post.sent \in 0 .. post.size
      /\ post.data <= post.sent
      /\ postState \in {"none", "open", "whole", "incoming", "answered"}
  <2>1. post.size \in Nat /\ post.sent \in Nat /\ post.data \in Nat
    BY <1>1 DEF UpInv, Posts
  <2>2. mPostLeft \in 0 .. mPostSize
    BY <1>1, <2>1, HttpBounds DEF UpInv
  <2> QED
    BY <1>1, <2>1, <2>2, HttpBounds DEF UpInv, Finished
<1>3. upTodo \in 0 .. MaxWritten /\ upWritten \in 0 .. MaxWritten /\ upRead \in 0 .. MaxWritten
  <2>1. OnTheWayUp \in Nat
    BY <1>1 DEF UpInv, OnTheWayUp, Posts
  <2> QED
    BY <1>1, <2>1, HttpBounds DEF UpInv, UpKept
<1>4. /\ downTodo \in 0 .. MaxWritten /\ downWritten \in 0 .. MaxWritten
      /\ downRead \in 0 .. MaxWritten /\ response.data \in 0 .. MaxDownloadSize
      /\ response.ended \in BOOLEAN
  BY <1>1, HttpBounds DEF DownInv, DownKept
<1> QED
  BY <1>1, <1>2, <1>3, <1>4 DEF HttpTypeOK, UpInv, DownInv

\* HttpTypeOK, for bodies and records of any sizes: no body gets longer than its
\* Content-Length, and no response than it may (httptunnel.cpp:443-530).
THEOREM HttpTyped == HttpSpec => []HttpTypeOK
BY HttpIsTyped, HttpCorrect, PTL

\* Data is read as often as it was written, whatever sizes the bodies and
\* responses take and wherever they end: what the client wrote is left to write,
\* in the one request on its way, or read, and so is what the server wrote.
THEOREM NothingLostOrDoubled ==
  HttpSpec => [](/\ upWritten = upRead + upTodo + OnTheWayUp
                 /\ downWritten = downRead + downTodo + response.data)
<1>1. HttpInv => /\ upWritten = upRead + upTodo + OnTheWayUp
                 /\ downWritten = downRead + downTodo + response.data
  BY DEF HttpInv, UpKept, DownKept
<1> QED
  BY <1>1, HttpCorrect, PTL

\* A body is finished with its last byte and no other, so that a proxy that
\* waits for the whole of it passes it on (httptunnel.cpp:504-530).
BodyIsWhole == postState \in Finished => post.sent = post.size

THEOREM BodiesAreWhole == HttpSpec => []BodyIsWhole
<1>1. HttpInv => BodyIsWhole
  BY DEF HttpInv, UpInv, BodyIsWhole
<1> QED
  BY <1>1, HttpCorrect, PTL

-----------------------------------------------------------------------------
(* What is written gets on: the safety under Flushed.                      *)

\* Somebody will see to a body that is open, ...
UpTended == AtWork /\ upTodo = 0 /\ ~upFlusher => postState = "none"

\* ... and to a response that the client waits for.
DownTended == clientDown /\ ~entryDown /\ ~response.ended => serverDown = "open"

\* The conditions of the steps, other than writes, of the two ways.
UpCanGoOn ==
  \/ AtWork /\ (upTodo > 0 \/ upFlusher)
  \/ postState = "whole" /\ post.sent = post.size
  \/ postState \in {"incoming", "answered"}
DownCanGoOn ==
  \/ downTodo > 0 /\ (serverDown # "none" \/ entryDown)
  \/ downTodo = 0 /\ downFlusher
  \/ ~clientDown /\ ~entryDown
  \/ clientDown /\ (response.data > 0 \/ response.ended)

\* How many steps at most what was written takes to be read: a byte takes a
\* request of its own at worst, with its body, its answer and its flush.
BodyStage ==
  IF postState = "none" THEN 0 ELSE IF postState = "answered" THEN 1
  ELSE IF postState = "incoming" THEN 2 ELSE IF postState = "whole" THEN 3 ELSE 4
UpFlush == IF upFlusher THEN 1 ELSE 0
UpWork == 6 * upTodo + BodyStage + UpFlush

ServerStage ==
  IF serverDown = "none" THEN 1 ELSE IF serverDown = "closed" THEN 2
  ELSE IF mDownloadLeft = 0 THEN 8 ELSE 0
ClientStage ==
  IF ~clientDown THEN 2 ELSE IF entryDown THEN 1 ELSE IF response.ended THEN 3 ELSE 0
DownFlush == IF downFlusher THEN 1 ELSE 0
Unread == IF response.data > 0 THEN 1 ELSE 0
DownWork == 40 * downTodo + 20 * DownFlush + ServerStage + 2 * ClientStage + Unread

UpStep == ClientStep \/ Flush \/ IncomingPost \/ ServerRead
DownStep == ServerStep \/ ServerFlush \/ Get \/ ClientRead \/ ClientReadEnd

LEMMA StagesAre ==
  /\ BodyStage \in 0 .. 4 /\ UpFlush \in 0 .. 1
  /\ ServerStage \in 0 .. 8 /\ ClientStage \in 0 .. 3
  /\ DownFlush \in 0 .. 1 /\ Unread \in 0 .. 1
BY DEF BodyStage, UpFlush, ServerStage, ClientStage, DownFlush, Unread

LEMMA NextStagesAre ==
  /\ BodyStage' \in 0 .. 4 /\ UpFlush' \in 0 .. 1
  /\ ServerStage' \in 0 .. 8 /\ ClientStage' \in 0 .. 3
  /\ DownFlush' \in 0 .. 1 /\ Unread' \in 0 .. 1
BY DEF BodyStage, UpFlush, ServerStage, ClientStage, DownFlush, Unread

LEMMA TendedInit == HttpInit => UpTended /\ DownTended
BY DEF HttpInit, UpTended, DownTended

\* A body that takes no record is filled up by this very turn.
LEMMA NoRecordEnds ==
  ASSUME UpInv, WriteRecord, RecordLength = 0
  PROVE  postState = "open" /\ postState' = "whole"
<1>1. AtWork /\ upTodo > 0 /\ upTodo \in Nat
  BY DEF WriteRecord, UpInv
<1>2. Left \in Nat /\ Left >= 2
  BY <1>1, BodyAndLeft
<1>3. ~(Left > 4)
  <2> SUFFICES ASSUME Left > 4 PROVE FALSE
    OBVIOUS
  <2>1. RecordLength = Smaller(Smaller(upTodo, Left - 4), MaxRecord)
    BY DEF RecordLength
  <2> QED
    BY <1>1, <1>2, <2>1, HttpBounds DEF Smaller
<1>4. postState # "none"
  <2> SUFFICES ASSUME postState = "none" PROVE FALSE
    OBVIOUS
  <2>1. Left = mPostSize - 3 /\ mPostSize >= 8 /\ mPostSize \in Nat
    BY HttpBounds DEF Left, Started, UpInv
  <2> QED
    BY <1>3, <2>1
<1>5. Left - (Left - 1) = 1
  BY <1>2
<1>6. postState' = "whole"
  BY <1>5 DEF WriteRecord
<1> QED
  BY <1>1, <1>4, <1>6 DEF AtWork

LEMMA UpTendedKept ==
  ASSUME UpInv, UpTended, UpStep \/ (\E size \in 1 .. MaxWritten : Write(size)) \/ UNCHANGED upVars
  PROVE  UpTended'
<1>1. CASE \E size \in 1 .. MaxWritten : Write(size)
  <2>1. upTodo' # 0
    BY <1>1, HttpBounds DEF Write
  <2> QED
    BY <2>1 DEF UpTended
<1>2. CASE WriteRecord
  <2>1. upFlusher' = (upTodo' = 0)
    BY <1>2 DEF WriteRecord
  <2> QED
    BY <2>1 DEF UpTended
<1>3. CASE Flush
  <2>1. CASE Started
    BY <1>3, <2>1 DEF Flush, UpTended, AtWork
  <2>2. CASE ~Started
    <3>1. postState' = postState /\ postState \in {"none", "open"}
      BY <1>3, <2>2 DEF Flush, AtWork
    <3>2. postState # "open"
      BY <2>2 DEF Started, UpInv
    <3> QED
      BY <3>1, <3>2 DEF UpTended
  <2> QED
    BY <2>1, <2>2
<1>4. CASE RecvResponse \/ IncomingPost \/ ServerRead
  BY <1>4 DEF RecvResponse, IncomingPost, ServerRead, UpTended, AtWork
<1>5. CASE UNCHANGED upVars
  BY <1>5 DEF upVars, UpTended, AtWork
<1> QED
  BY <1>1, <1>2, <1>3, <1>4, <1>5 DEF UpStep, ClientStep

LEMMA DownTendedKept ==
  ASSUME DownInv, DownTended,
         \/ DownStep \/ (\E size \in 1 .. MaxWritten : ServerWrite(size))
         \/ UNCHANGED downVars
  PROVE  DownTended'
<1>0. response \in [data : Nat, ended : BOOLEAN]
  BY DEF DownInv
<1>1. CASE (\E size \in 1 .. MaxWritten : ServerWrite(size)) \/ UNCHANGED downVars
  BY <1>1 DEF ServerWrite, downVars, DownTended
<1>2. CASE ReplaceDown
  <2>1. UNCHANGED <<clientDown, entryDown>>
    BY <1>2 DEF ReplaceDown
  <2>2. CASE serverDown = "open"
    <3>1. response'.ended = TRUE
      BY <1>0, <1>2, <2>2 DEF ReplaceDown
    <3> QED
      BY <3>1 DEF DownTended
  <2>3. CASE serverDown # "open"
    BY <1>2, <2>1, <2>3 DEF ReplaceDown, DownTended
  <2> QED
    BY <2>2, <2>3
<1>3. CASE WaitServerDown
  BY <1>3 DEF WaitServerDown, DownTended
<1>4. CASE WriteDown
  BY <1>4 DEF WriteDown, DownTended
<1>5. CASE ServerFlush
  <2>1. CASE serverDown = "open"
    <3>1. response'.ended = TRUE
      BY <1>0, <1>5, <2>1 DEF ServerFlush
    <3> QED
      BY <3>1 DEF DownTended
  <2>2. CASE serverDown # "open"
    BY <1>5, <2>2 DEF ServerFlush, DownTended
  <2> QED
    BY <2>1, <2>2
<1>6. CASE Get
  BY <1>6 DEF Get, DownTended
<1>7. CASE ClientRead
  <2>1. response'.ended = response.ended /\ UNCHANGED <<clientDown, entryDown, serverDown>>
    BY <1>0, <1>7 DEF ClientRead
  <2> QED
    BY <2>1 DEF DownTended
<1>8. CASE ClientReadEnd
  BY <1>8 DEF ClientReadEnd, DownTended
<1> QED
  BY <1>1, <1>2, <1>3, <1>4, <1>5, <1>6, <1>7, <1>8 DEF DownStep, ServerStep

LEMMA StepsOfTheTunnel ==
  [HttpNext]_httpVars =>
    /\ UpStep \/ (\E size \in 1 .. MaxWritten : Write(size)) \/ UNCHANGED upVars
    /\ DownStep \/ (\E size \in 1 .. MaxWritten : ServerWrite(size)) \/ UNCHANGED downVars
BY DEF HttpNext, UpStep, DownStep, ClientStep, ServerStep, httpVars, Write, WriteRecord, Flush,
       RecvResponse, IncomingPost, ServerRead, Get, ClientRead, ClientReadEnd, ServerWrite,
       ReplaceDown, WaitServerDown, WriteDown, ServerFlush

\* Each step of the way up brings what was written nearer to its end.
LEMMA UpStepWorks ==
  ASSUME UpInv, UpInv', UpStep
  PROVE  UpWork' < UpWork
<1>0. /\ upTodo \in Nat /\ upTodo' \in Nat
      /\ BodyStage \in 0 .. 4 /\ BodyStage' \in 0 .. 4
      /\ UpFlush \in 0 .. 1 /\ UpFlush' \in 0 .. 1
  BY StagesAre, NextStagesAre DEF UpInv
<1>1. CASE WriteRecord
  <2>1. RecordLength \in Nat /\ RecordLength <= upTodo /\ upTodo' = upTodo - RecordLength
    BY <1>1, RecordFits DEF WriteRecord
  <2>2. CASE RecordLength = 0
    <3>1. BodyStage = 4 /\ BodyStage' = 3
      BY <1>1, <2>2, NoRecordEnds DEF BodyStage
    <3>2. upTodo > 0 /\ upFlusher' = (upTodo' = 0) /\ upTodo' = upTodo
      BY <1>0, <1>1, <2>1, <2>2 DEF WriteRecord
    <3>3. upTodo' # 0
      BY <1>0, <3>2
    <3>4. ~upFlusher'
      BY <3>2, <3>3, Zenon
    <3>5. UpFlush' = 0
      BY <3>4 DEF UpFlush
    <3> QED
      BY <1>0, <3>1, <3>2, <3>5 DEF UpWork, BodyStage, UpFlush
  <2>3. CASE RecordLength > 0
    BY <1>0, <2>1, <2>3 DEF UpWork, BodyStage, UpFlush
  <2> QED
    BY <2>1, <2>2, <2>3
<1>2. CASE Flush
  <2>1. upFlusher /\ ~upFlusher' /\ upTodo' = upTodo
    BY <1>2 DEF Flush
  <2>2. UpFlush = 1 /\ UpFlush' = 0
    BY <2>1 DEF UpFlush
  <2>3. BodyStage' <= BodyStage
    <3>1. CASE Started
      <4>1. postState = "open" /\ postState' = "whole"
        BY <1>2, <3>1 DEF Flush, Started
      <4> QED
        BY <4>1 DEF BodyStage
    <3>2. CASE ~Started
      <4>1. BodyStage' = BodyStage
        BY <1>2, <3>2 DEF Flush, BodyStage
      <4> QED
        BY <1>0, <4>1
    <3> QED
      BY <3>1, <3>2
  <2>4. upTodo' = upTodo
    BY <2>1
  <2> QED
    BY <1>0, <2>2, <2>3, <2>4 DEF UpWork, BodyStage, UpFlush
<1>3. CASE RecvResponse \/ IncomingPost \/ ServerRead
  <2>1. UNCHANGED <<upTodo, upFlusher>> /\ BodyStage' < BodyStage
    BY <1>3 DEF RecvResponse, IncomingPost, ServerRead, BodyStage
  <2>2. UpFlush' = UpFlush
    BY <2>1 DEF UpFlush
  <2> QED
    BY <1>0, <2>1, <2>2 DEF UpWork, BodyStage, UpFlush
<1> QED
  BY <1>1, <1>2, <1>3 DEF UpStep, ClientStep

LEMMA WorkIsBounded ==
  /\ downTodo \in Nat => DownWork \in Nat /\ 40 * downTodo <= DownWork
  /\ downTodo' \in Nat => DownWork' \in Nat /\ DownWork' <= 40 * downTodo' + 35
<1>1. ASSUME NEW i \in Nat, NEW f \in 0 .. 1, NEW s \in 0 .. 8, NEW c \in 0 .. 3,
             NEW u \in 0 .. 1, NEW n, n = 40 * i + 20 * f + s + 2 * c + u
      PROVE  n \in Nat /\ 40 * i <= n /\ n <= 40 * i + 35
  <2>1. 40 * i + 20 * f + s + 2 * c + u \in Nat
    OBVIOUS
  <2> QED
    BY <1>1, <2>1
<1>2. DownWork = 40 * downTodo + 20 * DownFlush + ServerStage + 2 * ClientStage + Unread
  BY DEF DownWork
<1>3. DownWork' = 40 * downTodo' + 20 * DownFlush' + ServerStage' + 2 * ClientStage' + Unread'
  BY DEF DownWork
<1>4. downTodo \in Nat => DownWork \in Nat /\ 40 * downTodo <= DownWork
  BY <1>1, <1>2, StagesAre, Zenon
<1>5. downTodo' \in Nat => DownWork' \in Nat /\ DownWork' <= 40 * downTodo' + 35
  BY <1>1, <1>3, NextStagesAre, Zenon
<1> QED
  BY <1>4, <1>5

LEMMA LessToDo ==
  ASSUME NEW i \in Nat, NEW j \in Nat, j <= i - 1,
         NEW v \in Nat, NEW u \in Nat, 40 * i <= v, u <= 40 * j + 35
  PROVE  u < v
OBVIOUS

\* And so does each step of the way down.
LEMMA DownStepWorks ==
  ASSUME DownInv, DownInv', DownStep
  PROVE  DownWork' < DownWork
<1>0. /\ downTodo \in Nat /\ downTodo' \in Nat
      /\ ServerStage \in 0 .. 8 /\ ServerStage' \in 0 .. 8
      /\ ClientStage \in 0 .. 3 /\ ClientStage' \in 0 .. 3
      /\ DownFlush \in 0 .. 1 /\ DownFlush' \in 0 .. 1
      /\ Unread \in 0 .. 1 /\ Unread' \in 0 .. 1
  BY StagesAre, NextStagesAre DEF DownInv
<1>01. response \in [data : Nat, ended : BOOLEAN]
  BY DEF DownInv
<1>1. CASE ReplaceDown
  <2>1. UNCHANGED <<downTodo, downFlusher, clientDown, entryDown>> /\ serverDown' = "none"
    BY <1>1 DEF ReplaceDown
  <2>2. ServerStage' = 1
    BY <2>1 DEF ServerStage
  <2>3. response'.data = response.data
    BY <1>01, <1>1 DEF ReplaceDown
  <2>4. DownFlush' = DownFlush /\ Unread' = Unread
    BY <2>1, <2>3 DEF DownFlush, Unread
  <2>5. CASE serverDown = "open"
    <3>1. ServerStage = 8
      BY <1>1, <2>5 DEF ReplaceDown, ServerStage
    <3> QED
      BY <1>0, <2>1, <2>2, <2>4, <3>1 DEF DownWork, ServerStage, ClientStage, DownFlush, Unread
  <2>6. CASE serverDown # "open"
    <3>1. ServerStage = 2 /\ response' = response
      BY <1>1, <2>6 DEF ReplaceDown, ServerStage, DownInv
    <3>2. ClientStage' = ClientStage
      BY <2>1, <3>1 DEF ClientStage
    <3> QED
      BY <1>0, <2>1, <2>2, <2>4, <3>1, <3>2 DEF DownWork, ServerStage, ClientStage, DownFlush, Unread
  <2> QED
    BY <2>5, <2>6
<1>2. CASE WaitServerDown
  <2>1. /\ UNCHANGED <<downTodo, downFlusher, clientDown, response>>
        /\ serverDown = "none" /\ serverDown' = "open" /\ mDownloadLeft' = MaxDownloadSize
        /\ entryDown /\ ~entryDown'
    BY <1>2 DEF WaitServerDown
  <2>2. ServerStage = 1 /\ ServerStage' = 0
    BY <2>1, HttpBounds DEF ServerStage
  <2>3. clientDown /\ response = NewResponse
    BY <2>1 DEF DownInv
  <2>4. response.ended = FALSE
    BY <2>3 DEF NewResponse
  <2>5. ClientStage = 1 /\ ClientStage' = 0
    BY <2>1, <2>3, <2>4 DEF ClientStage
  <2>6. DownFlush' = DownFlush /\ Unread' = Unread
    BY <2>1 DEF DownFlush, Unread
  <2> QED
    BY <1>0, <2>1, <2>2, <2>5, <2>6 DEF DownWork, ServerStage, ClientStage, DownFlush, Unread
<1>3. CASE WriteDown
  <2>1. /\ downTodo > 0 /\ mDownloadLeft > 0 /\ mDownloadLeft \in Nat
        /\ downTodo' = downTodo - Smaller(downTodo, mDownloadLeft)
    BY <1>3, HttpBounds DEF WriteDown, DownInv
  <2>2. downTodo' <= downTodo - 1
    BY <1>0, <2>1 DEF Smaller
  <2> QED
    BY <1>0, <2>2, WorkIsBounded, LessToDo, Zenon
<1>4. CASE ServerFlush
  <2>1. downFlusher /\ ~downFlusher' /\ UNCHANGED downTodo
    BY <1>4 DEF ServerFlush
  <2>2. DownFlush = 1 /\ DownFlush' = 0
    BY <2>1 DEF DownFlush
  <2>3. response'.data = response.data
    BY <1>01, <1>4 DEF ServerFlush
  <2>4. Unread' = Unread
    BY <2>3 DEF Unread
  <2>5. ServerStage' <= ServerStage + 2
    <3>1. serverDown' \in {"none", "closed"}
      BY <1>4 DEF ServerFlush, DownInv
    <3> QED
      BY <1>0, <3>1 DEF ServerStage
  <2> QED
    BY <1>0, <2>1, <2>2, <2>4, <2>5 DEF DownWork, ServerStage, ClientStage, DownFlush, Unread
<1>5. CASE Get
  <2>1. /\ UNCHANGED <<downTodo, downFlusher, serverDown, mDownloadLeft>>
        /\ ~clientDown /\ clientDown' /\ entryDown' /\ response' = NewResponse
    BY <1>5 DEF Get
  <2>2. ClientStage = 2 /\ ClientStage' = 1 /\ ServerStage' = ServerStage
    BY <2>1 DEF ClientStage, ServerStage
  <2>3. Unread' = 0
    <3>1. ~(response'.data > 0)
      BY <2>1 DEF NewResponse
    <3> QED
      BY <3>1 DEF Unread
  <2>4. DownFlush' = DownFlush
    BY <2>1 DEF DownFlush
  <2> QED
    BY <1>0, <2>1, <2>2, <2>3, <2>4 DEF DownWork, ServerStage, ClientStage, DownFlush, Unread
<1>6. CASE ClientRead
  <2>1. /\ UNCHANGED <<downTodo, downFlusher, serverDown, mDownloadLeft, clientDown, entryDown>>
        /\ response.data > 0 /\ response'.data = 0 /\ response'.ended = response.ended
    BY <1>01, <1>6 DEF ClientRead
  <2>2. ClientStage' = ClientStage /\ ServerStage' = ServerStage
    BY <2>1 DEF ClientStage, ServerStage
  <2>3. Unread = 1 /\ Unread' = 0
    <3>1. response.data > 0 /\ ~(response'.data > 0)
      BY <2>1
    <3> QED
      BY <3>1 DEF Unread
  <2>4. DownFlush' = DownFlush
    BY <2>1 DEF DownFlush
  <2> QED
    BY <1>0, <2>1, <2>2, <2>3, <2>4 DEF DownWork, ServerStage, ClientStage, DownFlush, Unread
<1>7. CASE ClientReadEnd
  <2>1. /\ UNCHANGED <<downTodo, downFlusher, serverDown, mDownloadLeft, entryDown, response>>
        /\ clientDown /\ ~clientDown' /\ response = [data |-> 0, ended |-> TRUE]
    BY <1>7 DEF ClientReadEnd
  <2>2. response.ended = TRUE /\ ~entryDown
    BY <2>1 DEF DownInv, NewResponse
  <2>3. ClientStage = 3 /\ ClientStage' = 2 /\ ServerStage' = ServerStage
    BY <2>1, <2>2 DEF ClientStage, ServerStage
  <2>4. DownFlush' = DownFlush /\ Unread' = Unread
    BY <2>1 DEF DownFlush, Unread
  <2> QED
    BY <1>0, <2>1, <2>3, <2>4 DEF DownWork, ServerStage, ClientStage, DownFlush, Unread
<1> QED
  BY <1>1, <1>2, <1>3, <1>4, <1>5, <1>6, <1>7 DEF DownStep, ServerStep

LEMMA NeverStuck ==
  ASSUME HttpInv, UpTended, DownTended
  PROVE  /\ upRead # upWritten => UpCanGoOn
         /\ downRead # downWritten => DownCanGoOn
<1>0. UpInv /\ UpKept /\ DownInv /\ DownKept
  BY DEF HttpInv
<1>1. ASSUME ~UpCanGoOn PROVE upRead = upWritten
  <2>1. AtWork /\ upTodo = 0 /\ ~upFlusher
    BY <1>0, <1>1 DEF UpCanGoOn, UpInv, Finished, AtWork
  <2>2. postState = "none" /\ post.data = 0
    BY <1>0, <2>1 DEF UpTended, UpInv, NoPost
  <2>3. OnTheWayUp = 0
    BY <2>2 DEF OnTheWayUp
  <2> QED
    BY <1>0, <2>1, <2>3 DEF UpKept, UpInv
<1>2. ASSUME ~DownCanGoOn PROVE downRead = downWritten
  <2>0. /\ downTodo \in Nat /\ downRead \in Nat /\ response.data \in Nat
        /\ downWritten = downRead + downTodo + response.data
    BY <1>0 DEF DownInv, DownKept
  <2>1. response.data = 0
    BY <1>0, <1>2, <2>0 DEF DownCanGoOn, DownInv
  <2>2. downTodo = 0
    <3> SUFFICES ASSUME downTodo > 0 PROVE FALSE
      BY <2>0
    <3>1. serverDown = "none" /\ ~entryDown
      BY <1>2 DEF DownCanGoOn
    <3>2. clientDown /\ ~response.ended
      BY <1>2, <3>1 DEF DownCanGoOn
    <3> QED
      BY <3>1, <3>2 DEF DownTended
  <2> QED
    BY <2>0, <2>1, <2>2
<1> QED
  BY <1>1, <1>2

\* As long as something written is not read, some step of its way can be taken
\* (a turn of a loop, a flush, a request, an answer, a read), and no such step,
\* on either way, is taken for nothing: each one lowers a number that only a
\* write raises.  No flusher that is cancelled leaves a body open, and no client
\* waits for a response that nobody will end (httptunnel.cpp:430-530).  With the
\* fairness of the threads and alarms this is Flushed.
THEOREM WrittenGetsOn ==
  HttpSpec =>
    /\ [](upRead # upWritten => UpCanGoOn) /\ [](downRead # downWritten => DownCanGoOn)
    /\ [](UpWork \in Nat /\ DownWork \in Nat)
    /\ [][UpStep => UpWork' < UpWork]_httpVars
    /\ [][DownStep => DownWork' < DownWork]_httpVars
<1> DEFINE Tended == UpTended /\ DownTended
<1>1. HttpInit => HttpInv /\ Tended
  BY HttpInitOK, TendedInit
<1>2. HttpInv /\ Tended /\ [HttpNext]_httpVars => HttpInv' /\ Tended'
  <2> SUFFICES ASSUME HttpInv, Tended, [HttpNext]_httpVars PROVE HttpInv' /\ Tended'
    OBVIOUS
  <2> QED
    BY HttpNextKeeps, UpTendedKept, DownTendedKept, StepsOfTheTunnel DEF HttpInv
<1>3. HttpInv /\ Tended => /\ upRead # upWritten => UpCanGoOn
                           /\ downRead # downWritten => DownCanGoOn
  BY NeverStuck
<1>4. HttpInv => UpWork \in Nat /\ DownWork \in Nat
  <2> SUFFICES ASSUME HttpInv PROVE UpWork \in Nat /\ DownWork \in Nat
    OBVIOUS
  <2>1. upTodo \in Nat /\ downTodo \in Nat
    BY DEF HttpInv, UpInv, DownInv
  <2>2. /\ BodyStage \in Nat /\ ServerStage \in Nat /\ ClientStage \in Nat
        /\ UpFlush \in Nat /\ DownFlush \in Nat /\ Unread \in Nat
    BY StagesAre
  <2> QED
    BY <2>1, <2>2 DEF UpWork, DownWork
<1>5. HttpInv /\ HttpInv' => [UpStep => UpWork' < UpWork]_httpVars
  BY UpStepWorks DEF HttpInv
<1>6. HttpInv /\ HttpInv' => [DownStep => DownWork' < DownWork]_httpVars
  BY DownStepWorks DEF HttpInv
<1> HIDE DEF Tended
<1> QED
  BY <1>1, <1>2, <1>3, <1>4, <1>5, <1>6, PTL DEF HttpSpec

-----------------------------------------------------------------------------
(* The run of module MCNode: one of the four components plays, and the     *)
(* others are off.                                                         *)

LEMMA SchedulerOffOK == SchedulerOff => SchedulerInv
BY EmptyOK DEF SchedulerOff

LEMMA UnitVectors ==
  ASSUME NEW k \in Offsets
  PROVE  /\ UnitVector(k) \in Vector /\ UnitVector(k)[k] = 1
         /\ \A i \in Offsets : i # k => UnitVector(k)[i] = 0
BY FieldAssumption DEF UnitVector, Vector

\* The whole block: a row for every chunk, and no call of solve.
LEMMA WholeBlockFacts ==
  /\ WholeBlock \in SinkState /\ WholeBlock.finished
  /\ Pivots(WholeBlock) = Offsets
  /\ \A k \in Offsets :
       WholeBlock.rows[k].comp = UnitVector(k) /\ WholeBlock.rows[k].data = UnitVector(k)
  /\ WholeBlock.in = NullCombination /\ WholeBlock.phase = "idle" /\ WholeBlock.dropped = 0
  /\ WholeBlock.nextDiscovered = MaxChunks /\ WholeBlock.nextSeen = MaxChunks
  /\ WholeBlock.nextDecoded = MaxChunks
<1> DEFINE rows == [k \in Offsets |-> [comp |-> UnitVector(k), data |-> UnitVector(k)]]
<1>1. WholeBlock =
        [rows |-> rows, nextDiscovered |-> MaxChunks, nextSeen |-> MaxChunks,
         nextDecoded |-> MaxChunks, nextRead |-> 0, dropped |-> 0, finished |-> TRUE,
         phase |-> "idle", in |-> NullCombination, row |-> 0, col |-> 0]
  <2>1. WholeBlock =
          [EmptySink EXCEPT !.rows = rows, !.nextDiscovered = MaxChunks, !.nextSeen = MaxChunks,
                            !.nextDecoded = MaxChunks, !.finished = TRUE]
    BY DEF WholeBlock
  <2> HIDE DEF rows
  <2> QED
    BY <2>1 DEF EmptySink
<1>2. rows \in [Offsets -> Combination]
  BY UnitVectors DEF Combination
<1>3. rows \in Rows
  BY <1>2 DEF Rows
<1>4. DOMAIN rows = Offsets
  OBVIOUS
<1>5. \A k \in Offsets : rows[k].comp = UnitVector(k) /\ rows[k].data = UnitVector(k)
  OBVIOUS
<1> HIDE DEF rows
<1>6. WholeBlock \in SinkState
  BY <1>1, <1>3, NullIsCombination, SizeAssumption DEF SinkState
<1> QED
  BY <1>1, <1>4, <1>5, <1>6 DEF Pivots

LEMMA WholeBlockOK == SinkOff => SinkInv /\ NothingIsLost
<1> SUFFICES ASSUME SinkOff PROVE SinkInv /\ NothingIsLost
  OBVIOUS
<1>1. sink = WholeBlock /\ heard = {UnitVector(k) : k \in Offsets}
  BY DEF SinkOff
<1>2. SinkOK(WholeBlock)
  <2>1. Within(NullCombination, MaxChunks)
    BY DEF Within, NullCombination, ZeroVector
  <2>2. ASSUME NEW q \in Offsets
        PROVE  RowOK(WholeBlock.rows[q], q, MaxChunks)
    <3>1. \A i \in Offsets : i < MaxChunks /\ i \in Nat
      BY SizeAssumption DEF Offsets
    <3> QED
      BY <3>1, UnitVectors, WholeBlockFacts, SizeAssumption DEF RowOK, Triangular, Within
  <2> QED
    BY <2>1, <2>2, WholeBlockFacts, SizeAssumption DEF SinkOK
<1>3. SinkFaithful(WholeBlock)
  BY WholeBlockFacts DEF SinkFaithful, Faithful, NullCombination
<1>4. \A q \in Offsets : Decoded(WholeBlock, q)
  <2> SUFFICES ASSUME NEW q \in Offsets PROVE ~isCoded(WholeBlock.rows[q])
    BY WholeBlockFacts DEF Decoded
  <2>1. WholeBlock.rows[q].comp = UnitVector(q)
    BY WholeBlockFacts
  <2>2. Components(WholeBlock.rows[q]) = {q}
    BY <2>1, UnitVectors DEF Components
  <2> QED
    BY <2>1, <2>2, UnitVectors DEF isCoded
<1>5. Progress(WholeBlock)
  BY <1>4, WholeBlockFacts DEF Progress
<1>6. NothingIsLost
  BY <1>1, WholeBlockFacts DEF NothingIsLost, Row
<1> QED
  BY <1>1, <1>2, <1>3, <1>5, <1>6 DEF SinkInv, IInv

\* A sink that has the whole block ignores what it receives (fountain.cpp:631).
LEMMA WholeBlockStays == SinkOff /\ [SinkNext]_sinkVars => SinkOff'
<1> SUFFICES ASSUME SinkOff, [SinkNext]_sinkVars PROVE UNCHANGED sinkVars
  BY DEF SinkOff, sinkVars
<1>1. sink.phase = "idle" /\ sink.finished
  BY WholeBlockFacts DEF SinkOff
<1>2. CASE ReceiveAny
  BY <1>1, <1>2 DEF ReceiveAny, Receive, Solve, sinkVars
<1>3. ~SolveStep
  BY <1>1 DEF SolveStep, EliminateOne, Discard, InsertRow, SubstituteOne, NextRow, CountRows,
              Turn, CanEliminate, CanDiscard, CanInsert, CanSubstitute, CanDescend, CanCount,
              RowDone
<1> QED
  BY <1>2, <1>3 DEF SinkNext

LEMMA HttpOffOK == HttpOff => HttpInv
<1> SUFFICES ASSUME HttpOff PROVE HttpInv
  OBVIOUS
<1>1. post \in Posts /\ post.size = 0 /\ post.sent = 0 /\ post.data = 0
  BY DEF HttpOff, NoPost, Posts
<1>2. response \in [data : Nat, ended : BOOLEAN] /\ response.data = 0 /\ response = NewResponse
  BY DEF HttpOff, NewResponse
<1>3. OnTheWayUp = 0
  BY <1>1 DEF OnTheWayUp
<1>4. /\ mPostSize = DefaultPostSize /\ mPostLeft = 0 /\ post = NoPost /\ postState = "none"
      /\ upTodo = 0 /\ upFlusher = FALSE /\ upWritten = MaxWritten /\ upRead = MaxWritten
  BY DEF HttpOff
<1>5. UpInv
  <2>1. mPostSize \in DefaultPostSize .. MaxPostSize + 1 /\ upWritten \in 0 .. MaxWritten
    BY <1>4, HttpBounds
  <2>2. post.size <= MaxPostSize + 1 /\ post.sent <= post.size /\ post.data <= post.sent
    BY <1>1, HttpBounds
  <2>3. /\ postState \in {"none", "open"} \cup Finished
        /\ postState # "open" /\ postState \notin Finished
    BY <1>4 DEF Finished
  <2> QED
    BY <1>1, <1>4, <2>1, <2>2, <2>3, HttpBounds DEF UpInv
<1>6. UpKept
  BY <1>3, <1>4, HttpBounds DEF UpKept
<1>7. /\ mDownloadLeft = 0 /\ serverDown = "none" /\ entryDown = TRUE /\ clientDown = TRUE
      /\ downTodo = 0 /\ downFlusher = FALSE
      /\ downWritten = MaxWritten /\ downRead = MaxWritten
  BY DEF HttpOff
<1>8. DownInv
  <2>1. mDownloadLeft \in 0 .. MaxDownloadSize /\ downWritten \in 0 .. MaxWritten
    BY <1>7, HttpBounds
  <2>2. downTodo \in Nat /\ downRead \in Nat /\ response.data <= MaxDownloadSize
    BY <1>2, <1>7, HttpBounds
  <2>3. /\ entryDown \in BOOLEAN /\ clientDown \in BOOLEAN /\ downFlusher \in BOOLEAN
        /\ serverDown \in {"none", "open", "closed"} /\ serverDown # "open" /\ clientDown
    BY <1>7
  <2> QED
    BY <1>2, <2>1, <2>2, <2>3 DEF DownInv
<1>9. DownKept
  BY <1>2, <1>7, HttpBounds DEF DownKept
<1> QED
  BY <1>5, <1>6, <1>8, <1>9 DEF HttpInv

\* A step of one component is a step of each, as the others stutter.
LEMMA NodeSteps ==
  ASSUME [NodeNext]_nodeVars
  PROVE  /\ [Next]_vars /\ [SinkNext]_sinkVars
         /\ [OverlayNext]_overlayVars /\ [HttpNext]_httpVars
BY DEF NodeNext, nodeVars

\* The invariants of the four components, each inductive on its own.  What was
\* heard is a space only when the sink plays.
NodeInv ==
  SchedulerInv /\ SinkInv /\ (SinkKnows \/ SinkOff) /\ OverlayInv /\ HttpInv

LEMMA NodeInitOK == NodeInit => NodeInv
<1>1. SinkInit => SinkInv /\ SinkKnows
  BY InitInv, LearntInit
<1>2. OverlayOn \/ OverlayOff => OverlayInv
  BY OverlayInvInit DEF OverlayOn, OverlayOff
<1> QED
  BY <1>1, <1>2, InvInit, SchedulerOffOK, WholeBlockOK, HttpInitOK, HttpOffOK
     DEF NodeInit, NodeInv

LEMMA NodeKept ==
  ASSUME NodeInv, [NodeNext]_nodeVars
  PROVE  NodeInv' /\ [Monotone]_sinkVars
<1>1. SchedulerInv' /\ OverlayInv' /\ HttpInv'
  BY NodeSteps, InvKept, OverlayInvKept, HttpNextKeeps DEF NodeInv
<1>2. SinkInv' /\ (SinkKnows' \/ SinkOff') /\ [Monotone]_sinkVars
  BY NodeSteps, NextInv, LearntNext, WholeBlockStays, StaysDecoded DEF NodeInv, SinkInv
<1> QED
  BY <1>1, <1>2 DEF NodeInv

LEMMA NodeCorrect == NodeSpec => []NodeInv /\ DecodingIsMonotone
<1>1. NodeInv /\ [NodeNext]_nodeVars => NodeInv' /\ [Monotone]_sinkVars
  BY NodeKept
<1> QED
  BY <1>1, NodeInitOK, PTL DEF NodeSpec, DecodingIsMonotone

\* NodeTypeOK: a sink, the connections and the tunnel stay well-formed beside
\* the alarms (fountain.cpp:629-697, httptunnel.cpp:443).
THEOREM NodeTyped == NodeSpec => []NodeTypeOK
<1>1. NodeInv => NodeTypeOK
  BY SinkIsTyped, HttpIsTyped DEF NodeInv, NodeTypeOK, SinkInv, OverlayInv
<1> QED
  BY <1>1, NodeCorrect, PTL

\* Every invariant and action property that the run of MCNode checks, for any
\* field and block, any number of nodes, connections and faults, and any sizes
\* of bodies.
THEOREM NodeIsCorrect ==
  NodeSpec =>
    /\ [](DecodedIsChunk /\ NothingIsLost /\ FullRankIsDecoded /\ FinishedIsWhole
           /\ KeepsTrying /\ AddressesAreLive)
    /\ DecodingIsMonotone
<1>1. NodeInv =>
        DecodedIsChunk /\ NothingIsLost /\ FullRankIsDecoded /\ FinishedIsWhole
          /\ KeepsTrying /\ AddressesAreLive
  BY DecodedIsRight, KnownIsKept, WholeBlockOK, FullIsDecoded, FinishedIsDumped,
     LiveAddresses, TypeParts
     DEF NodeInv, SinkInv, OverlayInv
<1> QED
  BY <1>1, NodeCorrect, PTL
=============================================================================
