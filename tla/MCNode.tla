------------------------------- MODULE MCNode -------------------------------
(***************************************************************************)
(* What one node runs beside its links: the alarms, the sink of a block,   *)
(* the connections of the overlay, the tunnel through HTTP.  They have no  *)
(* state in common.  A behaviour plays one of them and the others are off, *)
(* so that the states add up and do not multiply.                          *)
(***************************************************************************)
EXTENDS Scheduler, Sink, GF4, Overlay, HttpTunnel, TLC

CONSTANTS opener, reached   \* two nodes of the overlay

\* One can be reached and waits for connections; one cannot, and opens them.
OpenerNeeds == (opener :> 2) @@ (reached :> 0)
OverlayOn ==
  /\ OverlayInit
  /\ running = Nodes /\ reachable = {reached}
  /\ knownPeers = [n \in Nodes |-> {reached} \ {n}]

SchedulerOff ==
  /\ tasks = << >> /\ worker = [w \in Workers |-> "gone"]
  /\ held = [w \in Workers |-> NoTask] /\ closer = "closed" /\ begun = {}
  /\ now = MaxTime /\ scheduling = {} /\ pending = {} /\ timer = Never
  /\ phase = [w \in Workers |-> "none"]
  /\ taskid = [x \in Alarms |-> NoId]
  /\ alarmJoining = [x \in Alarms |-> TRUE]
  /\ owner = [x \in Alarms |-> [at |-> "joined", id |-> NoId]]
  /\ calls = 0

OverlayOff ==
  /\ OverlayInit
  /\ running = {} /\ reachable = {} /\ knownPeers = [n \in Nodes |-> {}]

HttpOff ==
  /\ mPostSize = DefaultPostSize /\ mPostLeft = 0 /\ post = NoPost /\ postState = "none"
  /\ upTodo = 0 /\ upFlusher = FALSE /\ upWritten = MaxWritten /\ upRead = MaxWritten
  /\ mDownloadLeft = 0 /\ serverDown = "none" /\ entryDown = TRUE /\ clientDown = TRUE
  /\ response = NewResponse
  /\ downTodo = 0 /\ downFlusher = FALSE /\ downWritten = MaxWritten /\ downRead = MaxWritten

\* The sink has the whole block, and takes in no more.
WholeBlock ==
  [EmptySink EXCEPT
     !.rows = [k \in Offsets |-> [comp |-> UnitVector(k), data |-> UnitVector(k)]],
     !.nextDiscovered = MaxChunks, !.nextSeen = MaxChunks, !.nextDecoded = MaxChunks,
     !.finished = TRUE]
SinkOff == sink = WholeBlock /\ heard = {UnitVector(k) : k \in Offsets}

NodeInit ==
  \/ Init /\ SinkOff /\ OverlayOff /\ HttpOff
  \/ SchedulerOff /\ SinkInit /\ OverlayOff /\ HttpOff
  \/ SchedulerOff /\ SinkOff /\ OverlayOn /\ HttpOff
  \/ SchedulerOff /\ SinkOff /\ OverlayOff /\ HttpInit

NodeNext ==
  \/ Next /\ UNCHANGED <<sinkVars, overlayVars, httpVars>>
  \/ SinkNext /\ UNCHANGED <<vars, overlayVars, httpVars>>
  \/ OverlayNext /\ UNCHANGED <<vars, sinkVars, httpVars>>
  \/ HttpNext /\ UNCHANGED <<vars, sinkVars, overlayVars>>

nodeVars == <<vars, sinkVars, overlayVars, httpVars>>
NodeSpec ==
  /\ NodeInit /\ [][NodeNext]_nodeVars
  /\ SchedulerFairness /\ SinkFairness /\ OverlayFairness /\ HttpFairness

\* The state of each component is well-formed: the counters of a sink are in
\* order at every point of a call of solve, and the body of a POST request never
\* gets longer than it was announced (fountain.cpp:629-697, httptunnel.cpp:443).
NodeTypeOK == SinkTypeOK /\ OverlayTypeOK /\ HttpTypeOK
=============================================================================
