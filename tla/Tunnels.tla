------------------------------ MODULE Tunnels -------------------------------
(***************************************************************************)
(* How two nodes get a link (Network::Tunneler in src/tpn/network.cpp).    *)
(* Either opens a tunnel through the overlay when it sees the other; the   *)
(* other end of a tunnel is made by the first message with its number.  A  *)
(* handshake follows, and each end that finishes it registers a handler    *)
(* for the link.  Both may open at once: the larger number is meant to win.*)
(*                                                                         *)
(* A handshake is that of DTLS: the server finishes it first, and lost     *)
(* messages are sent again until the time is up.                           *)
(***************************************************************************)
EXTENDS Naturals, FiniteSets

CONSTANTS
  TunnelEnds,   \* the two nodes
  MaxTunnelId,  \* the numbers drawn are 1 .. MaxTunnelId
  MaxMishaps    \* bound on what goes wrong: see Mishap

ASSUME TunnelAssumption ==
  /\ Cardinality(TunnelEnds) = 2
  /\ {MaxTunnelId, MaxMishaps} \subseteq Nat

None == 0       \* no tunnel: numbers are drawn from 64 bits
TunnelIds == 1 .. MaxTunnelId

VARIABLES
  knows,        \* the nodes whose user follows that of the other: it never changes
  mPending,     \* the number pending for the other node, or None
  tunnelEnd,    \* the state of each end of each tunnel, in mTunnels unless "none"
  handler,      \* the tunnel under the handler of the link, or None
  opening,      \* the task of open has found no link, and has not begun
  handshakes,   \* how far each handshake is
  mishaps       \* how much has gone wrong

tunnelVars == <<knows, mPending, tunnelEnd, handler, opening, handshakes, mishaps>>

\* A "client" or "server" shakes hands; a "live" end has a registered handler;
\* a "mistaken" end shook hands with somebody else, and is left as it is.
TunnelStates == {"none", "client", "server", "live", "mistaken"}
IsShaking(n, t) == tunnelEnd[n][t] \in {"client", "server"}

\* The server finishes a handshake first.  One an end of which has given up may
\* be too far on to be taken up again.
HandshakeStates == {"fresh", "finished", "failed"}
OtherEnd(n) == CHOOSE o \in TunnelEnds : o # n

TunnelsInit ==
  /\ knows \in SUBSET TunnelEnds
  /\ mPending = [n \in TunnelEnds |-> None]
  /\ tunnelEnd = [n \in TunnelEnds |-> [t \in TunnelIds |-> "none"]]
  /\ handler = [n \in TunnelEnds |-> None]
  /\ opening = [n \in TunnelEnds |-> FALSE]
  /\ handshakes = [t \in TunnelIds |-> "fresh"]
  /\ mishaps = 0

Mishap == mishaps < MaxMishaps /\ mishaps' = mishaps + 1

-----------------------------------------------------------------------------
(* open.                                                                   *)

\* Contact::seen, at every beacon, and the checks of open and of its task.
ContactSeen(n) ==
  /\ n \in knows /\ handler[n] = None /\ mPending[n] = None /\ ~opening[n]
  /\ opening' = [opening EXCEPT ![n] = TRUE]
  /\ UNCHANGED <<knows, mPending, tunnelEnd, handler, handshakes, mishaps>>

\* The task looks for the link and, under mTunnelsMutex, at mPending.  The link
\* may come up between the two.
Begin(n) ==
  /\ opening[n]
  /\ opening' = [opening EXCEPT ![n] = FALSE]
  /\ \/ /\ handler[n] # None \/ mPending[n] # None
        /\ UNCHANGED <<mPending, tunnelEnd, handshakes, mishaps>>
     \/ /\ mPending[n] = None
        /\ IF handler[n] = None THEN UNCHANGED mishaps ELSE Mishap
        /\ \E t \in TunnelIds :
             /\ \A e \in TunnelEnds : tunnelEnd[e][t] = "none"
             /\ mPending' = [mPending EXCEPT ![n] = t]
             /\ tunnelEnd' = [tunnelEnd EXCEPT ![n][t] = "client"]
             /\ handshakes' = [handshakes EXCEPT ![t] = "fresh"]
  /\ UNCHANGED <<knows, handler>>

-----------------------------------------------------------------------------
(* listen.                                                                 *)

\* MUTANT of Wins: the pending number is not looked at.
AnyWins(n, t) == TRUE

\* A pending number that is not smaller wins.
Wins(n, t) == mPending[n] < t

\* A message with the number of no tunnel here: the hello of a client, or
\* whatever a handler sends on a tunnel this end has left.  Map::insert leaves
\* a smaller pending number in its place.
Listen(n, t) ==
  /\ tunnelEnd[n][t] = "none" /\ tunnelEnd[OtherEnd(n)][t] \in {"client", "live"}
  /\ Wins(n, t)
  /\ mPending' = [mPending EXCEPT ![n] = IF @ = None THEN t ELSE @]
  /\ tunnelEnd' = [tunnelEnd EXCEPT ![n][t] = "server"]
  /\ UNCHANGED <<knows, handler, opening, handshakes, mishaps>>

-----------------------------------------------------------------------------
(* handshake.                                                              *)

RemovePending(n) == mPending' = [mPending EXCEPT ![n] = None]

\* registerHandler: Map::insert keeps a handler that is there, and the new one
\* is destroyed with its tunnel.
RegisterHandler(n, t) ==
  IF handler[n] = None
  THEN /\ handler' = [handler EXCEPT ![n] = t]
       /\ tunnelEnd' = [tunnelEnd EXCEPT ![n][t] = "live"]
  ELSE /\ tunnelEnd' = [tunnelEnd EXCEPT ![n][t] = "none"]
       /\ UNCHANGED handler

ServerIsDone(n, t) ==
  tunnelEnd[n][t] = "server" /\ tunnelEnd[OtherEnd(n)][t] = "client" /\ handshakes[t] = "fresh"
ClientIsDone(n, t) == tunnelEnd[n][t] = "client" /\ handshakes[t] = "finished"

FinishServer(n, t) ==
  /\ ServerIsDone(n, t)
  /\ RegisterHandler(n, t)
  /\ RemovePending(n)
  /\ handshakes' = [handshakes EXCEPT ![t] = "finished"]
  /\ UNCHANGED <<knows, opening, mishaps>>

FinishClient(n, t) ==
  /\ ClientIsDone(n, t)
  /\ RegisterHandler(n, t)
  /\ RemovePending(n)
  /\ UNCHANGED <<knows, opening, handshakes, mishaps>>

\* The certificate is not that of the user the client looked for: the task of
\* the handshake returns, and the tunnel and the pending number stay for good.
\* (A server takes any user for its peer.)
FinishMistaken(n, t) ==
  /\ ClientIsDone(n, t)
  /\ tunnelEnd' = [tunnelEnd EXCEPT ![n][t] = "mistaken"]
  /\ Mishap
  /\ UNCHANGED <<knows, mPending, handler, opening, handshakes>>

\* The other end does not take part: it refuses to listen, has left, or has
\* finished with another.
Forlorn(n, t) ==
  LET other == tunnelEnd[OtherEnd(n)][t] IN
    \/ /\ tunnelEnd[n][t] = "client"
       /\ handshakes[t] = "failed" \/ (other = "none" /\ ~Wins(OtherEnd(n), t))
    \/ /\ tunnelEnd[n][t] = "server"
       /\ other # "client" \/ handshakes[t] # "fresh"

\* MUTANT of Fail: the pending number is left behind.
FailLeaving(n, t) ==
  /\ tunnelEnd' = [tunnelEnd EXCEPT ![n][t] = "none"]
  /\ \E state \in {handshakes[t], "failed"} : handshakes' = [handshakes EXCEPT ![t] = state]
  /\ UNCHANGED <<knows, mPending, handler, opening>>

Fail(n, t) ==
  /\ tunnelEnd' = [tunnelEnd EXCEPT ![n][t] = "none"]
  /\ RemovePending(n)
  /\ \E state \in {handshakes[t], "failed"} : handshakes' = [handshakes EXCEPT ![t] = state]
  /\ UNCHANGED <<knows, handler, opening>>

\* A handshake goes on.
Moves(n, t) ==
  \/ /\ tunnelEnd[n][t] = "none" /\ tunnelEnd[OtherEnd(n)][t] = "client" /\ Wins(n, t)
     /\ handshakes[t] = "fresh"
  \/ ServerIsDone(n, t) \/ ClientIsDone(n, t)
Moving == \E n \in TunnelEnds, t \in TunnelIds : Moves(n, t)

\* Its time is up, later than any handshake takes; or so many messages were
\* lost, or so late, that it is.
FailForlorn(n, t) ==
  /\ IsShaking(n, t) /\ Forlorn(n, t) /\ ~Moving
  /\ Fail(n, t)
  /\ UNCHANGED mishaps
FailByLoss(n, t) ==
  /\ IsShaking(n, t) /\ (~Forlorn(n, t) \/ Moving)
  /\ Fail(n, t)
  /\ Mishap

-----------------------------------------------------------------------------
(* The end of a handler: unregisterHandler.                                *)

Disconnect(n, t) ==
  /\ tunnelEnd[n][t] = "live"
  /\ handler' = [handler EXCEPT ![n] = None]
  /\ tunnelEnd' = [tunnelEnd EXCEPT ![n][t] = "none"]
  /\ UNCHANGED <<knows, mPending, opening, handshakes>>

\* The other end has left the tunnel, or does nothing with it: nothing comes, until mIdleAlarm.
\* The overlay may also fail to carry anything for that long.
IsAlone(n, t) == tunnelEnd[OtherEnd(n)][t] \in {"none", "server", "mistaken"}
DisconnectAlone(n, t) == IsAlone(n, t) /\ ~Moving /\ Disconnect(n, t) /\ UNCHANGED mishaps
DisconnectByLoss(n, t) ==
  (~IsAlone(n, t) \/ Moving) /\ Disconnect(n, t) /\ Mishap

-----------------------------------------------------------------------------
Shake(n, t) == Listen(n, t) \/ FinishServer(n, t) \/ FinishClient(n, t)
GiveUp(n, t) == FailForlorn(n, t) \/ DisconnectAlone(n, t)
Loss(n, t) == FailByLoss(n, t) \/ DisconnectByLoss(n, t) \/ FinishMistaken(n, t)

TunnelsNext ==
  \E n \in TunnelEnds :
    \/ ContactSeen(n) \/ Begin(n)
    \/ \E t \in TunnelIds : Shake(n, t) \/ GiveUp(n, t) \/ Loss(n, t)

\* Beacons are sent for ever, tasks run, messages get through, time passes.
TunnelsFairness ==
  \A n \in TunnelEnds :
    /\ WF_tunnelVars(ContactSeen(n)) /\ WF_tunnelVars(Begin(n))
    /\ \A t \in TunnelIds :
         WF_tunnelVars(Shake(n, t)) /\ WF_tunnelVars(GiveUp(n, t))

TunnelsSpec == TunnelsInit /\ [][TunnelsNext]_tunnelVars /\ TunnelsFairness

-----------------------------------------------------------------------------
TunnelsTypeOK ==
  /\ knows \subseteq TunnelEnds
  /\ mPending \in [TunnelEnds -> TunnelIds \cup {None}]
  /\ tunnelEnd \in [TunnelEnds -> [TunnelIds -> TunnelStates]]
  /\ handler \in [TunnelEnds -> TunnelIds \cup {None}]
  /\ opening \in [TunnelEnds -> BOOLEAN]
  /\ handshakes \in [TunnelIds -> HandshakeStates]
  /\ mishaps \in 0 .. MaxMishaps

\* The handler of the link is on a live tunnel, and no tunnel is live without.
HandlerIsLive ==
  \A n \in TunnelEnds, t \in TunnelIds : handler[n] = t <=> tunnelEnd[n][t] = "live"

\* An entry of mPending keeps a node from being opened (network.cpp:1488,
\* :1506).  It is that of a handshake on its way, which will remove it, however
\* several overlap and whoever's number is left in place; only a peer that turns
\* out to be somebody else leaves it for good (network.cpp:1722).
PendingIsShaking ==
  \A n \in TunnelEnds, t \in TunnelIds :
    mPending[n] = t => IsShaking(n, t) \/ tunnelEnd[n][t] = "mistaken"

\* Whichever node opens, also if both do at once, they end up with a handler
\* each, on the same tunnel, and keep it (network.cpp:1500, :1582, :1733), or
\* something has gone wrong on the way.  Then it may never be: a node that has
\* lost a link connects while the other has its old handler, which
\* registerHandler keeps (network.cpp:550), and each in turn is left with a
\* handler on a tunnel that the other has let go of.
LinkComesUp ==
  <>[](\/ \E t \in TunnelIds : \A n \in TunnelEnds : handler[n] = t
       \/ knows = {} \/ mishaps > 0)
=============================================================================
