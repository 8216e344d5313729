------------------------------- MODULE Table --------------------------------
(***************************************************************************)
(* How a value gets to the nodes closest to its key: the Store messages of *)
(* the overlay (src/tpn/overlay.cpp).  No node knows more than its         *)
(* neighbors: one that is told of a value passes it on to the closest of   *)
(* them, keeps it when it is one of these itself, and is silent when it    *)
(* has stored it a short time ago.                                         *)
(*                                                                         *)
(* One key and one value, and connections that last.                       *)
(***************************************************************************)
EXTENDS Naturals, FiniteSets, Bags

CONSTANTS
  Peers,
  Distance,       \* of each peer to the key
  Topologies,     \* who may be connected to whom
  StoreNeighbors,
  DefaultTtl,
  MaxStores,      \* bound on the calls of Overlay::store
  MaxDropped      \* bound on the messages lost

ASSUME TableAssumption ==
  /\ IsFiniteSet(Peers)
  /\ Distance \in [Peers -> Nat]
  /\ \A p, q \in Peers : p # q => Distance[p] # Distance[q]
  /\ Topologies \subseteq [Peers -> SUBSET Peers] /\ Topologies # {}
  /\ StoreNeighbors \in Nat \ {0}
  /\ {DefaultTtl, MaxStores, MaxDropped} \subseteq Nat

VARIABLES
  neighbors,      \* the peers in mHandlers of each; it never changes
  holders,        \* the peers that have the value in their table
  recent,         \* those that have stored it less than a minute ago
  inFlight,       \* the Store messages, sent or past the check of the time
  stores, dropped,
  reached,        \* the peers that were told of the value (history) ...
  disturbed       \* ... and if that is not all: a message was lost

tableVars == <<neighbors, holders, recent, inFlight, stores, dropped, reached, disturbed>>

StoreMessages == [from : Peers, to : Peers, ttl : 0 .. DefaultTtl, handled : BOOLEAN]
InFlightBut(m) == inFlight (-) SetToBag({m})

TableInit ==
  /\ neighbors \in Topologies
  /\ holders = {} /\ recent = {} /\ inFlight = EmptyBag
  /\ stores = 0 /\ dropped = 0
  /\ reached = {} /\ disturbed = FALSE

\* getRoutes: the closest of the neighbors and the node itself.
Routes(n) ==
  LET near == neighbors[n] \cup {n}
  IN  {p \in near : Cardinality({q \in near : Distance[q] < Distance[p]}) < StoreNeighbors}

SendStores(n, targets, ttl) ==
  SetToBag({[from |-> n, to |-> p, ttl |-> ttl, handled |-> FALSE] : p \in targets})

\* Overlay::store: the node keeps the value itself, whatever its distance.
StoreValue(n) ==
  /\ stores < MaxStores /\ stores' = stores + 1
  /\ holders' = holders \cup {n} /\ recent' = recent \cup {n}
  /\ inFlight' = inFlight (+) SendStores(n, Routes(n) \ {n}, DefaultTtl)
  /\ reached' = reached \cup {n}
  /\ UNCHANGED <<neighbors, dropped, disturbed>>

\* The reader of the connection: Handler::recv, then the time of the value.
CheckTime(m) ==
  /\ ~m.handled
  /\ inFlight' = IF m.ttl = 0 \/ m.to \in recent THEN InFlightBut(m)
                 ELSE InFlightBut(m) (+) SetToBag({[m EXCEPT !.ttl = @ - 1, !.handled = TRUE]})
  /\ reached' = IF m.ttl = 0 THEN reached ELSE reached \cup {m.to}
  /\ UNCHANGED <<neighbors, holders, recent, stores, dropped, disturbed>>

\* MUTANT of Forward: only a node that keeps the value passes it on.
ForwardKept(m) ==
  LET n == m.to
      kept == {n} \cap Routes(n)
  IN  /\ m.handled
      /\ holders' = holders \cup kept /\ recent' = recent \cup kept
      /\ inFlight' = InFlightBut(m) (+)
           SendStores(n, IF kept = {} THEN {} ELSE Routes(n) \ {n, m.from}, m.ttl)
      /\ UNCHANGED <<neighbors, stores, dropped, reached, disturbed>>

\* The readers of other connections may have checked the time meanwhile, too.
Forward(m) ==
  LET n == m.to
      kept == {n} \cap Routes(n)
  IN  /\ m.handled
      /\ holders' = holders \cup kept /\ recent' = recent \cup kept
      /\ inFlight' = InFlightBut(m) (+) SendStores(n, Routes(n) \ {n, m.from}, m.ttl)
      /\ UNCHANGED <<neighbors, stores, dropped, reached, disturbed>>

\* A queue is full (Sender::push), or a datagram is lost.
LoseStore(m) ==
  /\ ~m.handled /\ dropped < MaxDropped
  /\ dropped' = dropped + 1
  /\ inFlight' = InFlightBut(m)
  /\ disturbed' = TRUE
  /\ UNCHANGED <<neighbors, holders, recent, stores, reached>>

\* A minute passes, much longer than a message takes.  What was told before a
\* loss is of no account any more: the value has to be stored again.
Age ==
  /\ inFlight = EmptyBag /\ recent # {}
  /\ recent' = {}
  /\ disturbed' = FALSE
  /\ reached' = IF disturbed THEN {} ELSE reached
  /\ UNCHANGED <<neighbors, holders, inFlight, stores, dropped>>

TableNext ==
  \/ \E n \in Peers : StoreValue(n)
  \/ \E m \in BagToSet(inFlight) : CheckTime(m) \/ Forward(m) \/ LoseStore(m)
  \/ Age

TableSpec == TableInit /\ [][TableNext]_tableVars

-----------------------------------------------------------------------------
TableTypeOK ==
  /\ neighbors \in Topologies
  /\ recent \subseteq holders /\ holders \subseteq Peers /\ reached \subseteq Peers
  /\ IsABag(inFlight) /\ BagToSet(inFlight) \subseteq StoreMessages
  /\ stores \in 0 .. MaxStores /\ dropped \in 0 .. MaxDropped /\ disturbed \in BOOLEAN

\* When no message is on its way, every peer that was told of the value has told
\* the closest it knows, and those that are such themselves have it: so has the
\* peer where a way towards the key ends.  A message that is lost costs this only
\* until the value is stored again, a minute later: those who were told a short
\* time ago, and are silent, have told the others (overlay.cpp:519-530).
Placed ==
  inFlight = EmptyBag /\ ~disturbed =>
    \A n \in reached : Routes(n) \subseteq reached /\ (n \in Routes(n) => n \in holders)
=============================================================================
