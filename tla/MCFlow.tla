------------------------------- MODULE MCFlow -------------------------------
(* Flow between two ends, over the field of four elements. *)
EXTENDS Flow, GF4, TLC

CONSTANTS a, b

Each(n) == (a :> n) @@ (b :> n)
OneWay(n) == (a :> n) @@ (b :> 0)
Play(writes, stops, times, room) ==
  [maxWrites |-> writes, mayStop |-> stops, timesOut |-> times, maxInFlight |-> room]

\* Two chunks, with alarms at both ends.
TwoChunks == Play(OneWay(2), {}, {a, b}, Each(1))
\* Three chunks, two datagrams in flight each way, no timeout: rows are
\* eliminated, substituted and dropped, and datagrams overtake each other.
ThreeChunks == Play(OneWay(3), {}, {}, Each(2))
\* One chunk each way, and an end that stops or fails at any moment.
BothWays == Play(Each(1), {a}, {a}, Each(1))

EveryScenario == {TwoChunks, ThreeChunks, BothWays}
LastChunkLost == {Play(OneWay(1), {}, {a, b}, Each(9))}
TwoInFlight == {Play(OneWay(2), {}, {a, b}, Each(2))}
ThreeInFlight == {Play(OneWay(3), {}, {a, b}, Each(2))}

\* An action constraint that drops redundant interleavings.  The turns of
\* solve that neither add a row nor count the rows, and the release of mMutex
\* after send, read and change nothing that another thread, or a property,
\* reads before the next step of the same thread; they commute with every
\* other step, and are taken first.
Loud(e) == CanInsert(sink[e]) \/ CanCount(sink[e])
Quiet(e) == SendDone(e) \/ (~Loud(e) /\ SolveStep(e))
HasQuiet(e) ==
  \/ ~IsFree(e) /\ ~MaySend(e)
  \/ reader[e] = "solve" /\ sink[e].phase # "idle" /\ ~Loud(e)
QuietFirst ==
  (\E e \in Ends : HasQuiet(e)) => \E e \in Ends : HasQuiet(e) /\ Quiet(e)
=============================================================================
