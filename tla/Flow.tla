-------------------------------- MODULE Flow --------------------------------
(***************************************************************************)
(* The reliable flow between the two Network::Handler objects of a link    *)
(* (src/tpn/network.cpp).  Each end writes chunks into a DataSource, sends *)
(* random combinations of the chunks not yet acknowledged over a datagram  *)
(* stream, solves what it receives in a Sink and reads chunks in order.    *)
(* Every datagram also acknowledges the other direction.                   *)
(*                                                                         *)
(* Four kinds of threads run at an end: the callers of write, the reader   *)
(* (run -> readRecord -> readData), and the timeout and acknowledge        *)
(* alarms.  mMutex covers everything but the reader's mSink.drop,          *)
(* mSink.solve and mSink.read; send reads the sink's counters under        *)
(* mMutex, so it may do so in the middle of a call of solve.               *)
(*                                                                         *)
(* The side channel (mTargets) is empty here.                              *)
(***************************************************************************)
EXTENDS Fountain, Sequences

CONSTANTS
  Ends,             \* the two ends of the link
  Scenarios,        \* what the applications and the network may do: see Scenario
  Lossy,            \* how often the network loses a datagram it has accepted
  DefaultTokens,    \* DefaultTokens, DefaultThreshold: in tenths of a packet
  DefaultThreshold,
  Trigger,          \* the congestion trigger, 8 in recvCombination
  Width             \* 2^32 in the code: the acknowledgements wrap

\* maxWrites: bound, per end, on the chunks its application writes.
\* mayStop: the ends that may be stopped, or whose stream may fail.
\* timesOut: the ends whose timeout alarm may fire before it is put off.
\* maxInFlight: bound, per end, on its datagrams in flight.
Scenario ==
  [maxWrites : [Ends -> 0 .. MaxChunks], mayStop : SUBSET Ends,
   timesOut : SUBSET Ends, maxInFlight : [Ends -> Nat]]

ASSUME FlowAssumption ==
  /\ IsFiniteSet(Ends) /\ Cardinality(Ends) = 2
  /\ Scenarios \subseteq Scenario
  /\ Lossy \in {"never", "once", "always"}
  /\ {DefaultTokens, DefaultThreshold, Trigger} \subseteq Nat
  /\ DefaultTokens >= 1
  /\ Width \in Nat /\ Width > 2 * MaxChunks

VARIABLES
  scenario,     \* the one of Scenarios that is played, which never changes
  source,       \* mSource
  sink,         \* mSink
  accumulator,  \* mAccumulator, in tenths of a packet
  available,    \* mAvailableTokens, in tenths of a packet
  tokens,       \* mTokens, in tenths of a packet
  threshold,    \* mThreshold, in tenths of a packet
  congestion,   \* mCongestion
  acknowledge,  \* mAcknowledgeAlarm is scheduled
  closed,       \* mClosed
  lock,         \* mMutex: the thread holding it, and the state of its send
  reader,       \* where the reader is when it does not hold mMutex
  net,          \* the datagrams in flight, by sending end
  lost,         \* the one loss of a network that loses once has happened
  read          \* what readData has returned, in order

control == <<accumulator, available, tokens, threshold, congestion>>
vars == <<scenario, source, sink, control, acknowledge, closed, lock, reader, net, lost, read>>

One == 10            \* a packet
Redundancy == 12     \* DefaultRedundancy, 1.20

Peer(e) == CHOOSE p \in Ends : p # e

Datagram == [combination : Combination, nextSeen : Nat, nextDecoded : Nat]

Free == [by |-> "none", force |-> FALSE, sent |-> FALSE]
Sending(by, force) == [by |-> by, force |-> force, sent |-> FALSE]
IsFree(e) == lock[e].by = "none"

Init ==
  /\ scenario \in Scenarios
  /\ source = [e \in Ends |-> [first |-> 0, next |-> 0]]
  /\ sink = [e \in Ends |-> EmptySink]
  /\ accumulator = [e \in Ends |-> 0]
  /\ available = [e \in Ends |-> DefaultTokens]
  /\ tokens = [e \in Ends |-> DefaultTokens]
  /\ threshold = [e \in Ends |-> DefaultThreshold]
  /\ congestion = [e \in Ends |-> FALSE]
  /\ acknowledge = [e \in Ends |-> FALSE]
  /\ closed = [e \in Ends |-> FALSE]
  /\ lock = [e \in Ends |-> Free]
  /\ reader = [e \in Ends |-> "receive"]
  /\ net = [e \in Ends |-> {}]
  /\ lost = FALSE
  /\ read = [e \in Ends |-> << >>]

-----------------------------------------------------------------------------
(* The callers of write: writeRecord, and send from flush.                 *)

Write(e, count) ==
  /\ IsFree(e) /\ ~closed[e]
  /\ source[e].next + count <= scenario.maxWrites[e]
  /\ source' = [source EXCEPT ![e] = WriteSource(@, count)]
  /\ accumulator' = [accumulator EXCEPT ![e] = @ + Redundancy * count]
  /\ lock' = [lock EXCEPT ![e] = Sending("write", FALSE)]
  /\ UNCHANGED <<scenario, sink, available, tokens, threshold, congestion, acknowledge,
                 closed, reader, net, lost, read>>

-----------------------------------------------------------------------------
(* send, in the thread that holds mMutex.                                  *)

MaySend(e) ==
  /\ ~closed[e]
  /\ \/ lock[e].force
     \/ available[e] >= One /\ Rank(source[e]) >= 1 /\ accumulator[e] >= One

\* sendCombination reads mNextSeen, then mNextDecoded, while the reader may
\* be storing both at the end of solve.
Acknowledgements(s) ==
  {<<s.nextSeen, s.nextDecoded>>} \cup
  IF CanCount(s)
  THEN {<<s.nextSeen, Count(s).nextDecoded>>, <<Count(s).nextSeen, s.nextDecoded>>}
  ELSE {}

\* The network has room for scenario.maxInFlight[e] datagrams of an end.
Transmit(e, d) ==
  net' = [net EXCEPT ![e] =
            IF Cardinality(@ \cup {d}) <= scenario.maxInFlight[e] THEN @ \cup {d} ELSE @]

SendOne(e) ==
  /\ ~IsFree(e) /\ MaySend(e)
  /\ \E c \in IF Rank(source[e]) >= 1 /\ accumulator[e] >= One
              THEN GenerateData(source[e]) ELSE {NullCombination},
        ack \in Acknowledgements(sink[e]) :
       /\ Transmit(e, [combination |-> c, nextSeen |-> ack[1], nextDecoded |-> ack[2]])
       /\ accumulator' = [accumulator EXCEPT ![e] =
                            IF isNull(c) THEN @ ELSE Greatest(0, @ - One)]
       /\ available' = [available EXCEPT ![e] =
                          IF @ >= One /\ ~isNull(c) THEN @ - One ELSE @]
  /\ lock' = [lock EXCEPT ![e] = [@ EXCEPT !.force = FALSE, !.sent = TRUE]]
  /\ UNCHANGED <<scenario, source, sink, tokens, threshold, congestion, acknowledge,
                 closed, reader, lost, read>>

\* The stream fails: the handler is closed, and the loop left.
SendFails(e) ==
  /\ e \in scenario.mayStop /\ ~IsFree(e) /\ MaySend(e)
  /\ closed' = [closed EXCEPT ![e] = TRUE]
  /\ UNCHANGED <<scenario, source, sink, control, acknowledge, lock, reader, net, lost, read>>

\* The loop of send ends, and its caller releases mMutex: the reader goes on
\* to the sink, or to the next datagram.  (The timeout alarm, rescheduled
\* here, is always pending while the handler is open.)
SendDone(e) ==
  /\ ~IsFree(e) /\ ~MaySend(e)
  /\ lock' = [lock EXCEPT ![e] = Free]
  /\ CASE lock[e].by = "receive" ->
            /\ reader' = [reader EXCEPT ![e] = IF isNull(sink[e].in) THEN "receive" ELSE "solve"]
            /\ LET c == sink[e].in IN
               sink' = [sink EXCEPT ![e] = IF isNull(c) THEN Idle(@)
                          ELSE Solve(Idle(DropSink(@, firstComponent(c))), c)]
            /\ UNCHANGED acknowledge
       [] lock[e].by = "answer" ->
            /\ reader' = [reader EXCEPT ![e] = "receive"]
            /\ acknowledge' = [acknowledge EXCEPT ![e] =
                                 @ \/ (~lock[e].sent /\ ~closed[e])]
            /\ UNCHANGED sink
       [] OTHER -> UNCHANGED <<reader, sink, acknowledge>>
  /\ UNCHANGED <<scenario, source, control, closed, net, lost, read>>

-----------------------------------------------------------------------------
(* The alarms.                                                             *)

Timeout(e) ==
  /\ e \in scenario.timesOut /\ IsFree(e) /\ ~closed[e]
  /\ lock' = [lock EXCEPT ![e] = Sending("alarm", TRUE)]
  /\ UNCHANGED <<scenario, source, sink, control, acknowledge, closed, reader, net, lost, read>>

Acknowledge(e) ==
  /\ IsFree(e) /\ acknowledge[e]
  /\ acknowledge' = [acknowledge EXCEPT ![e] = FALSE]
  /\ lock' = [lock EXCEPT ![e] = Sending("alarm", TRUE)]
  /\ UNCHANGED <<scenario, source, sink, control, closed, reader, net, lost, read>>

\* The idle alarm, or any other caller of stop.  The alarms are cancelled
\* before mMutex is taken: a sender may schedule one again in between.
Stop(e) ==
  /\ e \in scenario.mayStop /\ IsFree(e) /\ ~closed[e]
  /\ closed' = [closed EXCEPT ![e] = TRUE]
  /\ \E b \in {FALSE, acknowledge[e]} :
       acknowledge' = [acknowledge EXCEPT ![e] = b]
  /\ UNCHANGED <<scenario, source, sink, control, lock, reader, net, lost, read>>

-----------------------------------------------------------------------------
(* The reader.                                                             *)

ReadChunk(e) ==
  /\ reader[e] = "receive" /\ lock[e].by # "receive" /\ ~closed[e]
  /\ CanRead(sink[e])
  /\ read' = [read EXCEPT ![e] = Append(@, ReadData(sink[e]))]
  /\ sink' = [sink EXCEPT ![e] = Read(@)]
  /\ UNCHANGED <<scenario, source, control, acknowledge, closed, lock, reader, net, lost>>

\* What an end owes the other: the redundancy already granted, and some more
\* for every chunk seen but not decoded; but not more than for what is left.
\* (Mutants: the sum is not capped; the backlog is not added.)
OwedUncapped(owed, backlog, rank) == owed + Redundancy * backlog
OwedAsGranted(owed, backlog, rank) == Least(owed, Redundancy * rank)
Owed(owed, backlog, rank) == Least(owed + Redundancy * backlog, Redundancy * rank)

\* recvCombination under mMutex, up to its call of send.
Congested(e, d) ==
  (d.nextSeen - d.nextDecoded) % Width > Rank(DropSource(source[e], d.nextSeen)) + Trigger

Receive(e, d) ==
  LET kept == DropSource(source[e], d.nextSeen)
      received == kept.first - source[e].first
      slow == tokens[e] < threshold[e]
      delta == IF slow THEN 2 * One ELSE (10 * One * One) \div Greatest(tokens[e], One)
      granted == tokens[e] + delta * received
      backlog == (d.nextSeen - d.nextDecoded) % Width
      reset == Congested(e, d) /\ ~(congestion[e] /\ slow)
  IN
  /\ reader[e] = "receive" /\ IsFree(e) /\ ~closed[e] /\ ~CanRead(sink[e])
  /\ d \in net[Peer(e)]
  /\ net' = [net EXCEPT ![Peer(e)] = @ \ {d}]
  /\ source' = [source EXCEPT ![e] = kept]
  /\ accumulator' = [accumulator EXCEPT ![e] = Owed(@, backlog, Rank(kept))]
  /\ congestion' = [congestion EXCEPT ![e] = Congested(e, d)]
  /\ threshold' = [threshold EXCEPT ![e] = IF reset THEN granted \div 2 ELSE @]
  /\ tokens' = [tokens EXCEPT ![e] = IF reset THEN DefaultTokens ELSE granted]
  /\ available' = [available EXCEPT ![e] =
                     IF reset THEN DefaultTokens
                     ELSE Least(@ + (Redundancy + delta) * received, granted)]
  /\ sink' = [sink EXCEPT ![e].in = d.combination]
  /\ lock' = [lock EXCEPT ![e] = Sending("receive", FALSE)]
  /\ UNCHANGED <<scenario, acknowledge, closed, reader, lost, read>>

SolveTurn(e, can, next) ==
  /\ reader[e] = "solve" /\ can
  /\ sink' = [sink EXCEPT ![e] = next]
  /\ UNCHANGED <<scenario, source, control, acknowledge, closed, lock, reader, net, lost, read>>

SolveStep(e) ==
  \/ SolveTurn(e, CanEliminate(sink[e]), Eliminate(sink[e]))
  \/ SolveTurn(e, CanDiscard(sink[e]), Idle(sink[e]))
  \/ SolveTurn(e, CanInsert(sink[e]), Insert(sink[e]))
  \/ SolveTurn(e, CanSubstitute(sink[e]), Substitute(sink[e]))
  \/ SolveTurn(e, CanDescend(sink[e]), Descend(sink[e]))
  \/ SolveTurn(e, CanCount(sink[e]), Count(sink[e]))

\* readData, after solve: mMutex is taken again to send.
Answer(e) ==
  /\ reader[e] = "solve" /\ sink[e].phase = "idle" /\ IsFree(e)
  /\ lock' = [lock EXCEPT ![e] = Sending("answer", FALSE)]
  /\ UNCHANGED <<scenario, source, sink, control, acknowledge, closed, reader, net, lost, read>>

\* The network may lose a datagram; those left in net overtake each other.
Lose(e, d) ==
  /\ Lossy # "never" /\ ~lost
  /\ d \in net[e]
  /\ net' = [net EXCEPT ![e] = @ \ {d}]
  /\ lost' = (Lossy = "once")
  /\ UNCHANGED <<scenario, source, sink, control, acknowledge, closed, lock, reader, read>>

-----------------------------------------------------------------------------

Next ==
  \E e \in Ends :
    \/ \E count \in 1 .. MaxChunks : Write(e, count)
    \/ SendOne(e) \/ SendFails(e) \/ SendDone(e)
    \/ Timeout(e) \/ Acknowledge(e) \/ Stop(e)
    \/ ReadChunk(e)
    \/ \E d \in net[Peer(e)] : Receive(e, d)
    \/ SolveStep(e) \/ Answer(e)
    \/ \E d \in net[e] : Lose(e, d)

Spec == Init /\ [][Next]_vars

(***************************************************************************)
(* Fairness.  A thread inside send or solve goes on, and the reader reads  *)
(* what is decoded.  A thread that keeps asking for mMutex gets it, and an *)
(* alarm that stays scheduled fires.  A network that keeps holding data    *)
(* for an end, or its latest acknowledgement, ends up delivering some.     *)
(***************************************************************************)
ReceiveData(e) == \E d \in net[Peer(e)] : ~isNull(d.combination) /\ Receive(e, d)
ReceiveLatest(e) ==
  \E d \in net[Peer(e)] :
    (\A f \in net[Peer(e)] : f.nextSeen <= d.nextSeen) /\ Receive(e, d)

Fairness ==
  \A e \in Ends :
    /\ WF_vars(SendOne(e) \/ SendDone(e))
    /\ WF_vars(SolveStep(e) \/ ReadChunk(e))
    /\ SF_vars(Acknowledge(e) \/ Answer(e) \/ ReceiveData(e))
    /\ SF_vars(ReceiveLatest(e))
    /\ SF_vars(Timeout(e))
FairSpec == Spec /\ Fairness

\* While nothing is lost, and no timeout fires, less is needed: a step that can
\* be taken all the time is taken.
LosslessFairness ==
  \A e \in Ends :
    /\ WF_vars(SendOne(e) \/ SendDone(e))
    /\ WF_vars(SolveStep(e) \/ ReadChunk(e))
    /\ WF_vars(Acknowledge(e) \/ Answer(e) \/ ReceiveData(e))
    /\ WF_vars(ReceiveLatest(e))

-----------------------------------------------------------------------------
(* Properties                                                              *)

Windows == \A e \in Ends : source[e] \in DataSource

\* Among others, the redundancy an end owes is bounded by what it has
\* unacknowledged, and what it may send at once by its congestion window.
TypeOK ==
  /\ Windows
  /\ \A e \in Ends :
       /\ \A q \in Pivots(sink[e]) : sink[e].rows[q] \in Combination
       /\ sink[e].in \in Combination
       /\ sink[e].nextDecoded <= sink[e].nextSeen
       /\ sink[e].nextSeen <= sink[e].nextDiscovered
       /\ {accumulator[e], available[e], tokens[e], threshold[e]} \subseteq Nat
       /\ accumulator[e] <= Redundancy * Rank(source[e]) /\ available[e] <= tokens[e]
       /\ {acknowledge[e], closed[e], congestion[e]} \subseteq BOOLEAN
       /\ lock[e].by \in {"none", "write", "alarm", "receive", "answer"}
       /\ reader[e] \in {"receive", "solve"}
       /\ \A d \in net[e] : d \in Datagram
       /\ \A i \in 1 .. Len(read[e]) : read[e][i] \in Vector

\* The flow is a reliable stream: each end reads a prefix, in order and
\* uncorrupted, of what the other has written, whatever the network loses or
\* reorders and whenever an end stops.
Stream == INSTANCE ReliableStream WITH
  Chunk <- UnitVector,
  written <- [e \in Ends |-> source[e].next],
  received <- read
IsReliableStream == Stream!Spec

\* A source only lets go of chunks up to a row the other end's sink holds or
\* has read, and a sink only holds chunks that have been written; so does
\* every acknowledgement still in flight, however old.
Seen(s) ==
  IF Pivots(s) = {} THEN s.nextRead ELSE Greatest(s.nextRead, Largest(Pivots(s)) + 1)
AcknowledgedIsSeen ==
  \A e \in Ends :
    /\ source[e].first <= Seen(sink[Peer(e)])
    /\ Seen(sink[Peer(e)]) <= source[e].next
    /\ \A d \in net[Peer(e)] : d.nextSeen <= Seen(sink[Peer(e)])

\* Everything written is read, unless an end stops, as long as nothing is
\* lost: the redundancy, the backlog the acknowledgements report and the
\* acknowledge alarm are enough, without any timeout.
Delivered ==
  []<>(\A e \in Ends :
         Len(read[e]) = source[Peer(e)].next \/ closed[e] \/ closed[Peer(e)])

\* What the retransmission timeout is for: the same, on a network that loses
\* one datagram.
DeliveredDespiteLoss == Delivered

\* The data of every datagram is the combination of the chunks its
\* descriptor names.
SentIsConsistent ==
  \A e \in Ends : \A d \in net[e] : d.combination.data = d.combination.comp

\* An acknowledged chunk, which its source has dropped, is in the sink.
AcknowledgedIsKept ==
  \A e \in Ends : \A k \in 0 .. source[e].first - 1 :
    k < sink[Peer(e)].nextRead \/ k \in Pivots(sink[Peer(e)])
=============================================================================
