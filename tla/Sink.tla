-------------------------------- MODULE Sink --------------------------------
(***************************************************************************)
(* Fountain::Sink of src/tpn/fountain.cpp as the store uses it: one sink   *)
(* per block, fed with whatever combinations of the block's chunks arrive, *)
(* from any number of senders, in any order and any number of times.       *)
(*                                                                         *)
(* heard is a history variable: the set of all linear combinations of the  *)
(* component vectors solve has taken in.  The code does not keep it; the   *)
(* properties compare the rows with it.                                    *)
(***************************************************************************)
EXTENDS Fountain

VARIABLES sink, heard

sinkVars == <<sink, heard>>

ASSUME ChunkAssumption == LastChunk = MaxChunks - 1

Span(S, v) == {PlusVector(w, TimesVector(v, x)) : w \in S, x \in Coeff}

SinkInit == sink = EmptySink /\ heard = {ZeroVector}

Receive(c) ==
  /\ sink.phase = "idle"
  /\ sink' = Solve(sink, c)
  /\ heard' = IF sink.finished THEN heard ELSE Span(heard, c.comp)

Turn(can, next) == can /\ sink' = next /\ UNCHANGED heard

ReceiveAny == \E c \in GenerateFile(MaxChunks) : Receive(c)
EliminateOne == Turn(CanEliminate(sink), Eliminate(sink))
Discard == Turn(CanDiscard(sink), Idle(sink))
InsertRow == Turn(CanInsert(sink), Insert(sink))
SubstituteOne == Turn(CanSubstitute(sink), Substitute(sink))
NextRow == Turn(CanDescend(sink), Descend(sink))
CountRows == Turn(CanCount(sink), Count(sink))

SolveStep == \/ EliminateOne \/ Discard \/ InsertRow
             \/ SubstituteOne \/ NextRow \/ CountRows

SinkNext == ReceiveAny \/ SolveStep

\* solve runs to its end in the thread that called it.
SinkFairness == WF_sinkVars(SolveStep)

SinkSpec == SinkInit /\ [][SinkNext]_sinkVars /\ SinkFairness

-----------------------------------------------------------------------------
(* Properties                                                              *)

Row(q) == sink.rows[q]

\* Rows and counters stay within the block, and what is decoded is seen, and
\* what is seen discovered, at every point of a call of solve.
SinkTypeOK ==
  /\ Pivots(sink) \subseteq Offsets
  /\ \A q \in Pivots(sink) : Row(q) \in Combination
  /\ sink.in \in Combination
  /\ sink.phase \in {"idle", "eliminate", "substitute"}
  /\ sink.phase = "substitute" => sink.row \in Pivots(sink)
  /\ sink.col \in 0 .. MaxChunks
  /\ sink.nextDiscovered \in 0 .. MaxChunks
  /\ sink.nextSeen \in 0 .. sink.nextDiscovered
  /\ sink.nextDecoded \in 0 .. sink.nextSeen
  /\ sink.finished \in BOOLEAN

\* A row that has become uncoded holds exactly the chunk of its pivot, at
\* every point of a call of solve: what hash, dump and read hand out as the
\* k-th KiB is the k-th KiB.
DecodedIsChunk ==
  \A k \in Pivots(sink) : ~isCoded(Row(k)) => Row(k).data = UnitVector(k)

\* The first coefficient of v that is not null is the i-th.
StartsAt(v, i) == v[i] # 0 /\ \A j \in 0 .. i - 1 : v[j] = 0

\* Between calls, the rows know as much as was ever received: they lie in the
\* space spanned by the received combinations, and nothing in that space starts
\* where there is no row, so elimination by the rows leaves nothing of it.  No
\* innovative combination was taken for a redundant one.
NothingIsLost ==
  sink.phase = "idle" =>
     /\ \A q \in Pivots(sink) : Row(q).comp \in heard
     /\ \A v \in heard, i \in Offsets : StartsAt(v, i) => i \in Pivots(sink)

\* The call of solve that brings the last missing combination decodes
\* everything: the lazy substitution, which gives up at the first unsolved
\* row from the top, leaves nothing behind at full rank.
FullRankIsDecoded ==
  sink.phase = "idle" /\ Missing(sink) = 0 => sink.nextDecoded = sink.nextDiscovered

\* isDecoded, on which Store::push writes the block and drops the sink, is
\* only answered when the uncoded leading rows are the whole block.
FinishedIsWhole == sink.finished => Dump(sink) = Offsets

\* A decoded chunk stays decoded, and the counters reported to the sender
\* only move forward.
Monotone ==
  /\ sink'.nextSeen >= sink.nextSeen
  /\ sink'.nextDecoded >= sink.nextDecoded
  /\ \A k \in Pivots(sink) :
        ~isCoded(Row(k)) => k \in Pivots(sink') /\ sink'.rows[k] = Row(k)
DecodingIsMonotone == [][Monotone]_sinkVars

\* Every call of solve returns.
SolveReturns == sink.phase # "idle" ~> sink.phase = "idle"
=============================================================================
