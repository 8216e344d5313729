----------------------------- MODULE SinkProofs -----------------------------
(***************************************************************************)
(* Theorems about Sink, for every field, every size of block and every     *)
(* generation window: the counters and rows stay consistent, an uncoded    *)
(* row is the chunk it stands for, decoding only moves forward, and        *)
(* nothing that was heard is lost.                                         *)
(***************************************************************************)
EXTENDS Sink, FountainProofs, FiniteSetTheorems

\* The invariant: the rows of the sink are triangular and true to the data.
IInv == SinkOK(sink) /\ SinkFaithful(sink)

LEMMA InitIInv == SinkInit => IInv
BY EmptySinkOK DEF SinkInit, IInv

LEMMA NextIInv == IInv /\ [SinkNext]_sinkVars => IInv' /\ (Keeps(sink, sink') \/ UNCHANGED sinkVars)
<1> SUFFICES ASSUME IInv, [SinkNext]_sinkVars
             PROVE  IInv' /\ (Keeps(sink, sink') \/ UNCHANGED sinkVars)
  OBVIOUS
<1> USE DEF IInv
<1>1. CASE ReceiveAny
  <2>1. PICK c \in GenerateFile(MaxChunks) : sink' = Solve(sink, c)
    BY <1>1 DEF ReceiveAny, Receive
  <2>2. c \in Combination /\ Faithful(c)
    BY GeneratedFromFile, SizeAssumption
  <2> QED
    BY <2>1, <2>2, SolveOK
<1>2. CASE EliminateOne
  BY <1>2, EliminateOK DEF EliminateOne, Turn
<1>3. CASE Discard
  BY <1>3, IdleOK DEF Discard, Turn
<1>4. CASE InsertRow
  BY <1>4, InsertOK DEF InsertRow, Turn
<1>5. CASE SubstituteOne
  BY <1>5, SubstituteOK DEF SubstituteOne, Turn
<1>6. CASE NextRow
  BY <1>6, DescendOK DEF NextRow, Turn
<1>7. CASE CountRows
  BY <1>7, CountOK DEF CountRows, Turn
<1>8. CASE UNCHANGED sinkVars
  BY <1>8 DEF sinkVars
<1> QED
  BY <1>1, <1>2, <1>3, <1>4, <1>5, <1>6, <1>7, <1>8 DEF SinkNext, SolveStep

LEMMA SinkIsTyped == IInv => SinkTypeOK
<1> SUFFICES ASSUME IInv PROVE SinkTypeOK
  OBVIOUS
<1>1. sink \in SinkState
  BY DEF IInv, SinkOK
<1>2. Pivots(sink) \subseteq Offsets /\ \A q \in Pivots(sink) : Row(q) \in Combination
  BY <1>1, RowsAreCombinations DEF Row
<1>3. /\ sink.nextDecoded \in 0 .. sink.nextSeen
      /\ sink.nextSeen \in 0 .. sink.nextDiscovered
  BY <1>1, SizeAssumption DEF IInv, SinkOK, SinkState
<1> QED
  BY <1>1, <1>2, <1>3 DEF IInv, SinkOK, SinkState, SinkTypeOK

\* The type invariant of the sink: rows stay within the block, and what is
\* decoded is seen, and what is seen discovered, for every block size.
THEOREM TypeCorrect == SinkSpec => []SinkTypeOK
BY InitIInv, NextIInv, SinkIsTyped, PTL DEF SinkSpec

LEMMA DecodedIsRight == IInv => DecodedIsChunk
<1> SUFFICES ASSUME IInv, NEW k \in Pivots(sink), ~isCoded(Row(k))
             PROVE  Row(k).data = UnitVector(k)
  BY DEF DecodedIsChunk
<1>1. Pivots(sink) \in SUBSET Offsets /\ Row(k) \in Combination
  BY RowsAreCombinations DEF IInv, SinkOK, Row
<1>2. RowOK(Row(k), k, sink.nextDiscovered) /\ Faithful(Row(k))
  BY DEF IInv, SinkOK, SinkFaithful, Row
<1>3. Row(k).comp = UnitVector(k)
  BY <1>1, <1>2, UncodedRow DEF RowOK
<1> QED
  BY <1>2, <1>3 DEF Faithful

\* An uncoded row is the chunk of its pivot: whatever combinations a block's
\* sink takes in, and in the middle of solve too, no decoded chunk is wrong.
THEOREM DecodedCorrect == SinkSpec => []DecodedIsChunk
BY InitIInv, NextIInv, DecodedIsRight, PTL DEF SinkSpec

LEMMA StaysDecoded == IInv /\ [SinkNext]_sinkVars => [Monotone]_sinkVars
BY NextIInv DEF Keeps, Monotone, Row

\* Decoded rows stay, unchanged, and the counters the sender is told only
\* grow, over every step of solve.
THEOREM DecodingMonotone == SinkSpec => DecodingIsMonotone
BY InitIInv, NextIInv, StaysDecoded, PTL DEF SinkSpec, DecodingIsMonotone

-----------------------------------------------------------------------------
(* What a block's sink, which never drops a row, makes of its rows.  With  *)
(* every offset discovered so far a pivot, a substitution from the highest *)
(* row down solves each row it leaves.                                     *)

Full(s) == \A j \in Offsets : j < s.nextDiscovered => j \in Pivots(s)

Progress(s) ==
  /\ s.dropped = 0
  /\ \A j \in Offsets : j < s.nextDecoded => Decoded(s, j)
  /\ s.finished => s.nextDecoded = MaxChunks
  /\ Full(s) /\ s.phase # "substitute" => s.nextDecoded = s.nextDiscovered
  /\ Full(s) /\ s.phase = "substitute" =>
       /\ \A q \in Pivots(s) : q > s.row => Decoded(s, q)
       /\ \A i \in Offsets : i >= s.col /\ i # s.row => s.rows[s.row].comp[i] = 0

LEMMA PivotFacts ==
  ASSUME NEW s, SinkOK(s), NEW q \in Pivots(s)
  PROVE  /\ q \in Offsets /\ q \in Nat /\ s.nextDiscovered \in Nat
         /\ q < s.nextDiscovered
         /\ s.rows[q] \in Combination /\ RowOK(s.rows[q], q, s.nextDiscovered)
         /\ s.rows[q].comp[q] = 1
<1>1. s \in SinkState /\ RowOK(s.rows[q], q, s.nextDiscovered)
  BY DEF SinkOK
<1>2. q \in Offsets /\ s.rows[q] \in Combination
  BY <1>1, RowsAreCombinations
<1>3. q \in Nat /\ s.nextDiscovered \in Nat /\ s.rows[q].comp[q] = 1
  BY <1>1, <1>2, SizeAssumption DEF SinkState, Offsets, RowOK, Triangular
<1>4. q < s.nextDiscovered
  BY <1>1, <1>2, <1>3 DEF RowOK, Within
<1> QED
  BY <1>1, <1>2, <1>3, <1>4

LEMMA DecodedIsUnit ==
  ASSUME NEW s, SinkOK(s), NEW k, Decoded(s, k)
  PROVE  /\ s.rows[k].comp = UnitVector(k)
         /\ SinkFaithful(s) => s.rows[k].data = UnitVector(k)
<1>1. k \in Pivots(s) /\ ~isCoded(s.rows[k])
  BY DEF Decoded
<1>2. s.rows[k].comp = UnitVector(k)
  BY <1>1, PivotFacts, UncodedRow DEF RowOK
<1> QED
  BY <1>1, <1>2 DEF SinkFaithful, Faithful

\* A row with nothing but its pivot is decoded.
LEMMA SolvedIsDecoded ==
  ASSUME NEW s, SinkOK(s), NEW q \in Pivots(s),
         \A i \in Offsets : i > q => s.rows[q].comp[i] = 0
  PROVE  Decoded(s, q)
<1>1. /\ q \in Offsets /\ s.rows[q].comp[q] = 1
      /\ \A i \in Offsets : i < q => s.rows[q].comp[i] = 0
  BY PivotFacts DEF RowOK, Triangular
<1>2. \A i \in Offsets : i # q => s.rows[q].comp[i] = 0
  BY <1>1, SizeAssumption DEF Offsets
<1>3. Components(s.rows[q]) = {q}
  BY <1>1, <1>2 DEF Components
<1> QED
  BY <1>1, <1>3 DEF Decoded, isCoded

LEMMA KeepsDecoded ==
  ASSUME NEW s, NEW t, Keeps(s, t), NEW k, Decoded(s, k)
  PROVE  Decoded(t, k)
BY DEF Keeps, Decoded

LEMMA SolveProgress ==
  ASSUME NEW s, SinkOK(s), Progress(s), s.phase = "idle",
         NEW c \in Combination
  PROVE  Progress(Solve(s, c))
<1>1. CASE s.finished \/ isNull(c)
  BY <1>1 DEF Solve
<1>2. CASE ~(s.finished \/ isNull(c))
  <2> DEFINE t == Solve(s, c)
             bound == Greatest(s.nextDiscovered, lastComponent(c) + 1)
  <2>1. s \in SinkState /\ bound \in Nat /\ bound >= s.nextDiscovered
        /\ bound <= MaxChunks /\ s.nextDiscovered \in Nat
    BY <1>2, LastIsGreatest, SizeAssumption DEF Greatest, Offsets, SinkOK, SinkState
  <2>2. t = [s EXCEPT !.nextDiscovered = bound, !.phase = "eliminate", !.in = c]
    BY <1>2 DEF Solve
  <2> HIDE DEF bound, t
  <2>3. /\ t.rows = s.rows /\ t.nextDiscovered = bound /\ t.phase = "eliminate"
        /\ t.nextDecoded = s.nextDecoded /\ t.dropped = s.dropped
        /\ t.finished = s.finished /\ Pivots(t) = Pivots(s)
    BY <2>1, <2>2 DEF SinkState, Pivots
  <2>4. ASSUME Full(t) PROVE bound = s.nextDiscovered
    <3>1. s.nextDiscovered \notin Pivots(s)
      BY PivotFacts, <2>1
    <3>2. CASE s.nextDiscovered < bound
      <4>1. s.nextDiscovered \in Offsets
        BY <2>1, <3>2, SizeAssumption DEF Offsets
      <4> QED
        BY <2>3, <2>4, <3>1, <3>2, <4>1 DEF Full
    <3> QED
      BY <2>1, <3>2
  <2>5. Full(t) => Full(s) /\ t.nextDiscovered = s.nextDiscovered
    BY <2>3, <2>4 DEF Full
  <2>6. Progress(t)
    BY <2>3, <2>5 DEF Progress, Decoded
  <2> QED
    BY <2>6 DEF t
<1> QED
  BY <1>1, <1>2

LEMMA EliminateProgress ==
  ASSUME NEW s, SinkOK(s), Progress(s), CanEliminate(s)
  PROVE  Progress(Eliminate(s))
<1>1. s \in SinkState /\ s.phase = "eliminate"
  BY DEF SinkOK, CanEliminate
<1> DEFINE e == Plus(s.in, Times(s.rows[firstComponent(s.in)],
                                 s.in.comp[firstComponent(s.in)]))
<1>2. Eliminate(s) = [s EXCEPT !.in = e]
  BY <1>1 DEF Eliminate, SinkState
<1> HIDE DEF e
<1>3. LET t == Eliminate(s)
      IN  /\ t.rows = s.rows /\ t.nextDiscovered = s.nextDiscovered
          /\ t.phase = s.phase /\ t.nextDecoded = s.nextDecoded
          /\ t.dropped = s.dropped /\ t.finished = s.finished
  BY <1>1, <1>2 DEF SinkState
<1> QED
  BY <1>1, <1>3 DEF Progress, Full, Pivots, Decoded

LEMMA DiscardProgress ==
  ASSUME NEW s, SinkOK(s), Progress(s), CanDiscard(s)
  PROVE  Progress(Idle(s))
<1>1. s \in SinkState /\ s.phase = "eliminate"
  BY DEF SinkOK, CanDiscard
<1>2. LET t == Idle(s)
      IN  /\ t.rows = s.rows /\ t.nextDiscovered = s.nextDiscovered
          /\ t.phase = "idle" /\ t.nextDecoded = s.nextDecoded
          /\ t.dropped = s.dropped /\ t.finished = s.finished
  BY <1>1 DEF Idle, SinkState
<1> QED
  BY <1>1, <1>2 DEF Progress, Full, Pivots, Decoded

LEMMA InsertProgress ==
  ASSUME NEW s, SinkOK(s), Progress(s), CanInsert(s)
  PROVE  Progress(Insert(s))
<1> DEFINE t == Insert(s)
           p == firstComponent(s.in)
           P == Pivots(s) \cup {p}
           top == Largest(P)
           new == [q \in P |-> IF q = p THEN Over(s.in, s.in.comp[p]) ELSE s.rows[q]]
           last == lastComponent(new[top]) + 1
<1>1. SinkOK(t) /\ Keeps(s, t) /\ s \in SinkState
  BY InsertOK DEF SinkOK
<1>2. t = [s EXCEPT !.rows = new, !.phase = "substitute",
                    !.in = NullCombination, !.row = top, !.col = last]
  BY DEF Insert
<1>3. p \in Offsets /\ P \in SUBSET Offsets /\ P # {}
  BY <1>1, FirstIsLeast, RowsAreCombinations DEF CanInsert, SinkState
<1>4. top \in P /\ \A q \in P : q <= top
  BY <1>3, LargestOffset
<1> HIDE DEF last, new, top, t
<1>5. /\ t.rows = new /\ t.phase = "substitute" /\ t.row = top /\ t.col = last
      /\ t.nextDecoded = s.nextDecoded /\ t.dropped = s.dropped
      /\ t.finished = s.finished
  BY <1>1, <1>2 DEF SinkState
<1>6. Pivots(t) = P
  BY <1>5 DEF Pivots, new
<1>7. \A q \in Pivots(t) : ~(q > t.row)
  BY <1>3, <1>4, <1>5, <1>6, SizeAssumption DEF Offsets
<1>8. \A i \in Offsets : i >= t.col => t.rows[t.row].comp[i] = 0
  <2>1. /\ t.rows[t.row] \in Combination /\ t.rows[t.row].comp[t.row] = 1
        /\ t.row \in Offsets
    BY <1>1, <1>4, <1>5, <1>6, PivotFacts
  <2>2. ~isNull(t.rows[t.row])
    BY <2>1 DEF isNull, Components
  <2>3. /\ t.col = lastComponent(t.rows[t.row]) + 1
        /\ lastComponent(t.rows[t.row]) \in Offsets
    BY <1>5, <2>1, <2>2, LastIsGreatest DEF last
  <2> QED
    BY <2>1, <2>2, <2>3, LastIsGreatest, SizeAssumption DEF Offsets
<1>9. \A j \in Offsets : j < t.nextDecoded => Decoded(t, j)
  BY <1>1, <1>5, KeepsDecoded DEF Progress
<1>10. Progress(t)
  BY <1>5, <1>7, <1>8, <1>9 DEF Progress
<1> QED
  BY <1>10 DEF t

LEMMA SubstituteProgress ==
  ASSUME NEW s, SinkOK(s), Progress(s), CanSubstitute(s)
  PROVE  Progress(Substitute(s))
<1> DEFINE t == Substitute(s)
           q == Largest(Solvers(s))
           c == s.rows[s.row]
           e == Plus(c, Times(s.rows[q], c.comp[q]))
<1>1. /\ SinkOK(t) /\ Keeps(s, t) /\ s \in SinkState /\ s.phase = "substitute"
      /\ s.row \in Pivots(s) /\ s.row \in Offsets /\ Pivots(s) \in SUBSET Offsets
      /\ c \in Combination
  BY SubstituteOK, RowsAreCombinations DEF SinkOK, CanSubstitute
<1>2. q \in Solvers(s) /\ \A r \in Solvers(s) : r <= q
  <2>1. Solvers(s) \in SUBSET Offsets /\ Solvers(s) # {}
    BY <1>1 DEF CanSubstitute, Solvers
  <2> QED
    BY <2>1, LargestOffset
<1>3. /\ q \in Pivots(s) /\ s.row < q /\ q < s.col /\ q \in Offsets
      /\ s.rows[q] \in Combination
  BY <1>1, <1>2, PivotFacts DEF Solvers
<1>4. /\ t.nextDecoded = s.nextDecoded /\ t.dropped = s.dropped
      /\ t.finished = s.finished /\ t.phase = "substitute" /\ t.row = s.row
      /\ t.nextDiscovered = s.nextDiscovered /\ Pivots(t) = Pivots(s)
  BY <1>1 DEF Substitute, SinkState, Pivots
<1>5. \A j \in Offsets : j < t.nextDecoded => Decoded(t, j)
  BY <1>1, <1>4, KeepsDecoded DEF Progress
<1>6. ASSUME Full(t)
      PROVE  /\ \A r \in Pivots(t) : r > t.row => Decoded(t, r)
             /\ \A i \in Offsets : i >= t.col /\ i # t.row => t.rows[t.row].comp[i] = 0
  <2>1. Full(s)
    BY <1>4, <1>6 DEF Full
  <2>2. \A r \in Pivots(s) : r > s.row => Decoded(s, r)
    BY <1>1, <2>1 DEF Progress
  <2>3. \A r \in Pivots(t) : r > t.row => Decoded(t, r)
    BY <1>1, <1>4, <2>2, KeepsDecoded
  <2>4. Decoded(s, q)
    BY <1>1, <1>3, <2>2, SizeAssumption DEF Offsets
  <2> HIDE DEF q, c, e
  <2>5. t = [s EXCEPT !.rows[s.row] = e, !.col = q]
    BY <1>1, <2>4 DEF Substitute, q, c, e, Decoded, SinkState
  <2>6. t.col = q /\ t.rows[t.row] = e
    BY <1>1, <1>4, <2>5 DEF SinkState, Pivots
  <2>7. /\ c.comp[q] \in Coeff
        /\ \A i \in Offsets : e.comp[i] = gAdd(c.comp[i], gMul(s.rows[q].comp[i], c.comp[q]))
    <3>1. c.comp[q] \in Coeff
      BY <1>1, <1>3 DEF Combination, Vector
    <3> QED
      BY <1>1, <1>3, <3>1, AddMultiple DEF e
  <2>8. s.rows[q].comp = UnitVector(q)
    BY <2>4, DecodedIsUnit
  <2>9. e.comp[q] = 0
    BY <1>3, <2>7, <2>8, FieldAssumption DEF UnitVector
  <2>10. ASSUME NEW i \in Offsets, i > q, i # s.row PROVE e.comp[i] = 0
    <3>1. s.rows[q].comp[i] = 0
      BY <1>3, <2>8, <2>10, SizeAssumption DEF UnitVector, Offsets
    <3>2. c.comp[i] = 0
      <4>1. CASE i >= s.col
        BY <1>1, <2>1, <2>10, <4>1 DEF Progress, c
      <4>2. CASE ~(i >= s.col)
        <5>1. i < s.nextDiscovered => i \in Pivots(s)
          BY <2>1 DEF Full
        <5>2. i \notin Pivots(s)
          <6> SUFFICES ASSUME i \in Pivots(s) PROVE FALSE
            OBVIOUS
          <6>1. s.col \in Nat /\ i \in Nat /\ q \in Nat /\ s.row \in Nat
            BY <1>1, <1>3, SizeAssumption DEF SinkState, Offsets
          <6>2. i \in Solvers(s)
            BY <1>3, <2>10, <4>2, <6>1 DEF Solvers
          <6> QED
            BY <1>2, <2>10, <6>1, <6>2 DEF q
        <5>3. RowOK(c, s.row, s.nextDiscovered) /\ s.nextDiscovered \in Nat
          BY <1>1, PivotFacts DEF c
        <5>4. i >= s.nextDiscovered
          BY <5>1, <5>2, <5>3, SizeAssumption DEF Offsets
        <5> QED
          BY <5>3, <5>4 DEF RowOK, Within
      <4> QED
        BY <4>1, <4>2
    <3> QED
      BY <2>7, <3>1, <3>2, FieldAssumption
  <2>11. \A i \in Offsets : i >= t.col /\ i # t.row => t.rows[t.row].comp[i] = 0
    BY <1>3, <1>4, <2>6, <2>9, <2>10, SizeAssumption DEF Offsets
  <2> QED
    BY <2>3, <2>11
<1> HIDE DEF t
<1>7. Progress(t)
  BY <1>4, <1>5, <1>6 DEF Progress
<1> QED
  BY <1>7 DEF t

LEMMA DescendProgress ==
  ASSUME NEW s, SinkOK(s), Progress(s), CanDescend(s)
  PROVE  Progress(Descend(s))
<1> DEFINE t == Descend(s)
           q == Largest(Below(s))
           last == lastComponent(s.rows[q]) + 1
<1>1. /\ SinkOK(t) /\ s \in SinkState /\ s.phase = "substitute"
      /\ s.row \in Pivots(s) /\ s.row \in Offsets /\ Pivots(s) \in SUBSET Offsets
  BY DescendOK, RowsAreCombinations DEF SinkOK, CanDescend, RowDone
<1>2. q \in Below(s) /\ \A r \in Below(s) : r <= q
  <2>1. Below(s) \in SUBSET Offsets /\ Below(s) # {}
    BY <1>1 DEF CanDescend, Below
  <2> QED
    BY <2>1, LargestOffset
<1>3. t = [s EXCEPT !.row = q, !.col = last]
  BY DEF Descend
<1> HIDE DEF t, q, last
<1>4. /\ t.rows = s.rows /\ t.row = q /\ t.col = last /\ t.phase = "substitute"
      /\ t.nextDecoded = s.nextDecoded /\ t.dropped = s.dropped
      /\ t.finished = s.finished /\ t.nextDiscovered = s.nextDiscovered
      /\ Pivots(t) = Pivots(s)
  BY <1>1, <1>3 DEF SinkState, Pivots
<1>5. Decoded(s, s.row)
  <2>1. lastComponent(s.rows[s.row]) = s.row /\ s.rows[s.row] \in Combination
        /\ s.rows[s.row].comp[s.row] = 1
    BY <1>1, PivotFacts DEF CanDescend, RowSolved
  <2>2. ~isNull(s.rows[s.row])
    BY <1>1, <2>1 DEF isNull, Components
  <2> QED
    BY <1>1, <2>1, <2>2, LastIsGreatest, SolvedIsDecoded
<1>6. ASSUME Full(t) PROVE \A r \in Pivots(t) : r > t.row => Decoded(t, r)
  <2>1. \A r \in Pivots(s) : r > s.row => Decoded(s, r)
    BY <1>1, <1>4, <1>6 DEF Progress, Full
  <2>2. \A r \in Pivots(s) : r > q => r \in Nat /\ s.row \in Nat /\ r >= s.row
    BY <1>1, <1>2, SizeAssumption DEF Below, Offsets
  <2>3. \A r \in Pivots(s) : r > q => Decoded(s, r)
    BY <1>5, <2>1, <2>2
  <2> QED
    BY <1>4, <2>3 DEF Decoded
<1>7. \A i \in Offsets : i >= t.col => t.rows[t.row].comp[i] = 0
  <2>1. /\ q \in Pivots(s) /\ q \in Offsets /\ s.rows[q] \in Combination
        /\ s.rows[q].comp[q] = 1
    BY <1>2, PivotFacts DEF Below
  <2>2. ~isNull(s.rows[q])
    BY <2>1 DEF isNull, Components
  <2>3. lastComponent(s.rows[q]) \in Offsets
    BY <2>1, <2>2, LastIsGreatest
  <2> QED
    BY <1>4, <2>1, <2>2, <2>3, LastIsGreatest, SizeAssumption DEF Offsets, last
<1>8. Progress(t)
  BY <1>4, <1>6, <1>7 DEF Progress, Decoded
<1> QED
  BY <1>8 DEF t

\* At full rank, the row the substitution leaves is solved, and every row is
\* when there is none below.
LEMMA FullIsSolved ==
  ASSUME NEW s, SinkOK(s), Progress(s), Full(s), CanCount(s)
  PROVE  \A q \in Pivots(s) : Decoded(s, q)
<1> DEFINE c == s.rows[s.row]
<1>1. /\ s \in SinkState /\ s.phase = "substitute" /\ Solvers(s) = {}
      /\ s.row \in Pivots(s) /\ Pivots(s) \in SUBSET Offsets
  BY RowsAreCombinations DEF SinkOK, CanCount, RowDone
<1>2. /\ s.row \in Offsets /\ c \in Combination /\ c.comp[s.row] = 1
      /\ RowOK(c, s.row, s.nextDiscovered) /\ s.nextDiscovered \in Nat
  BY <1>1, PivotFacts
<1>3. \A q \in Pivots(s) : q > s.row => Decoded(s, q)
  BY <1>1 DEF Progress
<1>4. ASSUME NEW i \in Offsets, i > s.row PROVE c.comp[i] = 0
  <2>1. i \in Nat /\ s.col \in Nat /\ s.row \in Nat /\ i # s.row
    BY <1>1, <1>2, <1>4, SizeAssumption DEF SinkState, Offsets
  <2>2. CASE i >= s.col
    BY <1>1, <1>4, <2>1, <2>2 DEF Progress
  <2>3. CASE i < s.col
    <3>1. i \notin Pivots(s)
      BY <1>1, <1>4, <2>3 DEF Solvers
    <3>2. i >= s.nextDiscovered
      BY <1>2, <2>1, <3>1 DEF Full
    <3> QED
      BY <1>2, <3>2 DEF RowOK, Within
  <2> QED
    BY <2>1, <2>2, <2>3
<1>5. Decoded(s, s.row)
  BY <1>1, <1>4, SolvedIsDecoded
<1>6. RowSolved(s)
  <2>1. ~isNull(c) /\ s.row \in Components(c)
    BY <1>2 DEF isNull, Components
  <2>2. /\ lastComponent(c) \in Components(c) /\ lastComponent(c) \in Offsets
        /\ \A i \in Offsets : i > lastComponent(c) => c.comp[i] = 0
    BY <1>2, <2>1, LastIsGreatest
  <2>3. ~(lastComponent(c) > s.row) /\ ~(s.row > lastComponent(c))
    BY <1>2, <1>4, <2>2 DEF Components
  <2> QED
    BY <1>2, <2>2, <2>3, SizeAssumption DEF RowSolved, Offsets
<1>7. Below(s) = {}
  BY <1>6 DEF CanCount
<1>8. \A q \in Pivots(s) : q > s.row \/ q = s.row
  BY <1>1, <1>2, <1>7, SizeAssumption DEF Below, Offsets
<1> QED
  BY <1>3, <1>5, <1>8

LEMMA CountProgress ==
  ASSUME ChunkAssumption, NEW s, SinkOK(s), SinkFaithful(s), Progress(s), CanCount(s)
  PROVE  Progress(Count(s))
<1> DEFINE t == Count(s)
<1>1. /\ SinkOK(t) /\ Keeps(s, t) /\ t.rows = s.rows /\ t.phase = "idle"
      /\ t.nextDiscovered = s.nextDiscovered /\ t.dropped = s.dropped
      /\ \A n \in s.nextDecoded .. t.nextDecoded - 1 : Decoded(s, n)
      /\ ~Decoded(s, t.nextDecoded)
      /\ t.finished => \/ s.finished
                       \/ \E k \in s.nextDecoded .. t.nextDecoded - 1 : isLast(s.rows[k])
  BY CountOK
<1> HIDE DEF t
<1>2. /\ s.nextDecoded \in Nat /\ t.nextDecoded \in Nat /\ t.nextDecoded <= MaxChunks
      /\ s.nextDiscovered \in Nat /\ s.nextDiscovered <= MaxChunks
      /\ t.nextDecoded <= t.nextDiscovered /\ t.nextDecoded >= s.nextDecoded
  <2>1. s \in SinkState /\ t \in SinkState
    BY <1>1 DEF SinkOK
  <2> QED
    BY <1>1, <2>1, SizeAssumption DEF SinkOK, SinkState, Keeps
<1>3. \A j \in Offsets : j < t.nextDecoded => Decoded(t, j)
  <2> SUFFICES ASSUME NEW j \in Offsets, j < t.nextDecoded PROVE Decoded(s, j)
    BY <1>1, KeepsDecoded
  <2>1. CASE j < s.nextDecoded
    BY <2>1 DEF Progress
  <2>2. CASE ~(j < s.nextDecoded)
    <3>1. j \in s.nextDecoded .. t.nextDecoded - 1
      BY <1>2, <2>2, SizeAssumption DEF Offsets
    <3> QED
      BY <1>1, <3>1
  <2> QED
    BY <2>1, <2>2
<1>4. t.finished => t.nextDecoded = MaxChunks
  <2>1. CASE s.finished
    BY <1>2, <2>1, SizeAssumption DEF Progress
  <2>2. ASSUME NEW k \in s.nextDecoded .. t.nextDecoded - 1, isLast(s.rows[k])
        PROVE  t.nextDecoded = MaxChunks
    <3>1. Decoded(s, k) /\ k \in Int /\ k < t.nextDecoded
      BY <1>1, <1>2
    <3>2. UnitVector(k) = UnitVector(LastChunk) /\ LastChunk \in Offsets
      BY <3>1, <2>2, DecodedIsUnit DEF isLast
    <3>3. k = LastChunk
      BY <3>2 DEF UnitVector
    <3> QED
      BY <1>2, <3>1, <3>3, ChunkAssumption, SizeAssumption
  <2> QED
    BY <1>1, <2>1, <2>2
<1>5. Full(t) => t.nextDecoded = t.nextDiscovered
  <2> SUFFICES ASSUME Full(t), t.nextDecoded < t.nextDiscovered PROVE FALSE
    BY <1>1, <1>2
  <2>1. Full(s)
    BY <1>1 DEF Full, Pivots
  <2>2. t.nextDecoded \in Pivots(s)
    BY <1>1, <1>2, <2>1, SizeAssumption DEF Full, Offsets
  <2> QED
    BY <1>1, <2>1, <2>2, FullIsSolved
<1>6. Progress(t)
  BY <1>1, <1>3, <1>4, <1>5 DEF Progress
<1> QED
  BY <1>6 DEF t

\* The whole invariant: the sink is consistent, and makes progress.
SinkInv == IInv /\ Progress(sink)

LEMMA InitInv == SinkInit => SinkInv
<1>1. Progress(EmptySink)
  BY SizeAssumption DEF Progress, EmptySink, Pivots, Full, Offsets
<1> QED
  BY <1>1, InitIInv DEF SinkInit, SinkInv

LEMMA NextInv == SinkInv /\ [SinkNext]_sinkVars => SinkInv'
<1> SUFFICES ASSUME SinkInv, [SinkNext]_sinkVars PROVE Progress(sink')
  BY NextIInv DEF SinkInv
<1> USE DEF SinkInv, IInv
<1>1. CASE ReceiveAny
  <2>1. PICK c \in GenerateFile(MaxChunks) :
          sink.phase = "idle" /\ sink' = Solve(sink, c)
    BY <1>1 DEF ReceiveAny, Receive
  <2>2. c \in Combination
    BY GeneratedFromFile, SizeAssumption
  <2> QED
    BY <2>1, <2>2, SolveProgress
<1>2. CASE EliminateOne
  BY <1>2, EliminateProgress DEF EliminateOne, Turn
<1>3. CASE Discard
  BY <1>3, DiscardProgress DEF Discard, Turn
<1>4. CASE InsertRow
  BY <1>4, InsertProgress DEF InsertRow, Turn
<1>5. CASE SubstituteOne
  BY <1>5, SubstituteProgress DEF SubstituteOne, Turn
<1>6. CASE NextRow
  BY <1>6, DescendProgress DEF NextRow, Turn
<1>7. CASE CountRows
  BY <1>7, CountProgress, ChunkAssumption DEF CountRows, Turn
<1>8. CASE UNCHANGED sinkVars
  BY <1>8 DEF sinkVars
<1> QED
  BY <1>1, <1>2, <1>3, <1>4, <1>5, <1>6, <1>7, <1>8 DEF SinkNext, SolveStep

LEMMA FullIsDecoded == SinkInv => FullRankIsDecoded
<1> SUFFICES ASSUME SinkInv, sink.phase = "idle", Missing(sink) = 0
             PROVE  sink.nextDecoded = sink.nextDiscovered
  BY DEF FullRankIsDecoded
<1> DEFINE n == sink.nextDiscovered
<1>1. sink \in SinkState /\ n \in Nat /\ n <= MaxChunks /\ sink.dropped = 0
  BY SizeAssumption DEF SinkInv, IInv, SinkOK, SinkState, Progress
<1> HIDE DEF n
<1>2. IsFiniteSet(0 .. n - 1) /\ Cardinality(0 .. n - 1) = n
  <2>1. 0 \in Int /\ n - 1 \in Int /\ (n - 1) - 0 + 1 = n /\ (0 > n - 1 => n = 0)
    BY <1>1
  <2>2. IsFiniteSet(0 .. n - 1)
    BY <2>1, FS_Interval
  <2>3. Cardinality(0 .. n - 1) = IF 0 > n - 1 THEN 0 ELSE (n - 1) - 0 + 1
    BY <2>1, FS_Interval
  <2> QED
    BY <2>1, <2>2, <2>3
<1>3. Pivots(sink) \subseteq 0 .. n - 1
  BY <1>1, PivotFacts DEF SinkInv, IInv, n
<1>4. Cardinality(Pivots(sink)) \in Nat
  BY <1>2, <1>3, FS_Subset, FS_CardinalityType
<1>5. Cardinality(Pivots(sink)) = n
  BY <1>1, <1>4 DEF Missing, n
<1>6. Pivots(sink) = 0 .. n - 1
  BY <1>2, <1>3, <1>5, FS_Subset
<1>7. Full(sink)
  BY <1>1, <1>6, SizeAssumption DEF Full, Offsets, n
<1> QED
  BY <1>7 DEF SinkInv, Progress

\* At full rank a call of solve leaves nothing coded: giving up at the first
\* unsolved row from the top never postpones what can be decoded now.
THEOREM FullRankDecodes == SinkSpec => []FullRankIsDecoded
BY InitInv, NextInv, FullIsDecoded, PTL DEF SinkSpec

LEMMA FinishedIsDumped == SinkInv => FinishedIsWhole
<1> SUFFICES ASSUME SinkInv, sink.finished PROVE Dump(sink) = Offsets
  BY DEF FinishedIsWhole
<1>1. sink \in SinkState /\ Pivots(sink) \in SUBSET Offsets
  BY RowsAreCombinations DEF SinkInv, IInv, SinkOK
<1>2. sink.nextDecoded = MaxChunks
  BY DEF SinkInv, Progress
<1>3. \A j \in Offsets : Decoded(sink, j)
  BY <1>2, SizeAssumption DEF SinkInv, Progress, Offsets
<1> QED
  BY <1>1, <1>3 DEF Dump, Decoded

\* isDecoded is only answered for the whole block: what Store::push then
\* hashes and dumps is every chunk, in order.
THEOREM FinishedDumpsAll == SinkSpec => []FinishedIsWhole
BY InitInv, NextInv, FinishedIsDumped, PTL DEF SinkSpec

-----------------------------------------------------------------------------
(* What a block's sink has heard of: a space of vectors, of which the rows *)
(* are a basis between two calls of solve.                                 *)

Space(H) ==
  /\ H \subseteq Vector /\ ZeroVector \in H
  /\ \A v, w \in H : PlusVector(v, w) \in H
  /\ \A v \in H, x \in Coeff : TimesVector(v, x) \in H

Starts(H, P) == \A v \in H, i \in Offsets : StartsAt(v, i) => i \in P

\* The other distributive law.
LEMMA MulOverAdd ==
  ASSUME NEW x \in Coeff, NEW y \in Coeff, NEW z \in Coeff
  PROVE  gMul(x, gAdd(y, z)) = gAdd(gMul(x, y), gMul(x, z))
<1>1. gAdd(y, z) \in Coeff
  BY FieldAssumption
<1>2. /\ gMul(x, gAdd(y, z)) = gMul(gAdd(y, z), x)
      /\ gMul(y, x) = gMul(x, y) /\ gMul(z, x) = gMul(x, z)
  BY <1>1, FieldLaws
<1>3. gMul(gAdd(y, z), x) = gAdd(gMul(y, x), gMul(z, x))
  BY FieldLaws
<1> QED
  BY <1>2, <1>3

\* The laws of the field, for vectors.
LEMMA SumLaws ==
  ASSUME NEW u \in Vector, NEW v \in Vector, NEW w \in Vector
  PROVE  /\ PlusVector(u, v) = PlusVector(v, u)
         /\ PlusVector(PlusVector(u, v), w) = PlusVector(u, PlusVector(v, w))
         /\ PlusVector(PlusVector(u, v), v) = u
         /\ PlusVector(u, ZeroVector) = u /\ PlusVector(ZeroVector, u) = u
         /\ ZeroVector \in Vector
<1>1. \A i \in Offsets : u[i] \in Coeff /\ v[i] \in Coeff /\ w[i] \in Coeff
  BY DEF Vector
<1>2. ASSUME NEW i \in Offsets
      PROVE  /\ gAdd(u[i], v[i]) = gAdd(v[i], u[i])
             /\ gAdd(gAdd(u[i], v[i]), w[i]) = gAdd(u[i], gAdd(v[i], w[i]))
             /\ gAdd(gAdd(u[i], v[i]), v[i]) = u[i]
             /\ gAdd(u[i], 0) = u[i] /\ gAdd(0, u[i]) = u[i]
  <2>1. u[i] \in Coeff /\ v[i] \in Coeff /\ w[i] \in Coeff
    BY <1>1
  <2>2. gAdd(u[i], v[i]) = gAdd(v[i], u[i])
    BY <2>1, FieldLaws
  <2>3. /\ gAdd(gAdd(u[i], v[i]), w[i]) = gAdd(u[i], gAdd(v[i], w[i]))
        /\ gAdd(gAdd(u[i], v[i]), v[i]) = gAdd(u[i], gAdd(v[i], v[i]))
    BY <2>1, FieldLaws
  <2>4. gAdd(v[i], v[i]) = 0 /\ gAdd(u[i], 0) = u[i] /\ gAdd(0, u[i]) = u[i]
    BY <2>1, FieldAssumption
  <2> QED
    BY <2>2, <2>3, <2>4
<1>3. ZeroVector \in Vector
  BY FieldAssumption DEF ZeroVector, Vector
<1>4. u = [i \in Offsets |-> u[i]]
  BY DEF Vector
<1> QED
  BY <1>2, <1>3, <1>4 DEF PlusVector, ZeroVector

LEMMA ProductLaws ==
  ASSUME NEW u \in Vector, NEW v \in Vector, NEW x \in Coeff, NEW y \in Coeff
  PROVE  /\ TimesVector(PlusVector(u, v), x) = PlusVector(TimesVector(u, x), TimesVector(v, x))
         /\ TimesVector(u, gAdd(x, y)) = PlusVector(TimesVector(u, x), TimesVector(u, y))
         /\ TimesVector(TimesVector(u, x), y) = TimesVector(u, gMul(x, y))
         /\ TimesVector(u, 1) = u /\ TimesVector(u, 0) = ZeroVector
         /\ TimesVector(ZeroVector, x) = ZeroVector
<1>1. \A i \in Offsets : u[i] \in Coeff /\ v[i] \in Coeff
  BY DEF Vector
<1>2. ASSUME NEW i \in Offsets
      PROVE  /\ gMul(gAdd(u[i], v[i]), x) = gAdd(gMul(u[i], x), gMul(v[i], x))
             /\ gMul(u[i], gAdd(x, y)) = gAdd(gMul(u[i], x), gMul(u[i], y))
             /\ gMul(gMul(u[i], x), y) = gMul(u[i], gMul(x, y))
             /\ gMul(u[i], 1) = u[i] /\ gMul(u[i], 0) = 0 /\ gMul(0, x) = 0
  <2>1. u[i] \in Coeff /\ v[i] \in Coeff
    BY <1>1
  <2>2. gMul(gAdd(u[i], v[i]), x) = gAdd(gMul(u[i], x), gMul(v[i], x))
    BY <2>1, FieldLaws
  <2>3. gMul(u[i], gAdd(x, y)) = gAdd(gMul(u[i], x), gMul(u[i], y))
    BY <2>1, MulOverAdd
  <2>4. gMul(gMul(u[i], x), y) = gMul(u[i], gMul(x, y))
    BY <2>1, FieldLaws
  <2>5. gMul(u[i], 1) = u[i] /\ gMul(u[i], 0) = 0 /\ gMul(0, x) = 0
    BY <2>1, FieldAssumption
  <2> QED
    BY <2>2, <2>3, <2>4, <2>5
<1>3. u = [i \in Offsets |-> u[i]]
  BY DEF Vector
<1> QED
  BY <1>2, <1>3 DEF PlusVector, TimesVector, ZeroVector

\* A sum of four vectors is that of its halves in the other order.
LEMMA FourSummands ==
  ASSUME NEW t \in Vector, NEW u \in Vector, NEW v \in Vector, NEW w \in Vector
  PROVE  PlusVector(PlusVector(t, u), PlusVector(v, w))
           = PlusVector(PlusVector(t, v), PlusVector(u, w))
<1>1. /\ PlusVector(v, w) \in Vector /\ PlusVector(u, v) \in Vector
      /\ PlusVector(v, u) \in Vector /\ PlusVector(u, w) \in Vector
  BY FieldAssumption, VectorClosure
<1>2. PlusVector(PlusVector(t, u), PlusVector(v, w))
        = PlusVector(t, PlusVector(u, PlusVector(v, w)))
  BY <1>1, SumLaws
<1>3. PlusVector(u, PlusVector(v, w)) = PlusVector(PlusVector(v, u), w)
  <2>1. PlusVector(u, PlusVector(v, w)) = PlusVector(PlusVector(u, v), w)
    BY SumLaws
  <2>2. PlusVector(u, v) = PlusVector(v, u)
    BY SumLaws
  <2> QED
    BY <2>1, <2>2
<1>4. PlusVector(PlusVector(v, u), w) = PlusVector(v, PlusVector(u, w))
  BY SumLaws
<1>5. PlusVector(t, PlusVector(v, PlusVector(u, w)))
        = PlusVector(PlusVector(t, v), PlusVector(u, w))
  BY <1>1, SumLaws
<1> QED
  BY <1>2, <1>3, <1>4, <1>5

\* What is spanned by a space and a vector is a space that holds both.
LEMMA SpanIsSpace ==
  ASSUME NEW H, Space(H), NEW v \in Vector
  PROVE  Space(Span(H, v)) /\ H \subseteq Span(H, v) /\ v \in Span(H, v)
<1>0. 0 \in Coeff /\ 1 \in Coeff /\ H \subseteq Vector /\ ZeroVector \in H
  BY FieldAssumption DEF Space
<1>1. H \subseteq Span(H, v)
  <2> SUFFICES ASSUME NEW w \in H PROVE w \in Span(H, v)
    OBVIOUS
  <2>1. PlusVector(w, TimesVector(v, 0)) = w
    BY <1>0, SumLaws, ProductLaws
  <2> QED
    BY <1>0, <2>1 DEF Span
<1>2. v \in Span(H, v)
  <2>1. PlusVector(ZeroVector, TimesVector(v, 1)) = v
    BY <1>0, SumLaws, ProductLaws
  <2> QED
    BY <1>0, <2>1 DEF Span
<1>3. Span(H, v) \subseteq Vector
  BY <1>0, VectorClosure DEF Span
<1>4. ASSUME NEW a \in Span(H, v), NEW b \in Span(H, v)
      PROVE  PlusVector(a, b) \in Span(H, v)
  <2>1. PICK g \in H, x \in Coeff : a = PlusVector(g, TimesVector(v, x))
    BY DEF Span
  <2>2. PICK h \in H, y \in Coeff : b = PlusVector(h, TimesVector(v, y))
    BY DEF Span
  <2>3. TimesVector(v, x) \in Vector /\ TimesVector(v, y) \in Vector
    BY VectorClosure
  <2>4. PlusVector(a, b)
          = PlusVector(PlusVector(g, h), PlusVector(TimesVector(v, x), TimesVector(v, y)))
    BY <1>0, <2>1, <2>2, <2>3, FourSummands
  <2>5. PlusVector(TimesVector(v, x), TimesVector(v, y)) = TimesVector(v, gAdd(x, y))
    BY ProductLaws
  <2>6. gAdd(x, y) \in Coeff /\ PlusVector(g, h) \in H
    BY FieldAssumption DEF Space
  <2> QED
    BY <2>4, <2>5, <2>6 DEF Span
<1>5. ASSUME NEW a \in Span(H, v), NEW x \in Coeff
      PROVE  TimesVector(a, x) \in Span(H, v)
  <2>1. PICK h \in H, y \in Coeff : a = PlusVector(h, TimesVector(v, y))
    BY DEF Span
  <2>2. TimesVector(v, y) \in Vector
    BY VectorClosure
  <2>3. TimesVector(a, x) = PlusVector(TimesVector(h, x), TimesVector(TimesVector(v, y), x))
    BY <1>0, <2>1, <2>2, ProductLaws
  <2>4. TimesVector(TimesVector(v, y), x) = TimesVector(v, gMul(y, x))
    BY ProductLaws
  <2>5. gMul(y, x) \in Coeff /\ TimesVector(h, x) \in H
    BY FieldAssumption DEF Space
  <2> QED
    BY <2>3, <2>4, <2>5 DEF Span
<1> QED
  BY <1>0, <1>1, <1>2, <1>3, <1>4, <1>5 DEF Space

\* To reduce the vector by a member of the space changes nothing.
LEMMA ReducedWithin ==
  ASSUME NEW H, Space(H), NEW v \in Vector, NEW r \in H
  PROVE  Span(H, PlusVector(v, r)) \subseteq Span(H, v)
<1> SUFFICES ASSUME NEW w \in H, NEW x \in Coeff
             PROVE  PlusVector(w, TimesVector(PlusVector(v, r), x)) \in Span(H, v)
  BY DEF Span
<1>1. w \in Vector /\ r \in Vector
  BY DEF Space
<1>2. TimesVector(v, x) \in Vector /\ TimesVector(r, x) \in Vector /\ TimesVector(r, x) \in H
  BY <1>1, VectorClosure DEF Space
<1>3. TimesVector(PlusVector(v, r), x) = PlusVector(TimesVector(r, x), TimesVector(v, x))
  BY <1>1, <1>2, ProductLaws, SumLaws
<1>4. PlusVector(w, PlusVector(TimesVector(r, x), TimesVector(v, x)))
        = PlusVector(PlusVector(w, TimesVector(r, x)), TimesVector(v, x))
  BY <1>1, <1>2, SumLaws
<1>5. PlusVector(w, TimesVector(r, x)) \in H
  BY <1>2 DEF Space
<1> QED
  BY <1>3, <1>4, <1>5 DEF Span

LEMMA SpanReduced ==
  ASSUME NEW H, Space(H), NEW v \in Vector, NEW r \in H
  PROVE  Span(H, PlusVector(v, r)) = Span(H, v)
<1>1. r \in Vector /\ PlusVector(v, r) \in Vector
  BY FieldAssumption, VectorClosure DEF Space
<1>2. PlusVector(PlusVector(v, r), r) = v
  BY <1>1, SumLaws
<1>3. Span(H, PlusVector(v, r)) \subseteq Span(H, v)
  BY ReducedWithin
<1>4. Span(H, PlusVector(PlusVector(v, r), r)) \subseteq Span(H, PlusVector(v, r))
  BY <1>1, ReducedWithin
<1> QED
  BY <1>2, <1>3, <1>4

\* A vector that starts at a new offset adds this offset to those where the
\* vectors of the space start.
LEMMA SpanStarts ==
  ASSUME NEW H, Space(H), NEW v \in Vector, NEW p \in Offsets, StartsAt(v, p),
         NEW P, p \notin P, Starts(H, P)
  PROVE  Starts(Span(H, v), P \cup {p})
<1> SUFFICES ASSUME NEW w \in H, NEW x \in Coeff, NEW i \in Offsets,
                    StartsAt(PlusVector(w, TimesVector(v, x)), i), i # p
             PROVE  i \in P \cup {p}
  BY DEF Starts, Span
<1> DEFINE u == PlusVector(w, TimesVector(v, x))
<1>0. w \in Vector /\ i \in Nat /\ p \in Nat /\ 0 .. i \subseteq Offsets /\ 0 .. p \subseteq Offsets
  BY SizeAssumption DEF Space, Offsets
<1>1. \A j \in Offsets : /\ u[j] = gAdd(w[j], gMul(v[j], x))
                         /\ w[j] \in Coeff /\ v[j] \in Coeff
  <2>1. TimesVector(v, x) \in Vector /\ \A j \in Offsets : TimesVector(v, x)[j] = gMul(v[j], x)
    BY VectorClosure
  <2>2. \A j \in Offsets : u[j] = gAdd(w[j], TimesVector(v, x)[j])
    BY DEF PlusVector
  <2> QED
    BY <1>0, <2>1, <2>2 DEF Vector
<1>2. u[i] # 0 /\ \A j \in 0 .. i - 1 : u[j] = 0
  BY DEF StartsAt
<1>3. v[p] # 0 /\ \A j \in 0 .. p - 1 : v[j] = 0
  BY DEF StartsAt
<1> HIDE DEF u
<1>4. ASSUME NEW j \in Offsets, x = 0 \/ v[j] = 0
      PROVE  u[j] = w[j]
  <2>1. u[j] = gAdd(w[j], gMul(v[j], x)) /\ w[j] \in Coeff /\ v[j] \in Coeff
    BY <1>1
  <2>2. gMul(v[j], x) = 0
    BY <1>4, <2>1, FieldAssumption
  <2> QED
    BY <2>1, <2>2, FieldAssumption
<1>5. CASE x = 0 \/ i < p
  <2>1. \A j \in 0 .. i : u[j] = w[j]
    BY <1>0, <1>3, <1>4, <1>5
  <2>2. StartsAt(w, i)
    BY <1>0, <1>2, <2>1 DEF StartsAt
  <2> QED
    BY <2>2 DEF Starts
<1>6. CASE x # 0 /\ p < i
  <2>1. \A j \in 0 .. p - 1 : w[j] = 0
    BY <1>0, <1>2, <1>3, <1>4, <1>6
  <2>2. w[p] # 0
    <3>1. u[p] = 0
      BY <1>0, <1>2, <1>6
    <3>2. gMul(v[p], x) # 0 /\ gMul(v[p], x) \in Coeff
      BY <1>1, <1>3, <1>6, FieldAssumption
    <3>3. gAdd(0, gMul(v[p], x)) # 0
      BY <3>2, FieldAssumption
    <3> QED
      BY <1>1, <3>1, <3>3
  <2>3. StartsAt(w, p)
    BY <2>1, <2>2 DEF StartsAt
  <2>4. p \in P
    BY <2>3 DEF Starts
  <2> QED
    BY <2>4
<1> QED
  BY <1>0, <1>5, <1>6

\* What the sink knows.  Until the combination in hand is reduced, all that was
\* heard is spanned by it and a space the rows are a basis of.
Basis(s, H) ==
  /\ Space(H) /\ Starts(H, Pivots(s))
  /\ \A q \in Pivots(s) : s.rows[q].comp \in H

Learnt(s, S) ==
  IF s.phase = "eliminate" THEN \E H : Basis(s, H) /\ S = Span(H, s.in.comp)
  ELSE Basis(s, S)

SinkKnows == Learnt(sink, heard)

LEMMA LearntInit == SinkInit => SinkKnows
<1> SUFFICES ASSUME SinkInit PROVE Basis(EmptySink, {ZeroVector})
  BY DEF SinkInit, Learnt, SinkKnows, EmptySink
<1>1. ZeroVector \in Vector
  BY FieldAssumption DEF ZeroVector, Vector
<1>2. Space({ZeroVector})
  BY <1>1, SumLaws, ProductLaws, FieldAssumption DEF Space
<1>3. Starts({ZeroVector}, {})
  BY DEF Starts, StartsAt, ZeroVector
<1>4. Pivots(EmptySink) = {}
  BY DEF Pivots, EmptySink
<1> QED
  BY <1>2, <1>3, <1>4 DEF Basis

\* A call of solve begins: the rows are a basis of what was heard before.
LEMMA LearntSolve ==
  ASSUME SinkOK(sink), Learnt(sink, heard), NEW c \in Combination, Receive(c)
  PROVE  Learnt(sink', heard')
<1>1. sink \in SinkState /\ sink.phase = "idle" /\ sink' = Solve(sink, c)
  BY DEF SinkOK, Receive
<1>2. Basis(sink, heard)
  BY <1>1 DEF Learnt
<1>3. CASE sink.finished
  BY <1>1, <1>2, <1>3 DEF Receive, Solve, Learnt
<1>4. CASE ~sink.finished /\ isNull(c)
  <2>1. c.comp = ZeroVector
    BY <1>4 DEF isNull, Components, Combination, Vector, ZeroVector
  <2>2. Span(heard, ZeroVector) = heard
    <3>1. \A w \in heard, x \in Coeff : PlusVector(w, TimesVector(ZeroVector, x)) = w
      BY <1>2, SumLaws, ProductLaws DEF Basis, Space
    <3> QED
      BY <3>1, FieldAssumption DEF Span
  <2>3. sink' = sink /\ heard' = heard
    BY <1>1, <1>4, <2>1, <2>2 DEF Receive, Solve
  <2> QED
    BY <1>1, <1>2, <2>3 DEF Learnt
<1>5. CASE ~sink.finished /\ ~isNull(c)
  <2>1. /\ sink'.phase = "eliminate" /\ sink'.in = c /\ sink'.rows = sink.rows
        /\ heard' = Span(heard, c.comp)
    BY <1>1, <1>5 DEF Receive, Solve, SinkState
  <2>2. Basis(sink', heard)
    BY <1>2, <2>1 DEF Basis, Pivots
  <2> QED
    BY <2>1, <2>2 DEF Learnt
<1> QED
  BY <1>3, <1>4, <1>5

LEMMA LearntEliminate ==
  ASSUME NEW s, SinkOK(s), NEW S, Learnt(s, S), CanEliminate(s)
  PROVE  Learnt(Eliminate(s), S)
<1> DEFINE p == firstComponent(s.in)
           r == TimesVector(s.rows[p].comp, s.in.comp[p])
<1>1. s \in SinkState /\ s.phase = "eliminate" /\ s.in \in Combination /\ p \in Pivots(s)
  BY DEF SinkOK, SinkState, CanEliminate
<1>2. PICK H : Basis(s, H) /\ S = Span(H, s.in.comp)
  BY <1>1 DEF Learnt
<1>3. s.rows[p] \in Combination /\ s.in.comp[p] \in Coeff /\ s.in.comp \in Vector
  BY <1>1, RowsAreCombinations, FirstIsLeast DEF CanEliminate, Combination
<1>4. r \in H
  BY <1>1, <1>2, <1>3 DEF Basis, Space
<1>5. Plus(s.in, Times(s.rows[p], s.in.comp[p])).comp = PlusVector(s.in.comp, r)
  BY <1>1, <1>3, RowOperations
<1> HIDE DEF r
<1>6. /\ Eliminate(s).phase = "eliminate" /\ Eliminate(s).rows = s.rows
      /\ Eliminate(s).in.comp = PlusVector(s.in.comp, r)
  BY <1>1, <1>5 DEF Eliminate, SinkState
<1>7. S = Span(H, Eliminate(s).in.comp)
  BY <1>2, <1>3, <1>4, <1>6, SpanReduced DEF Basis
<1>8. Basis(Eliminate(s), H)
  BY <1>2, <1>6 DEF Basis, Pivots
<1> QED
  BY <1>6, <1>7, <1>8 DEF Learnt

\* What is reduced to nothing was known.
LEMMA LearntDiscard ==
  ASSUME NEW s, SinkOK(s), NEW S, Learnt(s, S), CanDiscard(s)
  PROVE  Learnt(Idle(s), S)
<1>1. s \in SinkState /\ s.phase = "eliminate" /\ s.in \in Combination /\ isNull(s.in)
  BY DEF SinkOK, SinkState, CanDiscard
<1>2. PICK H : Basis(s, H) /\ S = Span(H, s.in.comp)
  BY <1>1 DEF Learnt
<1>3. s.in.comp = ZeroVector
  BY <1>1 DEF isNull, Components, Combination, Vector, ZeroVector
<1>4. \A w \in H, x \in Coeff : PlusVector(w, TimesVector(ZeroVector, x)) = w
  BY <1>2, SumLaws, ProductLaws DEF Basis, Space
<1>5. S = H
  BY <1>2, <1>3, <1>4, FieldAssumption DEF Span
<1>6. Idle(s).phase = "idle" /\ Idle(s).rows = s.rows
  BY <1>1 DEF Idle, SinkState
<1> QED
  BY <1>2, <1>5, <1>6 DEF Learnt, Basis, Pivots

\* What cannot be reduced becomes a row, at the offset where it starts.
LEMMA LearntInsert ==
  ASSUME NEW s, SinkOK(s), NEW S, Learnt(s, S), CanInsert(s)
  PROVE  Learnt(Insert(s), S)
<1> DEFINE p == firstComponent(s.in)
           r == Over(s.in, s.in.comp[p])
           P == Pivots(s) \cup {p}
           new == [q \in P |-> IF q = p THEN r ELSE s.rows[q]]
<1>1. /\ s \in SinkState /\ s.phase = "eliminate" /\ s.in \in Combination
      /\ ~isNull(s.in) /\ p \notin Pivots(s) /\ s.in.comp \in Vector
  BY DEF SinkOK, SinkState, CanInsert, Combination
<1>2. PICK H : Basis(s, H) /\ S = Span(H, s.in.comp)
  BY <1>1 DEF Learnt
<1>3. /\ p \in Offsets /\ s.in.comp[p] \in Coeff \ {0}
      /\ \A i \in Offsets : i < p => s.in.comp[i] = 0
  BY <1>1, FirstIsLeast
<1>4. StartsAt(s.in.comp, p)
  BY <1>3, SizeAssumption DEF StartsAt, Offsets
<1>5. Space(S) /\ H \subseteq S /\ s.in.comp \in S
  BY <1>1, <1>2, SpanIsSpace DEF Basis
<1>6. Starts(S, P)
  BY <1>1, <1>2, <1>3, <1>4, SpanStarts DEF Basis
<1>7. r.comp \in S
  <2>1. gInv(s.in.comp[p]) \in Coeff
    BY <1>3, FieldAssumption
  <2>2. r.comp = TimesVector(s.in.comp, gInv(s.in.comp[p]))
    BY <1>1, <2>1, RowOperations DEF Over
  <2> QED
    BY <1>5, <2>1, <2>2 DEF Space
<1> HIDE DEF r
<1>8. \A q \in P : new[q].comp \in S
  BY <1>2, <1>5, <1>7 DEF Basis
<1>9. Insert(s).phase = "substitute" /\ Insert(s).rows = new
  BY <1>1 DEF Insert, SinkState, r
<1> HIDE DEF p
<1>10. Pivots(Insert(s)) = P
  BY <1>9 DEF Pivots
<1> HIDE DEF new, P
<1> QED
  BY <1>5, <1>6, <1>8, <1>9, <1>10 DEF Learnt, Basis

LEMMA LearntSubstitute ==
  ASSUME NEW s, SinkOK(s), NEW S, Learnt(s, S), CanSubstitute(s)
  PROVE  Learnt(Substitute(s), S)
<1> DEFINE q == Largest(Solvers(s))
           c == s.rows[s.row]
           e == Plus(c, Times(s.rows[q], c.comp[q]))
<1>1. /\ s \in SinkState /\ s.phase = "substitute" /\ s.row \in Pivots(s)
      /\ Pivots(s) \in SUBSET Offsets /\ Basis(s, S)
  BY RowsAreCombinations DEF SinkOK, CanSubstitute, Learnt
<1>2. q \in Pivots(s)
  <2>1. Solvers(s) \in SUBSET Offsets /\ Solvers(s) # {}
    BY <1>1 DEF Solvers, CanSubstitute
  <2> QED
    BY <2>1, LargestOffset DEF Solvers
<1>3. CASE isCoded(s.rows[q])
  <2>1. Substitute(s).phase = "substitute" /\ Substitute(s).rows = s.rows
    BY <1>1, <1>3 DEF Substitute, SinkState
  <2> QED
    BY <1>1, <2>1 DEF Learnt, Basis, Pivots
<1>4. CASE ~isCoded(s.rows[q])
  <2>1. c \in Combination /\ s.rows[q] \in Combination /\ c.comp[q] \in Coeff
    BY <1>1, <1>2, RowsAreCombinations DEF Combination, Vector
  <2>2. e.comp = PlusVector(c.comp, TimesVector(s.rows[q].comp, c.comp[q]))
    BY <2>1, RowOperations
  <2>3. e.comp \in S
    BY <1>1, <1>2, <2>1, <2>2 DEF Basis, Space
  <2> HIDE DEF e
  <2>4. Substitute(s).phase = "substitute" /\ Substitute(s).rows = [s.rows EXCEPT ![s.row] = e]
    BY <1>1, <1>4 DEF Substitute, SinkState, e
  <2>5. Pivots(Substitute(s)) = Pivots(s)
    BY <2>4 DEF Pivots
  <2>6. \A k \in Pivots(s) : Substitute(s).rows[k].comp \in S
    BY <1>1, <2>3, <2>4 DEF Basis, Pivots
  <2> QED
    BY <1>1, <2>4, <2>5, <2>6 DEF Learnt, Basis
<1> QED
  BY <1>3, <1>4

LEMMA LearntCount ==
  ASSUME NEW s, SinkOK(s), NEW S, Learnt(s, S)
  PROVE  /\ CanDescend(s) => Learnt(Descend(s), S)
         /\ CanCount(s) => Learnt(Count(s), S)
<1>1. ASSUME CanDescend(s) PROVE Learnt(Descend(s), S)
  <2>1. s \in SinkState /\ s.phase = "substitute"
    BY <1>1 DEF SinkOK, CanDescend, RowDone
  <2>2. Descend(s).phase = "substitute" /\ Descend(s).rows = s.rows
    BY <2>1 DEF Descend, SinkState
  <2> QED
    BY <2>1, <2>2 DEF Learnt, Basis, Pivots
<1>2. ASSUME CanCount(s) PROVE Learnt(Count(s), S)
  <2>1. s.phase = "substitute"
    BY <1>2 DEF CanCount, RowDone
  <2>2. Count(s).rows = s.rows /\ Count(s).phase = "idle"
    BY CountOK
  <2> QED
    BY <2>1, <2>2 DEF Learnt, Basis, Pivots
<1> QED
  BY <1>1, <1>2

LEMMA LearntNext ==
  IInv /\ SinkKnows /\ [SinkNext]_sinkVars => SinkKnows'
<1> SUFFICES ASSUME IInv, Learnt(sink, heard), [SinkNext]_sinkVars
             PROVE  Learnt(sink', heard')
  BY DEF SinkKnows
<1>0. SinkOK(sink)
  BY DEF IInv
<1>1. CASE ReceiveAny
  <2>1. PICK c \in GenerateFile(MaxChunks) : Receive(c)
    BY <1>1 DEF ReceiveAny
  <2>2. c \in Combination
    BY GeneratedFromFile, SizeAssumption
  <2> QED
    BY <1>0, <2>1, <2>2, LearntSolve
<1>2. CASE EliminateOne
  BY <1>0, <1>2, LearntEliminate DEF EliminateOne, Turn
<1>3. CASE Discard
  BY <1>0, <1>3, LearntDiscard DEF Discard, Turn
<1>4. CASE InsertRow
  BY <1>0, <1>4, LearntInsert DEF InsertRow, Turn
<1>5. CASE SubstituteOne
  BY <1>0, <1>5, LearntSubstitute DEF SubstituteOne, Turn
<1>6. CASE NextRow
  BY <1>0, <1>6, LearntCount DEF NextRow, Turn
<1>7. CASE CountRows
  BY <1>0, <1>7, LearntCount DEF CountRows, Turn
<1>8. CASE UNCHANGED sinkVars
  BY <1>8 DEF sinkVars
<1> QED
  BY <1>1, <1>2, <1>3, <1>4, <1>5, <1>6, <1>7, <1>8 DEF SinkNext, SolveStep

LEMMA KnownIsKept == SinkKnows => NothingIsLost
BY DEF SinkKnows, Learnt, Basis, Starts, NothingIsLost, Row

\* The rows of a sink are a basis of all it has heard of, over any field: no
\* combination that says something new is ever discarded, and none is taken for
\* more than it says, whatever came before it.
THEOREM HeardIsKept == SinkSpec => []NothingIsLost
BY InitIInv, NextIInv, LearntInit, LearntNext, KnownIsKept, PTL DEF SinkSpec

-----------------------------------------------------------------------------
(* Turns of solve: the safety under SolveReturns.                          *)

\* Where a call of solve is after a turn: at its end, or at a later coefficient
\* of the combination in hand, or at a row further up, or at the same row and a
\* column further to the left.
Descends(s, t) ==
  \/ t.phase = "idle"
  \/ /\ s.phase = "eliminate" /\ ~isNull(s.in)
     /\ \/ t.phase = "substitute"
        \/ /\ t.phase = "eliminate"
           /\ isNull(t.in) \/ firstComponent(t.in) > firstComponent(s.in)
  \/ /\ s.phase = "substitute" /\ t.phase = "substitute"
     /\ t.row < s.row \/ (t.row = s.row /\ t.col < s.col)

SolveCan(s) ==
  \/ CanEliminate(s) \/ CanDiscard(s) \/ CanInsert(s)
  \/ CanSubstitute(s) \/ CanDescend(s) \/ CanCount(s)

\* The coefficient at the pivot is cancelled, as are none before it.
LEMMA EliminateDescends ==
  ASSUME NEW s, SinkOK(s), CanEliminate(s)
  PROVE  Descends(s, Eliminate(s))
<1> DEFINE p == firstComponent(s.in)
           e == Plus(s.in, Times(s.rows[p], s.in.comp[p]))
<1>1. /\ s \in SinkState /\ s.in \in Combination /\ ~isNull(s.in) /\ p \in Pivots(s)
      /\ s.phase = "eliminate"
  BY DEF SinkOK, SinkState, CanEliminate
<1>2. /\ p \in Offsets /\ s.in.comp[p] \in Coeff \ {0}
      /\ \A i \in Offsets : i < p => s.in.comp[i] = 0
  BY <1>1, FirstIsLeast
<1>3. s.rows[p] \in Combination /\ Triangular(s.rows[p], p)
  BY <1>1, RowsAreCombinations DEF SinkOK, RowOK
<1>4. e \in Combination
      /\ \A i \in Offsets : e.comp[i] = gAdd(s.in.comp[i], gMul(s.rows[p].comp[i], s.in.comp[p]))
  BY <1>1, <1>2, <1>3, AddMultiple
<1>5. Eliminate(s).phase = "eliminate" /\ Eliminate(s).in = e
  BY <1>1 DEF Eliminate, SinkState
<1> HIDE DEF e
<1>6. e.comp[p] = 0
  <2>1. e.comp[p] = gAdd(s.in.comp[p], gMul(1, s.in.comp[p]))
    BY <1>2, <1>3, <1>4 DEF Triangular
  <2> QED
    BY <1>2, <2>1, FieldAssumption
<1>7. \A i \in Offsets : i < p => e.comp[i] = 0
  <2> SUFFICES ASSUME NEW i \in Offsets, i < p PROVE e.comp[i] = 0
    OBVIOUS
  <2>1. s.in.comp[i] = 0 /\ s.rows[p].comp[i] = 0
    BY <1>2, <1>3 DEF Triangular
  <2>2. gMul(0, s.in.comp[p]) = 0 /\ gAdd(0, 0) = 0
    BY <1>2, FieldAssumption
  <2> QED
    BY <1>4, <2>1, <2>2
<1>8. isNull(e) \/ firstComponent(e) > p
  <2> SUFFICES ASSUME ~isNull(e) PROVE firstComponent(e) > p
    OBVIOUS
  <2>1. firstComponent(e) \in Offsets /\ e.comp[firstComponent(e)] # 0
    BY <1>4, FirstIsLeast
  <2>2. ~(firstComponent(e) < p) /\ firstComponent(e) # p
    BY <1>6, <1>7, <2>1
  <2>3. p \in Nat /\ firstComponent(e) \in Nat
    BY <1>2, <2>1, SizeAssumption DEF Offsets
  <2> QED
    BY <2>2, <2>3
<1> QED
  BY <1>1, <1>5, <1>8 DEF Descends

LEMMA SubstituteDescends ==
  ASSUME NEW s, SinkOK(s), CanSubstitute(s)
  PROVE  Descends(s, Substitute(s))
<1> DEFINE q == Largest(Solvers(s))
<1>1. /\ s \in SinkState /\ s.phase = "substitute" /\ Pivots(s) \in SUBSET Offsets
      /\ s.row \in Nat /\ s.col \in Nat
  BY RowsAreCombinations, SizeAssumption DEF SinkOK, CanSubstitute, SinkState
<1>2. q \in Nat /\ s.row < q /\ q < s.col
  <2>1. Solvers(s) \in SUBSET Offsets /\ Solvers(s) # {}
    BY <1>1 DEF Solvers, CanSubstitute
  <2>2. q \in Solvers(s)
    BY <2>1, LargestOffset
  <2> QED
    BY <2>1, <2>2, SizeAssumption DEF Solvers, Offsets
<1>3. /\ Substitute(s).phase = "substitute" /\ Substitute(s).row = s.row
      /\ Substitute(s).col = s.row \/ Substitute(s).col = q
  BY <1>1 DEF Substitute, SinkState
<1> HIDE DEF q
<1> QED
  BY <1>1, <1>2, <1>3 DEF Descends

LEMMA DescendDescends ==
  ASSUME NEW s, SinkOK(s), CanDescend(s)
  PROVE  Descends(s, Descend(s))
<1> DEFINE q == Largest(Below(s))
<1>1. /\ s \in SinkState /\ s.phase = "substitute" /\ Pivots(s) \in SUBSET Offsets
  BY RowsAreCombinations DEF SinkOK, CanDescend, RowDone
<1>2. q < s.row
  <2>1. Below(s) \in SUBSET Offsets /\ Below(s) # {}
    BY <1>1 DEF Below, CanDescend
  <2> QED
    BY <2>1, LargestOffset DEF Below
<1>3. Descend(s).phase = "substitute" /\ Descend(s).row = q
  BY <1>1 DEF Descend, SinkState
<1> QED
  BY <1>1, <1>2, <1>3 DEF Descends

\* A call of solve is never stuck, and each of its turns brings it nearer to its
\* end: the elimination goes on to a later coefficient, the substitution to a
\* row above or a column to the left, and both are bounded by the chunks of the
\* block (fountain.cpp:629-697).  No combination keeps solve turning.
THEOREM SolveDescends ==
  SinkSpec => /\ [](sink.phase # "idle" => SolveCan(sink))
              /\ [][SolveStep => Descends(sink, sink')]_sinkVars
<1>1. IInv => (sink.phase # "idle" => SolveCan(sink))
  <2> SUFFICES ASSUME IInv, sink.phase # "idle" PROVE SolveCan(sink)
    OBVIOUS
  <2>1. sink.phase \in {"eliminate", "substitute"}
    BY DEF IInv, SinkOK, SinkState
  <2> QED
    BY <2>1 DEF SolveCan, CanEliminate, CanDiscard, CanInsert, CanSubstitute, CanDescend,
                CanCount, RowDone
<1>2. IInv /\ SolveStep => Descends(sink, sink')
  <2> SUFFICES ASSUME IInv, SolveStep PROVE Descends(sink, sink')
    OBVIOUS
  <2>0. SinkOK(sink) /\ sink \in SinkState
    BY DEF IInv, SinkOK
  <2>1. CASE EliminateOne
    BY <2>0, <2>1, EliminateDescends DEF EliminateOne, Turn
  <2>2. CASE Discard
    BY <2>0, <2>2 DEF Discard, Turn, Idle, SinkState, Descends
  <2>3. CASE InsertRow
    <3>1. sink'.phase = "substitute" /\ sink.phase = "eliminate" /\ ~isNull(sink.in)
      BY <2>0, <2>3 DEF InsertRow, Turn, CanInsert, Insert, SinkState
    <3> QED
      BY <3>1 DEF Descends
  <2>4. CASE SubstituteOne
    BY <2>0, <2>4, SubstituteDescends DEF SubstituteOne, Turn
  <2>5. CASE NextRow
    BY <2>0, <2>5, DescendDescends DEF NextRow, Turn
  <2>6. CASE CountRows
    BY <2>0, <2>6, CountOK DEF CountRows, Turn, Descends
  <2> QED
    BY <2>1, <2>2, <2>3, <2>4, <2>5, <2>6 DEF SolveStep
<1>3. IInv /\ [SinkNext]_sinkVars => IInv'
  BY NextIInv
<1>4. IInv /\ [SinkNext]_sinkVars => [SolveStep => Descends(sink, sink')]_sinkVars
  BY <1>2
<1> QED
  BY InitIInv, <1>1, <1>3, <1>4, PTL DEF SinkSpec
=============================================================================
