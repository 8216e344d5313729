----------------------------- MODULE FlowProofs -----------------------------
(***************************************************************************)
(* Proofs about module Flow, for any field, any sizes, any traffic and any *)
(* losses: the counters of a link are consistent, and what a source lets   *)
(* go of the other end has seen.  As long as no source holds more chunks   *)
(* than GenerateSize, the flow implements ReliableStream.                  *)
(***************************************************************************)
EXTENDS Flow, FountainProofs, SequenceTheorems, FiniteSetTheorems

\* A link has two ends, and each is the peer of the other.
LEMMA TwoEnds ==
  \A e \in Ends : /\ Peer(e) \in Ends /\ Peer(e) # e /\ Peer(Peer(e)) = e
                  /\ \A x \in Ends : x = e \/ x = Peer(e)
<1> SUFFICES ASSUME NEW e \in Ends
             PROVE  \E p \in Ends : p # e /\ \A x \in Ends : x = e \/ x = p
  BY DEF Peer
<1>1. IsFiniteSet(Ends \ {e}) /\ Cardinality(Ends \ {e}) = 1
  <2>1. IsFiniteSet(Ends) /\ Cardinality(Ends) = 2
    BY FlowAssumption
  <2> QED
    BY <2>1, FS_RemoveElement
<1>2. PICK p : Ends \ {e} = {p}
  BY <1>1, FS_Singleton
<1> QED
  BY <1>2

\* The sizes and the tuning constants are numbers.
LEMMA FlowNumbers ==
  /\ MaxChunks \in Nat \ {0} /\ GenerateSize \in Nat \ {0} /\ Width \in Nat \ {0}
  /\ DefaultTokens \in Nat \ {0} /\ DefaultThreshold \in Nat /\ Trigger \in Nat
  /\ One = 10 /\ Redundancy = 12
<1>1. Width > 2 * MaxChunks /\ MaxChunks \in Nat \ {0} /\ Width \in Nat
  BY FlowAssumption, SizeAssumption
<1> QED
  BY <1>1, FlowAssumption, SizeAssumption DEF One, Redundancy

-----------------------------------------------------------------------------
(* The sink of a link, which drops the rows that are read and not needed.  *)

LEMMA PivotIsDiscovered ==
  ASSUME NEW s, SinkOK(s), NEW q \in Pivots(s)
  PROVE  q \in Offsets /\ q + 1 <= s.nextDiscovered
<1>1. s \in SinkState /\ RowOK(s.rows[q], q, s.nextDiscovered)
  BY DEF SinkOK
<1>2. q \in Offsets /\ s.rows[q].comp[q] = 1 /\ s.nextDiscovered \in Nat
  BY <1>1, RowsAreCombinations, FlowNumbers DEF RowOK, Triangular, SinkState
<1>3. ~(q >= s.nextDiscovered)
  BY <1>1, <1>2 DEF RowOK, Within
<1> QED
  BY <1>2, <1>3, FlowNumbers DEF Offsets

\* What is seen is the least bound of what is read and of the pivots.
LEMMA SeenBounds ==
  ASSUME NEW s \in SinkState
  PROVE  /\ Seen(s) \in Nat /\ s.nextRead <= Seen(s)
         /\ \A q \in Pivots(s) : q + 1 <= Seen(s)
         /\ Seen(s) = s.nextRead \/ \E q \in Pivots(s) : Seen(s) = q + 1
<1>1. s.nextRead \in Nat /\ Pivots(s) \in SUBSET Offsets /\ Offsets \subseteq Nat
  BY RowsAreCombinations, FlowNumbers DEF SinkState, Offsets
<1>2. CASE Pivots(s) = {}
  BY <1>1, <1>2 DEF Seen
<1>3. CASE Pivots(s) # {}
  <2> DEFINE top == Largest(Pivots(s))
  <2>1. top \in Pivots(s) /\ \A m \in Pivots(s) : m <= top
    BY <1>1, <1>3, LargestOffset
  <2>2. Seen(s) = Greatest(s.nextRead, top + 1)
    BY <1>3 DEF Seen
  <2> HIDE DEF top
  <2>3. top \in Nat /\ \A m \in Pivots(s) : m \in Nat /\ m <= top
    BY <1>1, <2>1
  <2>4. /\ Seen(s) \in Nat /\ s.nextRead <= Seen(s) /\ top + 1 <= Seen(s)
        /\ Seen(s) = s.nextRead \/ Seen(s) = top + 1
    BY <1>1, <2>2, <2>3 DEF Greatest
  <2>5. \A m \in Pivots(s) : m + 1 <= Seen(s)
    BY <2>3, <2>4
  <2> QED
    BY <2>1, <2>4, <2>5
<1> QED
  BY <1>2, <1>3

\* It does not move back when rows are added, or dropped because they are read.
LEMMA SeenGrows ==
  ASSUME NEW s \in SinkState, NEW t \in SinkState, s.nextRead <= t.nextRead,
         \A q \in Pivots(s) : q \in Pivots(t) \/ q + 1 <= t.nextRead
  PROVE  Seen(s) <= Seen(t)
<1>1. /\ Seen(s) \in Nat /\ Seen(t) \in Nat /\ s.nextRead \in Nat /\ t.nextRead \in Nat
      /\ Seen(s) = s.nextRead \/ \E q \in Pivots(s) : Seen(s) = q + 1
      /\ t.nextRead <= Seen(t) /\ \A q \in Pivots(t) : q + 1 <= Seen(t)
  BY SeenBounds, FlowNumbers DEF SinkState
<1> QED
  BY <1>1

\* It goes no further than what is discovered.
LEMMA SeenIsDiscovered ==
  ASSUME NEW s, SinkOK(s), s.nextRead <= s.nextDiscovered
  PROVE  Seen(s) <= s.nextDiscovered
BY SeenBounds, PivotIsDiscovered DEF SinkOK

\* A row may be read once it is decoded.
LEMMA ReadOK ==
  ASSUME NEW s, SinkOK(s), CanRead(s)
  PROVE  /\ SinkOK(Read(s))
         /\ SinkFaithful(s) => SinkFaithful(Read(s)) /\ ReadData(s) = UnitVector(s.nextRead)
         /\ ReadData(s) \in Vector
         /\ Read(s) = [s EXCEPT !.nextRead = s.nextRead + 1]
         /\ s.nextRead + 1 <= s.nextDiscovered
<1>1. s \in SinkState /\ s.nextRead \in Pivots(s) /\ ~isCoded(s.rows[s.nextRead])
  BY DEF SinkOK, CanRead, Decoded
<1>2. s.nextRead \in Offsets /\ s.nextRead + 1 <= s.nextDiscovered
  BY <1>1, PivotIsDiscovered
<1>3. Read(s) = [s EXCEPT !.nextRead = s.nextRead + 1]
  BY DEF Read
<1>4. s.nextRead + 1 \in 0 .. MaxChunks
  BY <1>2, FlowNumbers DEF Offsets
<1>5. Read(s) \in SinkState
  BY <1>1, <1>3, <1>4 DEF SinkState
<1>6. /\ Read(s).rows = s.rows /\ Read(s).in = s.in /\ Read(s).phase = s.phase
      /\ Read(s).row = s.row /\ Read(s).nextDecoded = s.nextDecoded
      /\ Read(s).nextSeen = s.nextSeen /\ Read(s).nextDiscovered = s.nextDiscovered
  BY <1>1, <1>3 DEF SinkState
<1>7. SinkOK(Read(s)) /\ (SinkFaithful(s) => SinkFaithful(Read(s)))
  BY <1>5, <1>6 DEF SinkOK, SinkFaithful, Pivots
<1>8. s.rows[s.nextRead] \in Combination
  BY <1>1, RowsAreCombinations
<1>9. s.rows[s.nextRead].comp = UnitVector(s.nextRead)
  BY <1>1, <1>2, <1>8, UncodedRow DEF SinkOK, RowOK
<1>10. ReadData(s) \in Vector
  BY <1>8 DEF ReadData, Combination
<1>11. SinkFaithful(s) => ReadData(s) = UnitVector(s.nextRead)
  BY <1>1, <1>9 DEF SinkFaithful, Faithful, ReadData
<1> QED
  BY <1>2, <1>3, <1>7, <1>10, <1>11

\* The rows that are dropped have been read, so that what is seen stays.
LEMMA DropOK ==
  ASSUME NEW s, SinkOK(s), NEW n
  PROVE  /\ SinkOK(Idle(DropSink(s, n)))
         /\ SinkFaithful(s) => SinkFaithful(Idle(DropSink(s, n)))
         /\ Seen(s) <= Seen(Idle(DropSink(s, n)))
         /\ Idle(DropSink(s, n)).nextRead = s.nextRead
         /\ Idle(DropSink(s, n)).nextSeen = s.nextSeen
         /\ Idle(DropSink(s, n)).nextDiscovered = s.nextDiscovered
         /\ Idle(DropSink(s, n)).phase = "idle"
<1> DEFINE old == {q \in Pivots(s) : q + 1 < s.nextRead /\ q < n}
           kept == Pivots(s) \ old
           rows == [q \in kept |-> s.rows[q]]
           gone == s.dropped + Cardinality(old)
           t == Idle(DropSink(s, n))
<1>1. s \in SinkState /\ Pivots(s) \in SUBSET Offsets
      /\ \A q \in Pivots(s) : s.rows[q] \in Combination
  BY RowsAreCombinations DEF SinkOK
<1>2. gone \in Nat
  <2>1. IsFiniteSet(Offsets)
    BY FS_Interval, FlowNumbers DEF Offsets
  <2>2. old \in SUBSET Offsets
    BY <1>1
  <2>3. IsFiniteSet(old) /\ Cardinality(old) \in Nat
    BY <2>1, <2>2, FS_Subset, FS_CardinalityType
  <2> QED
    BY <1>1, <2>3 DEF SinkState
<1>3. t = [s EXCEPT !.rows = rows, !.dropped = gone, !.phase = "idle",
                    !.in = NullCombination, !.row = 0, !.col = 0]
  BY <1>1 DEF Idle, DropSink, SinkState
<1>4. rows \in Rows /\ DOMAIN rows = kept /\ \A q \in kept : rows[q] = s.rows[q]
  BY <1>1, RowsMayBe
<1>5. NullCombination \in Combination /\ 0 \in 0 .. MaxChunks
  BY NullIsCombination, FlowNumbers
<1> HIDE DEF gone, rows, kept
<1>6. t \in SinkState
  BY <1>1, <1>2, <1>3, <1>4, <1>5, ZenonT(40) DEF SinkState
<1>7. /\ t.rows = rows /\ t.in = NullCombination /\ t.phase = "idle"
      /\ t.nextRead = s.nextRead /\ t.nextSeen = s.nextSeen
      /\ t.nextDecoded = s.nextDecoded /\ t.nextDiscovered = s.nextDiscovered
  BY <1>1, <1>3 DEF SinkState
<1> HIDE DEF t
<1>8. Pivots(t) = kept
  BY <1>4, <1>7 DEF Pivots
<1>9. kept \subseteq Pivots(s) /\ \A q \in Pivots(s) : q \in kept \/ q + 1 < s.nextRead
  BY DEF kept
<1>10. Within(NullCombination, s.nextDiscovered) /\ Faithful(NullCombination)
  BY DEF Within, Faithful, NullCombination, ZeroVector
<1>11. SinkOK(t)
  BY <1>4, <1>6, <1>7, <1>8, <1>9, <1>10 DEF SinkOK
<1>12. SinkFaithful(s) => SinkFaithful(t)
  BY <1>4, <1>7, <1>8, <1>9, <1>10 DEF SinkFaithful
<1>13. \A q \in Pivots(s) : q \in Pivots(t) \/ q + 1 <= t.nextRead
  BY <1>1, <1>7, <1>8, <1>9, FlowNumbers DEF Offsets, SinkState
<1>14. s.nextRead <= t.nextRead
  BY <1>1, <1>7, FlowNumbers DEF SinkState
<1>15. Seen(s) <= Seen(t)
  BY <1>1, <1>6, <1>13, <1>14, SeenGrows
<1> QED
  BY <1>7, <1>11, <1>12, <1>15 DEF t

\* Until it counts, solve leaves the counters alone; and it adds rows only.
SolveStepOK(s, t) ==
  /\ SinkOK(t)
  /\ SinkFaithful(s) => SinkFaithful(t)
  /\ t.nextDiscovered = s.nextDiscovered /\ t.nextRead = s.nextRead
  /\ t.nextSeen <= Seen(t)
  /\ Seen(s) <= Seen(t)

LEMMA RowsAdded ==
  ASSUME NEW s \in SinkState, NEW t, SinkOK(t),
         SinkFaithful(s) => SinkFaithful(t),
         Pivots(s) \subseteq Pivots(t),
         t.nextDiscovered = s.nextDiscovered, t.nextRead = s.nextRead,
         t.nextSeen = s.nextSeen, s.nextSeen <= Seen(s)
  PROVE  SolveStepOK(s, t)
<1>1. t \in SinkState /\ s.nextRead <= t.nextRead
  BY FlowNumbers DEF SinkState, SinkOK
<1>2. Seen(s) <= Seen(t)
  BY <1>1, SeenGrows
<1>3. s.nextSeen \in Nat /\ Seen(s) \in Nat /\ Seen(t) \in Nat
  BY <1>1, SeenBounds, FlowNumbers DEF SinkState
<1> QED
  BY <1>2, <1>3 DEF SolveStepOK

\* What is counted as seen is a row, or was seen before.
LEMMA CountedIsSeen ==
  ASSUME NEW s, SinkOK(s), s.nextSeen <= Seen(s)
  PROVE  /\ Count(s).nextSeen \in Nat /\ Count(s).nextSeen <= Seen(s)
         /\ Count(s).nextDecoded \in Nat
<1>1. s \in SinkState /\ Pivots(s) \in SUBSET Offsets
  BY RowsAreCombinations DEF SinkOK
<1>2. Count(s) \in SinkState
  BY CountOK DEF SinkOK
<1>3. Count(s).nextSeen = NextSeen(s)
  BY <1>1 DEF Count, Idle, SinkState
<1>4. NextSeen(s) <= Seen(s)
  <2>1. CASE Kept(s) = {}
    BY <2>1 DEF NextSeen
  <2>2. CASE Kept(s) # {}
    <3> DEFINE top == Largest(Kept(s))
    <3>1. top \in Kept(s)
      BY <1>1, <2>2, LargestOffset DEF Kept
    <3>2. top \in Pivots(s) /\ top + 1 <= Seen(s)
      BY <1>1, <3>1, SeenBounds DEF Kept
    <3>3. NextSeen(s) = Greatest(s.nextSeen, top + 1)
      BY <2>2 DEF NextSeen
    <3> HIDE DEF top
    <3> QED
      BY <3>2, <3>3 DEF Greatest
  <2> QED
    BY <2>1, <2>2
<1> QED
  BY <1>2, <1>3, <1>4, FlowNumbers DEF SinkState

LEMMA SolveTurnOK ==
  ASSUME NEW s, SinkOK(s), s.nextSeen <= Seen(s), NEW t,
         \/ CanEliminate(s) /\ t = Eliminate(s)
         \/ CanDiscard(s) /\ t = Idle(s)
         \/ CanInsert(s) /\ t = Insert(s)
         \/ CanSubstitute(s) /\ t = Substitute(s)
         \/ CanDescend(s) /\ t = Descend(s)
         \/ CanCount(s) /\ t = Count(s)
  PROVE  SolveStepOK(s, t)
<1>1. s \in SinkState /\ Pivots(s) \in SUBSET Offsets
  BY RowsAreCombinations DEF SinkOK
<1>2. CASE CanEliminate(s) /\ t = Eliminate(s)
  <2>1. SinkOK(t) /\ (SinkFaithful(s) => SinkFaithful(t))
    BY <1>2, EliminateOK
  <2>2. /\ t.rows = s.rows /\ t.nextDiscovered = s.nextDiscovered
        /\ t.nextRead = s.nextRead /\ t.nextSeen = s.nextSeen
    BY <1>1, <1>2 DEF Eliminate, SinkState
  <2> QED
    BY <1>1, <2>1, <2>2, RowsAdded DEF Pivots
<1>3. CASE CanDiscard(s) /\ t = Idle(s)
  <2>1. SinkOK(t) /\ (SinkFaithful(s) => SinkFaithful(t))
    BY <1>3, IdleOK
  <2>2. /\ t.rows = s.rows /\ t.nextDiscovered = s.nextDiscovered
        /\ t.nextRead = s.nextRead /\ t.nextSeen = s.nextSeen
    BY <1>1, <1>3 DEF Idle, SinkState
  <2> QED
    BY <1>1, <2>1, <2>2, RowsAdded DEF Pivots
<1>4. CASE CanInsert(s) /\ t = Insert(s)
  <2>1. SinkOK(t) /\ (SinkFaithful(s) => SinkFaithful(t))
    BY <1>4, InsertOK
  <2>2. /\ Pivots(t) = Pivots(s) \cup {firstComponent(s.in)}
        /\ t.nextDiscovered = s.nextDiscovered
        /\ t.nextRead = s.nextRead /\ t.nextSeen = s.nextSeen
    BY <1>1, <1>4 DEF Insert, SinkState, Pivots
  <2> QED
    BY <1>1, <2>1, <2>2, RowsAdded
<1>5. CASE CanSubstitute(s) /\ t = Substitute(s)
  <2>1. SinkOK(t) /\ (SinkFaithful(s) => SinkFaithful(t))
    BY <1>5, SubstituteOK
  <2>2. /\ Pivots(t) = Pivots(s) /\ t.nextDiscovered = s.nextDiscovered
        /\ t.nextRead = s.nextRead /\ t.nextSeen = s.nextSeen
    BY <1>1, <1>5 DEF Substitute, SinkState, Pivots
  <2> QED
    BY <1>1, <2>1, <2>2, RowsAdded
<1>6. CASE CanDescend(s) /\ t = Descend(s)
  <2>1. SinkOK(t) /\ (SinkFaithful(s) => SinkFaithful(t))
    BY <1>6, DescendOK
  <2>2. /\ t.rows = s.rows /\ t.nextDiscovered = s.nextDiscovered
        /\ t.nextRead = s.nextRead /\ t.nextSeen = s.nextSeen
    BY <1>1, <1>6 DEF Descend, SinkState
  <2> QED
    BY <1>1, <2>1, <2>2, RowsAdded DEF Pivots
<1>7. CASE CanCount(s) /\ t = Count(s)
  <2>1. /\ SinkOK(t) /\ (SinkFaithful(s) => SinkFaithful(t))
        /\ t.rows = s.rows /\ t.nextDiscovered = s.nextDiscovered
    BY <1>7, CountOK
  <2>2. t.nextRead = s.nextRead
    BY <1>1, <1>7 DEF Count, Idle, SinkState
  <2>3. Seen(t) = Seen(s) /\ t.nextSeen <= Seen(s)
    BY <1>7, <2>1, <2>2, CountedIsSeen DEF Seen, Pivots
  <2>4. Seen(s) <= Seen(s)
    BY <1>1, SeenBounds
  <2> QED
    BY <2>1, <2>2, <2>3, <2>4 DEF SolveStepOK
<1> QED
  BY <1>2, <1>3, <1>4, <1>5, <1>6, <1>7

\* What comes in widens what is discovered no further than it goes itself.
LEMMA SolveWithin ==
  ASSUME NEW s, SinkOK(s), NEW c \in Combination, NEW bound \in Nat,
         Within(c, bound), s.nextDiscovered <= bound
  PROVE  /\ Solve(s, c).nextDiscovered <= bound
         /\ s.nextDiscovered <= Solve(s, c).nextDiscovered
         /\ Within(s.in, bound) => Within(Solve(s, c).in, bound)
         /\ Solve(s, c).rows = s.rows /\ Solve(s, c).nextRead = s.nextRead
         /\ Solve(s, c).nextSeen = s.nextSeen
<1>1. s \in SinkState /\ s.nextDiscovered \in Nat
  BY FlowNumbers DEF SinkOK, SinkState
<1>2. CASE s.finished \/ isNull(c)
  BY <1>1, <1>2 DEF Solve
<1>3. CASE ~(s.finished \/ isNull(c))
  <2> DEFINE next == Greatest(s.nextDiscovered, lastComponent(c) + 1)
  <2>1. lastComponent(c) \in Offsets /\ c.comp[lastComponent(c)] # 0
    BY <1>3, LastIsGreatest DEF Components
  <2>2. lastComponent(c) \in Nat /\ ~(lastComponent(c) >= bound)
    BY <2>1, FlowNumbers DEF Within, Offsets
  <2>3. next <= bound /\ s.nextDiscovered <= next
    BY <1>1, <2>2 DEF Greatest
  <2>4. Solve(s, c) = [s EXCEPT !.nextDiscovered = next, !.phase = "eliminate", !.in = c]
    BY <1>3 DEF Solve
  <2> HIDE DEF next
  <2> QED
    BY <1>1, <2>3, <2>4 DEF SinkState
<1> QED
  BY <1>2, <1>3

-----------------------------------------------------------------------------
(* The source of a link                                                    *)

\* A source generates nothing beyond what has been written; and within
\* GenerateSize, where there is one position to choose, the data it says.
LEMMA GeneratedFromData ==
  ASSUME NEW src \in DataSource, Rank(src) >= 1, NEW c \in GenerateData(src)
  PROVE  /\ c \in Combination /\ Within(c, src.next)
         /\ Rank(src) <= GenerateSize => Faithful(c)
<1> DEFINE n == Rank(src)
           size == WindowSize(n)
<1>1. /\ src.first \in Nat /\ src.next \in Nat /\ src.next <= MaxChunks
      /\ n \in Nat /\ n = src.next - src.first /\ n # 0
  BY FlowNumbers DEF DataSource, Rank
<1>2. PICK f \in WindowStart(n), g \in Coefficients(size) :
        c = [comp |-> Window(src.first + f, g), data |-> Window(src.first, g)]
  BY <1>1 DEF GenerateData
<1> HIDE DEF n
<1>3. /\ size \in 1 .. GenerateSize /\ size <= n
      /\ n <= GenerateSize => size = n
  BY <1>1, FlowNumbers DEF WindowSize, Least
<1> HIDE DEF size
<1>4. f \in Nat /\ f <= n - size
  BY <1>1, <1>2, <1>3, FlowNumbers DEF WindowStart, Least, size
<1>5. g \in [0 .. size - 1 -> Coeff]
  <2>1. CASE size = 1
    BY <1>2, <2>1, FieldAssumption DEF Coefficients
  <2>2. CASE size # 1
    <3>1. size \in 2 .. GenerateSize /\ g \in Draws(size)
      BY <1>2, <1>3, <2>2, FlowNumbers DEF Coefficients
    <3> QED
      BY <3>1, DrawsAssumption
  <2> QED
    BY <2>1, <2>2
<1>6. \A x \in Nat : Window(x, g) \in Vector
  BY <1>5, FieldAssumption DEF Window, Vector
<1>7. c \in Combination
  BY <1>1, <1>2, <1>4, <1>6 DEF Combination
<1>8. Within(c, src.next)
  <2> SUFFICES ASSUME NEW i \in Offsets, i >= src.next PROVE c.comp[i] = 0
    BY DEF Within
  <2>1. i - (src.first + f) \notin DOMAIN g
    BY <1>1, <1>3, <1>4, <1>5, FlowNumbers, SMTT(20) DEF Offsets
  <2> QED
    BY <1>2, <2>1 DEF Window
<1>9. n <= GenerateSize => Faithful(c)
  <2> SUFFICES ASSUME n <= GenerateSize PROVE Faithful(c)
    OBVIOUS
  <2>1. f = 0 /\ src.first + f = src.first
    BY <1>1, <1>3, <1>4
  <2> QED
    BY <1>2, <2>1 DEF Faithful
<1> QED
  BY <1>7, <1>8, <1>9 DEF n

-----------------------------------------------------------------------------
(* The inductive invariant of a link.                                      *)

Lock == [by : {"none", "write", "alarm", "receive", "answer"},
         force : BOOLEAN, sent : BOOLEAN]

Shapes ==
  /\ scenario \in Scenarios \cap Scenario
  /\ source \in [Ends -> DataSource]
  /\ sink \in [Ends -> SinkState]
  /\ accumulator \in [Ends -> Nat] /\ available \in [Ends -> Nat]
  /\ tokens \in [Ends -> Nat] /\ threshold \in [Ends -> Nat]
  /\ congestion \in [Ends -> BOOLEAN] /\ acknowledge \in [Ends -> BOOLEAN]
  /\ closed \in [Ends -> BOOLEAN]
  /\ lock \in [Ends -> Lock]
  /\ reader \in [Ends -> {"receive", "solve"}]
  /\ net \in [Ends -> SUBSET Datagram]
  /\ read \in [Ends -> Seq(Vector)]

\* What an end has written, owes and may send.
Budget(e) ==
  /\ source[e].first <= source[e].next
  /\ source[e].next <= scenario.maxWrites[e]
  /\ accumulator[e] <= Redundancy * Rank(source[e])
  /\ available[e] <= tokens[e]

\* The sink is between two calls of solve while the reader is not in one.
\* From recvCombination until send is done its incoming combination waits,
\* and may reach beyond what is discovered.
Turns(e) ==
  /\ SinkOK(Idle(sink[e]))
  /\ lock[e].by # "receive" => SinkOK(sink[e])
  /\ lock[e].by = "receive" => reader[e] = "receive"
  /\ reader[e] = "receive" \/ lock[e].by = "answer" => sink[e].phase = "idle"

\* From a source w to the sink s of its peer: nothing is discovered that is
\* not written, nor acknowledged, in the datagrams back or by the source that
\* has dropped, that is not seen.
LineOK(w, s, data, acks, chunks) ==
  /\ s.nextRead <= s.nextDiscovered /\ s.nextDiscovered <= w.next
  /\ Within(s.in, w.next)
  /\ \A d \in data : Within(d.combination, w.next)
  /\ s.nextSeen <= Seen(s) /\ w.first <= Seen(s)
  /\ \A d \in acks : d.nextSeen <= Seen(s)
  /\ Len(chunks) = s.nextRead
Line(e) == LineOK(source[Peer(e)], sink[e], net[Peer(e)], net[e], read[e])

FlowInv == Shapes /\ \A e \in Ends : Budget(e) /\ Turns(e) /\ Line(e)

\* While no window is wider than GenerateSize, all that is sent, held and
\* read is the chunks it says.
Narrow == \A e \in Ends : Rank(source[e]) <= GenerateSize
HonestEnd(e) ==
  /\ SinkFaithful(sink[e])
  /\ \A d \in net[e] : Faithful(d.combination)
  /\ \A i \in 1 .. Len(read[e]) : read[e][i] = UnitVector(i - 1)
Honest == \A e \in Ends : HonestEnd(e)

LEMMA WithinMore ==
  ASSUME NEW c, NEW n \in Nat, NEW m \in Nat, n <= m, Within(c, n)
  PROVE  Within(c, m)
BY FlowNumbers DEF Within, Offsets

LEMMA NullIsHarmless ==
  /\ NullCombination \in Combination /\ Faithful(NullCombination)
  /\ \A n \in Nat : Within(NullCombination, n)
BY NullIsCombination DEF Within, Faithful, NullCombination, ZeroVector

\* An idle sink has the rows and the counters of the sink.
LEMMA IdleSame ==
  ASSUME NEW s \in SinkState
  PROVE  /\ Idle(s).rows = s.rows /\ Pivots(Idle(s)) = Pivots(s)
         /\ Idle(s).in = NullCombination /\ Idle(s).phase = "idle"
         /\ Idle(s).nextRead = s.nextRead /\ Idle(s).nextSeen = s.nextSeen
         /\ Idle(s).nextDecoded = s.nextDecoded
         /\ Idle(s).nextDiscovered = s.nextDiscovered
         /\ Seen(Idle(s)) = Seen(s)
         /\ \A n : Idle(DropSink(Idle(s), n)) = Idle(DropSink(s, n))
         /\ SinkFaithful(s) => SinkFaithful(Idle(s))
<1>1. /\ Idle(s).rows = s.rows /\ Pivots(Idle(s)) = Pivots(s)
      /\ Idle(s).in = NullCombination /\ Idle(s).phase = "idle"
      /\ Idle(s).nextRead = s.nextRead /\ Idle(s).nextSeen = s.nextSeen
      /\ Idle(s).nextDecoded = s.nextDecoded /\ Idle(s).dropped = s.dropped
      /\ Idle(s).nextDiscovered = s.nextDiscovered
  BY DEF Idle, SinkState, Pivots
<1>2. \A n : Idle(DropSink(Idle(s), n)) = Idle(DropSink(s, n))
  <2> SUFFICES ASSUME NEW n PROVE Idle(DropSink(Idle(s), n)) = Idle(DropSink(s, n))
    OBVIOUS
  <2> DEFINE old == {q \in Pivots(s) : q + 1 < s.nextRead /\ q < n}
             rows == [q \in Pivots(s) \ old |-> s.rows[q]]
             gone == s.dropped + Cardinality(old)
  <2>1. DropSink(s, n) = [s EXCEPT !.rows = rows, !.dropped = gone]
    BY DEF DropSink, SinkState
  <2>2. DropSink(Idle(s), n) = [Idle(s) EXCEPT !.rows = rows, !.dropped = gone]
    BY <1>1 DEF DropSink
  <2> HIDE DEF old, rows, gone
  <2> QED
    BY <2>1, <2>2 DEF Idle, SinkState
<1> QED
  BY <1>1, <1>2, NullIsHarmless DEF Seen, SinkFaithful

-----------------------------------------------------------------------------
(* What the two ends of a line may do to it.                               *)

LEMMA NetworkMoves ==
  ASSUME NEW w, NEW s, NEW data, NEW acks, NEW chunks, NEW data2, NEW acks2,
         LineOK(w, s, data, acks, chunks), data2 \subseteq data, acks2 \subseteq acks
  PROVE  LineOK(w, s, data2, acks2, chunks)
BY DEF LineOK

LEMMA SourceMoves ==
  ASSUME NEW w \in DataSource, NEW s \in SinkState, NEW data, NEW acks, NEW chunks,
         LineOK(w, s, data, acks, chunks),
         NEW w2 \in DataSource, w.next <= w2.next, w2.first <= Seen(s)
  PROVE  LineOK(w2, s, data, acks, chunks)
<1>1. w.next \in Nat /\ w2.next \in Nat /\ s.nextDiscovered \in Nat
  BY FlowNumbers DEF DataSource, SinkState
<1>2. \A c : Within(c, w.next) => Within(c, w2.next)
  BY <1>1, WithinMore
<1> QED
  BY <1>1, <1>2 DEF LineOK

LEMMA SinkMoves ==
  ASSUME NEW w \in DataSource, NEW s \in SinkState, NEW data,
         NEW acks \in SUBSET Datagram, NEW chunks,
         LineOK(w, s, data, acks, chunks),
         NEW t \in SinkState, Within(t.in, w.next),
         t.nextDiscovered <= w.next, s.nextDiscovered <= t.nextDiscovered,
         t.nextRead = s.nextRead, t.nextSeen <= Seen(t), Seen(s) <= Seen(t)
  PROVE  LineOK(w, t, data, acks, chunks)
<1>1. /\ w.next \in Nat /\ w.first \in Nat /\ Seen(s) \in Nat /\ Seen(t) \in Nat
      /\ s.nextDiscovered \in Nat /\ t.nextDiscovered \in Nat /\ s.nextRead \in Nat
  BY SeenBounds, FlowNumbers DEF DataSource, SinkState
<1>2. \A d \in acks : d.nextSeen \in Nat
  BY DEF Datagram
<1>3. w.first <= Seen(t) /\ t.nextRead <= t.nextDiscovered
  BY <1>1 DEF LineOK
<1>4. \A d \in acks : d.nextSeen <= Seen(t)
  BY <1>1, <1>2 DEF LineOK
<1> QED
  BY <1>3, <1>4 DEF LineOK

LEMMA SinkSolves ==
  ASSUME NEW w \in DataSource, NEW s \in SinkState, NEW data,
         NEW acks \in SUBSET Datagram, NEW chunks,
         LineOK(w, s, data, acks, chunks), NEW t, SolveStepOK(s, t)
  PROVE  LineOK(w, t, data, acks, chunks)
<1>1. t \in SinkState /\ Within(t.in, t.nextDiscovered)
  BY DEF SolveStepOK, SinkOK
<1>2. /\ t.nextDiscovered <= w.next /\ w.next \in Nat /\ t.nextDiscovered \in Nat
      /\ s.nextDiscovered <= t.nextDiscovered
  BY <1>1, FlowNumbers DEF SolveStepOK, LineOK, DataSource, SinkState
<1>3. Within(t.in, w.next)
  BY <1>1, <1>2, WithinMore
<1> QED
  BY <1>1, <1>2, <1>3, SinkMoves DEF SolveStepOK

-----------------------------------------------------------------------------
(* Every step keeps the invariant, and honesty while the windows are narrow. *)

FlowKept == FlowInv' /\ (Honest /\ Narrow => Honest')

LEMMA FlowStarts == Init => FlowInv /\ Honest
<1> SUFFICES ASSUME Init PROVE FlowInv /\ Honest
  OBVIOUS
<1>1. /\ SinkOK(EmptySink) /\ SinkFaithful(EmptySink) /\ EmptySink \in SinkState
      /\ EmptySink.phase = "idle" /\ EmptySink.in = NullCombination
      /\ EmptySink.nextRead = 0 /\ EmptySink.nextSeen = 0 /\ EmptySink.nextDiscovered = 0
      /\ Seen(EmptySink) = 0
  BY EmptySinkOK DEF SinkOK, EmptySink, Seen, Pivots
<1>2. [first |-> 0, next |-> 0] \in DataSource /\ Rank([first |-> 0, next |-> 0]) = 0
  BY FlowNumbers DEF DataSource, Rank
<1>3. Shapes
  <2>1. scenario \in Scenario /\ << >> \in Seq(Vector) /\ Free \in Lock
    BY FlowAssumption DEF Init, Lock, Free
  <2> QED
    BY <1>1, <1>2, <2>1, FlowNumbers DEF Init, Shapes
<1>4. ASSUME NEW e \in Ends PROVE Budget(e) /\ Turns(e) /\ Line(e) /\ HonestEnd(e)
  <2>1. Peer(e) \in Ends
    BY TwoEnds
  <2>2. Budget(e)
    <3>1. scenario.maxWrites[e] \in Nat
      BY <1>3, FlowNumbers DEF Shapes, Scenario
    <3> QED
      BY <1>2, <3>1, FlowNumbers DEF Init, Budget
  <2>3. Turns(e)
    BY <1>1, IdleOK DEF Init, Turns, Free
  <2>4. Line(e)
    BY <1>1, <2>1, NullIsHarmless DEF Init, Line, LineOK
  <2>5. HonestEnd(e)
    BY <1>1 DEF Init, HonestEnd
  <2> QED
    BY <2>2, <2>3, <2>4, <2>5
<1> QED
  BY <1>3, <1>4 DEF FlowInv, Honest

\* The steps that only take mMutex, give it up or close a handler.
LEMMA ControlKept ==
  ASSUME FlowInv, NEW a \in Ends,
         UNCHANGED <<scenario, source, sink, control, reader, net, read>>,
         closed' \in [Ends -> BOOLEAN], acknowledge' \in [Ends -> BOOLEAN],
         \/ lock' = lock
         \/ \E l \in Lock : /\ lock' = [lock EXCEPT ![a] = l] /\ IsFree(a)
                            /\ l.by = "alarm" \/ (l.by = "answer" /\ sink[a].phase = "idle")
  PROVE  FlowKept
<1>1. Shapes'
  BY ZenonT(40) DEF FlowInv, Shapes, control
<1>2. ASSUME NEW e \in Ends PROVE Budget(e)' /\ Turns(e)' /\ Line(e)'
  <2>1. Budget(e) /\ Turns(e) /\ Line(e)
    BY DEF FlowInv
  <2>2. Budget(e)' /\ Line(e)'
    BY <2>1 DEF Budget, Line, control
  <2>3. lock \in [Ends -> Lock]
    BY DEF FlowInv, Shapes
  <2>4. \/ lock'[e] = lock[e]
        \/ /\ lock[e].by = "none"
           /\ lock'[e].by = "alarm" \/ (lock'[e].by = "answer" /\ sink[e].phase = "idle")
    BY <2>3 DEF IsFree
  <2>5. Turns(e)'
    BY <2>1, <2>4 DEF Turns
  <2> QED
    BY <2>2, <2>5
<1>3. Honest => Honest'
  BY DEF Honest, HonestEnd
<1> QED
  BY <1>1, <1>2, <1>3 DEF FlowInv, FlowKept

LEMMA SendFailsKept ==
  ASSUME FlowInv, NEW a \in Ends, SendFails(a) PROVE FlowKept
<1>1. closed' \in [Ends -> BOOLEAN] /\ acknowledge' \in [Ends -> BOOLEAN]
  BY DEF SendFails, FlowInv, Shapes
<1> QED
  BY <1>1, ControlKept DEF SendFails

LEMMA TimeoutKept ==
  ASSUME FlowInv, NEW a \in Ends, Timeout(a) PROVE FlowKept
<1>1. closed' \in [Ends -> BOOLEAN] /\ acknowledge' \in [Ends -> BOOLEAN]
  BY DEF Timeout, FlowInv, Shapes
<1>2. Sending("alarm", TRUE) \in Lock /\ Sending("alarm", TRUE).by = "alarm"
  BY DEF Sending, Lock
<1> QED
  BY <1>1, <1>2, ControlKept DEF Timeout

LEMMA AcknowledgeKept ==
  ASSUME FlowInv, NEW a \in Ends, Acknowledge(a) PROVE FlowKept
<1>1. closed' \in [Ends -> BOOLEAN] /\ acknowledge' \in [Ends -> BOOLEAN]
  BY DEF Acknowledge, FlowInv, Shapes
<1>2. Sending("alarm", TRUE) \in Lock /\ Sending("alarm", TRUE).by = "alarm"
  BY DEF Sending, Lock
<1> QED
  BY <1>1, <1>2, ControlKept DEF Acknowledge

LEMMA StopKept ==
  ASSUME FlowInv, NEW a \in Ends, Stop(a) PROVE FlowKept
<1>1. closed' \in [Ends -> BOOLEAN] /\ acknowledge' \in [Ends -> BOOLEAN]
  BY DEF Stop, FlowInv, Shapes
<1> QED
  BY <1>1, ControlKept DEF Stop

LEMMA AnswerKept ==
  ASSUME FlowInv, NEW a \in Ends, Answer(a) PROVE FlowKept
<1>1. closed' \in [Ends -> BOOLEAN] /\ acknowledge' \in [Ends -> BOOLEAN]
  BY DEF Answer, FlowInv, Shapes
<1>2. Sending("answer", FALSE) \in Lock /\ Sending("answer", FALSE).by = "answer"
  BY DEF Sending, Lock
<1> QED
  BY <1>1, <1>2, ControlKept DEF Answer

\* The steps that only change the sink of an end.
LEMMA SolveTurnKept ==
  ASSUME FlowInv, NEW a \in Ends, NEW t, SolveTurn(a, TRUE, t),
         sink[a].phase # "idle", SolveStepOK(sink[a], t)
  PROVE  FlowKept
<1> DEFINE s == sink[a]
<1>1. /\ sink' = [sink EXCEPT ![a] = t] /\ reader[a] = "solve"
      /\ UNCHANGED <<scenario, source, control, acknowledge, closed, lock, reader, net, read>>
  BY DEF SolveTurn
<1>2. Shapes /\ t \in SinkState
  BY DEF FlowInv, SolveStepOK, SinkOK
<1>3. Shapes'
  BY <1>1, <1>2 DEF Shapes, control
<1>4. /\ sink'[a] = t /\ \A e \in Ends : e # a => sink'[e] = sink[e]
      /\ lock \in [Ends -> Lock]
  BY <1>1, <1>2 DEF Shapes
<1>5. ASSUME NEW e \in Ends PROVE Budget(e)' /\ Turns(e)' /\ Line(e)'
  <2>1. Budget(e) /\ Turns(e) /\ Line(e)
    BY DEF FlowInv
  <2>2. Budget(e)'
    BY <1>1, <2>1 DEF Budget, control
  <2>3. CASE e # a
    BY <1>1, <1>4, <2>1, <2>2, <2>3 DEF Turns, Line
  <2>4. CASE e = a
    <3>1. SinkOK(Idle(t))
      BY IdleOK DEF SolveStepOK
    <3>2. Turns(e)'
      BY <1>1, <1>4, <2>1, <2>4, <3>1 DEF Turns, SolveStepOK
    <3>3. source[Peer(a)] \in DataSource /\ net[a] \in SUBSET Datagram /\ s \in SinkState
      BY <1>2, TwoEnds DEF Shapes
    <3>4. Line(e)'
      BY <1>1, <1>4, <2>1, <2>4, <3>3, SinkSolves DEF Line
    <3> QED
      BY <2>2, <3>2, <3>4
  <2> QED
    BY <2>3, <2>4
<1>6. Honest => Honest'
  <2> SUFFICES ASSUME Honest, NEW e \in Ends PROVE HonestEnd(e)'
    BY DEF Honest
  <2>1. HonestEnd(e)
    BY DEF Honest
  <2>2. SinkFaithful(sink'[e])
    BY <1>4, <2>1 DEF HonestEnd, SolveStepOK
  <2> QED
    BY <1>1, <2>1, <2>2 DEF HonestEnd
<1> QED
  BY <1>3, <1>5, <1>6 DEF FlowInv, FlowKept

LEMMA SolveStepKept ==
  ASSUME FlowInv, NEW a \in Ends, SolveStep(a) PROVE FlowKept
<1> DEFINE s == sink[a]
<1>1. reader[a] = "solve"
  BY DEF SolveStep, SolveTurn
<1>2. SinkOK(s) /\ s.nextSeen <= Seen(s)
  BY <1>1 DEF FlowInv, Turns, Line, LineOK
<1>3. PICK t : /\ SolveTurn(a, TRUE, t)
               /\ \/ CanEliminate(s) /\ t = Eliminate(s)
                  \/ CanDiscard(s) /\ t = Idle(s)
                  \/ CanInsert(s) /\ t = Insert(s)
                  \/ CanSubstitute(s) /\ t = Substitute(s)
                  \/ CanDescend(s) /\ t = Descend(s)
                  \/ CanCount(s) /\ t = Count(s)
  BY DEF SolveStep, SolveTurn
<1>4. SolveStepOK(s, t)
  BY <1>2, <1>3, SolveTurnOK
<1>5. s.phase # "idle"
  BY <1>3 DEF CanEliminate, CanDiscard, CanInsert, CanSubstitute, CanDescend, CanCount, RowDone
<1> QED
  BY <1>3, <1>4, <1>5, SolveTurnKept

LEMMA WriteKept ==
  ASSUME FlowInv, NEW a \in Ends, NEW count \in 1 .. MaxChunks, Write(a, count)
  PROVE  FlowKept
<1> DEFINE w == source[a]
           w2 == [w EXCEPT !.next = w.next + count]
           p == Peer(a)
<1>1. /\ Shapes /\ Budget(a) /\ w \in DataSource /\ count \in Nat
      /\ p \in Ends /\ p # a /\ Peer(p) = a /\ \A e \in Ends : e = a \/ e = p
  BY TwoEnds, FlowNumbers DEF FlowInv, Shapes
<1>2. /\ source' = [source EXCEPT ![a] = w2] /\ w.next + count <= scenario.maxWrites[a]
      /\ accumulator' = [accumulator EXCEPT ![a] = @ + Redundancy * count]
      /\ lock' = [lock EXCEPT ![a] = Sending("write", FALSE)] /\ IsFree(a)
      /\ UNCHANGED <<scenario, sink, available, tokens, threshold, congestion, acknowledge,
                     closed, reader, net, read>>
  BY DEF Write, WriteSource
<1>3. scenario.maxWrites[a] \in 0 .. MaxChunks
  BY <1>1 DEF Shapes, Scenario
<1>4. /\ w2 \in DataSource /\ w2.first = w.first /\ w2.next = w.next + count
      /\ w.next <= w2.next
  BY <1>1, <1>2, <1>3, FlowNumbers DEF DataSource
<1>5. accumulator[a] \in Nat /\ accumulator[a] + Redundancy * count \in Nat
  BY <1>1, FlowNumbers DEF Shapes
<1>6. Sending("write", FALSE) \in Lock /\ Sending("write", FALSE).by = "write"
  BY DEF Sending, Lock
<1> HIDE DEF w2
<1>7. Shapes'
  <2>1. /\ source' \in [Ends -> DataSource] /\ lock' \in [Ends -> Lock]
        /\ accumulator' \in [Ends -> Nat]
    BY <1>1, <1>2, <1>4, <1>5, <1>6 DEF Shapes
  <2> QED
    BY <1>1, <1>2, <2>1 DEF Shapes
<1>8. /\ source'[a] = w2 /\ accumulator'[a] = accumulator[a] + Redundancy * count
      /\ lock'[a].by = "write" /\ lock[a].by = "none"
      /\ \A e \in Ends \ {a} : /\ source'[e] = source[e] /\ lock'[e] = lock[e]
                               /\ accumulator'[e] = accumulator[e]
  BY <1>1, <1>2, <1>6 DEF Shapes, IsFree
<1>9. Budget(a)'
  <2>1. w.first \in Nat /\ w.next \in Nat /\ w2.next \in Nat /\ w.first <= w.next
    BY <1>1, <1>4, FlowNumbers DEF DataSource, Budget
  <2>2. w2.first <= w2.next /\ w2.next <= scenario.maxWrites[a]
    BY <1>1, <1>2, <1>4, <2>1
  <2>3. accumulator[a] + Redundancy * count <= Redundancy * Rank(w2)
    BY <1>1, <1>4, <1>5, <2>1, FlowNumbers DEF Rank, Budget
  <2> QED
    BY <1>1, <1>2, <1>8, <2>2, <2>3 DEF Budget
<1>10. Line(p)'
  <2>1. LineOK(w, sink[p], net[a], net[p], read[p])
    BY <1>1 DEF FlowInv, Line
  <2>2. sink[p] \in SinkState /\ w2.first <= Seen(sink[p])
    BY <1>1, <1>4, <2>1 DEF Shapes, LineOK
  <2> QED
    BY <1>1, <1>2, <1>4, <1>8, <2>1, <2>2, SourceMoves DEF Line
<1>11. Line(a)' /\ Budget(p)'
  BY <1>1, <1>2, <1>8 DEF FlowInv, Line, Budget
<1>12. \A e \in Ends : Turns(e)'
  <2> SUFFICES ASSUME NEW e \in Ends PROVE Turns(e)'
    OBVIOUS
  <2>1. Turns(e) /\ sink'[e] = sink[e] /\ reader'[e] = reader[e]
    BY <1>2 DEF FlowInv
  <2>2. lock'[e] = lock[e] \/ (lock'[e].by = "write" /\ lock[e].by = "none")
    BY <1>8
  <2> QED
    BY <2>1, <2>2 DEF Turns
<1>13. Honest => Honest'
  BY <1>2 DEF Honest, HonestEnd
<1> QED
  BY <1>1, <1>7, <1>9, <1>10, <1>11, <1>12, <1>13 DEF FlowInv, FlowKept

LEMMA LoseKept ==
  ASSUME FlowInv, NEW a \in Ends, NEW d, Lose(a, d) PROVE FlowKept
<1>1. /\ Shapes /\ net' = [net EXCEPT ![a] = net[a] \ {d}]
      /\ UNCHANGED <<scenario, source, sink, control, acknowledge, closed, lock, reader, read>>
  BY DEF FlowInv, Lose
<1>2. \A e \in Ends : net'[e] \in SUBSET Datagram /\ net'[e] \subseteq net[e]
  BY <1>1 DEF Shapes
<1>3. Shapes'
  BY <1>1 DEF Shapes, control
<1>4. ASSUME NEW e \in Ends PROVE Budget(e)' /\ Turns(e)' /\ Line(e)'
  <2>1. Budget(e)' /\ Turns(e)'
    BY <1>1 DEF FlowInv, Budget, Turns, control
  <2>2. Peer(e) \in Ends /\ LineOK(source[Peer(e)], sink[e], net[Peer(e)], net[e], read[e])
    BY TwoEnds DEF FlowInv, Line
  <2>3. LineOK(source[Peer(e)], sink[e], net'[Peer(e)], net'[e], read[e])
    BY <1>2, <2>2, NetworkMoves
  <2> QED
    BY <1>1, <2>1, <2>3 DEF Line
<1>5. Honest => Honest'
  BY <1>1, <1>2 DEF Honest, HonestEnd
<1> QED
  BY <1>3, <1>4, <1>5 DEF FlowInv, FlowKept

LEMMA ReadChunkKept ==
  ASSUME FlowInv, NEW a \in Ends, ReadChunk(a)
  PROVE  /\ FlowKept
         /\ Len(read[a]) < source[Peer(a)].next
         /\ Honest => read' = [read EXCEPT ![a] = Append(@, UnitVector(Len(@)))]
<1> DEFINE s == sink[a]
           t == Read(s)
           w == source[Peer(a)]
<1>1. /\ Shapes /\ SinkOK(s) /\ CanRead(s) /\ s \in SinkState /\ s.phase = "idle"
      /\ reader[a] = "receive" /\ Turns(a)
      /\ sink' = [sink EXCEPT ![a] = t] /\ read' = [read EXCEPT ![a] = Append(@, ReadData(s))]
      /\ UNCHANGED <<scenario, source, control, acknowledge, closed, lock, reader, net>>
  BY DEF FlowInv, ReadChunk, Turns, SinkOK
<1>2. /\ LineOK(w, s, net[Peer(a)], net[a], read[a])
      /\ w \in DataSource /\ net[a] \in SUBSET Datagram /\ read[a] \in Seq(Vector)
  BY <1>1, TwoEnds DEF FlowInv, Line, Shapes
<1>3. /\ SinkOK(t) /\ ReadData(s) \in Vector /\ s.nextRead + 1 <= s.nextDiscovered
      /\ t = [s EXCEPT !.nextRead = s.nextRead + 1]
      /\ SinkFaithful(s) => SinkFaithful(t) /\ ReadData(s) = UnitVector(s.nextRead)
  BY <1>1, ReadOK
<1>4. /\ t.rows = s.rows /\ t.in = s.in /\ t.phase = s.phase
      /\ t.nextRead = s.nextRead + 1 /\ t.nextSeen = s.nextSeen
      /\ t.nextDiscovered = s.nextDiscovered /\ Pivots(t) = Pivots(s)
  BY <1>1, <1>3 DEF SinkState, Pivots
<1> HIDE DEF t
<1>5. t \in SinkState /\ SinkOK(Idle(t))
  BY <1>3, IdleOK DEF SinkOK
<1>6. Seen(s) <= Seen(t)
  <2>1. s.nextRead <= t.nextRead
    BY <1>1, <1>4, FlowNumbers DEF SinkState
  <2> QED
    BY <1>1, <1>4, <1>5, <2>1, SeenGrows
<1>7. /\ w.first \in Nat /\ w.next \in Nat /\ s.nextSeen \in Nat
       /\ s.nextRead \in Nat /\ s.nextDiscovered \in Nat
  <2>1. w.first \in Nat /\ w.next \in Nat
    BY <1>2, FlowNumbers DEF DataSource
  <2>2. s.nextSeen \in Nat /\ s.nextRead \in Nat /\ s.nextDiscovered \in Nat
    BY <1>1, FlowNumbers DEF SinkState
  <2> QED
    BY <2>1, <2>2
<1>8. LineOK(w, t, net[Peer(a)], net[a], Append(read[a], ReadData(s)))
  <2>1. /\ Seen(s) \in Nat /\ Seen(t) \in Nat
        /\ \A d \in net[a] : d.nextSeen \in Nat
    BY <1>1, <1>2, <1>5, SeenBounds DEF Datagram
  <2>2. /\ t.nextSeen <= Seen(t) /\ w.first <= Seen(t)
        /\ \A d \in net[a] : d.nextSeen <= Seen(t)
    BY <1>2, <1>4, <1>6, <1>7, <2>1 DEF LineOK
  <2>3. Len(Append(read[a], ReadData(s))) = t.nextRead
    BY <1>2, <1>3, <1>4 DEF LineOK
  <2> QED
    BY <1>2, <1>3, <1>4, <2>2, <2>3 DEF LineOK
<1>9. Append(read[a], ReadData(s)) \in Seq(Vector)
  BY <1>2, <1>3
<1>10. Shapes'
  BY <1>1, <1>5, <1>9 DEF Shapes, control
<1>11. /\ sink'[a] = t /\ read'[a] = Append(read[a], ReadData(s))
       /\ \A e \in Ends \ {a} : sink'[e] = sink[e] /\ read'[e] = read[e]
  BY <1>1 DEF Shapes
<1>12. ASSUME NEW e \in Ends PROVE Budget(e)' /\ Turns(e)' /\ Line(e)'
  <2>1. Budget(e)'
    BY <1>1 DEF FlowInv, Budget, control
  <2>2. Turns(e)'
    BY <1>1, <1>3, <1>4, <1>5, <1>11 DEF FlowInv, Turns
  <2>3. Line(e)'
    BY <1>1, <1>8, <1>11 DEF FlowInv, Line
  <2> QED
    BY <2>1, <2>2, <2>3
<1>13. Len(read[a]) = s.nextRead /\ Len(read[a]) < w.next
  BY <1>2, <1>3, <1>7 DEF LineOK
<1>14. Honest => ReadData(s) = UnitVector(Len(read[a])) /\ SinkFaithful(t)
  BY <1>3, <1>13 DEF Honest, HonestEnd
<1>15. Honest => Honest'
  <2> SUFFICES ASSUME Honest, NEW e \in Ends PROVE HonestEnd(e)'
    BY DEF Honest
  <2>1. HonestEnd(e)
    BY DEF Honest
  <2>2. SinkFaithful(sink'[e])
    BY <1>11, <1>14, <2>1 DEF HonestEnd
  <2>3. ASSUME NEW i \in 1 .. Len(read'[e]) PROVE read'[e][i] = UnitVector(i - 1)
    <3>1. CASE e = a
      <4>1. /\ Len(read[a]) \in Nat /\ Len(read'[a]) = Len(read[a]) + 1
            /\ read'[a][Len(read[a]) + 1] = ReadData(s)
            /\ \A j \in 1 .. Len(read[a]) : read'[a][j] = read[a][j]
        BY <1>2, <1>3, <1>11
      <4>2. i \in 1 .. Len(read[a]) \/ i = Len(read[a]) + 1
        BY <2>3, <3>1, <4>1
      <4>3. CASE i = Len(read[a]) + 1
        <5>1. i - 1 = Len(read[a])
          BY <4>1, <4>3
        <5> QED
          BY <1>14, <3>1, <4>1, <4>3, <5>1
      <4>4. CASE i \in 1 .. Len(read[a])
        BY <2>1, <3>1, <4>1, <4>4 DEF HonestEnd
      <4> QED
        BY <4>2, <4>3, <4>4
    <3>2. CASE e # a
      BY <1>11, <2>1, <2>3, <3>2 DEF HonestEnd
    <3> QED
      BY <3>1, <3>2
  <2> QED
    BY <1>1, <2>1, <2>2, <2>3 DEF HonestEnd
<1>16. Honest => read' = [read EXCEPT ![a] = Append(@, UnitVector(Len(@)))]
  BY <1>1, <1>14
<1> QED
  BY <1>10, <1>12, <1>13, <1>15, <1>16 DEF FlowInv, FlowKept

\* What a datagram acknowledges is seen, whenever send reads the counters.
LEMMA AcknowledgementIsSeen ==
  ASSUME FlowInv, NEW a \in Ends, NEW ack \in Acknowledgements(sink[a])
  PROVE  /\ ack[1] \in Nat /\ ack[2] \in Nat /\ ack[1] <= Seen(sink[a])
<1> DEFINE s == sink[a]
<1>1. s \in SinkState /\ s.nextSeen <= Seen(s) /\ Turns(a)
  BY DEF FlowInv, Shapes, Line, LineOK
<1>2. s.nextSeen \in Nat /\ s.nextDecoded \in Nat
  BY <1>1, FlowNumbers DEF SinkState
<1>3. CASE CanCount(s)
  <2>1. SinkOK(s)
    BY <1>1, <1>3 DEF CanCount, RowDone, Turns
  <2>2. /\ Count(s).nextSeen \in Nat /\ Count(s).nextSeen <= Seen(s)
        /\ Count(s).nextDecoded \in Nat
    BY <1>1, <2>1, CountedIsSeen
  <2>3. ack \in {<<s.nextSeen, s.nextDecoded>>, <<s.nextSeen, Count(s).nextDecoded>>,
                 <<Count(s).nextSeen, s.nextDecoded>>}
    BY <1>3 DEF Acknowledgements
  <2> QED
    BY <1>1, <1>2, <2>2, <2>3
<1>4. CASE ~CanCount(s)
  <2>1. ack = <<s.nextSeen, s.nextDecoded>>
    BY <1>4 DEF Acknowledgements
  <2> QED
    BY <1>1, <1>2, <2>1
<1> QED
  BY <1>3, <1>4

\* What a datagram carries is within what is written.
LEMMA SentIsWritten ==
  ASSUME NEW w \in DataSource, NEW c,
         \/ Rank(w) >= 1 /\ c \in GenerateData(w)
         \/ c = NullCombination
  PROVE  /\ c \in Combination /\ Within(c, w.next)
         /\ Rank(w) <= GenerateSize => Faithful(c)
<1>1. w.next \in Nat
  BY FlowNumbers DEF DataSource
<1> QED
  BY <1>1, GeneratedFromData, NullIsHarmless

LEMMA SendOneKept ==
  ASSUME FlowInv, NEW a \in Ends, SendOne(a) PROVE FlowKept
<1> DEFINE w == source[a]
           p == Peer(a)
           acc(c) == IF isNull(c) THEN accumulator[a] ELSE Greatest(0, accumulator[a] - One)
           av(c) == IF available[a] >= One /\ ~isNull(c) THEN available[a] - One
                    ELSE available[a]
           l == [lock[a] EXCEPT !.force = FALSE, !.sent = TRUE]
<1>1. /\ Shapes /\ Budget(a) /\ w \in DataSource /\ lock[a] \in Lock
      /\ p \in Ends /\ p # a /\ Peer(p) = a /\ \A e \in Ends : e = a \/ e = p
  BY TwoEnds DEF FlowInv, Shapes
<1>2. PICK c \in IF Rank(w) >= 1 /\ accumulator[a] >= One THEN GenerateData(w)
                 ELSE {NullCombination},
           ack \in Acknowledgements(sink[a]) :
        /\ Transmit(a, [combination |-> c, nextSeen |-> ack[1], nextDecoded |-> ack[2]])
        /\ accumulator' = [accumulator EXCEPT ![a] = acc(c)]
        /\ available' = [available EXCEPT ![a] = av(c)]
  BY DEF SendOne
<1>3. /\ lock' = [lock EXCEPT ![a] = l]
      /\ UNCHANGED <<scenario, source, sink, tokens, threshold, congestion, acknowledge,
                     closed, reader, read>>
  BY DEF SendOne
<1> DEFINE d == [combination |-> c, nextSeen |-> ack[1], nextDecoded |-> ack[2]]
<1>4. /\ c \in Combination /\ Within(c, w.next)
      /\ Rank(w) <= GenerateSize => Faithful(c)
  BY <1>1, <1>2, SentIsWritten
<1>5. ack[1] \in Nat /\ ack[2] \in Nat /\ ack[1] <= Seen(sink[a])
  BY <1>2, AcknowledgementIsSeen
<1>6. /\ d \in Datagram /\ d.combination = c /\ d.nextSeen = ack[1]
  BY <1>4, <1>5 DEF Datagram
<1> HIDE DEF d
<1>7. /\ net'[a] \subseteq net[a] \cup {d} /\ net'[p] = net[p]
      /\ net' \in [Ends -> SUBSET Datagram]
  BY <1>1, <1>2, <1>6 DEF Transmit, Shapes, d
<1>8. /\ accumulator[a] \in Nat /\ available[a] \in Nat /\ tokens[a] \in Nat
      /\ accumulator[a] <= Redundancy * Rank(w) /\ available[a] <= tokens[a]
  BY <1>1 DEF Shapes, Budget
<1>9. acc(c) \in Nat /\ acc(c) <= accumulator[a] /\ av(c) \in Nat /\ av(c) <= available[a]
  BY <1>8, FlowNumbers DEF Greatest
<1>10. l \in Lock /\ l.by = lock[a].by
  BY <1>1 DEF Lock
<1> HIDE DEF acc, av, l
<1>11. Shapes'
  <2>1. /\ accumulator' \in [Ends -> Nat] /\ available' \in [Ends -> Nat]
        /\ lock' \in [Ends -> Lock]
    BY <1>1, <1>2, <1>3, <1>9, <1>10 DEF Shapes
  <2> QED
    BY <1>1, <1>3, <1>7, <2>1 DEF Shapes
<1>12. /\ accumulator'[a] = acc(c) /\ accumulator'[p] = accumulator[p]
       /\ available'[a] = av(c) /\ available'[p] = available[p]
       /\ \A e \in Ends : lock'[e].by = lock[e].by
  BY <1>1, <1>2, <1>3, <1>10 DEF Shapes
<1>13. Budget(a)'
  <2>1. Rank(w) \in Int
    BY <1>1, FlowNumbers DEF Rank, DataSource
  <2>2. acc(c) <= Redundancy * Rank(w) /\ av(c) <= tokens[a]
    BY <1>8, <1>9, <2>1, FlowNumbers
  <2> QED
    BY <1>1, <1>3, <1>12, <2>2 DEF Budget
<1>14. Budget(p)'
  BY <1>1, <1>3, <1>12 DEF FlowInv, Budget
<1>15. \A e \in Ends : Turns(e)'
  BY <1>3, <1>12 DEF FlowInv, Turns
<1>16. Line(a)'
  <2>1. LineOK(source[p], sink[a], net[p], net[a], read[a])
    BY DEF FlowInv, Line
  <2>2. LineOK(source[p], sink[a], net[p], net'[a], read[a])
    BY <1>5, <1>6, <1>7, <2>1 DEF LineOK
  <2> QED
    BY <1>3, <1>7, <2>2 DEF Line
<1>17. Line(p)'
  <2>1. LineOK(w, sink[p], net[a], net[p], read[p])
    BY <1>1 DEF FlowInv, Line
  <2>2. LineOK(w, sink[p], net'[a], net[p], read[p])
    BY <1>4, <1>6, <1>7, <2>1 DEF LineOK
  <2> QED
    BY <1>1, <1>3, <1>7, <2>2 DEF Line
<1>18. Honest /\ Narrow => Honest'
  <2> SUFFICES ASSUME Honest, Narrow, NEW e \in Ends PROVE HonestEnd(e)'
    BY DEF Honest
  <2>1. Faithful(c) /\ HonestEnd(e)
    BY <1>4 DEF Narrow, Honest
  <2>2. \A f \in net'[e] : Faithful(f.combination)
    BY <1>1, <1>6, <1>7, <2>1 DEF HonestEnd
  <2> QED
    BY <1>3, <2>1, <2>2 DEF HonestEnd
<1> QED
  BY <1>1, <1>11, <1>13, <1>14, <1>15, <1>16, <1>17, <1>18 DEF FlowInv, FlowKept

\* What the incoming combination leaves of the sink.
TakeIn(s) ==
  IF isNull(s.in) THEN Idle(s) ELSE Solve(Idle(DropSink(s, firstComponent(s.in))), s.in)

LEMMA TakeInOK ==
  ASSUME NEW w \in DataSource, NEW s \in SinkState, NEW data,
         NEW acks \in SUBSET Datagram, NEW chunks,
         LineOK(w, s, data, acks, chunks), SinkOK(Idle(s))
  PROVE  /\ SinkOK(TakeIn(s)) /\ LineOK(w, TakeIn(s), data, acks, chunks)
         /\ SinkFaithful(s) => SinkFaithful(TakeIn(s))
         /\ isNull(s.in) => TakeIn(s).phase = "idle"
<1> DEFINE i == Idle(s)
           c == s.in
           u == Idle(DropSink(s, firstComponent(c)))
<1>1. /\ i \in SinkState /\ i.in = NullCombination /\ i.phase = "idle"
      /\ i.nextRead = s.nextRead /\ i.nextSeen = s.nextSeen
      /\ i.nextDiscovered = s.nextDiscovered /\ Seen(i) = Seen(s)
      /\ SinkFaithful(s) => SinkFaithful(i)
  BY IdleSame DEF SinkOK
<1>2. w.next \in Nat /\ s.nextDiscovered \in Nat /\ Seen(s) \in Nat /\ s.nextSeen \in Nat
  BY SeenBounds, FlowNumbers DEF DataSource, SinkState
<1>3. CASE isNull(c)
  <2>1. TakeIn(s) = i
    BY <1>3 DEF TakeIn
  <2>2. Within(i.in, w.next) /\ i.nextDiscovered <= w.next /\ s.nextDiscovered <= i.nextDiscovered
        /\ i.nextSeen <= Seen(i) /\ Seen(s) <= Seen(i)
    BY <1>1, <1>2, NullIsHarmless DEF LineOK
  <2>3. LineOK(w, i, data, acks, chunks)
    BY <1>1, <2>2, SinkMoves
  <2> QED
    BY <1>1, <2>1, <2>3
<1>4. CASE ~isNull(c)
  <2> DEFINE t == Solve(u, c)
  <2>1. TakeIn(s) = t
    BY <1>4 DEF TakeIn
  <2>2. u = Idle(DropSink(i, firstComponent(c)))
    BY IdleSame
  <2>3. /\ SinkOK(u) /\ (SinkFaithful(i) => SinkFaithful(u)) /\ Seen(i) <= Seen(u)
        /\ u.nextRead = i.nextRead /\ u.nextSeen = i.nextSeen
        /\ u.nextDiscovered = i.nextDiscovered
    BY <2>2, DropOK
  <2>4. /\ c \in Combination /\ Within(c, w.next) /\ u.nextDiscovered <= w.next
        /\ Within(u.in, w.next)
    <3>1. c \in Combination /\ Within(c, w.next) /\ u.nextDiscovered <= w.next
      BY <1>1, <2>3 DEF LineOK, SinkState
    <3>2. u.in = NullCombination
      BY DEF Idle, DropSink, SinkState
    <3> QED
      BY <1>2, <3>1, <3>2, NullIsHarmless
  <2> HIDE DEF u, i
  <2>5. /\ SinkOK(t) /\ (SinkFaithful(u) /\ Faithful(c) => SinkFaithful(t))
    BY <2>3, <2>4, SolveOK
  <2>6. /\ t.nextDiscovered <= w.next /\ u.nextDiscovered <= t.nextDiscovered
        /\ Within(t.in, w.next) /\ t.rows = u.rows /\ t.nextRead = u.nextRead
        /\ t.nextSeen = u.nextSeen
    BY <1>2, <2>3, <2>4, SolveWithin
  <2>7. Seen(t) = Seen(u) /\ t \in SinkState /\ Seen(u) \in Nat
    BY <2>3, <2>5, <2>6, SeenBounds DEF Seen, Pivots, SinkOK
  <2> HIDE DEF t
  <2>8. s.nextSeen <= Seen(s)
    BY DEF LineOK
  <2>9. t.nextSeen <= Seen(t) /\ Seen(s) <= Seen(t)
    BY <1>1, <1>2, <2>3, <2>6, <2>7, <2>8
  <2>10. LineOK(w, t, data, acks, chunks)
    BY <1>1, <2>3, <2>6, <2>7, <2>9, SinkMoves
  <2>11. SinkFaithful(s) => SinkFaithful(t)
    BY <1>1, <2>3, <2>5 DEF SinkFaithful
  <2> QED
    BY <1>4, <2>1, <2>5, <2>10, <2>11 DEF t
<1> QED
  BY <1>3, <1>4

LEMMA SendDoneKept ==
  ASSUME FlowInv, NEW a \in Ends, SendDone(a) PROVE FlowKept
<1>1. /\ Shapes /\ Budget(a) /\ Turns(a) /\ Line(a) /\ lock[a] \in Lock
      /\ sink[a] \in SinkState /\ source[Peer(a)] \in DataSource /\ net[a] \in SUBSET Datagram
  BY TwoEnds DEF FlowInv, Shapes
<1>2. /\ lock' = [lock EXCEPT ![a] = Free]
      /\ UNCHANGED <<scenario, source, control, closed, net, read>>
      /\ Free \in Lock /\ Free.by = "none"
  BY DEF SendDone, Free, Lock
<1>3. lock'[a].by = "none" /\ \A e \in Ends \ {a} : lock'[e] = lock[e]
  BY <1>1, <1>2 DEF Shapes
<1>4. \A e \in Ends : Budget(e)'
  BY <1>2 DEF FlowInv, Budget, control
<1>5. CASE lock[a].by = "receive"
  <2> DEFINE t == TakeIn(sink[a])
             r == IF isNull(sink[a].in) THEN "receive" ELSE "solve"
  <2>1. /\ reader' = [reader EXCEPT ![a] = r] /\ sink' = [sink EXCEPT ![a] = t]
        /\ UNCHANGED acknowledge
    BY <1>5 DEF SendDone, TakeIn
  <2>2. /\ SinkOK(t) /\ (SinkFaithful(sink[a]) => SinkFaithful(t))
        /\ LineOK(source[Peer(a)], t, net[Peer(a)], net[a], read[a])
        /\ r = "receive" => t.phase = "idle"
    BY <1>1, TakeInOK DEF Line, Turns
  <2>3. t \in SinkState /\ SinkOK(Idle(t))
    BY <2>2, IdleOK DEF SinkOK
  <2> HIDE DEF t
  <2>4. r \in {"receive", "solve"}
    OBVIOUS
  <2> HIDE DEF r
  <2>5. Shapes'
    BY <1>1, <1>2, <2>1, <2>3, <2>4 DEF Shapes, control
  <2>6. /\ sink'[a] = t /\ reader'[a] = r
        /\ \A e \in Ends \ {a} : sink'[e] = sink[e] /\ reader'[e] = reader[e]
    BY <1>1, <2>1 DEF Shapes
  <2>7. ASSUME NEW e \in Ends PROVE Turns(e)' /\ Line(e)'
    <3>1. Turns(e)'
      BY <1>3, <2>2, <2>3, <2>6 DEF FlowInv, Turns
    <3>2. Line(e)'
      BY <1>2, <2>2, <2>6 DEF FlowInv, Line
    <3> QED
      BY <3>1, <3>2
  <2>8. Honest => Honest'
    <3> SUFFICES ASSUME Honest, NEW e \in Ends PROVE HonestEnd(e)'
      BY DEF Honest
    <3>1. HonestEnd(e) /\ SinkFaithful(sink'[e])
      BY <2>2, <2>6 DEF Honest, HonestEnd
    <3> QED
      BY <1>2, <3>1 DEF HonestEnd
  <2> QED
    BY <1>4, <2>5, <2>7, <2>8 DEF FlowInv, FlowKept
<1>6. CASE lock[a].by # "receive"
  <2>1. /\ UNCHANGED sink /\ acknowledge' \in [Ends -> BOOLEAN]
        /\ reader' = reader \/ (lock[a].by = "answer" /\
                                reader' = [reader EXCEPT ![a] = "receive"])
    <3>1. CASE lock[a].by = "answer"
      <4>1. /\ UNCHANGED sink /\ reader' = [reader EXCEPT ![a] = "receive"]
            /\ acknowledge' = [acknowledge EXCEPT ![a] =
                                 @ \/ (~lock[a].sent /\ ~closed[a])]
        BY <3>1 DEF SendDone
      <4>2. (acknowledge[a] \/ (~lock[a].sent /\ ~closed[a])) \in BOOLEAN
        OBVIOUS
      <4> QED
        BY <1>1, <3>1, <4>1, <4>2 DEF Shapes
    <3>2. CASE lock[a].by # "answer"
      BY <1>1, <1>6, <3>2 DEF SendDone, Shapes
    <3> QED
      BY <3>1, <3>2
  <2>2. Shapes'
    BY <1>1, <1>2, <2>1 DEF Shapes, control
  <2>3. ASSUME NEW e \in Ends PROVE Turns(e)' /\ Line(e)'
    <3>1. \/ reader'[e] = reader[e]
          \/ e = a /\ lock[a].by = "answer" /\ reader'[a] = "receive"
      BY <1>1, <2>1 DEF Shapes
    <3>2. Turns(e)'
      BY <1>1, <1>3, <1>6, <2>1, <3>1 DEF FlowInv, Turns
    <3>3. Line(e)'
      BY <1>2, <2>1 DEF FlowInv, Line
    <3> QED
      BY <3>2, <3>3
  <2>4. Honest => Honest'
    BY <1>2, <2>1 DEF Honest, HonestEnd
  <2> QED
    BY <1>4, <2>2, <2>3, <2>4 DEF FlowInv, FlowKept
<1> QED
  BY <1>5, <1>6

\* A window that an acknowledgement makes shorter.
LEMMA DropSourceOK ==
  ASSUME NEW w \in DataSource, w.first <= w.next, NEW n \in Nat
  PROVE  LET w2 == DropSource(w, n)
         IN  /\ w2 \in DataSource /\ w2.next = w.next /\ w.first <= w2.first
             /\ w2.first <= w2.next
             /\ w2.first = w.first \/ w2.first <= n
<1> DEFINE first == Least(Greatest(w.first, n), w.next)
<1>1. w.first \in Nat /\ w.next \in Nat /\ w.next <= MaxChunks
  BY FlowNumbers DEF DataSource
<1>2. /\ first \in Nat /\ first <= w.next /\ w.first <= first
      /\ first = w.first \/ first <= n
  BY <1>1 DEF Least, Greatest
<1>3. DropSource(w, n) = [w EXCEPT !.first = first]
  BY DEF DropSource
<1> HIDE DEF first
<1> QED
  BY <1>1, <1>2, <1>3, FlowNumbers DEF DataSource

\* The arithmetic of recvCombination never leaves the numbers.
LEMMA QuotientIsNatural ==
  \A x \in Nat : x \div 2 \in Nat /\ (1000 \div Greatest(x, 10)) \in Nat
<1> SUFFICES ASSUME NEW x \in Nat
             PROVE  x \div 2 \in Nat /\ (1000 \div Greatest(x, 10)) \in Nat
  OBVIOUS
<1>1. Greatest(x, 10) \in Nat /\ Greatest(x, 10) >= 10
  BY DEF Greatest
<1>2. \A y \in Nat : y >= 10 => (1000 \div y) \in Nat
  OBVIOUS
<1> QED
  BY <1>1, <1>2

\* The budgets recvCombination computes.
LEMMA BudgetKept ==
  ASSUME FlowInv, NEW a \in Ends, NEW d \in Datagram, Receive(a, d)
  PROVE  /\ accumulator' \in [Ends -> Nat] /\ available' \in [Ends -> Nat]
         /\ tokens' \in [Ends -> Nat] /\ threshold' \in [Ends -> Nat]
         /\ congestion' \in [Ends -> BOOLEAN]
         /\ \A e \in Ends : Budget(e)'
<1> DEFINE w == source[a]
           kept == DropSource(w, d.nextSeen)
           received == kept.first - w.first
           slow == tokens[a] < threshold[a]
           delta == IF slow THEN 2 * One ELSE (10 * One * One) \div Greatest(tokens[a], One)
           granted == tokens[a] + delta * received
           backlog == (d.nextSeen - d.nextDecoded) % Width
           reset == Congested(a, d) /\ ~(congestion[a] /\ slow)
           owed == Owed(accumulator[a], backlog, Rank(kept))
           av == IF reset THEN DefaultTokens
                 ELSE Least(available[a] + (Redundancy + delta) * received, granted)
           tok == IF reset THEN DefaultTokens ELSE granted
           thr == IF reset THEN granted \div 2 ELSE threshold[a]
<1>1. /\ Shapes /\ Budget(a) /\ w \in DataSource /\ w.first <= w.next
      /\ d.nextSeen \in Nat /\ d.nextDecoded \in Nat
      /\ accumulator[a] \in Nat /\ available[a] \in Nat /\ tokens[a] \in Nat
      /\ threshold[a] \in Nat
  BY DEF FlowInv, Shapes, Budget, Datagram
<1>2. /\ source' = [source EXCEPT ![a] = kept]
      /\ accumulator' = [accumulator EXCEPT ![a] = owed]
      /\ congestion' = [congestion EXCEPT ![a] = Congested(a, d)]
      /\ threshold' = [threshold EXCEPT ![a] = thr]
      /\ tokens' = [tokens EXCEPT ![a] = tok]
      /\ available' = [available EXCEPT ![a] = av]
      /\ scenario' = scenario
  BY DEF Receive
<1>3. /\ kept \in DataSource /\ kept.next = w.next /\ w.first <= kept.first
      /\ kept.first <= kept.next
  BY <1>1, DropSourceOK
<1> HIDE DEF kept
<1>4. received \in Nat /\ Rank(kept) \in Nat
  <2>1. w.first \in Nat /\ kept.first \in Nat /\ kept.next \in Nat
    BY <1>1, <1>3, FlowNumbers DEF DataSource
  <2> QED
    BY <1>3, <2>1 DEF Rank
<1> HIDE DEF received
<1>5. delta \in Nat
  <2>1. CASE slow
    BY <2>1, FlowNumbers
  <2>2. CASE ~slow
    <3>1. delta = 1000 \div Greatest(tokens[a], 10)
      <4>1. 10 * One * One = 1000 /\ One = 10
        BY DEF One
      <4> QED
        BY <2>2, <4>1
    <3> HIDE DEF delta
    <3> QED
      BY <1>1, <3>1, QuotientIsNatural
  <2> QED
    BY <2>1, <2>2
<1> HIDE DEF delta
<1>6. backlog \in Nat
  <2>1. d.nextSeen - d.nextDecoded \in Int /\ Width \in Nat \ {0}
    BY <1>1, FlowNumbers
  <2>2. \A x \in Int, y \in Nat \ {0} : x % y \in Nat
    OBVIOUS
  <2> QED
    BY <2>1, <2>2
<1> HIDE DEF backlog
<1>7. owed \in Nat /\ owed <= Redundancy * Rank(kept)
  BY <1>1, <1>4, <1>6, FlowNumbers DEF Owed, Least
<1>8. granted \in Nat /\ (Redundancy + delta) * received \in Nat
  <2>1. \A x \in Nat, y \in Nat : x * y \in Nat
    OBVIOUS
  <2>2. delta * received \in Nat /\ Redundancy + delta \in Nat
    BY <1>4, <1>5, <2>1, FlowNumbers
  <2> QED
    BY <1>1, <1>4, <2>1, <2>2
<1> HIDE DEF granted, owed
<1>9. tok \in Nat /\ thr \in Nat
  BY <1>1, <1>8, QuotientIsNatural, FlowNumbers
<1>10. av \in Nat /\ av <= tok
  <2>1. available[a] + (Redundancy + delta) * received \in Nat
    BY <1>1, <1>8
  <2>2. CASE reset
    <3>1. av = DefaultTokens /\ tok = DefaultTokens
      BY <2>2
    <3> QED
      BY <3>1, FlowNumbers
  <2>3. CASE ~reset
    <3>1. av = Least(available[a] + (Redundancy + delta) * received, granted) /\ tok = granted
      BY <2>3
    <3> QED
      BY <1>8, <2>1, <3>1 DEF Least
  <2> QED
    BY <2>2, <2>3
<1>11. Congested(a, d) \in BOOLEAN
  BY DEF Congested
<1> HIDE DEF tok, thr, av
<1>12. /\ accumulator' \in [Ends -> Nat] /\ available' \in [Ends -> Nat]
       /\ tokens' \in [Ends -> Nat] /\ threshold' \in [Ends -> Nat]
       /\ congestion' \in [Ends -> BOOLEAN]
  BY <1>1, <1>2, <1>7, <1>9, <1>10, <1>11 DEF Shapes
<1>13. ASSUME NEW e \in Ends PROVE Budget(e)'
  <2>1. CASE e = a
    <3>1. /\ source'[a] = kept /\ accumulator'[a] = owed
          /\ available'[a] = av /\ tokens'[a] = tok
      BY <1>1, <1>2 DEF Shapes
    <3> QED
      BY <1>1, <1>2, <1>3, <1>7, <1>10, <2>1, <3>1 DEF Budget
  <2>2. CASE e # a
    <3>1. /\ source'[e] = source[e] /\ accumulator'[e] = accumulator[e]
          /\ available'[e] = available[e] /\ tokens'[e] = tokens[e]
      BY <1>1, <1>2, <2>2 DEF Shapes
    <3> QED
      BY <1>2, <3>1 DEF FlowInv, Budget
  <2> QED
    BY <2>1, <2>2
<1> QED
  BY <1>12, <1>13

LEMMA ReceiveKept ==
  ASSUME FlowInv, NEW a \in Ends, NEW d \in net[Peer(a)], Receive(a, d)
  PROVE  FlowKept
<1> DEFINE s == sink[a]
           p == Peer(a)
           t == [s EXCEPT !.in = d.combination]
           w == source[a]
           kept == DropSource(w, d.nextSeen)
<1>1. /\ Shapes /\ Budget(a) /\ Turns(a) /\ Line(a) /\ w \in DataSource /\ w.first <= w.next
      /\ p \in Ends /\ p # a /\ Peer(p) = a /\ \A e \in Ends : e = a \/ e = p
      /\ s \in SinkState
  BY TwoEnds DEF FlowInv, Shapes, Budget
<1>2. d \in Datagram /\ d.combination \in Combination /\ d.nextSeen \in Nat
  BY <1>1 DEF Shapes, Datagram
<1>3. /\ net' = [net EXCEPT ![p] = net[p] \ {d}] /\ source' = [source EXCEPT ![a] = kept]
      /\ sink' = [sink EXCEPT ![a] = t] /\ lock' = [lock EXCEPT ![a] = Sending("receive", FALSE)]
      /\ UNCHANGED <<scenario, acknowledge, closed, reader, read>>
      /\ reader[a] = "receive" /\ IsFree(a)
  BY DEF Receive
<1>4. /\ kept \in DataSource /\ kept.next = w.next
      /\ kept.first = w.first \/ kept.first <= d.nextSeen
  BY <1>1, <1>2, DropSourceOK
<1> HIDE DEF kept
<1>5. /\ t \in SinkState /\ t.in = d.combination /\ t.phase = s.phase /\ t.rows = s.rows
      /\ t.nextRead = s.nextRead /\ t.nextSeen = s.nextSeen
      /\ t.nextDiscovered = s.nextDiscovered /\ Seen(t) = Seen(s)
  BY <1>1, <1>2 DEF SinkState, Seen, Pivots
<1>6. Idle(t) = Idle(s)
  BY <1>1 DEF Idle, SinkState
<1> HIDE DEF t
<1>7. Sending("receive", FALSE) \in Lock /\ Sending("receive", FALSE).by = "receive"
  BY DEF Sending, Lock
<1>8. /\ source'[a] = kept /\ source'[p] = source[p] /\ sink'[a] = t /\ sink'[p] = sink[p]
      /\ lock'[a].by = "receive" /\ lock'[p] = lock[p]
      /\ net'[p] = net[p] \ {d} /\ net'[a] = net[a]
  BY <1>1, <1>3, <1>7 DEF Shapes
<1>9. \A e \in Ends : Budget(e)'
  BY <1>2, BudgetKept
<1>10. Shapes'
  <2>1. /\ source' \in [Ends -> DataSource] /\ sink' \in [Ends -> SinkState]
        /\ lock' \in [Ends -> Lock] /\ net' \in [Ends -> SUBSET Datagram]
    BY <1>1, <1>3, <1>4, <1>5, <1>7 DEF Shapes
  <2>2. /\ accumulator' \in [Ends -> Nat] /\ available' \in [Ends -> Nat]
        /\ tokens' \in [Ends -> Nat] /\ threshold' \in [Ends -> Nat]
        /\ congestion' \in [Ends -> BOOLEAN]
    BY <1>2, BudgetKept
  <2> QED
    BY <1>1, <1>3, <2>1, <2>2 DEF Shapes
<1>11. Turns(a)' /\ Turns(p)'
  <2>1. s.phase = "idle" /\ SinkOK(Idle(s))
    BY <1>1, <1>3 DEF Turns
  <2>2. Turns(a)'
    BY <1>3, <1>5, <1>6, <1>8, <2>1 DEF Turns
  <2>3. Turns(p)'
    BY <1>1, <1>3, <1>8 DEF FlowInv, Turns
  <2> QED
    BY <2>2, <2>3
<1>12. Line(a)'
  <2>1. LineOK(source[p], s, net[p], net[a], read[a])
    BY <1>1 DEF Line
  <2>2. LineOK(source[p], t, net[p], net[a], read[a])
    BY <1>5, <2>1 DEF LineOK
  <2>3. LineOK(source[p], t, net'[p], net[a], read[a])
    BY <1>8, <2>2, NetworkMoves
  <2> QED
    BY <1>3, <1>8, <2>3 DEF Line
<1>13. Line(p)'
  <2>1. LineOK(w, sink[p], net[a], net[p], read[p])
    BY <1>1 DEF FlowInv, Line
  <2>2. sink[p] \in SinkState /\ w.next \in Nat /\ w.next <= kept.next
    BY <1>1, <1>4, FlowNumbers DEF Shapes, DataSource
  <2>3. kept.first <= Seen(sink[p])
    <3>1. w.first <= Seen(sink[p]) /\ d.nextSeen <= Seen(sink[p])
      BY <2>1 DEF LineOK
    <3>2. kept.first \in Nat /\ d.nextSeen \in Nat /\ Seen(sink[p]) \in Nat
      BY <1>2, <1>4, <2>2, SeenBounds, FlowNumbers DEF DataSource
    <3> QED
      BY <1>4, <3>1, <3>2
  <2>4. LineOK(kept, sink[p], net[a], net[p], read[p])
    BY <1>1, <1>4, <2>1, <2>2, <2>3, SourceMoves
  <2>5. LineOK(kept, sink[p], net[a], net'[p], read[p])
    BY <1>8, <2>4, NetworkMoves
  <2> QED
    BY <1>1, <1>3, <1>8, <2>5 DEF Line
<1>14. Honest => Honest'
  <2> SUFFICES ASSUME Honest, NEW e \in Ends PROVE HonestEnd(e)'
    BY DEF Honest
  <2>1. SinkFaithful(t)
    BY <1>1, <1>5 DEF Honest, HonestEnd, SinkFaithful, Pivots
  <2> QED
    BY <1>1, <1>3, <1>8, <2>1 DEF Honest, HonestEnd
<1> QED
  BY <1>1, <1>9, <1>10, <1>11, <1>12, <1>13, <1>14 DEF FlowInv, FlowKept

-----------------------------------------------------------------------------
(* The theorems.                                                           *)

LEMMA FlowStep == FlowInv /\ [Next]_vars => FlowKept
<1> SUFFICES ASSUME FlowInv, [Next]_vars PROVE FlowKept
  OBVIOUS
<1>1. ASSUME NEW a \in Ends, NEW count \in 1 .. MaxChunks, Write(a, count) PROVE FlowKept
  BY <1>1, WriteKept
<1>2. ASSUME NEW a \in Ends, SendOne(a) \/ SendFails(a) \/ SendDone(a) PROVE FlowKept
  BY <1>2, SendOneKept, SendFailsKept, SendDoneKept
<1>3. ASSUME NEW a \in Ends, Timeout(a) \/ Acknowledge(a) \/ Stop(a) PROVE FlowKept
  BY <1>3, TimeoutKept, AcknowledgeKept, StopKept
<1>4. ASSUME NEW a \in Ends, ReadChunk(a) \/ SolveStep(a) \/ Answer(a) PROVE FlowKept
  BY <1>4, ReadChunkKept, SolveStepKept, AnswerKept
<1>5. ASSUME NEW a \in Ends, NEW d \in net[Peer(a)], Receive(a, d) PROVE FlowKept
  BY <1>5, ReceiveKept
<1>6. ASSUME NEW a \in Ends, NEW d \in net[a], Lose(a, d) PROVE FlowKept
  BY <1>6, LoseKept
<1>7. CASE UNCHANGED vars
  BY <1>7 DEF FlowInv, FlowKept, Shapes, Budget, Turns, Line, Honest, HonestEnd, vars, control
<1> QED
  BY <1>1, <1>2, <1>3, <1>4, <1>5, <1>6, <1>7 DEF Next

LEMMA FlowInvariant == Spec => []FlowInv
<1>1. FlowInv /\ [Next]_vars => FlowInv'
  BY FlowStep DEF FlowKept
<1> QED
  BY FlowStarts, <1>1, PTL DEF Spec

\* The type invariant of a link: windows, rows and counters are what they
\* should be; what is decoded is seen and what is seen discovered, even while
\* another thread solves; an end owes no more redundancy than for what it has
\* unacknowledged, and may send no more at once than its congestion window.
THEOREM FlowTyped == Spec => []TypeOK
<1>1. FlowInv => TypeOK
  <2> SUFFICES ASSUME FlowInv PROVE TypeOK
    OBVIOUS
  <2>1. Windows
    BY DEF FlowInv, Shapes, Windows
  <2>2. ASSUME NEW e \in Ends
        PROVE  /\ \A q \in Pivots(sink[e]) : sink[e].rows[q] \in Combination
               /\ sink[e].in \in Combination
               /\ sink[e].nextDecoded <= sink[e].nextSeen
               /\ sink[e].nextSeen <= sink[e].nextDiscovered
    <3>1. sink[e] \in SinkState /\ SinkOK(Idle(sink[e]))
      BY DEF FlowInv, Shapes, Turns
    <3>2. /\ Idle(sink[e]).nextDecoded = sink[e].nextDecoded
          /\ Idle(sink[e]).nextSeen = sink[e].nextSeen
          /\ Idle(sink[e]).nextDiscovered = sink[e].nextDiscovered
      BY <3>1, IdleSame
    <3> QED
      BY <3>1, <3>2, RowsAreCombinations DEF SinkOK, SinkState
  <2>3. ASSUME NEW e \in Ends
        PROVE  /\ {accumulator[e], available[e], tokens[e], threshold[e]} \subseteq Nat
               /\ accumulator[e] <= Redundancy * Rank(source[e]) /\ available[e] <= tokens[e]
               /\ {acknowledge[e], closed[e], congestion[e]} \subseteq BOOLEAN
    BY DEF FlowInv, Shapes, Budget
  <2>4. ASSUME NEW e \in Ends
        PROVE  /\ lock[e].by \in {"none", "write", "alarm", "receive", "answer"}
               /\ reader[e] \in {"receive", "solve"}
               /\ \A d \in net[e] : d \in Datagram
               /\ \A i \in 1 .. Len(read[e]) : read[e][i] \in Vector
    <3>1. lock[e] \in Lock /\ net[e] \in SUBSET Datagram /\ read[e] \in Seq(Vector)
      BY DEF FlowInv, Shapes
    <3> QED
      BY <3>1 DEF FlowInv, Shapes, Lock
  <2> QED
    BY <2>1, <2>2, <2>3, <2>4 DEF TypeOK
<1> QED
  BY FlowInvariant, <1>1, PTL

\* A source lets go of nothing beyond a row that the other end holds or has
\* read, and neither does an acknowledgement still in flight, whatever is
\* lost, overtaken or read in the middle of solve; and nothing is seen that
\* has not been written.
THEOREM AcknowledgedAlwaysSeen == Spec => []AcknowledgedIsSeen
<1>1. FlowInv => AcknowledgedIsSeen
  <2> SUFFICES ASSUME FlowInv, NEW e \in Ends
               PROVE  /\ source[e].first <= Seen(sink[Peer(e)])
                      /\ Seen(sink[Peer(e)]) <= source[e].next
                      /\ \A d \in net[Peer(e)] : d.nextSeen <= Seen(sink[Peer(e)])
    BY DEF AcknowledgedIsSeen
  <2> DEFINE p == Peer(e)
             s == sink[p]
             w == source[e]
  <2>1. p \in Ends /\ Peer(p) = e
    BY TwoEnds
  <2>2. LineOK(w, s, net[e], net[p], read[p]) /\ s \in SinkState /\ w \in DataSource
    BY <2>1 DEF FlowInv, Line, Shapes
  <2>3. SinkOK(Idle(s))
    BY <2>1 DEF FlowInv, Turns
  <2>4. Seen(Idle(s)) <= s.nextDiscovered
    BY <2>2, <2>3, IdleSame, SeenIsDiscovered DEF LineOK
  <2>5. /\ Seen(s) = Seen(Idle(s)) /\ Seen(s) \in Nat /\ s.nextDiscovered \in Nat
        /\ w.next \in Nat
    BY <2>2, IdleSame, SeenBounds, FlowNumbers DEF SinkState, DataSource
  <2>6. Seen(s) <= w.next
    BY <2>2, <2>4, <2>5 DEF LineOK
  <2> QED
    BY <2>2, <2>6 DEF LineOK
<1> QED
  BY FlowInvariant, <1>1, PTL

-----------------------------------------------------------------------------
(* The refinement of ReliableStream, step by step.                         *)

LEMMA StreamStarts == Init => Stream!Init
BY DEF Init, Stream!Init

LEMMA StreamStep ==
  FlowInv /\ Honest /\ Narrow /\ [Next]_vars => [Stream!Next]_(Stream!vars)
<1> SUFFICES ASSUME FlowInv, Honest, [Next]_vars PROVE [Stream!Next]_(Stream!vars)
  OBVIOUS
<1> DEFINE written == [e \in Ends |-> source[e].next]
<1>1. source \in [Ends -> DataSource]
  BY DEF FlowInv, Shapes
\* A step that leaves the writer's offsets and what is read is a stutter.
<1>2. ASSUME \A e \in Ends : source'[e].next = source[e].next, read' = read
      PROVE  [Stream!Next]_(Stream!vars)
  <2>1. written' = written
    BY <1>2
  <2> QED
    BY <1>2, <2>1 DEF Stream!vars
<1>3. ASSUME NEW a \in Ends, NEW count \in 1 .. MaxChunks, Write(a, count)
      PROVE  [Stream!Next]_(Stream!vars)
  <2> DEFINE w2 == WriteSource(source[a], count)
  <2>1. source' = [source EXCEPT ![a] = w2] /\ read' = read
    BY <1>3 DEF Write
  <2>2. w2.next = source[a].next + count
    BY <1>1 DEF WriteSource, DataSource
  <2> HIDE DEF w2
  <2>3. \A e \in Ends : source'[e].next = IF e = a THEN source[e].next + count
                                          ELSE source[e].next
    BY <1>1, <2>1, <2>2
  <2>4. written' = [written EXCEPT ![a] = @ + count]
    BY <2>3
  <2>5. Stream!Write(a)
    BY <2>1, <2>4 DEF Stream!Write
  <2> QED
    BY <2>5 DEF Stream!Next
<1>4. ASSUME NEW a \in Ends, ReadChunk(a) PROVE [Stream!Next]_(Stream!vars)
  <2>1. /\ Len(read[a]) < source[Peer(a)].next
        /\ read' = [read EXCEPT ![a] = Append(@, UnitVector(Len(@)))]
        /\ source' = source
    BY <1>4, ReadChunkKept DEF ReadChunk
  <2>2. Peer(a) \in Ends \ {a} /\ Len(read[a]) < written[Peer(a)] /\ written' = written
    BY <2>1, TwoEnds
  <2>3. Stream!Deliver(a)
    BY <2>1, <2>2 DEF Stream!Deliver
  <2> QED
    BY <2>3 DEF Stream!Next
<1>5. ASSUME NEW a \in Ends, NEW d \in net[Peer(a)], Receive(a, d)
      PROVE  [Stream!Next]_(Stream!vars)
  <2>1. source' = [source EXCEPT ![a] = DropSource(source[a], d.nextSeen)] /\ read' = read
    BY <1>5 DEF Receive
  <2>2. d.nextSeen \in Nat /\ source[a].first <= source[a].next
    BY TwoEnds DEF FlowInv, Shapes, Datagram, Budget
  <2>3. DropSource(source[a], d.nextSeen).next = source[a].next
    BY <1>1, <2>2, DropSourceOK
  <2>4. \A e \in Ends : source'[e].next = source[e].next
    BY <1>1, <2>1, <2>3
  <2> QED
    BY <1>2, <2>1, <2>4
<1>6. ASSUME NEW a \in Ends,
             \/ SendOne(a) \/ SendFails(a) \/ SendDone(a) \/ Timeout(a)
             \/ Acknowledge(a) \/ Stop(a) \/ SolveStep(a) \/ Answer(a)
             \/ \E d \in net[a] : Lose(a, d)
      PROVE  [Stream!Next]_(Stream!vars)
  <2>1. source' = source /\ read' = read
    BY <1>6 DEF SendOne, SendFails, SendDone, Timeout, Acknowledge, Stop, SolveStep,
                SolveTurn, Answer, Lose
  <2> QED
    BY <1>2, <2>1
<1>7. CASE UNCHANGED vars
  BY <1>2, <1>7 DEF vars
<1> QED
  BY <1>3, <1>4, <1>5, <1>6, <1>7 DEF Next

\* As long as no end has more than GenerateSize chunks unacknowledged, each
\* end reads exactly what the other has written, once and in order, whatever
\* the network loses or reorders.  (Beyond, the positions generate draws for
\* the components and for the data part, and MCFlowWindow shows what follows.)
THEOREM NarrowIsReliable == Spec /\ []Narrow => IsReliableStream
<1>1. FlowInv /\ Honest /\ Narrow /\ [Next]_vars => Honest'
  BY FlowStep DEF FlowKept
<1>2. FlowInv /\ [Next]_vars => FlowInv'
  BY FlowStep DEF FlowKept
<1> QED
  BY FlowStarts, StreamStarts, StreamStep, <1>1, <1>2, PTL
  DEF Spec, IsReliableStream, Stream!Spec

\* The same for applications that write no more than GenerateSize chunks.
THEOREM ShortIsReliable ==
  ASSUME \A s \in Scenarios : \A e \in Ends : s.maxWrites[e] <= GenerateSize
  PROVE  Spec => IsReliableStream
<1>1. FlowInv => Narrow
  <2> SUFFICES ASSUME FlowInv, NEW e \in Ends PROVE Rank(source[e]) <= GenerateSize
    BY DEF Narrow
  <2>1. /\ source[e].first \in Nat /\ source[e].next \in Nat
        /\ source[e].next <= scenario.maxWrites[e]
        /\ scenario.maxWrites[e] \in Nat /\ scenario.maxWrites[e] <= GenerateSize
    BY FlowNumbers DEF FlowInv, Shapes, Budget, Scenario, DataSource
  <2> QED
    BY <2>1, FlowNumbers DEF Rank
<1> QED
  BY <1>1, FlowInvariant, NarrowIsReliable, PTL
=============================================================================
