--------------------------- MODULE FountainProofs ---------------------------
(***************************************************************************)
(* Lemmas about the operators of Fountain, for every field and every size: *)
(* the steps of solve keep a sink consistent.                              *)
(***************************************************************************)
EXTENDS Fountain, WellFoundedInduction, TLAPS

\* A non-empty set of naturals has a smallest element, which Smallest finds.
LEMMA SmallestIsLeast ==
  ASSUME NEW S \in SUBSET Nat, S # {}
  PROVE  Smallest(S) \in S /\ \A m \in S : Smallest(S) <= m
<1>1. PICK n \in S : \A m \in S : ~ (<<m, n>> \in OpToRel(<, Nat))
  BY NatLessThanWellFounded, WFMin, Zenon
<1>2. \A m \in S : ~ (m < n)
  BY <1>1, Zenon DEF OpToRel
<1>3. \A m \in S : n <= m
  BY <1>2
<1> QED
  BY <1>3 DEF Smallest

\* A non-empty set of naturals with an upper bound has a largest element,
\* which Largest finds.
LEMMA LargestIsGreatest ==
  ASSUME NEW S \in SUBSET Nat, S # {}, NEW b \in Nat, \A m \in S : m <= b
  PROVE  Largest(S) \in S /\ \A m \in S : m <= Largest(S)
<1> DEFINE U == {u \in Nat : \A m \in S : m <= u}
<1>1. U \in SUBSET Nat /\ b \in U
  OBVIOUS
<1>2. Smallest(U) \in U /\ \A u \in U : Smallest(U) <= u
  BY <1>1, SmallestIsLeast
<1> DEFINE n == Smallest(U)
<1>3. n \in Nat /\ \A m \in S : m <= n
  BY <1>2
<1>4. n \in S
  <2> SUFFICES ASSUME n \notin S PROVE FALSE
    OBVIOUS
  <2>1. \A m \in S : m <= n - 1 /\ n - 1 \in Nat
    BY <1>3
  <2>2. n - 1 \in U
    BY <2>1
  <2> QED
    BY <1>2, <1>3, <2>2
<1> QED
  BY <1>3, <1>4 DEF Largest

LEMMA LargestOffset ==
  ASSUME NEW S \in SUBSET Offsets, S # {}
  PROVE  Largest(S) \in S /\ \A m \in S : m <= Largest(S)
<1>1. S \in SUBSET Nat /\ MaxChunks \in Nat /\ \A m \in S : m <= MaxChunks
  BY SizeAssumption DEF Offsets
<1> QED
  BY <1>1, LargestIsGreatest

LEMMA SmallestOffset ==
  ASSUME NEW S \in SUBSET Offsets, S # {}
  PROVE  Smallest(S) \in S /\ \A m \in S : Smallest(S) <= m
<1>1. S \in SUBSET Nat
  BY SizeAssumption DEF Offsets
<1> QED
  BY <1>1, SmallestIsLeast

-----------------------------------------------------------------------------
(* Combinations                                                            *)

\* The first component of a combination is a component, and none is before.
LEMMA FirstIsLeast ==
  ASSUME NEW c \in Combination, ~isNull(c)
  PROVE  /\ firstComponent(c) \in Offsets
         /\ c.comp[firstComponent(c)] \in Coeff \ {0}
         /\ \A i \in Offsets : i < firstComponent(c) => c.comp[i] = 0
<1>1. Components(c) \in SUBSET Offsets /\ Components(c) # {}
  BY DEF Components, isNull
<1>2. /\ firstComponent(c) \in Components(c)
      /\ \A m \in Components(c) : firstComponent(c) <= m
  BY <1>1, SmallestOffset DEF firstComponent
<1> QED
  BY <1>2, SizeAssumption DEF Components, Combination, Vector, Offsets

\* The last component of a combination is a component, and none is after.
LEMMA LastIsGreatest ==
  ASSUME NEW c \in Combination, ~isNull(c)
  PROVE  /\ lastComponent(c) \in Components(c)
         /\ lastComponent(c) \in Offsets
         /\ \A i \in Offsets : i > lastComponent(c) => c.comp[i] = 0
<1>1. Components(c) \in SUBSET Offsets /\ Components(c) # {}
  BY DEF Components, isNull
<1>2. /\ lastComponent(c) \in Components(c)
      /\ \A m \in Components(c) : m <= lastComponent(c)
  BY <1>1, LargestOffset DEF lastComponent
<1> QED
  BY <1>2, SizeAssumption DEF Components, Combination, Vector, Offsets

\* Row operations yield combinations, component by component.
LEMMA VectorClosure ==
  ASSUME NEW v \in Vector, NEW w \in Vector, NEW x \in Coeff
  PROVE  /\ PlusVector(v, w) \in Vector
         /\ TimesVector(v, x) \in Vector
         /\ \A i \in Offsets : /\ PlusVector(v, w)[i] = gAdd(v[i], w[i])
                               /\ TimesVector(v, x)[i] = gMul(v[i], x)
BY FieldAssumption DEF Vector, PlusVector, TimesVector

LEMMA RowOperations ==
  ASSUME NEW c \in Combination, NEW d \in Combination, NEW x \in Coeff
  PROVE  /\ Plus(c, d) \in Combination /\ Times(c, x) \in Combination
         /\ Plus(c, d).comp = PlusVector(c.comp, d.comp)
         /\ Plus(c, d).data = PlusVector(c.data, d.data)
         /\ Times(c, x).comp = TimesVector(c.comp, x)
         /\ Times(c, x).data = TimesVector(c.data, x)
BY VectorClosure DEF Plus, Times, Combination

LEMMA NullIsCombination == NullCombination \in Combination /\ isNull(NullCombination)
BY FieldAssumption DEF NullCombination, Combination, Vector, ZeroVector, isNull, Components

-----------------------------------------------------------------------------
(* What a call of solve keeps.  The rows are triangular: the row of pivot  *)
(* q is 1 at q and 0 before, and has nothing beyond what was discovered;   *)
(* and if every combination that comes holds the data its components say,  *)
(* then every row does.                                                    *)

\* The states of a sink.
Rows == UNION {[P -> Combination] : P \in SUBSET Offsets}
SinkState ==
  [rows : Rows,
   nextDiscovered : 0 .. MaxChunks, nextSeen : 0 .. MaxChunks,
   nextDecoded : 0 .. MaxChunks, nextRead : 0 .. MaxChunks,
   dropped : Nat, finished : BOOLEAN,
   phase : {"idle", "eliminate", "substitute"}, in : Combination,
   row : 0 .. MaxChunks, col : 0 .. MaxChunks]

Within(c, bound) == \A i \in Offsets : i >= bound => c.comp[i] = 0

Faithful(c) == c.data = c.comp

Triangular(c, q) == c.comp[q] = 1 /\ \A i \in Offsets : i < q => c.comp[i] = 0

RowOK(c, q, bound) == Triangular(c, q) /\ Within(c, bound)

SinkOK(s) ==
  /\ s \in SinkState
  /\ s.nextDecoded <= s.nextSeen /\ s.nextSeen <= s.nextDiscovered
  /\ Within(s.in, s.nextDiscovered)
  /\ \A q \in Pivots(s) : RowOK(s.rows[q], q, s.nextDiscovered)
  /\ s.phase = "substitute" => s.row \in Pivots(s)

\* The combinations of a sink hold what they say.
SinkFaithful(s) == Faithful(s.in) /\ \A q \in Pivots(s) : Faithful(s.rows[q])

\* What may not change from s to t: counters do not move back, and a decoded
\* row stays as it is.
Keeps(s, t) ==
  /\ t.nextSeen >= s.nextSeen /\ t.nextDecoded >= s.nextDecoded
  /\ \A k \in Pivots(s) :
        ~isCoded(s.rows[k]) => k \in Pivots(t) /\ t.rows[k] = s.rows[k]

\* The rows of a sink are combinations, at offsets.
LEMMA RowsAreCombinations ==
  ASSUME NEW s \in SinkState
  PROVE  /\ Pivots(s) \in SUBSET Offsets
         /\ \A q \in Pivots(s) : s.rows[q] \in Combination
         /\ s.rows \in [Pivots(s) -> Combination]
BY DEF SinkState, Rows, Pivots

LEMMA SameKeeps ==
  ASSUME NEW s \in SinkState, NEW t, t.rows = s.rows,
         t.nextSeen = s.nextSeen, t.nextDecoded = s.nextDecoded
  PROVE  Keeps(s, t)
<1>1. s.nextSeen >= s.nextSeen /\ s.nextDecoded >= s.nextDecoded
  BY SizeAssumption DEF SinkState
<1> QED
  BY <1>1 DEF Keeps, Pivots

\* A function over offsets into combinations may be the rows of a sink.
LEMMA RowsMayBe ==
  ASSUME NEW P \in SUBSET Offsets, NEW f \in [P -> Combination]
  PROVE  f \in Rows
BY DEF Rows

LEMMA EmptySinkOK == SinkOK(EmptySink) /\ SinkFaithful(EmptySink)
<1>1. << >> \in Rows
  <2>1. << >> \in [{} -> Combination]
    OBVIOUS
  <2> QED
    BY <2>1, RowsMayBe
<1>2. EmptySink \in SinkState
  BY <1>1, NullIsCombination, SizeAssumption DEF EmptySink, SinkState
<1>3. Within(EmptySink.in, 0) /\ Faithful(EmptySink.in)
  BY DEF Within, Faithful, EmptySink, NullCombination, ZeroVector
<1>4. Pivots(EmptySink) = {}
  BY DEF Pivots, EmptySink
<1>5. /\ EmptySink.nextDecoded = 0 /\ EmptySink.nextSeen = 0
      /\ EmptySink.nextDiscovered = 0 /\ EmptySink.phase = "idle"
  BY DEF EmptySink
<1> QED
  BY <1>2, <1>3, <1>4, <1>5 DEF SinkOK, SinkFaithful

LEMMA IdleOK ==
  ASSUME NEW s, SinkOK(s)
  PROVE  /\ SinkOK(Idle(s)) /\ Keeps(s, Idle(s))
         /\ SinkFaithful(s) => SinkFaithful(Idle(s))
<1>1. s \in SinkState /\ 0 \in 0 .. MaxChunks /\ NullCombination \in Combination
  BY NullIsCombination, SizeAssumption DEF SinkOK
<1>2. /\ Idle(s) \in SinkState
      /\ Idle(s).rows = s.rows /\ Idle(s).in = NullCombination
      /\ Idle(s).nextDiscovered = s.nextDiscovered
      /\ Idle(s).nextSeen = s.nextSeen /\ Idle(s).nextDecoded = s.nextDecoded
      /\ Idle(s).phase = "idle"
  BY <1>1 DEF Idle, SinkState
<1>3. Within(NullCombination, s.nextDiscovered) /\ Faithful(NullCombination)
  BY DEF Within, Faithful, NullCombination, ZeroVector
<1> QED
  BY <1>1, <1>2, <1>3, SameKeeps DEF SinkOK, SinkFaithful, Pivots

LEMMA SolveOK ==
  ASSUME NEW s, SinkOK(s), NEW c \in Combination
  PROVE  /\ SinkOK(Solve(s, c)) /\ Keeps(s, Solve(s, c))
         /\ SinkFaithful(s) /\ Faithful(c) => SinkFaithful(Solve(s, c))
<1>1. CASE s.finished \/ isNull(c)
  BY <1>1, SameKeeps DEF Solve, SinkOK
<1>2. CASE ~(s.finished \/ isNull(c))
  <2> DEFINE next == Solve(s, c)
             bound == Greatest(s.nextDiscovered, lastComponent(c) + 1)
  <2>1. bound \in 0 .. MaxChunks /\ bound >= s.nextDiscovered /\ Within(c, bound)
    BY <1>2, LastIsGreatest, SizeAssumption
    DEF Greatest, Within, Offsets, SinkOK, SinkState
  <2>2. /\ next = [s EXCEPT !.nextDiscovered = bound, !.phase = "eliminate", !.in = c]
    BY <1>2 DEF Solve
  <2>3. /\ next \in SinkState /\ next.rows = s.rows /\ next.in = c
        /\ next.nextDiscovered = bound /\ next.phase = "eliminate"
        /\ next.nextSeen = s.nextSeen /\ next.nextDecoded = s.nextDecoded
    <3> HIDE DEF bound
    <3> QED BY <2>1, <2>2 DEF SinkOK, SinkState
  <2>4. \A q \in Pivots(s) : Within(s.rows[q], bound)
    BY <2>1, SizeAssumption DEF SinkOK, RowOK, Within, Offsets, SinkState
  <2>5. \A q \in Pivots(next) : RowOK(next.rows[q], q, next.nextDiscovered)
    BY <2>3, <2>4 DEF SinkOK, RowOK, Pivots
  <2>6. Within(next.in, next.nextDiscovered)
    BY <2>1, <2>3
  <2>7. next.nextDecoded <= next.nextSeen /\ next.nextSeen <= next.nextDiscovered
    BY <2>1, <2>3, SizeAssumption DEF SinkOK, SinkState
  <2>8. SinkFaithful(s) /\ Faithful(c) => SinkFaithful(next)
    BY <2>3 DEF SinkFaithful, Pivots
  <2> HIDE DEF bound
  <2> QED
    BY <2>3, <2>5, <2>6, <2>7, <2>8, SameKeeps DEF SinkOK
<1> QED
  BY <1>1, <1>2

\* Adding a multiple of a row keeps what the two combinations share.
LEMMA AddMultiple ==
  ASSUME NEW c \in Combination, NEW d \in Combination, NEW x \in Coeff
  PROVE  LET e == Plus(c, Times(d, x))
         IN  /\ e \in Combination
             /\ \A i \in Offsets : e.comp[i] = gAdd(c.comp[i], gMul(d.comp[i], x))
             /\ Faithful(c) /\ Faithful(d) => Faithful(e)
             /\ \A bound : Within(c, bound) /\ Within(d, bound) => Within(e, bound)
<1> DEFINE e == Plus(c, Times(d, x))
<1>1. Times(d, x) \in Combination /\ e \in Combination
  BY RowOperations
<1>2. /\ e.comp = PlusVector(c.comp, TimesVector(d.comp, x))
      /\ e.data = PlusVector(c.data, TimesVector(d.data, x))
  BY <1>1, RowOperations
<1>3. \A i \in Offsets : e.comp[i] = gAdd(c.comp[i], gMul(d.comp[i], x))
  BY <1>2 DEF PlusVector, TimesVector
<1>4. Faithful(c) /\ Faithful(d) => Faithful(e)
  BY <1>2 DEF Faithful
<1>5. \A bound : Within(c, bound) /\ Within(d, bound) => Within(e, bound)
  <2>1. gMul(0, x) = 0 /\ gAdd(0, 0) = 0
    BY FieldAssumption
  <2> HIDE DEF e
  <2> QED
    BY <1>3, <2>1 DEF Within
<1> QED
  BY <1>1, <1>3, <1>4, <1>5

LEMMA EliminateOK ==
  ASSUME NEW s, SinkOK(s), CanEliminate(s)
  PROVE  /\ SinkOK(Eliminate(s)) /\ Keeps(s, Eliminate(s))
         /\ SinkFaithful(s) => SinkFaithful(Eliminate(s))
<1> DEFINE p == firstComponent(s.in)
           e == Plus(s.in, Times(s.rows[p], s.in.comp[p]))
<1>1. s \in SinkState /\ s.in \in Combination /\ p \in Pivots(s)
  BY DEF SinkOK, SinkState, CanEliminate
<1>2. s.rows[p] \in Combination /\ s.in.comp[p] \in Coeff
  BY <1>1, RowsAreCombinations, FirstIsLeast DEF CanEliminate
<1>3. e \in Combination /\ Within(e, s.nextDiscovered) /\ (SinkFaithful(s) => Faithful(e))
  BY <1>1, <1>2, AddMultiple DEF SinkOK, SinkFaithful, RowOK
<1> HIDE DEF e
<1>4. Eliminate(s) = [s EXCEPT !.in = e]
  BY <1>1 DEF Eliminate, SinkState, e
<1>5. /\ Eliminate(s) \in SinkState /\ Eliminate(s).in = e
      /\ Eliminate(s).rows = s.rows
      /\ Eliminate(s).nextDiscovered = s.nextDiscovered
      /\ Eliminate(s).nextSeen = s.nextSeen
      /\ Eliminate(s).nextDecoded = s.nextDecoded
      /\ Eliminate(s).phase = s.phase /\ Eliminate(s).row = s.row
  BY <1>1, <1>3, <1>4 DEF SinkState
<1> QED
  BY <1>1, <1>3, <1>5, SameKeeps DEF SinkOK, SinkFaithful, Pivots

\* The normalised combination is a row of its pivot.
LEMMA NormalisedRow ==
  ASSUME NEW c \in Combination, ~isNull(c), NEW bound, Within(c, bound)
  PROVE  LET p == firstComponent(c)
         IN  /\ Over(c, c.comp[p]) \in Combination
             /\ RowOK(Over(c, c.comp[p]), p, bound)
             /\ Faithful(c) => Faithful(Over(c, c.comp[p]))
<1> DEFINE p == firstComponent(c)
           x == gInv(c.comp[p])
<1>1. /\ p \in Offsets /\ c.comp[p] \in Coeff \ {0}
      /\ \A i \in Offsets : i < p => c.comp[i] = 0
  BY FirstIsLeast
<1>2. x \in Coeff /\ gMul(c.comp[p], x) = 1 /\ gMul(0, x) = 0
  BY <1>1, FieldAssumption
<1> DEFINE d == Times(c, x)
<1>3. /\ d \in Combination
      /\ \A i \in Offsets : d.comp[i] = gMul(c.comp[i], x)
      /\ d.comp = TimesVector(c.comp, x) /\ d.data = TimesVector(c.data, x)
  BY <1>2, RowOperations DEF TimesVector
<1> HIDE DEF p, x, d
<1>4. Triangular(d, p)
  BY <1>1, <1>2, <1>3 DEF Triangular
<1>5. Within(d, bound)
  BY <1>2, <1>3 DEF Within
<1>6. Faithful(c) => Faithful(d)
  BY <1>3 DEF Faithful
<1> QED
  BY <1>3, <1>4, <1>5, <1>6 DEF RowOK, Over, p, x, d

LEMMA InsertOK ==
  ASSUME NEW s, SinkOK(s), CanInsert(s)
  PROVE  /\ SinkOK(Insert(s)) /\ Keeps(s, Insert(s))
         /\ SinkFaithful(s) => SinkFaithful(Insert(s))
<1> DEFINE p == firstComponent(s.in)
           r == Over(s.in, s.in.comp[p])
           P == Pivots(s) \cup {p}
           top == Largest(P)
           new == [q \in P |-> IF q = p THEN r ELSE s.rows[q]]
           last == lastComponent(new[top]) + 1
<1>1. s \in SinkState /\ s.in \in Combination /\ ~isNull(s.in)
  BY DEF SinkOK, SinkState, CanInsert
<1>2. p \in Offsets /\ P \in SUBSET Offsets /\ P # {}
  BY <1>1, FirstIsLeast, RowsAreCombinations
<1>3. top \in P
  BY <1>2, LargestOffset
<1>4. r \in Combination /\ RowOK(r, p, s.nextDiscovered) /\ (SinkFaithful(s) => Faithful(r))
  BY <1>1, NormalisedRow DEF SinkOK, SinkFaithful
<1>5. new \in [P -> Combination] /\ new \in Rows
  <2>1. new \in [P -> Combination]
    BY <1>1, <1>4, RowsAreCombinations
  <2> QED
    BY <1>2, <2>1, RowsMayBe
<1>6. \A q \in P :
        RowOK(new[q], q, s.nextDiscovered) /\ (SinkFaithful(s) => Faithful(new[q]))
  BY <1>4 DEF SinkOK, SinkFaithful
<1>7. new[top] \in Combination /\ ~isNull(new[top])
  <2>1. new[top].comp[top] = 1
    BY <1>3, <1>6 DEF RowOK, Triangular
  <2> QED
    BY <1>2, <1>3, <1>5, <2>1 DEF isNull, Components
<1>8. last \in 0 .. MaxChunks /\ top \in 0 .. MaxChunks
  BY <1>2, <1>3, <1>7, LastIsGreatest, SizeAssumption DEF Offsets
<1> HIDE DEF last
<1>9. Insert(s) = [s EXCEPT !.rows = new, !.phase = "substitute",
                            !.in = NullCombination, !.row = top, !.col = last]
  BY DEF Insert, last
<1> HIDE DEF new, top, P, r
<1>10. /\ Insert(s) \in SinkState /\ Insert(s).in = NullCombination
       /\ Insert(s).rows = new /\ Insert(s).row = top
       /\ Insert(s).nextDiscovered = s.nextDiscovered
       /\ Insert(s).nextSeen = s.nextSeen
       /\ Insert(s).nextDecoded = s.nextDecoded
  BY <1>1, <1>5, <1>8, <1>9, NullIsCombination, ZenonT(40) DEF SinkState
<1>11. Pivots(Insert(s)) = P
  BY <1>5, <1>10 DEF Pivots
<1>12. Within(NullCombination, s.nextDiscovered) /\ Faithful(NullCombination)
  BY DEF Within, Faithful, NullCombination, ZeroVector
<1>13. Keeps(s, Insert(s))
  <2>1. \A k \in Pivots(s) : k \in P /\ new[k] = s.rows[k]
    BY DEF CanInsert, new, P
  <2>2. s.nextSeen >= s.nextSeen /\ s.nextDecoded >= s.nextDecoded
    BY <1>1, SizeAssumption DEF SinkState
  <2> QED
    BY <1>10, <1>11, <2>1, <2>2 DEF Keeps
<1> QED
  BY <1>3, <1>6, <1>10, <1>11, <1>12, <1>13 DEF SinkOK, SinkFaithful

\* A null multiple of a row changes nothing.
LEMMA AddNothing ==
  ASSUME NEW c \in Combination, NEW d \in Combination
  PROVE  Plus(c, Times(d, 0)) = c
<1>1. \A v, w \in Vector : PlusVector(v, TimesVector(w, 0)) = v
  BY FieldAssumption DEF Vector, PlusVector, TimesVector
<1>2. Plus(c, Times(d, 0)) = [comp |-> PlusVector(c.comp, TimesVector(d.comp, 0)),
                              data |-> PlusVector(c.data, TimesVector(d.data, 0))]
  BY DEF Plus, Times
<1> QED
  BY <1>1, <1>2 DEF Combination

\* A triangular row is uncoded only if its pivot is all it has.
LEMMA UncodedRow ==
  ASSUME NEW c \in Combination, NEW q \in Offsets, Triangular(c, q), ~isCoded(c)
  PROVE  c.comp = UnitVector(q)
<1>1. c.comp[q] = 1 /\ c.comp \in [Offsets -> Coeff]
  BY DEF Triangular, Combination, Vector
<1>2. PICK k \in Offsets : Components(c) = {k}
  BY DEF isCoded
<1>3. k = q
  BY <1>1, <1>2 DEF Components
<1> QED
  BY <1>1, <1>2, <1>3 DEF Components, UnitVector

LEMMA SubstituteOK ==
  ASSUME NEW s, SinkOK(s), CanSubstitute(s)
  PROVE  /\ SinkOK(Substitute(s)) /\ Keeps(s, Substitute(s))
         /\ SinkFaithful(s) => SinkFaithful(Substitute(s))
<1> DEFINE q == Largest(Solvers(s))
           c == s.rows[s.row]
           e == Plus(c, Times(s.rows[q], c.comp[q]))
<1>1. s \in SinkState /\ s.row \in Pivots(s) /\ Pivots(s) \in SUBSET Offsets
  BY RowsAreCombinations DEF SinkOK, CanSubstitute
<1>2. q \in Pivots(s) /\ s.row < q
  <2>1. Solvers(s) \in SUBSET Offsets /\ Solvers(s) # {}
    BY <1>1 DEF CanSubstitute, Solvers
  <2>2. q \in Solvers(s)
    BY <2>1, LargestOffset
  <2> QED
    BY <2>2 DEF Solvers
<1>3. /\ c \in Combination /\ s.rows[q] \in Combination /\ c.comp[q] \in Coeff
      /\ RowOK(c, s.row, s.nextDiscovered) /\ RowOK(s.rows[q], q, s.nextDiscovered)
  <2>1. c \in Combination /\ s.rows[q] \in Combination
    BY <1>1, <1>2, RowsAreCombinations
  <2> QED
    BY <1>1, <1>2, <2>1 DEF SinkOK, Combination, Vector
<1>4. /\ e \in Combination /\ Within(e, s.nextDiscovered)
      /\ Faithful(c) /\ Faithful(s.rows[q]) => Faithful(e)
      /\ \A i \in Offsets : e.comp[i] = gAdd(c.comp[i], gMul(s.rows[q].comp[i], c.comp[q]))
  <2> HIDE DEF c, q
  <2>1. /\ e \in Combination
        /\ \A i \in Offsets : e.comp[i] = gAdd(c.comp[i], gMul(s.rows[q].comp[i], c.comp[q]))
        /\ Faithful(c) /\ Faithful(s.rows[q]) => Faithful(e)
        /\ \A bound : Within(c, bound) /\ Within(s.rows[q], bound) => Within(e, bound)
    BY <1>3, AddMultiple
  <2> HIDE DEF e
  <2>2. Within(c, s.nextDiscovered) /\ Within(s.rows[q], s.nextDiscovered)
    BY <1>3 DEF RowOK
  <2> QED
    BY <2>1, <2>2
<1> HIDE DEF e, c, q
<1>5. Triangular(e, s.row)
  <2>1. \A i \in Offsets : i < q => e.comp[i] = c.comp[i]
    <3> SUFFICES ASSUME NEW i \in Offsets, i < q PROVE e.comp[i] = c.comp[i]
      OBVIOUS
    <3>1. s.rows[q].comp[i] = 0 /\ c.comp[i] \in Coeff
      BY <1>3 DEF RowOK, Triangular, Combination, Vector
    <3> QED
      BY <1>3, <1>4, <3>1, FieldAssumption
  <2> QED
    BY <1>1, <1>2, <1>3, <2>1, SizeAssumption DEF RowOK, Triangular, Offsets
<1>6. RowOK(e, s.row, s.nextDiscovered)
  BY <1>4, <1>5 DEF RowOK
<1>7. ~isCoded(c) => e = c
  <2> HAVE ~isCoded(c)
  <2>1. c.comp = UnitVector(s.row)
    BY <1>1, <1>3, UncodedRow DEF RowOK
  <2>2. q \in Offsets /\ q # s.row
    BY <1>1, <1>2, SizeAssumption DEF Offsets
  <2>3. c.comp[q] = 0
    BY <2>1, <2>2 DEF UnitVector
  <2> QED
    BY <1>3, <2>3, AddNothing DEF e
<1>8. CASE isCoded(s.rows[q])
  <2>1. Substitute(s) = [s EXCEPT !.col = s.row]
    BY <1>8 DEF Substitute, q
  <2>2. /\ Substitute(s) \in SinkState /\ Substitute(s).rows = s.rows
        /\ Substitute(s).in = s.in /\ Substitute(s).row = s.row
        /\ Substitute(s).nextDiscovered = s.nextDiscovered
        /\ Substitute(s).nextSeen = s.nextSeen
        /\ Substitute(s).nextDecoded = s.nextDecoded
    BY <1>1, <2>1 DEF SinkState
  <2> QED
    BY <1>1, <2>2, SameKeeps DEF SinkOK, SinkFaithful, Pivots
<1>9. CASE ~isCoded(s.rows[q])
  <2> DEFINE new == [s.rows EXCEPT ![s.row] = e]
  <2>1. new \in [Pivots(s) -> Combination] /\ new \in Rows
    BY <1>1, <1>4, RowsAreCombinations, RowsMayBe
  <2>2. /\ new[s.row] = e
        /\ \A k \in Pivots(s) : k # s.row => new[k] = s.rows[k]
    BY <1>1 DEF Pivots
  <2>3. q \in 0 .. MaxChunks
    BY <1>1, <1>2, SizeAssumption DEF Offsets
  <2> HIDE DEF new
  <2>4. Substitute(s) = [s EXCEPT !.rows = new, !.col = q]
    BY <1>1, <1>9 DEF Substitute, q, c, e, new, SinkState
  <2>5. /\ Substitute(s) \in SinkState /\ Substitute(s).rows = new
        /\ Substitute(s).in = s.in /\ Substitute(s).row = s.row
        /\ Substitute(s).nextDiscovered = s.nextDiscovered
        /\ Substitute(s).nextSeen = s.nextSeen
        /\ Substitute(s).nextDecoded = s.nextDecoded
    BY <1>1, <2>1, <2>3, <2>4 DEF SinkState
  <2>6. Pivots(Substitute(s)) = Pivots(s)
    BY <2>1, <2>5 DEF Pivots
  <2>7. \A k \in Pivots(s) : RowOK(new[k], k, s.nextDiscovered)
    BY <1>6, <2>2 DEF SinkOK
  <2>8. SinkOK(Substitute(s))
    BY <1>1, <2>5, <2>6, <2>7 DEF SinkOK
  <2>9. \A k \in Pivots(s) : ~isCoded(s.rows[k]) => new[k] = s.rows[k]
    BY <1>7, <2>2 DEF c
  <2>10. s.nextSeen >= s.nextSeen /\ s.nextDecoded >= s.nextDecoded
    BY <1>1, SizeAssumption DEF SinkState
  <2>11. SinkFaithful(s) => SinkFaithful(Substitute(s))
    BY <1>1, <1>2, <1>4, <2>2, <2>5, <2>6 DEF SinkFaithful, c
  <2> QED
    BY <2>5, <2>6, <2>8, <2>9, <2>10, <2>11 DEF Keeps
<1> QED
  BY <1>8, <1>9

LEMMA DescendOK ==
  ASSUME NEW s, SinkOK(s), CanDescend(s)
  PROVE  /\ SinkOK(Descend(s)) /\ Keeps(s, Descend(s))
         /\ SinkFaithful(s) => SinkFaithful(Descend(s))
<1> DEFINE q == Largest(Below(s))
           last == lastComponent(s.rows[q]) + 1
<1>1. s \in SinkState /\ Pivots(s) \in SUBSET Offsets
  BY RowsAreCombinations DEF SinkOK
<1>2. q \in Pivots(s)
  <2>1. Below(s) \in SUBSET Offsets /\ Below(s) # {}
    BY <1>1 DEF Below, CanDescend
  <2>2. q \in Below(s)
    BY <2>1, LargestOffset
  <2> QED
    BY <2>2 DEF Below
<1>3. s.rows[q] \in Combination /\ ~isNull(s.rows[q])
  <2>1. s.rows[q].comp[q] = 1
    BY <1>2 DEF SinkOK, RowOK, Triangular
  <2> QED
    BY <1>1, <1>2, <2>1, RowsAreCombinations DEF isNull, Components
<1>4. q \in 0 .. MaxChunks /\ last \in 0 .. MaxChunks
  BY <1>1, <1>2, <1>3, LastIsGreatest, SizeAssumption DEF Offsets
<1> HIDE DEF q, last
<1>5. Descend(s) = [s EXCEPT !.row = q, !.col = last]
  BY DEF Descend, q, last
<1>6. /\ Descend(s) \in SinkState /\ Descend(s).rows = s.rows
      /\ Descend(s).in = s.in /\ Descend(s).row = q
      /\ Descend(s).nextDiscovered = s.nextDiscovered
      /\ Descend(s).nextSeen = s.nextSeen
      /\ Descend(s).nextDecoded = s.nextDecoded
  BY <1>1, <1>4, <1>5 DEF SinkState
<1> QED
  BY <1>1, <1>2, <1>6, SameKeeps DEF SinkOK, SinkFaithful, Pivots

LEMMA CountOK ==
  ASSUME NEW s, SinkOK(s)
  PROVE  LET t == Count(s)
         IN  /\ SinkOK(t) /\ Keeps(s, t)
             /\ SinkFaithful(s) => SinkFaithful(t)
             /\ t.rows = s.rows /\ t.phase = "idle"
             /\ t.nextDiscovered = s.nextDiscovered /\ t.dropped = s.dropped
             /\ \A n \in s.nextDecoded .. t.nextDecoded - 1 : Decoded(s, n)
             /\ ~Decoded(s, t.nextDecoded)
             /\ t.finished => \/ s.finished
                              \/ \E k \in s.nextDecoded .. t.nextDecoded - 1 :
                                    isLast(s.rows[k])
<1> DEFINE kept == Kept(s)
           rows == [q \in kept |-> s.rows[q]]
           open == {n \in s.nextDecoded .. MaxChunks : ~Decoded(s, n)}
           decoded == NextDecoded(s)
           seen == NextSeen(s)
           finished == s.finished \/ LastDecoded(s)
<1>1. s \in SinkState /\ Pivots(s) \in SUBSET Offsets
  BY RowsAreCombinations DEF SinkOK
<1>2. kept = Pivots(s) /\ \A q \in Pivots(s) : q < s.nextDiscovered
  <2> SUFFICES ASSUME NEW q \in Pivots(s)
               PROVE  ~isNull(s.rows[q]) /\ q < s.nextDiscovered
    BY DEF Kept
  <2>1. s.rows[q].comp[q] = 1 /\ q \in Offsets
    BY <1>1 DEF SinkOK, RowOK, Triangular
  <2>2. s.nextDiscovered \in Nat /\ q \in Nat
    BY <1>1, <2>1, SizeAssumption DEF Offsets, SinkState
  <2> QED
    BY <2>1, <2>2 DEF SinkOK, RowOK, Within, isNull, Components
<1>3. rows = s.rows
  BY <1>1, <1>2, RowsAreCombinations DEF Pivots
<1>4. seen \in s.nextSeen .. s.nextDiscovered /\ \A q \in Pivots(s) : q + 1 <= seen
  <2>1. CASE kept = {}
    BY <1>1, <1>2, <2>1, SizeAssumption DEF SinkOK, SinkState, NextSeen
  <2>2. CASE kept # {}
    <3>1. Largest(kept) \in kept /\ \A q \in kept : q <= Largest(kept)
      BY <1>1, <1>2, <2>2, LargestOffset
    <3>2. /\ s.nextSeen \in Nat /\ s.nextDiscovered \in Nat /\ Largest(kept) \in Nat
          /\ Largest(kept) < s.nextDiscovered /\ s.nextSeen <= s.nextDiscovered
          /\ \A q \in Pivots(s) : q \in Nat /\ q <= Largest(kept)
      BY <1>1, <1>2, <3>1, SizeAssumption DEF SinkOK, SinkState, Offsets
    <3> HIDE DEF kept
    <3> QED
      BY <2>2, <3>2 DEF Greatest, NextSeen, kept
  <2> QED
    BY <2>1, <2>2
<1>5. /\ decoded \in s.nextDecoded .. seen /\ ~Decoded(s, decoded)
      /\ \A n \in s.nextDecoded .. decoded - 1 : Decoded(s, n)
  <2>1. \A n \in Nat : n >= seen => ~Decoded(s, n)
    BY <1>1, <1>4, SizeAssumption DEF Decoded, Offsets, SinkState
  <2>2. seen \in open /\ open \in SUBSET Nat
    BY <1>1, <1>4, <2>1, SizeAssumption DEF SinkOK, SinkState
  <2>3. decoded \in open /\ \A n \in open : decoded <= n
    BY <2>2, SmallestIsLeast DEF NextDecoded
  <2>4. decoded \in Nat /\ decoded <= MaxChunks
    BY <2>2, <2>3, SizeAssumption
  <2>5. \A n \in s.nextDecoded .. decoded - 1 : Decoded(s, n)
    BY <1>1, <2>3, <2>4, SizeAssumption DEF SinkState
  <2> QED
    BY <1>1, <1>4, <2>2, <2>3, <2>5, SizeAssumption DEF SinkState
<1>6. finished \in BOOLEAN
  BY <1>1 DEF SinkState
<1> DEFINE counted == [s EXCEPT !.rows = rows, !.nextSeen = seen,
                                !.nextDecoded = decoded, !.finished = finished]
<1>7. Count(s) = Idle(counted)
  BY <1>1 DEF Count, SinkState
<1> HIDE DEF kept, rows, decoded, seen, finished
<1>8. /\ counted.rows = s.rows /\ counted.in = s.in
      /\ counted.nextSeen = seen /\ counted.nextDecoded = decoded
      /\ counted.nextDiscovered = s.nextDiscovered
      /\ counted.phase = s.phase /\ counted.row = s.row
  BY <1>1, <1>3 DEF SinkState
<1>14. counted.dropped = s.dropped /\ counted.finished = finished
  BY <1>1 DEF counted, SinkState
<1>9. counted \in SinkState
  <2>1. seen \in 0 .. MaxChunks /\ decoded \in 0 .. MaxChunks
    BY <1>1, <1>4, <1>5, SizeAssumption DEF SinkState
  <2> QED
    BY <1>1, <1>3, <1>6, <2>1 DEF SinkState
<1>10. decoded <= seen /\ seen <= s.nextDiscovered
  BY <1>1, <1>4, <1>5, SizeAssumption DEF SinkState
<1>11. SinkOK(counted) /\ (SinkFaithful(s) => SinkFaithful(counted))
  BY <1>8, <1>9, <1>10 DEF SinkOK, SinkFaithful, Pivots
<1> HIDE DEF counted
<1>12. /\ Idle(counted).rows = s.rows /\ Idle(counted).nextSeen = seen
       /\ Idle(counted).nextDecoded = decoded /\ Idle(counted).phase = "idle"
       /\ Idle(counted).nextDiscovered = s.nextDiscovered
       /\ Idle(counted).dropped = s.dropped /\ Idle(counted).finished = finished
  BY <1>1, <1>8, <1>9, <1>14 DEF Idle, SinkState
<1>13. seen >= s.nextSeen /\ decoded >= s.nextDecoded
  BY <1>1, <1>4, <1>5, SizeAssumption DEF SinkState
<1>15. finished => s.finished \/ \E k \in s.nextDecoded .. decoded - 1 : isLast(s.rows[k])
  BY DEF finished, decoded, LastDecoded
<1> QED
  BY <1>5, <1>7, <1>11, <1>12, <1>13, <1>15, IdleOK DEF Keeps, Pivots

-----------------------------------------------------------------------------
(* What a source generates                                                 *)

\* A file source combines the chunks it says, and nothing beyond the file.
LEMMA GeneratedFromFile ==
  ASSUME NEW chunks \in 0 .. MaxChunks, NEW c \in GenerateFile(chunks)
  PROVE  c \in Combination /\ Faithful(c)
<1>1. CASE chunks = 0
  BY <1>1, NullIsCombination DEF GenerateFile, Faithful, NullCombination
<1>2. CASE chunks # 0
  <2>1. PICK f \in WindowStart(chunks), g \in Coefficients(WindowSize(chunks)) :
          c = [comp |-> Window(f, g), data |-> Window(f, g)]
    BY <1>2 DEF GenerateFile
  <2>2. WindowSize(chunks) \in 1 .. GenerateSize
    BY <1>2, SizeAssumption DEF WindowSize, Least
  <2>3. g \in [0 .. WindowSize(chunks) - 1 -> Coeff]
    <3>1. CASE WindowSize(chunks) = 1
      BY <2>1, <3>1, FieldAssumption DEF Coefficients
    <3>2. CASE WindowSize(chunks) # 1
      <4>1. WindowSize(chunks) \in 2 .. GenerateSize /\ g \in Draws(WindowSize(chunks))
        BY <2>1, <2>2, <3>2, SizeAssumption DEF Coefficients
      <4> QED
        BY <4>1, DrawsAssumption
    <3> QED
      BY <3>1, <3>2
  <2>4. Window(f, g) \in Vector
    BY <2>3, FieldAssumption DEF Window, Vector
  <2> QED
    BY <2>1, <2>4 DEF Combination, Faithful
<1> QED
  BY <1>1, <1>2
=============================================================================
