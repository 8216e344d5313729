------------------------------ MODULE Fountain ------------------------------
(***************************************************************************)
(* The linear data fountain of src/tpn/fountain.cpp as a library of        *)
(* operators: combinations of chunks over a field, the windows the two     *)
(* sources generate, and the steps of Fountain::Sink::solve on the state   *)
(* of a sink.  The modules Sink and Flow give these steps their threads.   *)
(*                                                                         *)
(* A combination is a pair of vectors indexed by chunk offset: comp is     *)
(* mComponents (offset -> coefficient), data is the linear combination of  *)
(* chunks that mData really holds.  The code keeps the two in step by      *)
(* applying each row operation to both; nothing else ties them together.   *)
(*                                                                         *)
(* Every loop of solve is a step of its own, so no operator is recursive.  *)
(***************************************************************************)
EXTENDS Integers, FiniteSets

CONSTANTS
  Coeff,          \* the elements of the field: 0 .. 255 in the code
  gAdd(_, _),     \* addition: xor
  gMul(_, _),     \* multiplication: the table MulTable
  gInv(_),        \* inverse: the table InvTable
  Draws(_),       \* the coefficients a Generator may give, by their number
  MaxChunks,      \* bound: offsets of chunks are below it
  GenerateSize,   \* Fountain::GenerateSize, the widest window generated
  LastChunk       \* offset of the chunk written with the fin flag, if any

ASSUME FieldAssumption ==
  /\ {0, 1} \subseteq Coeff
  /\ \A x, y \in Coeff : gAdd(x, y) \in Coeff /\ gMul(x, y) \in Coeff
  /\ \A x \in Coeff : /\ gAdd(x, x) = 0
                      /\ gMul(1, x) = x /\ gMul(x, 1) = x
                      /\ gMul(0, x) = 0 /\ gMul(x, 0) = 0
                      /\ gAdd(x, 0) = x /\ gAdd(0, x) = x
  /\ \A x \in Coeff \ {0} : /\ gInv(x) \in Coeff \ {0}
                            /\ gMul(x, gInv(x)) = 1
  /\ \A x, y \in Coeff \ {0} : gMul(x, y) # 0

\* The laws of a field, which xor and the tables of GF(256) follow.
ASSUME FieldLaws ==
  \A x, y, z \in Coeff :
    /\ gAdd(x, y) = gAdd(y, x) /\ gAdd(gAdd(x, y), z) = gAdd(x, gAdd(y, z))
    /\ gMul(x, y) = gMul(y, x) /\ gMul(gMul(x, y), z) = gMul(x, gMul(y, z))
    /\ gMul(gAdd(x, y), z) = gAdd(gMul(x, z), gMul(y, z))

ASSUME SizeAssumption ==
  /\ MaxChunks \in Nat \ {0}
  /\ GenerateSize \in Nat \ {0}

ASSUME DrawsAssumption ==
  \A n \in 2 .. GenerateSize : Draws(n) \subseteq [0 .. n - 1 -> Coeff \ {0}]

Offsets == 0 .. MaxChunks - 1
Vector == [Offsets -> Coeff]
Combination == [comp : Vector, data : Vector]

ZeroVector == [i \in Offsets |-> 0]
UnitVector(k) == [i \in Offsets |-> IF i = k THEN 1 ELSE 0]

Smallest(S) == CHOOSE n \in S : \A m \in S : n <= m
Largest(S) == CHOOSE n \in S : \A m \in S : m <= n
Least(a, b) == IF a <= b THEN a ELSE b
Greatest(a, b) == IF a <= b THEN b ELSE a

-----------------------------------------------------------------------------
(* Fountain::Combination                                                   *)

Components(c) == {i \in Offsets : c.comp[i] # 0}

isNull(c) == Components(c) = {}
firstComponent(c) == IF isNull(c) THEN 0 ELSE Smallest(Components(c))
lastComponent(c) == IF isNull(c) THEN 0 ELSE Largest(Components(c))
isCoded(c) == ~ \E k \in Offsets : Components(c) = {k} /\ c.comp[k] = 1

\* The padding byte is read from the data: only the chunk LastChunk was
\* written with the fin flag.
isLast(c) ==
  LastChunk \in Offsets /\ ~isCoded(c) /\ c.data = UnitVector(LastChunk)

PlusVector(v, w) == [i \in Offsets |-> gAdd(v[i], w[i])]
TimesVector(v, x) == [i \in Offsets |-> gMul(v[i], x)]

\* Mutant: the data is not multiplied.
TimesComponents(c, x) == [comp |-> TimesVector(c.comp, x), data |-> c.data]

NullCombination == [comp |-> ZeroVector, data |-> ZeroVector]
Plus(c, d) == [comp |-> PlusVector(c.comp, d.comp),
               data |-> PlusVector(c.data, d.data)]
Times(c, x) == [comp |-> TimesVector(c.comp, x),
                data |-> TimesVector(c.data, x)]
Over(c, x) == Times(c, gInv(x))

-----------------------------------------------------------------------------
(* Fountain::DataSource and Fountain::FileSource.  A source is the window  *)
(* first .. next - 1 of the chunks it holds (mFirstComponent and           *)
(* mCurrentComponent); chunk k holds the k-th KiB written.                 *)

DataSource == [first : 0 .. MaxChunks, next : 0 .. MaxChunks]

Rank(source) == source.next - source.first

\* The random position, with its two ends made more likely, the cap, and the
\* number of chunks combined.  uniform(0, rank + GenerateSize) excludes its
\* upper end.
WindowSize(rank) == Least(rank, GenerateSize)
WindowStart(rank) ==
  {Least(IF r < GenerateSize THEN 0 ELSE r - GenerateSize, rank - WindowSize(rank)) :
     r \in 0 .. rank + GenerateSize - 1}

\* Generator: a seed of 0 (one chunk) gives 1, any other seed never gives 0.
\* There is one seed per nonce: Draws says which outputs they have.
Coefficients(count) ==
  IF count = 1 THEN [0 .. 0 -> {1}] ELSE Draws(count)

Window(start, g) ==
  [i \in Offsets |-> IF i - start \in DOMAIN g THEN g[i - start] ELSE 0]

\* DataSource::generate: the coefficients are recorded from the random
\* position on, the data is taken from the front of the list.
GenerateData(source) ==
  IF Rank(source) = 0 THEN {NullCombination}
  ELSE {[comp |-> Window(source.first + f, g), data |-> Window(source.first, g)] :
          f \in WindowStart(Rank(source)), g \in Coefficients(WindowSize(Rank(source)))}

\* FileSource::generate: the file is read from the random position.
GenerateFile(chunks) ==
  IF chunks = 0 THEN {NullCombination}
  ELSE {[comp |-> Window(f, g), data |-> Window(f, g)] :
          f \in WindowStart(chunks), g \in Coefficients(WindowSize(chunks))}

WriteSource(source, count) == [source EXCEPT !.next = @ + count]

DropSource(source, nextSeen) ==
  LET first == Least(Greatest(source.first, nextSeen), source.next)
  IN  [source EXCEPT !.first = first]

-----------------------------------------------------------------------------
(* Fountain::Sink.  rows is mCombinations, keyed by pivot.  phase, in, row *)
(* and col are the locals of a call of solve: the incoming combination,    *)
(* the iterator of the substitution and its inner index.                   *)

EmptySink ==
  [rows |-> << >>, nextDiscovered |-> 0, nextSeen |-> 0, nextDecoded |-> 0,
   nextRead |-> 0, dropped |-> 0, finished |-> FALSE,
   phase |-> "idle", in |-> NullCombination, row |-> 0, col |-> 0]

Pivots(s) == DOMAIN s.rows
Missing(s) == s.nextDiscovered - (Cardinality(Pivots(s)) + s.dropped)

Idle(s) == [s EXCEPT !.phase = "idle", !.in = NullCombination, !.row = 0, !.col = 0]

\* Mutants: mNextDiscovered is not updated; a combination that starts with
\* a decoded chunk is taken for an old one.
SolveUndiscovered(s, c) ==
  IF s.finished \/ isNull(c) THEN s
  ELSE [s EXCEPT !.phase = "eliminate", !.in = c]
SolveSkippingOld(s, c) ==
  IF s.finished \/ isNull(c) \/ firstComponent(c) < s.nextDecoded THEN s
  ELSE [s EXCEPT !.nextDiscovered = Greatest(@, lastComponent(c) + 1),
                 !.phase = "eliminate", !.in = c]

\* The early returns of solve, and mNextDiscovered.
Solve(s, c) ==
  IF s.finished \/ isNull(c) THEN s
  ELSE [s EXCEPT !.nextDiscovered = Greatest(@, lastComponent(c) + 1),
                 !.phase = "eliminate", !.in = c]

\* Mutant: the row is not scaled by the coefficient.
EliminateUnscaled(s) == [s EXCEPT !.in = Plus(@, s.rows[firstComponent(@)])]

\* One turn of the elimination at the next non-null coefficient: a known
\* pivot is eliminated, an unknown one ends the loop.
CanEliminate(s) ==
  /\ s.phase = "eliminate"
  /\ ~isNull(s.in)
  /\ firstComponent(s.in) \in Pivots(s)
Eliminate(s) ==
  LET p == firstComponent(s.in)
  IN  [s EXCEPT !.in = Plus(@, Times(s.rows[p], @.comp[p]))]

\* Nothing is left of the combination.
CanDiscard(s) == s.phase = "eliminate" /\ isNull(s.in)

\* The reduced combination is normalised and becomes a row, and the
\* substitution starts from the highest row.
CanInsert(s) ==
  /\ s.phase = "eliminate"
  /\ ~isNull(s.in)
  /\ firstComponent(s.in) \notin Pivots(s)
Insert(s) ==
  LET p == firstComponent(s.in)
      top == Largest(Pivots(s) \cup {p})
      new == [q \in Pivots(s) \cup {p} |->
                IF q = p THEN Over(s.in, s.in.comp[p]) ELSE s.rows[q]]
  IN  [s EXCEPT !.rows = new, !.phase = "substitute", !.in = NullCombination,
                !.row = top, !.col = lastComponent(new[top]) + 1]

\* Mutant: the inner loop starts one row too low.
SolversFromBelow(s) == {q \in Pivots(s) : s.row < q /\ q < s.col - 1}

\* The rows the inner loop still has to meet.
Solvers(s) == {q \in Pivots(s) : s.row < q /\ q < s.col}

\* Mutant: the row is not scaled by the coefficient.
SubstituteUnscaled(s) ==
  LET q == Largest(Solvers(s))
  IN  IF isCoded(s.rows[q]) THEN [s EXCEPT !.col = s.row]
      ELSE [s EXCEPT !.rows[s.row] = Plus(@, s.rows[q]), !.col = q]

\* One turn of the inner loop: the row below col is substituted, unless it
\* is coded, which ends the inner loop.
CanSubstitute(s) == s.phase = "substitute" /\ Solvers(s) # {}
Substitute(s) ==
  LET q == Largest(Solvers(s))
  IN  IF isCoded(s.rows[q]) THEN [s EXCEPT !.col = s.row]
      ELSE [s EXCEPT !.rows[s.row] = Plus(@, Times(s.rows[q], @.comp[q])),
                     !.col = q]

\* The end of one turn of the outer loop.
Below(s) == {q \in Pivots(s) : q < s.row}
RowDone(s) == s.phase = "substitute" /\ Solvers(s) = {}
RowSolved(s) == lastComponent(s.rows[s.row]) = s.row

CanDescend(s) == RowDone(s) /\ RowSolved(s) /\ Below(s) # {}
Descend(s) ==
  LET q == Largest(Below(s))
  IN  [s EXCEPT !.row = q, !.col = lastComponent(s.rows[q]) + 1]

\* The last loop of solve: null rows leave, and the counters are moved.
CanCount(s) == RowDone(s) /\ (~RowSolved(s) \/ Below(s) = {})
Kept(s) == {q \in Pivots(s) : ~isNull(s.rows[q])}
Decoded(s, k) == k \in Pivots(s) /\ ~isCoded(s.rows[k])

\* Mutant: what was heard of counts as seen.
NextDiscovered(s) == s.nextDiscovered
NextSeen(s) ==
  IF Kept(s) = {} THEN s.nextSeen ELSE Greatest(s.nextSeen, Largest(Kept(s)) + 1)
NextDecoded(s) == Smallest({n \in s.nextDecoded .. MaxChunks : ~Decoded(s, n)})

\* Mutant: the last chunk finishes the sink wherever it is decoded.
LastSeen(s) == \E k \in Pivots(s) : isLast(s.rows[k])
LastDecoded(s) == \E k \in s.nextDecoded .. NextDecoded(s) - 1 : isLast(s.rows[k])

Count(s) ==
  Idle([s EXCEPT !.rows = [q \in Kept(s) |-> s.rows[q]],
                 !.nextSeen = NextSeen(s),
                 !.nextDecoded = NextDecoded(s),
                 !.finished = @ \/ LastDecoded(s)])

DropSink(s, firstIncoming) ==
  LET old == {q \in Pivots(s) : q + 1 < s.nextRead /\ q < firstIncoming}
  IN  [s EXCEPT !.rows = [q \in Pivots(s) \ old |-> s.rows[q]],
                !.dropped = @ + Cardinality(old)]

\* Mutant: coded rows are read too.
CanReadCoded(s) == s.nextRead \in Pivots(s)
CanRead(s) == Decoded(s, s.nextRead)
ReadData(s) == s.rows[s.nextRead].data
Read(s) == [s EXCEPT !.nextRead = @ + 1]

\* Sink::hash and Sink::dump take the uncoded rows from the first row up to
\* the first coded one, whatever their offsets.
Dump(s) ==
  LET coded == {q \in Pivots(s) : isCoded(s.rows[q])}
  IN  {q \in Pivots(s) : \A r \in coded : q < r}
=============================================================================
