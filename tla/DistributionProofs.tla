------------------------- MODULE DistributionProofs -------------------------
(***************************************************************************)
(* Proofs about how blocks and values get to other nodes and are found     *)
(* there (modules Publishing, Table and Retrieve).  The pages of the task  *)
(* that publishes skip no block, whatever is notified and erased           *)
(* meanwhile; a value none of whose messages expired on its way is with    *)
(* the closest peers of all that were told of it; every entry of           *)
(* mRetrievePending has a thread that waits for it, and a search comes     *)
(* back empty for a reason only.                                           *)
(***************************************************************************)
EXTENDS MCSafety, SchedulerProofs

-----------------------------------------------------------------------------
(* Threads that look for a key.                                            *)

\* The bounds are numbers, which the provers do not see in a set of them.
LEMMA RetrieveBounds == MaxMessages \in Nat /\ MaxLosses \in Nat /\ MaxAsks \in Nat
BY RetrieveAssumption

\* The types of the threads.
SeekersTyped ==
  /\ seeker \in [Seekers -> [state : SeekerStates, key : Keys \cup {NoKey}, calls : 0 .. MaxAsks]]
  /\ \A s \in Seekers : seeker[s].state # "idle" => seeker[s].key \in Keys

\* A thread that changes its state, for a key, keeps its type ...
LEMMA SeekerKept ==
  ASSUME SeekersTyped, NEW s \in Seekers, NEW state \in SeekerStates, NEW k \in Keys,
         NEW count \in 0 .. MaxAsks,
         seeker' = [seeker EXCEPT ![s] = [state |-> state, key |-> k, calls |-> count]]
  PROVE  SeekersTyped'
BY DEF SeekersTyped

\* ... and so do all when they are woken.
LEMMA NotifyAllTyped ==
  ASSUME SeekersTyped, NotifyAll
  PROVE  SeekersTyped'
<1>1. ASSUME NEW s \in Seekers
      PROVE  /\ seeker'[s] \in [state : SeekerStates, key : Keys \cup {NoKey}, calls : 0 .. MaxAsks]
             /\ seeker'[s].state # "idle" => seeker'[s].key \in Keys
  <2>1. CASE seeker[s].state = "asleep"
    BY <2>1 DEF SeekersTyped, NotifyAll, Becomes, SeekerStates
  <2>2. CASE seeker[s].state # "asleep"
    BY <2>2 DEF SeekersTyped, NotifyAll
  <2> QED
    BY <2>1, <2>2
<1> QED
  BY <1>1 DEF SeekersTyped, NotifyAll

\* A reason more for one key.
LEMMA ReasonAdded ==
  ASSUME reasons \in [Keys -> SUBSET Reasons], NEW k \in Keys, NEW r \in Reasons,
         reasons' = [reasons EXCEPT ![k] = reasons[k] \cup {r}]
  PROVE  reasons' \in [Keys -> SUBSET Reasons]
<1>1. reasons[k] \cup {r} \in SUBSET Reasons
  OBVIOUS
<1> QED
  BY <1>1

\* The types are kept by every step.
LEMMA RetrieveTypeKept ==
  ASSUME RetrieveTypeOK, [RetrieveNext]_retrieveVars
  PROVE  RetrieveTypeOK'
<1> USE RetrieveBounds
<1>0. SeekersTyped
  BY DEF SeekersTyped, RetrieveTypeOK
<1>a. \A k \in Keys : Outcome(k) \in SeekerStates
  BY DEF Outcome, SeekerStates
<1>b. \A s \in Seekers : Waits(s) => seeker[s].key \in Keys
  BY <1>0 DEF SeekersTyped, Waits
<1>c. \A s \in Seekers : seeker[s].calls \in 0 .. MaxAsks
  BY <1>0 DEF SeekersTyped
<1>1. CASE UNCHANGED retrieveVars
  BY <1>1 DEF retrieveVars, RetrieveTypeOK
<1>2. ASSUME NEW s \in Seekers, Wake(s)
      PROVE  RetrieveTypeOK'
  <2>1. SeekersTyped'
    BY <1>0, <1>a, <1>b, <1>c, <1>2, SeekerKept DEF Wake, EndRetrieve, Becomes, Waits
  <2> QED
    BY <1>2, <2>1 DEF RetrieveTypeOK, SeekersTyped, Wake, EndRetrieve
<1>3. ASSUME NEW s \in Seekers, SleepAgain(s)
      PROVE  RetrieveTypeOK'
  <2>1. SeekersTyped'
    BY <1>0, <1>b, <1>c, <1>3, SeekerKept DEF SleepAgain, Becomes, Waits, SeekerStates
  <2> QED
    BY <1>3, <2>1 DEF RetrieveTypeOK, SeekersTyped, SleepAgain
<1>4. ASSUME NEW s \in Seekers, TimeOut(s)
      PROVE  RetrieveTypeOK'
  <2>1. SeekersTyped'
    BY <1>0, <1>a, <1>b, <1>c, <1>4, SeekerKept DEF TimeOut, EndRetrieve, Becomes
  <2>2. "timeout" \in Reasons
    BY DEF Reasons
  <2>3. reasons' \in [Keys -> SUBSET Reasons]
    BY <1>4, <1>b, <2>2, ReasonAdded DEF RetrieveTypeOK, TimeOut
  <2> QED
    BY <1>4, <2>1, <2>3 DEF RetrieveTypeOK, SeekersTyped, TimeOut, EndRetrieve
<1>5. ASSUME NEW s \in Seekers, NEW k \in Keys, Ask(s, k)
      PROVE  RetrieveTypeOK'
  <2>1. seeker[s].calls + 1 \in 0 .. MaxAsks
    BY <1>c, <1>5 DEF Ask
  <2>2. SeekersTyped'
    BY <1>0, <1>5, <2>1, SeekerKept DEF Ask, SeekerStates
  <2> QED
    BY <1>5, <2>2 DEF RetrieveTypeOK, SeekersTyped, Ask
<1>6. ASSUME NEW s \in Seekers, NEW k \in Keys, AskUnsent(s, k)
      PROVE  RetrieveTypeOK'
  <2>1. seeker[s].calls + 1 \in 0 .. MaxAsks
    BY <1>c, <1>6 DEF AskUnsent
  <2>2. SeekersTyped'
    BY <1>0, <1>a, <1>6, <2>1, SeekerKept DEF AskUnsent
  <2>3. "unsent" \in Reasons
    BY DEF Reasons
  <2>4. reasons' \in [Keys -> SUBSET Reasons]
    BY <1>6, <2>3, ReasonAdded DEF RetrieveTypeOK, AskUnsent
  <2> QED
    BY <1>6, <2>2, <2>4 DEF RetrieveTypeOK, SeekersTyped, AskUnsent
<1>7. ASSUME NEW k \in Keys, ReceiveValue(k)
      PROVE  RetrieveTypeOK'
  BY <1>7 DEF RetrieveTypeOK, ReceiveValue
<1>8. ASSUME NEW k \in Keys, ReceiveStore(k)
      PROVE  RetrieveTypeOK'
  <2>1. "passed on" \in Reasons
    BY DEF Reasons
  <2>2. reasons' \in [Keys -> SUBSET Reasons]
    BY <1>8, <2>1, ReasonAdded DEF RetrieveTypeOK, ReceiveStore
  <2>3. found' \subseteq Keys /\ incoming' \subseteq Keys
    BY <1>8 DEF RetrieveTypeOK, ReceiveStore
  <2>4. mRetrievePending' \subseteq Keys /\ clearing' \in BOOLEAN
    BY <1>8 DEF RetrieveTypeOK, ReceiveStore
  <2>5. messages < MaxMessages /\ messages' = messages + 1 /\ UNCHANGED <<seeker, losses>>
    BY <1>8 DEF ReceiveStore
  <2>6. SeekersTyped'
    BY <1>0, <2>5 DEF SeekersTyped
  <2>7. messages' \in 0 .. MaxMessages /\ losses' \in 0 .. MaxLosses
    BY <2>5 DEF RetrieveTypeOK
  <2> QED
    BY <2>2, <2>3, <2>4, <2>6, <2>7 DEF RetrieveTypeOK, SeekersTyped
<1>9. ASSUME NEW k \in Keys, Answer(k)
      PROVE  RetrieveTypeOK'
  <2>1. SeekersTyped'
    BY <1>0, <1>9, NotifyAllTyped DEF Answer, SeekersTyped
  <2> QED
    BY <1>9, <2>1 DEF RetrieveTypeOK, SeekersTyped, Answer
<1>10. CASE LoseLastConnection
  BY <1>10 DEF RetrieveTypeOK, LoseLastConnection
<1>11. CASE ClearPending
  <2>1. SeekersTyped'
    BY <1>0, <1>11, NotifyAllTyped DEF ClearPending
  <2>2. "cleared" \in Reasons
    BY DEF Reasons
  <2>3. \A k \in Keys : reasons[k] \cup {"cleared"} \in SUBSET Reasons
    BY <2>2 DEF RetrieveTypeOK
  <2>4. reasons' \in [Keys -> SUBSET Reasons]
    BY <1>11, <2>3 DEF RetrieveTypeOK, ClearPending
  <2> QED
    BY <1>11, <2>1, <2>4 DEF RetrieveTypeOK, SeekersTyped, ClearPending
<1> QED
  BY <1>1, <1>2, <1>3, <1>4, <1>5, <1>6, <1>7, <1>8, <1>9, <1>10, <1>11 DEF RetrieveNext

LEMMA RetrieveInitTyped == RetrieveInit => RetrieveTypeOK
<1> SUFFICES ASSUME RetrieveInit PROVE RetrieveTypeOK
  OBVIOUS
<1>1. SeekersTyped
  BY RetrieveBounds DEF RetrieveInit, SeekersTyped, SeekerStates
<1>2. reasons \in [Keys -> SUBSET Reasons]
  BY DEF RetrieveInit
<1>3. messages \in 0 .. MaxMessages /\ losses \in 0 .. MaxLosses
  BY RetrieveBounds DEF RetrieveInit
<1>4. /\ mRetrievePending \subseteq Keys
      /\ found \subseteq Keys /\ incoming \subseteq Keys
      /\ clearing \in BOOLEAN
  BY DEF RetrieveInit
<1> QED
  BY <1>1, <1>2, <1>3, <1>4 DEF RetrieveTypeOK, SeekersTyped

\* RetrieveTypeOK: the entries, the threads and the messages keep their types
\* (overlay.cpp:385-411).
THEOREM RetrieveTyped == RetrieveSpec => []RetrieveTypeOK
BY RetrieveInitTyped, RetrieveTypeKept, PTL DEF RetrieveSpec

-----------------------------------------------------------------------------
\* No step leaves an entry without a thread that waits for it, or a thread
\* asleep without an entry unless a timeout has erased it.
LEMMA MatchKept ==
  ASSUME RetrieveTypeOK, PendingMatchesWaiters, [RetrieveNext]_retrieveVars
  PROVE  PendingMatchesWaiters'
<1> USE DEF RetrieveTypeOK, PendingMatchesWaiters, PendingHasWaiter, SleeperIsPending, WaitersOf,
            Waits
<1>1. CASE UNCHANGED retrieveVars
  BY <1>1 DEF retrieveVars
<1>2. ASSUME NEW s \in Seekers, Wake(s)
      PROVE  PendingMatchesWaiters'
  BY <1>2 DEF Wake, EndRetrieve, Becomes, Outcome
<1>3. ASSUME NEW s \in Seekers, SleepAgain(s)
      PROVE  PendingMatchesWaiters'
  BY <1>3 DEF SleepAgain, Becomes
<1>4. ASSUME NEW s \in Seekers, TimeOut(s)
      PROVE  PendingMatchesWaiters'
  BY <1>4 DEF TimeOut, EndRetrieve, Becomes, Outcome
<1>5. ASSUME NEW s \in Seekers, NEW k \in Keys, Ask(s, k)
      PROVE  PendingMatchesWaiters'
  BY <1>5 DEF Ask
<1>6. ASSUME NEW s \in Seekers, NEW k \in Keys, AskUnsent(s, k)
      PROVE  PendingMatchesWaiters'
  BY <1>6 DEF AskUnsent, Outcome
<1>7. ASSUME NEW k \in Keys, ReceiveValue(k)
      PROVE  PendingMatchesWaiters'
  BY <1>7 DEF ReceiveValue
<1>8. ASSUME NEW k \in Keys, ReceiveStore(k)
      PROVE  PendingMatchesWaiters'
  BY <1>8, ZenonT(40) DEF ReceiveStore
<1>9. ASSUME NEW k \in Keys, Answer(k)
      PROVE  PendingMatchesWaiters'
  BY <1>9 DEF Answer, NotifyAll, Becomes
<1>10. CASE LoseLastConnection
  BY <1>10 DEF LoseLastConnection
<1>11. CASE ClearPending
  BY <1>11 DEF ClearPending, NotifyAll, Becomes
<1> QED
  BY <1>1, <1>2, <1>3, <1>4, <1>5, <1>6, <1>7, <1>8, <1>9, <1>10, <1>11 DEF RetrieveNext

\* PendingMatchesWaiters: an entry that nobody waits for would keep its key from
\* ever being asked for again; a timeout that erases the entry of others leaves
\* its mark (overlay.cpp:395-408).
THEOREM PendingAlwaysMatches == RetrieveSpec => []PendingMatchesWaiters
<1>1. RetrieveInit => PendingMatchesWaiters
  BY DEF RetrieveInit, PendingMatchesWaiters, PendingHasWaiter, SleeperIsPending
<1>2. RetrieveTypeOK /\ PendingMatchesWaiters /\ [RetrieveNext]_retrieveVars
        => PendingMatchesWaiters'
  BY MatchKept
<1> QED
  BY <1>1, <1>2, RetrieveTyped, PTL DEF RetrieveSpec

-----------------------------------------------------------------------------
Settled(k) == k \in found \/ reasons[k] # {}

\* EmptyHasReason alone is not inductive: a thread must have a value or a reason
\* as soon as its entry is gone, and so must a message that is about to erase one.
ReasonInv ==
  /\ EmptyHasReason
  /\ \A s \in Seekers : Waits(s) /\ seeker[s].key \notin mRetrievePending => Settled(seeker[s].key)
  /\ \A k \in incoming : Settled(k)

LEMMA ReasonKept ==
  ASSUME RetrieveTypeOK, ReasonInv, [RetrieveNext]_retrieveVars
  PROVE  ReasonInv'
<1> USE DEF RetrieveTypeOK, ReasonInv, EmptyHasReason, Settled, Waits
<1>1. CASE UNCHANGED retrieveVars
  BY <1>1 DEF retrieveVars
<1>2. ASSUME NEW s \in Seekers, Wake(s)
      PROVE  ReasonInv'
  BY <1>2 DEF Wake, EndRetrieve, Becomes, Outcome
<1>3. ASSUME NEW s \in Seekers, SleepAgain(s)
      PROVE  ReasonInv'
  BY <1>3 DEF SleepAgain, Becomes
<1>4. ASSUME NEW s \in Seekers, TimeOut(s)
      PROVE  ReasonInv'
  BY <1>4 DEF TimeOut, EndRetrieve, Becomes, Outcome
<1>5. ASSUME NEW s \in Seekers, NEW k \in Keys, Ask(s, k)
      PROVE  ReasonInv'
  BY <1>5 DEF Ask
<1>6. ASSUME NEW s \in Seekers, NEW k \in Keys, AskUnsent(s, k)
      PROVE  ReasonInv'
  BY <1>6 DEF AskUnsent, Outcome
<1>7. ASSUME NEW k \in Keys, ReceiveValue(k)
      PROVE  ReasonInv'
  BY <1>7 DEF ReceiveValue
<1>8. ASSUME NEW k \in Keys, ReceiveStore(k)
      PROVE  ReasonInv'
  BY <1>8, ZenonT(40) DEF ReceiveStore
<1>9. ASSUME NEW k \in Keys, Answer(k)
      PROVE  ReasonInv'
  BY <1>9 DEF Answer, NotifyAll, Becomes
<1>10. CASE LoseLastConnection
  BY <1>10 DEF LoseLastConnection
<1>11. CASE ClearPending
  BY <1>11 DEF ClearPending, NotifyAll, Becomes
<1> QED
  BY <1>1, <1>2, <1>3, <1>4, <1>5, <1>6, <1>7, <1>8, <1>9, <1>10, <1>11 DEF RetrieveNext

\* EmptyHasReason: a thread that an answer has woken finds the value, as it was
\* stored before the entry was erased (overlay.cpp:560-569).
THEOREM EmptyForAReason == RetrieveSpec => []EmptyHasReason
<1>1. RetrieveInit => ReasonInv
  BY DEF RetrieveInit, ReasonInv, EmptyHasReason, Waits
<1>2. RetrieveTypeOK /\ ReasonInv /\ [RetrieveNext]_retrieveVars => ReasonInv'
  BY ReasonKept
<1>3. ReasonInv => EmptyHasReason
  BY DEF ReasonInv
<1> QED
  BY <1>1, <1>2, <1>3, RetrieveTyped, PTL DEF RetrieveSpec

-----------------------------------------------------------------------------
(* The task that publishes.                                                *)

LEMMA PublishingBounds ==
  /\ BatchSize \in Nat \ {0}
  /\ MaxNotified \in Nat /\ MaxErased \in Nat /\ MaxOutages \in Nat /\ MaxThrows \in Nat
BY PublishingAssumption

NoRowTwice(s) == \A i, j \in DOMAIN s : i # j => s[i] # s[j]

\* The blocks the task has not read yet.
Ahead == {rows[i] : i \in {j \in DOMAIN rows : j > task.offset}}

\* No block that the task has to publish can be missed: it was published, it is
\* about to be, it is in the page that was read, or the task will read it yet.
Underway(b) ==
  \/ b \in told \cup notifying
  \/ task.at # "end" /\ b \in Ahead
  \/ task.at = "send" /\ b \in BlocksOf(task.result)

\* What makes the types and NothingSkipped inductive: no more threads are to
\* start the task than there were first connections, and no page is empty.
PublishingInv ==
  /\ PublishingTypeOK
  /\ starting <= outages + 1 /\ (~hasConnections => starting <= outages)
  /\ task.at = "send" => task.result # << >>
  /\ due # {} => hasConnections
  /\ task.at # "none" => \A b \in due : Underway(b)

\* Of a table that loses a row, the rows behind it move up by one.
LEMMA RowRemoved ==
  ASSUME rows \in Seq(Blocks), NoRowTwice(rows), NEW b \in BlocksOf(rows)
  PROVE  \E p \in 1 .. Len(rows) :
           /\ rows[p] = b
           /\ WithoutBlock(b) \in Seq(Blocks) /\ Len(WithoutBlock(b)) = Len(rows) - 1
           /\ \A i \in 1 .. Len(rows) - 1 :
                WithoutBlock(b)[i] = IF i < p THEN rows[i] ELSE rows[i + 1]
<1> DEFINE p == CHOOSE i \in DOMAIN rows : rows[i] = b
           before == SubSeq(rows, 1, p - 1)
           after == SubSeq(rows, p + 1, Len(rows))
<1>1. p \in 1 .. Len(rows) /\ rows[p] = b
  <2>1. \E i \in DOMAIN rows : rows[i] = b
    BY DEF BlocksOf
  <2>2. p \in DOMAIN rows /\ rows[p] = b
    BY <2>1
  <2> QED
    BY <2>2, LenProperties
<1>2. WithoutBlock(b) = before \o after
  BY DEF WithoutBlock
<1> HIDE DEF p
<1>3. Len(rows) \in Nat
  BY LenProperties
<1>4. before \in Seq(Blocks) /\ Len(before) = p - 1 /\ \A i \in 1 .. p - 1 : before[i] = rows[i]
  <2>1. \A i \in 1 .. p - 1 : rows[i] \in Blocks
    BY <1>1, <1>3, ElementOfSeq
  <2> QED
    BY <1>1, <1>3, <2>1, SubSeqProperties
<1>5. /\ after \in Seq(Blocks) /\ Len(after) = Len(rows) - p
      /\ \A i \in 1 .. Len(rows) - p : after[i] = rows[p + i]
  <2>1. \A i \in p + 1 .. Len(rows) : rows[i] \in Blocks
    BY <1>1, <1>3, ElementOfSeq
  <2> QED
    BY <1>1, <1>3, <2>1, SubSeqProperties
<1>6. /\ before \o after \in Seq(Blocks) /\ Len(before \o after) = Len(rows) - 1
      /\ \A i \in 1 .. Len(rows) - 1 :
           (before \o after)[i] = IF i < p THEN rows[i] ELSE rows[i + 1]
  <2> HIDE DEF before, after
  <2>1. before \o after \in Seq(Blocks)
    BY <1>4, <1>5, ConcatProperties
  <2>2. Len(before \o after) = Len(rows) - 1
    <3>1. Len(before \o after) = Len(before) + Len(after)
      BY <1>4, <1>5, ConcatProperties
    <3> QED
      BY <1>1, <1>3, <1>4, <1>5, <3>1
  <2>3. ASSUME NEW i \in 1 .. Len(rows) - 1
        PROVE  (before \o after)[i] = IF i < p THEN rows[i] ELSE rows[i + 1]
    <3>1. (before \o after)[i] = IF i <= Len(before) THEN before[i] ELSE after[i - Len(before)]
      <4>1. i \in 1 .. Len(before) + Len(after)
        BY <1>1, <1>3, <1>4, <1>5
      <4> QED
        BY <1>4, <1>5, <4>1, ConcatProperties
    <3>2. CASE i < p
      BY <1>1, <1>3, <1>4, <3>1, <3>2
    <3>3. CASE i >= p
      <4>1. i - (p - 1) \in 1 .. Len(rows) - p /\ p + (i - (p - 1)) = i + 1
        BY <1>1, <1>3, <3>3
      <4> QED
        BY <1>1, <1>3, <1>4, <1>5, <3>1, <3>3, <4>1
    <3>4. i < p \/ i >= p
      BY <1>1, <1>3
    <3> QED
      BY <3>2, <3>3, <3>4
  <2> QED
    BY <2>1, <2>2, <2>3
<1> QED
  BY <1>1, <1>2, <1>6

\* A block that is notified is in front, and the rows that were before its own
\* move down by one.
LEMMA RowInFront ==
  ASSUME rows \in Seq(Blocks), NoRowTwice(rows), NEW b \in Blocks,
         rows' = <<b>> \o WithoutBlock(b)
  PROVE  /\ rows' \in Seq(Blocks) /\ NoRowTwice(rows')
         /\ \A i \in 1 .. Len(rows) :
              rows[i] # b => \E j \in 1 .. Len(rows') : j >= i /\ rows'[j] = rows[i]
<1> DEFINE rest == WithoutBlock(b)
<1>0. /\ Len(rows) \in Nat /\ DOMAIN rows = 1 .. Len(rows)
      /\ \A i \in 1 .. Len(rows) : rows[i] \in Blocks
  BY LenProperties, ElementOfSeq
<1>1. /\ rest \in Seq(Blocks) /\ NoRowTwice(rest)
      /\ \A i \in 1 .. Len(rest) : rest[i] # b
      /\ \A i \in 1 .. Len(rows) :
           rows[i] # b => \E j \in 1 .. Len(rest) : j >= i - 1 /\ rest[j] = rows[i]
  <2>1. CASE b \in BlocksOf(rows)
    <3>1. PICK p \in 1 .. Len(rows) :
            /\ rows[p] = b
            /\ rest \in Seq(Blocks) /\ Len(rest) = Len(rows) - 1
            /\ \A i \in 1 .. Len(rows) - 1 :
                 rest[i] = IF i < p THEN rows[i] ELSE rows[i + 1]
      BY <2>1, RowRemoved
    <3> HIDE DEF rest
    <3>2. DOMAIN rest = 1 .. Len(rows) - 1
      BY <3>1, LenProperties
    <3> DEFINE old(i) == IF i < p THEN i ELSE i + 1
    <3>a. ASSUME NEW i \in 1 .. Len(rest)
          PROVE  old(i) \in DOMAIN rows /\ old(i) # p /\ rest[i] = rows[old(i)]
      BY <1>0, <3>1
    <3>b. \A i, j \in 1 .. Len(rest) : i # j => old(i) # old(j)
      BY <1>0, <3>1
    <3> HIDE DEF old
    <3>3. NoRowTwice(rest)
      <4>1. ASSUME NEW i \in 1 .. Len(rest), NEW j \in 1 .. Len(rest), i # j
            PROVE  rest[i] # rest[j]
        <5>1. rows[old(i)] # rows[old(j)]
          BY <3>a, <3>b, <4>1 DEF NoRowTwice
        <5> QED
          BY <3>a, <5>1
      <4> QED
        BY <3>1, <3>2, <4>1 DEF NoRowTwice
    <3>4. ASSUME NEW i \in 1 .. Len(rest)
          PROVE  rest[i] # b
      <4>1. /\ old(i) \in DOMAIN rows /\ p \in DOMAIN rows /\ old(i) # p
            /\ rest[i] = rows[old(i)]
        BY <1>0, <3>a
      <4>2. rows[old(i)] # rows[p]
        BY <4>1 DEF NoRowTwice
      <4> QED
        BY <3>1, <4>1, <4>2
    <3>5. ASSUME NEW i \in 1 .. Len(rows), rows[i] # b
          PROVE  \E j \in 1 .. Len(rest) : j >= i - 1 /\ rest[j] = rows[i]
      <4>1. CASE i < p
        <5>1. i \in 1 .. Len(rest) /\ rest[i] = rows[i]
          BY <1>0, <3>1, <4>1
        <5> QED
          BY <5>1
      <4>2. CASE i > p
        <5>1. i - 1 \in 1 .. Len(rest) /\ rest[i - 1] = rows[i]
          BY <1>0, <3>1, <4>2
        <5> QED
          BY <1>0, <5>1
      <4> QED
        BY <1>0, <3>1, <3>5, <4>1, <4>2
    <3> QED
      BY <3>1, <3>3, <3>4, <3>5
  <2>2. CASE b \notin BlocksOf(rows)
    <3>1. rest = rows
      BY <2>2 DEF WithoutBlock
    <3>2. \A i \in 1 .. Len(rows) : rows[i] # b
      BY <1>0, <2>2 DEF BlocksOf
    <3>3. \A i \in 1 .. Len(rows) : i \in 1 .. Len(rest) /\ i >= i - 1 /\ rest[i] = rows[i]
      BY <1>0, <3>1
    <3> QED
      BY <3>1, <3>2, <3>3
  <2> QED
    BY <2>1, <2>2
<1> HIDE DEF rest
<1>2. Len(rest) \in Nat /\ DOMAIN rest = 1 .. Len(rest)
  BY <1>1, LenProperties
<1>3. <<b>> \in Seq(Blocks) /\ Len(<<b>>) = 1 /\ <<b>>[1] = b
  OBVIOUS
<1>4. rows' = <<b>> \o rest
  BY DEF rest
<1>5. rows' \in Seq(Blocks) /\ Len(rows') = 1 + Len(rest)
  <2>1. <<b>> \o rest \in Seq(Blocks) /\ Len(<<b>> \o rest) = Len(<<b>>) + Len(rest)
    BY <1>1, <1>3, ConcatProperties
  <2> QED
    BY <1>3, <1>4, <2>1
<1>6. \A i \in 1 .. Len(rows') : rows'[i] = IF i = 1 THEN b ELSE rest[i - 1]
  BY <1>1, <1>2, <1>3, <1>4, <1>5, ConcatProperties
<1>7. DOMAIN rows' = 1 .. Len(rows')
  BY <1>5, LenProperties
<1>8. NoRowTwice(rows')
  <2> SUFFICES ASSUME NEW i \in 1 .. Len(rows'), NEW j \in 1 .. Len(rows'), i # j
               PROVE  rows'[i] # rows'[j]
    BY <1>7 DEF NoRowTwice
  <2>1. CASE i = 1
    <3>1. j - 1 \in 1 .. Len(rest)
      BY <1>2, <1>5, <2>1
    <3> QED
      BY <1>1, <1>6, <2>1, <3>1
  <2>2. CASE j = 1
    <3>1. i - 1 \in 1 .. Len(rest)
      BY <1>2, <1>5, <2>2
    <3> QED
      BY <1>1, <1>6, <2>2, <3>1
  <2>3. CASE i # 1 /\ j # 1
    <3>1. i - 1 \in 1 .. Len(rest) /\ j - 1 \in 1 .. Len(rest) /\ i - 1 # j - 1
      BY <1>2, <1>5, <2>3
    <3>2. rows'[i] = rest[i - 1] /\ rows'[j] = rest[j - 1]
      BY <1>6, <2>3
    <3>3. i - 1 \in DOMAIN rest /\ j - 1 \in DOMAIN rest
      BY <1>2, <3>1
    <3>4. rest[i - 1] # rest[j - 1]
      BY <1>1, <3>1, <3>3 DEF NoRowTwice
    <3> QED
      BY <3>2, <3>4
  <2> QED
    BY <2>1, <2>2, <2>3
<1>9. ASSUME NEW i \in 1 .. Len(rows), rows[i] # b
      PROVE  \E j \in 1 .. Len(rows') : j >= i /\ rows'[j] = rows[i]
  <2>1. PICK j \in 1 .. Len(rest) : j >= i - 1 /\ rest[j] = rows[i]
    BY <1>1, <1>9
  <2>2. j + 1 \in 1 .. Len(rows') /\ j + 1 >= i /\ j + 1 # 1 /\ (j + 1) - 1 = j
    BY <1>0, <1>2, <1>5, <2>1
  <2>3. rows'[j + 1] = rest[j]
    BY <1>6, <2>2
  <2> QED
    BY <2>1, <2>2, <2>3
<1> QED
  BY <1>5, <1>8, <1>9

\* The counters and the thread of the task, for the steps that leave the table.
LEMMA RowsTyped ==
  ASSUME PublishingInv
  PROVE  /\ rows \in Seq(Blocks) /\ NoRowTwice(rows)
         /\ Len(rows) \in Nat /\ DOMAIN rows = 1 .. Len(rows)
         /\ \A i \in 1 .. Len(rows) : rows[i] \in Blocks
BY LenProperties, ElementOfSeq DEF PublishingInv, PublishingTypeOK, NoRowTwice

LEMMA PublishingInitOK == PublishingInit => PublishingInv
<1> SUFFICES ASSUME PublishingInit PROVE PublishingInv
  OBVIOUS
<1>1. rows \in Seq(Blocks) /\ NoRowTwice(rows)
  <2>1. PICK n \in 0 .. Cardinality(Blocks) : rows \in [1 .. n -> Blocks]
    BY DEF PublishingInit, Tables
  <2>2. n \in Nat
    OBVIOUS
  <2>3. rows \in Seq(Blocks)
    BY <2>1, <2>2, SeqDef
  <2> QED
    BY <2>3 DEF PublishingInit, Tables, NoRowTwice
<1>2. task = [at |-> "none", offset |-> 0, result |-> << >>]
  BY DEF PublishingInit, NotPublishing
<1>3. task \in [at : {"none", "check", "select", "send", "end"}, offset : Nat,
                result : Seq(Blocks)]
  BY <1>2
<1>a. \A i, j \in DOMAIN rows : i # j => rows[i] # rows[j]
  BY <1>1 DEF NoRowTwice
<1>b. /\ notified \in 0 .. MaxNotified /\ erased \in 0 .. MaxErased
      /\ outages \in 0 .. MaxOutages /\ throws \in 0 .. MaxThrows
      /\ starting \in 0 .. MaxOutages + 1
  BY PublishingBounds DEF PublishingInit
<1>c. {notifying, told, due} \subseteq SUBSET Blocks
  BY DEF PublishingInit
<1>d. hasConnections \in BOOLEAN /\ mRunning \in BOOLEAN
  BY DEF PublishingInit
<1>e. task.at = "none"
  BY <1>2
<1>4. PublishingTypeOK
  BY <1>1, <1>3, <1>a, <1>b, <1>c, <1>d, <1>e DEF PublishingTypeOK
<1> QED
  BY <1>2, <1>4 DEF PublishingInit, PublishingInv

\* The connections come and go.
LEMMA ConnectionsKeep ==
  ASSUME PublishingInv, ConnectFirst \/ LoseConnections
  PROVE  PublishingInv'
<1> USE PublishingBounds DEF PublishingInv, PublishingTypeOK
<1>1. CASE ConnectFirst
  BY <1>1 DEF ConnectFirst, counters, Underway, Ahead
<1>2. CASE LoseConnections
  <2>1. outages' \in 0 .. MaxOutages /\ starting' <= outages' /\ starting' = starting
    BY <1>2 DEF LoseConnections
  <2>2. UNCHANGED <<rows, mRunning, task, notifying, notified, erased, throws>>
    BY <1>2 DEF LoseConnections
  <2>3. due' = {} /\ told' = {} /\ hasConnections' = FALSE
    BY <1>2 DEF LoseConnections
  <2>4. PublishingTypeOK'
    BY <2>1, <2>2, <2>3
  <2>5. starting' <= outages' + 1
    <3>1. starting \in Nat /\ outages \in Nat /\ starting <= outages + 1
      OBVIOUS
    <3>2. starting' = starting /\ outages' = outages + 1
      BY <1>2 DEF LoseConnections
    <3> QED
      BY <3>1, <3>2
  <2>6. task'.at = "send" => task'.result # << >>
    BY <2>2
  <2>7. due' # {} => hasConnections'
    BY <2>3
  <2>8. task'.at # "none" => \A b \in due' : Underway(b)'
    BY <2>3
  <2> QED
    BY <2>1, <2>4, <2>5, <2>6, <2>7, <2>8 DEF PublishingInv
<1> QED
  BY <1>1, <1>2

\* The task begins with the whole table before it.
LEMMA StartKeeps ==
  ASSUME PublishingInv, Start
  PROVE  PublishingInv'
<1> USE PublishingBounds DEF PublishingInv, PublishingTypeOK
<1>1. /\ starting' \in 0 .. MaxOutages + 1
      /\ starting' <= outages' + 1 /\ (~hasConnections' => starting' <= outages')
  BY SMTT(20) DEF Start, counters
<1>2. CASE mRunning /\ UNCHANGED <<mRunning, task, due>>
  BY <1>1, <1>2 DEF Start, counters, Underway, Ahead
<1>3. CASE ~mRunning /\ mRunning' /\ task' = [NotPublishing EXCEPT !.at = "check"]
           /\ due' = IF hasConnections THEN BlocksOf(rows) ELSE {}
  <2>1. task' = [at |-> "check", offset |-> 0, result |-> << >>]
    BY <1>3 DEF NotPublishing
  <2>2. task' \in [at : {"none", "check", "select", "send", "end"}, offset : Nat,
                   result : Seq(Blocks)]
    BY <2>1
  <2>3. rows' = rows
    BY DEF Start
  <2>4. \A b \in due' : Underway(b)'
    <3> SUFFICES ASSUME NEW b \in due' PROVE Underway(b)'
      OBVIOUS
    <3>1. PICK i \in DOMAIN rows : b = rows[i]
      BY <1>3 DEF BlocksOf
    <3>2. b \in Ahead'
      BY <2>1, <2>3, <3>1, RowsTyped DEF Ahead
    <3> QED
      BY <2>1, <3>2 DEF Underway
  <2>5. due' \in SUBSET Blocks
    BY <1>3, RowsTyped DEF BlocksOf
  <2> QED
    BY <1>1, <1>3, <2>1, <2>2, <2>3, <2>4, <2>5, SMTT(20) DEF Start, counters
<1> QED
  BY <1>2, <1>3 DEF Start

\* A block that is published while there are connections has been told of.
LEMMA CheckKeeps ==
  ASSUME PublishingInv, Check
  PROVE  PublishingInv'
<1> USE DEF PublishingInv, PublishingTypeOK
<1>1. CASE hasConnections
  <2>1. /\ task' = [task EXCEPT !.at = "select"]
        /\ UNCHANGED <<rows, told, notifying, due>>
    BY <1>1 DEF Check
  <2>2. /\ task'.at = "select" /\ task'.offset = task.offset
        /\ task' \in [at : {"none", "check", "select", "send", "end"}, offset : Nat,
                      result : Seq(Blocks)]
    BY <2>1
  <2>3. task.at = "check" /\ \A b \in due : Underway(b)
    BY DEF Check
  <2>4. \A b \in due' : Underway(b)'
    BY <2>1, <2>2, <2>3 DEF Underway, Ahead
  <2> QED
    BY <1>1, <2>1, <2>2, <2>4 DEF Check, counters
<1>2. CASE ~hasConnections
  <2>1. task' = [at |-> "none", offset |-> 0, result |-> << >>]
    BY <1>2 DEF Check, NotPublishing
  <2>2. task' \in [at : {"none", "check", "select", "send", "end"}, offset : Nat,
                   result : Seq(Blocks)] /\ task'.at = "none"
    BY <2>1
  <2> QED
    BY <1>2, <2>2 DEF Check, counters
<1> QED
  BY <1>1, <1>2

\* A page is the rows behind the offset, and empty only behind the last.
LEMMA PageOfRows ==
  ASSUME PublishingInv, NEW o \in Nat
  PROVE  /\ Page(o) \in Seq(Blocks) /\ Len(Page(o)) \in Nat
         /\ o >= Len(rows) => Page(o) = << >>
         /\ o < Len(rows) => Len(Page(o)) > 0
         /\ \A i \in 1 .. Len(Page(o)) : o + i \in 1 .. Len(rows) /\ Page(o)[i] = rows[o + i]
<1> DEFINE last == IF o + BatchSize < Len(rows) THEN o + BatchSize ELSE Len(rows)
<1>1. last \in Nat /\ last <= Len(rows) /\ (o >= Len(rows) => last <= o)
      /\ (o < Len(rows) => o < last)
  BY RowsTyped, PublishingBounds
<1>2. Page(o) = SubSeq(rows, o + 1, last)
  BY DEF Page
<1> HIDE DEF last
<1>3. \A i \in o + 1 .. last : i \in 1 .. Len(rows) /\ rows[i] \in Blocks
  BY <1>1, RowsTyped
<1>4. /\ Page(o) \in Seq(Blocks)
      /\ Len(Page(o)) = IF o + 1 <= last THEN last - (o + 1) + 1 ELSE 0
      /\ \A i \in 1 .. last - (o + 1) + 1 : Page(o)[i] = rows[(o + 1) + i - 1]
  BY <1>1, <1>2, <1>3, SubSeqProperties
<1>5. o >= Len(rows) => Page(o) = << >>
  BY <1>1, <1>4, EmptySeq, RowsTyped
<1>6. o < Len(rows) => Len(Page(o)) > 0
  BY <1>1, <1>4, RowsTyped
<1>7. ASSUME NEW i \in 1 .. Len(Page(o))
      PROVE  o + i \in 1 .. Len(rows) /\ Page(o)[i] = rows[o + i]
  <2>1. o + i \in o + 1 .. last /\ i \in 1 .. last - (o + 1) + 1 /\ (o + 1) + i - 1 = o + i
    BY <1>1, <1>4
  <2> QED
    BY <1>3, <1>4, <2>1
<1> QED
  BY <1>1, <1>4, <1>5, <1>6, <1>7

\* What the page has not, the task will read yet; behind the last there is none.
LEMMA SelectKeeps ==
  ASSUME PublishingInv, Select
  PROVE  PublishingInv'
<1> DEFINE page == Page(task.offset)
<1>1. /\ task \in [at : {"none", "check", "select", "send", "end"}, offset : Nat,
                   result : Seq(Blocks)]
      /\ task.at = "select" /\ mRunning /\ \A b \in due : Underway(b)
  BY DEF PublishingInv, PublishingTypeOK, Select
<1>2. /\ page \in Seq(Blocks) /\ Len(page) \in Nat
      /\ task.offset >= Len(rows) => page = << >>
      /\ task.offset < Len(rows) => Len(page) > 0
      /\ \A i \in 1 .. Len(page) :
           task.offset + i \in 1 .. Len(rows) /\ page[i] = rows[task.offset + i]
  BY <1>1, PageOfRows
<1>3. /\ task' = IF page = << >>
                 THEN [task EXCEPT !.at = "end"]
                 ELSE [at |-> "send", offset |-> task.offset + Len(page), result |-> page]
      /\ UNCHANGED <<rows, hasConnections, starting, mRunning, notifying, told, due, counters>>
  BY DEF Select
<1> HIDE DEF page
<1>4. ASSUME NEW b \in due, b \notin told \cup notifying
      PROVE  \E i \in 1 .. Len(rows) : i > task.offset /\ b = rows[i]
  BY <1>1, <1>4, RowsTyped DEF Underway, Ahead
<1>5. /\ task' \in [at : {"none", "check", "select", "send", "end"}, offset : Nat,
                    result : Seq(Blocks)]
      /\ task'.at = "send" => task'.result # << >>
      /\ \A b \in due : Underway(b)'
  <2>1. CASE page = << >>
    <3>1. task.offset >= Len(rows) /\ task' = [task EXCEPT !.at = "end"]
      BY <1>1, <1>2, <1>3, <2>1, RowsTyped, EmptySeq
    <3>2. \A b \in due : b \in told \cup notifying
      BY <1>1, <1>4, <3>1, RowsTyped
    <3> QED
      BY <1>1, <1>3, <3>1, <3>2 DEF Underway
  <2>2. CASE page # << >>
    <3>1. task' = [at |-> "send", offset |-> task.offset + Len(page), result |-> page]
      BY <1>3, <2>2
    <3>2. task'.at = "send" /\ task'.offset = task.offset + Len(page) /\ task'.result = page
      BY <3>1
    <3>3. ASSUME NEW b \in due, b \notin told \cup notifying
          PROVE  b \in Ahead' \/ b \in BlocksOf(page)
      <4>1. PICK i \in 1 .. Len(rows) : i > task.offset /\ b = rows[i]
        BY <1>4, <3>3
      <4>2. CASE i > task.offset + Len(page)
        BY <1>3, <3>2, <4>1, <4>2, RowsTyped DEF Ahead
      <4>3. CASE i <= task.offset + Len(page)
        <5>1. i - task.offset \in 1 .. Len(page) /\ task.offset + (i - task.offset) = i
          BY <1>1, <1>2, <4>1, <4>3, RowsTyped
        <5>2. b = page[i - task.offset]
          BY <1>2, <4>1, <5>1
        <5>3. DOMAIN page = 1 .. Len(page)
          BY <1>2, LenProperties
        <5> QED
          BY <5>1, <5>2, <5>3 DEF BlocksOf
      <4> QED
        BY <1>1, <1>2, <4>2, <4>3, RowsTyped
    <3>4. task' \in [at : {"none", "check", "select", "send", "end"}, offset : Nat,
                     result : Seq(Blocks)]
      BY <1>1, <1>2, <3>1
    <3>5. \A b \in due : Underway(b)'
      BY <1>3, <3>2, <3>3 DEF Underway
    <3> QED
      BY <2>2, <3>2, <3>4, <3>5
  <2> QED
    BY <2>1, <2>2
<1> QED
  BY <1>1, <1>3, <1>5 DEF PublishingInv, PublishingTypeOK, counters

\* The first block of the page is told of, and the others are left.
LEMMA SendNextKeeps ==
  ASSUME PublishingInv, SendNext
  PROVE  PublishingInv'
<1> DEFINE rest == Tail(task.result)
<1>1. /\ task \in [at : {"none", "check", "select", "send", "end"}, offset : Nat,
                   result : Seq(Blocks)]
      /\ task.at = "send" /\ mRunning /\ task.result # << >>
      /\ \A b \in due : hasConnections /\ Underway(b)
  BY DEF PublishingInv, PublishingTypeOK, SendNext
<1>2. /\ Head(task.result) \in Blocks /\ rest \in Seq(Blocks)
      /\ BlocksOf(task.result) = {Head(task.result)} \cup BlocksOf(rest)
  <2> DEFINE s == task.result
  <2>1. s \in Seq(Blocks) /\ s # << >>
    BY <1>1
  <2> HIDE DEF s
  <2>2. /\ Head(s) \in Blocks /\ Tail(s) \in Seq(Blocks) /\ Len(Tail(s)) = Len(s) - 1
        /\ \A i \in 1 .. Len(Tail(s)) : Tail(s)[i] = s[i + 1]
        /\ Head(s) = s[1] /\ Len(s) \in Nat \ {0}
        /\ DOMAIN s = 1 .. Len(s) /\ DOMAIN Tail(s) = 1 .. Len(Tail(s))
    BY <2>1, HeadTailProperties, LenProperties, EmptySeq
  <2>3. ASSUME NEW b \in BlocksOf(s) PROVE b \in {Head(s)} \cup BlocksOf(Tail(s))
    <3>1. PICK i \in 1 .. Len(s) : b = s[i]
      BY <2>2 DEF BlocksOf
    <3>2. CASE i # 1
      <4>1. i - 1 \in 1 .. Len(Tail(s)) /\ (i - 1) + 1 = i
        BY <2>2, <3>2
      <4> QED
        BY <2>2, <3>1, <4>1 DEF BlocksOf
    <3> QED
      BY <2>2, <3>1, <3>2
  <2>4. ASSUME NEW b \in {Head(s)} \cup BlocksOf(Tail(s)) PROVE b \in BlocksOf(s)
    <3>1. CASE b = Head(s)
      BY <2>2, <3>1 DEF BlocksOf
    <3>2. CASE b \in BlocksOf(Tail(s))
      <4>1. PICK i \in 1 .. Len(Tail(s)) : b = Tail(s)[i]
        BY <2>2, <3>2 DEF BlocksOf
      <4>2. i + 1 \in 1 .. Len(s) /\ b = s[i + 1]
        BY <2>2, <4>1
      <4> QED
        BY <2>2, <4>2 DEF BlocksOf
    <3> QED
      BY <2>4, <3>1, <3>2
  <2> QED
    BY <2>2, <2>3, <2>4 DEF s
<1>3. /\ task' = [task EXCEPT !.result = rest, !.at = IF rest = << >> THEN "check" ELSE "send"]
      /\ told' = IF hasConnections THEN told \cup {Head(task.result)} ELSE told
      /\ UNCHANGED <<rows, hasConnections, starting, mRunning, notifying, due, counters>>
  BY DEF SendNext, Tell
<1> HIDE DEF rest
<1>4. /\ task'.at = (IF rest = << >> THEN "check" ELSE "send")
      /\ task'.offset = task.offset /\ task'.result = rest
      /\ task' \in [at : {"none", "check", "select", "send", "end"}, offset : Nat,
                    result : Seq(Blocks)]
  BY <1>1, <1>2, <1>3
<1>5. ASSUME NEW b \in due
      PROVE  Underway(b)'
  <2>1. told' = told \cup {Head(task.result)}
    BY <1>1, <1>3
  <2>2. b \in told \cup notifying \/ b \in Ahead \/ b = Head(task.result) \/ b \in BlocksOf(rest)
    BY <1>1, <1>2 DEF Underway
  <2>3. b \in BlocksOf(rest) => task'.at = "send"
    BY <1>4 DEF BlocksOf
  <2>4. Ahead' = Ahead
    BY <1>3, <1>4 DEF Ahead
  <2>5. task'.at # "end"
    BY <1>4
  <2> QED
    BY <1>3, <1>4, <2>1, <2>2, <2>3, <2>4, <2>5 DEF Underway
<1>6. told' \in SUBSET Blocks
  BY <1>2, <1>3 DEF PublishingInv, PublishingTypeOK
<1>7. task'.at = "send" => task'.result # << >>
  BY <1>4
<1> QED
  BY <1>1, <1>3, <1>4, <1>5, <1>6, <1>7 DEF PublishingInv, PublishingTypeOK, counters

\* When the task throws or ends, nothing is due any more.
LEMMA EndKeeps ==
  ASSUME PublishingInv, Throw \/ EndRun
  PROVE  PublishingInv'
<1>1. CASE Throw
  <2>1. /\ task' = [task EXCEPT !.at = "end"] /\ due' = {} /\ mRunning
        /\ throws < MaxThrows /\ throws' = throws + 1
        /\ UNCHANGED <<rows, hasConnections, starting, mRunning, notifying, told, notified,
                       erased, outages>>
    BY <1>1 DEF Throw, PublishingInv, PublishingTypeOK
  <2>2. /\ task' \in [at : {"none", "check", "select", "send", "end"}, offset : Nat,
                      result : Seq(Blocks)]
        /\ task'.at = "end"
    BY <2>1 DEF PublishingInv, PublishingTypeOK
  <2>3. throws' \in 0 .. MaxThrows
    BY <2>1, PublishingBounds, SMTT(20) DEF PublishingInv, PublishingTypeOK
  <2> QED
    BY <2>1, <2>2, <2>3 DEF PublishingInv, PublishingTypeOK
<1>2. CASE EndRun
  <2>1. /\ task' = [at |-> "none", offset |-> 0, result |-> << >>] /\ due' = {}
        /\ mRunning' = FALSE
        /\ UNCHANGED <<rows, hasConnections, starting, notifying, told, counters>>
    BY <1>2 DEF EndRun, NotPublishing
  <2>2. /\ task' \in [at : {"none", "check", "select", "send", "end"}, offset : Nat,
                      result : Seq(Blocks)]
        /\ task'.at = "none"
    BY <2>1
  <2> QED
    BY <2>1, <2>2 DEF PublishingInv, PublishingTypeOK, counters
<1> QED
  BY <1>1, <1>2

\* A block that moves to the front is published by who notified it, and the
\* others move away from the offset, not towards it.
LEMMA NotifyKeeps ==
  ASSUME PublishingInv, NEW b \in Blocks, NotifyBlock(b)
  PROVE  PublishingInv'
<1>1. /\ rows' \in Seq(Blocks) /\ NoRowTwice(rows')
      /\ \A i \in 1 .. Len(rows) :
           rows[i] # b => \E j \in 1 .. Len(rows') : j >= i /\ rows'[j] = rows[i]
  BY RowInFront, RowsTyped DEF NotifyBlock
<1>2. /\ notified < MaxNotified /\ notified' = notified + 1
      /\ notifying' = notifying \cup {b}
      /\ UNCHANGED <<hasConnections, starting, mRunning, task, told, due, erased, outages, throws>>
  BY DEF NotifyBlock
<1>3. notified' \in 0 .. MaxNotified
  BY <1>2, PublishingBounds DEF PublishingInv, PublishingTypeOK
<1>4. ASSUME NEW c \in due, task.at # "none"
      PROVE  Underway(c)'
  <2>1. CASE c = b \/ c \notin Ahead
    BY <1>2, <1>4, <2>1 DEF Underway, PublishingInv
  <2>2. CASE c # b /\ c \in Ahead
    <3>1. PICK i \in 1 .. Len(rows) : i > task.offset /\ c = rows[i]
      BY <2>2, RowsTyped DEF Ahead
    <3>2. PICK j \in 1 .. Len(rows') : j >= i /\ rows'[j] = c
      BY <1>1, <2>2, <3>1
    <3>3. DOMAIN rows' = 1 .. Len(rows') /\ Len(rows') \in Nat
      BY <1>1, LenProperties
    <3>4. task.offset \in Nat
      BY DEF PublishingInv, PublishingTypeOK
    <3>5. j > task.offset
      BY <3>1, <3>2, <3>3, <3>4, RowsTyped
    <3>6. c \in Ahead'
      BY <1>2, <3>2, <3>3, <3>5 DEF Ahead
    <3> QED
      BY <1>2, <1>4, <3>6 DEF Underway, PublishingInv
  <2> QED
    BY <2>1, <2>2
<1> QED
  BY <1>1, <1>2, <1>3, <1>4 DEF PublishingInv, PublishingTypeOK, NoRowTwice

LEMMA PublishKeeps ==
  ASSUME PublishingInv, NEW b \in Blocks, PublishNotified(b)
  PROVE  PublishingInv'
<1>1. /\ notifying' = notifying \ {b}
      /\ told' = IF hasConnections THEN told \cup {b} ELSE told
      /\ UNCHANGED <<rows, hasConnections, starting, mRunning, task, due, counters>>
  BY DEF PublishNotified, Tell
<1>2. ASSUME NEW c \in due, task.at # "none"
      PROVE  Underway(c)'
  <2>1. hasConnections /\ Underway(c)
    BY <1>2 DEF PublishingInv
  <2>2. Ahead' = Ahead
    BY <1>1 DEF Ahead
  <2> QED
    BY <1>1, <2>1, <2>2 DEF Underway
<1>3. told' \in SUBSET Blocks /\ notifying' \in SUBSET Blocks
  BY <1>1 DEF PublishingInv, PublishingTypeOK
<1> QED
  BY <1>1, <1>2, <1>3 DEF PublishingInv, PublishingTypeOK, counters

\* A row that goes away behind the offset takes the one before it out of the
\* task's sight, which is the one that Skipped excuses.
LEMMA EraseKeeps ==
  ASSUME PublishingInv, NEW b \in Blocks, Erase(b)
  PROVE  PublishingInv'
<1>1. /\ b \in BlocksOf(rows)
      /\ erased < MaxErased /\ erased' = erased + 1
      /\ rows' = WithoutBlock(b)
      /\ due' = due \ ({b} \cup Skipped(b))
      /\ UNCHANGED <<hasConnections, starting, mRunning, task, notifying, told, notified,
                     outages, throws>>
  BY DEF Erase
<1>2. PICK p \in 1 .. Len(rows) :
        /\ rows[p] = b
        /\ rows' \in Seq(Blocks) /\ Len(rows') = Len(rows) - 1
        /\ \A i \in 1 .. Len(rows) - 1 :
             rows'[i] = IF i < p THEN rows[i] ELSE rows[i + 1]
  BY <1>1, RowRemoved, RowsTyped
<1>3. DOMAIN rows' = 1 .. Len(rows) - 1
  BY <1>2, LenProperties
<1>4. NoRowTwice(rows')
  <2> SUFFICES ASSUME NEW i \in 1 .. Len(rows) - 1, NEW j \in 1 .. Len(rows) - 1, i # j
               PROVE  rows'[i] # rows'[j]
    BY <1>3 DEF NoRowTwice
  <2> DEFINE old(k) == IF k < p THEN k ELSE k + 1
  <2>1. old(i) \in 1 .. Len(rows) /\ old(j) \in 1 .. Len(rows) /\ old(i) # old(j)
    BY RowsTyped
  <2>2. rows'[i] = rows[old(i)] /\ rows'[j] = rows[old(j)]
    BY <1>2
  <2> HIDE DEF old
  <2> QED
    BY <2>1, <2>2, RowsTyped DEF NoRowTwice
<1>5. erased' \in 0 .. MaxErased
  BY <1>1, PublishingBounds DEF PublishingInv, PublishingTypeOK
<1>6. ASSUME NEW c \in due', task.at # "none"
      PROVE  Underway(c)'
  <2>1. c \in due /\ c # b /\ c \notin Skipped(b) /\ Underway(c)
    BY <1>1, <1>6 DEF PublishingInv
  <2>2. CASE c \notin Ahead
    BY <1>1, <2>1, <2>2 DEF Underway
  <2>3. CASE c \in Ahead
    <3>1. PICK i \in 1 .. Len(rows) : i > task.offset /\ c = rows[i]
      BY <2>3, RowsTyped DEF Ahead
    <3>2. task.offset \in Nat
      BY DEF PublishingInv, PublishingTypeOK
    <3>3. CASE i < p
      <4>1. i \in 1 .. Len(rows) - 1 /\ rows'[i] = c
        BY <1>2, <3>1, <3>3, RowsTyped
      <4>2. c \in Ahead'
        BY <1>1, <1>3, <3>1, <4>1 DEF Ahead
      <4> QED
        BY <1>1, <2>1, <4>2 DEF Underway
    <3>4. CASE i > p
      <4>1. i # task.offset + 1
        <5>1. CASE p > task.offset
          BY <3>1, <3>2, <3>4, <5>1, RowsTyped
        <5>2. CASE p <= task.offset
          <6> SUFFICES ASSUME i = task.offset + 1 PROVE FALSE
            OBVIOUS
          <6> DEFINE read == SubSeq(rows, 1, task.offset)
          <6>1. /\ Len(read) = task.offset /\ read \in Seq(Blocks)
                /\ \A j \in 1 .. task.offset : read[j] = rows[j]
            <7>1. task.offset \in 0 .. Len(rows) /\ \A j \in 1 .. task.offset : rows[j] \in Blocks
              BY <3>1, <3>2, RowsTyped
            <7>2. 1 \in Int /\ task.offset \in Int
              BY <3>2
            <7>3. /\ read \in Seq(Blocks)
                  /\ Len(read) = IF 1 <= task.offset THEN task.offset - 1 + 1 ELSE 0
                  /\ \A j \in 1 .. task.offset - 1 + 1 : read[j] = rows[1 + j - 1]
              BY <7>1, <7>2, SubSeqProperties
            <7> QED
              BY <3>2, <7>3
          <6> HIDE DEF read
          <6>2. DOMAIN read = 1 .. task.offset
            BY <6>1, LenProperties
          <6>3. p \in DOMAIN read /\ read[p] = b
            BY <1>2, <3>2, <5>2, <6>1, <6>2
          <6>4. b \in BlocksOf(read)
            BY <6>3 DEF BlocksOf
          <6>5. task.offset < Len(rows)
            BY <3>1, <3>2, RowsTyped
          <6>6. Skipped(b) = {rows[task.offset + 1]}
            BY <6>4, <6>5 DEF Skipped, read
          <6> QED
            BY <2>1, <3>1, <6>6
        <5> QED
          BY <3>2, <5>1, <5>2
      <4>2. i - 1 \in 1 .. Len(rows) - 1 /\ i - 1 > task.offset /\ ~(i - 1 < p) /\ (i - 1) + 1 = i
        BY <3>1, <3>2, <3>4, <4>1, RowsTyped
      <4>3. rows'[i - 1] = c
        BY <1>2, <3>1, <4>2
      <4>4. c \in Ahead'
        BY <1>1, <1>3, <4>2, <4>3 DEF Ahead
      <4> QED
        BY <1>1, <2>1, <4>4 DEF Underway
    <3>5. i # p
      BY <1>2, <2>1, <3>1
    <3> QED
      BY <3>3, <3>4, <3>5
  <2> QED
    BY <2>2, <2>3
<1> QED
  BY <1>1, <1>2, <1>4, <1>5, <1>6 DEF PublishingInv, PublishingTypeOK, NoRowTwice

LEMMA PublishingNextKeeps ==
  ASSUME PublishingInv, [PublishingNext]_publishingVars
  PROVE  PublishingInv'
<1>1. CASE UNCHANGED publishingVars
  BY <1>1 DEF publishingVars, PublishingInv, PublishingTypeOK, Underway, Ahead
<1>2. CASE ConnectFirst \/ LoseConnections \/ Start
  BY <1>2, ConnectionsKeep, StartKeeps
<1>3. CASE RunStep \/ Throw
  BY <1>3, CheckKeeps, SelectKeeps, SendNextKeeps, EndKeeps DEF RunStep
<1>4. ASSUME NEW b \in Blocks, NotifyBlock(b) \/ PublishNotified(b) \/ Erase(b)
      PROVE  PublishingInv'
  BY <1>4, NotifyKeeps, PublishKeeps, EraseKeeps
<1> QED
  BY <1>1, <1>2, <1>3, <1>4 DEF PublishingNext

LEMMA PublishingCorrect == PublishingSpec => []PublishingInv
BY PublishingInitOK, PublishingNextKeeps, PTL DEF PublishingSpec

\* PublishingTypeOK: the task is where mRunning has it, and no more threads are
\* about to start it than there were first connections (store.cpp:387-399).
THEOREM PublishingTyped == PublishingSpec => []PublishingTypeOK
<1>1. PublishingInv => PublishingTypeOK
  BY DEF PublishingInv
<1> QED
  BY <1>1, PublishingCorrect, PTL

LEMMA SkipsNothing == PublishingInv => NothingSkipped
<1> SUFFICES ASSUME PublishingInv, task.at = "end", NEW b \in due
             PROVE  b \in told \cup notifying
  BY DEF NothingSkipped
<1> QED
  BY DEF PublishingInv, Underway

\* NothingSkipped, for tables and pages of any size: the pages are read by their
\* offset in a table that changes between two of them (store.cpp:434-447); a
\* block that was there all the time is still published, but for the one row that
\* each erased behind the offset may cost.
THEOREM NoBlockSkipped == PublishingSpec => []NothingSkipped
BY SkipsNothing, PublishingCorrect, PTL

-----------------------------------------------------------------------------
(* Values on their way to the closest peers.                               *)

LEMMA TableBounds ==
  /\ IsFiniteSet(Peers) /\ StoreNeighbors \in Nat \ {0}
  /\ DefaultTtl \in Nat /\ MaxStores \in Nat /\ MaxDropped \in Nat
BY TableAssumption

\* The messages of a bag that is sent some, or loses one.
LEMMA BagSent ==
  ASSUME NEW B, IsABag(B), NEW S
  PROVE  IsABag(B (+) SetToBag(S)) /\ BagToSet(B (+) SetToBag(S)) = BagToSet(B) \cup S
BY DEF IsABag, (+), SetToBag, BagToSet

LEMMA BagTaken ==
  ASSUME NEW B, IsABag(B), NEW m
  PROVE  /\ IsABag(B (-) SetToBag({m}))
         /\ BagToSet(B (-) SetToBag({m})) \subseteq BagToSet(B)
         /\ BagToSet(B) \ {m} \subseteq BagToSet(B (-) SetToBag({m}))
BY DEF IsABag, (-), SetToBag, BagToSet

LEMMA BagEmpty == IsABag(EmptyBag) /\ BagToSet(EmptyBag) = {}
BY DEF IsABag, EmptyBag, SetToBag, BagToSet

Messages == BagToSet(inFlight)

\* Who sends a message was told of the value, and so was who has received it.
Sourced ==
  /\ recent \subseteq reached
  /\ \A m \in Messages : m.from \in reached /\ (m.handled => m.to \in reached)

\* A peer has told the closest it knows, or a message to them is on its way ...
Served(n) ==
  /\ n \in Routes(n) => n \in holders
  /\ \A q \in Routes(n) : q \in reached \/ \E m \in Messages : ~m.handled /\ m.to = q

\* ... or it is about to: it has received a message that it has not passed on.
Spreading ==
  ~disturbed =>
    \A n \in reached : Served(n) \/ \E m \in Messages : m.handled /\ m.to = n

\* Placed is what this comes to when nothing is on its way.
TableInv == TableTypeOK /\ Sourced

\* No message reaches the end of its life before a peer that needs it.
NoneExpires == \A m \in Messages : ~m.handled /\ m.to \notin recent => m.ttl > 0

LEMMA RoutesOfPeers ==
  ASSUME TableTypeOK, NEW n \in Peers
  PROVE  Routes(n) \subseteq Peers
<1>1. neighbors[n] \subseteq Peers
  BY TableAssumption DEF TableTypeOK
<1> QED
  BY <1>1 DEF Routes

LEMMA MessageFields ==
  ASSUME NEW m \in StoreMessages
  PROVE  /\ m.from \in Peers /\ m.to \in Peers /\ m.ttl \in 0 .. DefaultTtl
         /\ m.ttl \in Nat /\ m.handled \in BOOLEAN
         /\ m = [from |-> m.from, to |-> m.to, ttl |-> m.ttl, handled |-> m.handled]
BY TableBounds DEF StoreMessages

\* What each step puts on the way.
Copies(n, targets, ttl) == {[from |-> n, to |-> p, ttl |-> ttl, handled |-> FALSE] : p \in targets}

LEMMA CopiesTyped ==
  ASSUME NEW n \in Peers, NEW targets \in SUBSET Peers, NEW ttl \in 0 .. DefaultTtl
  PROVE  /\ Copies(n, targets, ttl) \subseteq StoreMessages
         /\ \A m \in Copies(n, targets, ttl) :
              m.from = n /\ m.to \in targets /\ m.ttl = ttl /\ ~m.handled
         /\ \A p \in targets : \E m \in Copies(n, targets, ttl) : ~m.handled /\ m.to = p
<1>1. ASSUME NEW m \in Copies(n, targets, ttl)
      PROVE  /\ m \in StoreMessages
             /\ m.from = n /\ m.to \in targets /\ m.ttl = ttl /\ ~m.handled
  <2>1. PICK p \in targets : m = [from |-> n, to |-> p, ttl |-> ttl, handled |-> FALSE]
    BY DEF Copies
  <2>2. p \in Peers
    OBVIOUS
  <2> QED
    BY <2>1, <2>2 DEF StoreMessages
<1>2. ASSUME NEW p \in targets
      PROVE  \E m \in Copies(n, targets, ttl) : ~m.handled /\ m.to = p
  <2> DEFINE m == [from |-> n, to |-> p, ttl |-> ttl, handled |-> FALSE]
  <2>1. m \in Copies(n, targets, ttl)
    BY DEF Copies
  <2> QED
    BY <2>1
<1> QED
  BY <1>1, <1>2

\* StoreValue, CheckTime and Forward, as the set of messages sees them.
LEMMA StoreSends ==
  ASSUME TableTypeOK, NEW n \in Peers, StoreValue(n)
  PROVE  IsABag(inFlight') /\ Messages' = Messages \cup Copies(n, Routes(n) \ {n}, DefaultTtl)
BY BagSent DEF StoreValue, SendStores, Copies, Messages, TableTypeOK

LEMMA ForwardSends ==
  ASSUME TableTypeOK, NEW m \in Messages, Forward(m)
  PROVE  LET copies == Copies(m.to, Routes(m.to) \ {m.to, m.from}, m.ttl)
         IN  /\ IsABag(inFlight')
             /\ Messages' \subseteq Messages \cup copies
             /\ (Messages \ {m}) \cup copies \subseteq Messages'
<1> DEFINE copies == Copies(m.to, Routes(m.to) \ {m.to, m.from}, m.ttl)
<1>1. /\ IsABag(InFlightBut(m)) /\ BagToSet(InFlightBut(m)) \subseteq Messages
      /\ Messages \ {m} \subseteq BagToSet(InFlightBut(m))
  BY BagTaken DEF InFlightBut, TableTypeOK, Messages
<1>2. inFlight' = InFlightBut(m) (+) SetToBag(copies)
  BY DEF Forward, SendStores, Copies
<1>3. IsABag(inFlight') /\ BagToSet(inFlight') = BagToSet(InFlightBut(m)) \cup copies
  BY <1>1, <1>2, BagSent
<1> QED
  BY <1>1, <1>3 DEF Messages

LEMMA CheckReplaces ==
  ASSUME TableTypeOK, NEW m \in Messages, CheckTime(m)
  PROVE  LET got == [m EXCEPT !.ttl = @ - 1, !.handled = TRUE]
             gone == m.ttl = 0 \/ m.to \in recent
         IN  /\ IsABag(inFlight')
             /\ Messages' \subseteq Messages \cup (IF gone THEN {} ELSE {got})
             /\ (Messages \ {m}) \cup (IF gone THEN {} ELSE {got}) \subseteq Messages'
<1> DEFINE got == [m EXCEPT !.ttl = @ - 1, !.handled = TRUE]
           gone == m.ttl = 0 \/ m.to \in recent
<1>1. /\ IsABag(InFlightBut(m)) /\ BagToSet(InFlightBut(m)) \subseteq Messages
      /\ Messages \ {m} \subseteq BagToSet(InFlightBut(m))
  BY BagTaken DEF InFlightBut, TableTypeOK, Messages
<1>2. inFlight' = IF gone THEN InFlightBut(m) ELSE InFlightBut(m) (+) SetToBag({got})
  BY DEF CheckTime
<1>3. CASE gone
  BY <1>1, <1>2, <1>3 DEF Messages
<1>4. CASE ~gone
  <2>1. IsABag(inFlight') /\ BagToSet(inFlight') = BagToSet(InFlightBut(m)) \cup {got}
    BY <1>1, <1>2, <1>4, BagSent
  <2> QED
    BY <1>1, <1>4, <2>1 DEF Messages
<1> QED
  BY <1>3, <1>4

LEMMA LoseTakes ==
  ASSUME TableTypeOK, NEW m \in Messages, LoseStore(m)
  PROVE  IsABag(inFlight') /\ Messages' \subseteq Messages
BY BagTaken DEF LoseStore, InFlightBut, TableTypeOK, Messages

LEMMA GotFields ==
  ASSUME NEW m \in StoreMessages, m.ttl # 0
  PROVE  LET got == [m EXCEPT !.ttl = @ - 1, !.handled = TRUE]
         IN  /\ got \in StoreMessages /\ got.handled
             /\ got.from = m.from /\ got.to = m.to /\ got.ttl = m.ttl - 1
<1> DEFINE got == [m EXCEPT !.ttl = @ - 1, !.handled = TRUE]
<1>1. m.ttl - 1 \in 0 .. DefaultTtl
  BY MessageFields, TableBounds
<1>2. m.handled \in BOOLEAN /\ TRUE \in BOOLEAN
  BY MessageFields
<1>3. got \in StoreMessages
  BY <1>1 DEF StoreMessages
<1>4. got.handled = TRUE /\ got.from = m.from /\ got.to = m.to /\ got.ttl = m.ttl - 1
  BY DEF StoreMessages
<1> QED
  BY <1>3, <1>4

LEMMA TableInitOK == TableInit => TableInv /\ Spreading
<1> SUFFICES ASSUME TableInit PROVE TableInv /\ Spreading
  OBVIOUS
<1>1. IsABag(inFlight) /\ Messages = {}
  BY BagEmpty DEF TableInit, Messages
<1>2. stores \in 0 .. MaxStores /\ dropped \in 0 .. MaxDropped
  BY TableBounds DEF TableInit
<1>3. TableTypeOK
  BY <1>1, <1>2 DEF TableInit, TableTypeOK, Messages
<1> QED
  BY <1>1, <1>3 DEF TableInit, TableInv, Sourced, Spreading

LEMMA TableTypeParts ==
  ASSUME TableTypeOK
  PROVE  /\ Messages \subseteq StoreMessages
         /\ recent \subseteq holders /\ holders \subseteq Peers /\ reached \subseteq Peers
         /\ stores \in 0 .. MaxStores /\ dropped \in 0 .. MaxDropped /\ disturbed \in BOOLEAN
BY DEF TableTypeOK, Messages

\* Every step keeps the types, and who is behind a message.
LEMMA TableInvKept ==
  ASSUME TableInv, [TableNext]_tableVars
  PROVE  TableInv'
<1>0. /\ TableTypeOK /\ Sourced
      /\ Messages \subseteq StoreMessages
      /\ recent \subseteq holders /\ holders \subseteq Peers /\ reached \subseteq Peers
      /\ stores \in 0 .. MaxStores /\ dropped \in 0 .. MaxDropped /\ disturbed \in BOOLEAN
  BY TableTypeParts DEF TableInv
<1>a. ASSUME /\ neighbors' = neighbors
             /\ recent' \subseteq holders' /\ holders' \subseteq Peers /\ reached' \subseteq Peers
             /\ stores' \in 0 .. MaxStores /\ dropped' \in 0 .. MaxDropped
             /\ disturbed' \in BOOLEAN
             /\ IsABag(inFlight') /\ Messages' \subseteq StoreMessages
             /\ Sourced'
      PROVE  TableInv'
  BY <1>0, <1>a DEF TableInv, TableTypeOK, Messages
<1>1. CASE UNCHANGED tableVars
  <2>1. Messages' = Messages /\ IsABag(inFlight')
    BY <1>0, <1>1 DEF tableVars, Messages, TableTypeOK
  <2> QED
    BY <1>a, <1>0, <1>1, <2>1 DEF tableVars, Sourced
<1>2. ASSUME NEW n \in Peers, StoreValue(n)
      PROVE  TableInv'
  <2> DEFINE copies == Copies(n, Routes(n) \ {n}, DefaultTtl)
  <2>1. IsABag(inFlight') /\ Messages' = Messages \cup copies
    BY <1>0, <1>2, StoreSends
  <2>2. Routes(n) \ {n} \in SUBSET Peers /\ DefaultTtl \in 0 .. DefaultTtl
    BY <1>0, RoutesOfPeers, TableBounds
  <2>3. copies \subseteq StoreMessages /\ \A m \in copies : m.from = n /\ ~m.handled
    BY <2>2, CopiesTyped
  <2> HIDE DEF copies
  <2>4. /\ stores < MaxStores /\ stores' = stores + 1
        /\ holders' = holders \cup {n} /\ recent' = recent \cup {n} /\ reached' = reached \cup {n}
        /\ UNCHANGED <<neighbors, dropped, disturbed>>
    BY <1>2 DEF StoreValue
  <2>5. stores' \in 0 .. MaxStores
    BY <1>0, <2>4, TableBounds
  <2>6. Sourced'
    BY <1>0, <2>1, <2>3, <2>4 DEF Sourced
  <2> QED
    BY <1>a, <1>0, <2>1, <2>3, <2>4, <2>5, <2>6
<1>3. ASSUME NEW m \in Messages, CheckTime(m)
      PROVE  TableInv'
  <2> DEFINE got == [m EXCEPT !.ttl = @ - 1, !.handled = TRUE]
             gone == m.ttl = 0 \/ m.to \in recent
  <2>1. IsABag(inFlight') /\ Messages' \subseteq Messages \cup (IF gone THEN {} ELSE {got})
    BY <1>0, <1>3, CheckReplaces
  <2>2. m \in StoreMessages /\ m.to \in Peers /\ m.from \in reached
    BY <1>0, MessageFields DEF Sourced
  <2>3. ~gone => got \in StoreMessages /\ got.from = m.from /\ got.to = m.to
    BY <2>2, GotFields
  <2> HIDE DEF got
  <2>4. /\ reached' = IF m.ttl = 0 THEN reached ELSE reached \cup {m.to}
        /\ UNCHANGED <<neighbors, holders, recent, stores, dropped, disturbed>>
    BY <1>3 DEF CheckTime
  <2>5. Messages' \subseteq StoreMessages
    BY <1>0, <2>1, <2>3
  <2>6. Sourced'
    BY <1>0, <2>1, <2>2, <2>3, <2>4 DEF Sourced
  <2> QED
    BY <1>a, <1>0, <2>1, <2>2, <2>4, <2>5, <2>6
<1>4. ASSUME NEW m \in Messages, Forward(m)
      PROVE  TableInv'
  <2> DEFINE copies == Copies(m.to, Routes(m.to) \ {m.to, m.from}, m.ttl)
             kept == {m.to} \cap Routes(m.to)
  <2>1. IsABag(inFlight') /\ Messages' \subseteq Messages \cup copies
    BY <1>0, <1>4, ForwardSends
  <2>2. m \in StoreMessages /\ m.to \in Peers /\ m.ttl \in 0 .. DefaultTtl /\ m.to \in reached
    BY <1>0, <1>4, MessageFields DEF Sourced, Forward
  <2>3. Routes(m.to) \ {m.to, m.from} \in SUBSET Peers
    BY <1>0, <2>2, RoutesOfPeers
  <2>4. copies \subseteq StoreMessages /\ \A c \in copies : c.from = m.to /\ ~c.handled
    BY <2>2, <2>3, CopiesTyped
  <2> HIDE DEF copies
  <2>5. /\ holders' = holders \cup kept /\ recent' = recent \cup kept
        /\ UNCHANGED <<neighbors, stores, dropped, reached, disturbed>>
    BY <1>4 DEF Forward
  <2>6. kept \subseteq {m.to}
    OBVIOUS
  <2> HIDE DEF kept
  <2>7. Sourced'
    BY <1>0, <2>1, <2>2, <2>4, <2>5, <2>6 DEF Sourced
  <2> QED
    BY <1>a, <1>0, <2>1, <2>2, <2>4, <2>5, <2>6, <2>7
<1>5. ASSUME NEW m \in Messages, LoseStore(m)
      PROVE  TableInv'
  <2>1. IsABag(inFlight') /\ Messages' \subseteq Messages
    BY <1>0, <1>5, LoseTakes
  <2>2. /\ dropped < MaxDropped /\ dropped' = dropped + 1 /\ disturbed' = TRUE
        /\ UNCHANGED <<neighbors, holders, recent, stores, reached>>
    BY <1>5 DEF LoseStore
  <2>3. dropped' \in 0 .. MaxDropped
    BY <1>0, <2>2, TableBounds
  <2>4. Sourced'
    BY <1>0, <2>1, <2>2 DEF Sourced
  <2> QED
    BY <1>a, <1>0, <2>1, <2>2, <2>3, <2>4
<1>6. CASE Age
  <2>1. /\ recent' = {} /\ disturbed' = FALSE /\ Messages = {}
        /\ reached' = (IF disturbed THEN {} ELSE reached)
        /\ UNCHANGED <<neighbors, holders, inFlight, stores, dropped>>
    BY <1>6, BagEmpty DEF Age, Messages
  <2>2. Messages' = {} /\ IsABag(inFlight')
    BY <1>0, <2>1 DEF Messages, TableTypeOK
  <2>3. reached' \subseteq Peers
    BY <1>0, <2>1
  <2>4. Sourced'
    BY <2>1, <2>2 DEF Sourced
  <2> QED
    BY <1>a, <1>0, <2>1, <2>2, <2>3, <2>4
<1> QED
  BY <1>1, <1>2, <1>3, <1>4, <1>5, <1>6 DEF TableNext, Messages

LEMMA TableCorrect == TableSpec => []TableInv
<1>1. TableInit => TableInv
  BY TableInitOK
<1> QED
  BY <1>1, TableInvKept, PTL DEF TableSpec

\* TableTypeOK: messages are sent by peers to peers, and a value that was stored
\* a short time ago is in the table (overlay.cpp:519-530).
THEOREM TableTyped == TableSpec => []TableTypeOK
<1>1. TableInv => TableTypeOK
  BY DEF TableInv
<1> QED
  BY <1>1, TableCorrect, PTL

\* What is stored, told or on its way stays so: a peer that was served is, as
\* long as the message that is taken off the way has told its peer.
LEMMA ServedKept ==
  ASSUME NEW n, Served(n), neighbors' = neighbors,
         holders \subseteq holders', reached \subseteq reached',
         \A m \in Messages : ~m.handled => m \in Messages' \/ m.to \in reached'
  PROVE  Served(n)'
<1>1. Routes(n)' = Routes(n)
  BY DEF Routes
<1>2. ASSUME NEW q \in Routes(n)
      PROVE  q \in reached' \/ \E m \in Messages' : ~m.handled /\ m.to = q
  BY <1>2 DEF Served
<1> QED
  BY <1>1, <1>2 DEF Served

\* As long as no message expires, the value spreads.
LEMMA SpreadingKept ==
  ASSUME TableInv, Spreading, NoneExpires, [TableNext]_tableVars
  PROVE  Spreading'
<1>0. TableTypeOK /\ Sourced /\ Messages \subseteq StoreMessages /\ reached \subseteq Peers
  BY TableTypeParts DEF TableInv
<1>1. CASE UNCHANGED tableVars
  BY <1>1 DEF tableVars, Spreading, Served, Routes, Messages
<1>2. ASSUME NEW n \in Peers, StoreValue(n)
      PROVE  Spreading'
  <2> DEFINE copies == Copies(n, Routes(n) \ {n}, DefaultTtl)
  <2>1. Messages' = Messages \cup copies
    BY <1>0, <1>2, StoreSends
  <2>2. Routes(n) \ {n} \in SUBSET Peers /\ DefaultTtl \in 0 .. DefaultTtl
    BY <1>0, RoutesOfPeers, TableBounds
  <2>3. \A q \in Routes(n) \ {n} : \E m \in copies : ~m.handled /\ m.to = q
    BY <2>2, CopiesTyped
  <2> HIDE DEF copies
  <2>4. /\ holders' = holders \cup {n} /\ reached' = reached \cup {n}
        /\ neighbors' = neighbors /\ disturbed' = disturbed
    BY <1>2 DEF StoreValue
  <2>5. Routes(n)' = Routes(n)
    BY <2>4 DEF Routes
  <2>6. Served(n)'
    BY <2>1, <2>3, <2>4, <2>5 DEF Served
  <2>7. ASSUME NEW p \in reached, ~disturbed
        PROVE  Served(p)' \/ \E m \in Messages' : m.handled /\ m.to = p
    <3>1. CASE Served(p)
      BY <2>1, <2>4, <3>1, ServedKept
    <3>2. CASE \E m \in Messages : m.handled /\ m.to = p
      BY <2>1, <3>2
    <3> QED
      BY <2>7, <3>1, <3>2 DEF Spreading
  <2> QED
    BY <2>4, <2>6, <2>7 DEF Spreading
<1>3. ASSUME NEW m \in Messages, CheckTime(m)
      PROVE  Spreading'
  <2> DEFINE got == [m EXCEPT !.ttl = @ - 1, !.handled = TRUE]
             gone == m.ttl = 0 \/ m.to \in recent
  <2>1. (Messages \ {m}) \cup (IF gone THEN {} ELSE {got}) \subseteq Messages'
    BY <1>0, <1>3, CheckReplaces
  <2>2. ~m.handled /\ m \in StoreMessages /\ m.ttl \in Nat /\ recent \subseteq reached
    BY <1>0, <1>3, MessageFields DEF CheckTime, Sourced
  <2>3. m.to \in recent \/ m.ttl # 0
    BY <2>2 DEF NoneExpires
  <2>4. ~gone => got.handled /\ got.to = m.to
    BY <2>2, GotFields
  <2> HIDE DEF got
  <2>5. /\ reached' = reached \cup {m.to}
        /\ holders' = holders /\ neighbors' = neighbors /\ disturbed' = disturbed
    BY <1>3, <2>2, <2>3 DEF CheckTime
  <2>6. ASSUME NEW p \in reached, ~disturbed
        PROVE  Served(p)' \/ \E c \in Messages' : c.handled /\ c.to = p
    <3>1. CASE Served(p)
      <4>1. \A c \in Messages : ~c.handled => c \in Messages' \/ c.to \in reached'
        BY <2>1, <2>5
      <4> QED
        BY <2>5, <3>1, <4>1, ServedKept
    <3>2. CASE \E c \in Messages : c.handled /\ c.to = p
      BY <2>1, <2>2, <3>2
    <3> QED
      BY <2>6, <3>1, <3>2 DEF Spreading
  <2>7. m.to \notin reached => \E c \in Messages' : c.handled /\ c.to = m.to
    BY <2>1, <2>2, <2>3, <2>4
  <2> QED
    BY <2>5, <2>6, <2>7 DEF Spreading
<1>4. ASSUME NEW m \in Messages, Forward(m)
      PROVE  Spreading'
  <2> DEFINE copies == Copies(m.to, Routes(m.to) \ {m.to, m.from}, m.ttl)
  <2>1. (Messages \ {m}) \cup copies \subseteq Messages'
    BY <1>0, <1>4, ForwardSends
  <2>2. /\ m.handled /\ m \in StoreMessages /\ m.to \in Peers /\ m.ttl \in 0 .. DefaultTtl
        /\ m.to \in reached /\ m.from \in reached
    BY <1>0, <1>4, MessageFields DEF Sourced, Forward
  <2>3. Routes(m.to) \ {m.to, m.from} \in SUBSET Peers
    BY <1>0, <2>2, RoutesOfPeers
  <2>4. \A q \in Routes(m.to) \ {m.to, m.from} : \E c \in copies : ~c.handled /\ c.to = q
    BY <2>2, <2>3, CopiesTyped
  <2> HIDE DEF copies
  <2>5. /\ holders' = holders \cup ({m.to} \cap Routes(m.to)) /\ reached' = reached
        /\ neighbors' = neighbors /\ disturbed' = disturbed
    BY <1>4 DEF Forward
  <2>6. Served(m.to)'
    <3>1. Routes(m.to)' = Routes(m.to)
      BY <2>5 DEF Routes
    <3>2. m.to \in Routes(m.to) => m.to \in holders'
      BY <2>5
    <3>3. ASSUME NEW q \in Routes(m.to)
          PROVE  q \in reached' \/ \E c \in Messages' : ~c.handled /\ c.to = q
      BY <2>1, <2>2, <2>4, <2>5, <3>3
    <3> DEFINE n == m.to
    <3> HIDE DEF n
    <3>4. Served(n)'
      BY <3>1, <3>2, <3>3 DEF Served, n
    <3> QED
      BY <3>4 DEF n
  <2>7. ASSUME NEW p \in reached, ~disturbed, p # m.to
        PROVE  Served(p)' \/ \E c \in Messages' : c.handled /\ c.to = p
    <3>1. CASE Served(p)
      <4>1. \A c \in Messages : ~c.handled => c \in Messages' \/ c.to \in reached'
        BY <2>1, <2>2
      <4> QED
        BY <2>5, <3>1, <4>1, ServedKept
    <3>2. CASE \E c \in Messages : c.handled /\ c.to = p
      BY <2>1, <2>7, <3>2
    <3> QED
      BY <2>7, <3>1, <3>2 DEF Spreading
  <2> QED
    BY <2>5, <2>6, <2>7 DEF Spreading
<1>5. ASSUME NEW m \in Messages, LoseStore(m)
      PROVE  Spreading'
  BY <1>5 DEF LoseStore, Spreading
<1>6. CASE Age
  <2>1. /\ reached' = (IF disturbed THEN {} ELSE reached)
        /\ UNCHANGED <<neighbors, holders, inFlight>>
    BY <1>6 DEF Age
  <2>2. Messages' = Messages
    BY <2>1 DEF Messages
  <2>3. ASSUME NEW p \in reached, ~disturbed
        PROVE  Served(p)' \/ \E c \in Messages' : c.handled /\ c.to = p
    <3>1. reached' = reached
      BY <2>1, <2>3
    <3>2. CASE Served(p)
      BY <2>1, <2>2, <3>1, <3>2, ServedKept
    <3>3. CASE \E c \in Messages : c.handled /\ c.to = p
      BY <2>2, <3>3
    <3> QED
      BY <2>3, <3>2, <3>3 DEF Spreading
  <2> QED
    BY <2>1, <2>3 DEF Spreading
<1> QED
  BY <1>1, <1>2, <1>3, <1>4, <1>5, <1>6 DEF TableNext, Messages

LEMMA SpreadingPlaces == Spreading => Placed
<1> SUFFICES ASSUME Spreading, inFlight = EmptyBag, ~disturbed, NEW n \in reached
             PROVE  Routes(n) \subseteq reached /\ (n \in Routes(n) => n \in holders)
  BY DEF Placed
<1>1. Messages = {}
  BY BagEmpty DEF Messages
<1> QED
  BY <1>1 DEF Spreading, Served

\* Placed, when no message expires: nothing else can keep a value from the peer
\* where a way towards the key ends, whatever the readers of the connections do
\* between the check of the time and the store (overlay.cpp:519-530).
THEOREM PlacedUnlessExpired == TableSpec /\ []NoneExpires => []Placed
<1>1. TableInit => Spreading
  BY TableInitOK
<1>2. TableInv /\ Spreading /\ NoneExpires /\ [TableNext]_tableVars => Spreading'
  BY SpreadingKept
<1> QED
  BY <1>1, <1>2, TableCorrect, SpreadingPlaces, PTL DEF TableSpec

-----------------------------------------------------------------------------
(* How far a message travels.  A peer that does not keep the value passes  *)
(* it on to closer ones only; one that keeps it may pass it back, but does *)
(* so once, as it is silent afterwards.                                    *)

Closer(p) == {x \in Peers : Distance[x] < Distance[p]}
Rank(p) == Cardinality(Closer(p))

\* Of each message: the hops it has made, from the ranks it has lost and the
\* peers that have kept the value on its way.
Travelled ==
  \A m \in Messages :
    \E kept \in SUBSET recent :
      /\ m.handled => m.to \notin kept
      /\ DefaultTtl + Rank(m.to)
           <= m.ttl + (IF m.handled THEN 1 ELSE 0) + Cardinality(Peers) * Cardinality(kept)

LEMMA RankBounds ==
  /\ Cardinality(Peers) \in Nat
  /\ \A p \in Peers : Rank(p) \in Nat /\ Rank(p) + 1 <= Cardinality(Peers)
<1>1. Cardinality(Peers) \in Nat
  BY TableBounds, FS_CardinalityType
<1>2. ASSUME NEW p \in Peers
      PROVE  Rank(p) \in Nat /\ Rank(p) + 1 <= Cardinality(Peers)
  <2>1. Closer(p) \subseteq Peers /\ p \notin Closer(p)
    BY TableAssumption DEF Closer
  <2>2. IsFiniteSet(Closer(p)) /\ Cardinality(Closer(p)) \in Nat
    BY <2>1, TableBounds, FS_Subset, FS_CardinalityType
  <2>3. IsFiniteSet(Closer(p) \cup {p})
        /\ Cardinality(Closer(p) \cup {p}) = Cardinality(Closer(p)) + 1
    BY <2>1, <2>2, FS_AddElement
  <2>4. Cardinality(Closer(p) \cup {p}) <= Cardinality(Peers)
    BY <2>1, TableBounds, FS_Subset
  <2> QED
    BY <2>2, <2>3, <2>4 DEF Rank
<1> QED
  BY <1>1, <1>2

LEMMA CloserHasLowerRank ==
  ASSUME NEW p \in Peers, NEW q \in Peers, Distance[q] < Distance[p]
  PROVE  Rank(q) + 1 <= Rank(p)
<1>0. \A x \in Peers : Distance[x] \in Nat
  BY TableAssumption
<1>1. Closer(q) \cup {q} \subseteq Closer(p) /\ q \notin Closer(q)
  BY <1>0 DEF Closer
<1>2. IsFiniteSet(Closer(p)) /\ IsFiniteSet(Closer(q))
  <2>1. Closer(p) \subseteq Peers /\ Closer(q) \subseteq Peers
    BY DEF Closer
  <2> QED
    BY <2>1, TableBounds, FS_Subset
<1>3. Cardinality(Closer(q) \cup {q}) = Cardinality(Closer(q)) + 1
  BY <1>1, <1>2, FS_AddElement
<1>4. Cardinality(Closer(q) \cup {q}) <= Cardinality(Closer(p))
  BY <1>1, <1>2, FS_Subset
<1> QED
  BY <1>3, <1>4 DEF Rank

\* Who is not among the closest it knows knows closer ones only.
LEMMA RoutesAreCloser ==
  ASSUME TableTypeOK, NEW n \in Peers, n \notin Routes(n), NEW q \in Routes(n)
  PROVE  Distance[q] < Distance[n]
<1> DEFINE near == neighbors[n] \cup {n}
           below(p) == {x \in near : Distance[x] < Distance[p]}
<1>0. \A x \in Peers : Distance[x] \in Nat
  BY TableAssumption
<1>1. near \subseteq Peers /\ q \in near /\ q \in Peers
  BY TableAssumption, RoutesOfPeers DEF TableTypeOK, Routes
<1>2. Cardinality(below(q)) < StoreNeighbors /\ ~(Cardinality(below(n)) < StoreNeighbors)
  BY DEF Routes
<1>3. IsFiniteSet(below(q)) /\ IsFiniteSet(below(n))
  <2>1. below(q) \subseteq Peers /\ below(n) \subseteq Peers
    BY <1>1
  <2> QED
    BY <2>1, TableBounds, FS_Subset
<1>4. ASSUME Distance[n] <= Distance[q]
      PROVE  FALSE
  <2>1. below(n) \subseteq below(q)
    BY <1>0, <1>1, <1>4
  <2>2. Cardinality(below(n)) <= Cardinality(below(q))
    BY <1>3, <2>1, FS_Subset
  <2>3. Cardinality(below(n)) \in Nat /\ Cardinality(below(q)) \in Nat
    BY <1>3, FS_CardinalityType
  <2> QED
    BY <1>2, <2>2, <2>3, TableBounds
<1> QED
  BY <1>0, <1>1, <1>4

\* A set of peers of which one is added, and its product with another number.
LEMMA PeersCounted ==
  ASSUME NEW S \in SUBSET Peers
  PROVE  /\ IsFiniteSet(S) /\ Cardinality(S) \in Nat
         /\ Cardinality(S) <= Cardinality(Peers)
         /\ \A p \in Peers \ S :
              /\ Cardinality(S \cup {p}) = Cardinality(S) + 1
              /\ Cardinality(S) <= Cardinality(Peers) - 1
<1>1. IsFiniteSet(S) /\ Cardinality(S) \in Nat /\ Cardinality(S) <= Cardinality(Peers)
  BY TableBounds, FS_Subset, FS_CardinalityType
<1>2. ASSUME NEW p \in Peers \ S
      PROVE  /\ Cardinality(S \cup {p}) = Cardinality(S) + 1
             /\ Cardinality(S) <= Cardinality(Peers) - 1
  <2>1. Cardinality(S \cup {p}) = Cardinality(S) + 1
    BY <1>1, FS_AddElement
  <2>2. Cardinality(S \cup {p}) <= Cardinality(Peers)
    BY TableBounds, FS_Subset
  <2> QED
    BY <1>1, <2>1, <2>2, RankBounds
<1> QED
  BY <1>1, <1>2

LEMMA Products ==
  ASSUME NEW n \in Nat, NEW a \in Nat
  PROVE  /\ n * a \in Nat /\ n * (a + 1) = n * a + n
         /\ \A b \in Nat : a <= b => n * a <= n * b
<1>1. n * a \in Nat /\ n * (a + 1) = n * a + n
  OBVIOUS
<1>2. ASSUME NEW b \in Nat, a <= b
      PROVE  n * a <= n * b
  <2>1. PICK d \in Nat : b = a + d
    <3>1. b - a \in Nat /\ b = a + (b - a)
      BY <1>2
    <3> QED
      BY <3>1
  <2>2. n * (a + d) = n * a + n * d /\ n * d \in Nat
    OBVIOUS
  <2> QED
    BY <1>1, <2>1, <2>2
<1> QED
  BY <1>1, <1>2

\* A message that stays, while those that are silent only get more.
LEMMA TravelledStays ==
  ASSUME Travelled, NEW m \in Messages, recent \subseteq recent'
  PROVE  \E kept \in SUBSET recent' :
           /\ m.handled => m.to \notin kept
           /\ DefaultTtl + Rank(m.to)
                <= m.ttl + (IF m.handled THEN 1 ELSE 0) + Cardinality(Peers) * Cardinality(kept)
BY DEF Travelled

LEMMA TravelledKept ==
  ASSUME TableInv, Travelled, [TableNext]_tableVars
  PROVE  Travelled'
<1> DEFINE N == Cardinality(Peers)
           Paid(m, kept) ==
             /\ m.handled => m.to \notin kept
             /\ DefaultTtl + Rank(m.to)
                  <= m.ttl + (IF m.handled THEN 1 ELSE 0) + N * Cardinality(kept)
<1>0. /\ TableTypeOK /\ Messages \subseteq StoreMessages /\ recent \subseteq Peers
      /\ N \in Nat /\ DefaultTtl \in Nat
  BY TableTypeParts, RankBounds, TableBounds DEF TableInv
<1>1. Travelled' <=> \A m \in Messages' : \E kept \in SUBSET recent' : Paid(m, kept)
  BY DEF Travelled
<1>2. ASSUME NEW m \in Messages, recent \subseteq recent'
      PROVE  \E kept \in SUBSET recent' : Paid(m, kept)
  BY <1>2, TravelledStays
<1>3. ASSUME NEW m \in Messages
      PROVE  \E kept \in SUBSET recent : Paid(m, kept)
  BY DEF Travelled
<1> HIDE DEF Paid
<1>4. CASE UNCHANGED tableVars
  BY <1>1, <1>2, <1>4 DEF tableVars, Messages
<1>5. ASSUME NEW n \in Peers, StoreValue(n)
      PROVE  Travelled'
  <2> DEFINE copies == Copies(n, Routes(n) \ {n}, DefaultTtl)
  <2>1. Messages' = Messages \cup copies /\ recent' = recent \cup {n}
    BY <1>0, <1>5, StoreSends DEF StoreValue
  <2>2. Routes(n) \ {n} \in SUBSET Peers /\ DefaultTtl \in 0 .. DefaultTtl
    BY <1>0, RoutesOfPeers
  <2>3. ASSUME NEW m \in copies
        PROVE  Paid(m, {n})
    <3>1. m.to \in Peers /\ m.ttl = DefaultTtl /\ ~m.handled
      BY <2>2, CopiesTyped
    <3>2. Rank(m.to) \in Nat /\ Rank(m.to) + 1 <= N
      BY <3>1, RankBounds
    <3>3. Cardinality({n}) = 1
      BY FS_Singleton
    <3>4. DefaultTtl + Rank(m.to) <= m.ttl + N * 1
      BY <1>0, <3>1, <3>2
    <3> QED
      BY <1>0, <3>1, <3>3, <3>4 DEF Paid
  <2> HIDE DEF copies
  <2> QED
    BY <1>1, <1>2, <2>1, <2>3
<1>6. ASSUME NEW m \in Messages, CheckTime(m)
      PROVE  Travelled'
  <2> DEFINE got == [m EXCEPT !.ttl = @ - 1, !.handled = TRUE]
             gone == m.ttl = 0 \/ m.to \in recent
  <2>1. Messages' \subseteq Messages \cup (IF gone THEN {} ELSE {got})
    BY <1>0, <1>6, CheckReplaces
  <2>2. ~m.handled /\ m \in StoreMessages /\ recent' = recent
    BY <1>0, <1>6 DEF CheckTime
  <2>3. m.ttl \in Nat /\ m.to \in Peers
    BY <2>2, MessageFields
  <2>4. ASSUME ~gone
        PROVE  \E kept \in SUBSET recent : Paid(got, kept)
    <3>1. got.handled /\ got.to = m.to /\ got.ttl = m.ttl - 1
      BY <2>2, <2>4, GotFields
    <3> HIDE DEF got
    <3>2. PICK kept \in SUBSET recent : Paid(m, kept)
      BY <1>3
    <3>3. m.to \notin kept
      BY <2>4
    <3>4. N * Cardinality(kept) \in Nat /\ Rank(m.to) \in Nat
      BY <1>0, <2>3, PeersCounted, Products, RankBounds
    <3>5. DefaultTtl + Rank(m.to) <= m.ttl + N * Cardinality(kept)
      BY <2>2, <2>3, <3>2, <3>4 DEF Paid
    <3>6. DefaultTtl + Rank(got.to) <= got.ttl + 1 + N * Cardinality(kept)
      BY <2>3, <3>1, <3>4, <3>5
    <3> QED
      BY <3>1, <3>3, <3>6 DEF Paid
  <2> HIDE DEF got
  <2> QED
    BY <1>1, <1>2, <2>1, <2>2, <2>4
<1>7. ASSUME NEW m \in Messages, Forward(m)
      PROVE  Travelled'
  <2> DEFINE n == m.to
             copies == Copies(m.to, Routes(m.to) \ {m.to, m.from}, m.ttl)
  <2>1. Messages' \subseteq Messages \cup copies
    BY <1>0, <1>7, ForwardSends
  <2>2. m.handled /\ n \in Peers /\ m.ttl \in 0 .. DefaultTtl /\ m.ttl \in Nat
    BY <1>0, <1>7, MessageFields DEF Forward
  <2>3. recent' = recent \cup ({n} \cap Routes(n))
    BY <1>7 DEF Forward
  <2>4. Routes(m.to) \ {m.to, m.from} \in SUBSET Peers
    BY <1>0, <2>2, RoutesOfPeers
  <2>5. PICK kept \in SUBSET recent : Paid(m, kept)
    BY <1>3
  <2>6. n \notin kept /\ DefaultTtl + Rank(n) <= m.ttl + 1 + N * Cardinality(kept)
    BY <2>2, <2>5 DEF Paid
  <2>7. Cardinality(kept) \in Nat /\ N * Cardinality(kept) \in Nat
    BY <1>0, PeersCounted, Products
  <2>8. ASSUME NEW c \in copies
        PROVE  \E all \in SUBSET recent' : Paid(c, all)
    <3>1. c.to \in Routes(n) /\ c.to \in Peers /\ c.ttl = m.ttl /\ ~c.handled
      BY <2>2, <2>4, CopiesTyped
    <3>2. /\ Rank(c.to) \in Nat /\ Rank(c.to) + 1 <= N
          /\ Rank(n) \in Nat
      BY <2>2, <3>1, RankBounds
    <3> HIDE DEF copies
    <3>3. CASE n \in Routes(n)
      <4>1. kept \cup {n} \in SUBSET recent'
        BY <2>3, <3>3
      <4>2. Cardinality(kept \cup {n}) = Cardinality(kept) + 1
        BY <1>0, <2>2, <2>6, PeersCounted
      <4>3. N * Cardinality(kept \cup {n}) = N * Cardinality(kept) + N
        BY <1>0, <2>7, <4>2, Products
      <4>4. DefaultTtl + Rank(c.to) <= c.ttl + (N * Cardinality(kept) + N)
        BY <1>0, <2>2, <2>6, <2>7, <3>1, <3>2
      <4>5. DefaultTtl + Rank(c.to) <= c.ttl + N * Cardinality(kept \cup {n})
        BY <4>3, <4>4
      <4>6. Paid(c, kept \cup {n})
        BY <1>0, <2>2, <2>7, <3>1, <4>3, <4>5 DEF Paid
      <4> QED
        BY <4>1, <4>6
    <3>4. CASE n \notin Routes(n)
      <4>1. Rank(c.to) + 1 <= Rank(n)
        BY <1>0, <2>2, <3>1, <3>4, RoutesAreCloser, CloserHasLowerRank
      <4>2. DefaultTtl + Rank(c.to) <= c.ttl + N * Cardinality(kept)
        BY <1>0, <2>2, <2>6, <2>7, <3>1, <3>2, <4>1
      <4>3. Paid(c, kept)
        BY <2>2, <2>7, <3>1, <4>2 DEF Paid
      <4>4. kept \in SUBSET recent'
        BY <2>3
      <4> QED
        BY <4>3, <4>4
    <3> QED
      BY <3>3, <3>4
  <2> HIDE DEF copies, n
  <2> QED
    BY <1>1, <1>2, <2>1, <2>3, <2>8
<1>8. ASSUME NEW m \in Messages, LoseStore(m)
      PROVE  Travelled'
  BY <1>0, <1>1, <1>2, <1>8, LoseTakes DEF LoseStore
<1>9. CASE Age
  <2>1. Messages' = {}
    BY <1>9, BagEmpty DEF Age, Messages
  <2> QED
    BY <1>1, <2>1
<1> QED
  BY <1>4, <1>5, <1>6, <1>7, <1>8, <1>9 DEF TableNext, Messages

\* With hops enough for every peer to come after each that keeps the value, no
\* message expires before it has arrived.
LEMMA EnoughHops ==
  ASSUME TableInv, Travelled,
         DefaultTtl > Cardinality(Peers) * (Cardinality(Peers) - 1)
  PROVE  NoneExpires
<1> DEFINE N == Cardinality(Peers)
<1> SUFFICES ASSUME NEW m \in Messages, ~m.handled, m.to \notin recent
             PROVE  m.ttl > 0
  BY DEF NoneExpires
<1>1. m.ttl \in Nat /\ m.to \in Peers /\ recent \subseteq Peers
  BY TableTypeParts, MessageFields DEF TableInv
<1>2. N \in Nat /\ Rank(m.to) \in Nat /\ N - 1 \in Nat /\ DefaultTtl \in Nat
  BY <1>1, RankBounds, TableBounds
<1>3. PICK kept \in SUBSET recent :
        DefaultTtl + Rank(m.to) <= m.ttl + 0 + N * Cardinality(kept)
  BY DEF Travelled
<1>4. Cardinality(kept) \in Nat /\ Cardinality(kept) <= N - 1
  BY <1>1, PeersCounted
<1>5. /\ N * Cardinality(kept) \in Nat /\ N * (N - 1) \in Nat
      /\ N * Cardinality(kept) <= N * (N - 1)
  BY <1>2, <1>4, Products
<1> HIDE DEF N
<1>6. DefaultTtl > N * (N - 1)
  BY DEF N
<1> QED
  BY <1>1, <1>2, <1>3, <1>5, <1>6

\* Placed, from the hops alone: a Store message has DefaultTtl of them (16,
\* overlay.cpp:48), which is enough for any connections of four peers.
THEOREM ValueIsPlaced ==
  ASSUME DefaultTtl > Cardinality(Peers) * (Cardinality(Peers) - 1)
  PROVE  TableSpec => []Placed
<1>1. TableInit => Travelled
  BY BagEmpty DEF TableInit, Travelled, Messages
<1>2. TableInv /\ Travelled /\ [TableNext]_tableVars => Travelled'
  BY TravelledKept
<1>3. TableInv /\ Travelled => NoneExpires
  BY EnoughHops
<1> QED
  BY <1>1, <1>2, <1>3, TableCorrect, PlacedUnlessExpired, PTL DEF TableSpec
-----------------------------------------------------------------------------
(* The run of module MCSafety: one of the four components plays, and the   *)
(* others are off.                                                         *)

LEMMA SchedulerOffOK == SchedulerOff => SchedulerInv
BY EmptyOK DEF SchedulerOff

LEMMA PublishingOffOK == PublishingOff => PublishingInv
<1> SUFFICES ASSUME PublishingOff PROVE PublishingInv
  OBVIOUS
<1>1. << >> \in Seq(Blocks) /\ DOMAIN << >> = {}
  OBVIOUS
<1>2. PublishingTypeOK
  <2>1. NotPublishing \in [at : {"none", "check", "select", "send", "end"}, offset : Nat,
                           result : Seq(Blocks)]
    BY <1>1 DEF NotPublishing
  <2>2. /\ 0 \in 0 .. MaxOutages + 1
        /\ MaxNotified \in 0 .. MaxNotified /\ MaxErased \in 0 .. MaxErased
        /\ MaxOutages \in 0 .. MaxOutages /\ MaxThrows \in 0 .. MaxThrows
    BY PublishingBounds
  <2> QED
    BY <1>1, <2>1, <2>2 DEF PublishingOff, PublishingTypeOK, NotPublishing
<1> QED
  BY <1>2, PublishingBounds DEF PublishingOff, PublishingInv, NotPublishing

LEMMA TableOffOK == TableOff => TableInv /\ Spreading /\ Travelled
<1> SUFFICES ASSUME TableOff PROVE TableInv /\ Spreading /\ Travelled
  OBVIOUS
<1>1. neighbors \in Topologies
  BY TableAssumption DEF TableOff
<1>2. Messages = {}
  BY BagEmpty DEF TableOff, Messages
<1>3. TableTypeOK
  <2>1. IsABag(inFlight) /\ BagToSet(inFlight) \subseteq StoreMessages
    BY BagEmpty DEF TableOff
  <2>2. MaxStores \in 0 .. MaxStores /\ MaxDropped \in 0 .. MaxDropped
    BY TableBounds
  <2> QED
    BY <1>1, <2>1, <2>2 DEF TableOff, TableTypeOK
<1> QED
  BY <1>2, <1>3 DEF TableInv, Sourced, Spreading, Travelled, TableOff

LEMMA RetrieveOffOK == RetrieveOff => RetrieveTypeOK /\ PendingMatchesWaiters /\ ReasonInv
<1> SUFFICES ASSUME RetrieveOff
             PROVE  RetrieveTypeOK /\ PendingMatchesWaiters /\ ReasonInv
  OBVIOUS
<1>1. \A s \in Seekers :
        seeker[s] = [state |-> "idle", key |-> NoKey, calls |-> MaxAsks] /\ ~Waits(s)
  BY DEF RetrieveOff, Waits
<1>2. RetrieveTypeOK
  <2>1. SeekersTyped
    BY RetrieveBounds DEF RetrieveOff, SeekersTyped, SeekerStates
  <2>2. reasons \in [Keys -> SUBSET Reasons]
    BY DEF RetrieveOff
  <2>3. messages \in 0 .. MaxMessages /\ losses \in 0 .. MaxLosses
    BY RetrieveBounds DEF RetrieveOff
  <2> QED
    BY <2>1, <2>2, <2>3 DEF RetrieveOff, RetrieveTypeOK, SeekersTyped
<1>3. PendingMatchesWaiters
  BY <1>1 DEF RetrieveOff, PendingMatchesWaiters, PendingHasWaiter, SleeperIsPending
<1>4. ReasonInv
  BY <1>1 DEF RetrieveOff, ReasonInv, EmptyHasReason
<1> QED
  BY <1>2, <1>3, <1>4

\* A step of one component is a step of each, as the others stutter.
LEMMA SafetySteps ==
  ASSUME [SafetyNext]_safetyVars
  PROVE  /\ [Next]_vars /\ [PublishingNext]_publishingVars
         /\ [TableNext]_tableVars /\ [RetrieveNext]_retrieveVars
BY DEF SafetyNext, safetyVars

\* The invariants of the four components, each inductive on its own.
SafetyInv ==
  /\ SchedulerInv /\ PublishingInv /\ TableInv /\ Travelled
  /\ RetrieveTypeOK /\ PendingMatchesWaiters /\ ReasonInv

LEMMA SafetyInitOK == SafetyInit => SafetyInv /\ Spreading
<1>1. Init => SchedulerInv
  BY InvInit
<1>2. PublishingOn => PublishingInv
  BY PublishingInitOK DEF PublishingOn
<1>3. TableInit => TableInv /\ Spreading /\ Travelled
  BY TableInitOK, BagEmpty DEF TableInit, Travelled, Messages
<1>4. RetrieveInit => RetrieveTypeOK /\ PendingMatchesWaiters /\ ReasonInv
  BY RetrieveInitTyped
     DEF RetrieveInit, PendingMatchesWaiters, PendingHasWaiter, SleeperIsPending,
         ReasonInv, EmptyHasReason, Waits
<1> QED
  BY <1>1, <1>2, <1>3, <1>4, SchedulerOffOK, PublishingOffOK, TableOffOK, RetrieveOffOK
     DEF SafetyInit, SafetyInv

LEMMA SafetyKept ==
  ASSUME SafetyInv, [SafetyNext]_safetyVars
  PROVE  SafetyInv' /\ [OthersKept]_vars
<1>1. SchedulerInv' /\ [OthersKept]_vars
  BY SafetySteps, InvKept DEF SafetyInv
<1>2. PublishingInv'
  BY SafetySteps, PublishingNextKeeps DEF SafetyInv
<1>3. TableInv' /\ Travelled'
  BY SafetySteps, TableInvKept, TravelledKept DEF SafetyInv
<1>4. RetrieveTypeOK' /\ PendingMatchesWaiters' /\ ReasonInv'
  BY SafetySteps, RetrieveTypeKept, MatchKept, ReasonKept DEF SafetyInv
<1> QED
  BY <1>1, <1>2, <1>3, <1>4 DEF SafetyInv

LEMMA SafetyCorrect == SafetySpec => []SafetyInv /\ KeepsOthers
<1>1. SafetyInit => SafetyInv
  BY SafetyInitOK
<1>2. SafetyInv /\ [SafetyNext]_safetyVars => SafetyInv' /\ [OthersKept]_vars
  BY SafetyKept
<1> QED
  BY <1>1, <1>2, PTL DEF SafetySpec, KeepsOthers

\* SafetyTypeOK: the four components stay well-formed beside each other
\* (scheduler.hpp:157-171, store.cpp:389, overlay.cpp:526, :590-620).
THEOREM SafetyTyped == SafetySpec => []SafetyTypeOK
<1>1. SafetyInv => SafetyTypeOK
  BY DEF SafetyInv, SafetyTypeOK, SchedulerInv, PublishingInv, TableInv
<1> QED
  BY <1>1, SafetyCorrect, PTL

\* Every invariant and action property that the run of MCSafety checks, for any
\* number of workers, alarms, blocks, threads and keys, and any peers that a
\* message has hops enough for (16 of them, overlay.cpp:48).
THEOREM NodeIsSafe ==
  ASSUME DefaultTtl > Cardinality(Peers) * (Cardinality(Peers) - 1)
  PROVE  SafetySpec =>
           /\ [](PendingIsLive /\ NothingSkipped /\ Placed /\ PendingMatchesWaiters
                  /\ EmptyHasReason)
           /\ KeepsOthers
<1>1. SafetyInit => Spreading
  BY SafetyInitOK
<1>2. SafetyInv /\ Spreading /\ [SafetyNext]_safetyVars => Spreading'
  BY SafetySteps, EnoughHops, SpreadingKept DEF SafetyInv
<1>3. SafetyInv /\ Spreading =>
        PendingIsLive /\ NothingSkipped /\ Placed /\ PendingMatchesWaiters /\ EmptyHasReason
  BY SpreadingPlaces, SkipsNothing DEF SafetyInv, SchedulerInv, ReasonInv
<1> QED
  BY <1>1, <1>2, <1>3, SafetyCorrect, PTL DEF SafetySpec
=============================================================================
