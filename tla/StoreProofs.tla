----------------------------- MODULE StoreProofs -----------------------------
(***************************************************************************)
(* Theorems about Store, for any number of threads, sinks, chunks, wrong   *)
(* combinations and evictions.                                             *)
(***************************************************************************)
EXTENDS Store, TLAPS

At(p, at) == pusher[p].at = at

\* A decoded sink has the right digest, and who dumps a sink dumps a decoded
\* one, which nobody resets.
SinksAreRight ==
  /\ \A s \in Sinks : sink[s].rank = Chunks => ~sink[s].wrong
  /\ \A p \in Pushers : pusher[p].at \in {"write", "orphan"} =>
       pusher[p].sink \in Sinks /\ sink[pusher[p].sink].rank = Chunks
  /\ \A p \in Pushers : pusher[p].at \in {"push", "dumped"} => pusher[p].sink \in Sinks
  /\ file # "wrong" /\ pulled # "wrong"

\* Until the cache removes the file for the first time, nothing is forgotten:
\* a block on its way to the table is on disk, whoever still adds to a missing
\* block adds to the sink in the map, and whoever waits for it calls it.
NothingForgotten ==
  /\ evictor = "idle"
  /\ \A p \in Pushers : pusher[p].at \notin {"orphan", "forget"}
  /\ \A w \in Waiters : waiter[w] \notin {"erase", "forget"}
  /\ \A p \in Pushers : At(p, "write") => file # "absent"
  /\ known \/ (\E p \in Pushers : At(p, "dumped")) =>
       file = "whole" \/ \E p \in Pushers : At(p, "write")
  /\ \A p \in Pushers : At(p, "pushed") => known
  /\ \A p \in Pushers : At(p, "push") => known \/ pusher[p].sink = current
  /\ \A w \in Waiters : waiter[w] \in {"look", "asleep", "last"} => known \/ w \in callers
UntilEvicted == evictions = 0 => NothingForgotten

IInv == TypeOK /\ SinksAreRight /\ UntilEvicted

\* The states of a Sink object.
SinkStates == [rank : 0..Chunks, wrong : BOOLEAN]

\* What SinkPush does once the row is known.
SinkTakes(p, row) ==
  /\ wrongs' = IF row \in Rows(pusher[p].sink) THEN wrongs ELSE wrongs + 1
  /\ sink' = [sink EXCEPT ![pusher[p].sink] = Verified(row)]
  /\ IF Verified(row).rank = Chunks
     THEN file' = "empty" /\ PusherAt(p, "write", pusher[p].sink)
     ELSE UNCHANGED file /\ PusherAt(p, "idle", NoSink)

LEMMA FreshSinkTyped == FreshSink \in SinkStates
BY StoreAssumption DEF FreshSink, SinkStates

\* A combination adds at most one row, and never one too many.
LEMMA RowTyped ==
  ASSUME NEW s \in Sinks, sink[s] \in SinkStates,
         NEW row \in Rows(s) \cup WrongRows(s)
  PROVE  row \in SinkStates
<1>1. sink[s].rank \in 0..Chunks /\ sink[s].wrong \in BOOLEAN
  BY DEF SinkStates
<1>2. CASE row = sink[s]
  BY <1>2
<1>3. CASE sink[s].rank # Chunks /\ row = [sink[s] EXCEPT !.rank = @ + 1]
  BY <1>1, <1>3, StoreAssumption DEF SinkStates
<1>4. CASE sink[s].rank # Chunks /\ row = [rank |-> sink[s].rank + 1, wrong |-> TRUE]
  BY <1>1, <1>4, StoreAssumption DEF SinkStates
<1> QED
  BY <1>2, <1>3, <1>4 DEF Rows, WrongRows

LEMMA InitIInv == Init => IInv
<1> SUFFICES ASSUME Init PROVE IInv
  OBVIOUS
<1>1. TypeOK
  <2>1. sink \in [Sinks -> SinkStates]
    BY FreshSinkTyped DEF Init
  <2>2. wrongs \in 0..MaxWrong /\ evictions \in 0..MaxEvictions
    BY StoreAssumption DEF Init
  <2>3. pusher \in [Pushers -> [at : {"idle", "forget", "push", "write", "orphan",
                                     "dumped", "pushed"}, sink : Sinks \cup {NoSink}]]
    BY DEF Init
  <2> QED
    BY <2>1, <2>2, <2>3 DEF Init, TypeOK, Files, SinkStates
<1>2. SinksAreRight
  BY StoreAssumption DEF Init, SinksAreRight, FreshSink
<1>3. UntilEvicted
  BY DEF Init, UntilEvicted, NothingForgotten, At
<1> QED
  BY <1>1, <1>2, <1>3 DEF IInv

LEMMA NextTyped ==
  TypeOK /\ SinksAreRight /\ [Next]_vars => TypeOK'
<1> SUFFICES ASSUME TypeOK, SinksAreRight, [Next]_vars PROVE TypeOK'
  OBVIOUS
<1>1. ASSUME NEW p \in Pushers, PushKnown(p) PROVE TypeOK'
  BY <1>1 DEF PushKnown, PusherAt, storeVars, TypeOK, Files
<1>2. ASSUME NEW p \in Pushers, PushStale(p) PROVE TypeOK'
  BY <1>2 DEF PushStale, PusherAt, storeVars, TypeOK, Files
<1>3. ASSUME NEW p \in Pushers, TakeSink(p) PROVE TypeOK'
  <2>1. pusher[p].at \in {"idle", "forget"} /\ known' \in BOOLEAN
    BY <1>3 DEF TakeSink, TypeOK
  <2>2. CASE current # NoSink
    BY <1>3, <2>1, <2>2 DEF TakeSink, PusherAt, TypeOK
  <2>3. CASE current = NoSink
    <3>1. PICK s \in Sinks \ Referenced :
            /\ current' = s /\ PusherAt(p, "push", s)
            /\ sink' = [sink EXCEPT ![s] = FreshSink]
      BY <1>3, <2>3 DEF TakeSink
    <3>2. sink' \in [Sinks -> SinkStates]
      BY <3>1, FreshSinkTyped DEF TypeOK, SinkStates
    <3> QED
      BY <1>3, <2>1, <3>1, <3>2 DEF TakeSink, PusherAt, TypeOK, SinkStates
  <2> QED
    BY <2>2, <2>3
<1>4. ASSUME NEW p \in Pushers, SinkPush(p) PROVE TypeOK'
  <2> DEFINE s == pusher[p].sink
  <2>1. s \in Sinks /\ sink[s] \in SinkStates
    BY <1>4 DEF SinkPush, TypeOK, SinksAreRight, SinkStates
  <2>2. PICK row \in Rows(s) \cup WrongRows(s) : SinkTakes(p, row)
    BY <1>4 DEF SinkPush, SinkTakes
  <2>3. row \in SinkStates
    BY <2>1, <2>2, RowTyped
  <2>4. sink' \in [Sinks -> SinkStates]
    BY <2>1, <2>2, <2>3, FreshSinkTyped DEF SinkTakes, Verified, TypeOK, SinkStates
  <2>5. wrongs' \in 0..MaxWrong
    BY <2>2, StoreAssumption DEF SinkTakes, WrongRows, TypeOK
  <2>6. file' \in Files
    BY <2>2 DEF SinkTakes, TypeOK, Files
  <2>7. pusher' = [pusher EXCEPT ![p] = [at |-> "write", sink |-> s]]
          \/ pusher' = [pusher EXCEPT ![p] = [at |-> "idle", sink |-> NoSink]]
    BY <2>2 DEF SinkTakes, PusherAt
  <2>8. pusher' \in [Pushers -> [at : {"idle", "forget", "push", "write", "orphan",
                                     "dumped", "pushed"}, sink : Sinks \cup {NoSink}]]
    BY <2>1, <2>7 DEF TypeOK
  <2> QED
    BY <1>4, <2>4, <2>5, <2>6, <2>8 DEF SinkPush, TypeOK, SinkStates
<1>5. ASSUME NEW p \in Pushers, Dump(p) PROVE TypeOK'
  BY <1>5 DEF Dump, PusherAt, Closed, TypeOK, Files
<1>6. ASSUME NEW p \in Pushers, NotifyBlock(p) PROVE TypeOK'
  BY <1>6 DEF NotifyBlock, PusherAt, NotifyAll, TypeOK, Files
<1>7. ASSUME NEW p \in Pushers, Unregister(p) PROVE TypeOK'
  BY <1>7 DEF Unregister, PusherAt, storeVars, TypeOK, Files
<1>8. ASSUME NEW w \in Waiters, WaitKnown(w) PROVE TypeOK'
  BY <1>8 DEF WaitKnown, WaiterAt, storeVars, hasBlock, stale, TypeOK, Files
<1>9. ASSUME NEW w \in Waiters, WaitStale(w) PROVE TypeOK'
  BY <1>9 DEF WaitStale, WaiterAt, storeVars, hasBlock, stale, TypeOK, Files
<1>10. ASSUME NEW w \in Waiters, WaitMissing(w) PROVE TypeOK'
  BY <1>10 DEF WaitMissing, WaiterAt, TypeOK, Files
<1>11. ASSUME NEW w \in Waiters, StartCalling(w) PROVE TypeOK'
  BY <1>11 DEF StartCalling, WaiterAt, storeVars, TypeOK, Files
<1>12. ASSUME NEW w \in Waiters, Look(w) PROVE TypeOK'
  BY <1>12 DEF Look, WaiterAt, hasBlock, stale, TypeOK, Files
<1>13. ASSUME NEW w \in Waiters, Forget(w) PROVE TypeOK'
  BY <1>13 DEF Forget, WaiterAt, TypeOK, Files
<1>14. ASSUME NEW w \in Waiters, StopCalling(w) PROVE TypeOK'
  BY <1>14 DEF StopCalling, WaiterAt, storeVars, TypeOK, Files
<1>15. ASSUME NEW w \in Waiters, Open(w) PROVE TypeOK'
  BY <1>15 DEF Open, WaiterAt, hasBlock, stale, TypeOK, Files
<1>16. ASSUME NEW w \in Waiters, Throw(w) PROVE TypeOK'
  BY <1>16 DEF Throw, WaiterAt, storeVars, TypeOK, Files
<1>17. ASSUME NEW w \in Waiters, Timeout(w) PROVE TypeOK'
  BY <1>17 DEF Timeout, WaiterAt, storeVars, TypeOK, Files
<1>18. CASE Pull
  BY <1>18 DEF Pull, hasBlock, TypeOK, Files
<1>19. CASE Evict
  <2>1. pusher' \in [Pushers -> [at : {"idle", "forget", "push", "write", "orphan",
                                     "dumped", "pushed"}, sink : Sinks \cup {NoSink}]]
    BY <1>19 DEF Evict, TypeOK
  <2>2. evictions' \in 0..MaxEvictions
    BY <1>19, StoreAssumption DEF Evict, TypeOK
  <2> QED
    BY <1>19, <2>1, <2>2 DEF Evict, TypeOK, Files
<1>20. CASE NotifyErasure
  BY <1>20 DEF NotifyErasure, TypeOK, Files
<1>21. CASE UNCHANGED vars
  BY <1>21 DEF vars, TypeOK, Files
<1> QED
  BY <1>1, <1>2, <1>3, <1>4, <1>5, <1>6, <1>7, <1>8, <1>9, <1>10,
     <1>11, <1>12, <1>13, <1>14, <1>15, <1>16, <1>17, <1>18, <1>19, <1>20,
     <1>21
     DEF Next, Push, PushStep, WaitStep

LEMMA NextRight ==
  TypeOK /\ SinksAreRight /\ [Next]_vars => SinksAreRight'
<1> SUFFICES ASSUME TypeOK, SinksAreRight, [Next]_vars PROVE SinksAreRight'
  OBVIOUS
<1>1. ASSUME NEW p \in Pushers, PushKnown(p) PROVE SinksAreRight'
  BY <1>1 DEF PushKnown, PusherAt, storeVars, SinksAreRight, TypeOK
<1>2. ASSUME NEW p \in Pushers, PushStale(p) PROVE SinksAreRight'
  BY <1>2 DEF PushStale, PusherAt, storeVars, SinksAreRight, TypeOK
<1>3. ASSUME NEW p \in Pushers, TakeSink(p) PROVE SinksAreRight'
  <2>1. pusher[p].at \in {"idle", "forget"} /\ file' = file /\ pulled' = pulled
    BY <1>3 DEF TakeSink
  <2>2. CASE current # NoSink
    BY <1>3, <2>1, <2>2, SMTT(20) DEF TakeSink, PusherAt, SinksAreRight, TypeOK
  <2>3. CASE current = NoSink
    <3>1. PICK s \in Sinks \ Referenced :
            /\ current' = s /\ PusherAt(p, "push", s)
            /\ sink' = [sink EXCEPT ![s] = FreshSink]
      BY <1>3, <2>3 DEF TakeSink
    <3>2. \A q \in Pushers : pusher[q].sink # s
      BY <3>1 DEF Referenced
    <3>3. FreshSink.rank # Chunks
      BY StoreAssumption DEF FreshSink
    <3> QED
      BY <2>1, <3>1, <3>2, <3>3 DEF PusherAt, SinksAreRight, TypeOK
  <2> QED
    BY <2>2, <2>3
<1>4. ASSUME NEW p \in Pushers, SinkPush(p) PROVE SinksAreRight'
  <2> DEFINE s == pusher[p].sink
  <2>1. s \in Sinks /\ sink[s] \in SinkStates
    BY <1>4 DEF SinkPush, TypeOK, SinksAreRight, SinkStates
  <2>2. PICK row \in Rows(s) \cup WrongRows(s) : SinkTakes(p, row)
    BY <1>4 DEF SinkPush, SinkTakes
  <2>3. sink' = [sink EXCEPT ![s] = Verified(row)] /\ pulled' = pulled
    BY <1>4, <2>2 DEF SinkPush, SinkTakes
  <2>4. Verified(row).rank = Chunks => ~Verified(row).wrong
    BY StoreAssumption DEF Verified, FreshSink
  <2>5. sink[s].rank = Chunks => Verified(row).rank = Chunks
    BY <2>1, <2>2 DEF Rows, WrongRows, Verified, SinksAreRight
  <2>6. \/ /\ Verified(row).rank = Chunks /\ file' = "empty"
           /\ pusher' = [pusher EXCEPT ![p] = [at |-> "write", sink |-> s]]
        \/ /\ file' = file
           /\ pusher' = [pusher EXCEPT ![p] = [at |-> "idle", sink |-> NoSink]]
    BY <2>2 DEF SinkTakes, PusherAt
  <2>7. \A t \in Sinks : sink[t].rank = Chunks => sink'[t].rank = Chunks
    BY <2>1, <2>3, <2>5 DEF TypeOK
  <2>10. \A t \in Sinks : sink'[t].rank = Chunks => ~sink'[t].wrong
    BY <2>1, <2>3, <2>4 DEF SinksAreRight, TypeOK
  <2>8. \A q \in Pushers : pusher'[q].at \in {"write", "orphan"} =>
          pusher'[q].sink \in Sinks /\ sink'[pusher'[q].sink].rank = Chunks
    <3> SUFFICES ASSUME NEW q \in Pushers, pusher'[q].at \in {"write", "orphan"}
                 PROVE  pusher'[q].sink \in Sinks /\ sink'[pusher'[q].sink].rank = Chunks
      OBVIOUS
    <3>1. CASE q # p
      <4>1. pusher'[q] = pusher[q]
        BY <2>6, <3>1 DEF TypeOK
      <4> QED
        BY <2>7, <4>1 DEF SinksAreRight
    <3>2. CASE q = p
      <4>1. pusher'[p].sink = s /\ Verified(row).rank = Chunks
        BY <2>6, <3>2 DEF TypeOK
      <4> QED
        BY <2>1, <2>3, <3>2, <4>1 DEF TypeOK
    <3> QED
      BY <3>1, <3>2
  <2>9. /\ \A q \in Pushers : pusher'[q].at \in {"push", "dumped"} => pusher'[q].sink \in Sinks
        /\ file' # "wrong" /\ pulled' # "wrong"
    BY <2>3, <2>6 DEF SinksAreRight, TypeOK
  <2> QED
    BY <2>8, <2>9, <2>10, Zenon DEF SinksAreRight
<1>5. ASSUME NEW p \in Pushers, Dump(p) PROVE SinksAreRight'
  BY <1>5 DEF Dump, PusherAt, Closed, SinksAreRight, TypeOK
<1>6. ASSUME NEW p \in Pushers, NotifyBlock(p) PROVE SinksAreRight'
  BY <1>6 DEF NotifyBlock, PusherAt, NotifyAll, SinksAreRight, TypeOK
<1>7. ASSUME NEW p \in Pushers, Unregister(p) PROVE SinksAreRight'
  BY <1>7 DEF Unregister, PusherAt, storeVars, SinksAreRight, TypeOK
<1>8. ASSUME NEW w \in Waiters, WaitKnown(w) PROVE SinksAreRight'
  BY <1>8 DEF WaitKnown, WaiterAt, storeVars, hasBlock, stale, SinksAreRight, TypeOK
<1>9. ASSUME NEW w \in Waiters, WaitStale(w) PROVE SinksAreRight'
  BY <1>9 DEF WaitStale, WaiterAt, storeVars, hasBlock, stale, SinksAreRight, TypeOK
<1>10. ASSUME NEW w \in Waiters, WaitMissing(w) PROVE SinksAreRight'
  BY <1>10 DEF WaitMissing, WaiterAt, SinksAreRight, TypeOK
<1>11. ASSUME NEW w \in Waiters, StartCalling(w) PROVE SinksAreRight'
  BY <1>11 DEF StartCalling, WaiterAt, storeVars, SinksAreRight, TypeOK
<1>12. ASSUME NEW w \in Waiters, Look(w) PROVE SinksAreRight'
  BY <1>12 DEF Look, WaiterAt, hasBlock, stale, SinksAreRight, TypeOK
<1>13. ASSUME NEW w \in Waiters, Forget(w) PROVE SinksAreRight'
  BY <1>13 DEF Forget, WaiterAt, SinksAreRight, TypeOK
<1>14. ASSUME NEW w \in Waiters, StopCalling(w) PROVE SinksAreRight'
  BY <1>14 DEF StopCalling, WaiterAt, storeVars, SinksAreRight, TypeOK
<1>15. ASSUME NEW w \in Waiters, Open(w) PROVE SinksAreRight'
  BY <1>15 DEF Open, WaiterAt, hasBlock, stale, SinksAreRight, TypeOK
<1>16. ASSUME NEW w \in Waiters, Throw(w) PROVE SinksAreRight'
  BY <1>16 DEF Throw, WaiterAt, storeVars, SinksAreRight, TypeOK
<1>17. ASSUME NEW w \in Waiters, Timeout(w) PROVE SinksAreRight'
  BY <1>17 DEF Timeout, WaiterAt, storeVars, SinksAreRight, TypeOK
<1>18. CASE Pull
  BY <1>18 DEF Pull, hasBlock, SinksAreRight, TypeOK
<1>19. CASE Evict
  BY <1>19 DEF Evict, SinksAreRight, TypeOK
<1>20. CASE NotifyErasure
  BY <1>20 DEF NotifyErasure, SinksAreRight, TypeOK
<1>21. CASE UNCHANGED vars
  BY <1>21 DEF vars, SinksAreRight, TypeOK
<1> QED
  BY <1>1, <1>2, <1>3, <1>4, <1>5, <1>6, <1>7, <1>8, <1>9, <1>10,
     <1>11, <1>12, <1>13, <1>14, <1>15, <1>16, <1>17, <1>18, <1>19, <1>20,
     <1>21
     DEF Next, Push, PushStep, WaitStep

LEMMA NextKept ==
  TypeOK /\ SinksAreRight /\ UntilEvicted /\ [Next]_vars => UntilEvicted'
<1> SUFFICES ASSUME TypeOK, SinksAreRight, UntilEvicted, [Next]_vars PROVE UntilEvicted'
  OBVIOUS
<1>1. ASSUME NEW p \in Pushers, PushKnown(p) PROVE UntilEvicted'
  <2> SUFFICES ASSUME evictions = 0, NothingForgotten PROVE NothingForgotten'
    BY <1>1 DEF PushKnown, UntilEvicted
  <2>1. \A q \in Pushers : q # p => pusher'[q] = pusher[q]
    BY <1>1 DEF PushKnown, PusherAt, TypeOK
  <2>2. pusher'[p].at = "pushed" /\ known
    BY <1>1 DEF PushKnown, PusherAt, TypeOK, hasBlock
  <2> QED
    BY <1>1, <2>1, <2>2 DEF PushKnown, storeVars, NothingForgotten, At
<1>2. ASSUME NEW p \in Pushers, PushStale(p) PROVE UntilEvicted'
  <2> SUFFICES ASSUME evictions = 0, NothingForgotten PROVE FALSE
    BY <1>2 DEF PushStale, UntilEvicted
  <2> QED
    BY <1>2 DEF PushStale, stale, NothingForgotten, At
<1>3. ASSUME NEW p \in Pushers, TakeSink(p) PROVE UntilEvicted'
  <2> SUFFICES ASSUME evictions = 0, NothingForgotten PROVE NothingForgotten'
    BY <1>3 DEF TakeSink, UntilEvicted
  <2>1. \A q \in Pushers : q # p => pusher'[q] = pusher[q]
    BY <1>3 DEF TakeSink, PusherAt, TypeOK
  <2>2. /\ pusher'[p].at = "push" /\ pusher'[p].sink = current'
        /\ ~known /\ known' = known
    BY <1>3 DEF TakeSink, PusherAt, TypeOK, NothingForgotten
  <2>3. \A q \in Pushers : At(q, "push") => current' = current
    <3> SUFFICES ASSUME NEW q \in Pushers, At(q, "push") PROVE current' = current
      OBVIOUS
    <3>1. current = pusher[q].sink /\ pusher[q].sink \in Sinks
      BY <2>2 DEF NothingForgotten, SinksAreRight, At
    <3> QED
      BY <1>3, <3>1, StoreAssumption DEF TakeSink
  <2> QED
    BY <1>3, <2>1, <2>2, <2>3 DEF TakeSink, NothingForgotten, At
<1>4. ASSUME NEW p \in Pushers, SinkPush(p) PROVE UntilEvicted'
  <2> SUFFICES ASSUME evictions = 0, NothingForgotten PROVE NothingForgotten'
    BY <1>4 DEF SinkPush, UntilEvicted
  <2>1. \A q \in Pushers : q # p => pusher'[q] = pusher[q]
    BY <1>4 DEF SinkPush, PusherAt, TypeOK
  <2>2. pusher[p].at = "push"
    BY <1>4 DEF SinkPush
  <2>3. \/ pusher'[p].at = "write" /\ file' = "empty"
        \/ pusher'[p].at = "idle" /\ file' = file
    BY <1>4 DEF SinkPush, PusherAt, TypeOK
  <2> QED
    BY <1>4, <2>1, <2>2, <2>3 DEF SinkPush, NothingForgotten, At
<1>5. ASSUME NEW p \in Pushers, Dump(p) PROVE UntilEvicted'
  <2> SUFFICES ASSUME evictions = 0, NothingForgotten PROVE NothingForgotten'
    BY <1>5 DEF Dump, UntilEvicted
  <2>1. \A q \in Pushers : q # p => pusher'[q] = pusher[q]
    BY <1>5 DEF Dump, PusherAt, TypeOK
  <2>2. pusher[p].at = "write" /\ pusher'[p].at = "dumped"
    BY <1>5 DEF Dump, PusherAt, TypeOK, NothingForgotten
  <2>3. file' = IF \E q \in Pushers \ {p} : At(q, "write") THEN "empty" ELSE "whole"
    BY <1>5, <2>2 DEF Dump, Closed, At, SinksAreRight
  <2> QED
    BY <1>5, <2>1, <2>2, <2>3 DEF Dump, NothingForgotten, At
<1>6. ASSUME NEW p \in Pushers, NotifyBlock(p) PROVE UntilEvicted'
  BY <1>6 DEF NotifyBlock, PusherAt, NotifyAll, UntilEvicted, NothingForgotten, TypeOK, Files, At
<1>7. ASSUME NEW p \in Pushers, Unregister(p) PROVE UntilEvicted'
  BY <1>7 DEF Unregister, PusherAt, storeVars, UntilEvicted, NothingForgotten, TypeOK, Files, At
<1>8. ASSUME NEW w \in Waiters, WaitKnown(w) PROVE UntilEvicted'
  BY <1>8 DEF WaitKnown, WaiterAt, storeVars, hasBlock, stale, UntilEvicted, NothingForgotten, TypeOK, Files, At
<1>9. ASSUME NEW w \in Waiters, WaitStale(w) PROVE UntilEvicted'
  BY <1>9 DEF WaitStale, WaiterAt, storeVars, hasBlock, stale, UntilEvicted, NothingForgotten, TypeOK, Files, At
<1>10. ASSUME NEW w \in Waiters, WaitMissing(w) PROVE UntilEvicted'
  BY <1>10 DEF WaitMissing, WaiterAt, UntilEvicted, NothingForgotten, TypeOK, Files, At
<1>11. ASSUME NEW w \in Waiters, StartCalling(w) PROVE UntilEvicted'
  BY <1>11 DEF StartCalling, WaiterAt, storeVars, UntilEvicted, NothingForgotten, TypeOK, Files, At
<1>12. ASSUME NEW w \in Waiters, Look(w) PROVE UntilEvicted'
  BY <1>12 DEF Look, WaiterAt, hasBlock, stale, UntilEvicted, NothingForgotten, TypeOK, Files, At
<1>13. ASSUME NEW w \in Waiters, Forget(w) PROVE UntilEvicted'
  BY <1>13 DEF Forget, WaiterAt, UntilEvicted, NothingForgotten, TypeOK, Files, At
<1>14. ASSUME NEW w \in Waiters, StopCalling(w) PROVE UntilEvicted'
  BY <1>14 DEF StopCalling, WaiterAt, storeVars, UntilEvicted, NothingForgotten, TypeOK, Files, At
<1>15. ASSUME NEW w \in Waiters, Open(w) PROVE UntilEvicted'
  BY <1>15 DEF Open, WaiterAt, hasBlock, stale, UntilEvicted, NothingForgotten, TypeOK, Files, At
<1>16. ASSUME NEW w \in Waiters, Throw(w) PROVE UntilEvicted'
  BY <1>16 DEF Throw, WaiterAt, storeVars, UntilEvicted, NothingForgotten, TypeOK, Files, At
<1>17. ASSUME NEW w \in Waiters, Timeout(w) PROVE UntilEvicted'
  BY <1>17 DEF Timeout, WaiterAt, storeVars, UntilEvicted, NothingForgotten, TypeOK, Files, At
<1>18. CASE Pull
  BY <1>18 DEF Pull, hasBlock, UntilEvicted, NothingForgotten, TypeOK, Files, At
<1>19. CASE Evict
  BY <1>19 DEF Evict, UntilEvicted, NothingForgotten, TypeOK, Files, At
<1>20. CASE NotifyErasure
  BY <1>20 DEF NotifyErasure, UntilEvicted, NothingForgotten, TypeOK, Files, At
<1>21. CASE UNCHANGED vars
  BY <1>21 DEF vars, UntilEvicted, NothingForgotten, TypeOK, Files, At
<1> QED
  BY <1>1, <1>2, <1>3, <1>4, <1>5, <1>6, <1>7, <1>8, <1>9, <1>10,
     <1>11, <1>12, <1>13, <1>14, <1>15, <1>16, <1>17, <1>18, <1>19, <1>20,
     <1>21
     DEF Next, Push, PushStep, WaitStep

LEMMA Invariant == Spec => []IInv
<1>1. IInv /\ [Next]_vars => IInv'
  BY NextTyped, NextRight, NextKept DEF IInv
<1> QED
  BY InitIInv, <1>1, PTL DEF Spec

\* The states of the store keep their types: no sink has more rows than the
\* block has chunks, whatever arrives.
THEOREM StoreTyped == Spec => []TypeOK
BY Invariant, PTL DEF IInv

\* The file of a block never has, nor does a pull ever read, a content with
\* another digest, for any number of threads, wrong combinations and evictions
\* (store.cpp:483-500): whoever dumps a sink dumps one whose digest was
\* compared, and which no thread resets while it is referred to.
THEOREM FileAlwaysRight == Spec => []FileIsRight
<1>1. IInv => FileIsRight
  BY DEF IInv, SinksAreRight, FileIsRight
<1> QED
  BY Invariant, <1>1, PTL

\* A block is in the table only when its file is written, until the cache
\* removes it or a late thread writes it again (store.cpp:92-98).
THEOREM KnownAlwaysWritten == Spec => []KnownIsWritten
<1>1. IInv => KnownIsWritten
  BY DEF IInv, UntilEvicted, NothingForgotten, KnownIsWritten, At
<1> QED
  BY Invariant, <1>1, PTL

\* All threads that add to a missing block add to the one sink in the map,
\* however many threads push (store.cpp:78-88).
THEOREM OneSinkOnly == Spec => []OneSink
<1>1. IInv => OneSink
  BY DEF IInv, UntilEvicted, NothingForgotten, OneSink, At
<1> QED
  BY Invariant, <1>1, PTL

\* Who sleeps for a missing block calls it: the callers are only taken off
\* the list once the block is there (network.cpp:447, 2145).
THEOREM AlwaysCalled == Spec => []CalledWhileMissing
<1>1. IInv => CalledWhileMissing
  BY DEF IInv, UntilEvicted, NothingForgotten, CalledWhileMissing
<1> QED
  BY Invariant, <1>1, PTL

-----------------------------------------------------------------------------
(* Waking up.                                                              *)

\* Nobody sleeps in waitBlock for a block that has a row in the table.
SleepsWhileUnknown == \A w \in Waiters : waiter[w] = "asleep" => ~known

\* A row is written by notifyBlock alone, which wakes all.
LEMMA OnlyNotifyWrites ==
  ASSUME [Next]_vars, ~known, known'
  PROVE  \E p \in Pushers : NotifyBlock(p)
<1>1. CASE UNCHANGED vars
  BY <1>1 DEF vars
<1>2. CASE \E p \in Pushers : Push(p)
  BY <1>2 DEF Push, PushKnown, PushStale, TakeSink, storeVars, hasBlock
<1>3. CASE \E p \in Pushers : PushStep(p)
  BY <1>3 DEF PushStep, SinkPush, Dump, Unregister, storeVars
<1>4. CASE \E w \in Waiters : WaitKnown(w) \/ WaitStale(w) \/ WaitMissing(w) \/ Timeout(w)
  BY <1>4 DEF WaitKnown, WaitStale, WaitMissing, Timeout, storeVars
<1>5. CASE \E w \in Waiters : WaitStep(w)
  BY <1>5 DEF WaitStep, StartCalling, Look, Forget, StopCalling, Open, Throw, storeVars,
     hasBlock, stale
<1>6. CASE Pull \/ Evict \/ NotifyErasure
  BY <1>6 DEF Pull, Evict, NotifyErasure, hasBlock
<1> QED
  BY <1>1, <1>2, <1>3, <1>4, <1>5, <1>6 DEF Next

\* A thread falls asleep when it has looked and found no row, or has erased it.
LEMMA FallsAsleepUnknown ==
  ASSUME TypeOK, [Next]_vars, NEW w \in Waiters, waiter[w] # "asleep", waiter'[w] = "asleep"
  PROVE  ~known'
<1>1. CASE UNCHANGED vars
  BY <1>1 DEF vars
<1>2. CASE \E p \in Pushers : Push(p) \/ PushStep(p)
  BY <1>2 DEF Push, PushKnown, PushStale, TakeSink, PushStep, SinkPush, Dump, NotifyBlock,
     NotifyAll, Unregister, storeVars
<1>3. CASE \E v \in Waiters : WaitKnown(v) \/ WaitStale(v) \/ WaitMissing(v) \/ Timeout(v)
  BY <1>3 DEF WaitKnown, WaitStale, WaitMissing, Timeout, WaiterAt, TypeOK
<1>4. ASSUME NEW v \in Waiters, WaitStep(v)
      PROVE  ~known'
  <2>1. CASE Look(v)
    BY <2>1 DEF Look, WaiterAt, TypeOK, hasBlock, stale
  <2>2. CASE Forget(v)
    BY <2>2 DEF Forget
  <2>3. CASE StartCalling(v) \/ StopCalling(v) \/ Open(v) \/ Throw(v)
    BY <2>3 DEF StartCalling, StopCalling, Open, Throw, WaiterAt, TypeOK
  <2> QED
    BY <1>4, <2>1, <2>2, <2>3 DEF WaitStep
<1>5. CASE Pull \/ Evict \/ NotifyErasure
  BY <1>5 DEF Pull, Evict, NotifyErasure
<1> QED
  BY <1>1, <1>2, <1>3, <1>4, <1>5 DEF Next

\* No wake-up is lost: however many threads push, look, time out, erase and
\* evict, nobody sleeps in waitBlock for a block that is in the table, since
\* push writes the row and notifies under the mutex under which the predicate
\* is evaluated (store.cpp:98, 169, 226), and what others do without the mutex
\* only takes the row away.  This is the part of WaiterIsServed that is a
\* safety property.
THEOREM NobodyOversleeps == Spec => []SleepsWhileUnknown
<1>1. Init => SleepsWhileUnknown
  BY DEF Init, SleepsWhileUnknown
<1>2. TypeOK /\ SleepsWhileUnknown /\ [Next]_vars => SleepsWhileUnknown'
  <2> SUFFICES ASSUME TypeOK, SleepsWhileUnknown, [Next]_vars,
                      NEW w \in Waiters, waiter'[w] = "asleep"
               PROVE  ~known'
    BY DEF SleepsWhileUnknown
  <2>1. CASE waiter[w] # "asleep"
    BY <2>1, FallsAsleepUnknown
  <2>2. CASE waiter[w] = "asleep"
    <3>1. ~known
      BY <2>2 DEF SleepsWhileUnknown
    <3>2. ~ \E p \in Pushers : NotifyBlock(p)
      BY DEF NotifyBlock, NotifyAll
    <3> QED
      BY <3>1, <3>2, OnlyNotifyWrites
  <2> QED
    BY <2>1, <2>2
<1> QED
  BY <1>1, <1>2, StoreTyped, PTL DEF Spec
=============================================================================
