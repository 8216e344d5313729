-------------------------------- MODULE Store --------------------------------
(***************************************************************************)
(* tpn/store.cpp, with what tpn/network.cpp and tpn/cache.cpp do to it:    *)
(* the life of one block, from the combinations that arrive for it to the  *)
(* threads that wait for it, read it, and remove it from the cache.        *)
(*                                                                         *)
(* Every reader thread of a link pushes combinations; the sink of a block  *)
(* is shared, and a thread keeps its reference after the sink has left the *)
(* map.  Two mutexes matter: Store::mMutex ("the mutex"), and one in every *)
(* Store::Sink, held while the file is written.  The database is shared    *)
(* by all threads without either.  Only the blocks whose file lies in the  *)
(* cache are modelled; the decoding itself is module Sink, and here a      *)
(* sink is its rank and whether a wrong combination is among its rows.     *)
(***************************************************************************)
EXTENDS Naturals, FiniteSets

CONSTANTS Pushers,      \* threads that receive combinations
          Waiters,      \* threads in Store::waitBlock
          Sinks,        \* the Store::Sink objects, used again once nobody refers to them
          NoSink,
          Chunks,       \* the rank of the block
          MaxWrong,     \* bound: wrong combinations received
          MaxEvictions  \* bound: removals of the file by Cache::freeSpace

ASSUME StoreAssumption ==
  /\ Chunks \in Nat \ {0} /\ MaxWrong \in Nat /\ MaxEvictions \in Nat
  /\ NoSink \notin Sinks

VARIABLES
  known,        \* is there a row for the block in the table "blocks"?
  file,         \* the file of the block on disk
  current,      \* the entry of mSinks
  sink,         \* the state of each Sink object
  pusher,       \* where each pushing thread is, and the sink it refers to
  waiter,       \* where each waiting thread is
  callers,      \* Network::mCallers: who asks the network for the block
  evictor,      \* where Cache::freeSpace is
  pulled,       \* what the last Store::pull read from the file
  wrongs, evictions

vars == <<known, file, current, sink, pusher, waiter, callers, evictor,
          pulled, wrongs, evictions>>
storeVars == <<known, file, current, sink>>

\* "empty": opened by File::Write, which truncates it, and not yet closed.
Files == {"absent", "empty", "whole", "wrong"}
FreshSink == [rank |-> 0, wrong |-> FALSE]

\* Who holds Store::mMutex from one step to the next: a thread that found the
\* file gone while it held it.
Locked == \/ \E p \in Pushers : pusher[p].at = "forget"
          \/ \E w \in Waiters : waiter[w] = "forget"
\* Who holds the mutex of a Sink: the thread that writes its file.
Writing(s) == \E p \in Pushers : pusher[p].at \in {"write", "orphan"} /\ pusher[p].sink = s

PusherAt(p, at, s) == pusher' = [pusher EXCEPT ![p] = [at |-> at, sink |-> s]]
WaiterAt(w, at) == waiter' = [waiter EXCEPT ![w] = at]
Referenced == {pusher[p].sink : p \in Pushers}
hasBlock == known /\ file # "absent"
stale == known /\ file = "absent"

Init ==
  /\ known = FALSE /\ file = "absent" /\ current = NoSink
  /\ sink = [s \in Sinks |-> FreshSink]
  /\ pusher = [p \in Pushers |-> [at |-> "idle", sink |-> NoSink]]
  /\ waiter = [w \in Waiters |-> "idle"]
  /\ callers = {}
  /\ evictor = "idle" /\ pulled = "nothing"
  /\ wrongs = 0 /\ evictions = 0

-----------------------------------------------------------------------------
\* Store::push, under the mutex: the block is there already ...
PushKnown(p) ==
  /\ pusher[p].at = "idle" /\ ~Locked /\ hasBlock
  /\ PusherAt(p, "pushed", NoSink)
  /\ UNCHANGED <<storeVars, waiter, callers, evictor, pulled, wrongs, evictions>>

\* ... or its file is gone, and notifyFileErasure forgets the row ...
PushStale(p) ==
  /\ pusher[p].at = "idle" /\ ~Locked /\ stale
  /\ PusherAt(p, "forget", NoSink)
  /\ UNCHANGED <<storeVars, waiter, callers, evictor, pulled, wrongs, evictions>>

\* MUTANT of TakeSink: the new sink is not put in the map.
TakeOwnSink(p) ==
  /\ \/ pusher[p].at = "idle" /\ ~Locked /\ ~known /\ UNCHANGED known
     \/ pusher[p].at = "forget" /\ known' = FALSE
  /\ \E s \in Sinks \ Referenced :
       PusherAt(p, "push", s) /\ sink' = [sink EXCEPT ![s] = FreshSink]
  /\ UNCHANGED <<file, current, waiter, callers, evictor, pulled, wrongs, evictions>>

\* ... and the sink of the block is taken, or created.
TakeSink(p) ==
  /\ \/ pusher[p].at = "idle" /\ ~Locked /\ ~known /\ UNCHANGED known
     \/ pusher[p].at = "forget" /\ known' = FALSE
  /\ IF current # NoSink
     THEN PusherAt(p, "push", current) /\ UNCHANGED <<current, sink>>
     ELSE \E s \in Sinks \ Referenced :
            /\ current' = s /\ PusherAt(p, "push", s)
            /\ sink' = [sink EXCEPT ![s] = FreshSink]
  /\ UNCHANGED <<file, waiter, callers, evictor, pulled, wrongs, evictions>>

\* The content of the file once a thread has closed it: one that was unlinked
\* meanwhile is nobody's, and a second thread may have truncated it again.
Closed(p, s) ==
  IF pusher[p].at = "orphan" THEN file
  ELSE IF \E q \in Pushers \ {p} : pusher[q].at = "write" THEN "empty"
  ELSE IF sink[s].wrong THEN "wrong" ELSE "whole"

\* MUTANT of Rows: a decoded sink goes on counting.
RowsBeyond(s) == {sink[s], [sink[s] EXCEPT !.rank = @ + 1]}

\* Sink::push, under the mutex of the sink.  A combination adds a row or does
\* not; a decoded sink takes nothing more.
Rows(s) == IF sink[s].rank = Chunks THEN {sink[s]}
           ELSE {sink[s], [sink[s] EXCEPT !.rank = @ + 1]}
WrongRows(s) == IF sink[s].rank = Chunks \/ wrongs = MaxWrong THEN {}
                ELSE {[rank |-> sink[s].rank + 1, wrong |-> TRUE]}

\* MUTANT of Verified: the digest is logged and not compared.
Unverified(row) == row

\* The digest of a decoded sink is compared: a wrong sink is cleared.
Verified(row) == IF row.rank = Chunks /\ row.wrong THEN FreshSink ELSE row

SinkPush(p) ==
  LET s == pusher[p].sink
  IN /\ pusher[p].at = "push" /\ ~Writing(s)
     /\ \E row \in Rows(s) \cup WrongRows(s) :
          /\ wrongs' = IF row \in Rows(s) THEN wrongs ELSE wrongs + 1
          /\ sink' = [sink EXCEPT ![s] = Verified(row)]
          /\ IF Verified(row).rank = Chunks
             THEN file' = "empty" /\ PusherAt(p, "write", s)
             ELSE UNCHANGED file /\ PusherAt(p, "idle", NoSink)
  /\ UNCHANGED <<known, current, waiter, callers, evictor, pulled, evictions>>

\* The decoded block was dumped and the file closed: the sink is unlocked.
Dump(p) ==
  /\ pusher[p].at \in {"write", "orphan"}
  /\ file' = Closed(p, pusher[p].sink)
  /\ PusherAt(p, "dumped", pusher[p].sink)
  /\ UNCHANGED <<known, current, sink, waiter, callers, evictor, pulled, wrongs, evictions>>

\* MUTANT of NotifyAll: the condition variable is not notified.
NotifyNobody == UNCHANGED waiter

\* notify_all(): whoever waits looks at its predicate again.
NotifyAll == waiter' = [w \in Waiters |->
                          IF waiter[w] = "asleep" THEN "look" ELSE waiter[w]]

\* MUTANT of NotifyBlock: the file need not be closed.
NotifyUnclosed(p) ==
  /\ pusher[p].at \in {"write", "dumped"} /\ ~Locked
  /\ current' = NoSink
  /\ known' = TRUE
  /\ NotifyAll
  /\ PusherAt(p, "pushed", NoSink)
  /\ UNCHANGED <<file, sink, callers, evictor, pulled, wrongs, evictions>>

\* "Block is decoded": the sink leaves the map by the digest, whichever it is,
\* and notifyBlock writes the row.  path() and size() lock the sink.
NotifyBlock(p) ==
  /\ pusher[p].at = "dumped" /\ ~Locked /\ ~Writing(pusher[p].sink)
  /\ current' = NoSink
  /\ known' = TRUE
  /\ NotifyAll
  /\ PusherAt(p, "pushed", NoSink)
  /\ UNCHANGED <<file, sink, callers, evictor, pulled, wrongs, evictions>>

\* MUTANT of Unregister: whatever push() returned.
UnregisterAlways(p) ==
  /\ pusher[p].at \in {"push", "pushed"}
  /\ callers' = {}
  /\ IF pusher[p].at = "push" THEN UNCHANGED pusher ELSE PusherAt(p, "idle", NoSink)
  /\ UNCHANGED <<storeVars, waiter, evictor, pulled, wrongs, evictions>>

\* push() returned true: unregisterAllCallers.
Unregister(p) ==
  /\ pusher[p].at = "pushed"
  /\ callers' = {}
  /\ PusherAt(p, "idle", NoSink)
  /\ UNCHANGED <<storeVars, waiter, evictor, pulled, wrongs, evictions>>

-----------------------------------------------------------------------------
\* Store::waitBlock looks once without the mutex ...
WaitKnown(w) ==
  /\ waiter[w] = "idle" /\ hasBlock
  /\ WaiterAt(w, "found")
  /\ UNCHANGED <<storeVars, pusher, callers, evictor, pulled, wrongs, evictions>>

WaitStale(w) ==
  /\ waiter[w] = "idle" /\ stale
  /\ WaiterAt(w, "erase")
  /\ UNCHANGED <<storeVars, pusher, callers, evictor, pulled, wrongs, evictions>>

\* ... and then calls the block: Network::Caller.
WaitMissing(w) ==
  /\ \/ waiter[w] = "idle" /\ ~known /\ UNCHANGED known
     \/ waiter[w] = "erase" /\ known' = FALSE
  /\ WaiterAt(w, "call")
  /\ UNCHANGED <<file, current, sink, pusher, callers, evictor, pulled, wrongs, evictions>>

StartCalling(w) ==
  /\ waiter[w] = "call"
  /\ callers' = callers \cup {w}
  /\ WaiterAt(w, "look")
  /\ UNCHANGED <<storeVars, pusher, evictor, pulled, wrongs, evictions>>

\* The predicate of wait_for, under the mutex, also when the time is over.
Look(w) ==
  /\ waiter[w] \in {"look", "last"} /\ ~Locked
  /\ WaiterAt(w, IF hasBlock THEN "served"
                 ELSE IF stale /\ waiter[w] = "look" THEN "forget"
                 ELSE IF waiter[w] = "look" THEN "asleep" ELSE "late")
  /\ known' = (hasBlock \/ (stale /\ waiter[w] = "look"))
  /\ UNCHANGED <<file, current, sink, pusher, callers, evictor, pulled, wrongs, evictions>>

Forget(w) ==
  /\ waiter[w] = "forget"
  /\ known' = FALSE
  /\ WaiterAt(w, "asleep")
  /\ UNCHANGED <<file, current, sink, pusher, callers, evictor, pulled, wrongs, evictions>>

Timeout(w) ==
  /\ waiter[w] = "asleep"
  /\ WaiterAt(w, "last")
  /\ UNCHANGED <<storeVars, pusher, callers, evictor, pulled, wrongs, evictions>>

\* ~Caller.
StopCalling(w) ==
  /\ waiter[w] \in {"served", "late"}
  /\ callers' = callers \ {w}
  /\ WaiterAt(w, IF waiter[w] = "served" THEN "found" ELSE "idle")
  /\ UNCHANGED <<storeVars, pusher, evictor, pulled, wrongs, evictions>>

\* Block::waitContent opens the file of the block it waited for, with
\* getBlock, outside the mutex.
Open(w) ==
  /\ waiter[w] = "found"
  /\ WaiterAt(w, IF hasBlock THEN "idle" ELSE "failed")
  /\ known' = hasBlock
  /\ UNCHANGED <<file, current, sink, pusher, callers, evictor, pulled, wrongs, evictions>>

Throw(w) ==
  /\ waiter[w] = "failed"
  /\ WaiterAt(w, "idle")
  /\ UNCHANGED <<storeVars, pusher, callers, evictor, pulled, wrongs, evictions>>

-----------------------------------------------------------------------------
\* Store::pull, under the mutex, opens the file and generates a combination.
Pull ==
  /\ ~Locked /\ known
  /\ pulled' = CASE file = "absent" -> "nothing"
                 [] file = "empty"  -> "short"
                 [] OTHER           -> file
  /\ known' = hasBlock
  /\ UNCHANGED <<file, current, sink, pusher, waiter, callers, evictor, wrongs, evictions>>

\* Cache::freeSpace removes a file of the cache directory ...
Evict ==
  /\ evictor = "idle" /\ file # "absent" /\ evictions < MaxEvictions
  /\ file' = "absent"
  /\ pusher' = [p \in Pushers |->
       IF pusher[p].at = "write" THEN [pusher[p] EXCEPT !.at = "orphan"] ELSE pusher[p]]
  /\ evictor' = "removed" /\ evictions' = evictions + 1
  /\ UNCHANGED <<known, current, sink, waiter, callers, pulled, wrongs>>

\* ... and then tells the store.
NotifyErasure ==
  /\ evictor = "removed"
  /\ known' = FALSE /\ evictor' = "idle"
  /\ UNCHANGED <<file, current, sink, pusher, waiter, callers, pulled, wrongs, evictions>>

Push(p) == PushKnown(p) \/ PushStale(p) \/ TakeSink(p)
PushStep(p) == SinkPush(p) \/ Dump(p) \/ NotifyBlock(p) \/ Unregister(p)
WaitStep(w) == StartCalling(w) \/ Look(w) \/ Forget(w) \/ StopCalling(w) \/ Open(w) \/ Throw(w)

Next ==
  \/ \E p \in Pushers : Push(p) \/ PushStep(p)
  \/ \E w \in Waiters : \/ WaitKnown(w) \/ WaitStale(w) \/ WaitMissing(w)
                        \/ WaitStep(w) \/ Timeout(w)
  \/ Pull \/ Evict \/ NotifyErasure

Spec == Init /\ [][Next]_vars

\* Threads go on with what they started.  Nothing has to arrive, to be
\* waited for or to be evicted, and no timeout is needed.
FairSpec ==
  /\ Spec
  /\ \A p \in Pushers : WF_vars(PushStep(p) \/ (pusher[p].at = "forget" /\ TakeSink(p)))
  /\ \A w \in Waiters : WF_vars(WaitStep(w) \/ (waiter[w] = "erase" /\ WaitMissing(w)))
  /\ WF_vars(NotifyErasure)

-----------------------------------------------------------------------------
TypeOK ==
  /\ known \in BOOLEAN /\ file \in Files
  /\ current \in Sinks \cup {NoSink}
  /\ sink \in [Sinks -> [rank : 0..Chunks, wrong : BOOLEAN]]
  /\ pusher \in [Pushers -> [at : {"idle", "forget", "push", "write", "orphan",
                                   "dumped", "pushed"}, sink : Sinks \cup {NoSink}]]
  /\ waiter \in [Waiters -> {"idle", "erase", "call", "look", "last", "forget",
                             "asleep", "served", "late", "found", "failed"}]
  /\ callers \subseteq Waiters
  /\ evictor \in {"idle", "removed"}
  /\ pulled \in {"nothing", "short", "whole", "wrong"}
  /\ wrongs \in 0..MaxWrong /\ evictions \in 0..MaxEvictions

\* Whatever was received, and by however many threads, the file never has
\* another content than the digest says (store.cpp:488).
FileIsRight == file # "wrong" /\ pulled # "wrong"

\* The row is written once the file is (store.cpp:92-98): without evictions, a
\* known block is on disk, unless a late thread is writing the file again.
KnownIsWritten ==
  known /\ evictions = 0 => file = "whole" \/ \E p \in Pushers : pusher[p].at = "write"

\* All threads that still add to a missing block add to one sink: the
\* combinations are not spread over several (store.cpp:78-88).
OneSink ==
  \A p \in Pushers :
    pusher[p].at = "push" /\ ~known /\ evictions = 0 /\ sink[pusher[p].sink].rank < Chunks
      => pusher[p].sink = current

\* As long as a thread sleeps in waitBlock for a block that is not there, the
\* network is asked for it: unregisterAllCallers (network.cpp:449, 2146) never
\* comes before the block.
CalledWhileMissing ==
  \A w \in Waiters : waiter[w] = "asleep" /\ ~known /\ evictions = 0 => w \in callers

\* A thread that is in waitBlock when the block comes gets it, without its
\* timeout, or the block is gone again (store.cpp:169, 226).
WaiterIsServed ==
  \A w \in Waiters : waiter[w] \in {"look", "asleep", "last"} /\ hasBlock
                       ~> waiter[w] = "served" \/ ~hasBlock

\* fountain.cpp:596 "Assert(size > 0);": the file generate reads from, when the
\* store has the block, has its data.
PulledIsWhole == pulled # "short"
=============================================================================
