----------------------------- MODULE Publishing -----------------------------
(***************************************************************************)
(* How a node publishes its blocks in the distributed table                *)
(* (src/tpn/store.cpp).  The first connection of the overlay starts a task *)
(* that pages through the table of blocks, newest first, and sleeps between*)
(* two pages; meanwhile blocks are notified, which publishes them too, and *)
(* files are erased, and the connections may be lost.                      *)
(*                                                                         *)
(* Each block has a file of its own, hence one row.                        *)
(***************************************************************************)
EXTENDS Naturals, Sequences, FiniteSets

CONSTANTS
  Blocks,
  BatchSize,      \* batch
  MaxNotified,    \* bound on the calls of notifyBlock
  MaxErased,      \* bound on the calls of notifyFileErasure
  MaxOutages,     \* bound on the losses of all connections
  MaxThrows       \* bound on the statements that throw

ASSUME PublishingAssumption ==
  /\ BatchSize \in Nat \ {0}
  /\ {MaxNotified, MaxErased, MaxOutages, MaxThrows} \subseteq Nat

VARIABLES
  rows,           \* the table "blocks", newest first
  hasConnections, \* mHandlers of the overlay is not empty
  starting,       \* how many threads have registered the first handler, but
                  \* have not called start yet
  mRunning,
  task,           \* the thread of run: where it is, its offset, what it read
  notifying,      \* the blocks that notifyBlock has inserted, and will publish
  told,           \* the blocks the neighbours were told of, since there are any
  due,            \* those that the task has to tell them of (history)
  notified, erased, outages, throws

publishingVars == <<rows, hasConnections, starting, mRunning, task, notifying, told, due,
                    notified, erased, outages, throws>>
counters == <<notified, erased, outages, throws>>

BlocksOf(s) == {s[i] : i \in DOMAIN s}
WithoutBlock(b) ==
  LET p == CHOOSE i \in DOMAIN rows : rows[i] = b
  IN  IF b \in BlocksOf(rows) THEN SubSeq(rows, 1, p - 1) \o SubSeq(rows, p + 1, Len(rows))
      ELSE rows

NotPublishing == [at |-> "none", offset |-> 0, result |-> << >>]

Tables == {s \in UNION {[1 .. n -> Blocks] : n \in 0 .. Cardinality(Blocks)} :
             \A i, j \in DOMAIN s : i # j => s[i] # s[j]}

PublishingInit ==
  /\ rows \in Tables
  /\ hasConnections = FALSE /\ starting = 0 /\ mRunning = FALSE
  /\ task = NotPublishing
  /\ notifying = {} /\ told = {} /\ due = {}
  /\ notified = 0 /\ erased = 0 /\ outages = 0 /\ throws = 0

\* The neighbours are told, if there are any.
Tell(b) == told' = IF hasConnections THEN told \cup {b} ELSE told

-----------------------------------------------------------------------------
(* The connections of the overlay.                                         *)

ConnectFirst ==
  /\ ~hasConnections
  /\ hasConnections' = TRUE
  /\ starting' = starting + 1
  /\ UNCHANGED <<rows, mRunning, task, notifying, told, due, counters>>

LoseConnections ==
  /\ hasConnections
  /\ outages < MaxOutages /\ outages' = outages + 1
  /\ hasConnections' = FALSE
  /\ told' = {} /\ due' = {}
  /\ UNCHANGED <<rows, starting, mRunning, task, notifying, notified, erased, throws>>

Start ==
  /\ starting > 0
  /\ starting' = starting - 1
  /\ \/ mRunning /\ UNCHANGED <<mRunning, task, due>>
     \/ /\ ~mRunning /\ mRunning' = TRUE
        /\ task' = [NotPublishing EXCEPT !.at = "check"]
        /\ due' = IF hasConnections THEN BlocksOf(rows) ELSE {}
  /\ UNCHANGED <<rows, hasConnections, notifying, told, counters>>

-----------------------------------------------------------------------------
(* run                                                                     *)

\* Without connections it is interrupted, and returns on the spot.
Check ==
  /\ task.at = "check"
  /\ task' = IF hasConnections THEN [task EXCEPT !.at = "select"] ELSE NotPublishing
  /\ UNCHANGED <<rows, hasConnections, starting, mRunning, notifying, told, due, counters>>

\* LIMIT and OFFSET of the table as it is now.
Page(offset) ==
  LET last == IF offset + BatchSize < Len(rows) THEN offset + BatchSize ELSE Len(rows)
  IN  SubSeq(rows, offset + 1, last)

Select ==
  LET page == Page(task.offset) IN
    /\ task.at = "select"
    /\ task' = IF page = << >>
               THEN [task EXCEPT !.at = "end"]
               ELSE [at |-> "send", offset |-> task.offset + Len(page), result |-> page]
    /\ UNCHANGED <<rows, hasConnections, starting, mRunning, notifying, told, due, counters>>

\* storeValue, block by block, and the sleep after the last.
SendNext ==
  LET rest == Tail(task.result) IN
    /\ task.at = "send"
    /\ Tell(Head(task.result))
    /\ task' = [task EXCEPT !.result = rest, !.at = IF rest = << >> THEN "check" ELSE "send"]
    /\ UNCHANGED <<rows, hasConnections, starting, mRunning, notifying, due, counters>>

\* A statement throws, which is logged.
Throw ==
  /\ task.at \in {"select", "send"}
  /\ throws < MaxThrows /\ throws' = throws + 1
  /\ task' = [task EXCEPT !.at = "end"]
  /\ due' = {}
  /\ UNCHANGED <<rows, hasConnections, starting, mRunning, notifying, told, notified, erased,
                 outages>>

EndRun ==
  /\ task.at = "end"
  /\ task' = NotPublishing
  /\ mRunning' = FALSE
  /\ due' = {}
  /\ UNCHANGED <<rows, hasConnections, starting, notifying, told, counters>>

-----------------------------------------------------------------------------
(* What changes the table meanwhile.                                       *)

\* MUTANT of NotifyBlock: it does not publish a block that was known.
NotifyNew(b) ==
  /\ notified < MaxNotified /\ notified' = notified + 1
  /\ rows' = <<b>> \o WithoutBlock(b)
  /\ notifying' = IF b \in BlocksOf(rows) THEN notifying ELSE notifying \cup {b}
  /\ UNCHANGED <<hasConnections, starting, mRunning, task, told, due, erased, outages, throws>>

\* INSERT OR REPLACE: a block that has a row gets a new one.
NotifyBlock(b) ==
  /\ notified < MaxNotified /\ notified' = notified + 1
  /\ rows' = <<b>> \o WithoutBlock(b)
  /\ notifying' = notifying \cup {b}
  /\ UNCHANGED <<hasConnections, starting, mRunning, task, told, due, erased, outages, throws>>

\* ... and publishes it.
PublishNotified(b) ==
  /\ b \in notifying /\ notifying' = notifying \ {b}
  /\ Tell(b)
  /\ UNCHANGED <<rows, hasConnections, starting, mRunning, task, due, counters>>

\* notifyFileErasure.  Of a block the task has read, the others move up, and
\* it reads past the next one.
Skipped(b) ==
  IF task.offset < Len(rows) /\ b \in BlocksOf(SubSeq(rows, 1, task.offset))
  THEN {rows[task.offset + 1]} ELSE {}

Erase(b) ==
  /\ b \in BlocksOf(rows)
  /\ erased < MaxErased /\ erased' = erased + 1
  /\ rows' = WithoutBlock(b)
  /\ due' = due \ ({b} \cup Skipped(b))
  /\ UNCHANGED <<hasConnections, starting, mRunning, task, notifying, told, notified, outages,
                 throws>>

-----------------------------------------------------------------------------
RunStep == Check \/ Select \/ SendNext \/ EndRun

PublishingNext ==
  \/ ConnectFirst \/ LoseConnections \/ Start
  \/ RunStep \/ Throw
  \/ \E b \in Blocks : NotifyBlock(b) \/ PublishNotified(b) \/ Erase(b)

\* Threads are scheduled.  Nobody has to connect, or to notify a block.
PublishingFairness ==
  /\ WF_publishingVars(Start) /\ WF_publishingVars(RunStep)
  /\ \A b \in Blocks : WF_publishingVars(PublishNotified(b))

PublishingSpec == PublishingInit /\ [][PublishingNext]_publishingVars /\ PublishingFairness

-----------------------------------------------------------------------------
PublishingTypeOK ==
  /\ rows \in Seq(Blocks) /\ \A i, j \in DOMAIN rows : i # j => rows[i] # rows[j]
  /\ hasConnections \in BOOLEAN /\ mRunning \in BOOLEAN
  /\ starting \in 0 .. MaxOutages + 1
  /\ task \in [at : {"none", "check", "select", "send", "end"}, offset : Nat,
               result : Seq(Blocks)]
  /\ task.at # "none" => mRunning
  /\ {notifying, told, due} \subseteq SUBSET Blocks
  /\ notified \in 0 .. MaxNotified /\ erased \in 0 .. MaxErased
  /\ outages \in 0 .. MaxOutages /\ throws \in 0 .. MaxThrows

\* When the task has read all pages, the neighbours have been told of every
\* block that was in the table when it began, whatever was notified meanwhile
\* and moved to the front; a block that was erased behind its offset costs one
\* other block, at most (store.cpp:434-447, :215-229).
NothingSkipped == task.at = "end" => due \subseteq told \cup notifying

\* store.cpp:414 says "Publish everything into DHT periodically": while there
\* are connections, every block in the table is told of.
PublishedAgain ==
  \A b \in Blocks :
    hasConnections /\ b \in BlocksOf(rows)
      ~> b \in told \/ ~hasConnections \/ b \notin BlocksOf(rows)
=============================================================================
