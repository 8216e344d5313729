----------------------------- MODULE ThreadPool -----------------------------
(***************************************************************************)
(* pla/threadpool.hpp: a fixed set of worker threads and a queue of tasks, *)
(* guarded by one mutex and one condition variable.  A step below is one   *)
(* critical section; a worker that has taken a task runs it unlocked.      *)
(* The network, the overlay, the indexer and the HTTP server own such      *)
(* pools, and the Scheduler of the alarms is one (module Scheduler).       *)
(***************************************************************************)
EXTENDS Naturals, Sequences, FiniteSets

CONSTANTS Workers,      \* the threads of the pool
          Tasks,        \* what may be enqueued, each once
          NoTask        \* what an idle worker holds

ASSUME PoolAssumption ==
  /\ Workers # {} /\ IsFiniteSet(Workers)
  /\ NoTask \notin Tasks

VARIABLES tasks,        \* the queue
          worker,       \* the state of each thread
          held,         \* the task each thread runs
          closer,       \* the thread that joins or destroys the pool
          begun         \* the tasks that were taken from the queue (history)

poolVars == <<tasks, worker, held, closer, begun>>

\* "ready": about to lock the mutex and look at the queue;
\* "asleep": in condition.wait; "gone": the loop was left.
WorkerStates == {"ready", "asleep", "running", "gone"}
In(state) == {w \in Workers : worker[w] = state}

\* The flag "joining", set by join() and by the destructor, never reset.
joining == closer # "open"
Queued == {tasks[i] : i \in 1..Len(tasks)}

PoolInit ==
  /\ tasks = << >>
  /\ worker = [w \in Workers |-> "ready"]
  /\ held = [w \in Workers |-> NoTask]
  /\ closer = "open"
  /\ begun = {}

-----------------------------------------------------------------------------
\* MUTANT of NotifyOne: the notification is lost.
NotifyNobody == UNCHANGED worker

\* condition.notify_one(): one sleeping worker, whichever, if there is one.
NotifyOne ==
  \/ \E w \in In("asleep") : worker' = [worker EXCEPT ![w] = "ready"]
  \/ In("asleep") = {} /\ UNCHANGED worker

\* enqueue() throws once the pool is joining.
Enqueue(t) ==
  /\ ~joining
  /\ t \notin Queued \cup begun
  /\ tasks' = Append(tasks, t)
  /\ NotifyOne
  /\ UNCHANGED <<held, closer, begun>>

\* The worker's predicate "!tasks.empty() || joining" holds ...
Take(w) ==
  /\ worker[w] = "ready" /\ tasks # << >>
  /\ tasks' = Tail(tasks)
  /\ worker' = [worker EXCEPT ![w] = "running"]
  /\ held' = [held EXCEPT ![w] = Head(tasks)]
  /\ begun' = begun \cup {Head(tasks)}
  /\ UNCHANGED closer

\* MUTANT of Leave: a joining pool is left whatever is queued.
LeaveBehind(w) ==
  /\ worker[w] = "ready" /\ joining
  /\ worker' = [worker EXCEPT ![w] = "gone"]
  /\ UNCHANGED <<tasks, held, closer, begun>>

\* ... with nothing to take, and the loop is left ...
Leave(w) ==
  /\ worker[w] = "ready" /\ tasks = << >> /\ joining
  /\ worker' = [worker EXCEPT ![w] = "gone"]
  /\ UNCHANGED <<tasks, held, closer, begun>>

\* ... or it does not hold, and the worker waits.
Sleep(w) ==
  /\ worker[w] = "ready" /\ tasks = << >> /\ ~joining
  /\ worker' = [worker EXCEPT ![w] = "asleep"]
  /\ UNCHANGED <<tasks, held, closer, begun>>

\* A condition variable may wake by itself: the predicate is looked at again.
WakeSpuriously(w) ==
  /\ worker[w] = "asleep"
  /\ worker' = [worker EXCEPT ![w] = "ready"]
  /\ UNCHANGED <<tasks, held, closer, begun>>

\* task() returned, or threw and was logged.
Finish(w) ==
  /\ worker[w] = "running"
  /\ worker' = [worker EXCEPT ![w] = "ready"]
  /\ held' = [held EXCEPT ![w] = NoTask]
  /\ UNCHANGED <<tasks, closer, begun>>

-----------------------------------------------------------------------------
\* join(): the flag is stored without the mutex and without a notification.
Join ==
  /\ closer = "open"
  /\ closer' = "joining"
  /\ UNCHANGED <<tasks, worker, held, begun>>

\* The destructor also clears the queue before it joins.
Destroy ==
  /\ closer = "open"
  /\ closer' = "clearing"
  /\ UNCHANGED <<tasks, worker, held, begun>>

Clear ==
  /\ closer = "clearing"
  /\ closer' = "joining"
  /\ tasks' = << >>
  /\ UNCHANGED <<worker, held, begun>>

\* Every thread was joined.
Joined ==
  /\ closer = "joining" /\ In("gone") = Workers
  /\ closer' = "closed"
  /\ UNCHANGED <<tasks, worker, held, begun>>

WorkerStep(w) == Take(w) \/ Leave(w) \/ Sleep(w) \/ Finish(w)
CloserStep == Clear \/ Joined

PoolNext ==
  \/ \E t \in Tasks : Enqueue(t)
  \/ \E w \in Workers : WorkerStep(w) \/ WakeSpuriously(w)
  \/ Join \/ Destroy \/ CloserStep

\* Threads are scheduled and tasks return; nobody has to enqueue, to close,
\* or to wake up without a reason.
PoolFairness ==
  /\ \A w \in Workers : WF_poolVars(WorkerStep(w))
  /\ WF_poolVars(CloserStep)

PoolSpec == PoolInit /\ [][PoolNext]_poolVars /\ PoolFairness

-----------------------------------------------------------------------------
\* The queue holds tasks, and exactly the running workers hold one.
PoolTypeOK ==
  /\ tasks \in Seq(Tasks)
  /\ worker \in [Workers -> WorkerStates]
  /\ held \in [Workers -> Tasks \cup {NoTask}]
  /\ \A w \in Workers : worker[w] = "running" <=> held[w] # NoTask
  /\ closer \in {"open", "clearing", "joining", "closed"}
  /\ begun \subseteq Tasks

\* As long as a worker sleeps, every queued task has another one on its way:
\* notify_one (threadpool.hpp:119) is never spent on a worker that then
\* leaves a task behind, whatever order the threads run in.
NoLostWakeup ==
  In("asleep") # {} => Len(tasks) <= Cardinality(In("ready"))

\* A task that enqueue() accepted does not stay in the queue: it is run, also
\* when join() comes first, or the destructor clears it (threadpool.hpp:72-84).
EnqueuedIsRun == \A t \in Tasks : []<>(t \notin Queued)
=============================================================================
