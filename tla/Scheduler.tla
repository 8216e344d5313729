------------------------------ MODULE Scheduler ------------------------------
(***************************************************************************)
(* pla/scheduler.hpp and pla/alarm.hpp: one thread moves the tasks that    *)
(* are due from a map ordered by time into the queue of a ThreadPool.      *)
(* A task is known by its task_id, a time and a number that tells tasks of *)
(* the same time apart; an Alarm remembers the id of its last task only.   *)
(*                                                                         *)
(* Time is a clock of ticks.  Every alarm has an owner, the object it is a *)
(* member of: it schedules, cancels and finally joins the alarm, and the   *)
(* callback may schedule the alarm again.  cancel() and join() copy the id *)
(* before they lock the mutex, so the owner does each in two steps.        *)
(***************************************************************************)
EXTENDS Naturals, Sequences, FiniteSets

CONSTANTS Workers,      \* the threads of the pool
          Alarms,       \* the alarms
          NoTask,       \* what an idle worker holds
          MaxTime,      \* bound: the last tick
          MaxCalls,     \* bound: calls of Scheduler::schedule
          JoinsItself   \* may a callback join its own alarm?

ASSUME SchedulerAssumption ==
  /\ Workers # {} /\ IsFiniteSet(Workers)
  /\ MaxTime \in Nat /\ MaxCalls \in Nat
  /\ JoinsItself \in BOOLEAN

Ticks == 0..MaxTime
Never == MaxTime + 1
Notified == 0
\* task_id: id[2] = 0 before the first schedule().
TaskIds == Ticks \X (0..MaxCalls)
NoId == <<0, 0>>
\* What a call of schedule() puts in the map; "call" numbers the calls.
Task == [id : Ticks \X (1..MaxCalls), alarm : Alarms, call : 1..MaxCalls]
ASSUME NoTaskAssumption == NoTask \notin Task

VARIABLES
  now,          \* the clock
  scheduling,   \* the map of the tasks to come
  pending,      \* the ids wait() waits for
  timer,        \* the scheduling thread waits until this time
  tasks, worker, held, closer, begun,   \* the pool
  phase,        \* how far each worker is with the task it holds
  taskid,       \* Alarm::taskid
  alarmJoining, \* Alarm::joining
  owner,        \* what the owner of each alarm does, and the id it copied
  calls         \* number of calls of schedule()

alarmVars == <<taskid, alarmJoining, owner, calls>>
mapVars == <<scheduling, pending, timer>>
pool == <<tasks, worker, held, closer, begun>>
INSTANCE ThreadPool WITH Tasks <- Task
vars == <<now, mapVars, pool, phase, alarmVars>>

\* The phases of a worker that holds a task:
\*   "taken"    the task was moved out of the queue;
\*   "inside"   the callback of the alarm runs;
\*   "blocked"  the same callback runs in another thread;
\*   "arming"   the callback has looked at Alarm::joining and will schedule;
\*   "waiting"  the callback joins its own alarm;
\*   "done"     the id is yet to be taken off "pending".
Phases == {"none", "taken", "inside", "blocked", "arming", "waiting", "done"}

Ids(S) == {t.id : t \in S}
InFlight == Queued \cup ({held[w] : w \in Workers} \ {NoTask})
Before(i, j) == i[1] < j[1] \/ (i[1] = j[1] /\ i[2] <= j[2])
Earliest == CHOOSE t \in scheduling : \A u \in scheduling : Before(t.id, u.id)
Running(a) == {w \in Workers : /\ phase[w] \in {"inside", "arming", "waiting"}
                               /\ held[w].alarm = a}
SetPhase(w, p) == phase' = [phase EXCEPT ![w] = p]

Init ==
  /\ PoolInit
  /\ now = 0 /\ scheduling = {} /\ pending = {} /\ timer = Notified
  /\ phase = [w \in Workers |-> "none"]
  /\ taskid = [a \in Alarms |-> NoId]
  /\ alarmJoining = [a \in Alarms |-> FALSE]
  /\ owner = [a \in Alarms |-> [at |-> "idle", id |-> NoId]]
  /\ calls = 0

-----------------------------------------------------------------------------
\* Times come from a clock of nanoseconds.  A time that some alarm or some
\* wait() still remembers does not come again once its task has left the map.
Remembered == pending \cup {taskid[a] : a \in Alarms} \cup {owner[a].id : a \in Alarms}
Distinct(t) ==
  \A id \in Remembered \ {NoId} : id[1] = t => id \in Ids(scheduling)

\* MUTANT of Found: the number that tells tasks of the same time apart is forgotten.
FoundByTime(id) == {u \in scheduling : id[2] # 0 /\ u.id[1] = id[1]}

\* The tasks of the map a call of cancel(id) or schedule(id, ..) removes.
Found(id) == {u \in scheduling : id[2] # 0 /\ u.id = id}

\* MUTANT of WithoutFound: the id is erased whether or not it was in the map.
WithoutId(id) == pending \ {id}

\* MUTANT of WithoutFound: the task leaves the map and its id stays.
WithId(id) == pending

\* The ids wait() waits for, without those of the tasks found.
WithoutFound(id) == pending \ Ids(Found(id))

\* MUTANT of NewId: numbers start at zero, which stands for no task.
NewIdFromZero(t, S) == <<t, CHOOSE n \in 0..MaxCalls :
                              /\ <<t, n>> \notin Ids(S)
                              /\ \A m \in 0..(n - 1) : <<t, m>> \in Ids(S)>>

\* "Find new task id": the first number no task of the map has at this time.
NewId(t, S) == <<t, CHOOSE n \in 1..MaxCalls :
                      /\ <<t, n>> \notin Ids(S)
                      /\ \A m \in 1..(n - 1) : <<t, m>> \in Ids(S)>>

\* Scheduler::schedule(taskid, time, ..); the notification comes after the unlock.
Schedule(a, t) ==
  LET kept == scheduling \ Found(taskid[a])
      id == NewId(t, kept)
  IN /\ ~joining /\ calls < MaxCalls /\ Distinct(t)
     /\ scheduling' = kept \cup {[id |-> id, alarm |-> a, call |-> calls + 1]}
     /\ pending' = WithoutFound(taskid[a]) \cup {id}
     /\ taskid' = [taskid EXCEPT ![a] = id]
     /\ timer' = Notified
     /\ calls' = calls + 1

CanSchedule == ~joining /\ calls < MaxCalls /\ \E t \in Ticks : Distinct(t)

-----------------------------------------------------------------------------
\* The owner calls Alarm::schedule.
OwnerSchedules(a, t) ==
  /\ owner[a].at = "idle" /\ ~alarmJoining[a]
  /\ Schedule(a, t)
  /\ UNCHANGED <<now, pool, phase, alarmJoining, owner>>

\* Alarm::cancel copies the id of the last task ...
OwnerCancels(a) ==
  /\ owner[a].at = "idle"
  /\ owner' = [owner EXCEPT ![a] = [at |-> "cancel", id |-> taskid[a]]]
  /\ UNCHANGED <<now, mapVars, pool, phase, taskid, alarmJoining, calls>>

\* ... and Scheduler::cancel takes that task off the map, if it is still there.
Cancel(a) ==
  /\ owner[a].at = "cancel"
  /\ scheduling' = scheduling \ Found(owner[a].id)
  /\ pending' = WithoutFound(owner[a].id)
  /\ timer' = IF Found(owner[a].id) # {} THEN Notified ELSE timer
  /\ owner' = [owner EXCEPT ![a] = [at |-> "idle", id |-> NoId]]
  /\ UNCHANGED <<now, pool, phase, taskid, alarmJoining, calls>>

\* Alarm::join sets joining and copies the id ...
OwnerJoins(a) ==
  /\ owner[a].at = "idle"
  /\ alarmJoining' = [alarmJoining EXCEPT ![a] = TRUE]
  /\ owner' = [owner EXCEPT ![a] = [at |-> "join", id |-> taskid[a]]]
  /\ UNCHANGED <<now, mapVars, pool, phase, taskid, calls>>

\* ... and Scheduler::wait returns once no pending task has it.  Every step
\* that takes an id off "pending" notifies.
Waited(a) ==
  /\ owner[a].at = "join" /\ owner[a].id \notin pending
  /\ owner' = [owner EXCEPT ![a].at = "joined"]
  /\ UNCHANGED <<now, mapVars, pool, phase, taskid, alarmJoining, calls>>

-----------------------------------------------------------------------------
\* The scheduling thread moves the first task of the map once it is due ...
Dispatch ==
  /\ timer <= now /\ scheduling # {} /\ Earliest.id[1] <= now
  /\ scheduling' = scheduling \ {Earliest}
  /\ tasks' = Append(tasks, Earliest)
  /\ NotifyOne
  /\ UNCHANGED <<now, pending, timer, held, closer, begun, phase, alarmVars>>

\* MUTANT of TimerSleeps: it waits for a notification only.
TimerSleepsOn ==
  /\ timer <= now
  /\ scheduling # {} => Earliest.id[1] > now
  /\ timer' = Never
  /\ UNCHANGED <<now, scheduling, pending, pool, phase, alarmVars>>

\* ... and otherwise waits for a notification, or until that task is due.
TimerSleeps ==
  /\ timer <= now
  /\ \/ scheduling = {} /\ timer' = Never
     \/ scheduling # {} /\ Earliest.id[1] > now /\ timer' = Earliest.id[1]
  /\ UNCHANGED <<now, scheduling, pending, pool, phase, alarmVars>>

Tick ==
  /\ now < MaxTime
  /\ now' = now + 1
  /\ UNCHANGED <<mapVars, pool, phase, alarmVars>>

-----------------------------------------------------------------------------
\* A worker takes the first task of the queue, sleeps, or leaves.
WorkerTakes(w) == /\ Take(w) /\ SetPhase(w, "taken")
                  /\ UNCHANGED <<now, mapVars, alarmVars>>
WorkerSleeps(w) == Sleep(w) /\ UNCHANGED <<now, mapVars, phase, alarmVars>>
WorkerLeaves(w) == Leave(w) /\ UNCHANGED <<now, mapVars, phase, alarmVars>>
WorkerWakes(w) == WakeSpuriously(w) /\ UNCHANGED <<now, mapVars, phase, alarmVars>>

\* All tasks of an alarm share one packaged_task.  A second thread that calls
\* it waits until the first returns, and then gets promise_already_satisfied:
\* its firing is lost.
Call(w) ==
  /\ phase[w] = "taken"
  /\ SetPhase(w, IF Running(held[w].alarm) = {} THEN "inside" ELSE "blocked")
  /\ UNCHANGED <<now, mapVars, pool, alarmVars>>

Return(w) ==
  /\ phase[w] = "inside"
  /\ phase' = [v \in Workers |->
       IF v = w \/ (phase[v] = "blocked" /\ held[v].alarm = held[w].alarm)
       THEN "done" ELSE phase[v]]
  /\ UNCHANGED <<now, mapVars, pool, alarmVars>>

\* The callback schedules its own alarm: it looks at Alarm::joining first.
Arm(w) ==
  /\ phase[w] = "inside" /\ ~alarmJoining[held[w].alarm] /\ CanSchedule
  /\ SetPhase(w, "arming")
  /\ UNCHANGED <<now, mapVars, pool, alarmVars>>

Rearm(w, t) ==
  /\ phase[w] = "arming"
  /\ Schedule(held[w].alarm, t)
  /\ SetPhase(w, "inside")
  /\ UNCHANGED <<now, pool, alarmJoining, owner>>

\* The scheduler is closing and throws (or a bound of the model is reached).
RearmFails(w) ==
  /\ phase[w] = "arming" /\ ~CanSchedule
  /\ SetPhase(w, "inside")
  /\ UNCHANGED <<now, mapVars, pool, alarmVars>>

\* The callback joins its own alarm, as when it destroys the object it is a
\* member of.  The "break" of wait() leaves the loop over the workers only.
JoinItself(w) ==
  /\ JoinsItself /\ phase[w] = "inside" /\ ~alarmJoining[held[w].alarm]
  /\ alarmJoining' = [alarmJoining EXCEPT ![held[w].alarm] = TRUE]
  /\ SetPhase(w, "waiting")
  /\ UNCHANGED <<now, mapVars, pool, taskid, owner, calls>>

WaitedItself(w) ==
  /\ phase[w] = "waiting" /\ taskid[held[w].alarm] \notin pending
  /\ SetPhase(w, "inside")
  /\ UNCHANGED <<now, mapVars, pool, alarmVars>>

\* The wrapper of schedule() takes the id off "pending" and notifies.
Done(w) ==
  /\ phase[w] = "done"
  /\ pending' = pending \ {held[w].id}
  /\ Finish(w) /\ SetPhase(w, "none")
  /\ UNCHANGED <<now, scheduling, timer, alarmVars>>

-----------------------------------------------------------------------------
\* ~Scheduler: close, clear the map, clear the queue; the scheduling thread
\* never ends, so the join that follows does not return.
Close == Destroy /\ UNCHANGED <<now, mapVars, phase, alarmVars>>

ClearScheduling ==
  /\ closer = "clearing" /\ scheduling # {}
  /\ scheduling' = {}
  /\ pending' = pending \ Ids(scheduling)
  /\ timer' = Notified
  /\ UNCHANGED <<now, pool, phase, alarmVars>>

ClearTasks == scheduling = {} /\ Clear /\ UNCHANGED <<now, mapVars, phase, alarmVars>>

OwnerStep(a) == Cancel(a) \/ Waited(a)
TimerStep == Dispatch \/ TimerSleeps
TaskStep(w) ==
  \/ WorkerTakes(w) \/ WorkerSleeps(w) \/ WorkerLeaves(w)
  \/ Call(w) \/ Return(w) \/ (\E t \in Ticks : Rearm(w, t)) \/ RearmFails(w)
  \/ WaitedItself(w) \/ Done(w)

Next ==
  \/ \E a \in Alarms : \/ \E t \in Ticks : OwnerSchedules(a, t)
                       \/ OwnerCancels(a) \/ OwnerJoins(a) \/ OwnerStep(a)
  \/ TimerStep \/ Tick
  \/ \E w \in Workers : TaskStep(w) \/ WorkerWakes(w) \/ Arm(w) \/ JoinItself(w)
  \/ Close \/ ClearScheduling \/ ClearTasks

Spec == Init /\ [][Next]_vars

\* The clock runs, threads are scheduled, and callbacks return.
SchedulerFairness ==
  /\ WF_vars(TimerStep) /\ WF_vars(Tick)
  /\ \A a \in Alarms : WF_vars(OwnerStep(a))
  /\ WF_vars(ClearScheduling \/ ClearTasks)
  /\ \A w \in Workers : WF_vars(TaskStep(w))

FairSpec == Spec /\ SchedulerFairness

-----------------------------------------------------------------------------
TypeOK ==
  /\ PoolTypeOK
  /\ now \in Ticks
  /\ scheduling \subseteq Task /\ pending \subseteq TaskIds
  /\ timer \in 0..Never
  /\ phase \in [Workers -> Phases]
  /\ \A w \in Workers : phase[w] = "none" <=> held[w] = NoTask
  /\ taskid \in [Alarms -> TaskIds]
  /\ alarmJoining \in [Alarms -> BOOLEAN]
  /\ owner \in [Alarms -> [at : {"idle", "cancel", "join", "joined"}, id : TaskIds]]
  /\ calls \in 0..MaxCalls

\* wait() sleeps on "pending" alone (scheduler.hpp:197): the set has the id of
\* every task that may still run, in the map, in the queue or in a worker, and
\* until the scheduler is destroyed no other, or a wait() would never return.
PendingIsLive ==
  /\ Ids(scheduling \cup InFlight) \subseteq pending
  /\ closer = "open" => pending = Ids(scheduling \cup InFlight)

\* Cancelling (or rescheduling) one alarm leaves the tasks of the others in
\* the map, though the id it goes by was copied outside the mutex, and though
\* ids are given again (scheduler.hpp:130-145, 208).
OthersKept ==
  \A t \in scheduling \ scheduling' :
    \/ TimerStep \/ ClearScheduling
    \/ owner[t.alarm] # owner'[t.alarm]
    \/ \E u \in scheduling' \ scheduling : u.alarm = t.alarm
KeepsOthers == [][OthersKept]_vars

\* A task leaves the map and the queue: it is cancelled or it runs, whatever
\* is scheduled around it.  The scheduling thread never sleeps past it, and
\* no notification of a worker is lost.
WaitsForRun(c) == \E t \in scheduling \cup Queued : t.call = c
DueIsRun == \A c \in 1..MaxCalls : []<>~WaitsForRun(c)

\* Alarm::join returns, unless the scheduler is destroyed meanwhile, which
\* clears the queue but not the pending ids of its tasks.
AlarmJoinReturns ==
  \A a \in Alarms : []<>(owner[a].at # "join" \/ closer # "open")

\* network.cpp:1959 "Join alarms" before the stream of the handler is
\* deleted: once the owner has cancelled and joined an alarm, its callback
\* does not run any more.
JoinedIsOver ==
  \A a \in Alarms : owner[a].at = "joined" =>
    \A t \in InFlight : t.alarm = a => \E w \in Workers : held[w] = t /\ phase[w] = "done"
=============================================================================
