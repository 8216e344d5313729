--------------------------- MODULE SchedulerProofs ---------------------------
(***************************************************************************)
(* Theorems about Scheduler, for every number of workers, alarms, ticks    *)
(* and calls: the states keep their types, wait() waits for the tasks that *)
(* may still run and no other, and no alarm takes a task of another off    *)
(* the map, though ids are copied outside the mutex and given again.       *)
(***************************************************************************)
EXTENDS Scheduler, SequenceTheorems, FiniteSetTheorems, WellFoundedInduction,
        TLAPS

\* No two tasks that wait or run go by the same id.
Apart ==
  /\ \A t, u \in scheduling : t.id = u.id => t = u
  /\ \A t \in scheduling, u \in InFlight : t.id # u.id
  /\ \A i, j \in 1..Len(tasks) : tasks[i].id = tasks[j].id => i = j
  /\ \A v, w \in Workers :
       held[v] # NoTask /\ held[w] # NoTask /\ held[v].id = held[w].id => v = w
  /\ \A i \in 1..Len(tasks), w \in Workers : held[w] # NoTask => held[w].id # tasks[i].id

\* A number that tells tasks of the same time apart is not above the number
\* of calls, so there is always one to give.
Numbered == \A t \in scheduling : t.id[2] <= calls /\ t.call <= calls

\* The id an alarm, or its owner, remembers is the id of no other alarm's task.
Belongs ==
  \A t \in scheduling, a \in Alarms :
    taskid[a] = t.id \/ owner[a].id = t.id => t.alarm = a

SchedulerInv == TypeOK /\ PendingIsLive /\ Apart /\ Numbered /\ Belongs

-----------------------------------------------------------------------------
(* The map of tasks and their ids.                                         *)

LEMMA LeastNumber ==
  ASSUME NEW S \in SUBSET Nat, S # {}
  PROVE  \E n \in S : \A m \in S : n <= m
<1>1. PICK n \in S : \A m \in S : ~ (<<m, n>> \in OpToRel(<, Nat))
  BY NatLessThanWellFounded, WFMin, Zenon
<1>2. \A m \in S : ~ (m < n)
  BY <1>1, Zenon DEF OpToRel
<1> QED
  BY <1>2

LEMMA TaskFields ==
  ASSUME NEW t \in Task
  PROVE  /\ t.alarm \in Alarms /\ t.call \in 1..MaxCalls
         /\ t.id \in TaskIds /\ t.id # NoId
         /\ t.id[1] \in Ticks /\ t.id[2] \in 1..MaxCalls /\ t.id[2] # 0
         /\ t.id = <<t.id[1], t.id[2]>> /\ t # NoTask
<1>1. MaxCalls \in Nat /\ t.id \in Ticks \X (1..MaxCalls)
  BY SchedulerAssumption DEF Task
<1> QED
  BY <1>1, NoTaskAssumption DEF Task, TaskIds, NoId

\* The map orders its tasks: one of them is the first.
LEMMA EarliestIsFirst ==
  ASSUME scheduling \subseteq Task, scheduling # {}
  PROVE  Earliest \in scheduling /\ \A u \in scheduling : Before(Earliest.id, u.id)
<1> DEFINE T == {t.id[1] : t \in scheduling}
<1>1. T \in SUBSET Nat /\ T # {}
  BY TaskFields, SchedulerAssumption DEF Ticks
<1>2. PICK x \in T : \A y \in T : x <= y
  BY <1>1, LeastNumber
<1> DEFINE N == {t.id[2] : t \in {u \in scheduling : u.id[1] = x}}
<1>3. N \in SUBSET Nat /\ N # {}
  BY <1>2, TaskFields, SchedulerAssumption
<1>4. PICK n \in N : \A m \in N : n <= m
  BY <1>3, LeastNumber
<1>5. PICK t \in scheduling : t.id[1] = x /\ t.id[2] = n
  BY <1>4
<1>6. ASSUME NEW u \in scheduling PROVE Before(t.id, u.id)
  <2>1. x <= u.id[1] /\ x \in Nat /\ u.id[1] \in Nat
    BY <1>1, <1>2
  <2>2. CASE u.id[1] = x
    BY <1>4, <1>5, <2>2 DEF Before
  <2>3. CASE u.id[1] # x
    BY <1>5, <2>1, <2>3 DEF Before
  <2> QED
    BY <2>2, <2>3
<1>7. \E t0 \in scheduling : \A u \in scheduling : Before(t0.id, u.id)
  BY <1>6
<1> QED
  BY <1>7 DEF Earliest

\* The number schedule() looks for exists, and no task of the map has it.
LEMMA NewIdIsFree ==
  ASSUME NEW S \in SUBSET Task, NEW t \in Ticks, calls \in 0..MaxCalls,
         calls < MaxCalls, \A u \in S : u.id[2] <= calls
  PROVE  /\ NewId(t, S) \in Ticks \X (1..MaxCalls)
         /\ NewId(t, S)[1] = t /\ NewId(t, S)[2] <= calls + 1
         /\ NewId(t, S) \notin Ids(S)
<1> DEFINE F == {n \in 1..MaxCalls : <<t, n>> \notin Ids(S)}
           Found1(n) == /\ <<t, n>> \notin Ids(S)
                        /\ \A m \in 1..(n - 1) : <<t, m>> \in Ids(S)
<1>0. MaxCalls \in Nat /\ calls \in Nat
  BY SchedulerAssumption
<1>1. calls + 1 \in F
  <2>1. ASSUME NEW u \in S PROVE u.id # <<t, calls + 1>>
    BY <1>0
  <2> QED
    BY <1>0, <2>1 DEF Ids
<1>2. PICK k \in F : \A m \in F : k <= m
  <2>1. F \in SUBSET Nat /\ F # {}
    BY <1>0, <1>1
  <2> QED
    BY <2>1, LeastNumber
<1>3. k \in 1..MaxCalls /\ Found1(k)
  BY <1>0, <1>2
<1> DEFINE n == CHOOSE i \in 1..MaxCalls : Found1(i)
<1>4. n \in 1..MaxCalls /\ Found1(n)
  BY <1>3
<1>5. n <= calls + 1
  <2> SUFFICES ASSUME ~(n <= calls + 1) PROVE FALSE
    OBVIOUS
  <2>1. calls + 1 \in 1..(n - 1)
    BY <1>0, <1>4
  <2> QED
    BY <1>1, <1>4, <2>1
<1>6. NewId(t, S) = <<t, n>>
  BY DEF NewId
<1> HIDE DEF n
<1> QED
  BY <1>4, <1>5, <1>6

-----------------------------------------------------------------------------
(* Types.                                                                  *)

LEMMA NotifyOneTyped ==
  ASSUME PoolTypeOK, NotifyOne
  PROVE  /\ worker' \in [Workers -> WorkerStates]
         /\ \A w \in Workers : worker'[w] = "running" <=> worker[w] = "running"
<1>1. CASE In("asleep") = {} /\ UNCHANGED worker
  BY <1>1 DEF PoolTypeOK
<1>2. CASE \E w \in In("asleep") : worker' = [worker EXCEPT ![w] = "ready"]
  <2>1. PICK w \in In("asleep") : worker' = [worker EXCEPT ![w] = "ready"]
    BY <1>2
  <2> QED
    BY <2>1 DEF PoolTypeOK, In, WorkerStates
<1> QED
  BY <1>1, <1>2 DEF NotifyOne

LEMMA Bounds ==
  /\ MaxTime \in Nat /\ MaxCalls \in Nat /\ NoId \in TaskIds
  /\ NoTask \notin Task /\ Ticks \subseteq 0..Never /\ Never \in Nat
BY SchedulerAssumption, NoTaskAssumption DEF NoId, TaskIds, Ticks, Never

LEMMA InitTyped == Init => TypeOK
<1> SUFFICES ASSUME Init PROVE TypeOK
  OBVIOUS
<1>1. PoolTypeOK
  <2>1. tasks \in Seq(Task)
    BY EmptySeq DEF Init, PoolInit
  <2> QED
    BY <2>1 DEF Init, PoolInit, PoolTypeOK, WorkerStates
<1> QED
  BY <1>1, Bounds DEF Init, PoolInit, TypeOK, Ticks, Notified, Phases

\* What schedule() puts in the map and gives the alarm is typed.
LEMMA ScheduleTyped ==
  ASSUME TypeOK, Numbered, NEW a \in Alarms, NEW t \in Ticks, Schedule(a, t)
  PROVE  /\ scheduling' \subseteq Task /\ pending' \subseteq TaskIds
         /\ taskid' \in [Alarms -> TaskIds]
         /\ timer' \in 0..Never /\ calls' \in 0..MaxCalls
<1> DEFINE kept == scheduling \ Found(taskid[a])
           id == NewId(t, kept)
<1>1. /\ kept \in SUBSET Task /\ calls \in 0..MaxCalls /\ calls < MaxCalls
      /\ \A u \in kept : u.id[2] <= calls
  BY DEF TypeOK, Numbered, Schedule
<1>2. id \in Ticks \X (1..MaxCalls)
  BY <1>1, NewIdIsFree
<1>3. id \in TaskIds
  BY <1>2, Bounds DEF TaskIds
<1>4. calls + 1 \in 1..MaxCalls
  BY <1>1, Bounds
<1>5. /\ scheduling' = kept \cup {[id |-> id, alarm |-> a, call |-> calls + 1]}
      /\ pending' = WithoutFound(taskid[a]) \cup {id}
      /\ taskid' = [taskid EXCEPT ![a] = id]
      /\ timer' = Notified /\ calls' = calls + 1
  BY DEF Schedule
<1>6. [id |-> id, alarm |-> a, call |-> calls + 1] \in Task
  BY <1>2, <1>4 DEF Task
<1> HIDE DEF id
<1>7. scheduling' \subseteq Task
  BY <1>1, <1>5, <1>6
<1>8. pending' \subseteq TaskIds
  BY <1>3, <1>5 DEF TypeOK, WithoutFound
<1>9. taskid' \in [Alarms -> TaskIds]
  BY <1>3, <1>5 DEF TypeOK
<1> QED
  BY <1>4, <1>5, <1>7, <1>8, <1>9, Bounds DEF Notified

\* A worker that only changes its phase.
LEMMA PhaseTyped ==
  ASSUME TypeOK, NEW w \in Workers, phase[w] # "none",
         NEW p \in Phases \ {"none"}, SetPhase(w, p)
  PROVE  /\ phase' \in [Workers -> Phases]
         /\ \A v \in Workers : phase'[v] = "none" <=> held[v] = NoTask
BY DEF TypeOK, SetPhase

LEMMA TypeKept == TypeOK /\ Numbered /\ [Next]_vars => TypeOK'
<1> SUFFICES ASSUME TypeOK, Numbered, [Next]_vars PROVE TypeOK'
  OBVIOUS
<1>0. PoolTypeOK
  BY DEF TypeOK
<1>1. ASSUME NEW a \in Alarms, NEW t \in Ticks, OwnerSchedules(a, t) PROVE TypeOK'
  <2>1. Schedule(a, t) /\ UNCHANGED <<now, pool, phase, alarmJoining, owner>>
    BY <1>1 DEF OwnerSchedules
  <2>2. PoolTypeOK'
    BY <1>0, <2>1 DEF PoolTypeOK, pool, Queued
  <2> QED
    BY <2>1, <2>2, ScheduleTyped DEF TypeOK, pool
<1>2. ASSUME NEW a \in Alarms,
             OwnerCancels(a) \/ OwnerJoins(a) \/ Cancel(a) \/ Waited(a)
      PROVE  TypeOK'
  <2>1. PoolTypeOK' /\ UNCHANGED <<now, held, phase, taskid, calls>>
    BY <1>0, <1>2
       DEF OwnerCancels, OwnerJoins, Cancel, Waited, PoolTypeOK, pool
  <2>2. scheduling' \subseteq scheduling /\ pending' \subseteq pending /\ timer' \in 0..Never
    BY <1>2, Bounds
       DEF OwnerCancels, OwnerJoins, Cancel, Waited, WithoutFound, mapVars, TypeOK, Notified
  <2>3. alarmJoining' \in [Alarms -> BOOLEAN]
    BY <1>2 DEF OwnerCancels, OwnerJoins, Cancel, Waited, TypeOK
  <2>4. owner' \in [Alarms -> [at : {"idle", "cancel", "join", "joined"}, id : TaskIds]]
    <3>1. CASE OwnerCancels(a) \/ OwnerJoins(a) \/ Cancel(a)
      BY <3>1, Bounds DEF OwnerCancels, OwnerJoins, Cancel, TypeOK
    <3>2. CASE Waited(a)
      <4>1. owner' = [owner EXCEPT ![a] = [owner[a] EXCEPT !.at = "joined"]]
        BY <3>2 DEF Waited
      <4>2. [owner[a] EXCEPT !.at = "joined"] \in
              [at : {"idle", "cancel", "join", "joined"}, id : TaskIds]
        BY DEF TypeOK
      <4> QED
        BY <4>1, <4>2 DEF TypeOK
    <3> QED
      BY <1>2, <3>1, <3>2
  <2> QED
    BY <2>1, <2>2, <2>3, <2>4 DEF TypeOK
<1>3. CASE Dispatch
  <2>1. Earliest \in Task /\ UNCHANGED <<now, pending, timer, held, closer, begun, phase, alarmVars>>
    BY <1>3, EarliestIsFirst DEF Dispatch, TypeOK
  <2>2. tasks' \in Seq(Task)
    BY <1>0, <1>3, <2>1, AppendProperties DEF Dispatch, PoolTypeOK
  <2>3. PoolTypeOK'
    BY <1>0, <1>3, <2>1, <2>2, NotifyOneTyped DEF Dispatch, PoolTypeOK
  <2>4. scheduling' \subseteq scheduling
    BY <1>3 DEF Dispatch
  <2> QED
    BY <2>1, <2>3, <2>4 DEF TypeOK, alarmVars
<1>4. CASE TimerSleeps
  <2>1. PoolTypeOK' /\ UNCHANGED <<now, scheduling, pending, held, phase, alarmVars>>
    BY <1>0, <1>4 DEF TimerSleeps, PoolTypeOK, pool
  <2>2. timer' \in 0..Never
    <3>1. CASE timer' = Never
      BY <3>1, Bounds
    <3>2. CASE scheduling # {} /\ timer' = Earliest.id[1]
      BY <3>2, EarliestIsFirst, TaskFields, Bounds DEF TypeOK
    <3> QED
      BY <1>4, <3>1, <3>2 DEF TimerSleeps
  <2> QED
    BY <2>1, <2>2 DEF TypeOK, alarmVars
<1>5. CASE Tick
  <2>1. now' \in Ticks
    BY <1>5, Bounds DEF Tick, TypeOK, Ticks
  <2>2. PoolTypeOK'
    BY <1>0, <1>5 DEF Tick, PoolTypeOK, pool
  <2> QED
    BY <1>5, <2>1, <2>2 DEF Tick, TypeOK, mapVars, pool, alarmVars
<1>6. ASSUME NEW w \in Workers, WorkerTakes(w) PROVE TypeOK'
  <2>1. Take(w) /\ SetPhase(w, "taken") /\ UNCHANGED <<now, mapVars, alarmVars>>
    BY <1>6 DEF WorkerTakes
  <2>2. Head(tasks) \in Task /\ tasks' \in Seq(Task)
    BY <1>0, <2>1, HeadTailProperties DEF Take, PoolTypeOK
  <2>3. Head(tasks) # NoTask
    BY <2>2, Bounds
  <2>4. PoolTypeOK'
    BY <1>0, <2>1, <2>2, <2>3 DEF Take, PoolTypeOK, WorkerStates
  <2>5. /\ phase' \in [Workers -> Phases]
        /\ \A v \in Workers : phase'[v] = "none" <=> held'[v] = NoTask
    BY <1>0, <2>1, <2>3 DEF Take, SetPhase, TypeOK, Phases, PoolTypeOK
  <2> QED
    BY <2>1, <2>4, <2>5 DEF TypeOK, mapVars, alarmVars
<1>7. ASSUME NEW w \in Workers, WorkerSleeps(w) \/ WorkerLeaves(w) \/ WorkerWakes(w)
      PROVE  TypeOK'
  <2>1. PoolTypeOK' /\ UNCHANGED <<now, mapVars, held, phase, alarmVars>>
    BY <1>0, <1>7 DEF WorkerSleeps, WorkerLeaves, WorkerWakes, Sleep, Leave, WakeSpuriously,
                      PoolTypeOK, WorkerStates
  <2> QED
    BY <2>1 DEF TypeOK, mapVars, alarmVars
<1>8. ASSUME NEW w \in Workers,
             Call(w) \/ Return(w) \/ Arm(w) \/ RearmFails(w) \/ WaitedItself(w)
      PROVE  TypeOK'
  <2>1. PoolTypeOK' /\ UNCHANGED <<now, mapVars, held, alarmVars>>
    BY <1>0, <1>8 DEF Call, Return, Arm, RearmFails, WaitedItself, PoolTypeOK, pool
  <2>2. /\ phase' \in [Workers -> Phases]
        /\ \A v \in Workers : phase'[v] = "none" <=> held[v] = NoTask
    <3>1. CASE Return(w)
      BY <3>1 DEF Return, TypeOK, Phases
    <3>2. CASE \E p \in Phases \ {"none"} : SetPhase(w, p) /\ phase[w] # "none"
      BY <3>2, PhaseTyped
    <3> QED
      BY <1>8, <3>1, <3>2 DEF Call, Arm, RearmFails, WaitedItself, Phases
  <2> QED
    BY <2>1, <2>2 DEF TypeOK, mapVars, alarmVars
<1>9. ASSUME NEW w \in Workers, NEW t \in Ticks, Rearm(w, t) PROVE TypeOK'
  <2>1. /\ phase[w] = "arming" /\ Schedule(held[w].alarm, t) /\ SetPhase(w, "inside")
        /\ UNCHANGED <<now, pool, alarmJoining, owner>>
    BY <1>9 DEF Rearm
  <2>2. held[w].alarm \in Alarms
    BY <1>0, <2>1, TaskFields DEF TypeOK, PoolTypeOK
  <2>3. PoolTypeOK' /\ UNCHANGED held
    BY <1>0, <2>1 DEF PoolTypeOK, pool
  <2>4. /\ phase' \in [Workers -> Phases]
        /\ \A v \in Workers : phase'[v] = "none" <=> held[v] = NoTask
    BY <2>1, PhaseTyped DEF Phases
  <2> QED
    BY <2>1, <2>2, <2>3, <2>4, ScheduleTyped DEF TypeOK
<1>10. ASSUME NEW w \in Workers, JoinItself(w) PROVE TypeOK'
  <2>1. PoolTypeOK' /\ UNCHANGED <<now, mapVars, held, taskid, owner, calls>>
    BY <1>0, <1>10 DEF JoinItself, PoolTypeOK, pool
  <2>2. /\ phase' \in [Workers -> Phases]
        /\ \A v \in Workers : phase'[v] = "none" <=> held[v] = NoTask
    BY <1>10, PhaseTyped DEF JoinItself, Phases
  <2>3. alarmJoining' \in [Alarms -> BOOLEAN]
    BY <1>10 DEF JoinItself, TypeOK
  <2> QED
    BY <2>1, <2>2, <2>3 DEF TypeOK, mapVars
<1>11. ASSUME NEW w \in Workers, Done(w) PROVE TypeOK'
  <2>1. Finish(w) /\ SetPhase(w, "none") /\ UNCHANGED <<now, scheduling, timer, alarmVars>>
    BY <1>11 DEF Done
  <2>2. PoolTypeOK'
    BY <1>0, <2>1 DEF Finish, PoolTypeOK, WorkerStates
  <2>3. /\ phase' \in [Workers -> Phases]
        /\ \A v \in Workers : phase'[v] = "none" <=> held'[v] = NoTask
    BY <1>0, <2>1 DEF Finish, SetPhase, TypeOK, Phases, PoolTypeOK
  <2>4. pending' \subseteq TaskIds
    BY <1>11 DEF Done, TypeOK
  <2> QED
    BY <2>1, <2>2, <2>3, <2>4 DEF TypeOK, alarmVars
<1>12. CASE Close \/ ClearTasks
  <2>1. PoolTypeOK' /\ UNCHANGED <<now, mapVars, held, phase, alarmVars>>
    BY <1>0, <1>12, EmptySeq DEF Close, ClearTasks, Destroy, Clear, PoolTypeOK
  <2> QED
    BY <2>1 DEF TypeOK, mapVars, alarmVars
<1>13. CASE ClearScheduling
  <2>1. PoolTypeOK' /\ UNCHANGED <<now, held, phase, alarmVars>>
    BY <1>0, <1>13 DEF ClearScheduling, PoolTypeOK, pool
  <2>2. scheduling' = {} /\ pending' \subseteq TaskIds /\ timer' \in 0..Never
    BY <1>13, Bounds DEF ClearScheduling, TypeOK, Notified
  <2> QED
    BY <2>1, <2>2 DEF TypeOK, alarmVars
<1>14. CASE UNCHANGED vars
  BY <1>0, <1>14 DEF vars, TypeOK, PoolTypeOK, mapVars, pool, alarmVars
<1> QED
  BY <1>1, <1>2, <1>3, <1>4, <1>5, <1>6, <1>7, <1>8, <1>9, <1>10, <1>11, <1>12, <1>13, <1>14
     DEF Next, OwnerStep, TimerStep, TaskStep

-----------------------------------------------------------------------------
(* Ids.                                                                    *)

\* Of the ids wait() waits for, none is lost and none is forgotten.
LEMMA InFlightIds ==
  ASSUME TypeOK
  PROVE  /\ \A t \in InFlight : t \in Task
         /\ \A i \in 1..Len(tasks) : tasks[i] \in Task /\ tasks[i] \in InFlight
         /\ \A w \in Workers : held[w] # NoTask => held[w] \in Task /\ held[w] \in InFlight
<1>1. \A i \in 1..Len(tasks) : tasks[i] \in Task
  BY ElementOfSeq DEF TypeOK, PoolTypeOK
<1> QED
  BY <1>1 DEF TypeOK, PoolTypeOK, InFlight, Queued

\* An alarm's last task, if it is still in the map, is the alarm's own, and the
\* only one the call of schedule() or cancel() removes.
LEMMA FoundIsOwn ==
  ASSUME SchedulerInv, NEW a \in Alarms, NEW t \in Found(taskid[a]) \cup Found(owner[a].id)
  PROVE  t \in scheduling /\ t.alarm = a
BY DEF Found, SchedulerInv, Belongs

\* cancel() or schedule() takes the tasks it finds, and their ids, off both sets.
LEMMA FoundLeaves ==
  ASSUME SchedulerInv, NEW id, scheduling' = scheduling \ Found(id),
         UNCHANGED InFlight, closer' = closer, pending' = WithoutFound(id)
  PROVE  PendingIsLive'
<1>1. \A t \in scheduling : t.id \in Ids(Found(id)) => t \in Found(id)
  BY DEF SchedulerInv, Apart, Found, Ids
<1>2. \A t \in InFlight : t.id \notin Ids(Found(id))
  BY DEF SchedulerInv, Apart, Found, Ids
<1>3. Ids(scheduling' \cup InFlight') = Ids(scheduling \cup InFlight) \ Ids(Found(id))
  BY <1>1, <1>2 DEF Ids, Found
<1> QED
  BY <1>3 DEF SchedulerInv, PendingIsLive, WithoutFound

\* A step that leaves the map, the queue and the workers' tasks alone.
LEMMA SameTasks ==
  ASSUME SchedulerInv, UNCHANGED <<scheduling, pending, tasks, held, calls>>,
         closer' = "open" => closer = "open"
  PROVE  PendingIsLive' /\ Apart' /\ Numbered'
<1>1. UNCHANGED InFlight
  BY DEF InFlight, Queued
<1> QED
  BY <1>1 DEF SchedulerInv, PendingIsLive, Apart, Numbered

\* schedule() adds a task whose id is nobody else's.
LEMMA ScheduleKept ==
  ASSUME SchedulerInv, NEW a \in Alarms, NEW t \in Ticks, Schedule(a, t),
         UNCHANGED <<pool, owner>>
  PROVE  /\ PendingIsLive' /\ Apart' /\ Numbered' /\ Belongs'
         /\ \A u \in scheduling \ scheduling' : u.alarm = a
         /\ \E u \in scheduling' \ scheduling : u.alarm = a
<1> DEFINE kept == scheduling \ Found(taskid[a])
           id == NewId(t, kept)
           new == [id |-> id, alarm |-> a, call |-> calls + 1]
<1>1. /\ kept \in SUBSET Task /\ calls \in 0..MaxCalls /\ calls < MaxCalls
      /\ \A u \in kept : u.id[2] <= calls
  BY DEF SchedulerInv, TypeOK, Numbered, Schedule
<1>2. /\ id \in Ticks \X (1..MaxCalls) /\ id[1] = t /\ id[2] <= calls + 1
      /\ id \notin Ids(kept)
  BY <1>1, NewIdIsFree
<1>3. /\ scheduling' = kept \cup {new}
      /\ pending' = WithoutFound(taskid[a]) \cup {id}
      /\ taskid' = [taskid EXCEPT ![a] = id]
      /\ calls' = calls + 1
      /\ Distinct(t)
  BY DEF Schedule
<1>4. new.id = id /\ new.alarm = a /\ new.call = calls + 1
  OBVIOUS
<1> HIDE DEF id, new
<1>5. id # NoId
  BY <1>2, Bounds DEF NoId
<1>6. UNCHANGED <<InFlight, tasks, held, closer>>
  BY DEF pool, InFlight, Queued
<1>7. ASSUME id \in Remembered PROVE id \in Ids(scheduling)
  BY <1>2, <1>3, <1>5, <1>7 DEF Distinct
<1>8. ASSUME id \in Ids(scheduling) PROVE id = taskid[a]
  <2>1. PICK u \in scheduling : u.id = id
    BY <1>8 DEF Ids
  <2>2. u \in Found(taskid[a])
    BY <1>2, <2>1 DEF Ids
  <2> QED
    BY <2>1, <2>2 DEF Found
<1>9. \A u \in InFlight : u.id # id
  <2> SUFFICES ASSUME NEW u \in InFlight, u.id = id PROVE FALSE
    OBVIOUS
  <2>1. id \in Remembered
    BY DEF SchedulerInv, PendingIsLive, Ids, Remembered
  <2> QED
    BY <1>7, <2>1 DEF SchedulerInv, Apart, Ids
<1>10. PendingIsLive'
  <2>1. \A u \in scheduling : u.id \in Ids(Found(taskid[a])) <=> u \in Found(taskid[a])
    BY DEF SchedulerInv, Apart, Found, Ids
  <2>2. \A u \in InFlight : u.id \notin Ids(Found(taskid[a]))
    BY DEF SchedulerInv, Apart, Found, Ids
  <2>3. Ids(kept \cup InFlight) = Ids(scheduling \cup InFlight) \ Ids(Found(taskid[a]))
    BY <2>1, <2>2 DEF Ids, Found
  <2>4. Ids(scheduling' \cup InFlight') = Ids(kept \cup InFlight) \cup {id}
    BY <1>3, <1>4, <1>6 DEF Ids
  <2> QED
    BY <1>3, <1>6, <2>3, <2>4 DEF SchedulerInv, PendingIsLive, WithoutFound
<1>11. Apart'
  <2>1. \A u, v \in scheduling' : u.id = v.id => u = v
    BY <1>2, <1>3, <1>4 DEF SchedulerInv, Apart, Ids
  <2>2. \A u \in scheduling', v \in InFlight' : u.id # v.id
    BY <1>3, <1>4, <1>6, <1>9 DEF SchedulerInv, Apart
  <2> QED
    BY <1>6, <2>1, <2>2 DEF SchedulerInv, Apart
<1>12. Numbered'
  <2> SUFFICES ASSUME NEW u \in scheduling' PROVE u.id[2] <= calls' /\ u.call <= calls'
    BY DEF Numbered
  <2>1. CASE u = new
    BY <1>1, <1>2, <1>3, <1>4, <2>1, Bounds
  <2>2. CASE u \in kept
    <3>1. u.id[2] \in 1..MaxCalls /\ u.call \in 1..MaxCalls
      BY <1>1, <2>2, TaskFields
    <3> QED
      BY <1>1, <1>3, <2>2, <3>1, Bounds DEF SchedulerInv, Numbered
  <2> QED
    BY <1>3, <2>1, <2>2
<1>13. Belongs'
  <2> SUFFICES ASSUME NEW u \in scheduling', NEW b \in Alarms,
                      taskid'[b] = u.id \/ owner[b].id = u.id
               PROVE  u.alarm = b
    BY DEF Belongs
  <2>1. taskid \in [Alarms -> TaskIds]
    BY DEF SchedulerInv, TypeOK
  <2>2. CASE u = new
    <3>1. CASE b = a
      BY <1>4, <2>2, <3>1
    <3>2. CASE b # a
      <4>1. taskid[b] = id \/ owner[b].id = id
        BY <1>3, <1>4, <2>1, <2>2, <3>2
      <4>2. id \in Ids(scheduling) /\ id = taskid[a]
        BY <1>7, <1>8, <4>1 DEF Remembered
      <4>3. PICK v \in scheduling : v.id = id
        BY <4>2 DEF Ids
      <4>4. v.alarm = a /\ v.alarm = b
        BY <4>1, <4>2, <4>3 DEF SchedulerInv, Belongs
      <4> QED
        BY <3>2, <4>4
    <3> QED
      BY <3>1, <3>2
  <2>3. CASE u \in kept
    <3>1. u.id # id
      BY <1>2, <2>3 DEF Ids
    <3>2. taskid[b] = u.id \/ owner[b].id = u.id
      BY <1>3, <2>1, <3>1
    <3> QED
      BY <2>3, <3>2 DEF SchedulerInv, Belongs
  <2> QED
    BY <1>3, <2>2, <2>3
<1>14. \A u \in scheduling \ scheduling' : u.alarm = a
  BY <1>3, FoundIsOwn
<1>15. new \in scheduling' \ scheduling
  <2>1. ASSUME new \in scheduling PROVE FALSE
    <3>1. new.call <= calls /\ calls \in Nat
      BY <1>1, <2>1, Bounds DEF SchedulerInv, Numbered
    <3> QED
      BY <1>4, <3>1
  <2> QED
    BY <1>3, <2>1
<1> QED
  BY <1>4, <1>10, <1>11, <1>12, <1>13, <1>14, <1>15

LEMMA InvInit == Init => SchedulerInv
<1> SUFFICES ASSUME Init PROVE SchedulerInv
  OBVIOUS
<1>1. InFlight = {} /\ scheduling = {} /\ pending = {} /\ Len(tasks) = 0
  BY DEF Init, PoolInit, InFlight, Queued
<1> QED
  BY <1>1, InitTyped
     DEF SchedulerInv, PendingIsLive, Apart, Numbered, Belongs, Ids, Init, PoolInit

LEMMA InvKept == SchedulerInv /\ [Next]_vars => SchedulerInv' /\ [OthersKept]_vars
<1> SUFFICES ASSUME SchedulerInv, [Next]_vars PROVE SchedulerInv' /\ [OthersKept]_vars
  OBVIOUS
<1>0. TypeOK /\ TypeOK'
  BY TypeKept DEF SchedulerInv
<1>1. ASSUME NEW a \in Alarms, NEW t \in Ticks, OwnerSchedules(a, t)
      PROVE  SchedulerInv' /\ OthersKept
  BY <1>0, <1>1, ScheduleKept DEF OwnerSchedules, SchedulerInv, OthersKept
<1>2. ASSUME NEW a \in Alarms, OwnerCancels(a) \/ OwnerJoins(a) \/ Waited(a)
      PROVE  SchedulerInv' /\ OthersKept
  <2>1. UNCHANGED <<scheduling, pending, tasks, held, calls, closer, taskid>>
    BY <1>2 DEF OwnerCancels, OwnerJoins, Waited, mapVars, pool
  <2>2. \A b \in Alarms : owner'[b].id \in {owner[b].id, taskid[b]}
    BY <1>0, <1>2 DEF OwnerCancels, OwnerJoins, Waited, TypeOK
  <2>3. Belongs'
    BY <2>1, <2>2 DEF SchedulerInv, Belongs
  <2> QED
    BY <1>0, <2>1, <2>3, SameTasks DEF SchedulerInv, OthersKept
<1>3. ASSUME NEW a \in Alarms, Cancel(a) PROVE SchedulerInv' /\ OthersKept
  <2>1. /\ scheduling' = scheduling \ Found(owner[a].id)
        /\ pending' = WithoutFound(owner[a].id)
        /\ owner[a].at = "cancel" /\ owner' = [owner EXCEPT ![a] = [at |-> "idle", id |-> NoId]]
        /\ UNCHANGED <<tasks, held, closer, taskid, calls>>
    BY <1>3 DEF Cancel, pool
  <2>2. UNCHANGED InFlight
    BY <2>1 DEF InFlight, Queued
  <2>3. PendingIsLive'
    BY <2>1, <2>2, FoundLeaves
  <2>4. Apart' /\ Numbered'
    BY <2>1, <2>2 DEF SchedulerInv, Apart, Numbered
  <2>5. Belongs'
    <3>1. \A t \in scheduling : t.id # NoId
      BY <1>0, TaskFields DEF TypeOK
    <3>2. \A b \in Alarms : owner'[b].id \in {owner[b].id, NoId}
      BY <1>0, <2>1 DEF TypeOK
    <3> QED
      BY <2>1, <3>1, <3>2 DEF SchedulerInv, Belongs
  <2>6. OthersKept
    <3> SUFFICES ASSUME NEW t \in scheduling \ scheduling'
                 PROVE  owner[t.alarm] # owner'[t.alarm]
      BY DEF OthersKept
    <3>1. t.alarm = a
      BY <2>1, FoundIsOwn
    <3>2. owner'[a].at = "idle"
      BY <1>0, <2>1 DEF TypeOK
    <3> QED
      BY <2>1, <3>1, <3>2
  <2> QED
    BY <1>0, <2>3, <2>4, <2>5, <2>6 DEF SchedulerInv
<1>4. CASE Dispatch
  <2> DEFINE e == Earliest
  <2>1. /\ e \in scheduling /\ e \in Task /\ scheduling' = scheduling \ {e}
        /\ tasks' = Append(tasks, e)
        /\ UNCHANGED <<pending, held, closer, taskid, owner, calls>>
    BY <1>0, <1>4, EarliestIsFirst DEF Dispatch, TypeOK, alarmVars
  <2> HIDE DEF e
  <2>2. /\ Len(tasks) \in Nat /\ Len(tasks') = Len(tasks) + 1
        /\ \A i \in 1..Len(tasks) : tasks'[i] = tasks[i]
        /\ tasks'[Len(tasks) + 1] = e
    BY <1>0, <2>1, AppendProperties, LenProperties DEF TypeOK, PoolTypeOK
  <2>3. InFlight' = InFlight \cup {e}
    <3>1. Queued' = Queued \cup {e}
      BY <2>2 DEF Queued
    <3> QED
      BY <2>1, <3>1 DEF InFlight
  <2>4. scheduling' \cup InFlight' = scheduling \cup InFlight
    BY <2>1, <2>3
  <2>5. PendingIsLive'
    BY <2>1, <2>4 DEF SchedulerInv, PendingIsLive
  <2>6. \A u \in InFlight : u.id # e.id
    BY <2>1 DEF SchedulerInv, Apart
  <2>7. Apart'
    <3>1. \A t \in scheduling', u \in InFlight' : t.id # u.id
      BY <2>1, <2>3 DEF SchedulerInv, Apart
    <3>2. \A i, j \in 1..Len(tasks') : tasks'[i].id = tasks'[j].id => i = j
      <4>1. \A i \in 1..Len(tasks) : tasks[i].id # e.id
        BY <1>0, <2>6, InFlightIds
      <4> QED
        BY <2>2, <4>1 DEF SchedulerInv, Apart
    <3>3. \A i \in 1..Len(tasks'), w \in Workers :
            held[w] # NoTask => held[w].id # tasks'[i].id
      <4>1. \A w \in Workers : held[w] # NoTask => held[w].id # e.id
        BY <1>0, <2>6, InFlightIds
      <4> QED
        BY <2>2, <4>1 DEF SchedulerInv, Apart
    <3> QED
      BY <2>1, <3>1, <3>2, <3>3 DEF SchedulerInv, Apart
  <2>8. Numbered' /\ Belongs'
    BY <2>1 DEF SchedulerInv, Numbered, Belongs
  <2> QED
    BY <1>0, <1>4, <2>5, <2>7, <2>8 DEF SchedulerInv, OthersKept, TimerStep
<1>5. ASSUME NEW w \in Workers, WorkerTakes(w) PROVE SchedulerInv' /\ OthersKept
  <2>1. /\ tasks # << >> /\ tasks' = Tail(tasks) /\ held' = [held EXCEPT ![w] = Head(tasks)]
        /\ worker[w] = "ready"
        /\ UNCHANGED <<scheduling, pending, closer, taskid, owner, calls>>
    BY <1>5 DEF WorkerTakes, Take, mapVars, alarmVars
  <2>2. /\ Len(tasks) \in Nat \ {0} /\ Len(tasks') = Len(tasks) - 1
        /\ \A i \in 1..Len(tasks') : tasks'[i] = tasks[i + 1]
        /\ Head(tasks) = tasks[1]
    BY <1>0, <2>1, HeadTailProperties, EmptySeq DEF TypeOK, PoolTypeOK
  <2>3. held[w] = NoTask /\ held \in [Workers -> Task \cup {NoTask}]
    BY <1>0, <2>1 DEF TypeOK, PoolTypeOK
  <2>4. held'[w] = tasks[1] /\ \A v \in Workers \ {w} : held'[v] = held[v]
    BY <2>1, <2>2, <2>3
  <2>5. tasks[1] # NoTask
    BY <1>0, <2>2, InFlightIds, Bounds
  <2>6. InFlight' = InFlight
    <3>1. Queued = Queued' \cup {tasks[1]}
      <4>1. \A i \in 1..Len(tasks) : i = 1 \/ (i - 1 \in 1..Len(tasks') /\ tasks[i] = tasks'[i - 1])
        BY <2>2
      <4>2. \A i \in 1..Len(tasks') : i + 1 \in 1..Len(tasks)
        BY <2>2
      <4>3. 1 \in 1..Len(tasks)
        BY <2>2
      <4> QED
        BY <2>2, <4>1, <4>2, <4>3 DEF Queued
    <3>2. {held'[v] : v \in Workers} \ {NoTask}
            = ({held[v] : v \in Workers} \ {NoTask}) \cup {tasks[1]}
      BY <2>3, <2>4, <2>5
    <3> QED
      BY <3>1, <3>2 DEF InFlight
  <2>7. Apart'
    <3>1. \A i, j \in 1..Len(tasks') : tasks'[i].id = tasks'[j].id => i = j
      BY <2>2 DEF SchedulerInv, Apart
    <3>2. \A i \in 1..Len(tasks'), v \in Workers :
            held'[v] # NoTask => held'[v].id # tasks'[i].id
      BY <2>2, <2>4 DEF SchedulerInv, Apart
    <3>3. \A u, v \in Workers :
            held'[u] # NoTask /\ held'[v] # NoTask /\ held'[u].id = held'[v].id => u = v
      BY <2>2, <2>4 DEF SchedulerInv, Apart
    <3> QED
      BY <2>1, <2>6, <3>1, <3>2, <3>3 DEF SchedulerInv, Apart
  <2> QED
    BY <1>0, <2>1, <2>6, <2>7 DEF SchedulerInv, PendingIsLive, Numbered, Belongs, OthersKept
<1>6. ASSUME NEW w \in Workers,
             \/ WorkerSleeps(w) \/ WorkerLeaves(w) \/ WorkerWakes(w) \/ Call(w)
             \/ Return(w) \/ Arm(w) \/ RearmFails(w) \/ JoinItself(w) \/ WaitedItself(w)
      PROVE  SchedulerInv' /\ OthersKept
  <2>1. UNCHANGED <<scheduling, pending, tasks, held, calls, closer, taskid, owner>>
    BY <1>6 DEF WorkerSleeps, WorkerLeaves, WorkerWakes, Sleep, Leave, WakeSpuriously,
                Call, Return, Arm, RearmFails, JoinItself, WaitedItself,
                mapVars, pool, alarmVars
  <2> QED
    BY <1>0, <2>1, SameTasks DEF SchedulerInv, Belongs, OthersKept
<1>7. ASSUME NEW w \in Workers, NEW t \in Ticks, Rearm(w, t) PROVE SchedulerInv' /\ OthersKept
  <2>1. /\ phase[w] = "arming" /\ Schedule(held[w].alarm, t) /\ UNCHANGED <<pool, owner>>
    BY <1>7 DEF Rearm
  <2>2. held[w].alarm \in Alarms
    BY <1>0, <2>1, TaskFields DEF TypeOK, PoolTypeOK
  <2> QED
    BY <1>0, <2>1, <2>2, ScheduleKept DEF SchedulerInv, OthersKept
<1>8. ASSUME NEW w \in Workers, Done(w) PROVE SchedulerInv' /\ OthersKept
  <2>1. /\ held' = [held EXCEPT ![w] = NoTask] /\ pending' = pending \ {held[w].id}
        /\ phase[w] = "done"
        /\ UNCHANGED <<scheduling, tasks, closer, taskid, owner, calls>>
    BY <1>8 DEF Done, Finish, alarmVars
  <2>2. held[w] # NoTask /\ held \in [Workers -> Task \cup {NoTask}]
    BY <1>0, <2>1 DEF TypeOK, PoolTypeOK
  <2>3. held'[w] = NoTask /\ \A v \in Workers \ {w} : held'[v] = held[v]
    BY <2>1, <2>2
  <2>4. Queued' = Queued /\ InFlight' = Queued \cup ({held'[v] : v \in Workers} \ {NoTask})
    BY <2>1 DEF Queued, InFlight
  <2>5. InFlight = InFlight' \cup {held[w]}
    BY <2>2, <2>3, <2>4 DEF InFlight
  <2>6. \A u \in InFlight' : u.id # held[w].id
    <3> SUFFICES ASSUME NEW u \in InFlight' PROVE u.id # held[w].id
      OBVIOUS
    <3>1. CASE u \in Queued
      BY <2>2, <3>1 DEF SchedulerInv, Apart, Queued
    <3>2. CASE \E v \in Workers \ {w} : u = held[v] /\ u # NoTask
      BY <2>2, <3>2 DEF SchedulerInv, Apart
    <3> QED
      BY <2>3, <2>4, <3>1, <3>2
  <2>7. \A u \in scheduling : u.id # held[w].id
    BY <2>5 DEF SchedulerInv, Apart
  <2>8. Ids(scheduling' \cup InFlight') = Ids(scheduling \cup InFlight) \ {held[w].id}
    BY <2>1, <2>5, <2>6, <2>7 DEF Ids
  <2>9. PendingIsLive'
    BY <2>1, <2>8 DEF SchedulerInv, PendingIsLive
  <2>10. Apart'
    BY <2>1, <2>3, <2>5 DEF SchedulerInv, Apart
  <2> QED
    BY <1>0, <2>1, <2>9, <2>10 DEF SchedulerInv, Numbered, Belongs, OthersKept
<1>9. CASE Close \/ Tick \/ TimerSleeps
  <2>1. UNCHANGED <<scheduling, pending, tasks, held, calls, taskid, owner>>
    BY <1>9 DEF Close, Destroy, Tick, TimerSleeps, mapVars, pool, alarmVars
  <2>2. closer' = "open" => closer = "open"
    BY <1>9 DEF Close, Destroy, Tick, TimerSleeps, pool
  <2> QED
    BY <1>0, <2>1, <2>2, SameTasks DEF SchedulerInv, Belongs, OthersKept
<1>10. CASE ClearTasks
  <2>1. /\ Len(tasks') = 0 /\ closer' # "open"
        /\ UNCHANGED <<scheduling, pending, held, taskid, owner, calls>>
    BY <1>10, EmptySeq DEF ClearTasks, Clear, mapVars, alarmVars
  <2>2. InFlight' \subseteq InFlight
    BY <2>1 DEF InFlight, Queued
  <2>3. Apart' /\ PendingIsLive'
    BY <2>1, <2>2 DEF SchedulerInv, Apart, PendingIsLive, Ids
  <2> QED
    BY <1>0, <2>1, <2>3 DEF SchedulerInv, Numbered, Belongs, OthersKept
<1>11. CASE ClearScheduling
  <2>1. /\ scheduling' = {} /\ pending' = pending \ Ids(scheduling)
        /\ closer' = "clearing"
        /\ UNCHANGED <<tasks, held, taskid, owner, calls>>
    BY <1>11 DEF ClearScheduling, pool, alarmVars
  <2>2. UNCHANGED InFlight
    BY <2>1 DEF InFlight, Queued
  <2>3. PendingIsLive'
    BY <2>1, <2>2 DEF SchedulerInv, Apart, PendingIsLive, Ids
  <2> QED
    BY <1>0, <1>11, <2>1, <2>2, <2>3 DEF SchedulerInv, Apart, Numbered, Belongs, OthersKept
<1>12. CASE UNCHANGED vars
  <2>1. UNCHANGED <<scheduling, pending, tasks, held, calls, closer, taskid, owner>>
    BY <1>12 DEF vars, mapVars, pool, alarmVars
  <2> QED
    BY <1>0, <1>12, <2>1, SameTasks DEF SchedulerInv, Belongs
<1> QED
  BY <1>1, <1>2, <1>3, <1>4, <1>5, <1>6, <1>7, <1>8, <1>9, <1>10, <1>11, <1>12
     DEF Next, OwnerStep, TimerStep, TaskStep

\* A scheduler without tasks, none of whose workers is left.
LEMMA EmptyOK ==
  ASSUME tasks = << >>, worker = [w \in Workers |-> "gone"],
         held = [w \in Workers |-> NoTask], closer = "closed", begun = {},
         now = MaxTime, scheduling = {}, pending = {}, timer = Never,
         phase = [w \in Workers |-> "none"], taskid = [x \in Alarms |-> NoId],
         alarmJoining = [x \in Alarms |-> TRUE],
         owner = [x \in Alarms |-> [at |-> "joined", id |-> NoId]], calls = 0
  PROVE  SchedulerInv
<1>1. InFlight = {} /\ Queued = {} /\ Len(tasks) = 0
  BY EmptySeq DEF InFlight, Queued
<1>2. PoolTypeOK
  BY EmptySeq DEF PoolTypeOK, WorkerStates
<1>3. MaxTime \in Ticks /\ Never \in 0 .. Never /\ 0 \in 0 .. MaxCalls
  BY Bounds DEF Ticks
<1>4. TypeOK
  BY <1>2, <1>3, Bounds DEF TypeOK, Phases
<1> QED
  BY <1>1, <1>4 DEF SchedulerInv, PendingIsLive, Apart, Numbered, Belongs, Ids

\* The states of the scheduler keep their types: among others, exactly the
\* workers that hold a task are in one of its phases (scheduler.hpp:157-171).
THEOREM SchedulerTyped == Spec => []TypeOK
<1>1. SchedulerInv => TypeOK
  BY DEF SchedulerInv
<1> QED
  BY InvInit, InvKept, <1>1, PTL DEF Spec

\* wait() waits for exactly the tasks that may still run, for any number of
\* workers and alarms: ids are given again, copied outside the mutex and
\* cancelled late, and still no id leaves "pending" before its task
\* (scheduler.hpp:197).
THEOREM PendingAlwaysLive == Spec => []PendingIsLive
<1>1. SchedulerInv => PendingIsLive
  BY DEF SchedulerInv
<1> QED
  BY InvInit, InvKept, <1>1, PTL DEF Spec

\* No call of schedule() or cancel() takes a task of another alarm off the map,
\* though the id it goes by may be stale (scheduler.hpp:130-145, 208).
THEOREM OthersAlwaysKept == Spec => KeepsOthers
BY InvInit, InvKept, PTL DEF Spec, KeepsOthers

-----------------------------------------------------------------------------
(* Threads that sleep: the safety under DueIsRun.                          *)

\* The scheduling thread sleeps no longer than until the first task of the map.
NeverLate == \A t \in scheduling : timer <= t.id[1]

LEMMA NeverLateKept == TypeOK /\ Numbered /\ NeverLate /\ [Next]_vars => NeverLate'
<1> SUFFICES ASSUME TypeOK, Numbered, NeverLate, [Next]_vars, NEW t \in scheduling'
             PROVE  timer' <= t.id[1]
  BY DEF NeverLate
<1>0. TypeOK' /\ \A u \in scheduling' : u.id[1] \in Nat /\ u.id[1] \in Ticks
  BY TypeKept, TaskFields, Bounds DEF TypeOK, Ticks
<1>1. CASE timer' = Notified
  BY <1>0, <1>1 DEF Notified
<1>2. CASE TimerSleeps
  <2>1. scheduling' = scheduling /\ scheduling # {} /\ timer' = Earliest.id[1]
    BY <1>2 DEF TimerSleeps
  <2>2. Before(Earliest.id, t.id) /\ Earliest \in scheduling
    BY <2>1, EarliestIsFirst DEF TypeOK
  <2> QED
    BY <1>0, <2>1, <2>2 DEF Before
<1>3. CASE timer' = timer /\ scheduling' \subseteq scheduling
  BY <1>3 DEF NeverLate
<1>4. CASE ~(timer' = timer /\ scheduling' \subseteq scheduling)
  <2>1. \/ timer' = Notified \/ TimerSleeps
        \/ timer' = timer /\ scheduling' \subseteq scheduling
    BY DEF Next, vars, mapVars, OwnerSchedules, OwnerCancels, OwnerJoins, OwnerStep, Cancel,
           Waited, TimerStep, Dispatch, Tick, TaskStep, WorkerTakes, WorkerSleeps,
           WorkerLeaves, WorkerWakes, Call, Return, Arm, Rearm, RearmFails, JoinItself,
           WaitedItself, Done, Close, ClearScheduling, ClearTasks, Schedule
  <2> QED
    BY <1>1, <1>2, <1>4, <2>1
<1> QED
  BY <1>3, <1>4

\* The scheduling thread never sleeps past a task: schedule() notifies it after
\* the unlock, cancel() if it took one, clear() always (scheduler.hpp:89-97, 158).
THEOREM TimerNeverLate == Spec => []NeverLate
<1>1. Init => NeverLate
  BY DEF Init, NeverLate
<1>2. SchedulerInv => TypeOK /\ Numbered
  BY DEF SchedulerInv
<1> QED
  BY InvInit, InvKept, NeverLateKept, <1>1, <1>2, PTL DEF Spec

\* Workers are counted as they wake and go.
LEMMA ReadyCount ==
  ASSUME PoolTypeOK
  PROVE  IsFiniteSet(In("ready")) /\ Cardinality(In("ready")) \in Nat
<1>1. In("ready") \subseteq Workers /\ IsFiniteSet(Workers)
  BY SchedulerAssumption DEF In
<1> QED
  BY <1>1, FS_Subset, FS_CardinalityType

LEMMA OneMoreReady ==
  ASSUME PoolTypeOK, NEW w \in Workers, worker[w] # "ready",
         worker' = [worker EXCEPT ![w] = "ready"]
  PROVE  Cardinality(In("ready")') = Cardinality(In("ready")) + 1
<1>1. In("ready")' = In("ready") \cup {w} /\ w \notin In("ready")
  BY DEF In, PoolTypeOK
<1>2. Cardinality(In("ready") \cup {w}) = Cardinality(In("ready")) + 1
  BY <1>1, ReadyCount, FS_AddElement
<1> QED
  BY <1>1, <1>2

LEMMA OneLessReady ==
  ASSUME PoolTypeOK, NEW w \in Workers, worker[w] = "ready",
         NEW state, state # "ready", worker' = [worker EXCEPT ![w] = state]
  PROVE  Cardinality(In("ready")') = Cardinality(In("ready")) - 1
<1>1. In("ready")' = In("ready") \ {w} /\ w \in In("ready")
  BY DEF In, PoolTypeOK
<1>2. Cardinality(In("ready") \ {w}) = Cardinality(In("ready")) - 1
  BY <1>1, ReadyCount, FS_RemoveElement
<1> QED
  BY <1>1, <1>2

LEMMA AwakeKept == TypeOK /\ TypeOK' /\ NoLostWakeup /\ [Next]_vars => NoLostWakeup'
<1> SUFFICES ASSUME TypeOK, TypeOK', NoLostWakeup, [Next]_vars, In("asleep")' # {}
             PROVE  Len(tasks') <= Cardinality(In("ready")')
  BY DEF NoLostWakeup
<1>0. /\ PoolTypeOK /\ Len(tasks) \in Nat
      /\ Cardinality(In("ready")) \in Nat /\ Cardinality(In("ready")') \in Nat
  <2>1. In("ready")' \subseteq Workers /\ IsFiniteSet(Workers)
    BY SchedulerAssumption DEF In
  <2> QED
    BY <2>1, ReadyCount, LenProperties, FS_Subset, FS_CardinalityType DEF TypeOK, PoolTypeOK
<1>1. CASE Dispatch
  <2>1. Earliest \in Task /\ tasks' = Append(tasks, Earliest) /\ NotifyOne
    BY <1>1, EarliestIsFirst DEF Dispatch, TypeOK
  <2>2. Len(tasks') = Len(tasks) + 1
    BY <1>0, <2>1, AppendProperties DEF PoolTypeOK
  <2>3. PICK w \in In("asleep") : worker' = [worker EXCEPT ![w] = "ready"]
    BY <2>1 DEF NotifyOne, In
  <2>4. Cardinality(In("ready")') = Cardinality(In("ready")) + 1
    BY <1>0, <2>3, OneMoreReady DEF In
  <2> QED
    BY <1>0, <2>2, <2>3, <2>4 DEF NoLostWakeup
<1>2. ASSUME NEW w \in Workers, WorkerTakes(w)
      PROVE  Len(tasks') <= Cardinality(In("ready")')
  <2>1. Take(w)
    BY <1>2 DEF WorkerTakes
  <2>2. Len(tasks') = Len(tasks) - 1
    BY <1>0, <2>1, HeadTailProperties DEF Take, PoolTypeOK
  <2>3. Cardinality(In("ready")') = Cardinality(In("ready")) - 1
    BY <1>0, <2>1, OneLessReady DEF Take
  <2>4. In("asleep") # {}
    BY <1>0, <2>1 DEF Take, In, PoolTypeOK
  <2> QED
    BY <1>0, <2>2, <2>3, <2>4 DEF NoLostWakeup
<1>3. ASSUME NEW w \in Workers, Done(w) \/ WorkerWakes(w)
      PROVE  Len(tasks') <= Cardinality(In("ready")')
  <2>1. /\ worker[w] # "ready" /\ worker' = [worker EXCEPT ![w] = "ready"]
        /\ tasks' = tasks
    BY <1>3 DEF Done, Finish, WorkerWakes, WakeSpuriously
  <2>2. Cardinality(In("ready")') = Cardinality(In("ready")) + 1
    BY <1>0, <2>1, OneMoreReady
  <2>3. In("asleep") # {}
    BY <1>0, <2>1 DEF In, PoolTypeOK
  <2> QED
    BY <1>0, <2>1, <2>2, <2>3 DEF NoLostWakeup
<1>4. CASE Len(tasks') = 0
  BY <1>0, <1>4
<1>5. CASE UNCHANGED <<tasks, worker>>
  BY <1>5 DEF NoLostWakeup, In
<1>6. \/ Dispatch \/ Len(tasks') = 0 \/ UNCHANGED <<tasks, worker>>
      \/ \E w \in Workers : WorkerTakes(w) \/ Done(w) \/ WorkerWakes(w)
  <2>1. \A w \in Workers : WorkerSleeps(w) \/ WorkerLeaves(w) => Len(tasks') = 0
    BY EmptySeq DEF WorkerSleeps, WorkerLeaves, Sleep, Leave
  <2>2. ClearTasks => Len(tasks') = 0
    BY EmptySeq DEF ClearTasks, Clear
  <2> QED
    BY <2>1, <2>2
       DEF Next, vars, pool, OwnerSchedules, OwnerCancels, OwnerJoins, OwnerStep, Cancel,
           Waited, TimerStep, TimerSleeps, Tick, TaskStep, Call, Return, Arm, Rearm,
           RearmFails, JoinItself, WaitedItself, Close, Destroy, ClearScheduling
<1> QED
  BY <1>1, <1>2, <1>3, <1>4, <1>5, <1>6

\* No lost wake-up in the scheduler's own pool either, whose queue the
\* scheduling thread fills without a look at the flag "joining"
\* (scheduler.hpp:100-103): no task that is due is left to sleeping workers.
THEOREM DueWakesAWorker == Spec => []NoLostWakeup
<1>1. Init => NoLostWakeup
  BY DEF Init, PoolInit, NoLostWakeup, In
<1>2. SchedulerInv => TypeOK
  BY DEF SchedulerInv
<1> QED
  BY InvInit, InvKept, AwakeKept, <1>1, <1>2, PTL DEF Spec

-----------------------------------------------------------------------------
(* The scheduler as a pool: what it hands over, it hands over once.        *)

\* No task is at two places, or at the same place twice.
HandedOnce ==
  /\ \A t \in scheduling \cup Queued \cup begun : t.call <= calls
  /\ scheduling \cap (Queued \cup begun) = {} /\ Queued \cap begun = {}
  /\ \A i, j \in 1..Len(tasks) : tasks[i] = tasks[j] => i = j

\* The only step by which the scheduler departs from its pool: it goes on
\* queueing tasks when enqueue() would throw.
QueuesWhileClosing == joining /\ Dispatch

LEMMA HandedOnceInit == Init => HandedOnce
<1> SUFFICES ASSUME Init PROVE HandedOnce
  OBVIOUS
<1>1. scheduling = {} /\ Queued = {} /\ begun = {} /\ Len(tasks) = 0
  BY EmptySeq DEF Init, PoolInit, Queued
<1> QED
  BY <1>1 DEF HandedOnce

LEMMA TakeHandsOver ==
  ASSUME TypeOK, HandedOnce, NEW w \in Workers, Take(w)
  PROVE  /\ Head(tasks) \notin begun /\ begun' = begun \cup {Head(tasks)}
         /\ Queued = Queued' \cup {Head(tasks)} /\ Head(tasks) \notin Queued'
         /\ \A i, j \in 1..Len(tasks') : tasks'[i] = tasks'[j] => i = j
<1>1. /\ Len(tasks) \in Nat \ {0} /\ Len(tasks') = Len(tasks) - 1
      /\ \A i \in 1..Len(tasks') : tasks'[i] = tasks[i + 1]
      /\ Head(tasks) = tasks[1]
  BY HeadTailProperties, EmptySeq DEF TypeOK, PoolTypeOK, Take
<1>2. 1 \in 1..Len(tasks) /\ \A i \in 1..Len(tasks') : i + 1 \in 1..Len(tasks) /\ i + 1 # 1
  BY <1>1
<1>3. Head(tasks) \in Queued /\ Head(tasks) \notin Queued'
  BY <1>1, <1>2 DEF Queued, HandedOnce
<1>4. Queued = Queued' \cup {Head(tasks)}
  <2>1. \A i \in 1..Len(tasks) : i = 1 \/ (i - 1 \in 1..Len(tasks') /\ tasks[i] = tasks'[i - 1])
    BY <1>1
  <2> QED
    BY <1>1, <1>2, <2>1 DEF Queued
<1>5. \A i, j \in 1..Len(tasks') : tasks'[i] = tasks'[j] => i = j
  BY <1>1, <1>2 DEF HandedOnce
<1> QED
  BY <1>3, <1>4, <1>5 DEF Take, HandedOnce

LEMMA DispatchHandsOver ==
  ASSUME TypeOK, HandedOnce, Dispatch
  PROVE  /\ Earliest \in scheduling /\ Earliest \in Task
         /\ Earliest \notin Queued \cup begun
         /\ Queued' = Queued \cup {Earliest}
         /\ \A i, j \in 1..Len(tasks') : tasks'[i] = tasks'[j] => i = j
<1> DEFINE e == Earliest
<1>1. e \in scheduling /\ e \in Task /\ tasks' = Append(tasks, e)
  BY EarliestIsFirst DEF Dispatch, TypeOK
<1> HIDE DEF e
<1>2. /\ Len(tasks) \in Nat /\ Len(tasks') = Len(tasks) + 1
      /\ \A i \in 1..Len(tasks) : tasks'[i] = tasks[i]
      /\ tasks'[Len(tasks) + 1] = e
  BY <1>1, AppendProperties, LenProperties DEF TypeOK, PoolTypeOK
<1>3. e \notin Queued \cup begun
  BY <1>1 DEF HandedOnce
<1>4. \A i \in 1..Len(tasks) : tasks[i] # e
  BY <1>3 DEF Queued
<1>5. \A i, j \in 1..Len(tasks') : tasks'[i] = tasks'[j] => i = j
  BY <1>2, <1>4 DEF HandedOnce
<1>6. Queued' = Queued \cup {e}
  BY <1>2 DEF Queued
<1> QED
  BY <1>1, <1>3, <1>5, <1>6 DEF e

\* schedule() adds a task that was never there.
LEMMA ScheduleHandsOver ==
  ASSUME TypeOK, HandedOnce, NEW a, NEW t, Schedule(a, t), UNCHANGED pool
  PROVE  HandedOnce'
<1> DEFINE new == [id |-> NewId(t, scheduling \ Found(taskid[a])), alarm |-> a,
                   call |-> calls + 1]
<1>1. scheduling' \subseteq scheduling \cup {new} /\ calls' = calls + 1 /\ calls \in Nat
  BY Bounds DEF Schedule, TypeOK
<1>2. new.call = calls + 1
  OBVIOUS
<1> HIDE DEF new
<1>3. \A u \in scheduling \cup Queued \cup begun : u.call \in Nat
  <2>1. \A u \in Task : u.call \in Nat
    BY Bounds, TaskFields
  <2>2. scheduling \cup Queued \cup begun \subseteq Task
    BY InFlightIds DEF TypeOK, PoolTypeOK, InFlight
  <2> QED
    BY <2>1, <2>2
<1>4. UNCHANGED <<Queued, begun, tasks>>
  BY DEF pool, Queued
<1>5. new \notin Queued \cup begun
  BY <1>1, <1>2 DEF HandedOnce
<1>6. \A u \in scheduling' \cup Queued' \cup begun' : u.call <= calls'
  BY <1>1, <1>2, <1>3, <1>4 DEF HandedOnce
<1> QED
  BY <1>1, <1>4, <1>5, <1>6 DEF HandedOnce

LEMMA HandedOnceKept == TypeOK /\ HandedOnce /\ [Next]_vars => HandedOnce'
<1> SUFFICES ASSUME TypeOK, HandedOnce, [Next]_vars PROVE HandedOnce'
  OBVIOUS
<1>1. ASSUME NEW a \in Alarms, NEW t \in Ticks, OwnerSchedules(a, t) PROVE HandedOnce'
  BY <1>1, ScheduleHandsOver DEF OwnerSchedules
<1>2. ASSUME NEW w \in Workers, NEW t \in Ticks, Rearm(w, t) PROVE HandedOnce'
  BY <1>2, ScheduleHandsOver DEF Rearm
<1>3. CASE Dispatch
  <2>1. scheduling' = scheduling \ {Earliest} /\ UNCHANGED <<begun, calls>>
    BY <1>3 DEF Dispatch, alarmVars
  <2> QED
    BY <1>3, <2>1, DispatchHandsOver DEF HandedOnce
<1>4. ASSUME NEW w \in Workers, WorkerTakes(w) PROVE HandedOnce'
  <2>1. Take(w) /\ UNCHANGED <<scheduling, calls>>
    BY <1>4 DEF WorkerTakes, mapVars, alarmVars
  <2> QED
    BY <2>1, TakeHandsOver DEF HandedOnce
<1>5. CASE /\ scheduling' \subseteq scheduling
           /\ UNCHANGED <<begun, calls>> /\ (tasks' = tasks \/ tasks' = << >>)
  <2>1. Queued' \subseteq Queued
    BY <1>5, EmptySeq DEF Queued
  <2>2. \A i, j \in 1..Len(tasks') : tasks'[i] = tasks'[j] => i = j
    BY <1>5, EmptySeq DEF HandedOnce
  <2> QED
    BY <1>5, <2>1, <2>2 DEF HandedOnce
<1>6. CASE \E a \in Alarms : OwnerCancels(a) \/ OwnerJoins(a) \/ Cancel(a) \/ Waited(a)
  BY <1>5, <1>6 DEF OwnerCancels, OwnerJoins, Cancel, Waited, mapVars, pool
<1>7. CASE \E w \in Workers :
             \/ WorkerSleeps(w) \/ WorkerLeaves(w) \/ WorkerWakes(w) \/ Call(w)
             \/ Return(w) \/ Arm(w) \/ RearmFails(w) \/ JoinItself(w) \/ WaitedItself(w)
             \/ Done(w)
  BY <1>5, <1>7 DEF WorkerSleeps, WorkerLeaves, WorkerWakes, Sleep, Leave, WakeSpuriously,
                Call, Return, Arm, RearmFails, JoinItself, WaitedItself, Done, Finish,
                mapVars, pool, alarmVars
<1>8. CASE TimerSleeps \/ Tick \/ Close \/ ClearScheduling \/ ClearTasks \/ UNCHANGED vars
  BY <1>5, <1>8 DEF TimerSleeps, Tick, Close, Destroy, ClearScheduling, ClearTasks, Clear,
                vars, mapVars, pool, alarmVars
<1> QED
  BY <1>1, <1>2, <1>3, <1>4, <1>6, <1>7, <1>8 DEF Next, OwnerStep, TimerStep, TaskStep

LEMMA HandedOnceAlways == Spec => [](SchedulerInv /\ HandedOnce)
<1>1. SchedulerInv => TypeOK
  BY DEF SchedulerInv
<1> QED
  BY InvInit, InvKept, HandedOnceInit, HandedOnceKept, <1>1, PTL DEF Spec

\* A call of schedule() is run at most once, by one worker, whatever is
\* cancelled, scheduled again or destroyed meanwhile: what leaves the map is
\* erased from it in the critical section that queues it (scheduler.hpp:100-103).
THEOREM RunsOnce ==
  Spec => [][\A w \in Workers : WorkerTakes(w) => Head(tasks) \notin begun]_vars
<1>1. SchedulerInv /\ HandedOnce
        => [\A w \in Workers : WorkerTakes(w) => Head(tasks) \notin begun]_vars
  BY TakeHandsOver DEF WorkerTakes, SchedulerInv
<1> QED
  BY HandedOnceAlways, <1>1, PTL

\* To its workers the scheduler is a ThreadPool whose queue the scheduling
\* thread fills, each task once.  It departs from the pool in one way only: the
\* thread does not look at "joining", so that it goes on queueing what is due
\* while the scheduler is destroyed (scheduler.hpp:100-103, threadpool.hpp:113).
THEOREM ImplementsPool ==
  Spec => PoolInit /\ [][PoolNext \/ QueuesWhileClosing]_poolVars
<1>1. Init => PoolInit
  BY DEF Init
<1>2. SchedulerInv /\ HandedOnce /\ [Next]_vars => [PoolNext \/ QueuesWhileClosing]_poolVars
  <2> SUFFICES ASSUME SchedulerInv, HandedOnce, [Next]_vars
               PROVE  [PoolNext \/ QueuesWhileClosing]_poolVars
    OBVIOUS
  <2>0. TypeOK
    BY DEF SchedulerInv
  <2>1. CASE Dispatch
    <3>1. CASE joining
      BY <2>1, <3>1 DEF QueuesWhileClosing
    <3>2. CASE ~joining
      <4>1. Earliest \in Task /\ Earliest \notin Queued \cup begun
        BY <2>0, <2>1, DispatchHandsOver
      <4>2. Enqueue(Earliest)
        BY <2>1, <3>2, <4>1 DEF Dispatch, Enqueue
      <4> QED
        BY <4>1, <4>2 DEF PoolNext
    <3> QED
      BY <3>1, <3>2
  <2>2. CASE \E w \in Workers : WorkerTakes(w) \/ WorkerSleeps(w) \/ WorkerLeaves(w)
                                  \/ WorkerWakes(w) \/ Done(w)
    BY <2>2 DEF WorkerTakes, WorkerSleeps, WorkerLeaves, WorkerWakes, Done, WorkerStep, PoolNext
  <2>3. CASE Close \/ ClearTasks
    BY <2>3 DEF Close, ClearTasks, CloserStep, PoolNext
  <2>4. CASE UNCHANGED pool
    BY <2>4 DEF pool, poolVars
  <2>5. \/ Dispatch \/ Close \/ ClearTasks \/ UNCHANGED pool
        \/ \E w \in Workers : WorkerTakes(w) \/ WorkerSleeps(w) \/ WorkerLeaves(w)
                                \/ WorkerWakes(w) \/ Done(w)
    BY DEF Next, vars, OwnerSchedules, OwnerCancels, OwnerJoins, OwnerStep, Cancel,
           Waited, TimerStep, TimerSleeps, Tick, TaskStep, Call, Return, Arm, Rearm,
           RearmFails, JoinItself, WaitedItself, ClearScheduling
  <2> QED
    BY <2>1, <2>2, <2>3, <2>4, <2>5
<1> QED
  BY HandedOnceAlways, <1>1, <1>2, PTL DEF Spec

-----------------------------------------------------------------------------
(* What a join promises.                                                   *)

\* The task a join has waited for, known by the id it copied, is over.
JoinedTaskIsOver ==
  \A a \in Alarms : owner[a].at = "joined" =>
    \A t \in scheduling \cup InFlight : t.id # owner[a].id

\* A step that adds no task and ends no join.
LEMMA NothingNew ==
  ASSUME JoinedTaskIsOver, scheduling' \cup InFlight' \subseteq scheduling \cup InFlight,
         \A a \in Alarms : owner'[a].at = "joined" => owner'[a] = owner[a]
  PROVE  JoinedTaskIsOver'
BY DEF JoinedTaskIsOver

\* An id that is given again is nobody's who joins by it.
LEMMA NewIsNotJoined ==
  ASSUME SchedulerInv, JoinedTaskIsOver, NEW b \in Alarms, NEW t \in Ticks,
         Schedule(b, t), UNCHANGED <<pool, owner>>
  PROVE  JoinedTaskIsOver'
<1> DEFINE kept == scheduling \ Found(taskid[b])
           id == NewId(t, kept)
           new == [id |-> id, alarm |-> b, call |-> calls + 1]
<1>1. id \in Ticks \X (1..MaxCalls) /\ id[1] = t
  <2>1. /\ kept \in SUBSET Task /\ calls \in 0..MaxCalls /\ calls < MaxCalls
        /\ \A u \in kept : u.id[2] <= calls
    BY DEF SchedulerInv, TypeOK, Numbered, Schedule
  <2> QED
    BY <2>1, NewIdIsFree
<1>2. scheduling' = kept \cup {new} /\ Distinct(t)
  BY DEF Schedule
<1>3. new.id = id
  OBVIOUS
<1> HIDE DEF id, new
<1>4. id # NoId
  BY <1>1, Bounds DEF NoId
<1>5. UNCHANGED InFlight
  BY DEF pool, InFlight, Queued
<1>6. ASSUME NEW a \in Alarms, owner[a].at = "joined" PROVE id # owner[a].id
  <2> SUFFICES ASSUME id = owner[a].id PROVE FALSE
    OBVIOUS
  <2>1. id \in Ids(scheduling)
    BY <1>1, <1>2, <1>4 DEF Distinct, Remembered
  <2> QED
    BY <1>6, <2>1 DEF JoinedTaskIsOver, Ids
<1> QED
  BY <1>2, <1>3, <1>5, <1>6 DEF JoinedTaskIsOver

LEMMA JoinedKept == SchedulerInv /\ JoinedTaskIsOver /\ [Next]_vars => JoinedTaskIsOver'
<1> SUFFICES ASSUME SchedulerInv, JoinedTaskIsOver, [Next]_vars PROVE JoinedTaskIsOver'
  OBVIOUS
<1>0. TypeOK
  BY DEF SchedulerInv
<1>1. ASSUME NEW b \in Alarms, NEW t \in Ticks, OwnerSchedules(b, t) PROVE JoinedTaskIsOver'
  BY <1>1, NewIsNotJoined DEF OwnerSchedules
<1>2. ASSUME NEW w \in Workers, NEW t \in Ticks, Rearm(w, t) PROVE JoinedTaskIsOver'
  <2>1. held[w].alarm \in Alarms
    BY <1>0, <1>2, TaskFields DEF TypeOK, PoolTypeOK, Rearm
  <2> QED
    BY <1>2, <2>1, NewIsNotJoined DEF Rearm
<1>3. ASSUME NEW b \in Alarms, Waited(b) PROVE JoinedTaskIsOver'
  <2>1. /\ owner[b].id \notin pending /\ UNCHANGED <<scheduling, tasks, held>>
        /\ owner' = [owner EXCEPT ![b].at = "joined"]
    BY <1>3 DEF Waited, mapVars, pool
  <2>2. UNCHANGED InFlight
    BY <2>1 DEF InFlight, Queued
  <2>3. /\ owner'[b].id = owner[b].id
        /\ \A a \in Alarms \ {b} : owner'[a] = owner[a]
    BY <1>0, <2>1 DEF TypeOK
  <2>4. \A t \in scheduling \cup InFlight : t.id # owner[b].id
    BY <2>1 DEF SchedulerInv, PendingIsLive, Ids
  <2> QED
    BY <2>1, <2>2, <2>3, <2>4 DEF JoinedTaskIsOver
<1>4. ASSUME NEW b \in Alarms, OwnerCancels(b) \/ OwnerJoins(b) \/ Cancel(b)
      PROVE  JoinedTaskIsOver'
  <2>1. scheduling' \subseteq scheduling /\ UNCHANGED <<tasks, held>>
    BY <1>4 DEF OwnerCancels, OwnerJoins, Cancel, mapVars, pool
  <2>2. UNCHANGED InFlight
    BY <2>1 DEF InFlight, Queued
  <2>3. owner'[b].at # "joined" /\ \A a \in Alarms \ {b} : owner'[a] = owner[a]
    BY <1>0, <1>4 DEF OwnerCancels, OwnerJoins, Cancel, TypeOK
  <2> QED
    BY <2>1, <2>2, <2>3, NothingNew
<1>5. CASE Dispatch
  <2>1. Earliest \in scheduling /\ Earliest \in Task /\ UNCHANGED <<held, owner>>
        /\ scheduling' \subseteq scheduling /\ tasks' = Append(tasks, Earliest)
    BY <1>0, <1>5, EarliestIsFirst DEF Dispatch, TypeOK, alarmVars
  <2>2. Queued' \subseteq Queued \cup {Earliest}
    BY <1>0, <2>1, AppendProperties DEF Queued, TypeOK, PoolTypeOK
  <2> QED
    BY <2>1, <2>2, NothingNew DEF InFlight
<1>6. ASSUME NEW w \in Workers, WorkerTakes(w) PROVE JoinedTaskIsOver'
  <2>1. Take(w) /\ UNCHANGED <<scheduling, owner>>
    BY <1>6 DEF WorkerTakes, mapVars, alarmVars
  <2>2. Queued' \subseteq Queued /\ Head(tasks) \in Queued
    <3>1. /\ Len(tasks) \in Nat \ {0} /\ Len(tasks') = Len(tasks) - 1
          /\ \A i \in 1..Len(tasks') : tasks'[i] = tasks[i + 1]
          /\ Head(tasks) = tasks[1]
      BY <1>0, <2>1, HeadTailProperties, EmptySeq DEF TypeOK, PoolTypeOK, Take
    <3>2. 1 \in 1..Len(tasks) /\ \A i \in 1..Len(tasks') : i + 1 \in 1..Len(tasks)
      BY <3>1
    <3> QED
      BY <3>1, <3>2 DEF Queued
  <2>3. \A v \in Workers : held'[v] = held[v] \/ held'[v] = Head(tasks)
    BY <1>0, <2>1 DEF Take, TypeOK, PoolTypeOK
  <2>4. InFlight' \subseteq InFlight
    BY <2>2, <2>3 DEF InFlight
  <2> QED
    BY <2>1, <2>4, NothingNew
<1>7. ASSUME NEW w \in Workers, Done(w) PROVE JoinedTaskIsOver'
  <2>1. /\ held' = [held EXCEPT ![w] = NoTask]
        /\ UNCHANGED <<scheduling, tasks, owner>>
    BY <1>7 DEF Done, Finish, alarmVars
  <2>2. \A v \in Workers : held'[v] = held[v] \/ held'[v] = NoTask
    BY <1>0, <2>1 DEF TypeOK, PoolTypeOK
  <2>3. InFlight' \subseteq InFlight
    BY <2>1, <2>2 DEF InFlight, Queued
  <2> QED
    BY <2>1, <2>3, NothingNew
<1>8. CASE /\ scheduling' \subseteq scheduling /\ UNCHANGED <<held, owner>>
           /\ (tasks' = tasks \/ tasks' = << >>)
  <2>1. InFlight' \subseteq InFlight
    BY <1>8, EmptySeq DEF InFlight, Queued
  <2> QED
    BY <1>8, <2>1, NothingNew
<1>9. CASE \E w \in Workers :
             \/ WorkerSleeps(w) \/ WorkerLeaves(w) \/ WorkerWakes(w) \/ Call(w)
             \/ Return(w) \/ Arm(w) \/ RearmFails(w) \/ JoinItself(w) \/ WaitedItself(w)
  BY <1>8, <1>9 DEF WorkerSleeps, WorkerLeaves, WorkerWakes, Sleep, Leave, WakeSpuriously,
                Call, Return, Arm, RearmFails, JoinItself, WaitedItself,
                mapVars, pool, alarmVars
<1>10. CASE TimerSleeps \/ Tick \/ Close \/ ClearScheduling \/ ClearTasks \/ UNCHANGED vars
  BY <1>8, <1>10 DEF TimerSleeps, Tick, Close, Destroy, ClearScheduling, ClearTasks, Clear,
                vars, mapVars, pool, alarmVars
<1> QED
  BY <1>1, <1>2, <1>3, <1>4, <1>5, <1>6, <1>7, <1>9, <1>10
     DEF Next, OwnerStep, TimerStep, TaskStep

\* What Alarm::join does promise, although a callback may still run after it
\* (the run sched_join shows one): the task whose id was copied has left the
\* map, the queue and the workers (scheduler.hpp:197, alarm.hpp).  That wait()
\* is not fooled by an id that came back rests on the times: as the clock
\* counts nanoseconds, one that somebody remembers is not drawn again (Distinct).
THEOREM JoinedTaskStaysOver == Spec => []JoinedTaskIsOver
<1>1. Init => JoinedTaskIsOver
  BY DEF Init, JoinedTaskIsOver
<1> QED
  BY InvInit, InvKept, JoinedKept, <1>1, PTL DEF Spec
=============================================================================
