------------------------------ MODULE MCSafety ------------------------------
(***************************************************************************)
(* What must never go wrong, whatever runs and whatever does not: the      *)
(* scheduler while it is destroyed, the task that publishes, values on     *)
(* their way to the closest nodes, threads that look for a key.  They have *)
(* no state in common.  A behaviour plays one of them and the others are   *)
(* off, so that the states add up and do not multiply.  There is no        *)
(* fairness here, hence alarms and workers may be interchanged.            *)
(***************************************************************************)
EXTENDS Scheduler, Publishing, Table, Retrieve, TLC

\* All workers do the same, and so do all alarms.
Symmetry == Permutations(Workers) \cup Permutations(Alarms)

\* Four peers, the key nearest to the first: they may be connected in any way
\* that leaves nobody alone.
FourPeers == 1 .. 4
Identity == [p \in FourPeers |-> p]
Leaves(g, S) == \E p \in S : g[p] \ S # {}
Connected ==
  {g \in [FourPeers -> SUBSET FourPeers] :
     /\ \A p \in FourPeers : p \notin g[p] /\ \A q \in g[p] : p \in g[q]
     /\ \A S \in SUBSET FourPeers \ {{}, FourPeers} : Leaves(g, S)}

\* Blocks are interchangeable until they are in the table.
OneTable(n) == CHOOSE t \in Tables : Len(t) = n
PublishingOn == PublishingInit /\ \E n \in 0 .. Cardinality(Blocks) : rows = OneTable(n)

SchedulerOff ==
  /\ tasks = << >> /\ worker = [w \in Workers |-> "gone"]
  /\ held = [w \in Workers |-> NoTask] /\ closer = "closed" /\ begun = {}
  /\ now = MaxTime /\ scheduling = {} /\ pending = {} /\ timer = Never
  /\ phase = [w \in Workers |-> "none"]
  /\ taskid = [x \in Alarms |-> NoId]
  /\ alarmJoining = [x \in Alarms |-> TRUE]
  /\ owner = [x \in Alarms |-> [at |-> "joined", id |-> NoId]]
  /\ calls = 0

PublishingOff ==
  /\ rows = << >> /\ hasConnections = TRUE /\ starting = 0 /\ mRunning = FALSE
  /\ task = NotPublishing /\ notifying = {} /\ told = {} /\ due = {}
  /\ notified = MaxNotified /\ erased = MaxErased
  /\ outages = MaxOutages /\ throws = MaxThrows

TableOff ==
  /\ neighbors = CHOOSE g \in Topologies : TRUE
  /\ holders = {} /\ recent = {} /\ inFlight = EmptyBag
  /\ stores = MaxStores /\ dropped = MaxDropped
  /\ reached = {} /\ disturbed = FALSE

RetrieveOff ==
  /\ mRetrievePending = {} /\ found = {} /\ incoming = {} /\ clearing = FALSE
  /\ seeker = [s \in Seekers |-> [state |-> "idle", key |-> NoKey, calls |-> MaxAsks]]
  /\ messages = MaxMessages /\ losses = MaxLosses /\ reasons = [q \in Keys |-> {}]

SafetyInit ==
  \/ Init /\ PublishingOff /\ TableOff /\ RetrieveOff
  \/ SchedulerOff /\ PublishingOn /\ TableOff /\ RetrieveOff
  \/ SchedulerOff /\ PublishingOff /\ TableInit /\ RetrieveOff
  \/ SchedulerOff /\ PublishingOff /\ TableOff /\ RetrieveInit

SafetyNext ==
  \/ Next /\ UNCHANGED <<publishingVars, tableVars, retrieveVars>>
  \/ PublishingNext /\ UNCHANGED <<vars, tableVars, retrieveVars>>
  \/ TableNext /\ UNCHANGED <<vars, publishingVars, retrieveVars>>
  \/ RetrieveNext /\ UNCHANGED <<vars, publishingVars, tableVars>>

safetyVars == <<vars, publishingVars, tableVars, retrieveVars>>
SafetySpec == SafetyInit /\ [][SafetyNext]_safetyVars

\* The state of each component is well-formed: a worker that holds a task is
\* in one of its phases, the task that publishes has mRunning set, a value that
\* was stored a short time ago is in the table (scheduler.hpp:157-171,
\* store.cpp:389, overlay.cpp:526).
SafetyTypeOK == TypeOK /\ PublishingTypeOK /\ TableTypeOK /\ RetrieveTypeOK
=============================================================================
