------------------------------ MODULE Retrieve ------------------------------
(***************************************************************************)
(* Overlay::retrieve and the messages that answer it (src/tpn/overlay.cpp).*)
(* Threads that look for a key in the distributed table share one entry of *)
(* mRetrievePending for it: the first inserts it and sends a request, and  *)
(* all wait on one condition for the entry to be erased.  It is erased by  *)
(* a Value or a Store message, by the loss of the last connection, and by  *)
(* any of the threads when it stops waiting.  mRetrieveMutex covers every  *)
(* step but the storing of a value.                                        *)
(***************************************************************************)
EXTENDS Naturals, FiniteSets

CONSTANTS
  Seekers,      \* the threads that call retrieve
  Keys,
  NoKey,
  MaxMessages,  \* bound on the Value and Store messages that come in
  MaxLosses,    \* bound on the losses of the last connection
  MaxAsks       \* bound on the calls of each thread

ASSUME RetrieveAssumption ==
  /\ NoKey \notin Keys
  /\ {MaxMessages, MaxLosses, MaxAsks} \subseteq Nat

VARIABLES
  mRetrievePending,
  seeker,       \* the state of each thread, the key it wants, its calls so far
  found,        \* the keys that have a value in the store
  incoming,     \* the messages being handled: stored, entry not yet erased
  clearing,     \* unregisterHandler has seen the last connection go
  messages,     \* how many messages have come in
  losses,       \* how many times the last connection was lost
  reasons       \* why, but for a value, each key was given up (history)

retrieveVars == <<mRetrievePending, seeker, found, incoming, clearing, messages, losses, reasons>>

\* A thread is "asleep" in the condition, or "woken" and about to lock the
\* mutex; "found" and "empty" are what its last call has returned.
SeekerStates == {"idle", "asleep", "woken", "found", "empty"}
Waits(s) == seeker[s].state \in {"asleep", "woken"}
WaitersOf(k) == {s \in Seekers : Waits(s) /\ seeker[s].key = k}
Becomes(s, state, k) == [state |-> state, key |-> k, calls |-> seeker[s].calls]

RetrieveInit ==
  /\ mRetrievePending = {}
  /\ seeker = [s \in Seekers |-> [state |-> "idle", key |-> NoKey, calls |-> 0]]
  /\ found = {}
  /\ incoming = {}
  /\ clearing = FALSE
  /\ messages = 0
  /\ losses = 0
  /\ reasons = [k \in Keys |-> {}]

-----------------------------------------------------------------------------
\* The end of retrieve, the mutex still held: what the store has by now.
Outcome(k) == IF k \in found THEN "found" ELSE "empty"

EndRetrieve(s, k) ==
  /\ mRetrievePending' = mRetrievePending \ {k}
  /\ seeker' = [seeker EXCEPT ![s] = Becomes(s, Outcome(k), k)]

\* Only the thread that inserts the key sends the request.  If that fails, it
\* does not wait.
Ask(s, k) ==
  /\ ~Waits(s) /\ seeker[s].calls < MaxAsks
  /\ seeker' = [seeker EXCEPT ![s] =
       [state |-> "asleep", key |-> k, calls |-> seeker[s].calls + 1]]
  /\ mRetrievePending' = mRetrievePending \cup {k}
  /\ UNCHANGED <<found, incoming, clearing, messages, losses, reasons>>

AskUnsent(s, k) ==
  /\ ~Waits(s) /\ seeker[s].calls < MaxAsks
  /\ k \notin mRetrievePending
  /\ seeker' = [seeker EXCEPT ![s] =
       [state |-> Outcome(k), key |-> k, calls |-> seeker[s].calls + 1]]
  /\ reasons' = [reasons EXCEPT ![k] = @ \cup {"unsent"}]
  /\ UNCHANGED <<mRetrievePending, found, incoming, clearing, messages, losses>>

\* The predicate of the wait holds ...
Wake(s) ==
  /\ seeker[s].state = "woken" /\ seeker[s].key \notin mRetrievePending
  /\ EndRetrieve(s, seeker[s].key)
  /\ UNCHANGED <<found, incoming, clearing, messages, losses, reasons>>

\* ... or another thread has inserted the key again in the meantime.
SleepAgain(s) ==
  /\ seeker[s].state = "woken" /\ seeker[s].key \in mRetrievePending
  /\ seeker' = [seeker EXCEPT ![s] = Becomes(s, "asleep", seeker[s].key)]
  /\ UNCHANGED <<mRetrievePending, found, incoming, clearing, messages, losses, reasons>>

\* Time is up: the entry is erased, whoever else waits for it, and nobody told.
TimeOut(s) ==
  /\ Waits(s)
  /\ EndRetrieve(s, seeker[s].key)
  /\ reasons' = [reasons EXCEPT ![seeker[s].key] = @ \cup {"timeout"}]
  /\ UNCHANGED <<found, incoming, clearing, messages, losses>>

-----------------------------------------------------------------------------
NotifyAll ==
  seeker' = [s \in Seekers |->
    IF seeker[s].state = "asleep" THEN Becomes(s, "woken", seeker[s].key) ELSE seeker[s]]

\* MUTANT of ReceiveValue: the value is not stored.
ReceiveValueLate(k) ==
  /\ messages < MaxMessages /\ messages' = messages + 1
  /\ incoming' = incoming \cup {k}
  /\ UNCHANGED <<mRetrievePending, seeker, found, clearing, losses, reasons>>

\* A Value message: the value is stored, without the mutex ...
ReceiveValue(k) ==
  /\ messages < MaxMessages /\ messages' = messages + 1
  /\ found' = found \cup {k}
  /\ incoming' = incoming \cup {k}
  /\ UNCHANGED <<mRetrievePending, seeker, clearing, losses, reasons>>

\* ... as that of a Store message is if this node is near enough to the key and
\* has not had the value within a minute.
ReceiveStore(k) ==
  /\ messages < MaxMessages /\ messages' = messages + 1
  /\ incoming' = incoming \cup {k}
  /\ \/ found' = found \cup {k} /\ UNCHANGED reasons
     \/ reasons' = [reasons EXCEPT ![k] = @ \cup {"passed on"}] /\ UNCHANGED found
  /\ UNCHANGED <<mRetrievePending, seeker, clearing, losses>>

\* Then, with it, the entry is erased; without an entry nobody is woken.
Answer(k) ==
  /\ k \in incoming
  /\ incoming' = incoming \ {k}
  /\ mRetrievePending' = mRetrievePending \ {k}
  /\ IF k \in mRetrievePending THEN NotifyAll ELSE UNCHANGED seeker
  /\ UNCHANGED <<found, clearing, messages, losses, reasons>>

\* MUTANT of ClearPending: nobody is told.
ClearQuietly ==
  /\ clearing /\ clearing' = FALSE
  /\ reasons' = [k \in Keys |->
       IF k \in mRetrievePending THEN reasons[k] \cup {"cleared"} ELSE reasons[k]]
  /\ mRetrievePending' = {}
  /\ UNCHANGED <<seeker, found, incoming, messages, losses>>

\* unregisterHandler: the last handler goes, then the entries are cleared, also
\* those of requests sent over a connection made in between.
LoseLastConnection ==
  /\ ~clearing /\ losses < MaxLosses
  /\ clearing' = TRUE /\ losses' = losses + 1
  /\ UNCHANGED <<mRetrievePending, seeker, found, incoming, messages, reasons>>

ClearPending ==
  /\ clearing /\ clearing' = FALSE
  /\ reasons' = [k \in Keys |->
       IF k \in mRetrievePending THEN reasons[k] \cup {"cleared"} ELSE reasons[k]]
  /\ mRetrievePending' = {}
  /\ NotifyAll
  /\ UNCHANGED <<found, incoming, messages, losses>>

-----------------------------------------------------------------------------
RetrieveNext ==
  \/ \E s \in Seekers : Wake(s) \/ SleepAgain(s) \/ TimeOut(s)
  \/ \E s \in Seekers, k \in Keys : Ask(s, k) \/ AskUnsent(s, k)
  \/ \E k \in Keys : ReceiveValue(k) \/ ReceiveStore(k) \/ Answer(k)
  \/ LoseLastConnection \/ ClearPending

RetrieveSpec == RetrieveInit /\ [][RetrieveNext]_retrieveVars

-----------------------------------------------------------------------------
Reasons == {"timeout", "cleared", "passed on", "unsent"}

RetrieveTypeOK ==
  /\ mRetrievePending \subseteq Keys
  /\ seeker \in [Seekers -> [state : SeekerStates, key : Keys \cup {NoKey}, calls : 0 .. MaxAsks]]
  /\ \A s \in Seekers : seeker[s].state # "idle" => seeker[s].key \in Keys
  /\ found \subseteq Keys /\ incoming \subseteq Keys
  /\ clearing \in BOOLEAN
  /\ messages \in 0 .. MaxMessages /\ losses \in 0 .. MaxLosses
  /\ reasons \in [Keys -> SUBSET Reasons]

\* An entry of mRetrievePending has a thread that waits for it and will erase
\* it: a key with an entry and no waiter would never be asked for again, as only
\* the thread that inserts the key sends a request.
PendingHasWaiter == \A k \in mRetrievePending : WaitersOf(k) # {}

\* A thread sleeps only as long as its key has an entry, which the next answer
\* finds, unless another thread's timeout has erased it behind its back.
SleeperIsPending ==
  \A s \in Seekers :
    seeker[s].state = "asleep" =>
      \/ seeker[s].key \in mRetrievePending
      \/ "timeout" \in reasons[seeker[s].key]

\* An entry of mRetrievePending has a thread that waits for it and will erase it
\* (overlay.cpp:408), and until a timeout erases it every thread that sleeps has
\* the entry that the next answer looks for (overlay.cpp:537, :565).
PendingMatchesWaiters == PendingHasWaiter /\ SleeperIsPending

\* retrieve returns nothing only for a reason: a timeout, a request that was
\* not sent, a lost connection or a Store message that this node only passed
\* on.  A Value that wakes it is in the store by then (overlay.cpp:560-569).
EmptyHasReason ==
  \A s \in Seekers :
    seeker[s].state = "empty" => reasons[seeker[s].key] # {}
=============================================================================
