------------------------------- MODULE Calls --------------------------------
(***************************************************************************)
(* How the network fetches a block (src/tpn/network.cpp): a thread that    *)
(* waits for a block has a Caller; the block is pulled from the nodes on a *)
(* link with this one, and after some time called for through the overlay. *)
(* A node that has the block pushes combinations of it, over the link      *)
(* (Network::Handler) or through the overlay (Network::Pusher), for as     *)
(* many tokens as it was given.                                            *)
(*                                                                         *)
(* One block, missing at one node, and the nodes that have it.  A link     *)
(* keeps the order of its records and loses none (module Flow); the        *)
(* combinations beside them, and what the overlay carries, may be lost.    *)
(* Of what happens in the store (module Store) only the rank is kept.      *)
(***************************************************************************)
EXTENDS Naturals, Sequences, FiniteSets

CONSTANTS
  Waiting,      \* the threads that wait for the block
  Providers,    \* the nodes that have the block
  BlockRank,    \* the number of its chunks; of one not received, it is taken
                \* for Block::MaxChunks too
  Redundant,    \* DefaultRedundantCount
  MaxLost,      \* bound on what is lost: see Loses
  MaxVisits     \* bound on the waits of each thread

ASSUME CallsAssumption ==
  /\ IsFiniteSet(Providers)
  /\ {BlockRank, Redundant} \subseteq Nat \ {0}
  /\ {MaxLost, MaxVisits} \subseteq Nat

VARIABLES
  mCallers,         \* the callers of the block
  caller,           \* where each thread is, and how often it has waited
  rank,             \* the combinations received; all of them make the block
  mLinksFromNodes,  \* the nodes a link goes to
  located,          \* the nodes known to have the block, by Store::retrieveValue
  mCallCandidates,
  pulls,            \* the records "pull" on their way to each node
  pushes,           \* how many records "push" are on their way from it
  calls,            \* the Call messages on their way to it
  linkTokens,       \* Handler::mTargets: the tokens left for the block
  rawTokens,        \* Pusher::mTargets
  losses            \* how much was lost

callsVars == <<mCallers, caller, rank, mLinksFromNodes, located, mCallCandidates, pulls, pushes,
               calls, linkTokens, rawTokens, losses>>
transferVars == <<mLinksFromNodes, located, mCallCandidates, pulls, pushes, calls, linkTokens,
                  rawTokens, losses>>

MissingCount == BlockRank - rank
Complete == rank = BlockRank
AtMost(i, j) == IF i < j THEN i ELSE j
AtLeast(i, j) == IF i > j THEN i ELSE j

CallsInit ==
  /\ mCallers = {}
  /\ caller \in [Waiting -> [at : {"idle"}, visits : 0 .. MaxVisits]]
  /\ rank = 0
  /\ mLinksFromNodes \in SUBSET Providers
  /\ located \in SUBSET Providers
  /\ mCallCandidates = {}
  /\ pulls = [p \in Providers |-> << >>]
  /\ pushes = [p \in Providers |-> 0]
  /\ calls = [p \in Providers |-> {}]
  /\ linkTokens = [p \in Providers |-> 0]
  /\ rawTokens = [p \in Providers |-> 0]
  /\ losses \in 0 .. MaxLost

Loses == losses < MaxLost /\ losses' = losses + 1

-----------------------------------------------------------------------------
(* Asking.                                                                 *)

\* The links to pull on.
Sources == located \cap mLinksFromNodes

\* directCall: the tokens are shared among the links, rounded up.
Share(tokens) == (tokens + Cardinality(Sources) - 1) \div Cardinality(Sources)

DirectCall(tokens) ==
  pulls' = [p \in Providers |->
    IF p \in Sources THEN Append(pulls[p], IF tokens = 0 THEN 0 ELSE Share(tokens)) ELSE pulls[p]]

CallerAt(w, at) == caller' = [caller EXCEPT ![w].at = at]

\* registerCaller: the first caller of the block asks for it, once
\* mCallersMutex is released.  The thread has found the block missing, which
\* may be there by now.
RegisterCaller(w) ==
  /\ caller[w].at = "missing"
  /\ mCallers' = mCallers \cup {w}
  /\ CallerAt(w, IF mCallers = {} THEN "first" ELSE "waiting")
  /\ UNCHANGED <<rank, transferVars>>

FindMissing(w) ==
  /\ caller[w].at = "idle" /\ caller[w].visits < MaxVisits /\ ~Complete
  /\ caller' = [caller EXCEPT ![w] = [at |-> "missing", visits |-> @.visits + 1]]
  /\ UNCHANGED <<mCallers, rank, transferVars>>

CallFirst(w) ==
  /\ caller[w].at = "first"
  /\ DirectCall(MissingCount)
  /\ CallerAt(w, "waiting")
  /\ UNCHANGED <<mCallers, rank, mLinksFromNodes, located, mCallCandidates, pushes, calls,
                 linkTokens, rawTokens, losses>>

\* unregisterCaller: the thread has the block, or its time is up.  The last
\* caller cancels, once mCallersMutex is released, unless unregisterAllCallers
\* came before.
UnregisterCaller(w) ==
  /\ caller[w].at = "waiting"
  /\ mCallers' = mCallers \ {w}
  /\ CallerAt(w, IF mCallers = {w} THEN "last" ELSE "idle")
  /\ UNCHANGED <<rank, transferVars>>

Cancel(w) ==
  /\ caller[w].at = "last"
  /\ DirectCall(0)
  /\ CallerAt(w, "idle")
  /\ UNCHANGED <<mCallers, rank, mLinksFromNodes, located, mCallCandidates, pushes, calls,
                 linkTokens, rawTokens, losses>>

Call(nodes, tokens) ==
  calls' = [p \in Providers |-> IF p \in nodes THEN calls[p] \cup {tokens} ELSE calls[p]]

\* MUTANT of SendCalls: the nodes that were called for a candidate are left out.
SendCallsOnce ==
  /\ mCallers # {}
  /\ Call(located \ mCallCandidates, MissingCount)
  /\ UNCHANGED <<mCallers, caller, rank, mLinksFromNodes, located, mCallCandidates, pulls, pushes,
                 linkTokens, rawTokens, losses>>

\* sendCalls, every second, and fallbackCall: once a caller has waited for the
\* request timeout.  The nodes are looked for in the overlay as well: see
\* MatchCallers.
SendCalls ==
  /\ mCallers # {}
  /\ Call(located, MissingCount)
  /\ UNCHANGED <<mCallers, caller, rank, mLinksFromNodes, located, mCallCandidates, pulls, pushes,
                 linkTokens, rawTokens, losses>>

\* A Value message names a node, which the overlay has stored: matchCallers.
MatchCallers(p) ==
  /\ located' = located \cup {p}
  /\ IF mCallers # {} /\ p \notin mCallCandidates
     THEN Call({p}, MissingCount) /\ mCallCandidates' = mCallCandidates \cup {p}
     ELSE UNCHANGED <<calls, mCallCandidates>>
  /\ UNCHANGED <<mCallers, caller, rank, mLinksFromNodes, pulls, pushes, linkTokens, rawTokens,
                 losses>>

\* The end of sendBeacons.
SendBeacons ==
  /\ mCallCandidates' = {}
  /\ UNCHANGED <<mCallers, caller, rank, mLinksFromNodes, located, pulls, pushes, calls,
                 linkTokens, rawTokens, losses>>

-----------------------------------------------------------------------------
(* Pushing.                                                                *)

\* Handler::push: 1.2 tokens for each asked for, and two at least.
Redundantly(tokens) == AtLeast((6 * tokens + 4) \div 5, 2)

\* MUTANT of HandlerPush: the tokens add up.
HandlerPushMore(p, tokens) ==
  linkTokens' = [linkTokens EXCEPT ![p] = IF tokens = 0 THEN 0 ELSE @ + Redundantly(tokens)]

HandlerPush(p, tokens) ==
  linkTokens' = [linkTokens EXCEPT ![p] =
    CASE tokens = 0            -> 0
      [] tokens > 0 /\ @ = 0   -> Redundantly(tokens)
      [] tokens > 0 /\ @ > 0   -> AtMost(@ + Redundant, Redundantly(tokens))]

\* incoming "pull".
ReceivePull(p) ==
  /\ pulls[p] # << >>
  /\ pulls' = [pulls EXCEPT ![p] = Tail(@)]
  /\ HandlerPush(p, Head(pulls[p]))
  /\ UNCHANGED <<mCallers, caller, rank, mLinksFromNodes, located, mCallCandidates, pushes, calls,
                 rawTokens, losses>>

\* Pusher::push: the tokens asked for, and some more.
PusherPush(p, tokens) ==
  LET more == IF tokens < Redundant THEN tokens * 2 ELSE tokens + Redundant
  IN  rawTokens' = [rawTokens EXCEPT ![p] =
        CASE tokens = 0          -> 0
          [] tokens > 0 /\ @ = 0 -> more
          [] tokens > 0 /\ @ > 0 -> AtMost(@ + Redundant, more)]

\* A Call message.
ReceiveCall(p, tokens) ==
  /\ tokens \in calls[p]
  /\ calls' = [calls EXCEPT ![p] = @ \ {tokens}]
  /\ \/ PusherPush(p, tokens) /\ UNCHANGED losses
     \/ Loses /\ UNCHANGED rawTokens
  /\ UNCHANGED <<mCallers, caller, rank, mLinksFromNodes, located, mCallCandidates, pulls, pushes,
                 linkTokens>>

\* Store::push, and unregisterAllCallers when it has the block.
Gain ==
  /\ rank' = AtMost(rank + 1, BlockRank)
  /\ mCallers' = IF rank' = BlockRank THEN {} ELSE mCallers

\* Handler::send, for the block: one token is one combination, over the link,
\* and it says so after the last.
PushOnLink(p) ==
  LET left == AtMost(linkTokens[p], (6 * BlockRank + 2) \div 5) - 1 IN
    /\ linkTokens[p] > 0
    /\ linkTokens' = [linkTokens EXCEPT ![p] = left]
    /\ pushes' = [pushes EXCEPT ![p] = IF left = 0 THEN @ + 1 ELSE @]
    /\ \/ Gain /\ UNCHANGED losses
       \/ Loses /\ UNCHANGED <<mCallers, rank>>
    /\ UNCHANGED <<caller, mLinksFromNodes, located, mCallCandidates, pulls, calls, rawTokens>>

\* MUTANT of AskAgain: the block is pulled again whether it is there or not.
AskForAll == DirectCall(BlockRank)

\* incoming "push": what is missing is pulled again.
AskAgain == IF Complete THEN UNCHANGED pulls ELSE DirectCall(MissingCount)

ReceivePush(p) ==
  /\ pushes[p] > 0
  /\ pushes' = [pushes EXCEPT ![p] = @ - 1]
  /\ AskAgain
  /\ UNCHANGED <<mCallers, caller, rank, mLinksFromNodes, located, mCallCandidates, calls,
                 linkTokens, rawTokens, losses>>

\* Pusher::run: one token is one Data message.  When the block is there, the
\* nodes are told.
PushRaw(p) ==
  /\ rawTokens[p] > 0
  /\ rawTokens' = [rawTokens EXCEPT ![p] = AtMost(@, BlockRank + Redundant) - 1]
  /\ \/ /\ Gain /\ UNCHANGED losses
        /\ IF rank' = BlockRank THEN Call(located, 0) ELSE UNCHANGED calls
     \/ Loses /\ UNCHANGED <<mCallers, rank, calls>>
  /\ UNCHANGED <<caller, mLinksFromNodes, located, mCallCandidates, pulls, pushes, linkTokens>>

\* A link goes, with what it carries and the targets of its handler.
LoseLink(p) ==
  /\ p \in mLinksFromNodes /\ Loses
  /\ mLinksFromNodes' = mLinksFromNodes \ {p}
  /\ pulls' = [pulls EXCEPT ![p] = << >>]
  /\ pushes' = [pushes EXCEPT ![p] = 0]
  /\ linkTokens' = [linkTokens EXCEPT ![p] = 0]
  /\ UNCHANGED <<mCallers, caller, rank, located, mCallCandidates, calls, rawTokens>>

-----------------------------------------------------------------------------
CallerStep(w) == RegisterCaller(w) \/ CallFirst(w) \/ Cancel(w)
ProviderStep(p) == ReceivePull(p) \/ PushOnLink(p) \/ ReceivePush(p)
ReceiveCalls(p) == \E tokens \in calls[p] : ReceiveCall(p, tokens)

CallsNext ==
  \/ \E w \in Waiting : FindMissing(w) \/ CallerStep(w) \/ UnregisterCaller(w)
  \/ SendCalls \/ SendBeacons
  \/ \E p \in Providers :
       \/ ProviderStep(p) \/ ReceiveCalls(p) \/ PushRaw(p)
       \/ MatchCallers(p) \/ LoseLink(p)

\* Threads are scheduled; the network thread sends calls every second and the
\* overlay finds the nodes; only so much is lost.
CallsFairness ==
  /\ \A w \in Waiting : WF_callsVars(CallerStep(w))
  /\ WF_callsVars(SendCalls)
  /\ \A p \in Providers :
       /\ WF_callsVars(ProviderStep(p)) /\ WF_callsVars(PushRaw(p))
       /\ WF_callsVars(ReceiveCalls(p))
       /\ WF_callsVars(mCallers # {} /\ MatchCallers(p))

CallsSpec == CallsInit /\ [][CallsNext]_callsVars /\ CallsFairness

-----------------------------------------------------------------------------
CallsTypeOK ==
  /\ mCallers \subseteq Waiting
  /\ caller \in [Waiting -> [at : {"idle", "missing", "first", "waiting", "last"},
                             visits : 0 .. MaxVisits]]
  /\ rank \in 0 .. BlockRank
  /\ {mLinksFromNodes, located, mCallCandidates} \subseteq SUBSET Providers
  /\ pulls \in [Providers -> Seq(0 .. BlockRank)]
  /\ pushes \in [Providers -> Nat]
  /\ calls \in [Providers -> SUBSET (0 .. BlockRank)]
  /\ linkTokens \in [Providers -> Nat] /\ rawTokens \in [Providers -> Nat]
  /\ losses \in 0 .. MaxLost

\* However often a block is asked for, by one node after the other and while
\* it is pushed, a node never has more tokens for it than the whole block
\* takes, with the redundancy (network.cpp:2035, :2499).
TokensAreBounded ==
  \A p \in Providers :
    /\ linkTokens[p] <= Redundantly(BlockRank)
    /\ rawTokens[p] <= BlockRank + AtMost(BlockRank, Redundant)

\* A thread that waits for a block gets it, or gives up, whatever is lost for
\* a while, and although the last caller may cancel what the next one has just
\* asked for (network.cpp:97, :120).
BlockArrives == []<>(Complete \/ \A w \in Waiting : caller[w].at # "waiting")

\* When the block is there, nobody goes on pushing it (network.cpp:459, :711, :2381).
ComesToRest ==
  <>[](Complete => \A p \in Providers :
         linkTokens[p] = 0 /\ rawTokens[p] = 0 /\ pushes[p] = 0 /\ pulls[p] = << >>)
=============================================================================
