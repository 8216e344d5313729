----------------------------- MODULE MCNetwork -----------------------------
(***************************************************************************)
(* The network between nodes: the pools that run its tasks, how a link     *)
(* comes up, the flow over a link that loses nothing, how a block is       *)
(* called for, and how boards spread.  They have no state in common.  A    *)
(* behaviour plays one of them and the others are off, so that the states  *)
(* add up and do not multiply.                                             *)
(***************************************************************************)
EXTENDS ThreadPool, Flow, GF4, Tunnels, Calls, Board, TLC

CONSTANTS
  alice, bob,      \* two nodes, at the ends of a link
  question, answer \* two mails

Each(n) == (alice :> n) @@ (bob :> n)
Play(writes, room) ==
  [maxWrites |-> writes, mayStop |-> {}, timesOut |-> {}, maxInFlight |-> room]

\* Three chunks, one way, and room for everything that can be in flight.
LosslessThree == {Play((alice :> 3) @@ (bob :> 0), Each(9))}
NoWrites == Play(Each(0), Each(0))
FlowScenarios == LosslessThree \cup {NoWrites}

\* One node writes both mails; the second answers the first.
ByAlice == (question :> alice) @@ (answer :> alice)
SecondAnswersFirst == (question :> NoMail) @@ (answer :> question)

\* Two mails without a fault, or one with a cut link or a restart, where old
\* values may be deleted once and a resource may not be readable.
BoardOn ==
  /\ BoardInit
  /\ \/ drafts = {question, answer} /\ cuts + restarts + expiries + failures = 0
     \/ drafts = {question} /\ cuts + restarts = 1

PoolOff ==
  /\ tasks = << >> /\ worker = [w \in Workers |-> "gone"]
  /\ held = [w \in Workers |-> NoTask] /\ closer = "closed" /\ begun = {}

\* Two threads that wait while nothing is lost, or one thread and a loss.
CallsOn ==
  /\ CallsInit
  /\ \/ losses = MaxLost
     \/ losses = 0 /\ Cardinality({w \in Waiting : caller[w].visits = 0}) = 1

CallsOff ==
  /\ mCallers = {} /\ rank = 0
  /\ caller = [w \in Waiting |-> [at |-> "idle", visits |-> MaxVisits]]
  /\ mLinksFromNodes = {} /\ located = Providers /\ mCallCandidates = {}
  /\ pulls = [p \in Providers |-> << >>] /\ pushes = [p \in Providers |-> 0]
  /\ calls = [p \in Providers |-> {}]
  /\ linkTokens = [p \in Providers |-> 0] /\ rawTokens = [p \in Providers |-> 0]
  /\ losses = MaxLost

FlowOn == Init /\ scenario # NoWrites
FlowOff == Init /\ scenario = NoWrites
TunnelsOff == TunnelsInit /\ knows = {}
\* No mail is written on linked boards that have all subscribed.
BoardOff ==
  /\ mDigests = [x \in Members |-> {}] /\ mPreviousDigests = mDigests
  /\ mProcessedDigests = mDigests /\ mMails = mDigests
  /\ mListing = [x \in Members |-> << >>] /\ merged = [x \in Members |-> NoBoard]
  /\ stored = mDigests /\ values = mDigests /\ fetching = mDigests /\ appending = mDigests
  /\ heard = mDigests /\ threads = mDigests /\ permanent = mDigests /\ written = mDigests
  /\ linked = Pairs /\ subscribed = Pairs /\ channel = [p \in Pairs |-> << >>]
  /\ drafts = {} /\ cuts = 0 /\ restarts = 0 /\ expiries = 0 /\ failures = 0
  /\ missed = mDigests /\ restarted = {}

NetworkInit ==
  \/ PoolInit /\ FlowOff /\ TunnelsOff /\ CallsOff /\ BoardOff
  \/ PoolOff /\ FlowOn /\ TunnelsOff /\ CallsOff /\ BoardOff
  \/ PoolOff /\ FlowOff /\ TunnelsInit /\ CallsOff /\ BoardOff
  \/ PoolOff /\ FlowOff /\ TunnelsOff /\ CallsOn /\ BoardOff
  \/ PoolOff /\ FlowOff /\ TunnelsOff /\ CallsOff /\ BoardOn

NetworkNext ==
  \/ PoolNext /\ UNCHANGED <<vars, tunnelVars, callsVars, boardVars>>
  \/ Next /\ UNCHANGED <<poolVars, tunnelVars, callsVars, boardVars>>
  \/ TunnelsNext /\ UNCHANGED <<poolVars, vars, callsVars, boardVars>>
  \/ CallsNext /\ UNCHANGED <<poolVars, vars, tunnelVars, boardVars>>
  \/ BoardNext /\ UNCHANGED <<poolVars, vars, tunnelVars, callsVars>>

networkVars == <<poolVars, vars, tunnelVars, callsVars, boardVars>>
NetworkSpec ==
  /\ NetworkInit /\ [][NetworkNext]_networkVars
  /\ PoolFairness /\ LosslessFairness /\ TunnelsFairness /\ CallsFairness /\ BoardFairness

\* The state of each component is well-formed; in a pool exactly the running
\* workers hold a task, a live end of a tunnel is the one under the handler, and
\* no node has more tokens for a block than the whole block takes, with the
\* redundancy (network.cpp:2035, :2499).
NetworkTypeOK ==
  /\ PoolTypeOK /\ TunnelsTypeOK /\ CallsTypeOK /\ BoardTypeOK
  /\ HandlerIsLive /\ TokensAreBounded
=============================================================================
