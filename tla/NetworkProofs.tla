--------------------------- MODULE NetworkProofs ---------------------------
(***************************************************************************)
(* Proofs about what the network of a node does on its links (modules      *)
(* Tunnels, Calls and Board) and about the pool of threads it runs on      *)
(* (ThreadPool): for any numbers drawn and any losses, the handler of a    *)
(* link is on the one live tunnel of its node; a node never has more       *)
(* tokens for a block than the whole block takes; the heads of a board lead*)
(* to all it has been through, the mails it was written or sent are not    *)
(* lost, and it shows each once and in order; and no task is left behind by*)
(* a notification that went to a worker already awake.                     *)
(***************************************************************************)
EXTENDS MCNetwork, SequenceTheorems, FiniteSetTheorems, TLAPS

-----------------------------------------------------------------------------
(* The tunnels of a link.                                                  *)

\* The bounds are numbers, and no tunnel has the number None.
LEMMA Numbers ==
  MaxTunnelId \in Nat /\ MaxMishaps \in Nat /\ None \notin TunnelIds
BY TunnelAssumption DEF None, TunnelIds

\* What is proved of a state.
TunnelsInv == TunnelsTypeOK /\ HandlerIsLive /\ PendingIsShaking

\* Nothing goes wrong more often than the bound has it.
LEMMA MishapTyped ==
  ASSUME mishaps \in 0 .. MaxMishaps, Mishap \/ UNCHANGED mishaps
  PROVE  mishaps' \in 0 .. MaxMishaps
BY Numbers DEF Mishap

\* At first there is no tunnel.
LEMMA TunnelsInitOK == TunnelsInit => TunnelsInv
<1> SUFFICES ASSUME TunnelsInit PROVE TunnelsInv
  OBVIOUS
<1>1. TunnelsTypeOK
  BY Numbers DEF TunnelsInit, TunnelsTypeOK, TunnelStates, HandshakeStates
<1>2. HandlerIsLive
  BY Numbers DEF TunnelsInit, HandlerIsLive
<1>3. PendingIsShaking
  BY Numbers DEF TunnelsInit, PendingIsShaking
<1> QED
  BY <1>1, <1>2, <1>3 DEF TunnelsInv

\* A handshake that is over, well or not, leaves nothing pending.
LEMMA OverKept ==
  ASSUME TunnelsInv, NEW n \in TunnelEnds, NEW t \in TunnelIds, IsShaking(n, t), RemovePending(n),
         \/ RegisterHandler(n, t)
         \/ tunnelEnd' = [tunnelEnd EXCEPT ![n][t] = "none"] /\ UNCHANGED handler,
         NEW state \in HandshakeStates, handshakes' = [handshakes EXCEPT ![t] = state],
         Mishap \/ UNCHANGED mishaps, UNCHANGED <<knows, opening>>
  PROVE  TunnelsInv'
<1> USE Numbers DEF TunnelsInv
<1>1. mishaps' \in 0 .. MaxMishaps
  BY MishapTyped DEF TunnelsTypeOK
<1>2. /\ mPending' \in [TunnelEnds -> TunnelIds \cup {None}]
      /\ handshakes' \in [TunnelIds -> HandshakeStates]
  BY DEF TunnelsTypeOK, RemovePending
<1>3. /\ tunnelEnd' \in [TunnelEnds -> [TunnelIds -> TunnelStates]]
      /\ handler' \in [TunnelEnds -> TunnelIds \cup {None}]
  <2>1. CASE handler[n] = None /\ RegisterHandler(n, t)
    <3>1. /\ handler' = [handler EXCEPT ![n] = t]
          /\ tunnelEnd' = [tunnelEnd EXCEPT ![n][t] = "live"]
      BY <2>1 DEF RegisterHandler
    <3>2. handler' \in [TunnelEnds -> TunnelIds \cup {None}]
      BY <3>1 DEF TunnelsTypeOK
    <3>3. tunnelEnd' \in [TunnelEnds -> [TunnelIds -> TunnelStates]]
      BY <3>1 DEF TunnelsTypeOK, TunnelStates
    <3> QED
      BY <3>2, <3>3
  <2>2. CASE tunnelEnd' = [tunnelEnd EXCEPT ![n][t] = "none"] /\ UNCHANGED handler
    BY <2>2 DEF TunnelsTypeOK, TunnelStates
  <2> QED
    BY <2>1, <2>2 DEF RegisterHandler
<1>4. TunnelsTypeOK'
  BY <1>1, <1>2, <1>3 DEF TunnelsTypeOK
<1>5. HandlerIsLive'
  <2>1. CASE handler[n] = None /\ RegisterHandler(n, t)
    BY <2>1 DEF TunnelsTypeOK, HandlerIsLive, RegisterHandler
  <2>2. CASE tunnelEnd' = [tunnelEnd EXCEPT ![n][t] = "none"] /\ UNCHANGED handler
    BY <2>2 DEF TunnelsTypeOK, HandlerIsLive, IsShaking
  <2> QED
    BY <2>1, <2>2 DEF RegisterHandler
<1>6. PendingIsShaking'
  <2>1. mPending'[n] = None /\ \A m \in TunnelEnds \ {n} : mPending'[m] = mPending[m]
    BY DEF TunnelsTypeOK, RemovePending
  <2>2. \A m \in TunnelEnds \ {n} : tunnelEnd'[m] = tunnelEnd[m]
    BY DEF TunnelsTypeOK, RegisterHandler
  <2>3. \A u \in TunnelIds \ {t} : tunnelEnd'[n][u] = tunnelEnd[n][u]
    BY DEF TunnelsTypeOK, RegisterHandler
  <2> QED
    BY <2>1, <2>2, <2>3 DEF PendingIsShaking, IsShaking
<1> QED
  BY <1>4, <1>5, <1>6

\* A handshake that begins at one end, for which a number may become pending.
LEMMA BegunKept ==
  ASSUME TunnelsInv, NEW n \in TunnelEnds, NEW t \in TunnelIds, tunnelEnd[n][t] = "none",
         NEW side \in {"client", "server"}, tunnelEnd' = [tunnelEnd EXCEPT ![n][t] = side],
         NEW p \in {t, mPending[n]}, mPending' = [mPending EXCEPT ![n] = p],
         handshakes' \in [TunnelIds -> HandshakeStates], opening' \in [TunnelEnds -> BOOLEAN],
         Mishap \/ UNCHANGED mishaps, UNCHANGED <<knows, handler>>
  PROVE  TunnelsInv'
<1> USE Numbers DEF TunnelsInv
<1>1. mishaps' \in 0 .. MaxMishaps
  BY MishapTyped DEF TunnelsTypeOK
<1>2. /\ mPending' \in [TunnelEnds -> TunnelIds \cup {None}]
      /\ tunnelEnd' \in [TunnelEnds -> [TunnelIds -> TunnelStates]]
  BY DEF TunnelsTypeOK, TunnelStates
<1>3. TunnelsTypeOK'
  BY <1>1, <1>2 DEF TunnelsTypeOK
<1>4. HandlerIsLive'
  BY DEF TunnelsTypeOK, HandlerIsLive
<1>5. PendingIsShaking'
  <2>1. IsShaking(n, t)'
    BY DEF TunnelsTypeOK, IsShaking
  <2>2. \A m \in TunnelEnds \ {n} : tunnelEnd'[m] = tunnelEnd[m] /\ mPending'[m] = mPending[m]
    BY DEF TunnelsTypeOK
  <2>3. \A u \in TunnelIds \ {t} : tunnelEnd'[n][u] = tunnelEnd[n][u]
    BY DEF TunnelsTypeOK
  <2>4. mPending'[n] \in {t, mPending[n]}
    BY DEF TunnelsTypeOK
  <2> QED
    BY <2>1, <2>2, <2>3, <2>4 DEF PendingIsShaking, IsShaking
<1> QED
  BY <1>3, <1>4, <1>5

\* Every step keeps the invariant.
LEMMA TunnelsKept == TunnelsInv /\ [TunnelsNext]_tunnelVars => TunnelsInv'
<1> SUFFICES ASSUME TunnelsInv, [TunnelsNext]_tunnelVars PROVE TunnelsInv'
  OBVIOUS
<1>0. TunnelsTypeOK /\ {"fresh", "finished", "failed"} \subseteq HandshakeStates
  BY DEF TunnelsInv, HandshakeStates
<1>1. ASSUME UNCHANGED <<knows, mPending, tunnelEnd, handler, handshakes, mishaps>>,
             opening' \in [TunnelEnds -> BOOLEAN]
      PROVE  TunnelsInv'
  BY <1>1 DEF TunnelsInv, TunnelsTypeOK, HandlerIsLive, PendingIsShaking, IsShaking
<1>2. ASSUME NEW n \in TunnelEnds, ContactSeen(n)
      PROVE  TunnelsInv'
  BY <1>0, <1>1, <1>2 DEF ContactSeen, TunnelsTypeOK
<1>3. ASSUME NEW n \in TunnelEnds, Begin(n)
      PROVE  TunnelsInv'
  <2>1. opening' \in [TunnelEnds -> BOOLEAN] /\ UNCHANGED <<knows, handler>>
    BY <1>0, <1>3 DEF Begin, TunnelsTypeOK
  <2>2. CASE UNCHANGED <<mPending, tunnelEnd, handshakes, mishaps>>
    BY <1>1, <2>1, <2>2
  <2>3. ASSUME NEW t \in TunnelIds, \A e \in TunnelEnds : tunnelEnd[e][t] = "none",
               mPending' = [mPending EXCEPT ![n] = t],
               tunnelEnd' = [tunnelEnd EXCEPT ![n][t] = "client"],
               handshakes' = [handshakes EXCEPT ![t] = "fresh"],
               Mishap \/ UNCHANGED mishaps
        PROVE  TunnelsInv'
    <3>1. handshakes' \in [TunnelIds -> HandshakeStates]
      BY <1>0, <2>3 DEF TunnelsTypeOK
    <3> QED
      BY <2>1, <2>3, <3>1, BegunKept
  <2> QED
    BY <1>3, <2>2, <2>3 DEF Begin
<1>4. ASSUME NEW n \in TunnelEnds, NEW t \in TunnelIds, Listen(n, t)
      PROVE  TunnelsInv'
  <2>1. PICK p \in {t, mPending[n]} : mPending' = [mPending EXCEPT ![n] = p]
    BY <1>0, <1>4 DEF Listen, TunnelsTypeOK
  <2>2. /\ handshakes' \in [TunnelIds -> HandshakeStates]
        /\ opening' \in [TunnelEnds -> BOOLEAN]
    BY <1>0, <1>4 DEF Listen, TunnelsTypeOK
  <2> QED
    BY <1>4, <2>1, <2>2, BegunKept DEF Listen
<1>5. ASSUME NEW n \in TunnelEnds, NEW t \in TunnelIds, FinishServer(n, t)
      PROVE  TunnelsInv'
  BY <1>0, <1>5, OverKept DEF FinishServer, ServerIsDone, IsShaking
<1>6. ASSUME NEW n \in TunnelEnds, NEW t \in TunnelIds, FinishClient(n, t)
      PROVE  TunnelsInv'
  <2>1. handshakes' = [handshakes EXCEPT ![t] = "finished"]
    BY <1>0, <1>6 DEF FinishClient, ClientIsDone, TunnelsTypeOK
  <2> QED
    BY <1>0, <1>6, <2>1, OverKept DEF FinishClient, ClientIsDone, IsShaking
<1>7. ASSUME NEW n \in TunnelEnds, NEW t \in TunnelIds, FailForlorn(n, t) \/ FailByLoss(n, t)
      PROVE  TunnelsInv'
  <2>1. PICK state \in HandshakeStates : handshakes' = [handshakes EXCEPT ![t] = state]
    BY <1>0, <1>7 DEF FailForlorn, FailByLoss, Fail, TunnelsTypeOK
  <2>2. IsShaking(n, t) /\ Fail(n, t) /\ (Mishap \/ UNCHANGED mishaps)
    BY <1>7 DEF FailForlorn, FailByLoss
  <2> QED
    BY <2>1, <2>2, OverKept DEF Fail
<1>8. ASSUME NEW n \in TunnelEnds, NEW t \in TunnelIds,
             DisconnectAlone(n, t) \/ DisconnectByLoss(n, t)
      PROVE  TunnelsInv'
  <2>1. Disconnect(n, t) /\ (Mishap \/ UNCHANGED mishaps)
    BY <1>8 DEF DisconnectAlone, DisconnectByLoss
  <2>2. mishaps' \in 0 .. MaxMishaps
    BY <1>0, <2>1, MishapTyped DEF TunnelsTypeOK
  <2>3. TunnelsTypeOK'
    BY <1>0, <2>1, <2>2 DEF Disconnect, TunnelsTypeOK, TunnelStates
  <2>4. HandlerIsLive'
    BY <1>0, <2>1, Numbers DEF Disconnect, TunnelsInv, TunnelsTypeOK, HandlerIsLive
  <2>5. PendingIsShaking'
    <3>1. \A m \in TunnelEnds, u \in TunnelIds :
            tunnelEnd[m][u] # "live" => tunnelEnd'[m][u] = tunnelEnd[m][u]
      BY <1>0, <2>1 DEF Disconnect, TunnelsTypeOK
    <3>2. mPending' = mPending
      BY <2>1 DEF Disconnect
    <3> QED
      BY <3>1, <3>2 DEF TunnelsInv, PendingIsShaking, IsShaking
  <2> QED
    BY <2>3, <2>4, <2>5 DEF TunnelsInv
<1>9. ASSUME NEW n \in TunnelEnds, NEW t \in TunnelIds, FinishMistaken(n, t)
      PROVE  TunnelsInv'
  <2>1. mishaps' \in 0 .. MaxMishaps
    BY <1>0, <1>9, MishapTyped DEF FinishMistaken, TunnelsTypeOK
  <2>2. /\ tunnelEnd[n][t] = "client"
        /\ tunnelEnd' = [tunnelEnd EXCEPT ![n][t] = "mistaken"]
        /\ UNCHANGED <<knows, mPending, handler, opening, handshakes>>
    BY <1>9 DEF FinishMistaken, ClientIsDone
  <2>3. TunnelsTypeOK'
    BY <1>0, <2>1, <2>2 DEF TunnelsTypeOK, TunnelStates
  <2>4. HandlerIsLive'
    BY <1>0, <2>2 DEF TunnelsInv, TunnelsTypeOK, HandlerIsLive
  <2>5. PendingIsShaking'
    BY <1>0, <2>2 DEF TunnelsInv, TunnelsTypeOK, PendingIsShaking, IsShaking
  <2> QED
    BY <2>3, <2>4, <2>5 DEF TunnelsInv
<1>10. ASSUME UNCHANGED tunnelVars
       PROVE  TunnelsInv'
  BY <1>0, <1>1, <1>10 DEF tunnelVars, TunnelsTypeOK
<1> QED
  BY <1>2, <1>3, <1>4, <1>5, <1>6, <1>7, <1>8, <1>9, <1>10
  DEF TunnelsNext, Shake, GiveUp, Loss

\* TunnelsTypeOK and HandlerIsLive: no handler is left on a tunnel that its node
\* has let go of, and no tunnel is live without one, whatever handler
\* registerHandler finds in its place (network.cpp:539-574).
THEOREM HandlersOfLinks == TunnelsSpec => [](TunnelsTypeOK /\ HandlerIsLive)
<1>1. TunnelsInv => TunnelsTypeOK /\ HandlerIsLive
  BY DEF TunnelsInv
<1> QED
  BY <1>1, TunnelsInitOK, TunnelsKept, PTL DEF TunnelsSpec

\* PendingIsShaking: a number that is pending keeps its node from being opened
\* (network.cpp:1488, :1506).  Every end of a handshake takes it away, but one:
\* that with a peer who is somebody else (network.cpp:1722), which leaves it for
\* good.  So a node that nothing shakes hands with is closed by that only.
THEOREM PendingEnds == TunnelsSpec => []PendingIsShaking
<1>1. TunnelsInv => PendingIsShaking
  BY DEF TunnelsInv
<1> QED
  BY <1>1, TunnelsInitOK, TunnelsKept, PTL DEF TunnelsSpec

-----------------------------------------------------------------------------
(* The calls for a block.                                                  *)

\* The tokens for one source: more than none, and no more than for all of them.
LEMMA ShareIsPart ==
  ASSUME NEW t \in Nat \ {0}, NEW c \in Nat \ {0}
  PROVE  (t + c - 1) \div c \in 0 .. t
<1> DEFINE q == (t + c - 1) \div c
<1>1. q \in Int /\ c * q <= t + c - 1 /\ t + c - 1 < c * (q + 1)
  OBVIOUS
<1>2. q <= t
  <2> SUFFICES ASSUME q >= t + 1 PROVE FALSE
    BY <1>1
  <2>1. c * q >= c * (t + 1)
    BY <1>1
  <2>2. c * (t + 1) >= c + t
    OBVIOUS
  <2> QED
    BY <1>1, <2>1, <2>2
<1>3. q >= 0
  <2> SUFFICES ASSUME q + 1 <= 0 PROVE FALSE
    BY <1>1
  <2>1. c * (q + 1) <= 0
    BY <1>1
  <2> QED
    BY <1>1, <2>1
<1> QED
  BY <1>1, <1>2, <1>3

CallsInv == CallsTypeOK /\ TokensAreBounded

\* What may be pulled, called for or given in tokens.
LEMMA CallsNumbers ==
  /\ BlockRank \in Nat \ {0} /\ Redundant \in Nat \ {0}
  /\ MaxLost \in Nat /\ MaxVisits \in Nat /\ IsFiniteSet(Providers)
BY CallsAssumption

LEMMA MissingTyped == ASSUME CallsTypeOK PROVE MissingCount \in 0 .. BlockRank
BY CallsNumbers DEF CallsTypeOK, MissingCount

\* A pull on each source is for no more than the block.
LEMMA PullsTyped ==
  ASSUME CallsTypeOK, NEW wanted \in 0 .. BlockRank, DirectCall(wanted)
  PROVE  pulls' \in [Providers -> Seq(0 .. BlockRank)]
<1>1. IsFiniteSet(Sources)
  BY CallsNumbers, FS_Subset DEF CallsTypeOK, Sources
<1>2. ASSUME NEW p \in Sources, wanted # 0
      PROVE  Share(wanted) \in 0 .. BlockRank
  <2>1. Cardinality(Sources) \in Nat \ {0}
    BY <1>1, <1>2, FS_CardinalityType, FS_EmptySet
  <2>2. Share(wanted) \in 0 .. wanted
    BY <1>2, <2>1, ShareIsPart, CallsNumbers DEF Share
  <2> QED
    BY <2>2, CallsNumbers
<1>3. ASSUME NEW p \in Sources
      PROVE  (IF wanted = 0 THEN 0 ELSE Share(wanted)) \in 0 .. BlockRank
  BY <1>2, <1>3, CallsNumbers
<1> QED
  BY <1>3, AppendProperties, CallsNumbers DEF CallsTypeOK, DirectCall

\* And so is a call.
LEMMA CallsTyped ==
  ASSUME CallsTypeOK, NEW wanted \in 0 .. BlockRank, NEW nodes, Call(nodes, wanted)
  PROVE  calls' \in [Providers -> SUBSET (0 .. BlockRank)]
BY DEF CallsTypeOK, Call

\* The tokens a handler gives for those it is asked for.
LEMMA LinkTokensBounded ==
  ASSUME CallsInv, NEW p \in Providers, NEW wanted \in 0 .. BlockRank, HandlerPush(p, wanted)
  PROVE  /\ linkTokens' \in [Providers -> Nat]
         /\ \A q \in Providers : linkTokens'[q] <= Redundantly(BlockRank)
<1>1. Redundantly(wanted) \in Nat /\ Redundantly(wanted) <= Redundantly(BlockRank)
  BY CallsNumbers DEF Redundantly, AtLeast
<1>2. Redundantly(BlockRank) \in Nat
  BY CallsNumbers DEF Redundantly, AtLeast
<1>3. linkTokens \in [Providers -> Nat] /\ \A q \in Providers : linkTokens[q] <= Redundantly(BlockRank)
  BY DEF CallsInv, CallsTypeOK, TokensAreBounded
<1> DEFINE new == CASE wanted = 0 -> 0
                    [] wanted > 0 /\ linkTokens[p] = 0 -> Redundantly(wanted)
                    [] wanted > 0 /\ linkTokens[p] > 0 ->
                         AtMost(linkTokens[p] + Redundant, Redundantly(wanted))
<1>4. new \in Nat /\ new <= Redundantly(BlockRank)
  <2>1. CASE wanted = 0
    BY <2>1, <1>2
  <2>2. CASE wanted > 0 /\ linkTokens[p] = 0
    BY <2>2, <1>1, <1>2
  <2>3. CASE wanted > 0 /\ linkTokens[p] > 0
    <3>1. new = AtMost(linkTokens[p] + Redundant, Redundantly(wanted))
      BY <2>3, <1>3
    <3> HIDE DEF new
    <3> QED
      BY <3>1, <1>1, <1>2, <1>3, CallsNumbers DEF AtMost
  <2> QED
    BY <2>1, <2>2, <2>3, <1>3, CallsNumbers
<1>5. linkTokens' = [linkTokens EXCEPT ![p] = new]
  BY DEF HandlerPush
<1> HIDE DEF new
<1> QED
  BY <1>3, <1>4, <1>5

\* And those a pusher gives.
LEMMA RawTokensBounded ==
  ASSUME CallsInv, NEW p \in Providers, NEW wanted \in 0 .. BlockRank, PusherPush(p, wanted)
  PROVE  /\ rawTokens' \in [Providers -> Nat]
         /\ \A q \in Providers : rawTokens'[q] <= BlockRank + AtMost(BlockRank, Redundant)
<1> DEFINE more == IF wanted < Redundant THEN wanted * 2 ELSE wanted + Redundant
           most == BlockRank + AtMost(BlockRank, Redundant)
           new == CASE wanted = 0 -> 0
                    [] wanted > 0 /\ rawTokens[p] = 0 -> more
                    [] wanted > 0 /\ rawTokens[p] > 0 -> AtMost(rawTokens[p] + Redundant, more)
<1>1. more \in Nat /\ most \in Nat /\ more <= most
  BY CallsNumbers DEF AtMost
<1>2. rawTokens \in [Providers -> Nat] /\ \A q \in Providers : rawTokens[q] <= most
  BY DEF CallsInv, CallsTypeOK, TokensAreBounded
<1>3. rawTokens' = [rawTokens EXCEPT ![p] = new]
  BY DEF PusherPush
<1> HIDE DEF more, most
<1>4. new \in Nat /\ new <= most
  <2>1. CASE wanted = 0
    BY <2>1, <1>1
  <2>2. CASE wanted > 0 /\ rawTokens[p] = 0
    BY <2>2, <1>1
  <2>3. CASE wanted > 0 /\ rawTokens[p] > 0
    <3>1. new = AtMost(rawTokens[p] + Redundant, more)
      BY <2>3, <1>2
    <3> HIDE DEF new
    <3> QED
      BY <3>1, <1>1, <1>2, CallsNumbers DEF AtMost
  <2> QED
    BY <2>1, <2>2, <2>3, <1>2, CallsNumbers
<1> HIDE DEF new
<1>5. rawTokens' \in [Providers -> Nat] /\ \A q \in Providers : rawTokens'[q] <= most
  BY <1>2, <1>3, <1>4
<1> QED
  BY <1>5 DEF most

\* A caller goes on.
LEMMA CallerTyped ==
  ASSUME CallsTypeOK, NEW w \in Waiting,
         NEW at \in {"idle", "missing", "first", "waiting", "last"}, CallerAt(w, at)
  PROVE  caller' \in [Waiting -> [at : {"idle", "missing", "first", "waiting", "last"},
                                  visits : 0 .. MaxVisits]]
BY DEF CallsTypeOK, CallerAt

\* Only so much is lost.
LEMMA LossesTyped ==
  ASSUME CallsTypeOK, Loses \/ UNCHANGED losses
  PROVE  losses' \in 0 .. MaxLost
BY CallsNumbers DEF CallsTypeOK, Loses

\* A combination that comes adds to the rank or not; the callers may be gone.
LEMMA GainTyped ==
  ASSUME CallsTypeOK, Gain \/ UNCHANGED <<mCallers, rank>>
  PROVE  rank' \in 0 .. BlockRank /\ mCallers' \subseteq Waiting
BY CallsNumbers DEF CallsTypeOK, Gain, AtMost

\* The steps of a thread that waits.
LEMMA WaitingKept ==
  ASSUME CallsInv, NEW w \in Waiting, FindMissing(w) \/ CallerStep(w) \/ UnregisterCaller(w)
  PROVE  CallsInv'
<1> USE DEF CallsInv
<1>1. UNCHANGED <<rank, mLinksFromNodes, located, mCallCandidates, pushes, calls, linkTokens,
                  rawTokens, losses>>
  BY DEF FindMissing, CallerStep, UnregisterCaller, RegisterCaller, CallFirst, Cancel,
         transferVars
<1>2. mCallers' \subseteq Waiting
  BY DEF FindMissing, CallerStep, UnregisterCaller, RegisterCaller, CallFirst, Cancel,
         CallsTypeOK
<1>3. caller' \in [Waiting -> [at : {"idle", "missing", "first", "waiting", "last"},
                               visits : 0 .. MaxVisits]]
  <2>1. CASE FindMissing(w)
    <3>1. caller[w].visits + 1 \in 0 .. MaxVisits
      BY <2>1, CallsNumbers DEF FindMissing, CallsTypeOK
    <3> QED
      BY <2>1, <3>1 DEF FindMissing, CallsTypeOK
  <2>2. CASE RegisterCaller(w)
    BY <2>2, CallerTyped DEF RegisterCaller
  <2>3. CASE CallFirst(w)
    BY <2>3, CallerTyped DEF CallFirst
  <2>4. CASE Cancel(w)
    BY <2>4, CallerTyped DEF Cancel
  <2>5. CASE UnregisterCaller(w)
    BY <2>5, CallerTyped DEF UnregisterCaller
  <2> QED
    BY <2>1, <2>2, <2>3, <2>4, <2>5 DEF CallerStep
<1>4. pulls' \in [Providers -> Seq(0 .. BlockRank)]
  <2>1. CASE UNCHANGED pulls
    BY <2>1 DEF CallsTypeOK
  <2>2. CASE CallFirst(w)
    BY <2>2, PullsTyped, MissingTyped DEF CallFirst
  <2>3. CASE Cancel(w)
    BY <2>3, PullsTyped, CallsNumbers DEF Cancel
  <2> QED
    BY <2>1, <2>2, <2>3 DEF FindMissing, CallerStep, UnregisterCaller, RegisterCaller, transferVars
<1> QED
  BY <1>1, <1>2, <1>3, <1>4 DEF CallsTypeOK, TokensAreBounded

\* The steps of the network thread, and what the overlay brings it.
LEMMA CallingKept ==
  ASSUME CallsInv, SendCalls \/ SendBeacons \/ \E p \in Providers : MatchCallers(p)
  PROVE  CallsInv'
<1> USE DEF CallsInv
<1>1. UNCHANGED <<mCallers, caller, rank, mLinksFromNodes, pulls, pushes, linkTokens, rawTokens,
                  losses>>
  BY DEF SendCalls, SendBeacons, MatchCallers
<1>2. {located', mCallCandidates'} \subseteq SUBSET Providers
  <2>1. located \in SUBSET Providers /\ mCallCandidates \in SUBSET Providers
    BY DEF CallsTypeOK
  <2>2. located' \in SUBSET Providers /\ mCallCandidates' \in SUBSET Providers
    BY <2>1 DEF SendCalls, SendBeacons, MatchCallers
  <2> QED
    BY <2>2
<1>3. calls' \in [Providers -> SUBSET (0 .. BlockRank)]
  BY CallsTyped, MissingTyped DEF SendCalls, SendBeacons, MatchCallers, CallsTypeOK
<1> QED
  BY <1>1, <1>2, <1>3 DEF CallsTypeOK, TokensAreBounded

\* A record or a message is taken.
LEMMA ReceiptKept ==
  ASSUME CallsInv, NEW p \in Providers, ReceivePull(p) \/ ReceivePush(p) \/ ReceiveCalls(p)
  PROVE  CallsInv'
<1> USE DEF CallsInv
<1>1. CASE ReceivePull(p)
  <2>1. Head(pulls[p]) \in 0 .. BlockRank /\ Tail(pulls[p]) \in Seq(0 .. BlockRank)
    BY <1>1, HeadTailProperties DEF ReceivePull, CallsTypeOK
  <2>2. pulls' \in [Providers -> Seq(0 .. BlockRank)]
    BY <1>1, <2>1 DEF ReceivePull, CallsTypeOK
  <2>3. /\ linkTokens' \in [Providers -> Nat]
        /\ \A q \in Providers : linkTokens'[q] <= Redundantly(BlockRank)
    BY <1>1, <2>1, LinkTokensBounded DEF ReceivePull
  <2> QED
    BY <1>1, <2>2, <2>3 DEF ReceivePull, CallsTypeOK, TokensAreBounded
<1>2. CASE ReceivePush(p)
  <2>1. pushes' \in [Providers -> Nat]
    BY <1>2 DEF ReceivePush, CallsTypeOK
  <2>2. pulls' \in [Providers -> Seq(0 .. BlockRank)]
    BY <1>2, PullsTyped, MissingTyped DEF ReceivePush, AskAgain, CallsTypeOK
  <2> QED
    BY <1>2, <2>1, <2>2 DEF ReceivePush, CallsTypeOK, TokensAreBounded
<1>3. CASE ReceiveCalls(p)
  <2>1. PICK wanted \in 0 .. BlockRank : ReceiveCall(p, wanted)
    BY <1>3 DEF ReceiveCalls, CallsTypeOK
  <2>2. calls' \in [Providers -> SUBSET (0 .. BlockRank)]
    BY <2>1 DEF ReceiveCall, CallsTypeOK
  <2>3. /\ rawTokens' \in [Providers -> Nat]
        /\ \A q \in Providers : rawTokens'[q] <= BlockRank + AtMost(BlockRank, Redundant)
    <3>1. CASE PusherPush(p, wanted)
      BY <3>1, RawTokensBounded
    <3>2. CASE UNCHANGED rawTokens
      BY <3>2 DEF CallsTypeOK, TokensAreBounded
    <3> QED
      BY <2>1, <3>1, <3>2 DEF ReceiveCall
  <2>4. losses' \in 0 .. MaxLost
    BY <2>1, LossesTyped DEF ReceiveCall
  <2> QED
    BY <2>1, <2>2, <2>3, <2>4 DEF ReceiveCall, CallsTypeOK, TokensAreBounded
<1> QED
  BY <1>1, <1>2, <1>3

\* A combination is sent, and comes or is lost.
LEMMA PushKept ==
  ASSUME CallsInv, NEW p \in Providers, PushOnLink(p) \/ PushRaw(p)
  PROVE  CallsInv'
<1> USE DEF CallsInv
<1>1. Redundantly(BlockRank) \in Nat /\ BlockRank + AtMost(BlockRank, Redundant) \in Nat
  BY CallsNumbers DEF Redundantly, AtLeast, AtMost
<1>2. losses' \in 0 .. MaxLost
  BY LossesTyped DEF PushOnLink, PushRaw
<1>3. rank' \in 0 .. BlockRank /\ mCallers' \subseteq Waiting
  BY GainTyped DEF PushOnLink, PushRaw
<1>4. CASE PushOnLink(p)
  <2> DEFINE left == AtMost(linkTokens[p], (6 * BlockRank + 2) \div 5) - 1
  <2>1. left \in Nat /\ left <= linkTokens[p]
    <3>1. linkTokens[p] \in Nat /\ linkTokens[p] > 0
      BY <1>4 DEF PushOnLink, CallsTypeOK
    <3>2. (6 * BlockRank + 2) \div 5 \in Nat \ {0}
      BY CallsNumbers
    <3> QED
      BY <3>1, <3>2 DEF AtMost
  <2>2. /\ linkTokens' = [linkTokens EXCEPT ![p] = left]
        /\ pushes' = [pushes EXCEPT ![p] = IF left = 0 THEN @ + 1 ELSE @]
    BY <1>4 DEF PushOnLink
  <2> HIDE DEF left
  <2>3. /\ linkTokens' \in [Providers -> Nat]
        /\ \A q \in Providers : linkTokens'[q] <= Redundantly(BlockRank)
    BY <1>1, <2>1, <2>2 DEF CallsTypeOK, TokensAreBounded
  <2>4. pushes' \in [Providers -> Nat]
    BY <2>2 DEF CallsTypeOK
  <2> QED
    BY <1>2, <1>3, <1>4, <2>3, <2>4 DEF PushOnLink, CallsTypeOK, TokensAreBounded
<1>5. CASE PushRaw(p)
  <2> DEFINE left == AtMost(rawTokens[p], BlockRank + Redundant) - 1
  <2>1. left \in Nat /\ left <= rawTokens[p]
    <3>1. rawTokens[p] \in Nat /\ rawTokens[p] > 0
      BY <1>5 DEF PushRaw, CallsTypeOK
    <3> QED
      BY <3>1, CallsNumbers DEF AtMost
  <2>2. rawTokens' = [rawTokens EXCEPT ![p] = left]
    BY <1>5 DEF PushRaw
  <2> HIDE DEF left
  <2>3. /\ rawTokens' \in [Providers -> Nat]
        /\ \A q \in Providers : rawTokens'[q] <= BlockRank + AtMost(BlockRank, Redundant)
    BY <1>1, <2>1, <2>2 DEF CallsTypeOK, TokensAreBounded
  <2>4. calls' \in [Providers -> SUBSET (0 .. BlockRank)]
    BY <1>5, CallsTyped, CallsNumbers DEF PushRaw, CallsTypeOK
  <2> QED
    BY <1>2, <1>3, <1>5, <2>3, <2>4 DEF PushRaw, CallsTypeOK, TokensAreBounded
<1> QED
  BY <1>4, <1>5

\* A link that goes takes its tokens with it.
LEMMA LoseLinkKept ==
  ASSUME CallsInv, NEW p \in Providers, LoseLink(p)
  PROVE  CallsInv'
<1> USE DEF CallsInv
<1>1. losses' \in 0 .. MaxLost
  BY LossesTyped DEF LoseLink
<1>2. pulls' \in [Providers -> Seq(0 .. BlockRank)]
  BY EmptySeq DEF LoseLink, CallsTypeOK
<1>3. Redundantly(BlockRank) \in Nat
  BY CallsNumbers DEF Redundantly, AtLeast
<1>4. /\ linkTokens' \in [Providers -> Nat]
      /\ \A q \in Providers : linkTokens'[q] <= Redundantly(BlockRank)
  BY <1>3 DEF LoseLink, CallsTypeOK, TokensAreBounded
<1> QED
  BY <1>1, <1>2, <1>4 DEF LoseLink, CallsTypeOK, TokensAreBounded

LEMMA CallsInitOK == CallsInit => CallsInv
<1> SUFFICES ASSUME CallsInit PROVE CallsInv
  OBVIOUS
<1>1. CallsTypeOK
  BY CallsNumbers, EmptySeq DEF CallsInit, CallsTypeOK
<1>2. Redundantly(BlockRank) >= 0 /\ BlockRank + AtMost(BlockRank, Redundant) >= 0
  BY CallsNumbers DEF Redundantly, AtLeast, AtMost
<1> QED
  BY <1>1, <1>2 DEF CallsInit, CallsInv, TokensAreBounded

LEMMA CallsKept == CallsInv /\ [CallsNext]_callsVars => CallsInv'
<1> SUFFICES ASSUME CallsInv, [CallsNext]_callsVars PROVE CallsInv'
  OBVIOUS
<1>1. CASE UNCHANGED callsVars
  BY <1>1 DEF CallsInv, CallsTypeOK, TokensAreBounded, callsVars
<1> QED
  BY <1>1, WaitingKept, CallingKept, ReceiptKept, PushKept, LoseLinkKept
  DEF CallsNext, ProviderStep

\* CallsTypeOK and TokensAreBounded: for any number of nodes that have the block
\* and of threads that wait for it, however it is asked for, called for, pushed
\* and lost, a node has no more tokens than the whole block takes with the
\* redundancy (network.cpp:2035, :2499); what is shared among the sources is no
\* more than what is missing.
THEOREM TokensStayBounded == CallsSpec => [](CallsTypeOK /\ TokensAreBounded)
<1>1. CallsInv => CallsTypeOK /\ TokensAreBounded
  BY DEF CallsInv
<1> QED
  BY <1>1, CallsInitOK, CallsKept, PTL DEF CallsSpec

\* A thread waits for the block, with a Caller.
Waits(w) == caller[w].at \in {"first", "waiting"}

\* Who is registered waits, and who waits is registered until the block is there.
WaitingAreCallers ==
  /\ \A w \in mCallers : w \in Waiting /\ Waits(w)
  /\ ~Complete => \A w \in Waiting : Waits(w) => w \in mCallers

\* A combination that comes takes the callers off only with the last one.
LEMMA GainLeaves ==
  ASSUME CallsTypeOK, Gain \/ UNCHANGED <<mCallers, rank>>
  PROVE  /\ Complete => Complete'
         /\ mCallers' = mCallers \/ (mCallers' = {} /\ Complete')
BY CallsNumbers DEF CallsTypeOK, Gain, AtMost, Complete

LEMMA WaitingAreCallersKept ==
  ASSUME CallsTypeOK, WaitingAreCallers, [CallsNext]_callsVars
  PROVE  WaitingAreCallers'
<1>1. ASSUME UNCHANGED caller, Gain \/ UNCHANGED <<mCallers, rank>>
      PROVE  WaitingAreCallers'
  BY <1>1, GainLeaves DEF WaitingAreCallers, Waits
<1>2. CASE UNCHANGED callsVars
  BY <1>1, <1>2 DEF callsVars
<1>3. ASSUME NEW w \in Waiting, FindMissing(w) \/ CallerStep(w) \/ UnregisterCaller(w)
      PROVE  WaitingAreCallers'
  <2>1. UNCHANGED rank
    BY <1>3 DEF FindMissing, CallerStep, RegisterCaller, CallFirst, Cancel, UnregisterCaller,
       transferVars
  <2>2. \A v \in Waiting \ {w} : caller'[v] = caller[v]
    BY <1>3 DEF FindMissing, CallerStep, RegisterCaller, CallFirst, Cancel, UnregisterCaller,
       CallerAt, CallsTypeOK
  <2>3. \/ ~Waits(w)' /\ mCallers' = mCallers \ {w}
        \/ Waits(w)' /\ mCallers' = mCallers \cup {w}
        \/ Waits(w)' /\ Waits(w) /\ mCallers' = mCallers
    <3>1. caller[w] = [caller[w] EXCEPT !.at = caller[w].at]
      BY DEF CallsTypeOK
    <3>2. CASE FindMissing(w)
      BY <3>2 DEF FindMissing, Waits, WaitingAreCallers, CallsTypeOK
    <3>3. CASE RegisterCaller(w)
      BY <3>3 DEF RegisterCaller, CallerAt, Waits, CallsTypeOK
    <3>4. CASE CallFirst(w)
      BY <3>4 DEF CallFirst, CallerAt, Waits, CallsTypeOK
    <3>5. CASE Cancel(w)
      BY <3>5 DEF Cancel, CallerAt, Waits, WaitingAreCallers, CallsTypeOK
    <3>6. CASE UnregisterCaller(w)
      BY <3>6 DEF UnregisterCaller, CallerAt, Waits, CallsTypeOK
    <3> QED
      BY <1>3, <3>2, <3>3, <3>4, <3>5, <3>6 DEF CallerStep
  <2> QED
    BY <2>1, <2>2, <2>3 DEF WaitingAreCallers, Waits, Complete
<1>4. CASE SendCalls \/ SendBeacons
  BY <1>1, <1>4 DEF SendCalls, SendBeacons
<1>5. ASSUME NEW p \in Providers,
             ProviderStep(p) \/ ReceiveCalls(p) \/ PushRaw(p) \/ MatchCallers(p) \/ LoseLink(p)
      PROVE  UNCHANGED caller /\ (Gain \/ UNCHANGED <<mCallers, rank>>)
  BY <1>5 DEF ProviderStep, ReceivePull, PushOnLink, ReceivePush, ReceiveCalls, ReceiveCall, PushRaw,
     MatchCallers, LoseLink
<1> QED
  BY <1>1, <1>2, <1>3, <1>4, <1>5 DEF CallsNext

\* A thread that waits for a block is registered as a caller until the block is
\* there, for any number of threads that come, give up, cancel and come again:
\* unregisterAllCallers (network.cpp:449, :2146) only comes with the last
\* combination.  So as long as someone waits, sendCalls asks for the block each
\* second: the part of BlockArrives that is a safety property.
THEOREM WhoWaitsIsCalledFor == CallsSpec => []WaitingAreCallers
<1>1. CallsInit => WaitingAreCallers
  BY DEF CallsInit, WaitingAreCallers, Waits
<1>2. CallsTypeOK /\ WaitingAreCallers /\ [CallsNext]_callsVars => WaitingAreCallers'
  BY WaitingAreCallersKept
<1> QED
  BY <1>1, <1>2, TokensStayBounded, PTL DEF CallsSpec

\* A step that leaves a node no more to push than was asked of it before: what
\* is asked now is to stop, tokens come from a record or a message that was on
\* its way, and a "push" from the last of the tokens.
NothingMoreAsked(p) ==
  /\ calls'[p] \subseteq calls[p] \cup {0}
  /\ \/ pulls'[p] \in {pulls[p], Append(pulls[p], 0), << >>}
     \/ pulls[p] # << >> /\ pulls'[p] = Tail(pulls[p])
  /\ linkTokens'[p] > linkTokens[p] =>
       pulls[p] # << >> /\ Head(pulls[p]) > 0 /\ pulls'[p] = Tail(pulls[p])
  /\ rawTokens'[p] > rawTokens[p] =>
       \E wanted \in calls[p] : wanted > 0 /\ calls'[p] = calls[p] \ {wanted}
  /\ pushes'[p] > pushes[p] => linkTokens'[p] < linkTokens[p]
WindsDown == Complete => Complete' /\ \A p \in Providers : NothingMoreAsked(p)

LEMMA StepWindsDown ==
  ASSUME CallsTypeOK, Complete, [CallsNext]_callsVars
  PROVE  Complete' /\ \A p \in Providers : NothingMoreAsked(p)
<1>1. MissingCount = 0
  BY CallsNumbers DEF Complete, MissingCount
<1>2. /\ pulls \in [Providers -> Seq(0 .. BlockRank)] /\ pushes \in [Providers -> Nat]
      /\ calls \in [Providers -> SUBSET (0 .. BlockRank)]
      /\ linkTokens \in [Providers -> Nat] /\ rawTokens \in [Providers -> Nat]
  BY DEF CallsTypeOK
<1>0. ASSUME NEW q \in Providers, calls'[q] = calls[q], pulls'[q] = pulls[q],
             linkTokens'[q] = linkTokens[q], rawTokens'[q] = rawTokens[q], pushes'[q] = pushes[q]
      PROVE  NothingMoreAsked(q)
  BY <1>0, <1>2 DEF NothingMoreAsked
<1>3. DirectCall(0) => \A q \in Providers : pulls'[q] \in {pulls[q], Append(pulls[q], 0)}
  BY DEF DirectCall
<1>4. ASSUME NEW nodes, Call(nodes, 0)
      PROVE  \A q \in Providers : calls'[q] \subseteq calls[q] \cup {0}
  BY <1>4 DEF Call
<1>5. ASSUME UNCHANGED <<rank, linkTokens, rawTokens, pushes>>,
             \A q \in Providers : /\ pulls'[q] \in {pulls[q], Append(pulls[q], 0)}
                                  /\ calls'[q] \subseteq calls[q] \cup {0}
      PROVE  Complete' /\ \A p \in Providers : NothingMoreAsked(p)
  BY <1>2, <1>5 DEF NothingMoreAsked, Complete
<1>6. CASE UNCHANGED callsVars
  BY <1>5, <1>6 DEF callsVars
<1>7. ASSUME NEW w \in Waiting, FindMissing(w) \/ CallerStep(w) \/ UnregisterCaller(w)
      PROVE  Complete' /\ \A p \in Providers : NothingMoreAsked(p)
  <2>1. CASE FindMissing(w) \/ RegisterCaller(w) \/ UnregisterCaller(w)
    BY <1>5, <2>1 DEF FindMissing, RegisterCaller, UnregisterCaller, transferVars
  <2>2. CASE CallFirst(w) \/ Cancel(w)
    BY <1>1, <1>3, <1>5, <2>2 DEF CallFirst, Cancel
  <2> QED
    BY <1>7, <2>1, <2>2 DEF CallerStep
<1>8. CASE SendCalls \/ SendBeacons
  BY <1>1, <1>4, <1>5, <1>8 DEF SendCalls, SendBeacons
<1>9. ASSUME NEW p \in Providers, MatchCallers(p)
      PROVE  Complete' /\ \A q \in Providers : NothingMoreAsked(q)
  BY <1>1, <1>4, <1>5, <1>9 DEF MatchCallers
<1>10. ASSUME NEW p \in Providers, ReceivePull(p)
       PROVE  Complete' /\ \A q \in Providers : NothingMoreAsked(q)
  <2>1. /\ pulls[p] # << >> /\ pulls' = [pulls EXCEPT ![p] = Tail(@)] /\ HandlerPush(p, Head(pulls[p]))
        /\ UNCHANGED <<rank, pushes, calls, rawTokens>>
    BY <1>10 DEF ReceivePull
  <2>2. Head(pulls[p]) \in 0 .. BlockRank
    BY <1>2, <2>1, HeadTailProperties
  <2>3. linkTokens'[p] > linkTokens[p] => Head(pulls[p]) > 0
    BY <1>2, <2>1, <2>2, CallsNumbers DEF HandlerPush
  <2>4. \A q \in Providers \ {p} : linkTokens'[q] = linkTokens[q] /\ pulls'[q] = pulls[q]
    BY <1>2, <2>1 DEF HandlerPush
  <2>5. pulls'[p] = Tail(pulls[p])
    BY <1>2, <2>1
  <2>6. NothingMoreAsked(p)
    BY <1>2, <2>1, <2>3, <2>5 DEF NothingMoreAsked
  <2>7. \A q \in Providers \ {p} : NothingMoreAsked(q)
    BY <1>0, <2>1, <2>4
  <2> QED
    BY <2>1, <2>6, <2>7 DEF Complete
<1>11. ASSUME NEW p \in Providers, PushOnLink(p)
       PROVE  Complete' /\ \A q \in Providers : NothingMoreAsked(q)
  <2> DEFINE left == AtMost(linkTokens[p], (6 * BlockRank + 2) \div 5) - 1
  <2>1. left \in Int /\ left < linkTokens[p]
    BY <1>2, <1>11, CallsNumbers DEF PushOnLink, AtMost
  <2>2. /\ linkTokens' = [linkTokens EXCEPT ![p] = left]
        /\ pushes' = [pushes EXCEPT ![p] = IF left = 0 THEN @ + 1 ELSE @]
        /\ UNCHANGED <<pulls, calls, rawTokens>>
    BY <1>11 DEF PushOnLink
  <2> HIDE DEF left
  <2>3. /\ linkTokens'[p] < linkTokens[p]
        /\ \A q \in Providers \ {p} : linkTokens'[q] = linkTokens[q] /\ pushes'[q] = pushes[q]
    BY <1>2, <2>1, <2>2
  <2>4. Complete'
    BY <1>11, GainLeaves DEF PushOnLink
  <2>5. ~(linkTokens'[p] > linkTokens[p])
    BY <2>1, <2>2, <1>2
  <2>6. NothingMoreAsked(p)
    BY <1>2, <2>2, <2>3, <2>5 DEF NothingMoreAsked
  <2>7. \A q \in Providers \ {p} : NothingMoreAsked(q)
    BY <1>0, <2>2, <2>3
  <2> QED
    BY <2>4, <2>6, <2>7
<1>12. ASSUME NEW p \in Providers, ReceivePush(p)
       PROVE  Complete' /\ \A q \in Providers : NothingMoreAsked(q)
  <2>1. /\ pushes' = [pushes EXCEPT ![p] = @ - 1]
        /\ UNCHANGED <<pulls, rank, calls, linkTokens, rawTokens>>
    BY <1>12 DEF ReceivePush, AskAgain
  <2>2. \A q \in Providers : ~(pushes'[q] > pushes[q])
    BY <1>2, <2>1
  <2> QED
    BY <1>2, <2>1, <2>2 DEF NothingMoreAsked, Complete
<1>13. ASSUME NEW p \in Providers, ReceiveCalls(p)
       PROVE  Complete' /\ \A q \in Providers : NothingMoreAsked(q)
  <2>1. PICK wanted \in calls[p] : ReceiveCall(p, wanted)
    BY <1>13 DEF ReceiveCalls
  <2>2. /\ calls' = [calls EXCEPT ![p] = @ \ {wanted}]
        /\ PusherPush(p, wanted) \/ UNCHANGED rawTokens
        /\ UNCHANGED <<rank, pulls, pushes, linkTokens>>
    BY <2>1 DEF ReceiveCall
  <2>3. wanted \in 0 .. BlockRank
    BY <1>2
  <2>4. rawTokens'[p] > rawTokens[p] => wanted > 0
    BY <1>2, <2>2, <2>3, CallsNumbers DEF PusherPush
  <2>5. \A q \in Providers \ {p} : rawTokens'[q] = rawTokens[q] /\ calls'[q] = calls[q]
    BY <1>2, <2>2 DEF PusherPush
  <2>6. calls'[p] = calls[p] \ {wanted}
    BY <1>2, <2>2
  <2>7. NothingMoreAsked(p)
    BY <1>2, <2>2, <2>4, <2>6 DEF NothingMoreAsked
  <2>8. \A q \in Providers \ {p} : NothingMoreAsked(q)
    BY <1>0, <2>2, <2>5
  <2> QED
    BY <2>2, <2>7, <2>8 DEF Complete
<1>14. ASSUME NEW p \in Providers, PushRaw(p)
       PROVE  Complete' /\ \A q \in Providers : NothingMoreAsked(q)
  <2> DEFINE left == AtMost(rawTokens[p], BlockRank + Redundant) - 1
  <2>1. left \in Int /\ left < rawTokens[p]
    BY <1>2, <1>14, CallsNumbers DEF PushRaw, AtMost
  <2>2. /\ rawTokens' = [rawTokens EXCEPT ![p] = left]
        /\ Call(located, 0) \/ UNCHANGED calls
        /\ UNCHANGED <<pulls, pushes, linkTokens>>
    BY <1>14 DEF PushRaw
  <2> HIDE DEF left
  <2>3. \A q \in Providers : ~(rawTokens'[q] > rawTokens[q])
    BY <1>2, <2>1, <2>2
  <2>4. \A q \in Providers : calls'[q] \subseteq calls[q] \cup {0}
    BY <1>4, <2>2
  <2>5. Complete'
    BY <1>14, GainLeaves DEF PushRaw
  <2> QED
    BY <1>2, <2>2, <2>3, <2>4, <2>5 DEF NothingMoreAsked
<1>15. ASSUME NEW p \in Providers, LoseLink(p)
       PROVE  Complete' /\ \A q \in Providers : NothingMoreAsked(q)
  <2>1. /\ pulls' = [pulls EXCEPT ![p] = << >>] /\ pushes' = [pushes EXCEPT ![p] = 0]
        /\ linkTokens' = [linkTokens EXCEPT ![p] = 0] /\ UNCHANGED <<rank, calls, rawTokens>>
    BY <1>15 DEF LoseLink
  <2>2. \A q \in Providers : /\ ~(pushes'[q] > pushes[q]) /\ ~(linkTokens'[q] > linkTokens[q])
                             /\ pulls'[q] \in {pulls[q], << >>}
    BY <1>2, <2>1
  <2> QED
    BY <1>2, <2>1, <2>2 DEF NothingMoreAsked, Complete
<1> QED
  BY <1>6, <1>7, <1>8, <1>9, <1>10, <1>11, <1>12, <1>13, <1>14, <1>15 DEF CallsNext, ProviderStep

\* Once the block is there, nobody is asked for more of it: of its providers,
\* each has left to push what was asked of it before, less what it has pushed,
\* however many threads still call, cancel or find the block missing
\* (network.cpp:459, :711, :2381).  This is the part of ComesToRest that is a
\* safety property; that nobody asks again is what a push over a link that
\* comes late relies on.
THEOREM OnlyWindsDown == CallsSpec => [][WindsDown]_callsVars
<1>1. CallsTypeOK /\ [CallsNext]_callsVars => [WindsDown]_callsVars
  BY StepWindsDown DEF WindsDown
<1> QED
  BY <1>1, TokensStayBounded, PTL DEF CallsSpec

-----------------------------------------------------------------------------
(* What a board has been through, what it announces, and what it keeps.    *)

\* Each of these variables has a value for each member.
Shaped ==
  /\ mDigests = [b \in Members |-> mDigests[b]]
  /\ mPreviousDigests = [b \in Members |-> mPreviousDigests[b]]
  /\ mProcessedDigests = [b \in Members |-> mProcessedDigests[b]]
  /\ stored = [b \in Members |-> stored[b]]
  /\ values = [b \in Members |-> values[b]]
  /\ permanent = [b \in Members |-> permanent[b]]
  /\ written = [b \in Members |-> written[b]]
  /\ fetching = [b \in Members |-> fetching[b]]
  /\ missed = [b \in Members |-> missed[b]]

\* Some resource that the board has been through names r.
IsNamed(b, r) == \E s \in Tried(b) : r \in s.previous

\* What is said of one member; that the previous digests are named is what keeps
\* a resource that comes after one that names it from being a head.
Leads(b) ==
  /\ mDigests[b] \subseteq Tried(b) /\ Tried(b) \subseteq stored[b]
  /\ \A r \in Tried(b) \ mDigests[b] : IsNamed(b, r)
  /\ \A r \in mPreviousDigests[b] : IsNamed(b, r)

\* The digests that a node has on its disk were passed to incoming, and those of
\* what it has added itself stay there.
Knows(b) ==
  /\ values[b] \subseteq mProcessedDigests[b] \cup fetching[b] \cup missed[b]
  /\ permanent[b] \subseteq values[b]
  /\ \A m \in written[b] : \E r \in permanent[b] : r.mail = m

BoardInv == Shaped /\ \A b \in Members : Leads(b) /\ Knows(b)

graphVars == <<mDigests, mPreviousDigests, mProcessedDigests, stored, values, kept, fetching,
               missed>>

\* Steps that leave the graph alone.
LEMMA GraphUnchanged ==
  ASSUME BoardInv, UNCHANGED graphVars
  PROVE  BoardInv'
BY DEF BoardInv, Shaped, Leads, Knows, IsNamed, Tried, graphVars, kept

\* The graph of one member stays as it is.
LEMMA GraphOf ==
  ASSUME BoardInv, NEW a \in Members,
         mDigests'[a] = mDigests[a], mPreviousDigests'[a] = mPreviousDigests[a],
         mProcessedDigests'[a] = mProcessedDigests[a], stored'[a] = stored[a],
         values'[a] = values[a], permanent'[a] = permanent[a], written'[a] = written[a],
         fetching'[a] = fetching[a], missed'[a] = missed[a]
  PROVE  Leads(a)' /\ Knows(a)'
<1>1. Tried(a)' = Tried(a)
  BY DEF Tried
<1>2. \A r : IsNamed(a, r)' <=> IsNamed(a, r)
  BY <1>1 DEF IsNamed
<1>3. Leads(a)'
  BY <1>1, <1>2 DEF BoardInv, Leads
<1>4. Knows(a)'
  BY DEF BoardInv, Knows
<1> QED
  BY <1>3, <1>4

\* A mail that is added: its resource names all the heads and takes their place.
LEMMA AddKept ==
  ASSUME BoardInv, NEW b \in Members, NEW m, NEW after, Add(b, m, after),
         UNCHANGED <<fetching, missed>>
  PROVE  BoardInv'
<1>1. PICK resource : resource = [mail |-> m, previous |-> mDigests[b]]
  OBVIOUS
<1>2. resource.previous = mDigests[b] /\ resource.mail = m
  BY <1>1
<1>3. /\ stored' = [stored EXCEPT ![b] = @ \cup {resource}]
      /\ values' = [values EXCEPT ![b] = @ \cup {resource}]
      /\ permanent' = [permanent EXCEPT ![b] = @ \cup {resource}]
      /\ written' = [written EXCEPT ![b] = @ \cup {m}]
      /\ mPreviousDigests' = [mPreviousDigests EXCEPT ![b] = @ \cup mDigests[b]]
      /\ mDigests' = [mDigests EXCEPT ![b] = {resource}]
      /\ mProcessedDigests' = [mProcessedDigests EXCEPT ![b] = @ \cup {resource}]
  BY <1>1 DEF Add, AddResource
<1>4. Shaped'
  BY <1>3 DEF BoardInv, Shaped
<1>5. /\ stored'[b] = stored[b] \cup {resource} /\ values'[b] = values[b] \cup {resource}
      /\ permanent'[b] = permanent[b] \cup {resource} /\ written'[b] = written[b] \cup {m}
      /\ mPreviousDigests'[b] = mPreviousDigests[b] \cup mDigests[b]
      /\ mDigests'[b] = {resource}
      /\ mProcessedDigests'[b] = mProcessedDigests[b] \cup {resource}
  BY <1>3 DEF BoardInv, Shaped
<1>6. Tried(b)' = Tried(b) \cup {resource}
  BY <1>5 DEF Tried
<1>7. Leads(b)'
  <2>1. \A r \in mDigests[b] : IsNamed(b, r)'
    BY <1>2, <1>6 DEF IsNamed
  <2>2. \A r : IsNamed(b, r) => IsNamed(b, r)'
    BY <1>6 DEF IsNamed
  <2> QED
    BY <1>5, <1>6, <2>1, <2>2 DEF BoardInv, Leads
<1>8. Knows(b)'
  BY <1>2, <1>5 DEF BoardInv, Knows
<1>9. ASSUME NEW a \in Members \ {b}
      PROVE  Leads(a)' /\ Knows(a)'
  BY <1>3, GraphOf DEF BoardInv, Shaped
<1> QED
  BY <1>4, <1>7, <1>8, <1>9 DEF BoardInv

\* Digests that are published are fetched if one of them is new.
LEMMA TargetsKept ==
  ASSUME BoardInv, NEW b \in Members, NEW targets, ReceiveTargets(b, targets), UNCHANGED missed
  PROVE  BoardInv'
<1>1. UNCHANGED <<mDigests, mPreviousDigests, mProcessedDigests, stored, permanent, written>>
  BY DEF ReceiveTargets, memory, kept
<1>2. Shaped'
  BY <1>1 DEF BoardInv, Shaped, ReceiveTargets
<1>3. Leads(b)'
  <2>1. Tried(b)' = Tried(b)
    BY <1>1 DEF Tried
  <2> QED
    BY <1>1, <2>1 DEF BoardInv, Leads, IsNamed
<1>4. /\ values'[b] = values[b] \cup targets
      /\ fetching'[b] = IF targets \subseteq values[b] THEN fetching[b] ELSE fetching[b] \cup targets
  BY DEF BoardInv, Shaped, ReceiveTargets
<1>5. Knows(b)'
  BY <1>1, <1>4 DEF BoardInv, Knows
<1>6. ASSUME NEW a \in Members \ {b}
      PROVE  Leads(a)' /\ Knows(a)'
  <2>1. values'[a] = values[a] /\ fetching'[a] = fetching[a]
    BY DEF BoardInv, Shaped, ReceiveTargets
  <2> QED
    BY <1>1, <2>1, GraphOf
<1> QED
  BY <1>2, <1>3, <1>5, <1>6 DEF BoardInv

\* What is chained, all or some of what r names: r is a head unless another names
\* it, and those are not.
LEMMA ChainKept ==
  ASSUME Shaped, NEW b \in Members, Leads(b), NEW r, NEW named \in SUBSET r.previous,
         Chain(b, r, named), stored'[b] = stored[b] \cup {r}, Tried(b)' = Tried(b) \cup {r}
  PROVE  Leads(b)'
<1>1. /\ mDigests'[b] =
           (mDigests[b] \cup IF r \in mPreviousDigests[b] THEN {} ELSE {r}) \ named
      /\ mPreviousDigests'[b] = mPreviousDigests[b] \cup named
  BY DEF Shaped, Chain
<1>2. mDigests'[b] \subseteq Tried(b)' /\ Tried(b)' \subseteq stored'[b]
  BY <1>1 DEF Leads
<1>3. \A s : IsNamed(b, s) => IsNamed(b, s)'
  BY DEF IsNamed
<1>4. \A s \in named : IsNamed(b, s)'
  BY DEF IsNamed
<1>5. \A s \in mPreviousDigests'[b] : IsNamed(b, s)'
  BY <1>1, <1>3, <1>4 DEF Leads
<1>6. \A s \in Tried(b)' \ mDigests'[b] : IsNamed(b, s)'
  BY <1>1, <1>3, <1>4 DEF Leads
<1> QED
  BY <1>2, <1>5, <1>6 DEF Leads

\* A resource that is fetched is read, and in the cache.
LEMMA IncomingKept ==
  ASSUME BoardInv, NEW b \in Members, NEW r, Incoming(b, r)
  PROVE  BoardInv'
<1>1. /\ UNCHANGED <<values, permanent, written, missed>>
      /\ stored' = [stored EXCEPT ![b] = @ \cup {r}]
  BY DEF Incoming, faultVars, kept
<1>2. /\ mProcessedDigests' = [mProcessedDigests EXCEPT ![b] = @ \cup {r}]
      /\ \E named : fetching' = [fetching EXCEPT ![b] = (@ \cup named) \ {r}]
      /\ UNCHANGED <<mDigests, mPreviousDigests>> \/ Chain(b, r, r.previous)
  BY DEF Incoming, Fetch, BoardInv, Shaped
<1>3. Shaped'
  BY <1>1, <1>2 DEF BoardInv, Shaped, Chain
<1>4. /\ stored'[b] = stored[b] \cup {r} /\ fetching[b] \ {r} \subseteq fetching'[b]
      /\ mProcessedDigests'[b] = mProcessedDigests[b] \cup {r}
  BY <1>1, <1>2 DEF BoardInv, Shaped
<1>5. Tried(b)' = Tried(b) \cup {r}
  BY <1>1, <1>4 DEF Tried
<1>6. Leads(b)'
  <2>1. CASE r \in mProcessedDigests[b]
    <3>1. Tried(b)' = Tried(b) /\ UNCHANGED <<mDigests, mPreviousDigests>>
      BY <1>5, <2>1 DEF Incoming, Tried
    <3> QED
      BY <1>4, <3>1 DEF BoardInv, Leads, IsNamed
  <2>2. CASE r \notin mProcessedDigests[b]
    BY <1>4, <1>5, <2>2, ChainKept DEF Incoming, BoardInv
  <2> QED
    BY <2>1, <2>2
<1>7. Knows(b)'
  BY <1>1, <1>4 DEF BoardInv, Knows
<1>8. ASSUME NEW a \in Members \ {b}
      PROVE  Leads(a)' /\ Knows(a)'
  <2>1. /\ stored'[a] = stored[a] /\ mProcessedDigests'[a] = mProcessedDigests[a]
        /\ fetching'[a] = fetching[a]
    BY <1>1, <1>2 DEF BoardInv, Shaped
  <2>2. mDigests'[a] = mDigests[a] /\ mPreviousDigests'[a] = mPreviousDigests[a]
    BY <1>2 DEF BoardInv, Shaped, Chain
  <2> QED
    BY <1>1, <2>1, <2>2, GraphOf
<1> QED
  BY <1>3, <1>6, <1>7, <1>8 DEF BoardInv

\* A resource that makes incoming throw is in the cache and chained, though it may
\* be with some of what it names only.
LEMMA ReadFailsKept ==
  ASSUME BoardInv, NEW b \in Members, NEW r, ReadFails(b, r)
  PROVE  BoardInv'
<1>1. /\ UNCHANGED <<mProcessedDigests, values, permanent, written>>
      /\ stored' = [stored EXCEPT ![b] = @ \cup {r}]
      /\ missed' = [missed EXCEPT ![b] = @ \cup {r}]
  BY DEF ReadFails, kept
<1>2. PICK named \in SUBSET r.previous : Chain(b, r, named)
  BY DEF ReadFails
<1>3. \E some : fetching' = [fetching EXCEPT ![b] = (@ \cup some) \ {r}]
  BY DEF ReadFails, Fetch
<1>4. Shaped'
  BY <1>1, <1>2, <1>3 DEF BoardInv, Shaped, Chain
<1>5. /\ stored'[b] = stored[b] \cup {r} /\ missed'[b] = missed[b] \cup {r}
      /\ fetching[b] \ {r} \subseteq fetching'[b]
  BY <1>1, <1>3 DEF BoardInv, Shaped
<1>6. Tried(b)' = Tried(b) \cup {r}
  <2>1. mProcessedDigests[b] \cup (missed[b] \cap stored[b]) \subseteq stored[b]
    BY DEF BoardInv, Leads, Tried
  <2>2. (missed[b] \cup {r}) \cap (stored[b] \cup {r}) = (missed[b] \cap stored[b]) \cup {r}
    OBVIOUS
  <2> QED
    BY <1>1, <1>5, <2>2 DEF Tried
<1>7. Leads(b)'
  BY <1>2, <1>5, <1>6, ChainKept DEF BoardInv
<1>8. Knows(b)'
  BY <1>1, <1>5 DEF BoardInv, Knows
<1>9. ASSUME NEW a \in Members \ {b}
      PROVE  Leads(a)' /\ Knows(a)'
  <2>1. stored'[a] = stored[a] /\ missed'[a] = missed[a] /\ fetching'[a] = fetching[a]
    BY <1>1, <1>3 DEF BoardInv, Shaped
  <2>2. mDigests'[a] = mDigests[a] /\ mPreviousDigests'[a] = mPreviousDigests[a]
    BY <1>2 DEF BoardInv, Shaped, Chain
  <2> QED
    BY <1>1, <2>1, <2>2, GraphOf
<1> QED
  BY <1>4, <1>7, <1>8, <1>9 DEF BoardInv

\* A resource that cannot be fetched is not in the cache.
LEMMA FetchFailsKept ==
  ASSUME BoardInv, NEW b \in Members, NEW r, FetchFails(b, r)
  PROVE  BoardInv'
<1>1. /\ missed' = [missed EXCEPT ![b] = @ \cup {r}]
      /\ fetching' = [fetching EXCEPT ![b] = @ \ {r}]
      /\ UNCHANGED <<mDigests, mPreviousDigests, mProcessedDigests, stored, values, permanent,
                     written>>
      /\ r \notin stored[b]
  BY DEF FetchFails, memory, kept, CanFetch
<1>2. Shaped'
  BY <1>1 DEF BoardInv, Shaped
<1>3. missed'[b] = missed[b] \cup {r} /\ fetching'[b] = fetching[b] \ {r}
  BY <1>1 DEF BoardInv, Shaped
<1>4. Tried(b)' = Tried(b)
  BY <1>1, <1>3 DEF Tried
<1>5. Leads(b)'
  BY <1>1, <1>4 DEF BoardInv, Leads, IsNamed
<1>6. Knows(b)'
  BY <1>1, <1>3 DEF BoardInv, Knows
<1>7. ASSUME NEW a \in Members \ {b}
      PROVE  Leads(a)' /\ Knows(a)'
  <2>1. missed'[a] = missed[a] /\ fetching'[a] = fetching[a]
    BY <1>1 DEF BoardInv, Shaped
  <2> QED
    BY <1>1, <2>1, GraphOf
<1> QED
  BY <1>2, <1>5, <1>6, <1>7 DEF BoardInv

\* The digests that are deleted are none of the permanent ones.
LEMMA ExpireKept ==
  ASSUME BoardInv, NEW b \in Members, Expire(b)
  PROVE  BoardInv'
<1>1. /\ UNCHANGED <<mDigests, mPreviousDigests, mProcessedDigests, stored, permanent, written,
                     fetching, missed>>
      /\ \E old \in SUBSET (values[b] \ permanent[b]) : values' = [values EXCEPT ![b] = @ \ old]
  BY DEF Expire, memory, kept
<1>2. Shaped'
  BY <1>1 DEF BoardInv, Shaped
<1>3. /\ values'[b] \subseteq values[b]
      /\ permanent[b] \subseteq values[b] => permanent[b] \subseteq values'[b]
  BY <1>1 DEF BoardInv, Shaped
<1>4. Leads(b)'
  <2>1. Tried(b)' = Tried(b)
    BY <1>1 DEF Tried
  <2> QED
    BY <1>1, <2>1 DEF BoardInv, Leads, IsNamed
<1>5. Knows(b)'
  BY <1>1, <1>3 DEF BoardInv, Knows
<1>6. ASSUME NEW a \in Members \ {b}
      PROVE  Leads(a)' /\ Knows(a)'
  <2>1. values'[a] = values[a]
    BY <1>1 DEF BoardInv, Shaped
  <2> QED
    BY <1>1, <2>1, GraphOf
<1> QED
  BY <1>2, <1>4, <1>5, <1>6 DEF BoardInv

\* A restart passes all that is known to incoming again.
LEMMA RestartKept ==
  ASSUME BoardInv, NEW b \in Members, Restart(b)
  PROVE  BoardInv'
<1>1. /\ mDigests' = [mDigests EXCEPT ![b] = {}]
      /\ mPreviousDigests' = [mPreviousDigests EXCEPT ![b] = {}]
      /\ mProcessedDigests' = [mProcessedDigests EXCEPT ![b] = {}]
      /\ fetching' = [fetching EXCEPT ![b] = values[b]]
      /\ missed' = [missed EXCEPT ![b] = {}]
      /\ UNCHANGED <<stored, values, permanent, written>>
  BY DEF Restart, kept
<1>2. Shaped'
  BY <1>1 DEF BoardInv, Shaped
<1>3. /\ mDigests'[b] = {} /\ mPreviousDigests'[b] = {} /\ mProcessedDigests'[b] = {}
      /\ fetching'[b] = values[b] /\ missed'[b] = {}
  BY <1>1 DEF BoardInv, Shaped
<1>4. Leads(b)'
  BY <1>3 DEF Leads, Tried
<1>5. Knows(b)'
  BY <1>1, <1>3 DEF BoardInv, Knows
<1>6. ASSUME NEW a \in Members \ {b}
      PROVE  Leads(a)' /\ Knows(a)'
  <2>1. /\ fetching'[a] = fetching[a] /\ mDigests'[a] = mDigests[a]
        /\ mPreviousDigests'[a] = mPreviousDigests[a] /\ missed'[a] = missed[a]
        /\ mProcessedDigests'[a] = mProcessedDigests[a]
    BY <1>1 DEF BoardInv, Shaped
  <2> QED
    BY <1>1, <2>1, GraphOf
<1> QED
  BY <1>2, <1>4, <1>5, <1>6 DEF BoardInv

\* Every step is one of these, or leaves the graph alone.
LEMMA BoardKept == BoardInv /\ [BoardNext]_boardVars => BoardInv'
<1> SUFFICES ASSUME BoardInv, [BoardNext]_boardVars PROVE BoardInv'
  OBVIOUS
<1>1. ASSUME NEW b \in Members, NEW m \in Mails, Post(b, m)
      PROVE  BoardInv'
  BY <1>1, AddKept DEF Post, faultVars
<1>2. ASSUME NEW b \in Members, NEW t, Publish(b, t)
      PROVE  BoardInv'
  BY <1>2, GraphUnchanged DEF Publish, graphVars, memory, faultVars
<1>3. ASSUME NEW b \in Members, NEW t, Issue(b, t)
      PROVE  BoardInv'
  BY <1>3, AddKept DEF Issue, faultVars
<1>4. ASSUME NEW a \in Members, NEW b \in Members, Deliver(a, b)
      PROVE  BoardInv'
  <2>1. UNCHANGED missed
    BY <1>4 DEF Deliver, faultVars
  <2>2. ASSUME NEW targets, ReceiveTargets(b, targets)
        PROVE  BoardInv'
    BY <2>1, <2>2, TargetsKept
  <2>3. ASSUME NEW m, ReceiveMail(b, m)
        PROVE  BoardInv'
    <3>1. CASE m \in heard[b]
      BY <2>1, <2>3, <3>1, GraphUnchanged DEF ReceiveMail, graphVars, memory
    <3>2. CASE m \notin heard[b]
      BY <2>1, <2>3, <3>2, AddKept DEF ReceiveMail
    <3> QED
      BY <3>1, <3>2
  <2>4. ASSUME NEW message, ReceiveSubscribe(a, b, message)
        PROVE  BoardInv'
    BY <2>1, <2>4, GraphUnchanged DEF ReceiveSubscribe, graphVars, memory
  <2> QED
    BY <1>4, <2>2, <2>3, <2>4 DEF Deliver, ReceivePublish
<1>5. ASSUME NEW b \in Members, NEW r, Incoming(b, r)
      PROVE  BoardInv'
  BY <1>5, IncomingKept
<1>6. ASSUME NEW b \in Members, NEW m, AppendRead(b, m)
      PROVE  BoardInv'
  BY <1>6, GraphUnchanged DEF AppendRead, graphVars, faultVars
<1>7. ASSUME NEW b \in Members, NEW r, FetchFails(b, r)
      PROVE  BoardInv'
  BY <1>7, FetchFailsKept
<1>8. ASSUME NEW a \in Members, NEW b \in Members, Link(a, b) \/ Cut(a, b)
      PROVE  BoardInv'
  BY <1>8, GraphUnchanged DEF Link, Cut, graphVars, memory, faultVars
<1>9. ASSUME NEW b \in Members, Restart(b)
      PROVE  BoardInv'
  BY <1>9, RestartKept
<1>10. ASSUME NEW b \in Members, NEW r, ReadFails(b, r)
       PROVE  BoardInv'
  BY <1>10, ReadFailsKept
<1>11. ASSUME NEW b \in Members, Expire(b)
       PROVE  BoardInv'
  BY <1>11, ExpireKept
<1>12. ASSUME UNCHANGED boardVars
       PROVE  BoardInv'
  BY <1>12, GraphUnchanged DEF boardVars, graphVars, memory, faultVars
<1> QED
  BY <1>1, <1>2, <1>3, <1>4, <1>5, <1>6, <1>7, <1>8, <1>9, <1>10, <1>11, <1>12
  DEF BoardNext, ThreadStep, ReadStep

-----------------------------------------------------------------------------
(* What the boards show.                                                   *)

\* A finite set as a sequence has its elements, each once.
LEMMA SetAsSequence ==
  ASSUME NEW S, IsFiniteSet(S)
  PROVE  /\ SetToSeq(S) \in Seq(S)
         /\ \A i, j \in 1 .. Len(SetToSeq(S)) : SetToSeq(S)[i] = SetToSeq(S)[j] => i = j
         /\ \A x \in S : \E i \in 1 .. Len(SetToSeq(S)) : SetToSeq(S)[i] = x
<1>1. Cardinality(S) \in Nat /\ ExistsBijection(1 .. Cardinality(S), S)
  BY FS_CardinalityType
<1>2. \E f \in [1 .. Cardinality(S) -> S] : IsInjective(f)
  BY <1>1 DEF ExistsBijection, Bijection, Injection
<1>3. SetToSeq(S) \in [1 .. Cardinality(S) -> S] /\ IsInjective(SetToSeq(S))
  BY <1>2 DEF SetToSeq
<1>4. SetToSeq(S) \in Seq(S)
  BY <1>1, <1>3, SeqDef
<1>5. Len(SetToSeq(S)) = Cardinality(S)
  BY <1>1, <1>3, <1>4, LenProperties
<1>6. \A x \in S : \E i \in 1 .. Cardinality(S) : SetToSeq(S)[i] = x
  <2>1. IsFiniteSet(1 .. Cardinality(S)) /\ Cardinality(1 .. Cardinality(S)) = Cardinality(S)
    BY <1>1, FS_Interval
  <2>2. SetToSeq(S) \in Injection(1 .. Cardinality(S), S)
    BY <1>3 DEF Injection, IsInjective
  <2>3. SetToSeq(S) \in Surjection(1 .. Cardinality(S), S)
    BY <2>1, <2>2, FS_Injection
  <2> QED
    BY <2>3 DEF Surjection
<1> QED
  BY <1>3, <1>4, <1>5, <1>6 DEF IsInjective

\* Every mail once, and an answer after the mail it answers.
InOrder(shown) ==
  \A i \in 1 .. Len(shown) :
    /\ \A j \in 1 .. i - 1 : shown[j] # shown[i]
    /\ Parent[shown[i]] # NoMail => \E j \in 1 .. i - 1 : shown[j] = Parent[shown[i]]

\* What is shown is there and so is what it answers, and a mail that is there is
\* shown unless it is an orphan.
GoodBoard(board) ==
  /\ board \in [mails : SUBSET Mails, listing : Seq(Mails)] /\ IsFiniteSet(board.mails)
  /\ \A i \in 1 .. Len(board.listing) :
       /\ board.listing[i] \in board.mails
       /\ Parent[board.listing[i]] \in board.mails \cup {NoMail}
  /\ \A m \in board.mails :
       Parent[m] \in board.mails \cup {NoMail}
         => \E i \in 1 .. Len(board.listing) : board.listing[i] = m
  /\ InOrder(board.listing)

\* What is shown after the rest, when a mail comes.
LEMMA ShownAfter ==
  ASSUME NEW board, GoodBoard(board), NEW m \in Mails, m \notin board.mails, NEW s \in Seq(Mails),
         \A i \in 1 .. Len(s) :
           /\ s[i] \in board.mails \cup {m}
           /\ Parent[s[i]] \in board.mails \cup {m, NoMail}
           /\ \A j \in 1 .. Len(board.listing) : board.listing[j] # s[i]
           /\ \A j \in 1 .. i - 1 : s[j] # s[i]
           /\ Parent[s[i]] # NoMail =>
                \/ \E j \in 1 .. i - 1 : s[j] = Parent[s[i]]
                \/ \E j \in 1 .. Len(board.listing) : board.listing[j] = Parent[s[i]],
         \A n \in board.mails : Parent[n] = m => \E i \in 1 .. Len(s) : s[i] = n,
         Parent[m] \in board.mails \cup {m, NoMail} => \E i \in 1 .. Len(s) : s[i] = m
  PROVE  GoodBoard([mails |-> board.mails \cup {m}, listing |-> board.listing \o s])
<1> DEFINE l == board.listing
           all == l \o s
           mails == board.mails \cup {m}
<1>0. l \in Seq(Mails) /\ Len(l) \in Nat /\ Len(s) \in Nat
  BY LenProperties DEF GoodBoard
<1>1. /\ all \in Seq(Mails) /\ Len(all) = Len(l) + Len(s)
      /\ \A i \in 1 .. Len(l) : all[i] = l[i]
      /\ \A i \in 1 .. Len(s) : all[Len(l) + i] = s[i]
  BY <1>0, ConcatProperties
<1> HIDE DEF l, all
<1>2. \A k \in 1 .. Len(all) : k \in 1 .. Len(l) \/ \E i \in 1 .. Len(s) : k = Len(l) + i
  <2> TAKE k \in 1 .. Len(all)
  <2>1. CASE k > Len(l)
    <3>1. k - Len(l) \in 1 .. Len(s) /\ k = Len(l) + (k - Len(l))
      BY <1>0, <1>1, <2>1
    <3> QED
      BY <3>1
  <2> QED
    BY <1>0, <2>1
<1>3. \A k \in 1 .. Len(all) : all[k] \in mails /\ Parent[all[k]] \in mails \cup {NoMail}
  <2> TAKE k \in 1 .. Len(all)
  <2>1. CASE k \in 1 .. Len(l)
    BY <1>1, <2>1 DEF GoodBoard, l
  <2>2. ASSUME NEW i \in 1 .. Len(s), k = Len(l) + i
        PROVE  all[k] \in mails /\ Parent[all[k]] \in mails \cup {NoMail}
    <3>1. all[k] = s[i]
      BY <1>1, <2>2
    <3> QED
      BY <3>1
  <2> QED
    BY <1>2, <2>1, <2>2
<1>4. ASSUME NEW n \in mails, Parent[n] \in mails \cup {NoMail}
      PROVE  \E i \in 1 .. Len(all) : all[i] = n
  <2>1. CASE Parent[n] = m \/ n = m
    <3>0. n = m => Parent[m] \in board.mails \cup {m, NoMail}
      BY <1>4
    <3>1. PICK i \in 1 .. Len(s) : s[i] = n
      BY <1>4, <2>1, <3>0
    <3>2. Len(l) + i \in 1 .. Len(all) /\ all[Len(l) + i] = n
      BY <1>0, <1>1, <3>1
    <3> QED
      BY <3>2
  <2>2. CASE Parent[n] # m /\ n # m
    <3>1. PICK i \in 1 .. Len(l) : l[i] = n
      BY <1>4, <2>2 DEF GoodBoard, l
    <3>2. i \in 1 .. Len(all) /\ all[i] = n
      BY <1>0, <1>1, <3>1
    <3> QED
      BY <3>2
  <2> QED
    BY <2>1, <2>2
<1>5. InOrder(all)
  <2> SUFFICES ASSUME NEW k \in 1 .. Len(all)
               PROVE  /\ \A j \in 1 .. k - 1 : all[j] # all[k]
                      /\ Parent[all[k]] # NoMail => \E j \in 1 .. k - 1 : all[j] = Parent[all[k]]
    BY DEF InOrder
  <2>1. CASE k \in 1 .. Len(l)
    <3>1. InOrder(l) /\ all[k] = l[k]
      BY <1>1, <2>1 DEF GoodBoard, l
    <3>2. \A j \in 1 .. k - 1 : j \in 1 .. Len(l) /\ all[j] = l[j]
      BY <1>0, <1>1, <2>1
    <3>3. /\ \A j \in 1 .. k - 1 : l[j] # l[k]
          /\ Parent[l[k]] # NoMail => \E j \in 1 .. k - 1 : l[j] = Parent[l[k]]
      BY <2>1, <3>1 DEF InOrder
    <3> QED
      BY <3>1, <3>2, <3>3
  <2>2. ASSUME NEW i \in 1 .. Len(s), k = Len(l) + i
        PROVE  /\ \A j \in 1 .. k - 1 : all[j] # all[k]
               /\ Parent[all[k]] # NoMail => \E j \in 1 .. k - 1 : all[j] = Parent[all[k]]
    <3>1. all[k] = s[i]
      BY <1>1, <2>2
    <3>2. ASSUME NEW j \in 1 .. k - 1
          PROVE  all[j] # all[k]
      <4>1. CASE j \in 1 .. Len(l)
        BY <1>1, <3>1, <4>1 DEF l
      <4>2. CASE j > Len(l)
        <5>1. j - Len(l) \in 1 .. i - 1 /\ j = Len(l) + (j - Len(l)) /\ j - Len(l) \in 1 .. Len(s)
          BY <1>0, <2>2, <4>2
        <5>2. all[j] = s[j - Len(l)]
          BY <1>1, <5>1
        <5> QED
          BY <3>1, <5>1, <5>2
      <4> QED
        BY <1>0, <4>1, <4>2
    <3>3. ASSUME Parent[all[k]] # NoMail
          PROVE  \E j \in 1 .. k - 1 : all[j] = Parent[all[k]]
      <4>1. CASE \E j \in 1 .. i - 1 : s[j] = Parent[s[i]]
        <5>1. PICK j \in 1 .. i - 1 : s[j] = Parent[s[i]]
          BY <4>1
        <5>2. Len(l) + j \in 1 .. k - 1 /\ all[Len(l) + j] = s[j]
          BY <1>0, <1>1, <2>2
        <5> QED
          BY <3>1, <5>1, <5>2
      <4>2. CASE \E j \in 1 .. Len(l) : l[j] = Parent[s[i]]
        <5>1. PICK j \in 1 .. Len(l) : l[j] = Parent[s[i]]
          BY <4>2
        <5>2. j \in 1 .. k - 1 /\ all[j] = l[j]
          BY <1>0, <1>1, <2>2
        <5> QED
          BY <3>1, <5>1, <5>2
      <4> QED
        BY <3>1, <3>3, <4>1, <4>2 DEF l
    <3> QED
      BY <3>2, <3>3
  <2> QED
    BY <1>2, <2>1, <2>2
<1>6. mails \in SUBSET Mails /\ IsFiniteSet(mails)
  BY FS_AddElement DEF GoodBoard
<1> QED
  BY <1>1, <1>3, <1>4, <1>5, <1>6 DEF GoodBoard, all, l

\* appendMail, on a board: the mail is shown with its orphans, alone, or not yet.
LEMMA AppendToKept ==
  ASSUME NEW board, GoodBoard(board), NEW m \in Mails, NEW new \in AppendTo(board, m)
  PROVE  GoodBoard(new)
<1> SUFFICES ASSUME m \notin board.mails, NEW shown \in Shown(board, m),
                    new = [mails |-> board.mails \cup {m}, listing |-> board.listing \o shown]
             PROVE  GoodBoard(new)
  BY DEF AppendTo
<1>0. m # NoMail /\ Parent[m] \in Mails \cup {NoMail}
  BY BoardAssumption
<1>1. Parent[m] # NoMail => \A n \in board.mails \cup {m} : Parent[n] # m
  BY BoardAssumption DEF GoodBoard
<1>2. CASE Parent[m] = NoMail
  <2> DEFINE t == SetToSeq(Orphans(board, m))
  <2>1. Orphans(board, m) \subseteq board.mails /\ IsFiniteSet(Orphans(board, m))
    <3>1. Orphans(board, m) \in SUBSET board.mails
      BY DEF Orphans
    <3> QED
      BY <3>1, FS_Subset DEF GoodBoard
  <2>2. /\ t \in Seq(Orphans(board, m))
        /\ \A i, j \in 1 .. Len(t) : t[i] = t[j] => i = j
    BY <2>1, SetAsSequence
  <2>3. \A n \in Orphans(board, m) : \E i \in 1 .. Len(t) : t[i] = n
    BY <2>1, SetAsSequence
  <2>4. shown = <<m>> \o t
    BY <1>2 DEF Shown
  <2> HIDE DEF t
  <2>5. Orphans(board, m) \subseteq Mails
    BY <2>1 DEF GoodBoard
  <2>6. t \in Seq(Mails) /\ Len(t) \in Nat
    BY <2>2, <2>5, SeqMonotonic, LenProperties
  <2>7. \A i \in 1 .. Len(t) : t[i] \in board.mails /\ Parent[t[i]] = m
    BY <2>2, ElementOfSeq DEF Orphans
  <2>8. /\ shown \in Seq(Mails) /\ Len(shown) = 1 + Len(t)
        /\ shown[1] = m /\ \A i \in 1 .. Len(t) : shown[1 + i] = t[i]
    <3>1. <<m>> \in Seq(Mails) /\ Len(<<m>>) = 1 /\ <<m>>[1] = m
      OBVIOUS
    <3> QED
      BY <2>4, <2>6, <3>1, ConcatProperties
  <2>9. ASSUME NEW i \in 1 .. Len(shown)
        PROVE  /\ shown[i] \in board.mails \cup {m}
               /\ Parent[shown[i]] \in board.mails \cup {m, NoMail}
               /\ \A j \in 1 .. Len(board.listing) : board.listing[j] # shown[i]
               /\ \A j \in 1 .. i - 1 : shown[j] # shown[i]
               /\ Parent[shown[i]] # NoMail => \E j \in 1 .. i - 1 : shown[j] = Parent[shown[i]]
    <3>1. CASE i = 1
      <4>1. shown[i] = m /\ \A j \in 1 .. i - 1 : FALSE
        BY <2>8, <3>1
      <4>2. \A j \in 1 .. Len(board.listing) : board.listing[j] \in board.mails
        BY DEF GoodBoard
      <4> QED
        BY <1>2, <4>1, <4>2
    <3>2. CASE i > 1
      <4>1. i - 1 \in 1 .. Len(t) /\ i = 1 + (i - 1)
        BY <2>6, <2>8, <3>2
      <4>2. shown[i] = t[i - 1]
        BY <2>8, <4>1
      <4>3. shown[i] \in board.mails /\ Parent[shown[i]] = m
        BY <2>7, <4>1, <4>2
      <4>4. \A j \in 1 .. Len(board.listing) : board.listing[j] # shown[i]
        BY <1>0, <4>3 DEF GoodBoard
      <4>5. ASSUME NEW j \in 1 .. i - 1
            PROVE  shown[j] # shown[i]
        <5>1. CASE j = 1
          BY <2>8, <4>3, <5>1
        <5>2. CASE j > 1
          <6>1. j - 1 \in 1 .. Len(t) /\ j = 1 + (j - 1) /\ j - 1 # i - 1
            BY <4>1, <5>2
          <6> QED
            BY <2>2, <2>8, <4>1, <4>2, <6>1, ZenonT(40)
        <5> QED
          BY <5>1, <5>2
      <4>6. 1 \in 1 .. i - 1 /\ shown[1] = Parent[shown[i]]
        BY <2>8, <3>2, <4>3
      <4> QED
        BY <4>3, <4>4, <4>5, <4>6
    <3>3. i = 1 \/ i > 1
      BY <2>6, <2>8
    <3> QED
      BY <3>1, <3>2, <3>3
  <2>10. 1 \in 1 .. Len(shown) /\ shown[1] = m
    BY <2>6, <2>8
  <2>11. ASSUME NEW n \in board.mails, Parent[n] = m
         PROVE  \E i \in 1 .. Len(shown) : shown[i] = n
    <3>1. PICK i \in 1 .. Len(t) : t[i] = n
      BY <2>11, <2>3 DEF Orphans
    <3>2. 1 + i \in 1 .. Len(shown) /\ shown[1 + i] = n
      BY <2>6, <2>8, <3>1
    <3> QED
      BY <3>2
  <2> QED
    BY <2>8, <2>9, <2>10, <2>11, ShownAfter
<1>3. CASE Parent[m] # NoMail /\ Parent[m] \in board.mails
  <2>1. shown = <<m>>
    BY <1>3 DEF Shown
  <2>2. Parent[Parent[m]] = NoMail
    BY <1>3, BoardAssumption
  <2>3. \E j \in 1 .. Len(board.listing) : board.listing[j] = Parent[m]
    BY <1>3, <2>2 DEF GoodBoard
  <2>4. shown \in Seq(Mails) /\ Len(shown) = 1 /\ shown[1] = m
    BY <2>1
  <2>5. \A j \in 1 .. Len(board.listing) : board.listing[j] # m
    BY DEF GoodBoard
  <2>6. ASSUME NEW i \in 1 .. Len(shown)
        PROVE  /\ shown[i] = m
               /\ \A j \in 1 .. i - 1 : shown[j] # shown[i]
    BY <2>4, <2>6
  <2>7. \A i \in 1 .. Len(shown) :
          /\ shown[i] \in board.mails \cup {m}
          /\ Parent[shown[i]] \in board.mails \cup {m, NoMail}
          /\ \A j \in 1 .. Len(board.listing) : board.listing[j] # shown[i]
          /\ \A j \in 1 .. i - 1 : shown[j] # shown[i]
          /\ \E j \in 1 .. Len(board.listing) : board.listing[j] = Parent[shown[i]]
    BY <1>3, <2>3, <2>5, <2>6
  <2>8. \E i \in 1 .. Len(shown) : shown[i] = m
    BY <2>4
  <2> QED
    BY <1>3, <1>1, <2>4, <2>7, <2>8, ShownAfter
<1>4. CASE Parent[m] # NoMail /\ Parent[m] \notin board.mails
  <2>1. shown = << >>
    BY <1>4 DEF Shown
  <2>2. shown \in Seq(Mails) /\ Len(shown) = 0
    BY <2>1
  <2>3. 1 .. Len(shown) = {}
    BY <2>2
  <2> QED
    BY <1>4, <1>1, <2>2, <2>3, ShownAfter
<1> QED
  BY <1>2, <1>3, <1>4

-----------------------------------------------------------------------------
(* What the boards, the channels and the threads hold.                     *)

Publishers == [step : {"publish", "issue"}, issues : BOOLEAN, mail : Mails]
Messages(R) == [type : {"publish", "subscribe"}, targets : SUBSET R, mails : SUBSET Mails]

\* The resources there are: those that one of them names are among them.
IsLibrary(R) == \A r \in R : IsResource(r) /\ r.previous \subseteq R

\* Resources are added one by one and name earlier ones: of any of them there is
\* one that none of the others names.
Topped(R) == \A T \in SUBSET R : T # {} => \E t \in T : \A s \in T : t \notin s.previous

\* All that is known, stored, fetched and sent is among them, and each is stored
\* by some node.  The heads are finitely many, as the next resource names them.
FilledFrom(R) ==
  /\ IsLibrary(R) /\ Topped(R) /\ \A r \in R : \E b \in Members : r \in stored[b]
  /\ mDigests \in [Members -> SUBSET R] /\ \A b \in Members : IsFiniteSet(mDigests[b])
  /\ mPreviousDigests \in [Members -> SUBSET R] /\ mProcessedDigests \in [Members -> SUBSET R]
  /\ stored \in [Members -> SUBSET R] /\ values \in [Members -> SUBSET R]
  /\ fetching \in [Members -> SUBSET R] /\ missed \in [Members -> SUBSET R]
  /\ heard \in [Members -> SUBSET Mails] /\ appending \in [Members -> SUBSET Mails]
  /\ written \in [Members -> SUBSET Mails]
  /\ threads \in [Members -> SUBSET Publishers]
  /\ channel \in [Pairs -> Seq(Messages(R))]

\* A mail that is added makes one resource more.
LEMMA AddFilled ==
  ASSUME NEW R, FilledFrom(R), NEW b \in Members, NEW m \in Mails,
         NEW after \in SUBSET Publishers, Add(b, m, after),
         heard' \in [Members -> SUBSET Mails], UNCHANGED <<fetching, appending, missed>>,
         channel' \in [Pairs -> Seq(Messages(R))]
  PROVE  \E Q : FilledFrom(Q)'
<1> DEFINE resource == [mail |-> m, previous |-> mDigests[b]]
           Q == R \cup {resource}
<1>1. IsResource(resource) /\ resource.previous \subseteq R
  BY DEF FilledFrom, IsResource
<1>2. /\ stored' = [stored EXCEPT ![b] = @ \cup {resource}]
      /\ values' = [values EXCEPT ![b] = @ \cup {resource}]
      /\ mPreviousDigests' = [mPreviousDigests EXCEPT ![b] = @ \cup mDigests[b]]
      /\ mDigests' = [mDigests EXCEPT ![b] = {resource}]
      /\ mProcessedDigests' = [mProcessedDigests EXCEPT ![b] = @ \cup {resource}]
      /\ threads' = [threads EXCEPT ![b] = after]
      /\ written' = [written EXCEPT ![b] = @ \cup {m}]
  BY DEF Add, AddResource
<1> HIDE DEF resource
<1>3. IsLibrary(Q) /\ Topped(Q)
  <2>1. IsLibrary(Q)
    BY <1>1 DEF FilledFrom, IsLibrary
  <2>2. ASSUME NEW T \in SUBSET Q, T # {}
        PROVE  \E t \in T : \A s \in T : t \notin s.previous
    <3>1. CASE T \subseteq R
      BY <2>2, <3>1 DEF FilledFrom, Topped
    <3>2. CASE resource \notin R /\ resource \in T
      BY <1>1, <3>2 DEF FilledFrom, IsLibrary
    <3> QED
      BY <3>1, <3>2
  <2> QED
    BY <2>1, <2>2 DEF Topped
<1>4. /\ stored' \in [Members -> SUBSET Q] /\ values' \in [Members -> SUBSET Q]
      /\ mPreviousDigests' \in [Members -> SUBSET Q] /\ mDigests' \in [Members -> SUBSET Q]
      /\ mProcessedDigests' \in [Members -> SUBSET Q] /\ fetching' \in [Members -> SUBSET Q]
      /\ missed' \in [Members -> SUBSET Q] /\ written' \in [Members -> SUBSET Mails]
      /\ threads' \in [Members -> SUBSET Publishers] /\ appending' \in [Members -> SUBSET Mails]
  BY <1>2 DEF FilledFrom
<1>5. \A a \in Members : IsFiniteSet(mDigests'[a])
  BY <1>2, FS_Singleton DEF FilledFrom
<1>6. \A r \in Q : \E a \in Members : r \in stored'[a]
  BY <1>2 DEF FilledFrom
<1>7. channel' \in [Pairs -> Seq(Messages(Q))]
  <2>1. Messages(R) \subseteq Messages(Q)
    BY DEF Messages
  <2>2. Seq(Messages(R)) \subseteq Seq(Messages(Q))
    BY <2>1, SeqMonotonic
  <2> QED
    BY <2>2
<1> QED
  BY <1>3, <1>4, <1>5, <1>6, <1>7 DEF FilledFrom

\* A message that is sent on some of the channels.
LEMMA SendFilled ==
  ASSUME NEW R, FilledFrom(R), NEW pairs, NEW message \in Messages(R), Send(pairs, message)
  PROVE  channel' \in [Pairs -> Seq(Messages(R))]
BY AppendProperties DEF FilledFrom, Send

\* Links that go lose their messages.
LEMMA DropFilled ==
  ASSUME NEW R, FilledFrom(R), NEW pairs, Drop(pairs)
  PROVE  channel' \in [Pairs -> Seq(Messages(R))]
BY EmptySeq DEF FilledFrom, Drop

\* A message that is taken.
LEMMA DeliverFilled ==
  ASSUME NEW R, FilledFrom(R), NEW a \in Members, NEW b \in Members, Deliver(a, b)
  PROVE  \E Q : FilledFrom(Q)'
<1> DEFINE message == Head(channel[<<a, b>>])
<1>1. <<a, b>> \in Pairs /\ <<b, a>> \in Pairs /\ channel[<<a, b>>] # << >>
  BY DEF Deliver, Pairs
<1>2. /\ message \in Messages(R) /\ Tail(channel[<<a, b>>]) \in Seq(Messages(R))
      /\ channel \in [Pairs -> Seq(Messages(R))]
  BY <1>1, HeadTailProperties DEF FilledFrom
<1>3. ReceivePublish(a, b, message) \/ ReceiveSubscribe(a, b, message)
  BY DEF Deliver
<1>4. UNCHANGED <<appending, missed>>
  BY DEF Deliver, faultVars
<1> HIDE DEF message
<1>5. ASSUME channel' = [channel EXCEPT ![<<a, b>>] = Tail(@)]
      PROVE  channel' \in [Pairs -> Seq(Messages(R))]
  BY <1>2, <1>5
<1>6. CASE channel' = [channel EXCEPT ![<<a, b>>] = Tail(@)] /\ ReceiveTargets(b, message.targets)
  <2>1. message.targets \subseteq R
    BY <1>2 DEF Messages
  <2>2. values' \in [Members -> SUBSET R] /\ fetching' \in [Members -> SUBSET R]
    BY <1>6, <2>1 DEF ReceiveTargets, FilledFrom
  <2>3. FilledFrom(R)'
    BY <1>4, <1>5, <1>6, <2>2 DEF ReceiveTargets, FilledFrom, memory, kept
  <2> QED
    BY <2>3
<1>7. ASSUME channel' = [channel EXCEPT ![<<a, b>>] = Tail(@)],
             NEW m \in message.mails, ReceiveMail(b, m)
      PROVE  \E Q : FilledFrom(Q)'
  <2>1. m \in Mails
    BY <1>2, <1>7 DEF Messages
  <2>2. heard' \in [Members -> SUBSET Mails]
    BY <1>7, <2>1 DEF ReceiveMail, FilledFrom
  <2>3. CASE m \in heard[b]
    <3>1. FilledFrom(R)'
      BY <1>4, <1>5, <1>7, <2>2, <2>3 DEF ReceiveMail, FilledFrom, memory, kept
    <3> QED
      BY <3>1
  <2>4. CASE m \notin heard[b]
    <3>1. Publisher(m, FALSE) \in Publishers
      BY <2>1 DEF Publisher, Publishers
    <3>2. threads[b] \cup {Publisher(m, FALSE)} \in SUBSET Publishers
      BY <3>1 DEF FilledFrom
    <3> QED
      BY <1>4, <1>5, <1>7, <2>1, <2>2, <2>4, <3>2, AddFilled DEF ReceiveMail
  <2> QED
    BY <2>3, <2>4
<1>8. CASE ReceiveSubscribe(a, b, message)
  <2>1. Targets(mDigests[b]) \in Messages(R)
    BY DEF FilledFrom, Messages, Targets
  <2>2. Append(channel[<<b, a>>], Targets(mDigests[b])) \in Seq(Messages(R))
    BY <1>1, <1>2, <2>1, AppendProperties
  <2>3. channel' \in [Pairs -> Seq(Messages(R))]
    BY <1>1, <1>2, <1>8, <2>2 DEF ReceiveSubscribe
  <2>4. FilledFrom(R)'
    BY <1>4, <1>8, <2>3 DEF ReceiveSubscribe, FilledFrom, memory, kept
  <2> QED
    BY <2>4
<1> QED
  BY <1>3, <1>6, <1>7, <1>8 DEF ReceivePublish

\* What a resource names is chained and fetched, all or some of it.
LEMMA ChainFilled ==
  ASSUME NEW R, FilledFrom(R), NEW b \in Members, NEW r \in R, NEW named \in SUBSET r.previous,
         NEW more \in SUBSET r.previous, Chain(b, r, named), Fetch(b, r, more)
  PROVE  /\ mDigests' \in [Members -> SUBSET R] /\ mPreviousDigests' \in [Members -> SUBSET R]
         /\ fetching' \in [Members -> SUBSET R]
         /\ \A a \in Members : IsFiniteSet(mDigests'[a])
<1>1. r.previous \subseteq R
  BY DEF FilledFrom, IsLibrary
<1>2. /\ mDigests' \in [Members -> SUBSET R] /\ mPreviousDigests' \in [Members -> SUBSET R]
      /\ fetching' \in [Members -> SUBSET R]
  BY <1>1 DEF FilledFrom, Chain, Fetch
<1>3. \A a \in Members : mDigests'[a] \in SUBSET (mDigests[a] \cup {r})
  BY DEF FilledFrom, Chain
<1>4. \A a \in Members : IsFiniteSet(mDigests'[a])
  <2> TAKE a \in Members
  <2>1. IsFiniteSet(mDigests[a] \cup {r})
    BY FS_AddElement DEF FilledFrom
  <2> QED
    BY <1>3, <2>1, FS_Subset
<1> QED
  BY <1>2, <1>4

\* A resource that is fetched.
LEMMA IncomingFilled ==
  ASSUME NEW R, FilledFrom(R), NEW b \in Members, NEW r, Incoming(b, r)
  PROVE  FilledFrom(R)'
<1>1. r \in R /\ r.mail \in Mails
  BY DEF Incoming, FilledFrom, IsLibrary, IsResource
<1>2. /\ stored' \in [Members -> SUBSET R]
      /\ \A s \in R : \E c \in Members : s \in stored'[c]
  BY <1>1 DEF Incoming, FilledFrom
<1>3. UNCHANGED <<values, heard, threads, channel, missed, written>>
  BY DEF Incoming, kept, faultVars
<1>4. CASE r \in mProcessedDigests[b]
  <2>1. fetching' \in [Members -> SUBSET R]
    BY <1>4 DEF Incoming, Fetch, FilledFrom
  <2> QED
    BY <1>2, <1>3, <1>4, <2>1 DEF Incoming, FilledFrom
<1>5. CASE r \notin mProcessedDigests[b]
  <2>1. /\ mDigests' \in [Members -> SUBSET R] /\ mPreviousDigests' \in [Members -> SUBSET R]
        /\ fetching' \in [Members -> SUBSET R]
        /\ \A a \in Members : IsFiniteSet(mDigests'[a])
    BY <1>1, <1>5, ChainFilled DEF Incoming
  <2>2. /\ mProcessedDigests' \in [Members -> SUBSET R]
        /\ appending' \in [Members -> SUBSET Mails]
    <3>1. /\ mProcessedDigests' = [mProcessedDigests EXCEPT ![b] = @ \cup {r}]
          /\ appending' = [appending EXCEPT ![b] = @ \cup {r.mail}]
      BY <1>5 DEF Incoming
    <3> QED
      BY <1>1, <3>1 DEF FilledFrom
  <2> QED
    BY <1>2, <1>3, <2>1, <2>2 DEF FilledFrom
<1> QED
  BY <1>4, <1>5

\* A resource that makes incoming throw.
LEMMA ReadFailsFilled ==
  ASSUME NEW R, FilledFrom(R), NEW b \in Members, NEW r, ReadFails(b, r)
  PROVE  FilledFrom(R)'
<1>1. r \in R
  BY DEF ReadFails, FilledFrom
<1>2. /\ stored' \in [Members -> SUBSET R] /\ missed' \in [Members -> SUBSET R]
      /\ \A s \in R : \E c \in Members : s \in stored'[c]
  BY <1>1 DEF ReadFails, FilledFrom
<1>3. UNCHANGED <<mProcessedDigests, values, heard, threads, channel, appending, written>>
  BY DEF ReadFails, kept
<1>4. \E named, more \in SUBSET r.previous : Chain(b, r, named) /\ Fetch(b, r, more)
  BY DEF ReadFails
<1>5. /\ mDigests' \in [Members -> SUBSET R] /\ mPreviousDigests' \in [Members -> SUBSET R]
      /\ fetching' \in [Members -> SUBSET R]
      /\ \A a \in Members : IsFiniteSet(mDigests'[a])
  BY <1>1, <1>4, ChainFilled
<1> QED
  BY <1>2, <1>3, <1>5 DEF FilledFrom

\* Every step leaves all there is among some resources.
LEMMA FilledKept ==
  ASSUME NEW R, FilledFrom(R), [BoardNext]_boardVars
  PROVE  \E Q : FilledFrom(Q)'
<1>1. ASSUME UNCHANGED <<memory, stored, values, kept, fetching, heard, appending, missed>>,
             threads' \in [Members -> SUBSET Publishers],
             channel' \in [Pairs -> Seq(Messages(R))]
      PROVE  \E Q : FilledFrom(Q)'
  <2>1. FilledFrom(R)'
    BY <1>1 DEF FilledFrom, memory, kept
  <2> QED
    BY <2>1
<1>2. ASSUME NEW b \in Members, NEW m \in Mails, Post(b, m)
      PROVE  \E Q : FilledFrom(Q)'
  <2>0. Publisher(m, TRUE) \in Publishers
    BY DEF Publisher, Publishers
  <2>1. threads[b] \cup {Publisher(m, TRUE)} \in SUBSET Publishers
    BY <2>0 DEF FilledFrom
  <2>2. /\ heard' \in [Members -> SUBSET Mails] /\ channel' \in [Pairs -> Seq(Messages(R))]
        /\ UNCHANGED missed
    BY <1>2 DEF Post, FilledFrom, faultVars
  <2> QED
    BY <1>2, <2>1, <2>2, AddFilled DEF Post
<1>3. ASSUME NEW b \in Members, NEW t \in threads[b], Publish(b, t) \/ Issue(b, t)
      PROVE  \E Q : FilledFrom(Q)'
  <2>1. t \in Publishers /\ t.mail \in Mails
    BY <1>3 DEF FilledFrom, Publishers
  <2>2. CASE Publish(b, t)
    <3>1. Targets(mDigests[b]) \in Messages(R)
      BY DEF FilledFrom, Messages, Targets
    <3>2. channel' \in [Pairs -> Seq(Messages(R))]
      BY <2>2, <3>1, SendFilled DEF Publish
    <3>3. [t EXCEPT !.step = "issue"] \in Publishers
      BY <2>1 DEF Publishers
    <3>4. threads' \in [Members -> SUBSET Publishers]
      BY <2>2, <3>3 DEF Publish, FilledFrom
    <3> QED
      BY <1>1, <2>2, <3>2, <3>4 DEF Publish, faultVars
  <2>3. CASE Issue(b, t)
    <3>1. Message(t.mail) \in Messages(R)
      BY <2>1 DEF Messages, Message
    <3>2. channel' \in [Pairs -> Seq(Messages(R))]
      BY <2>3, <3>1, SendFilled DEF Issue
    <3>3. Publisher(t.mail, FALSE) \in Publishers
      BY <2>1 DEF Publisher, Publishers
    <3>4. (threads[b] \ {t}) \cup {Publisher(t.mail, FALSE)} \in SUBSET Publishers
      BY <3>3 DEF FilledFrom
    <3>5. heard' \in [Members -> SUBSET Mails] /\ UNCHANGED missed
      BY <2>3 DEF Issue, FilledFrom, faultVars
    <3> QED
      BY <2>1, <2>3, <3>2, <3>4, <3>5, AddFilled DEF Issue
  <2> QED
    BY <1>3, <2>2, <2>3
<1>4. ASSUME NEW a \in Members, NEW b \in Members, Deliver(a, b)
      PROVE  \E Q : FilledFrom(Q)'
  BY <1>4, DeliverFilled
<1>5. ASSUME NEW b \in Members, NEW r, Incoming(b, r)
      PROVE  \E Q : FilledFrom(Q)'
  BY <1>5, IncomingFilled
<1>6. ASSUME NEW b \in Members, NEW m, AppendRead(b, m)
      PROVE  \E Q : FilledFrom(Q)'
  <2>1. FilledFrom(R)'
    BY <1>6 DEF AppendRead, FilledFrom, kept, faultVars
  <2> QED
    BY <2>1
<1>7. ASSUME NEW b \in Members, NEW r, FetchFails(b, r)
      PROVE  \E Q : FilledFrom(Q)'
  <2>1. FilledFrom(R)'
    BY <1>7 DEF FetchFails, FilledFrom, memory, kept
  <2> QED
    BY <2>1
<1>8. ASSUME NEW a \in Members, NEW b \in Members, Link(a, b) \/ Cut(a, b)
      PROVE  \E Q : FilledFrom(Q)'
  <2>1. Subscription \in Messages(R)
    BY DEF Messages, Subscription
  <2>2. channel' \in [Pairs -> Seq(Messages(R))]
    BY <1>8, <2>1, SendFilled, DropFilled DEF Link, Cut
  <2>3. threads' \in [Members -> SUBSET Publishers]
    BY <1>8 DEF Link, Cut, FilledFrom
  <2> QED
    BY <1>1, <1>8, <2>2, <2>3 DEF Link, Cut, faultVars
<1>9. ASSUME NEW b \in Members, Restart(b)
      PROVE  \E Q : FilledFrom(Q)'
  <2>1. channel' \in [Pairs -> Seq(Messages(R))]
    BY <1>9, DropFilled DEF Restart
  <2>2. /\ mDigests' \in [Members -> SUBSET R] /\ mPreviousDigests' \in [Members -> SUBSET R]
        /\ mProcessedDigests' \in [Members -> SUBSET R] /\ fetching' \in [Members -> SUBSET R]
        /\ appending' \in [Members -> SUBSET Mails] /\ threads' \in [Members -> SUBSET Publishers]
        /\ missed' \in [Members -> SUBSET R]
    BY <1>9 DEF Restart, FilledFrom
  <2>3. \A a \in Members : IsFiniteSet(mDigests'[a])
    BY <1>9, FS_EmptySet DEF Restart, FilledFrom
  <2>4. FilledFrom(R)'
    BY <1>9, <2>1, <2>2, <2>3 DEF Restart, FilledFrom, kept
  <2> QED
    BY <2>4
<1>10. ASSUME NEW b \in Members, NEW r, ReadFails(b, r)
       PROVE  \E Q : FilledFrom(Q)'
  BY <1>10, ReadFailsFilled
<1>11. ASSUME NEW b \in Members, Expire(b)
       PROVE  \E Q : FilledFrom(Q)'
  <2>1. values' \in [Members -> SUBSET R] /\ heard' \in [Members -> SUBSET Mails]
    BY <1>11 DEF Expire, FilledFrom
  <2>2. FilledFrom(R)'
    BY <1>11, <2>1 DEF Expire, FilledFrom, memory, kept
  <2> QED
    BY <2>2
<1>12. ASSUME UNCHANGED boardVars
       PROVE  \E Q : FilledFrom(Q)'
  BY <1>1, <1>12 DEF boardVars, FilledFrom, faultVars
<1> QED
  BY <1>2, <1>3, <1>4, <1>5, <1>6, <1>7, <1>8, <1>9, <1>10, <1>11, <1>12
  DEF BoardNext, ThreadStep, ReadStep

\* Each board is good, that of a node and the one merged from it.
OwnBoard(b) == [mails |-> mMails[b], listing |-> mListing[b]]

Showing ==
  /\ mMails \in [Members -> SUBSET Mails] /\ mListing \in [Members -> Seq(Mails)]
  /\ merged = [b \in Members |-> merged[b]]
  /\ \A b \in Members : GoodBoard(OwnBoard(b)) /\ GoodBoard(merged[b])

\* A mail that is appended, here and, if it is shown, there.
LEMMA AppendMailKept ==
  ASSUME Showing, NEW b \in Members, NEW m \in Mails, AppendMail(b, m)
  PROVE  Showing'
<1>1. PICK board \in AppendTo(OwnBoard(b), m) :
        /\ mMails' = [mMails EXCEPT ![b] = board.mails]
        /\ mListing' = [mListing EXCEPT ![b] = board.listing]
  BY DEF AppendMail, OwnBoard
<1>2. GoodBoard(board)
  BY AppendToKept DEF Showing
<1>3. board \in [mails : SUBSET Mails, listing : Seq(Mails)]
  BY <1>2 DEF GoodBoard
<1>4. board = [mails |-> board.mails, listing |-> board.listing]
  BY <1>3
<1>5. mMails' \in [Members -> SUBSET Mails] /\ mListing' \in [Members -> Seq(Mails)]
  BY <1>1, <1>3 DEF Showing
<1>6. \A a \in Members : GoodBoard(OwnBoard(a))'
  <2> TAKE a \in Members
  <2>1. CASE a = b
    <3>1. OwnBoard(b)' = board
      BY <1>1, <1>4 DEF OwnBoard, Showing
    <3> QED
      BY <1>2, <2>1, <3>1 DEF GoodBoard, OwnBoard
  <2>2. CASE a # b
    <3>1. OwnBoard(a)' = OwnBoard(a)
      BY <1>1, <2>2 DEF OwnBoard, Showing
    <3> QED
      BY <3>1 DEF Showing, GoodBoard
  <2> QED
    BY <2>1, <2>2
<1>7. merged' = [a \in Members |-> merged'[a]] /\ \A a \in Members : GoodBoard(merged[a])'
  <2>1. CASE UNCHANGED merged
    BY <2>1 DEF Showing, GoodBoard
  <2>2. ASSUME NEW other \in AppendTo(merged[b], m), merged' = [merged EXCEPT ![b] = other]
        PROVE  merged' = [a \in Members |-> merged'[a]] /\ \A a \in Members : GoodBoard(merged[a])'
    <3>1. GoodBoard(other)
      BY <2>2, AppendToKept DEF Showing
    <3>2. merged' = [a \in Members |-> IF a = b THEN other ELSE merged[a]]
      BY <2>2 DEF Showing
    <3>3. \A a \in Members : GoodBoard(merged'[a])
      BY <3>1, <3>2 DEF Showing
    <3> QED
      BY <3>2, <3>3 DEF GoodBoard
  <2> QED
    BY <2>1, <2>2 DEF AppendMail
<1> QED
  BY <1>5, <1>6, <1>7 DEF Showing

\* Every step appends a mail, empties the board of a node, or shows the same.
LEMMA ShowingKept ==
  ASSUME Showing, NEW R, FilledFrom(R), [BoardNext]_boardVars
  PROVE  Showing'
<1>1. ASSUME UNCHANGED <<mMails, mListing, merged>>
      PROVE  Showing'
  BY <1>1 DEF Showing, OwnBoard, GoodBoard
<1>2. ASSUME NEW b \in Members, NEW m \in Mails, NEW after, Add(b, m, after)
      PROVE  Showing'
  BY <1>2, AppendMailKept DEF Add, AddResource
<1>3. ASSUME NEW b \in Members, NEW m \in Mails, Post(b, m)
      PROVE  Showing'
  BY <1>2, <1>3 DEF Post
<1>4. ASSUME NEW b \in Members, NEW t \in threads[b], Publish(b, t) \/ Issue(b, t)
      PROVE  Showing'
  <2>1. t.mail \in Mails
    BY <1>4 DEF FilledFrom, Publishers
  <2> QED
    BY <1>1, <1>2, <1>4, <2>1 DEF Publish, Issue, memory
<1>5. ASSUME NEW a \in Members, NEW b \in Members, Deliver(a, b)
      PROVE  Showing'
  <2>1. <<a, b>> \in Pairs /\ channel[<<a, b>>] \in Seq(Messages(R)) /\ channel[<<a, b>>] # << >>
    BY <1>5 DEF Deliver, FilledFrom
  <2>2. Head(channel[<<a, b>>]).mails \subseteq Mails
    <3>1. Head(channel[<<a, b>>]) \in Messages(R)
      BY <2>1, HeadTailProperties
    <3> QED
      BY <3>1 DEF Messages
  <2>3. ASSUME NEW m \in Mails, ReceiveMail(b, m)
        PROVE  Showing'
    BY <1>1, <1>2, <2>3 DEF ReceiveMail, memory
  <2>4. ASSUME NEW targets, ReceiveTargets(b, targets)
        PROVE  Showing'
    BY <1>1, <2>4 DEF ReceiveTargets, memory
  <2>5. ASSUME NEW message, ReceiveSubscribe(a, b, message)
        PROVE  Showing'
    BY <1>1, <2>5 DEF ReceiveSubscribe, memory
  <2> QED
    BY <1>5, <2>2, <2>3, <2>4, <2>5 DEF Deliver, ReceivePublish
<1>6. ASSUME NEW b \in Members, NEW r, Incoming(b, r)
      PROVE  Showing'
  BY <1>1, <1>6 DEF Incoming
<1>7. ASSUME NEW b \in Members, NEW m, AppendRead(b, m)
      PROVE  Showing'
  <2>1. m \in Mails
    BY <1>7 DEF AppendRead, FilledFrom
  <2> QED
    BY <1>7, <2>1, AppendMailKept DEF AppendRead
<1>8. ASSUME NEW b \in Members, NEW r, FetchFails(b, r) \/ ReadFails(b, r) \/ Expire(b)
      PROVE  Showing'
  BY <1>1, <1>8 DEF FetchFails, ReadFails, Expire, memory
<1>9. ASSUME NEW a \in Members, NEW b \in Members, Link(a, b) \/ Cut(a, b)
      PROVE  Showing'
  BY <1>1, <1>9 DEF Link, Cut, memory
<1>10. ASSUME NEW b \in Members, Restart(b)
       PROVE  Showing'
  <2>1. NoBoard \in [mails : SUBSET Mails, listing : Seq(Mails)]
    BY EmptySeq DEF NoBoard
  <2>2. GoodBoard(NoBoard)
    BY <2>1, EmptySeq, FS_EmptySet DEF NoBoard, GoodBoard, InOrder
  <2>3. /\ mMails' = [mMails EXCEPT ![b] = {}] /\ mListing' = [mListing EXCEPT ![b] = << >>]
        /\ merged' = [merged EXCEPT ![b] = NoBoard]
    BY <1>10 DEF Restart
  <2>4. mMails' \in [Members -> SUBSET Mails] /\ mListing' \in [Members -> Seq(Mails)]
    BY <2>3, EmptySeq DEF Showing
  <2>5. \A a \in Members :
          OwnBoard(a)' = (IF a = b THEN NoBoard ELSE OwnBoard(a))
    BY <2>3 DEF Showing, OwnBoard, NoBoard
  <2>6. merged' = [a \in Members |-> IF a = b THEN NoBoard ELSE merged[a]]
    BY <2>3 DEF Showing
  <2>7. \A a \in Members : GoodBoard(OwnBoard(a)') /\ GoodBoard(merged'[a])
    BY <2>2, <2>5, <2>6 DEF Showing
  <2> QED
    BY <2>4, <2>6, <2>7 DEF Showing, GoodBoard, OwnBoard
<1>11. ASSUME UNCHANGED boardVars
       PROVE  Showing'
  BY <1>1, <1>11 DEF boardVars, memory
<1> QED
  BY <1>3, <1>4, <1>5, <1>6, <1>7, <1>8, <1>9, <1>10, <1>11 DEF BoardNext, ThreadStep, ReadStep

\* What a board has read is on it, or about to be.
ReadIsOnBoard ==
  \A b \in Members : \A r \in mProcessedDigests[b] : r.mail \in mMails[b] \cup appending[b]

\* What appendMail adds to the mails of a board.
LEMMA AppendMailAdds ==
  ASSUME Showing, NEW b \in Members, NEW m, AppendMail(b, m)
  PROVE  /\ mMails'[b] = mMails[b] \cup {m}
         /\ \A c \in Members \ {b} : mMails'[c] = mMails[c]
<1>1. PICK board \in AppendTo(OwnBoard(b), m) : mMails' = [mMails EXCEPT ![b] = board.mails]
  BY DEF AppendMail, OwnBoard
<1>2. board.mails = mMails[b] \cup {m}
  BY <1>1 DEF AppendTo, OwnBoard
<1> QED
  BY <1>1, <1>2 DEF Showing

LEMMA ReadIsOnBoardKept ==
  ASSUME ReadIsOnBoard, Showing, NEW R, FilledFrom(R), [BoardNext]_boardVars
  PROVE  ReadIsOnBoard'
<1>1. ASSUME UNCHANGED <<mMails, mProcessedDigests, appending>>
      PROVE  ReadIsOnBoard'
  BY <1>1 DEF ReadIsOnBoard
<1>2. ASSUME NEW b \in Members, NEW m, NEW after, Add(b, m, after), UNCHANGED appending
      PROVE  ReadIsOnBoard'
  <2>1. PICK resource : /\ resource = [mail |-> m, previous |-> mDigests[b]]
                        /\ AddResource(b, resource, {resource}, after)
    BY <1>2 DEF Add
  <2>2. resource.mail = m
    BY <2>1
  <2>3. /\ mProcessedDigests' = [mProcessedDigests EXCEPT ![b] = @ \cup {resource}]
        /\ mMails'[b] = mMails[b] \cup {m}
        /\ \A c \in Members \ {b} : mMails'[c] = mMails[c]
    BY <2>1, <2>2, AppendMailAdds DEF AddResource
  <2> QED
    BY <1>2, <2>2, <2>3 DEF ReadIsOnBoard, FilledFrom
<1>3. ASSUME NEW b \in Members, NEW m, Post(b, m)
      PROVE  ReadIsOnBoard'
  BY <1>2, <1>3 DEF Post
<1>4. ASSUME NEW b \in Members, NEW t, Publish(b, t) \/ Issue(b, t)
      PROVE  ReadIsOnBoard'
  BY <1>1, <1>2, <1>4 DEF Publish, Issue, memory
<1>5. ASSUME NEW a \in Members, NEW b \in Members, Deliver(a, b)
      PROVE  ReadIsOnBoard'
  <2>1. UNCHANGED appending
    BY <1>5 DEF Deliver
  <2>2. ASSUME NEW m, ReceiveMail(b, m)
        PROVE  ReadIsOnBoard'
    BY <1>1, <1>2, <2>1, <2>2 DEF ReceiveMail, memory
  <2>3. ASSUME NEW targets, ReceiveTargets(b, targets)
        PROVE  ReadIsOnBoard'
    BY <1>1, <2>1, <2>3 DEF ReceiveTargets, memory
  <2>4. ASSUME NEW message, ReceiveSubscribe(a, b, message)
        PROVE  ReadIsOnBoard'
    BY <1>1, <2>1, <2>4 DEF ReceiveSubscribe, memory
  <2> QED
    BY <1>5, <2>2, <2>3, <2>4 DEF Deliver, ReceivePublish
<1>6. ASSUME NEW b \in Members, NEW r, Incoming(b, r)
      PROVE  ReadIsOnBoard'
  <2>1. CASE r \in mProcessedDigests[b]
    BY <1>1, <1>6, <2>1 DEF Incoming
  <2>2. CASE r \notin mProcessedDigests[b]
    BY <1>6, <2>2 DEF Incoming, ReadIsOnBoard, FilledFrom
  <2> QED
    BY <2>1, <2>2
<1>7. ASSUME NEW b \in Members, NEW m, AppendRead(b, m)
      PROVE  ReadIsOnBoard'
  <2>1. /\ mMails'[b] = mMails[b] \cup {m}
        /\ \A c \in Members \ {b} : mMails'[c] = mMails[c]
        /\ appending' = [appending EXCEPT ![b] = @ \ {m}] /\ UNCHANGED mProcessedDigests
    BY <1>7, AppendMailAdds DEF AppendRead
  <2> QED
    BY <2>1 DEF ReadIsOnBoard, FilledFrom
<1>8. ASSUME NEW b \in Members, NEW r, FetchFails(b, r) \/ ReadFails(b, r) \/ Expire(b)
      PROVE  ReadIsOnBoard'
  BY <1>1, <1>8 DEF FetchFails, ReadFails, Expire, memory
<1>9. ASSUME NEW a \in Members, NEW b \in Members, Link(a, b) \/ Cut(a, b)
      PROVE  ReadIsOnBoard'
  BY <1>1, <1>9 DEF Link, Cut, memory
<1>10. ASSUME NEW b \in Members, Restart(b)
       PROVE  ReadIsOnBoard'
  BY <1>10 DEF Restart, ReadIsOnBoard, FilledFrom, Showing
<1>11. ASSUME UNCHANGED boardVars
       PROVE  ReadIsOnBoard'
  BY <1>1, <1>11 DEF boardVars, memory
<1> QED
  BY <1>3, <1>4, <1>5, <1>6, <1>7, <1>8, <1>9, <1>10, <1>11 DEF BoardNext, ThreadStep, ReadStep

\* The links, and what else the model counts.
Linking ==
  /\ linked \subseteq Pairs /\ subscribed \subseteq Pairs
  /\ cuts \in 0 .. MaxCuts /\ restarts \in 0 .. MaxRestarts
  /\ expiries \in 0 .. MaxExpiries /\ failures \in 0 .. MaxFailures
  /\ drafts \subseteq Mails /\ restarted \subseteq Members

LEMMA LinkingKept ==
  ASSUME Linking, [BoardNext]_boardVars
  PROVE  Linking'
<1>1. ASSUME NEW b \in Members, NEW m,
             \/ Post(b, m) \/ AppendRead(b, m)
             \/ \E t : Publish(b, t) \/ Issue(b, t)
             \/ \E r : Incoming(b, r)
      PROVE  Linking'
  BY <1>1 DEF Linking, Post, AppendRead, Publish, Issue, Incoming, links, faultVars
<1>2. ASSUME NEW a \in Members, NEW b \in Members, Deliver(a, b)
      PROVE  Linking'
  <2>1. <<b, a>> \in Pairs
    BY <1>2 DEF Deliver, Pairs
  <2>2. subscribed' \subseteq subscribed \cup {<<b, a>>}
    BY <1>2 DEF Deliver, ReceivePublish, ReceiveSubscribe
  <2> QED
    BY <1>2, <2>1, <2>2 DEF Linking, Deliver, faultVars
<1>3. ASSUME NEW b \in Members, NEW r, FetchFails(b, r) \/ ReadFails(b, r) \/ Expire(b)
      PROVE  Linking'
  BY <1>3, BoardAssumption DEF Linking, FetchFails, ReadFails, Expire, links
<1>4. ASSUME NEW a \in Members, NEW b \in Members, Link(a, b)
      PROVE  Linking'
  BY <1>4 DEF Linking, Link, BothWays, Pairs, faultVars
<1>5. ASSUME NEW a \in Members, NEW b \in Members, Cut(a, b)
      PROVE  Linking'
  BY <1>5, BoardAssumption DEF Linking, Cut, Drop
<1>6. ASSUME NEW b \in Members, Restart(b)
      PROVE  Linking'
  BY <1>6, BoardAssumption DEF Linking, Restart, Drop
<1>7. ASSUME UNCHANGED boardVars
      PROVE  Linking'
  BY <1>7 DEF Linking, boardVars, links, faultVars
<1> QED
  BY <1>1, <1>2, <1>3, <1>4, <1>5, <1>6, <1>7 DEF BoardNext, ThreadStep, ReadStep

ReadingInv ==
  BoardInv /\ (\E R : FilledFrom(R)) /\ Showing /\ ReadIsOnBoard /\ Linking

\* Nothing was written yet, whoever is linked to whom.
Blank ==
  /\ mDigests = [b \in Members |-> {}] /\ mPreviousDigests = [b \in Members |-> {}]
  /\ mProcessedDigests = [b \in Members |-> {}]
  /\ mMails = [b \in Members |-> {}] /\ mListing = [b \in Members |-> << >>]
  /\ merged = [b \in Members |-> NoBoard]
  /\ stored = [b \in Members |-> {}] /\ values = [b \in Members |-> {}]
  /\ fetching = [b \in Members |-> {}] /\ appending = [b \in Members |-> {}]
  /\ heard = [b \in Members |-> {}] /\ threads = [b \in Members |-> {}]
  /\ permanent = [b \in Members |-> {}] /\ written = [b \in Members |-> {}]
  /\ missed = [b \in Members |-> {}]
  /\ channel = [p \in Pairs |-> << >>]
  /\ Linking

LEMMA BlankIsRead == Blank => ReadingInv
<1> SUFFICES ASSUME Blank PROVE ReadingInv
  OBVIOUS
<1>1. BoardInv
  BY DEF Blank, BoardInv, Shaped, Leads, Knows, IsNamed, Tried
<1>2. FilledFrom({})
  BY EmptySeq, FS_EmptySet DEF Blank, FilledFrom, IsLibrary, Topped
<1>3. NoBoard \in [mails : SUBSET Mails, listing : Seq(Mails)]
  BY EmptySeq DEF NoBoard
<1>4. GoodBoard(NoBoard)
  BY <1>3, EmptySeq, FS_EmptySet DEF NoBoard, GoodBoard, InOrder
<1>5. \A b \in Members : OwnBoard(b) = NoBoard /\ merged[b] = NoBoard
  BY DEF Blank, OwnBoard, NoBoard
<1>6. Showing
  BY <1>4, <1>5, EmptySeq DEF Blank, Showing
<1> QED
  BY <1>1, <1>2, <1>6 DEF Blank, ReadingInv, ReadIsOnBoard

LEMMA ReadingInvInit == BoardInit => ReadingInv
<1> SUFFICES ASSUME BoardInit PROVE Blank
  BY BlankIsRead
<1>1. Linking
  BY BoardAssumption DEF BoardInit, Linking
<1> QED
  BY <1>1 DEF BoardInit, Blank

LEMMA ReadingInvKept == ReadingInv /\ [BoardNext]_boardVars => ReadingInv'
BY BoardKept, FilledKept, ShowingKept, ReadIsOnBoardKept, LinkingKept DEF ReadingInv

LEMMA HeadsCover == ReadingInv => HeadsCoverAll
BY DEF ReadingInv, BoardInv, Leads, IsNamed, HeadsCoverAll

\* HeadsCoverAll: whatever order resources and messages come in, however often
\* nodes restart, and wherever incoming throws, the heads of a board lead to all
\* it has been through since its node started (board.cpp:168-180, :264-275, :296).
THEOREM HeadsAlwaysLead == BoardSpec => []HeadsCoverAll
BY HeadsCover, ReadingInvInit, ReadingInvKept, PTL DEF BoardSpec

LEMMA WrittenIsKept == ReadingInv => MailsAreKept
<1> SUFFICES ASSUME ReadingInv, NEW b \in Members, NEW m \in written[b]
             PROVE  \/ m \in mMails[b] \cup appending[b]
                    \/ \E r \in fetching[b] \cup missed[b] : r.mail = m
  BY DEF MailsAreKept
<1>1. PICK r \in permanent[b] : r.mail = m
  BY DEF ReadingInv, BoardInv, Knows
<1>2. r \in mProcessedDigests[b] \cup fetching[b] \cup missed[b]
  BY DEF ReadingInv, BoardInv, Knows
<1> QED
  BY <1>1, <1>2 DEF ReadingInv, ReadIsOnBoard

\* MailsAreKept: neither the deletion of old values nor a restart loses a mail
\* that the node has written, or was sent by itself: the digest of its resource
\* is permanent, and read again at the start (board.cpp:54-59, :174,
\* store.cpp:426).  Only a read that fails can keep it off the board.
THEOREM MailsAlwaysKept == BoardSpec => []MailsAreKept
BY WrittenIsKept, ReadingInvInit, ReadingInvKept, PTL DEF BoardSpec

LEMMA ShownInOrder == ReadingInv => AnswersFollow
<1> SUFFICES ASSUME ReadingInv, NEW b \in Members
             PROVE  InOrder(mListing[b]) /\ InOrder(merged[b].listing)
  BY DEF AnswersFollow, InOrder
<1>1. GoodBoard(OwnBoard(b)) /\ GoodBoard(merged[b])
  BY DEF ReadingInv, Showing
<1>2. OwnBoard(b).listing = mListing[b]
  BY DEF OwnBoard
<1> QED
  BY <1>1, <1>2 DEF GoodBoard

\* AnswersFollow: whichever of a mail and its answers comes first, from whichever
\* thread, by itself or with a resource, a board and the one merged from it show
\* every mail once and no answer before the mail it answers (board.cpp:191-232).
THEOREM AnswersAlwaysFollow == BoardSpec => []AnswersFollow
BY ShownInOrder, ReadingInvInit, ReadingInvKept, PTL DEF BoardSpec

LEMMA BoardIsTyped == ReadingInv => BoardTypeOK
<1> SUFFICES ASSUME ReadingInv PROVE BoardTypeOK
  OBVIOUS
<1>1. PICK R : FilledFrom(R)
  BY DEF ReadingInv
<1>2. \A b \in Members :
        \A r \in stored[b] \cup values[b] \cup fetching[b] \cup mPreviousDigests[b] \cup missed[b] :
          IsResource(r)
  BY <1>1 DEF FilledFrom, IsLibrary
<1>3. mDigests \in [Members -> SUBSET UNION {stored[b] : b \in Members}]
  <2>1. \A b \in Members : mDigests[b] \subseteq stored[b]
    BY DEF ReadingInv, BoardInv, Leads
  <2>2. \A b \in Members : mDigests[b] \subseteq UNION {stored[c] : c \in Members}
    BY <2>1
  <2>3. mDigests = [b \in Members |-> mDigests[b]]
    BY DEF ReadingInv, BoardInv, Shaped
  <2> QED
    BY <2>2, <2>3
<1>4. \A b \in Members : threads[b] \subseteq
        [step : {"publish", "issue"}, issues : BOOLEAN, mail : Mails]
  BY <1>1 DEF FilledFrom, Publishers
<1>5. /\ mMails \in [Members -> SUBSET Mails] /\ heard \in [Members -> SUBSET Mails]
      /\ appending \in [Members -> SUBSET Mails] /\ mListing \in [Members -> Seq(Mails)]
      /\ written \in [Members -> SUBSET Mails]
  BY <1>1 DEF ReadingInv, Showing, FilledFrom
<1>6. \A b \in Members : permanent[b] \subseteq values[b]
  BY DEF ReadingInv, BoardInv, Knows
<1> QED
  BY <1>2, <1>3, <1>4, <1>5, <1>6 DEF ReadingInv, Linking, BoardTypeOK

\* BoardTypeOK: whatever is known, stored, fetched or sent is a resource, whose
\* predecessors are finitely many, and the heads are stored somewhere.
THEOREM BoardTyped == BoardSpec => []BoardTypeOK
BY BoardIsTyped, ReadingInvInit, ReadingInvKept, PTL DEF BoardSpec

-----------------------------------------------------------------------------
(* Boards that have come to rest: the safety under Converges.              *)

\* Nobody started again, and all that was fetched was read.
Undisturbed == restarted = {} /\ \A b \in Members : missed[b] = {}

\* All nodes are linked, no message is on its way, and no thread, fetch or mail
\* to append is left.
AtRest ==
  /\ linked = Pairs /\ \A p \in Pairs : channel[p] = << >>
  /\ \A b \in Members : threads[b] = {} /\ fetching[b] = {} /\ appending[b] = {}

\* A message is for one thing, and a link that is not subscribed to will be.
Subscribing ==
  \A p \in Pairs :
    /\ p \in linked => <<p[2], p[1]>> \in subscribed \/ Subscription \in ToSet(channel[p])
    /\ \A message \in ToSet(channel[p]) :
         message.targets # {} => message.type = "publish" /\ message.mails = {}

Closed(S) == \A s \in S : s.previous \subseteq S

\* What y has read, fetches or is told by x.
Told(p) == UNION {message.targets : message \in ToSet(channel[p])}
Ahead(x, y) == mProcessedDigests[y] \cup fetching[y] \cup Told(<<x, y>>)

\* If nobody else helps, r is among what y reads in the end: that, and what it
\* names, and so on.
WillRead(x, y, r) == \A S : Closed(S) /\ Ahead(x, y) \subseteq S => r \in S

\* A node sees to it that its subscribers read r: it is about to publish, or
\* they will.
Publishes(x) == \E t \in threads[x] : t.step = "publish"
Announced(r) ==
  \E x \in Members :
    /\ r \in mProcessedDigests[x]
    /\ \A y \in Members : <<x, y>> \in subscribed => Publishes(x) \/ WillRead(x, y, r)

\* What is stored is read, and so is, or will be, what it names; and somebody
\* announces it.
Passed ==
  \A b \in Members :
    /\ stored[b] \subseteq mProcessedDigests[b]
    /\ \A r \in mProcessedDigests[b] :
         r.previous \subseteq mProcessedDigests[b] \cup fetching[b] /\ Announced(r)

\* The mails of a board come from the resources it has read, and the mail
\* that one of them answers is on some board.
Got(m) == \E b \in Members : m \in mMails[b] \cup appending[b]
MailsRead ==
  /\ \A b \in Members :
       /\ \A m \in mMails[b] \cup appending[b] : \E r \in mProcessedDigests[b] : r.mail = m
       /\ \A t \in threads[b] : t.mail \in mMails[b]
  /\ \A p \in Pairs : \A message \in ToSet(channel[p]) : message.mails \subseteq mMails[p[1]]
  /\ \A m : Got(m) /\ Parent[m] # NoMail => Got(Parent[m])

\* The messages of a channel as a set.
LEMMA ToSetProperties ==
  ASSUME NEW S, NEW s \in Seq(S)
  PROVE  /\ \A x \in S : ToSet(Append(s, x)) = ToSet(s) \cup {x}
         /\ s # << >> => Head(s) \in ToSet(s) /\ ToSet(s) = {Head(s)} \cup ToSet(Tail(s))
         /\ ToSet(<< >>) = {}
<1>1. ASSUME NEW x \in S
      PROVE  ToSet(Append(s, x)) = ToSet(s) \cup {x}
  <2>1. /\ Append(s, x) \in Seq(S) /\ Len(Append(s, x)) = Len(s) + 1 /\ Len(s) \in Nat
        /\ \A i \in 1 .. Len(s) : Append(s, x)[i] = s[i]
        /\ Append(s, x)[Len(s) + 1] = x
    BY AppendProperties, LenProperties
  <2>2. DOMAIN s = 1 .. Len(s) /\ DOMAIN Append(s, x) = 1 .. Len(s) + 1
    BY <2>1, LenProperties
  <2>3. 1 .. Len(s) + 1 = (1 .. Len(s)) \cup {Len(s) + 1}
    BY <2>1
  <2> QED
    BY <2>1, <2>2, <2>3 DEF ToSet
<1>2. ASSUME s # << >>
      PROVE  Head(s) \in ToSet(s) /\ ToSet(s) = {Head(s)} \cup ToSet(Tail(s))
  <2>1. /\ Tail(s) \in Seq(S) /\ Len(Tail(s)) = Len(s) - 1 /\ Head(s) = s[1]
        /\ \A i \in 1 .. Len(Tail(s)) : Tail(s)[i] = s[i + 1]
        /\ Len(s) \in Nat /\ Len(s) # 0
    BY <1>2, HeadTailProperties, LenProperties, EmptySeq
  <2>2. DOMAIN s = 1 .. Len(s) /\ DOMAIN Tail(s) = 1 .. Len(s) - 1
    BY <2>1, LenProperties
  <2>3. ASSUME NEW x \in ToSet(s), x # s[1]
        PROVE  x \in ToSet(Tail(s))
    <3>1. PICK i \in 1 .. Len(s) : s[i] = x
      BY <2>2, <2>3 DEF ToSet
    <3>2. i - 1 \in 1 .. Len(s) - 1 /\ (i - 1) + 1 = i
      BY <2>1, <2>3, <3>1
    <3>3. Tail(s)[i - 1] = x
      BY <2>1, <3>1, <3>2
    <3> QED
      BY <2>2, <3>2, <3>3 DEF ToSet
  <2>4. ASSUME NEW x \in ToSet(Tail(s))
        PROVE  x \in ToSet(s)
    <3>1. PICK i \in 1 .. Len(s) - 1 : Tail(s)[i] = x
      BY <2>2, <2>4 DEF ToSet
    <3>2. i + 1 \in 1 .. Len(s) /\ s[i + 1] = x
      BY <2>1, <3>1
    <3> QED
      BY <2>2, <3>2 DEF ToSet
  <2>5. s[1] \in ToSet(s)
    BY <2>1, <2>2 DEF ToSet
  <2> QED
    BY <2>1, <2>3, <2>4, <2>5
<1>3. ToSet(<< >>) = {}
  BY DEF ToSet
<1> QED
  BY <1>1, <1>2, <1>3

\* What a message adds to a channel.
LEMMA SendAdds ==
  ASSUME NEW R, FilledFrom(R), NEW pairs, NEW message \in Messages(R), Send(pairs, message),
         NEW p \in Pairs
  PROVE  ToSet(channel'[p]) = ToSet(channel[p]) \cup IF p \in pairs THEN {message} ELSE {}
BY ToSetProperties DEF FilledFrom, Send

\* What taking a message takes from a channel.
LEMMA DeliverTakes ==
  ASSUME NEW R, FilledFrom(R), NEW p \in Pairs, channel[p] # << >>,
         channel' = [channel EXCEPT ![p] = Tail(@)]
  PROVE  /\ Head(channel[p]) \in ToSet(channel[p])
         /\ ToSet(channel[p]) = {Head(channel[p])} \cup ToSet(channel'[p])
         /\ \A q \in Pairs \ {p} : channel'[q] = channel[q]
BY ToSetProperties DEF FilledFrom

\* The heads lead to all that the board has been through.
LEMMA HeadsReachAll ==
  ASSUME ReadingInv, NEW b \in Members, NEW S, Closed(S), mDigests[b] \subseteq S
  PROVE  Tried(b) \subseteq S
<1> DEFINE T == Tried(b) \ S
<1> SUFFICES ASSUME T # {} PROVE FALSE
  OBVIOUS
<1>1. PICK R : FilledFrom(R)
  BY DEF ReadingInv
<1>2. T \in SUBSET R
  BY <1>1 DEF FilledFrom, Tried
<1>3. PICK t \in T : \A s \in T : t \notin s.previous
  BY <1>1, <1>2 DEF FilledFrom, Topped
<1>4. PICK s \in Tried(b) : t \in s.previous
  BY <1>3 DEF ReadingInv, BoardInv, Leads, IsNamed
<1> QED
  BY <1>3, <1>4 DEF Closed

\* r stays announced if nobody forgets what is ahead of it and whoever ceases to
\* be about to publish, or is newly subscribed to, has told of all it has read.
LEMMA AnnouncedKept ==
  ASSUME NEW r, Announced(r),
         \A x \in Members : mProcessedDigests[x] \subseteq mProcessedDigests'[x],
         \A y \in Members :
           mProcessedDigests[y] \cup fetching[y] \subseteq mProcessedDigests'[y] \cup fetching'[y],
         \A x, y \in Members : <<x, y>> \in subscribed' =>
           \/ /\ <<x, y>> \in subscribed /\ (Publishes(x) => Publishes(x)')
              /\ Told(<<x, y>>) \subseteq Ahead(x, y)'
           \/ \A s \in mProcessedDigests[x] : WillRead(x, y, s)'
  PROVE  Announced(r)'
<1>1. PICK x \in Members :
        /\ r \in mProcessedDigests[x]
        /\ \A y \in Members : <<x, y>> \in subscribed => Publishes(x) \/ WillRead(x, y, r)
  BY DEF Announced
<1>2. ASSUME NEW y \in Members, <<x, y>> \in subscribed'
      PROVE  Publishes(x)' \/ WillRead(x, y, r)'
  <2>1. CASE \A s \in mProcessedDigests[x] : WillRead(x, y, s)'
    BY <1>1, <2>1
  <2>2. CASE /\ <<x, y>> \in subscribed /\ (Publishes(x) => Publishes(x)')
             /\ Told(<<x, y>>) \subseteq Ahead(x, y)'
    <3>1. CASE Publishes(x)
      BY <2>2, <3>1
    <3>2. CASE WillRead(x, y, r)
      <4>1. Ahead(x, y) \subseteq Ahead(x, y)'
        BY <2>2 DEF Ahead
      <4>2. ASSUME NEW S, Closed(S), Ahead(x, y)' \subseteq S
            PROVE  r \in S
        BY <3>2, <4>1, <4>2 DEF WillRead
      <4> QED
        BY <4>2 DEF WillRead, Closed
    <3> QED
      BY <1>1, <2>2, <3>1, <3>2
  <2> QED
    BY <1>2, <2>1, <2>2
<1> QED
  BY <1>1, <1>2 DEF Announced

\* Who is told the heads, or is told nothing as there are none, will read all.
LEMMA HeadsTold ==
  ASSUME ReadingInv, NEW x \in Members, NEW y \in Members,
         mDigests[x] \subseteq Ahead(x, y)',
         NEW r \in mProcessedDigests[x]
  PROVE  WillRead(x, y, r)'
<1>1. ASSUME NEW S, Closed(S), Ahead(x, y)' \subseteq S
      PROVE  r \in S
  BY <1>1, HeadsReachAll DEF Tried
<1> QED
  BY <1>1 DEF WillRead, Closed

\* A mail that is added is announced by the thread that added it.
LEMMA AddPassed ==
  ASSUME ReadingInv, Passed, NEW R, FilledFrom(R), NEW b \in Members, NEW m,
         NEW after, Add(b, m, after), \E t \in after : t.step = "publish",
         UNCHANGED <<fetching, subscribed>>, \A p \in Pairs : Told(p) \subseteq Told(p)',
         subscribed \subseteq Pairs
  PROVE  Passed'
<1>1. PICK resource : resource = [mail |-> m, previous |-> mDigests[b]]
  OBVIOUS
<1>2. /\ stored' = [stored EXCEPT ![b] = @ \cup {resource}]
      /\ mProcessedDigests' = [mProcessedDigests EXCEPT ![b] = @ \cup {resource}]
      /\ threads' = [threads EXCEPT ![b] = after]
  BY <1>1 DEF Add, AddResource
<1>3. /\ mProcessedDigests'[b] = mProcessedDigests[b] \cup {resource}
      /\ stored'[b] = stored[b] \cup {resource} /\ threads'[b] = after
      /\ \A c \in Members \ {b} :
           /\ mProcessedDigests'[c] = mProcessedDigests[c] /\ stored'[c] = stored[c]
           /\ threads'[c] = threads[c]
  BY <1>2 DEF FilledFrom
<1>4. Publishes(b)' /\ \A x \in Members : Publishes(x) => Publishes(x)'
  BY <1>3 DEF Publishes
<1>5. ASSUME NEW r, Announced(r)
      PROVE  Announced(r)'
  <2>1. \A x, y \in Members : <<x, y>> \in subscribed' =>
          /\ <<x, y>> \in subscribed /\ (Publishes(x) => Publishes(x)')
          /\ Told(<<x, y>>) \subseteq Ahead(x, y)'
    BY <1>4 DEF Ahead
  <2> QED
    BY <1>3, <1>5, <2>1, AnnouncedKept
<1>6. Announced(resource)'
  BY <1>3, <1>4 DEF Announced
<1>7. resource.previous \subseteq mProcessedDigests[b]
  BY <1>1 DEF ReadingInv, BoardInv, Leads, Passed
<1> QED
  BY <1>3, <1>5, <1>6, <1>7 DEF Passed

\* Steps in which nothing new is read.
LEMMA NothingReadPassed ==
  ASSUME Passed, UNCHANGED <<stored, mProcessedDigests>>,
         \A y \in Members : fetching[y] \subseteq fetching'[y],
         \A x, y \in Members : <<x, y>> \in subscribed' =>
           \/ /\ <<x, y>> \in subscribed /\ (Publishes(x) => Publishes(x)')
              /\ Told(<<x, y>>) \subseteq Ahead(x, y)'
           \/ \A s \in mProcessedDigests[x] : WillRead(x, y, s)'
  PROVE  Passed'
<1>1. ASSUME NEW r, Announced(r)
      PROVE  Announced(r)'
  <2>1. \A y \in Members :
          /\ mProcessedDigests[y] \subseteq mProcessedDigests'[y]
          /\ mProcessedDigests[y] \cup fetching[y] \subseteq mProcessedDigests'[y] \cup fetching'[y]
    OBVIOUS
  <2> QED
    BY <1>1, <2>1, AnnouncedKept
<1> QED
  BY <1>1 DEF Passed

\* Messages that are lost or delivered are those of the links concerned.
LEMMA CutPassed ==
  ASSUME Passed, subscribed \subseteq Pairs, NEW a, NEW b, Cut(a, b)
  PROVE  Passed'
<1>1. \A p \in Pairs : p \in subscribed' => p \in subscribed /\ channel'[p] = channel[p]
  BY DEF Cut, Drop
<1>2. subscribed' \subseteq Pairs
  BY DEF Cut, Drop
<1>3. UNCHANGED <<stored, mProcessedDigests, fetching, threads>>
  BY DEF Cut, memory
<1>4. ASSUME NEW x \in Members, NEW y \in Members, <<x, y>> \in subscribed'
      PROVE  /\ <<x, y>> \in subscribed /\ (Publishes(x) => Publishes(x)')
             /\ Told(<<x, y>>) \subseteq Ahead(x, y)'
  BY <1>1, <1>2, <1>3, <1>4 DEF Publishes, Ahead, Told
<1> QED
  BY <1>3, <1>4, NothingReadPassed

\* publish tells all the subscribers the heads.
LEMMA PublishPassed ==
  ASSUME ReadingInv, Passed, NEW R, FilledFrom(R), NEW b \in Members, NEW t, Publish(b, t)
  PROVE  Passed'
<1>1. Targets(mDigests[b]) \in Messages(R)
  BY DEF FilledFrom, Messages, Targets
<1>2. \A p \in Pairs : ToSet(channel'[p]) =
        ToSet(channel[p]) \cup IF p \in Subscribers(b) THEN {Targets(mDigests[b])} ELSE {}
  BY <1>1, SendAdds DEF Publish
<1>3. /\ UNCHANGED <<stored, mProcessedDigests, fetching, subscribed>>
      /\ \A c \in Members \ {b} : threads'[c] = threads[c]
      /\ subscribed \subseteq Pairs
  BY DEF Publish, memory, links, FilledFrom, ReadingInv, Linking
<1>4. ASSUME NEW x \in Members, NEW y \in Members, <<x, y>> \in subscribed'
      PROVE  \/ /\ <<x, y>> \in subscribed /\ (Publishes(x) => Publishes(x)')
                /\ Told(<<x, y>>) \subseteq Ahead(x, y)'
             \/ \A s \in mProcessedDigests[x] : WillRead(x, y, s)'
  <2>1. <<x, y>> \in Pairs /\ <<x, y>> \in subscribed
    BY <1>3, <1>4
  <2>2. CASE x = b
    <3>1. <<x, y>> \in Subscribers(b)
      BY <2>1, <2>2 DEF Subscribers
    <3>2. Targets(mDigests[b]) \in ToSet(channel'[<<x, y>>])
      BY <1>2, <2>1, <3>1
    <3>3. mDigests[b] \subseteq Told(<<x, y>>)'
      BY <3>2 DEF Told, Targets
    <3>4. mDigests[x] \subseteq Ahead(x, y)'
      BY <2>2, <3>3 DEF Ahead
    <3> QED
      BY <3>4, HeadsTold
  <2>3. CASE x # b
    <3>1. Told(<<x, y>>) \subseteq Told(<<x, y>>)'
      BY <1>2, <2>1 DEF Told
    <3> QED
      BY <1>3, <2>1, <2>3, <3>1 DEF Publishes, Ahead
  <2> QED
    BY <2>2, <2>3
<1> QED
  BY <1>3, <1>4, NothingReadPassed

\* The first "subscribe" of a link is answered with the heads, from which all
\* that was read can be reached.
LEMMA SubscribePassed ==
  ASSUME ReadingInv, Passed, Subscribing, NEW R, FilledFrom(R), NEW a \in Members, NEW b \in Members,
         <<a, b>> \in Pairs, channel[<<a, b>>] # << >>,
         ReceiveSubscribe(a, b, Head(channel[<<a, b>>])), UNCHANGED appending
  PROVE  Passed'
<1> DEFINE message == Head(channel[<<a, b>>])
<1>0. /\ <<b, a>> \in Pairs /\ <<b, a>> # <<a, b>>
      /\ channel \in [Pairs -> Seq(Messages(R))]
  BY DEF Pairs, FilledFrom
<1>1. /\ message \in ToSet(channel[<<a, b>>]) /\ message.type = "subscribe"
      /\ ToSet(channel[<<a, b>>]) = {message} \cup ToSet(Tail(channel[<<a, b>>]))
  BY <1>0, ToSetProperties DEF ReceiveSubscribe
<1>2. message.targets = {}
  BY <1>1 DEF Subscribing
<1> HIDE DEF message
<1>3. \A p \in Pairs \ {<<a, b>>, <<b, a>>} : channel'[p] = channel[p]
  BY <1>0 DEF ReceiveSubscribe
<1>4. channel'[<<a, b>>] = Tail(channel[<<a, b>>])
  BY <1>0 DEF ReceiveSubscribe
<1>5. channel'[<<b, a>>] =
        IF <<b, a>> \in subscribed \/ mDigests[b] = {} THEN channel[<<b, a>>]
        ELSE Append(channel[<<b, a>>], Targets(mDigests[b]))
  BY <1>0 DEF ReceiveSubscribe
<1>6. Targets(mDigests[b]) \in Messages(R)
  BY DEF FilledFrom, Messages, Targets
<1>7. ToSet(channel'[<<b, a>>]) = ToSet(channel[<<b, a>>])
        \cup IF <<b, a>> \in subscribed \/ mDigests[b] = {} THEN {} ELSE {Targets(mDigests[b])}
  BY <1>0, <1>5, <1>6, ToSetProperties
<1>8. \A p \in Pairs : Told(p) \subseteq Told(p)'
  <2> TAKE p \in Pairs
  <2>1. CASE p = <<a, b>>
    BY <1>1, <1>2, <1>4, <2>1 DEF Told
  <2>2. CASE p = <<b, a>>
    BY <1>7, <2>2 DEF Told
  <2>3. CASE p \notin {<<a, b>>, <<b, a>>}
    BY <1>3, <2>3 DEF Told
  <2> QED
    BY <2>1, <2>2, <2>3
<1>9. /\ UNCHANGED <<stored, mProcessedDigests, fetching, threads>>
      /\ subscribed' = subscribed \cup {<<b, a>>} /\ subscribed \subseteq Pairs
  BY DEF ReceiveSubscribe, memory, ReadingInv, Linking
<1>10. ASSUME NEW x \in Members, NEW y \in Members, <<x, y>> \in subscribed'
       PROVE  \/ /\ <<x, y>> \in subscribed /\ (Publishes(x) => Publishes(x)')
                 /\ Told(<<x, y>>) \subseteq Ahead(x, y)'
              \/ \A s \in mProcessedDigests[x] : WillRead(x, y, s)'
  <2>1. CASE <<x, y>> \in subscribed
    <3>1. Told(<<x, y>>) \subseteq Ahead(x, y)'
      BY <1>8, <1>9, <2>1 DEF Ahead
    <3> QED
      BY <1>9, <2>1, <3>1 DEF Publishes
  <2>2. CASE <<x, y>> \notin subscribed
    <3>1. x = b /\ y = a
      BY <1>9, <1>10, <2>2
    <3>2. mDigests[b] \subseteq Told(<<b, a>>)'
      <4>1. CASE mDigests[b] = {}
        BY <4>1
      <4>2. CASE mDigests[b] # {}
        <5>1. Targets(mDigests[b]) \in ToSet(channel'[<<b, a>>])
          BY <1>7, <2>2, <3>1, <4>2
        <5> QED
          BY <5>1 DEF Told, Targets
      <4> QED
        BY <4>1, <4>2
    <3>3. mDigests[x] \subseteq Ahead(x, y)'
      BY <3>1, <3>2 DEF Ahead
    <3> QED
      BY <3>3, HeadsTold
  <2> QED
    BY <2>1, <2>2
<1> QED
  BY <1>9, <1>10, NothingReadPassed

\* Digests that are published go on to be fetched, unless they are known, and
\* then they are read or fetched.
LEMMA TargetsPassed ==
  ASSUME ReadingInv, Passed, NEW R, FilledFrom(R), NEW a \in Members, NEW b \in Members,
         missed[b] = {},
         <<a, b>> \in Pairs, channel[<<a, b>>] # << >>,
         ReceiveTargets(b, Head(channel[<<a, b>>]).targets),
         channel' = [channel EXCEPT ![<<a, b>>] = Tail(@)], UNCHANGED subscribed
  PROVE  Passed'
<1> DEFINE targets == Head(channel[<<a, b>>]).targets
<1>1. /\ Told(<<a, b>>) = targets \cup Told(<<a, b>>)'
      /\ \A p \in Pairs \ {<<a, b>>} : Told(p) = Told(p)'
  <2>1. /\ ToSet(channel[<<a, b>>]) = {Head(channel[<<a, b>>])} \cup ToSet(channel'[<<a, b>>])
        /\ \A p \in Pairs \ {<<a, b>>} : channel'[p] = channel[p]
    BY DeliverTakes
  <2>2. \A p \in Pairs \ {<<a, b>>} : Told(p) = Told(p)'
    BY <2>1 DEF Told
  <2> QED
    BY <2>1, <2>2 DEF Told
<1> HIDE DEF targets
<1>2. UNCHANGED <<stored, mProcessedDigests, threads>>
  BY DEF ReceiveTargets, memory
<1>3. /\ fetching'[b] = IF targets \subseteq values[b] THEN fetching[b] ELSE fetching[b] \cup targets
      /\ \A c \in Members \ {b} : fetching'[c] = fetching[c]
  BY DEF ReceiveTargets, FilledFrom, targets
<1>4. values[b] \subseteq mProcessedDigests[b] \cup fetching[b]
  BY DEF ReadingInv, BoardInv, Knows
<1>5. ASSUME NEW x \in Members, NEW y \in Members, <<x, y>> \in subscribed'
      PROVE  /\ <<x, y>> \in subscribed /\ (Publishes(x) => Publishes(x)')
             /\ Told(<<x, y>>) \subseteq Ahead(x, y)'
  <2>1. <<x, y>> \in Pairs /\ <<x, y>> \in subscribed
    BY <1>5 DEF ReadingInv, Linking
  <2>2. Told(<<x, y>>) \subseteq Ahead(x, y)'
    BY <1>1, <1>2, <1>3, <1>4, <2>1 DEF Ahead
  <2> QED
    BY <1>2, <2>1, <2>2 DEF Publishes
<1>6. \A y \in Members : fetching[y] \subseteq fetching'[y]
  BY <1>3
<1> QED
  BY <1>2, <1>5, <1>6, NothingReadPassed

\* What is fetched was stored somewhere, hence read and announced.
LEMMA IncomingPassed ==
  ASSUME ReadingInv, Passed, NEW R, FilledFrom(R), NEW b \in Members, NEW r, Incoming(b, r)
  PROVE  Passed'
<1>1. PICK a \in Members : r \in stored[a]
  BY DEF Incoming, CanFetch
<1>2. Announced(r)
  BY <1>1 DEF Passed
<1>3. /\ UNCHANGED <<threads, subscribed, channel>> /\ subscribed \subseteq Pairs
      /\ stored'[b] = stored[b] \cup {r}
      /\ \A c \in Members \ {b} : stored'[c] = stored[c]
  BY DEF Incoming, links, FilledFrom, ReadingInv, Linking
<1>4. /\ mProcessedDigests'[b] = mProcessedDigests[b] \cup {r}
      /\ fetching[b] \subseteq fetching'[b] \cup {r}
      /\ r.previous \subseteq fetching'[b] \cup mProcessedDigests'[b]
      /\ \A c \in Members \ {b} :
           mProcessedDigests'[c] = mProcessedDigests[c] /\ fetching'[c] = fetching[c]
  <2>1. CASE r \in mProcessedDigests[b]
    <3>1. /\ fetching' = [fetching EXCEPT ![b] = @ \ {r}] /\ UNCHANGED mProcessedDigests
      BY <2>1 DEF Incoming, Fetch
    <3>2. r.previous \subseteq mProcessedDigests[b] \cup fetching[b]
      BY <2>1 DEF Passed
    <3> QED
      BY <2>1, <3>1, <3>2 DEF FilledFrom
  <2>2. CASE r \notin mProcessedDigests[b]
    <3>1. /\ mProcessedDigests' = [mProcessedDigests EXCEPT ![b] = @ \cup {r}]
          /\ fetching' = [fetching EXCEPT ![b] = (@ \cup (r.previous \ stored[b])) \ {r}]
      BY <2>2 DEF Incoming, Fetch
    <3>2. stored[b] \subseteq mProcessedDigests[b]
      BY DEF Passed
    <3> QED
      BY <3>1, <3>2 DEF FilledFrom
  <2> QED
    BY <2>1, <2>2
<1>5. ASSUME NEW s, Announced(s)
      PROVE  Announced(s)'
  <2>1. \A x, y \in Members : <<x, y>> \in subscribed' =>
          /\ <<x, y>> \in subscribed /\ (Publishes(x) => Publishes(x)')
          /\ Told(<<x, y>>) \subseteq Ahead(x, y)'
    BY <1>3 DEF Publishes, Ahead, Told
  <2>2. \A y \in Members :
          /\ mProcessedDigests[y] \subseteq mProcessedDigests'[y]
          /\ mProcessedDigests[y] \cup fetching[y] \subseteq mProcessedDigests'[y] \cup fetching'[y]
    BY <1>4
  <2> QED
    BY <1>5, <2>1, <2>2, AnnouncedKept
<1>6. ASSUME NEW s \in mProcessedDigests'[b]
      PROVE  s.previous \subseteq mProcessedDigests'[b] \cup fetching'[b] /\ Announced(s)'
  BY <1>2, <1>4, <1>5 DEF Passed
<1>7. ASSUME NEW c \in Members \ {b}
      PROVE  /\ stored'[c] \subseteq mProcessedDigests'[c]
             /\ \A s \in mProcessedDigests'[c] :
                  s.previous \subseteq mProcessedDigests'[c] \cup fetching'[c] /\ Announced(s)'
  BY <1>3, <1>4, <1>5 DEF Passed
<1>8. stored'[b] \subseteq mProcessedDigests'[b]
  BY <1>3, <1>4 DEF Passed
<1> QED
  BY <1>6, <1>7, <1>8 DEF Passed

\* A thread that has added a mail is about to publish.
LEMMA AdderPublishes ==
  ASSUME NEW m, NEW issues
  PROVE  Publisher(m, issues).step = "publish"
BY DEF Publisher

\* A mail that comes by itself carries no digests.
LEMMA MailPassed ==
  ASSUME ReadingInv, Passed, Subscribing, NEW R, FilledFrom(R), NEW a \in Members, NEW b \in Members,
         <<a, b>> \in Pairs, channel[<<a, b>>] # << >>,
         NEW m \in Head(channel[<<a, b>>]).mails, ReceiveMail(b, m),
         channel' = [channel EXCEPT ![<<a, b>>] = Tail(@)], UNCHANGED subscribed
  PROVE  Passed'
<1>1. /\ Head(channel[<<a, b>>]) \in ToSet(channel[<<a, b>>])
      /\ ToSet(channel[<<a, b>>]) = {Head(channel[<<a, b>>])} \cup ToSet(channel'[<<a, b>>])
      /\ \A q \in Pairs \ {<<a, b>>} : channel'[q] = channel[q]
  BY DeliverTakes
<1>2. Head(channel[<<a, b>>]).targets = {}
  BY <1>1 DEF Subscribing
<1>3. \A p \in Pairs : Told(p) \subseteq Told(p)'
  <2>1. ASSUME NEW q \in Pairs \ {<<a, b>>}
        PROVE  Told(q) \subseteq Told(q)'
    BY <1>1, <2>1 DEF Told
  <2>2. Told(<<a, b>>) \subseteq Told(<<a, b>>)'
    BY <1>1, <1>2 DEF Told
  <2> QED
    BY <2>1, <2>2
<1>4. UNCHANGED fetching /\ subscribed \subseteq Pairs
  BY DEF ReceiveMail, ReadingInv, Linking
<1>5. CASE m \in heard[b]
  <2>1. UNCHANGED <<stored, mProcessedDigests, threads>>
    BY <1>5 DEF ReceiveMail, memory
  <2>2. ASSUME NEW x \in Members, NEW y \in Members, <<x, y>> \in subscribed'
        PROVE  /\ <<x, y>> \in subscribed /\ (Publishes(x) => Publishes(x)')
               /\ Told(<<x, y>>) \subseteq Ahead(x, y)'
    <3>1. <<x, y>> \in Pairs /\ <<x, y>> \in subscribed
      BY <1>4, <2>2
    <3> QED
      BY <1>3, <2>1, <3>1 DEF Publishes, Ahead
  <2> QED
    BY <1>4, <2>1, <2>2, NothingReadPassed
<1>6. CASE m \notin heard[b]
  <2>1. Add(b, m, threads[b] \cup {Publisher(m, FALSE)})
    BY <1>6 DEF ReceiveMail
  <2>2. \E t \in threads[b] \cup {Publisher(m, FALSE)} : t.step = "publish"
    <3>1. Publisher(m, FALSE).step = "publish"
      BY AdderPublishes
    <3> QED
      BY <3>1
  <2> QED
    BY <1>3, <1>4, <2>1, <2>2, AddPassed
<1> QED
  BY <1>5, <1>6

\* A restart, or a resource that is not read, disturbs.
LEMMA FaultsDisturb ==
  ASSUME NEW R, FilledFrom(R), NEW b \in Members,
         Restart(b) \/ \E r : FetchFails(b, r) \/ ReadFails(b, r)
  PROVE  ~Undisturbed'
<1>1. CASE Restart(b)
  BY <1>1 DEF Restart, Undisturbed
<1>2. ASSUME NEW r, missed' = [missed EXCEPT ![b] = @ \cup {r}]
      PROVE  ~Undisturbed'
  BY <1>2 DEF FilledFrom, Undisturbed
<1> QED
  BY <1>1, <1>2 DEF FetchFails, ReadFails

LEMMA PassedKept ==
  ASSUME ReadingInv, Subscribing, Passed, Undisturbed, Undisturbed', [BoardNext]_boardVars
  PROVE  Passed'
<1>1. PICK R : FilledFrom(R)
  BY DEF ReadingInv
<1>2. subscribed \subseteq Pairs
  BY DEF ReadingInv, Linking
<1>3. ASSUME UNCHANGED <<stored, mProcessedDigests, fetching, threads, subscribed>>,
             \A p \in Pairs : Told(p) \subseteq Told(p)'
      PROVE  Passed'
  <2>1. ASSUME NEW x \in Members, NEW y \in Members, <<x, y>> \in subscribed'
        PROVE  /\ <<x, y>> \in subscribed /\ (Publishes(x) => Publishes(x)')
               /\ Told(<<x, y>>) \subseteq Ahead(x, y)'
    <3>1. <<x, y>> \in Pairs /\ <<x, y>> \in subscribed
      BY <1>2, <1>3, <2>1
    <3> QED
      BY <1>3, <3>1 DEF Publishes, Ahead
  <2> QED
    BY <1>3, <2>1, NothingReadPassed
<1>4. ASSUME UNCHANGED channel
      PROVE  \A p \in Pairs : Told(p) \subseteq Told(p)'
  BY <1>4 DEF Told
<1>5. ASSUME NEW b \in Members, NEW m, Post(b, m)
      PROVE  Passed'
  <2>1. /\ Add(b, m, threads[b] \cup {Publisher(m, TRUE)})
        /\ UNCHANGED <<fetching, subscribed, channel>>
    BY <1>5 DEF Post, links
  <2>2. \E t \in threads[b] \cup {Publisher(m, TRUE)} : t.step = "publish"
    <3>1. Publisher(m, TRUE).step = "publish"
      BY AdderPublishes
    <3> QED
      BY <3>1
  <2> QED
    BY <1>1, <1>2, <1>4, <2>1, <2>2, AddPassed
<1>6. ASSUME NEW b \in Members, NEW t \in threads[b], Issue(b, t)
      PROVE  Passed'
  <2>1. /\ Send(Subscribers(b), Message(t.mail))
        /\ Add(b, t.mail, (threads[b] \ {t}) \cup {Publisher(t.mail, FALSE)})
        /\ UNCHANGED <<fetching, subscribed>>
    BY <1>6 DEF Issue, links
  <2>2. Message(t.mail) \in Messages(R)
    <3>1. t.mail \in Mails
      BY <1>1, <1>6 DEF FilledFrom, Publishers
    <3> QED
      BY <3>1 DEF Message, Messages
  <2>3. \A p \in Pairs : ToSet(channel[p]) \subseteq ToSet(channel'[p])
    BY <1>1, <2>1, <2>2, SendAdds
  <2>4. \A p \in Pairs : Told(p) \subseteq Told(p)'
    BY <2>3 DEF Told
  <2>5. \E u \in (threads[b] \ {t}) \cup {Publisher(t.mail, FALSE)} : u.step = "publish"
    <3>1. Publisher(t.mail, FALSE).step = "publish"
      BY AdderPublishes
    <3> QED
      BY <3>1
  <2> QED
    BY <1>1, <1>2, <2>1, <2>4, <2>5, AddPassed
<1>7. ASSUME NEW a \in Members, NEW b \in Members, Deliver(a, b)
      PROVE  Passed'
  <2>1. <<a, b>> \in Pairs /\ channel[<<a, b>>] # << >> /\ UNCHANGED appending
    BY <1>7 DEF Deliver
  <2>2. CASE ReceiveSubscribe(a, b, Head(channel[<<a, b>>]))
    BY <1>1, <2>1, <2>2, SubscribePassed
  <2>3. CASE ReceivePublish(a, b, Head(channel[<<a, b>>]))
    <3>1. /\ channel' = [channel EXCEPT ![<<a, b>>] = Tail(@)] /\ UNCHANGED subscribed
      BY <2>3 DEF ReceivePublish
    <3>2. CASE ReceiveTargets(b, Head(channel[<<a, b>>]).targets)
      BY <1>1, <2>1, <3>1, <3>2, TargetsPassed DEF Undisturbed
    <3>3. ASSUME NEW m \in Head(channel[<<a, b>>]).mails, ReceiveMail(b, m)
          PROVE  Passed'
      BY <1>1, <2>1, <3>1, <3>3, MailPassed
    <3> QED
      BY <2>3, <3>2, <3>3 DEF ReceivePublish
  <2> QED
    BY <1>7, <2>2, <2>3 DEF Deliver
<1>8. ASSUME NEW b \in Members, NEW m, AppendRead(b, m)
      PROVE  Passed'
  BY <1>3, <1>4, <1>8 DEF AppendRead, links
<1>9. ASSUME NEW a \in Members, NEW b \in Members, Link(a, b)
      PROVE  Passed'
  <2>1. Subscription \in Messages(R)
    BY DEF Messages, Subscription
  <2>2. Send(BothWays(a, b), Subscription)
    BY <1>9 DEF Link
  <2>3. \A p \in Pairs : ToSet(channel[p]) \subseteq ToSet(channel'[p])
    BY <1>1, <2>1, <2>2, SendAdds
  <2>4. \A p \in Pairs : Told(p) \subseteq Told(p)'
    BY <2>3 DEF Told
  <2> QED
    BY <1>3, <1>9, <2>4 DEF Link, memory
<1>10. ASSUME NEW a \in Members, NEW b \in Members, Cut(a, b)
       PROVE  Passed'
  BY <1>2, <1>10, CutPassed
<1>11. ASSUME NEW b \in Members, Expire(b)
       PROVE  Passed'
  BY <1>3, <1>4, <1>11 DEF Expire, memory, links
<1>12. ASSUME NEW b \in Members, Restart(b) \/ \E r : FetchFails(b, r) \/ ReadFails(b, r)
       PROVE  FALSE
  BY <1>1, <1>12, FaultsDisturb
<1>13. CASE UNCHANGED boardVars
  BY <1>3, <1>4, <1>13 DEF boardVars, memory, links
<1> QED
  BY <1>1, <1>5, <1>6, <1>7, <1>8, <1>9, <1>10, <1>11, <1>12, <1>13,
     PublishPassed, IncomingPassed
     DEF BoardNext, ThreadStep, ReadStep

\* Links that are made are subscribed to.
LEMMA SubscribingKept ==
  ASSUME ReadingInv, Subscribing, [BoardNext]_boardVars
  PROVE  Subscribing'
<1>1. PICK R : FilledFrom(R)
  BY DEF ReadingInv
<1>2. ASSUME UNCHANGED <<links, channel>>
      PROVE  Subscribing'
  BY <1>2 DEF Subscribing, links
<1>3. ASSUME NEW pairs, NEW message \in Messages(R), Send(pairs, message),
             message.targets # {} => message.type = "publish" /\ message.mails = {},
             linked' \subseteq linked \/ (linked' \subseteq linked \cup pairs /\ message = Subscription),
             UNCHANGED subscribed
      PROVE  Subscribing'
  <2>1. \A p \in Pairs :
          ToSet(channel'[p]) = ToSet(channel[p]) \cup IF p \in pairs THEN {message} ELSE {}
    BY <1>1, <1>3, SendAdds
  <2> QED
    BY <1>3, <2>1 DEF Subscribing
<1>4. ASSUME NEW b \in Members, NEW t \in threads[b], Publish(b, t) \/ Issue(b, t)
      PROVE  Subscribing'
  <2>1. t.mail \in Mails /\ mDigests[b] \subseteq R
    BY <1>1, <1>4 DEF FilledFrom, Publishers
  <2>2. /\ Targets(mDigests[b]) \in Messages(R) /\ Targets(mDigests[b]).type = "publish"
        /\ Targets(mDigests[b]).mails = {}
    BY <2>1 DEF Targets, Messages
  <2>3. Message(t.mail) \in Messages(R) /\ Message(t.mail).targets = {}
    BY <2>1 DEF Message, Messages
  <2> QED
    BY <1>3, <1>4, <2>2, <2>3 DEF Publish, Issue, links
<1>5. ASSUME NEW a \in Members, NEW b \in Members, Link(a, b)
      PROVE  Subscribing'
  <2>1. Subscription \in Messages(R) /\ Subscription.targets = {}
    BY DEF Subscription, Messages
  <2> QED
    BY <1>3, <1>5, <2>1 DEF Link
<1>6. ASSUME NEW pairs, Drop(pairs), \A p \in pairs \cap Pairs : <<p[2], p[1]>> \in pairs
      PROVE  Subscribing'
  <2>1. \A p \in Pairs : ToSet(channel'[p]) \subseteq ToSet(channel[p])
    BY <1>1, <1>6, ToSetProperties DEF Drop, FilledFrom
  <2>2. ASSUME NEW p \in Pairs, p \in linked'
        PROVE  <<p[2], p[1]>> \in subscribed' \/ Subscription \in ToSet(channel'[p])
    <3>1. p \in linked /\ p \notin pairs /\ channel'[p] = channel[p]
      BY <1>6, <2>2 DEF Drop
    <3>2. <<p[2], p[1]>> \notin pairs
      <4>1. /\ <<p[2], p[1]>> \in Pairs
            /\ <<(<<p[2], p[1]>>)[2], (<<p[2], p[1]>>)[1]>> = p
        BY DEF Pairs
      <4> QED
        BY <1>6, <3>1, <4>1
    <3> QED
      BY <1>6, <3>1, <3>2 DEF Subscribing, Drop
  <2> QED
    BY <2>1, <2>2 DEF Subscribing
<1>7. ASSUME NEW a \in Members, NEW b \in Members, Cut(a, b)
      PROVE  Subscribing'
  BY <1>6, <1>7 DEF Cut, BothWays
<1>8. ASSUME NEW b \in Members, Restart(b)
      PROVE  Subscribing'
  <2> DEFINE pairs == {p \in Pairs : b \in {p[1], p[2]}}
  <2>1. \A p \in pairs : <<p[2], p[1]>> \in pairs
    BY DEF Pairs
  <2> QED
    BY <1>6, <1>8, <2>1 DEF Restart
<1>9. ASSUME NEW a \in Members, NEW b \in Members, Deliver(a, b)
      PROVE  Subscribing'
  <2> DEFINE message == Head(channel[<<a, b>>])
  <2>1. /\ <<a, b>> \in Pairs /\ <<b, a>> \in Pairs /\ channel[<<a, b>>] # << >> /\ UNCHANGED linked
        /\ <<a, b>> # <<b, a>> /\ channel \in [Pairs -> Seq(Messages(R))]
    BY <1>1, <1>9 DEF Deliver, Pairs, FilledFrom
  <2>2. /\ message \in ToSet(channel[<<a, b>>])
        /\ ToSet(channel[<<a, b>>]) = {message} \cup ToSet(Tail(channel[<<a, b>>]))
    BY <2>1, ToSetProperties
  <2>3. \A p \in Pairs : /\ p = <<p[1], p[2]>>
                         /\ <<p[2], p[1]>> = <<b, a>> <=> p = <<a, b>>
    BY DEF Pairs
  <2> HIDE DEF message
  <2>4. CASE ReceivePublish(a, b, message)
    <3>1. message.type = "publish" /\ UNCHANGED subscribed
      BY <2>4 DEF ReceivePublish
    <3>2. channel' = [channel EXCEPT ![<<a, b>>] = Tail(@)]
      BY <2>4 DEF ReceivePublish
    <3>3. message # Subscription
      BY <3>1 DEF Subscription
    <3>4. \A p \in Pairs : ToSet(channel'[p]) \subseteq ToSet(channel[p])
      BY <2>1, <2>2, <3>2
    <3>5. \A p \in Pairs : Subscription \in ToSet(channel[p]) => Subscription \in ToSet(channel'[p])
      BY <2>1, <2>2, <3>2, <3>3
    <3> QED
      BY <2>1, <3>1, <3>4, <3>5 DEF Subscribing
  <2>5. CASE ReceiveSubscribe(a, b, message)
    <3>1. subscribed' = subscribed \cup {<<b, a>>}
      BY <2>5 DEF ReceiveSubscribe
    <3>2. /\ channel'[<<a, b>>] = Tail(channel[<<a, b>>])
          /\ \/ channel'[<<b, a>>] = channel[<<b, a>>]
             \/ channel'[<<b, a>>] = Append(channel[<<b, a>>], Targets(mDigests[b]))
          /\ \A p \in Pairs \ {<<a, b>>, <<b, a>>} : channel'[p] = channel[p]
      BY <2>1, <2>5 DEF ReceiveSubscribe
    <3>3. /\ Targets(mDigests[b]) \in Messages(R) /\ Targets(mDigests[b]).type = "publish"
          /\ Targets(mDigests[b]).mails = {}
      BY <1>1 DEF Targets, Messages, FilledFrom
    <3>4. ToSet(channel'[<<a, b>>]) \subseteq ToSet(channel[<<a, b>>])
      BY <2>2, <3>2
    <3>5. channel[<<b, a>>] \in Seq(Messages(R))
      BY <2>1
    <3>6. ToSet(Append(channel[<<b, a>>], Targets(mDigests[b])))
            = ToSet(channel[<<b, a>>]) \cup {Targets(mDigests[b])}
      BY <3>3, <3>5, ToSetProperties
    <3>7. \A p \in Pairs : ToSet(channel'[p]) \subseteq ToSet(channel[p]) \cup {Targets(mDigests[b])}
      BY <3>2, <3>4, <3>6
    <3>8. \A p \in Pairs \ {<<a, b>>} : ToSet(channel[p]) \subseteq ToSet(channel'[p])
      BY <3>2, <3>6
    <3>9. ASSUME NEW p \in Pairs, p \in linked'
          PROVE  <<p[2], p[1]>> \in subscribed' \/ Subscription \in ToSet(channel'[p])
      BY <2>1, <2>3, <3>1, <3>8, <3>9 DEF Subscribing
    <3> QED
      BY <3>3, <3>7, <3>9 DEF Subscribing
  <2> QED
    BY <1>9, <2>4, <2>5 DEF Deliver, message
<1>10. ASSUME NEW b \in Members, NEW m, Post(b, m) \/ AppendRead(b, m)
       PROVE  Subscribing'
  BY <1>2, <1>10 DEF Post, AppendRead
<1>11. ASSUME NEW b \in Members, NEW r, Incoming(b, r) \/ FetchFails(b, r) \/ ReadFails(b, r)
       PROVE  Subscribing'
  BY <1>2, <1>11 DEF Incoming, FetchFails, ReadFails
<1>12. ASSUME NEW b \in Members, Expire(b)
       PROVE  Subscribing'
  BY <1>2, <1>12 DEF Expire
<1>13. CASE UNCHANGED boardVars
  BY <1>2, <1>13 DEF boardVars, links
<1> QED
  BY <1>4, <1>5, <1>7, <1>8, <1>9, <1>10, <1>11, <1>12, <1>13 DEF BoardNext, ThreadStep, ReadStep

\* Steps in which no mail is new: it is read somewhere, or on its way.
LEMMA NoNewMail ==
  ASSUME MailsRead,
         \A b \in Members :
           /\ \A m \in mMails'[b] \cup appending'[b] : \E r \in mProcessedDigests'[b] : r.mail = m
           /\ \A m \in mMails[b] : m \in mMails'[b]
           /\ mMails[b] \cup appending[b] \subseteq mMails'[b] \cup appending'[b]
           /\ \A t \in threads'[b] : t.mail \in mMails'[b],
         \A p \in Pairs : \A message \in ToSet(channel'[p]) :
           message \in ToSet(channel[p]) \/ message.mails \subseteq mMails[p[1]],
         \A m : Got(m)' => Got(m) \/ Parent[m] = NoMail \/ Got(Parent[m])
  PROVE  MailsRead'
<1>1. \A m : Got(m) => Got(m)'
  BY DEF Got
<1>2. ASSUME NEW m, Got(m)', Parent[m] # NoMail
      PROVE  Got(Parent[m])'
  BY <1>1, <1>2 DEF MailsRead
<1>3. ASSUME NEW p \in Pairs, NEW message \in ToSet(channel'[p])
      PROVE  message.mails \subseteq mMails'[p[1]]
  <2>1. p[1] \in Members
    BY DEF Pairs
  <2>2. message.mails \subseteq mMails[p[1]]
    BY <1>3 DEF MailsRead
  <2> QED
    BY <2>1, <2>2
<1> QED
  BY <1>2, <1>3 DEF MailsRead

LEMMA AddMails ==
  ASSUME Showing, MailsRead, NEW R, FilledFrom(R), NEW b \in Members, NEW m,
         NEW after, Add(b, m, after), \A t \in after : t.mail = m \/ t \in threads[b],
         UNCHANGED appending,
         \A p \in Pairs : \A message \in ToSet(channel'[p]) :
           message \in ToSet(channel[p]) \/ message.mails \subseteq mMails[p[1]],
         Got(m) \/ Parent[m] = NoMail \/ Got(Parent[m])
  PROVE  MailsRead'
<1>1. PICK resource : resource = [mail |-> m, previous |-> mDigests[b]]
  OBVIOUS
<1>2. /\ mProcessedDigests' = [mProcessedDigests EXCEPT ![b] = @ \cup {resource}]
      /\ threads' = [threads EXCEPT ![b] = after] /\ AppendMail(b, m)
  BY <1>1 DEF Add, AddResource
<1>3. resource.mail = m
  BY <1>1
<1>4. /\ mProcessedDigests'[b] = mProcessedDigests[b] \cup {resource} /\ threads'[b] = after
      /\ mMails'[b] = mMails[b] \cup {m}
      /\ \A c \in Members \ {b} :
           /\ mProcessedDigests'[c] = mProcessedDigests[c] /\ threads'[c] = threads[c]
           /\ mMails'[c] = mMails[c]
  BY <1>2, AppendMailAdds DEF FilledFrom
<1>5. /\ \A n \in mMails'[b] \cup appending'[b] : \E r \in mProcessedDigests'[b] : r.mail = n
      /\ \A t \in threads'[b] : t.mail \in mMails'[b]
  BY <1>3, <1>4 DEF MailsRead
<1>6. ASSUME NEW c \in Members \ {b}
      PROVE  /\ \A n \in mMails'[c] \cup appending'[c] : \E r \in mProcessedDigests'[c] : r.mail = n
             /\ \A t \in threads'[c] : t.mail \in mMails'[c]
  BY <1>4 DEF MailsRead
<1>7. \A n : Got(n)' => Got(n) \/ n = m
  BY <1>4 DEF Got
<1> QED
  BY <1>4, <1>5, <1>6, <1>7, NoNewMail

LEMMA MailsKept ==
  ASSUME ReadingInv, Passed, MailsRead, Undisturbed', [BoardNext]_boardVars
  PROVE  MailsRead'
<1>1. PICK R : FilledFrom(R)
  BY DEF ReadingInv
<1>2. Showing
  BY DEF ReadingInv
<1>3. ASSUME UNCHANGED <<mMails, appending, mProcessedDigests>>,
             \A b \in Members : \A t \in threads'[b] : t.mail \in mMails[b],
             \A p \in Pairs : \A message \in ToSet(channel'[p]) :
               message \in ToSet(channel[p]) \/ message.mails \subseteq mMails[p[1]]
      PROVE  MailsRead'
  <2>1. \A m : Got(m)' => Got(m)
    BY <1>3 DEF Got
  <2>2. \A b \in Members :
          /\ \A m \in mMails'[b] \cup appending'[b] : \E r \in mProcessedDigests'[b] : r.mail = m
          /\ \A t \in threads'[b] : t.mail \in mMails'[b]
    BY <1>3 DEF MailsRead
  <2> QED
    BY <1>3, <2>1, <2>2, NoNewMail
<1>4. \A b \in Members : \A t \in threads[b] : t.mail \in mMails[b]
  BY DEF MailsRead
<1>5. ASSUME NEW b \in Members, NEW m, Post(b, m)
      PROVE  MailsRead'
  <2>1. Parent[m] = NoMail \/ Got(Parent[m])
    <3>1. CASE Parent[m] \in ToSet(mListing[b])
      <4>1. GoodBoard(OwnBoard(b)) /\ OwnBoard(b).listing = mListing[b] /\ OwnBoard(b).mails = mMails[b]
        BY <1>2 DEF Showing, OwnBoard
      <4>2. mListing[b] \in Seq(Mails)
        BY <1>2 DEF Showing
      <4>3. DOMAIN mListing[b] = 1 .. Len(mListing[b])
        BY <4>2, LenProperties
      <4>4. PICK i \in 1 .. Len(mListing[b]) : mListing[b][i] = Parent[m]
        BY <3>1, <4>3 DEF ToSet
      <4>5. Parent[m] \in mMails[b]
        BY <4>1, <4>4 DEF GoodBoard
      <4> QED
        BY <4>5 DEF Got
    <3> QED
      BY <1>5, <3>1 DEF Post
  <2>2. \A t \in threads[b] \cup {Publisher(m, TRUE)} : t.mail = m \/ t \in threads[b]
    BY DEF Publisher
  <2>3. Add(b, m, threads[b] \cup {Publisher(m, TRUE)}) /\ UNCHANGED <<appending, channel>>
    BY <1>5 DEF Post
  <2> QED
    BY <1>1, <1>2, <2>1, <2>2, <2>3, AddMails
<1>6. ASSUME NEW b \in Members, NEW t \in threads[b], Publish(b, t)
      PROVE  MailsRead'
  <2>1. Targets(mDigests[b]) \in Messages(R) /\ Targets(mDigests[b]).mails = {}
    BY <1>1 DEF FilledFrom, Messages, Targets
  <2>2. \A p \in Pairs : \A message \in ToSet(channel'[p]) :
          message \in ToSet(channel[p]) \/ message.mails \subseteq mMails[p[1]]
    BY <1>1, <1>6, <2>1, SendAdds DEF Publish
  <2>3. t \in Publishers /\ [t EXCEPT !.step = "issue"].mail = t.mail
    BY <1>1 DEF FilledFrom, Publishers
  <2>4. threads' = [threads EXCEPT ![b] =
          (@ \ {t}) \cup IF t.issues THEN {[t EXCEPT !.step = "issue"]} ELSE {}]
    BY <1>6 DEF Publish
  <2>5. \A c \in Members : \A u \in threads'[c] : u.mail \in mMails[c]
    BY <1>1, <1>4, <1>6, <2>3, <2>4 DEF FilledFrom
  <2> QED
    BY <1>3, <1>6, <2>2, <2>5 DEF Publish, memory
<1>7. ASSUME NEW b \in Members, NEW t \in threads[b], Issue(b, t)
      PROVE  MailsRead'
  <2>1. t.mail \in Mails /\ t.mail \in mMails[b] /\ Got(t.mail)
    BY <1>1, <1>4, <1>7 DEF FilledFrom, Publishers, Got
  <2>2. Message(t.mail) \in Messages(R) /\ Message(t.mail).mails = {t.mail}
    BY <2>1 DEF Message, Messages
  <2>3. Send(Subscribers(b), Message(t.mail)) /\ \A p \in Subscribers(b) : p[1] = b
    BY <1>7 DEF Issue, Subscribers
  <2>4. \A p \in Pairs : \A message \in ToSet(channel'[p]) :
          message \in ToSet(channel[p]) \/ message.mails \subseteq mMails[p[1]]
    BY <1>1, <2>1, <2>2, <2>3, SendAdds
  <2>5. \A u \in (threads[b] \ {t}) \cup {Publisher(t.mail, FALSE)} :
          u.mail = t.mail \/ u \in threads[b]
    BY DEF Publisher
  <2>6. /\ Add(b, t.mail, (threads[b] \ {t}) \cup {Publisher(t.mail, FALSE)})
        /\ UNCHANGED appending
    BY <1>7 DEF Issue
  <2> QED
    BY <1>1, <1>2, <2>1, <2>4, <2>5, <2>6, AddMails
<1>8. ASSUME NEW a \in Members, NEW b \in Members, Deliver(a, b)
      PROVE  MailsRead'
  <2> DEFINE message == Head(channel[<<a, b>>])
  <2>1. /\ <<a, b>> \in Pairs /\ <<b, a>> \in Pairs /\ <<b, a>> # <<a, b>>
        /\ channel[<<a, b>>] # << >> /\ UNCHANGED appending
        /\ channel \in [Pairs -> Seq(Messages(R))]
    BY <1>1, <1>8 DEF Deliver, Pairs, FilledFrom
  <2>2. /\ message \in ToSet(channel[<<a, b>>])
        /\ ToSet(Tail(channel[<<a, b>>])) \subseteq ToSet(channel[<<a, b>>])
    BY <2>1, ToSetProperties
  <2>3. message.mails \subseteq mMails[a]
    BY <2>1, <2>2 DEF MailsRead
  <2> HIDE DEF message
  <2>4. CASE ReceiveSubscribe(a, b, message)
    <3>1. Targets(mDigests[b]) \in Messages(R) /\ Targets(mDigests[b]).mails = {}
      BY <1>1 DEF FilledFrom, Messages, Targets
    <3>2. /\ channel'[<<a, b>>] = Tail(channel[<<a, b>>])
          /\ \/ channel'[<<b, a>>] = channel[<<b, a>>]
             \/ channel'[<<b, a>>] = Append(channel[<<b, a>>], Targets(mDigests[b]))
          /\ \A p \in Pairs \ {<<a, b>>, <<b, a>>} : channel'[p] = channel[p]
      BY <2>1, <2>4 DEF ReceiveSubscribe
    <3>3. channel[<<b, a>>] \in Seq(Messages(R))
      BY <2>1
    <3>4. ToSet(Append(channel[<<b, a>>], Targets(mDigests[b])))
            = ToSet(channel[<<b, a>>]) \cup {Targets(mDigests[b])}
      BY <3>1, <3>3, ToSetProperties
    <3>5. \A p \in Pairs : \A other \in ToSet(channel'[p]) :
            other \in ToSet(channel[p]) \/ other.mails \subseteq mMails[p[1]]
      BY <2>2, <3>1, <3>2, <3>4
    <3> QED
      BY <1>3, <1>4, <2>1, <2>4, <3>5 DEF ReceiveSubscribe, memory
  <2>5. CASE ReceivePublish(a, b, message)
    <3>1. channel' = [channel EXCEPT ![<<a, b>>] = Tail(@)]
      BY <2>5 DEF ReceivePublish
    <3>2. \A p \in Pairs : ToSet(channel'[p]) \subseteq ToSet(channel[p])
      BY <2>1, <2>2, <3>1
    <3>3. ASSUME NEW targets, ReceiveTargets(b, targets)
          PROVE  MailsRead'
      BY <1>3, <1>4, <2>1, <3>2, <3>3 DEF ReceiveTargets, memory
    <3>4. ASSUME NEW m \in message.mails, ReceiveMail(b, m)
          PROVE  MailsRead'
      <4>1. CASE m \in heard[b]
        BY <1>3, <1>4, <2>1, <3>2, <3>4, <4>1 DEF ReceiveMail, memory
      <4>2. CASE m \notin heard[b]
        <5>1. Got(m)
          BY <2>3, <3>4 DEF Got
        <5>2. Add(b, m, threads[b] \cup {Publisher(m, FALSE)})
          BY <3>4, <4>2 DEF ReceiveMail
        <5>3. \A t \in threads[b] \cup {Publisher(m, FALSE)} : t.mail = m \/ t \in threads[b]
          BY DEF Publisher
        <5> QED
          BY <1>1, <1>2, <2>1, <3>2, <5>1, <5>2, <5>3, AddMails
      <4> QED
        BY <4>1, <4>2
    <3> QED
      BY <2>5, <3>3, <3>4 DEF ReceivePublish
  <2> QED
    BY <1>8, <2>4, <2>5 DEF Deliver, message
<1>9. ASSUME NEW b \in Members, NEW r, Incoming(b, r)
      PROVE  MailsRead'
  <2>1. PICK a \in Members : r \in stored[a]
    BY <1>9 DEF Incoming, CanFetch
  <2>2. Got(r.mail)
    BY <2>1 DEF ReadingInv, ReadIsOnBoard, Passed, Got
  <2>3. UNCHANGED <<mMails, threads, channel>>
    BY <1>9 DEF Incoming
  <2>4. CASE r \in mProcessedDigests[b]
    BY <1>3, <1>4, <1>9, <2>3, <2>4 DEF Incoming
  <2>5. CASE r \notin mProcessedDigests[b]
    <3>1. /\ mProcessedDigests'[b] = mProcessedDigests[b] \cup {r}
          /\ appending'[b] = appending[b] \cup {r.mail}
          /\ \A c \in Members \ {b} :
               mProcessedDigests'[c] = mProcessedDigests[c] /\ appending'[c] = appending[c]
      BY <1>1, <1>9, <2>5 DEF Incoming, FilledFrom
    <3>2. \A m : Got(m)' => Got(m)
      BY <2>2, <2>3, <3>1 DEF Got
    <3>3. \A c \in Members :
            /\ \A m \in mMails'[c] \cup appending'[c] : \E s \in mProcessedDigests'[c] : s.mail = m
            /\ \A t \in threads'[c] : t.mail \in mMails'[c]
            /\ mMails[c] \cup appending[c] \subseteq mMails'[c] \cup appending'[c]
      BY <2>3, <3>1 DEF MailsRead
    <3> QED
      BY <2>3, <3>2, <3>3, NoNewMail
  <2> QED
    BY <2>4, <2>5
<1>10. ASSUME NEW b \in Members, NEW m \in appending[b], AppendRead(b, m)
       PROVE  MailsRead'
  <2>1. /\ mMails'[b] = mMails[b] \cup {m} /\ appending'[b] = appending[b] \ {m}
        /\ \A c \in Members \ {b} : mMails'[c] = mMails[c] /\ appending'[c] = appending[c]
        /\ UNCHANGED <<mProcessedDigests, threads, channel>>
    BY <1>1, <1>2, <1>10, AppendMailAdds DEF AppendRead, FilledFrom
  <2>2. \A c \in Members : mMails'[c] \cup appending'[c] = mMails[c] \cup appending[c]
    BY <1>10, <2>1
  <2>3. \A n : Got(n)' => Got(n)
    BY <2>2 DEF Got
  <2>4. \A c \in Members :
          /\ \A n \in mMails'[c] \cup appending'[c] : \E s \in mProcessedDigests'[c] : s.mail = n
          /\ \A n \in mMails[c] : n \in mMails'[c]
          /\ \A t \in threads'[c] : t.mail \in mMails'[c]
    BY <2>1, <2>2 DEF MailsRead
  <2> QED
    BY <2>1, <2>2, <2>3, <2>4, NoNewMail
<1>11. ASSUME NEW a \in Members, NEW b \in Members, Link(a, b)
       PROVE  MailsRead'
  <2>1. Subscription \in Messages(R) /\ Subscription.mails = {}
    BY DEF Subscription, Messages
  <2>2. \A p \in Pairs : \A message \in ToSet(channel'[p]) :
          message \in ToSet(channel[p]) \/ message.mails \subseteq mMails[p[1]]
    BY <1>1, <1>11, <2>1, SendAdds DEF Link
  <2> QED
    BY <1>3, <1>4, <1>11, <2>2 DEF Link, memory
<1>12. ASSUME NEW a \in Members, NEW b \in Members, Cut(a, b)
       PROVE  MailsRead'
  <2>1. \A p \in Pairs : ToSet(channel'[p]) \subseteq ToSet(channel[p])
    BY <1>1, <1>12, ToSetProperties DEF Cut, Drop, FilledFrom
  <2> QED
    BY <1>3, <1>4, <1>12, <2>1 DEF Cut, memory
<1>13. ASSUME NEW b \in Members, Expire(b)
       PROVE  MailsRead'
  BY <1>3, <1>4, <1>13 DEF Expire, memory
<1>14. ASSUME NEW b \in Members, Restart(b) \/ \E r : FetchFails(b, r) \/ ReadFails(b, r)
       PROVE  FALSE
  BY <1>1, <1>14, FaultsDisturb
<1>15. CASE UNCHANGED boardVars
  BY <1>3, <1>4, <1>15 DEF boardVars, memory
<1> QED
  BY <1>5, <1>6, <1>7, <1>8, <1>9, <1>10, <1>11, <1>12, <1>13, <1>14, <1>15
     DEF BoardNext, ThreadStep, ReadStep

\* Once a node was started again or a resource was not read, nothing is said of
\* what the boards agree on.
ConvergingInv ==
  ReadingInv /\ Subscribing /\ (Undisturbed => Passed /\ MailsRead)

LEMMA ConvergingInit == BoardInit => ConvergingInv
<1> SUFFICES ASSUME BoardInit PROVE Subscribing /\ Passed /\ MailsRead
  BY ReadingInvInit DEF ConvergingInv
<1>1. ToSet(<< >>) = {}
  BY DEF ToSet
<1> QED
  BY <1>1 DEF BoardInit, Subscribing, Passed, MailsRead, Got

\* What has disturbed the boards, a restart or a resource that was not read, is
\* not undone.
LEMMA StaysDisturbed ==
  ASSUME NEW R, FilledFrom(R), [BoardNext]_boardVars, Undisturbed'
  PROVE  Undisturbed
<1>1. ASSUME UNCHANGED <<restarted, missed>>
      PROVE  Undisturbed
  BY <1>1 DEF Undisturbed
<1>2. CASE UNCHANGED boardVars
  BY <1>1, <1>2 DEF boardVars, faultVars
<1>3. ASSUME NEW b \in Members, ThreadStep(b) PROVE Undisturbed
  BY <1>1, <1>3 DEF ThreadStep, Publish, Issue, faultVars
<1>4. ASSUME NEW b \in Members, ReadStep(b) PROVE Undisturbed
  BY <1>1, <1>4 DEF ReadStep, Incoming, AppendRead, faultVars
<1>5. ASSUME NEW b \in Members, NEW m, Post(b, m) PROVE Undisturbed
  BY <1>1, <1>5 DEF Post, faultVars
<1>6. ASSUME NEW b \in Members, Expire(b) PROVE Undisturbed
  BY <1>1, <1>6 DEF Expire
<1>7. ASSUME NEW b \in Members, Restart(b) \/ \E r : FetchFails(b, r) \/ ReadFails(b, r)
      PROVE  FALSE
  BY <1>7, FaultsDisturb
<1>8. ASSUME NEW a \in Members, NEW b \in Members, Deliver(a, b) \/ Link(a, b) \/ Cut(a, b)
      PROVE  Undisturbed
  BY <1>1, <1>8 DEF Deliver, Link, Cut, faultVars
<1> QED
  BY <1>2, <1>3, <1>4, <1>5, <1>6, <1>7, <1>8 DEF BoardNext

LEMMA ConvergingKept == ConvergingInv /\ [BoardNext]_boardVars => ConvergingInv'
<1> SUFFICES ASSUME ConvergingInv, [BoardNext]_boardVars, Undisturbed'
             PROVE  Passed' /\ MailsRead'
  BY ReadingInvKept, SubscribingKept DEF ConvergingInv
<1>1. Undisturbed
  BY StaysDisturbed DEF ConvergingInv, ReadingInv
<1> QED
  BY <1>1, PassedKept, MailsKept DEF ConvergingInv

LEMMA AllAreRead ==
  ASSUME ConvergingInv, Undisturbed, AtRest, NEW a \in Members, NEW b \in Members
  PROVE  mProcessedDigests[a] \subseteq mProcessedDigests[b]
<1> SUFFICES ASSUME NEW r \in mProcessedDigests[a] PROVE r \in mProcessedDigests[b]
  OBVIOUS
<1>1. PICK x \in Members :
        /\ r \in mProcessedDigests[x]
        /\ \A y \in Members : <<x, y>> \in subscribed => Publishes(x) \/ WillRead(x, y, r)
  BY DEF ConvergingInv, Passed, Announced
<1>2. CASE x = b
  BY <1>1, <1>2
<1>3. CASE x # b
  <2>1. <<x, b>> \in Pairs /\ <<b, x>> \in Pairs
    BY <1>3 DEF Pairs
  <2>2. channel[<<x, b>>] = << >> /\ channel[<<b, x>>] = << >> /\ ToSet(<< >>) = {}
    BY <2>1 DEF AtRest, ToSet
  <2>3. <<x, b>> \in subscribed
    <3>1. <<b, x>>[2] = x /\ <<b, x>>[1] = b
      OBVIOUS
    <3> QED
      BY <2>1, <2>2, <3>1 DEF ConvergingInv, Subscribing, AtRest
  <2>4. ~Publishes(x) /\ fetching[b] = {}
    BY DEF Publishes, AtRest
  <2>5. Told(<<x, b>>) = {}
    BY <2>2 DEF Told
  <2>6. Closed(mProcessedDigests[b]) /\ Ahead(x, b) = mProcessedDigests[b]
    BY <2>4, <2>5 DEF ConvergingInv, Passed, Closed, Ahead
  <2> QED
    BY <1>1, <2>3, <2>4, <2>6 DEF WillRead
<1> QED
  BY <1>2, <1>3

\* When the nodes that are linked have come to rest, each board shows all that
\* was posted by anybody, orphans included, in whatever order resources came and
\* however often links were cut on the way and old values deleted, unless a node was
\* started again or a resource was not read (board.cpp:158-294, network.cpp:714-771,
\* :915-962).  So of Converges only this remains to the fairness: that they come
\* to rest.
THEOREM BoardsAgreeAtRest ==
  BoardSpec => [](AtRest /\ restarted = {} /\ (\A b \in Members : missed[b] = {})
                    => \A b \in Members : ToSet(mListing[b]) = Posted)
<1>1. ASSUME ConvergingInv, AtRest, Undisturbed, NEW b \in Members
      PROVE  ToSet(mListing[b]) = Posted
  <2>0. MailsRead /\ ReadIsOnBoard /\ Showing
    BY <1>1 DEF ConvergingInv, ReadingInv
  <2>1. \A c \in Members : mMails[c] \subseteq mMails[b]
    <3> SUFFICES ASSUME NEW c \in Members, NEW m \in mMails[c]
                 PROVE  m \in mMails[b]
      OBVIOUS
    <3>1. PICK r \in mProcessedDigests[c] : r.mail = m
      BY <2>0 DEF MailsRead
    <3>2. r \in mProcessedDigests[b]
      BY <1>1, AllAreRead
    <3> QED
      BY <1>1, <2>0, <3>1, <3>2 DEF ReadIsOnBoard, AtRest
  <2>2. mMails[b] = Posted
    BY <2>1 DEF Posted
  <2>3. \A m \in mMails[b] : Parent[m] \in mMails[b] \cup {NoMail}
    <3> SUFFICES ASSUME NEW m \in mMails[b], Parent[m] # NoMail
                 PROVE  Parent[m] \in mMails[b]
      OBVIOUS
    <3>1. PICK c \in Members : Parent[m] \in mMails[c] \cup appending[c]
      BY <2>0 DEF MailsRead, Got
    <3> QED
      BY <1>1, <2>1, <3>1 DEF AtRest
  <2>4. /\ GoodBoard(OwnBoard(b)) /\ OwnBoard(b).listing = mListing[b]
        /\ OwnBoard(b).mails = mMails[b] /\ mListing[b] \in Seq(Mails)
    BY <2>0 DEF Showing, OwnBoard
  <2>5. DOMAIN mListing[b] = 1 .. Len(mListing[b])
    BY <2>4, LenProperties
  <2>6. /\ \A i \in 1 .. Len(mListing[b]) : mListing[b][i] \in mMails[b]
        /\ \A m \in mMails[b] : \E i \in 1 .. Len(mListing[b]) : mListing[b][i] = m
    BY <2>3, <2>4 DEF GoodBoard
  <2> QED
    BY <2>2, <2>5, <2>6 DEF ToSet
<1>2. ConvergingInv => (AtRest /\ restarted = {} /\ (\A b \in Members : missed[b] = {})
                          => \A b \in Members : ToSet(mListing[b]) = Posted)
  BY <1>1 DEF Undisturbed
<1> QED
  BY <1>2, ConvergingInit, ConvergingKept, PTL DEF BoardSpec

\* A fetch fails only for want of a link: whatever a board fetches is stored by
\* some node, as nobody names or announces what it has not got.  Where all are
\* linked, no resource is out of reach, also after restarts.
THEOREM LinkedCanFetch ==
  BoardSpec => [](linked = Pairs => \A b \in Members : \A r \in fetching[b] : CanFetch(b, r))
<1>1. ReadingInv => (linked = Pairs => \A b \in Members : \A r \in fetching[b] : CanFetch(b, r))
  <2> SUFFICES ASSUME ReadingInv, linked = Pairs, NEW b \in Members, NEW r \in fetching[b]
               PROVE  CanFetch(b, r)
    OBVIOUS
  <2>1. PICK a \in Members : r \in stored[a]
    BY DEF ReadingInv, FilledFrom
  <2>2. a = b \/ <<a, b>> \in Pairs
    BY DEF Pairs
  <2> QED
    BY <2>1, <2>2 DEF CanFetch
<1> QED
  BY <1>1, ReadingInvInit, ReadingInvKept, PTL DEF BoardSpec

-----------------------------------------------------------------------------
(* The thread pool.                                                        *)

\* The workers in a state are finitely many.
LEMMA InIsFinite ==
  ASSUME NEW state
  PROVE  IsFiniteSet(In(state)) /\ Cardinality(In(state)) \in Nat
<1>1. In(state) \subseteq Workers /\ IsFiniteSet(Workers)
  BY PoolAssumption DEF In
<1> QED
  BY <1>1, FS_Subset, FS_CardinalityType

\* A worker that becomes ready is counted.
LEMMA OneMoreReady ==
  ASSUME PoolTypeOK, NEW w \in Workers, worker[w] # "ready",
         worker' = [worker EXCEPT ![w] = "ready"]
  PROVE  /\ In("ready")' = In("ready") \cup {w}
         /\ Cardinality(In("ready"))' = Cardinality(In("ready")) + 1
<1>1. In("ready")' = In("ready") \cup {w} /\ w \notin In("ready")
  BY DEF In, PoolTypeOK
<1>2. Cardinality(In("ready") \cup {w}) = Cardinality(In("ready")) + 1
  BY <1>1, InIsFinite, FS_AddElement
<1> QED
  BY <1>1, <1>2

\* A ready worker that goes on with anything else is not.
LEMMA OneLessReady ==
  ASSUME PoolTypeOK, NEW w \in Workers, worker[w] = "ready",
         NEW state, state # "ready", worker' = [worker EXCEPT ![w] = state]
  PROVE  Cardinality(In("ready"))' = Cardinality(In("ready")) - 1
<1>1. In("ready")' = In("ready") \ {w} /\ w \in In("ready")
  BY DEF In, PoolTypeOK
<1>2. Cardinality(In("ready") \ {w}) = Cardinality(In("ready")) - 1
  BY <1>1, InIsFinite, FS_RemoveElement
<1> QED
  BY <1>1, <1>2

\* What notify_one does to the workers.
LEMMA NotifyOneTyped ==
  ASSUME PoolTypeOK, NotifyOne
  PROVE  /\ worker' \in [Workers -> WorkerStates]
         /\ \A w \in Workers : worker'[w] = "running" <=> worker[w] = "running"
<1>1. CASE In("asleep") = {} /\ UNCHANGED worker
  BY <1>1 DEF PoolTypeOK
<1>2. CASE \E w \in In("asleep") : worker' = [worker EXCEPT ![w] = "ready"]
  <2>1. PICK w \in In("asleep") : worker' = [worker EXCEPT ![w] = "ready"]
    BY <1>2
  <2> QED
    BY <2>1 DEF PoolTypeOK, In, WorkerStates
<1> QED
  BY <1>1, <1>2 DEF NotifyOne

LEMMA InitTyped == PoolInit => PoolTypeOK
<1> SUFFICES ASSUME PoolInit PROVE PoolTypeOK
  OBVIOUS
<1>1. tasks \in Seq(Tasks)
  BY EmptySeq DEF PoolInit
<1> QED
  BY <1>1, PoolAssumption DEF PoolInit, PoolTypeOK, WorkerStates

LEMMA NextTyped == PoolTypeOK /\ [PoolNext]_poolVars => PoolTypeOK'
<1> SUFFICES ASSUME PoolTypeOK, [PoolNext]_poolVars PROVE PoolTypeOK'
  OBVIOUS
<1>1. ASSUME NEW t \in Tasks, Enqueue(t) PROVE PoolTypeOK'
  <2>1. tasks' \in Seq(Tasks)
    BY <1>1, AppendProperties DEF Enqueue, PoolTypeOK
  <2> QED
    BY <1>1, <2>1, NotifyOneTyped DEF Enqueue, PoolTypeOK
<1>2. ASSUME NEW w \in Workers, Take(w) PROVE PoolTypeOK'
  <2>1. Head(tasks) \in Tasks /\ tasks' \in Seq(Tasks)
    BY <1>2, HeadTailProperties DEF Take, PoolTypeOK
  <2>2. Head(tasks) # NoTask
    BY <2>1, PoolAssumption
  <2> QED
    BY <1>2, <2>1, <2>2 DEF Take, PoolTypeOK, WorkerStates
<1>3. ASSUME NEW w \in Workers, Leave(w) \/ Sleep(w) \/ WakeSpuriously(w)
      PROVE  PoolTypeOK'
  BY <1>3 DEF Leave, Sleep, WakeSpuriously, PoolTypeOK, WorkerStates
<1>4. ASSUME NEW w \in Workers, Finish(w) PROVE PoolTypeOK'
  BY <1>4 DEF Finish, PoolTypeOK, WorkerStates
<1>5. CASE Join \/ Destroy \/ Joined
  BY <1>5 DEF Join, Destroy, Joined, PoolTypeOK
<1>6. CASE Clear
  BY <1>6, EmptySeq DEF Clear, PoolTypeOK
<1>7. CASE UNCHANGED poolVars
  BY <1>7 DEF poolVars, PoolTypeOK
<1> QED
  BY <1>1, <1>2, <1>3, <1>4, <1>5, <1>6, <1>7
     DEF PoolNext, WorkerStep, CloserStep

\* The queue holds tasks, and exactly the running workers hold one, in a pool
\* of any size (threadpool.hpp:63-92).
THEOREM PoolTypeCorrect == PoolSpec => []PoolTypeOK
BY InitTyped, NextTyped, PTL DEF PoolSpec

LEMMA InitAwake == PoolInit => NoLostWakeup
<1> SUFFICES ASSUME PoolInit PROVE In("asleep") = {}
  BY DEF NoLostWakeup
<1> QED
  BY DEF PoolInit, In

\* Each step keeps the queue no longer than the workers on their way to it,
\* unless all workers are awake: a notification adds a worker to them, a
\* worker takes a task with it, and sleeps or leaves only from an empty queue.
LEMMA NextAwake ==
  PoolTypeOK /\ NoLostWakeup /\ [PoolNext]_poolVars => NoLostWakeup'
<1> SUFFICES ASSUME PoolTypeOK, NoLostWakeup, [PoolNext]_poolVars,
                    In("asleep")' # {}
             PROVE  Len(tasks)' <= Cardinality(In("ready"))'
  BY DEF NoLostWakeup
<1> USE InIsFinite DEF PoolTypeOK
<1>0. Len(tasks) \in Nat
  BY LenProperties
<1>1. ASSUME NEW t \in Tasks, Enqueue(t)
      PROVE  Len(tasks)' <= Cardinality(In("ready"))'
  <2>1. Len(tasks') = Len(tasks) + 1
    BY <1>1, AppendProperties DEF Enqueue
  <2>2. In("asleep") # {}
    BY <1>1 DEF Enqueue, NotifyOne, In
  <2>3. PICK w \in In("asleep") : worker' = [worker EXCEPT ![w] = "ready"]
    BY <1>1, <2>2 DEF Enqueue, NotifyOne
  <2>4. Cardinality(In("ready"))' = Cardinality(In("ready")) + 1
    BY <2>3, OneMoreReady DEF In
  <2> QED
    BY <1>0, <2>1, <2>2, <2>4 DEF NoLostWakeup
<1>2. ASSUME NEW w \in Workers, Take(w)
      PROVE  Len(tasks)' <= Cardinality(In("ready"))'
  <2>1. Len(tasks') = Len(tasks) - 1
    BY <1>2, HeadTailProperties DEF Take
  <2>2. Cardinality(In("ready"))' = Cardinality(In("ready")) - 1
    BY <1>2, OneLessReady DEF Take
  <2>3. In("asleep") # {}
    BY <1>2 DEF Take, In
  <2> QED
    BY <1>0, <2>1, <2>2, <2>3 DEF NoLostWakeup
<1>3. ASSUME NEW w \in Workers, Leave(w) \/ Sleep(w)
      PROVE  Len(tasks)' <= Cardinality(In("ready"))'
  <2>1. Len(tasks') = 0
    BY <1>3, EmptySeq DEF Leave, Sleep
  <2>2. Cardinality(In("ready"))' \in Nat
    <3>1. In("ready")' \subseteq Workers
      BY DEF In
    <3> QED
      BY <3>1, PoolAssumption, FS_Subset, FS_CardinalityType
  <2> QED
    BY <2>1, <2>2
<1>4. ASSUME NEW w \in Workers, WakeSpuriously(w) \/ Finish(w)
      PROVE  Len(tasks)' <= Cardinality(In("ready"))'
  <2>1. Cardinality(In("ready"))' = Cardinality(In("ready")) + 1
    BY <1>4, OneMoreReady DEF WakeSpuriously, Finish
  <2>2. In("asleep") # {} /\ tasks' = tasks
    BY <1>4 DEF WakeSpuriously, Finish, In
  <2> QED
    BY <1>0, <2>1, <2>2 DEF NoLostWakeup
<1>5. CASE Clear
  <2>1. Len(tasks') = 0 /\ In("ready")' = In("ready")
    BY <1>5, EmptySeq DEF Clear, In
  <2> QED
    BY <2>1
<1>6. CASE Join \/ Destroy \/ Joined \/ UNCHANGED poolVars
  BY <1>6 DEF Join, Destroy, Joined, poolVars, NoLostWakeup, In
<1> QED
  BY <1>1, <1>2, <1>3, <1>4, <1>5, <1>6 DEF PoolNext, WorkerStep, CloserStep

\* No lost wake-up, for any number of workers: as long as one sleeps, every
\* queued task has another on its way to it, though notify_one
\* (threadpool.hpp:119) chooses whom it wakes and workers wake by themselves.
THEOREM NeverLeftBehind == PoolSpec => []NoLostWakeup
BY PoolTypeCorrect, InitTyped, NextTyped, InitAwake, NextAwake, PTL DEF PoolSpec

-----------------------------------------------------------------------------
(* The run of module MCNetwork: one of the five components plays, and the  *)
(* others are off.                                                         *)

LEMMA PoolOffOK == PoolOff => PoolTypeOK /\ NoLostWakeup
<1> SUFFICES ASSUME PoolOff PROVE PoolTypeOK /\ NoLostWakeup
  OBVIOUS
<1>1. PoolTypeOK
  BY EmptySeq DEF PoolOff, PoolTypeOK, WorkerStates
<1>2. In("asleep") = {}
  BY DEF PoolOff, In
<1> QED
  BY <1>1, <1>2 DEF NoLostWakeup

LEMMA CallsOffOK == CallsOff => CallsInv
<1> SUFFICES ASSUME CallsOff PROVE CallsInv
  OBVIOUS
<1>1. CallsTypeOK
  BY CallsNumbers, EmptySeq DEF CallsOff, CallsTypeOK
<1>2. Redundantly(BlockRank) >= 0 /\ BlockRank + AtMost(BlockRank, Redundant) >= 0
  BY CallsNumbers DEF Redundantly, AtLeast, AtMost
<1> QED
  BY <1>1, <1>2 DEF CallsOff, CallsInv, TokensAreBounded

LEMMA BoardOffOK == BoardOff => ReadingInv
<1> SUFFICES ASSUME BoardOff PROVE Blank
  BY BlankIsRead
<1>1. {MaxCuts, MaxRestarts, MaxExpiries, MaxFailures} \subseteq Nat
  BY BoardAssumption
<1>2. Linking
  <2>1. /\ linked = Pairs /\ subscribed = Pairs /\ drafts = {} /\ restarted = {}
        /\ cuts = 0 /\ restarts = 0 /\ expiries = 0 /\ failures = 0
    BY DEF BoardOff
  <2>2. /\ cuts \in 0 .. MaxCuts /\ restarts \in 0 .. MaxRestarts
        /\ expiries \in 0 .. MaxExpiries /\ failures \in 0 .. MaxFailures
    BY <1>1, <2>1
  <2> QED
    BY <2>1, <2>2 DEF Linking
<1> QED
  BY <1>2 DEF BoardOff, Blank

\* A step of one component is a step of each, as the others stutter.
LEMMA NetworkSteps ==
  ASSUME [NetworkNext]_networkVars
  PROVE  /\ [PoolNext]_poolVars /\ [Next]_vars /\ [TunnelsNext]_tunnelVars
         /\ [CallsNext]_callsVars /\ [BoardNext]_boardVars
BY DEF NetworkNext, networkVars

\* The invariants of the components, each inductive on its own.
NetworkInv ==
  PoolTypeOK /\ NoLostWakeup /\ TunnelsInv /\ CallsInv /\ ReadingInv

LEMMA NetworkInitOK == NetworkInit => NetworkInv
<1>1. PoolInit => PoolTypeOK /\ NoLostWakeup
  BY InitTyped, InitAwake
<1>2. TunnelsInit \/ TunnelsOff => TunnelsInv
  BY TunnelsInitOK DEF TunnelsOff
<1>3. CallsOn => CallsInv
  BY CallsInitOK DEF CallsOn
<1>4. BoardOn => ReadingInv
  BY ReadingInvInit DEF BoardOn
<1> QED
  BY <1>1, <1>2, <1>3, <1>4, PoolOffOK, CallsOffOK, BoardOffOK DEF NetworkInit, NetworkInv

LEMMA NetworkKept == NetworkInv /\ [NetworkNext]_networkVars => NetworkInv'
<1> SUFFICES ASSUME NetworkInv, [NetworkNext]_networkVars PROVE NetworkInv'
  OBVIOUS
<1>1. PoolTypeOK' /\ NoLostWakeup'
  BY NetworkSteps, NextTyped, NextAwake DEF NetworkInv
<1>2. TunnelsInv' /\ CallsInv' /\ ReadingInv'
  BY NetworkSteps, TunnelsKept, CallsKept, ReadingInvKept DEF NetworkInv
<1> QED
  BY <1>1, <1>2 DEF NetworkInv

\* NetworkTypeOK: the pool, the tunnels, the calls and the boards stay
\* well-formed beside each other and beside a flow (network.cpp:539-574, :2035,
\* :2499, threadpool.hpp:63-92).
THEOREM NetworkTyped == NetworkSpec => []NetworkTypeOK
<1>1. NetworkInv => NetworkTypeOK
  BY BoardIsTyped DEF NetworkInv, NetworkTypeOK, TunnelsInv, CallsInv
<1> QED
  BY <1>1, NetworkInitOK, NetworkKept, PTL DEF NetworkSpec

\* Every other invariant that the run of MCNetwork checks, for any number of
\* workers, tunnels, providers, threads, boards and mails, and whatever goes wrong:
\* handshakes with the wrong peer, messages and links lost, values deleted, nodes
\* restarted and resources that cannot be read.
THEOREM NetworkIsCorrect ==
  NetworkSpec => [](/\ NoLostWakeup /\ PendingIsShaking
                    /\ HeadsCoverAll /\ MailsAreKept /\ AnswersFollow)
<1>1. NetworkInv => /\ NoLostWakeup /\ PendingIsShaking
                    /\ HeadsCoverAll /\ MailsAreKept /\ AnswersFollow
  BY HeadsCover, WrittenIsKept, ShownInOrder DEF NetworkInv, TunnelsInv
<1> QED
  BY <1>1, NetworkInitOK, NetworkKept, PTL DEF NetworkSpec
=============================================================================
