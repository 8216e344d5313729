------------------------------- MODULE Board --------------------------------
(***************************************************************************)
(* The message boards (src/tpn/board.cpp) and how the publishers and       *)
(* subscribers of the network (src/tpn/network.cpp) spread them.  A board  *)
(* is a graph of resources: each holds a mail and names the heads of the   *)
(* graph its author knew.  A board announces its heads; one that hears of  *)
(* a resource fetches it, then what it names, and so on.                   *)
(*                                                                         *)
(* One board per node, the same on all, with one board merged from it (that*)
(* of the user).  A resource is its content, as its digest is that of the  *)
(* content.  The nodes are linked two by two; a link delivers messages in  *)
(* order and loses those in flight when it goes down (modules Flow and     *)
(* ReliableStream).                                                        *)
(***************************************************************************)
EXTENDS Naturals, Sequences, FiniteSets, SequencesExt

CONSTANTS
  Members,      \* the nodes with a copy of the board
  Author,       \* who writes each mail
  Parent,       \* the mail each mail answers, or NoMail
  NoMail,
  MaxCuts,      \* bound on the losses of a link
  MaxRestarts,  \* bound on the restarts of a node
  MaxExpiries,  \* bound on the deletions of old values
  MaxFailures   \* bound on the resources whose reading fails

Mails == DOMAIN Author

\* The interface offers to answer only mails that have no parent
\* (static/mail.js).
ASSUME BoardAssumption ==
  /\ NoMail \notin Mails
  /\ Author \in [Mails -> Members] /\ Parent \in [Mails -> Mails \cup {NoMail}]
  /\ \A m \in Mails : Parent[m] # NoMail => Parent[Parent[m]] = NoMail
  /\ {MaxCuts, MaxRestarts, MaxExpiries, MaxFailures} \subseteq Nat

VARIABLES
  mDigests, mPreviousDigests, mProcessedDigests,
  mMails,       \* the mails a board has
  mListing,     \* what it shows, in order
  merged,       \* what the board merged from it has and shows
  stored,       \* the resources a node has in its cache
  values,       \* the digests it knows of by the name of the board, kept on disk
  permanent,    \* those of them that do not expire
  fetching,     \* the resources passed to incoming, or in a task of fetch
  appending,    \* the mails read from a resource and not yet appended
  heard,        \* the mails among those digests, that came by themselves
  threads,      \* the callers of add, on their way to publish or issue
  linked,       \* the links: pairs of nodes, both ways
  subscribed,   \* the pairs <<a, b>>: a has a RemoteSubscriber for b
  channel,      \* the messages from a to b
  drafts,       \* the mails that may be written; it never changes
  cuts, restarts, expiries, failures, \* how much may still go wrong
  missed,       \* what a node has failed to fetch or to read since it started (history)
  written,      \* the mails that a node has added itself (history)
  restarted     \* the nodes that were started again (history)

memory == <<mDigests, mPreviousDigests, mProcessedDigests, mMails, mListing, merged>>
kept == <<permanent, written>>
links == <<linked, subscribed>>
faultVars == <<cuts, restarts, expiries, failures, missed, restarted>>
boardVars == <<memory, stored, values, kept, heard, fetching, appending, threads, links, channel,
               drafts, faultVars>>

Pairs == {p \in Members \X Members : p[1] # p[2]}
Posted == UNION {mMails[b] : b \in Members}

NoBoard == [mails |-> {}, listing |-> << >>]

BoardInit ==
  /\ mDigests = [b \in Members |-> {}]
  /\ mPreviousDigests = [b \in Members |-> {}]
  /\ mProcessedDigests = [b \in Members |-> {}]
  /\ mMails = [b \in Members |-> {}]
  /\ mListing = [b \in Members |-> << >>]
  /\ merged = [b \in Members |-> NoBoard]
  /\ stored = [b \in Members |-> {}]
  /\ values = [b \in Members |-> {}]
  /\ permanent = [b \in Members |-> {}]
  /\ written = [b \in Members |-> {}]
  /\ fetching = [b \in Members |-> {}]
  /\ appending = [b \in Members |-> {}]
  /\ heard = [b \in Members |-> {}]
  /\ threads = [b \in Members |-> {}]
  /\ linked = {}
  /\ subscribed = {}
  /\ channel = [p \in Pairs |-> << >>]
  /\ drafts \in SUBSET Mails
  /\ cuts \in 0 .. MaxCuts
  /\ restarts \in 0 .. MaxRestarts
  /\ expiries \in 0 .. MaxExpiries
  /\ failures \in 0 .. MaxFailures
  /\ missed = [b \in Members |-> {}]
  /\ restarted = {}

-----------------------------------------------------------------------------
(* appendMail, on a board [mails, listing].                                *)

\* The orphans of a mail: the answers that came before it.
Orphans(board, m) == {r \in board.mails : Parent[r] = m}

\* Shown at once are a mail without a parent, with its orphans, and one whose
\* parent is there.
Shown(board, m) ==
  IF Parent[m] = NoMail THEN {<<m>> \o SetToSeq(Orphans(board, m))}
  ELSE {IF Parent[m] \in board.mails THEN <<m>> ELSE << >>}

\* MUTANT of AppendTo: a mail is not looked for before it is listed.
AppendTwice(board, m) ==
  {[mails |-> board.mails \cup {m}, listing |-> board.listing \o shown] : shown \in Shown(board, m)}

AppendTo(board, m) ==
  IF m \in board.mails THEN {board}
  ELSE {[mails |-> board.mails \cup {m}, listing |-> board.listing \o shown] :
          shown \in Shown(board, m)}

\* The merged board is passed the mail if it is shown; the orphans that are
\* adopted with it are not passed.
AppendMail(b, m) ==
  /\ \E board \in AppendTo([mails |-> mMails[b], listing |-> mListing[b]], m) :
       /\ mMails' = [mMails EXCEPT ![b] = board.mails]
       /\ mListing' = [mListing EXCEPT ![b] = board.listing]
  /\ IF m \notin mMails[b] /\ Parent[m] \in mMails[b] \cup {NoMail}
     THEN \E board \in AppendTo(merged[b], m) : merged' = [merged EXCEPT ![b] = board]
     ELSE UNCHANGED merged

-----------------------------------------------------------------------------
(* Writing.                                                                *)

\* A thread that has added a mail, and goes on to publish; that of post then
\* issues the mail.
Publisher(m, issues) == [step |-> "publish", issues |-> issues, mail |-> m]

\* add, under mMutex: the resource takes the place of all the heads, and those of
\* its digests that last are never deleted.
AddResource(b, resource, lasting, after) ==
  /\ AppendMail(b, resource.mail)
  /\ stored' = [stored EXCEPT ![b] = @ \cup {resource}]
  /\ values' = [values EXCEPT ![b] = @ \cup {resource}]
  /\ permanent' = [permanent EXCEPT ![b] = @ \cup lasting]
  /\ written' = [written EXCEPT ![b] = @ \cup {resource.mail}]
  /\ mPreviousDigests' = [mPreviousDigests EXCEPT ![b] = @ \cup mDigests[b]]
  /\ mDigests' = [mDigests EXCEPT ![b] = {resource}]
  /\ mProcessedDigests' = [mProcessedDigests EXCEPT ![b] = @ \cup {resource}]
  /\ threads' = [threads EXCEPT ![b] = after]

\* MUTANTS of Add: the heads are not chained; the digest is stored with the type
\* storeValue has by default, which expires.
AddUnchained(b, m, after) ==
  LET resource == [mail |-> m, previous |-> {}] IN AddResource(b, resource, {resource}, after)
AddTemporary(b, m, after) ==
  AddResource(b, [mail |-> m, previous |-> mDigests[b]], {}, after)

\* The resource holds the mail and names all the heads.
Add(b, m, after) ==
  LET resource == [mail |-> m, previous |-> mDigests[b]]
  IN  AddResource(b, resource, {resource}, after)

\* A node's user writes one mail at a time, and never the same again: the time is
\* part of it.
Post(b, m) ==
  /\ threads[b] = {}
  /\ m \in drafts /\ Author[m] = b /\ m \notin written[b]
  /\ Parent[m] # NoMail => Parent[m] \in ToSet(mListing[b])
  /\ Add(b, m, threads[b] \cup {Publisher(m, TRUE)})
  /\ UNCHANGED <<heard, fetching, appending, links, channel, drafts, faultVars>>

Subscribers(b) == {p \in subscribed : p[1] = b}
Send(pairs, message) ==
  channel' = [p \in Pairs |-> IF p \in pairs THEN Append(channel[p], message) ELSE channel[p]]

Targets(heads) == [type |-> "publish", targets |-> heads, mails |-> {}]
Message(m) == [type |-> "publish", targets |-> {}, mails |-> {m}]
Subscription == [type |-> "subscribe", targets |-> {}, mails |-> {}]

\* publish, once mMutex is released: the heads of that moment are announced.
Publish(b, t) ==
  /\ t \in threads[b] /\ t.step = "publish"
  /\ Send(Subscribers(b), Targets(mDigests[b]))
  /\ threads' = [threads EXCEPT ![b] =
       (@ \ {t}) \cup IF t.issues THEN {[t EXCEPT !.step = "issue"]} ELSE {}]
  /\ UNCHANGED <<memory, stored, values, kept, heard, fetching, appending, links, drafts,
                 faultVars>>

\* post then issues the mail, to the subscribers and to the board itself, which
\* adds it once more.
Issue(b, t) ==
  /\ t \in threads[b] /\ t.step = "issue"
  /\ Send(Subscribers(b), Message(t.mail))
  /\ Add(b, t.mail, (threads[b] \ {t}) \cup {Publisher(t.mail, FALSE)})
  /\ UNCHANGED <<heard, fetching, appending, links, drafts, faultVars>>

-----------------------------------------------------------------------------
(* Reading.                                                                *)

\* MUTANT of ReceiveTargets: the digests are kept and nothing is fetched.
RememberTargets(b, targets) ==
  /\ values' = [values EXCEPT ![b] = @ \cup targets]
  /\ UNCHANGED <<fetching, memory, stored, kept, heard, threads>>

\* incoming "publish" of the network: if one target is new, all are passed on.
ReceiveTargets(b, targets) ==
  /\ values' = [values EXCEPT ![b] = @ \cup targets]
  /\ fetching' = [fetching EXCEPT ![b] = IF targets \subseteq values[b] THEN @ ELSE @ \cup targets]
  /\ UNCHANGED <<memory, stored, kept, heard, threads>>

\* A mail that has not come before is added here too.
ReceiveMail(b, m) ==
  /\ heard' = [heard EXCEPT ![b] = @ \cup {m}]
  /\ IF m \in heard[b] THEN UNCHANGED <<memory, stored, values, kept, threads>>
     ELSE Add(b, m, threads[b] \cup {Publisher(m, FALSE)})
  /\ UNCHANGED fetching

\* The first "subscribe" of a link is answered with the heads, if there are any.
ReceivePublish(a, b, message) ==
  /\ message.type = "publish"
  /\ channel' = [channel EXCEPT ![<<a, b>>] = Tail(@)]
  /\ \/ message.mails = {} /\ ReceiveTargets(b, message.targets)
     \/ \E m \in message.mails : ReceiveMail(b, m)
  /\ UNCHANGED subscribed

ReceiveSubscribe(a, b, message) ==
  /\ message.type = "subscribe"
  /\ subscribed' = subscribed \cup {<<b, a>>}
  /\ channel' = [channel EXCEPT
       ![<<a, b>>] = Tail(@),
       ![<<b, a>>] = IF <<b, a>> \in subscribed \/ mDigests[b] = {} THEN @
                     ELSE Append(@, Targets(mDigests[b]))]
  /\ UNCHANGED <<memory, stored, values, kept, heard, fetching, threads>>

Deliver(a, b) ==
  /\ <<a, b>> \in Pairs /\ channel[<<a, b>>] # << >>
  /\ LET message == Head(channel[<<a, b>>])
     IN  ReceivePublish(a, b, message) \/ ReceiveSubscribe(a, b, message)
  /\ UNCHANGED <<appending, linked, drafts, faultVars>>

CanFetch(b, r) ==
  r \in stored[b] \/ \E a \in Members : <<a, b>> \in linked /\ r \in stored[a]

\* The resource is a head unless another names it, and those it names are not.
Chain(b, r, named) ==
  /\ mDigests' = [mDigests EXCEPT ![b] =
       (@ \cup IF r \in mPreviousDigests[b] THEN {} ELSE {r}) \ named]
  /\ mPreviousDigests' = [mPreviousDigests EXCEPT ![b] = @ \cup named]

\* Those it names that are not in the cache are fetched; those that are there are
\* left alone.
Fetch(b, r, named) ==
  fetching' = [fetching EXCEPT ![b] = (@ \cup (named \ stored[b])) \ {r}]

\* incoming, under mMutex, with the content at hand.
Incoming(b, r) ==
  /\ r \in fetching[b] /\ CanFetch(b, r)
  /\ stored' = [stored EXCEPT ![b] = @ \cup {r}]
  /\ IF r \in mProcessedDigests[b]
     THEN /\ Fetch(b, r, {})
          /\ UNCHANGED <<mDigests, mPreviousDigests, mProcessedDigests, appending>>
     ELSE /\ Chain(b, r, r.previous)
          /\ mProcessedDigests' = [mProcessedDigests EXCEPT ![b] = @ \cup {r}]
          /\ Fetch(b, r, r.previous)
          /\ appending' = [appending EXCEPT ![b] = @ \cup {r.mail}]
  /\ UNCHANGED <<mMails, mListing, merged, values, kept, heard, threads, links, channel,
                 drafts, faultVars>>

\* incoming throws: fetch, at one of those it names, or the reader, of a content
\* that it cannot decrypt or parse.  What is chained by then stays: r is a head,
\* unless another names it, although it is not read.
ReadFails(b, r) ==
  /\ r \in fetching[b] /\ CanFetch(b, r) /\ r \notin mProcessedDigests[b]
  /\ failures > 0 /\ failures' = failures - 1
  /\ \/ Chain(b, r, r.previous) /\ Fetch(b, r, r.previous)
     \/ \E named \in SUBSET r.previous : \E last \in named :
          Chain(b, r, named) /\ Fetch(b, r, named \ {last})
  /\ stored' = [stored EXCEPT ![b] = @ \cup {r}]
  /\ missed' = [missed EXCEPT ![b] = @ \cup {r}]
  /\ UNCHANGED <<mProcessedDigests, mMails, mListing, merged, values, kept, heard, appending,
                 threads, links, channel, drafts, cuts, restarts, expiries, restarted>>

\* The mails are appended without the mutex, one at a time here.
AppendRead(b, m) ==
  /\ m \in appending[b]
  /\ AppendMail(b, m)
  /\ appending' = [appending EXCEPT ![b] = @ \ {m}]
  /\ UNCHANGED <<mDigests, mPreviousDigests, mProcessedDigests, stored, values, kept, heard,
                 fetching, threads, links, channel, drafts, faultVars>>

\* A fetch that fails is not tried again.
FetchFails(b, r) ==
  /\ r \in fetching[b] /\ ~CanFetch(b, r)
  /\ fetching' = [fetching EXCEPT ![b] = @ \ {r}]
  /\ missed' = [missed EXCEPT ![b] = @ \cup {r}]
  /\ UNCHANGED <<memory, stored, values, kept, heard, appending, threads, links, channel, drafts,
                 cuts, restarts, expiries, failures, restarted>>

\* Store::run deletes old values, except the permanent ones: what others sent is
\* new again when it comes again.
Expire(b) ==
  /\ expiries > 0 /\ expiries' = expiries - 1
  /\ \E old \in SUBSET (values[b] \ permanent[b]), mails \in SUBSET heard[b] :
       /\ values' = [values EXCEPT ![b] = @ \ old]
       /\ heard' = [heard EXCEPT ![b] = @ \ mails]
  /\ UNCHANGED <<memory, stored, kept, fetching, appending, threads, links, channel, drafts,
                 cuts, restarts, failures, missed, restarted>>

-----------------------------------------------------------------------------
(* Links and nodes that come and go.                                       *)

BothWays(a, b) == {<<a, b>>, <<b, a>>}

\* registerHandler, at both ends: the board is subscribed to.
Link(a, b) ==
  /\ <<a, b>> \in Pairs \ linked
  /\ linked' = linked \cup BothWays(a, b)
  /\ Send(BothWays(a, b), Subscription)
  /\ UNCHANGED <<memory, stored, values, kept, heard, fetching, appending, threads, subscribed,
                 drafts, faultVars>>

\* unregisterHandler, at both ends: mRemoteSubscribers forgets the link.
Drop(pairs) ==
  /\ linked' = linked \ pairs
  /\ subscribed' = subscribed \ pairs
  /\ channel' = [p \in Pairs |-> IF p \in pairs THEN << >> ELSE channel[p]]

Cut(a, b) ==
  /\ <<a, b>> \in linked /\ cuts > 0
  /\ cuts' = cuts - 1
  /\ Drop(BothWays(a, b))
  /\ UNCHANGED <<memory, stored, values, kept, heard, fetching, appending, threads, drafts,
                 restarts, expiries, failures, missed, restarted>>

\* A node stops, and starts with what is on its disk: the constructor of the
\* board passes the digests it knows to incoming.  What they name is in the
\* cache and is not read again, unless its digest is known too.
Restart(b) ==
  /\ restarts > 0 /\ restarts' = restarts - 1
  /\ restarted' = restarted \cup {b}
  /\ mDigests' = [mDigests EXCEPT ![b] = {}]
  /\ mPreviousDigests' = [mPreviousDigests EXCEPT ![b] = {}]
  /\ mProcessedDigests' = [mProcessedDigests EXCEPT ![b] = {}]
  /\ mMails' = [mMails EXCEPT ![b] = {}]
  /\ mListing' = [mListing EXCEPT ![b] = << >>]
  /\ merged' = [merged EXCEPT ![b] = NoBoard]
  /\ fetching' = [fetching EXCEPT ![b] = values[b]]
  /\ appending' = [appending EXCEPT ![b] = {}]
  /\ threads' = [threads EXCEPT ![b] = {}]
  /\ missed' = [missed EXCEPT ![b] = {}]
  /\ Drop({p \in Pairs : b \in {p[1], p[2]}})
  /\ UNCHANGED <<stored, values, kept, heard, drafts, cuts, expiries, failures>>

-----------------------------------------------------------------------------
ThreadStep(b) == \E t \in threads[b] : Publish(b, t) \/ Issue(b, t)
ReadStep(b) ==
  \/ \E r \in fetching[b] : Incoming(b, r)
  \/ \E m \in appending[b] : AppendRead(b, m)

BoardNext ==
  \/ \E b \in Members : ThreadStep(b) \/ ReadStep(b) \/ Restart(b) \/ Expire(b)
  \/ \E b \in Members, m \in Mails : Post(b, m)
  \/ \E b \in Members : \E r \in fetching[b] : FetchFails(b, r) \/ ReadFails(b, r)
  \/ \E a, b \in Members : Deliver(a, b) \/ Link(a, b) \/ Cut(a, b)

\* Threads are scheduled, messages arrive, nodes are linked again.
BoardFairness ==
  /\ \A b \in Members : WF_boardVars(ThreadStep(b)) /\ WF_boardVars(ReadStep(b))
  /\ \A a, b \in Members : WF_boardVars(Deliver(a, b)) /\ WF_boardVars(Link(a, b))

BoardSpec == BoardInit /\ [][BoardNext]_boardVars /\ BoardFairness

-----------------------------------------------------------------------------
IsResource(r) == DOMAIN r = {"mail", "previous"} /\ r.mail \in Mails /\ IsFiniteSet(r.previous)

BoardTypeOK ==
  /\ \A b \in Members :
       \A r \in stored[b] \cup values[b] \cup fetching[b] \cup mPreviousDigests[b] \cup missed[b] :
         IsResource(r)
  /\ mDigests \in [Members -> SUBSET UNION {stored[b] : b \in Members}]
  /\ mMails \in [Members -> SUBSET Mails] /\ heard \in [Members -> SUBSET Mails]
  /\ appending \in [Members -> SUBSET Mails] /\ written \in [Members -> SUBSET Mails]
  /\ mListing \in [Members -> Seq(Mails)]
  /\ \A b \in Members : permanent[b] \subseteq values[b]
  /\ \A b \in Members : threads[b] \subseteq
       [step : {"publish", "issue"}, issues : BOOLEAN, mail : Mails]
  /\ linked \subseteq Pairs /\ subscribed \subseteq Pairs
  /\ cuts \in 0 .. MaxCuts /\ restarts \in 0 .. MaxRestarts
  /\ expiries \in 0 .. MaxExpiries /\ failures \in 0 .. MaxFailures
  /\ drafts \subseteq Mails /\ restarted \subseteq Members

\* What a board has been through: what it has read, and what it had at hand but
\* failed to read.
Tried(b) == mProcessedDigests[b] \cup (missed[b] \cap stored[b])

\* What a board announces leads to all it has been through since its node
\* started, so that those linked later get to hear of it: a head is a resource
\* in the cache, and any that is not a head is named by another.  It holds when
\* a resource is added between a fetch and its reading, comes before or after
\* those it names, is read again after a restart, or makes incoming throw half-way
\* (board.cpp:168-180, :264-275, :296).
HeadsCoverAll ==
  \A b \in Members :
    /\ mDigests[b] \subseteq Tried(b) /\ Tried(b) \subseteq stored[b]
    /\ \A r \in Tried(b) \ mDigests[b] : \E s \in Tried(b) : r \in s.previous

\* A node keeps the mails it has written or was sent by themselves, whatever
\* expires and however often it starts again: such a mail is on its board, or on
\* its way there, or in a resource it has failed to read (board.cpp:54-59, :174,
\* store.cpp:426).  Those that came in the resources of others it may lose: their
\* digests expire, and after a restart what they name is not read again.
MailsAreKept ==
  \A b \in Members : \A m \in written[b] :
    \/ m \in mMails[b] \cup appending[b]
    \/ \E r \in fetching[b] \cup missed[b] : r.mail = m

\* What a board shows, merged or not: every mail once, and an answer after the
\* mail it answers, whichever came first (board.cpp:191-232).
AnswersFollow ==
  \A b \in Members :
    \A shown \in {mListing[b], merged[b].listing} : \A i \in 1 .. Len(shown) :
      /\ \A j \in 1 .. i - 1 : shown[j] # shown[i]
      /\ Parent[shown[i]] # NoMail => \E j \in 1 .. i - 1 : shown[j] = Parent[shown[i]]

\* As long as no node restarts and all that is fetched is read, every board ends up with all
\* that was posted shown, whatever order the resources come in and however often
\* links are lost.
Converges ==
  []<>(\/ \A b \in Members : ToSet(mListing[b]) = Posted
       \/ restarted # {} \/ \E b \in Members : missed[b] # {})
=============================================================================
