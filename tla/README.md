# A verification development for Teapotnet

Teapotnet is a peer-to-peer program for sharing and messaging between people
who know each other. Nodes form an *overlay*, a distributed hash table over
TCP and UDP; users open encrypted *links* to each other through it; data moves
as *blocks*, named by their digest and sent with network coding, so that any
node that has a block can help to send it. This directory holds TLA+ models
of its core, the TLC configurations that check them on small instances, and
proofs that TLAPS checks for every instance. Paths are relative to the
repository, with `src/` in front as in `PROJECT.json`.

## 1. Inventory

| Component | State | Operations | Works with |
|---|---|---|---|
| Fountain code `tpn/fountain.*` | source: the unacknowledged components; sink: rows by pivot, next discovered/seen/decoded/read | write, generate, drop; solve, read, drop, dump, hash, clear | every flow and every block |
| Flow `Network::Handler` | one source and one sink, send budgets, alarms, `mMutex` | write, flush, send, recvCombination, readData, stop | a datagram stream, alarms, store (side channel) |
| Block store `tpn/store.*` | the map of sinks, the tables of blocks, files and values | push, pull, waitBlock, getBlock, notifyBlock, storeValue, run | network (push, Caller), cache, overlay |
| Cache `tpn/cache.*` | a directory of bounded size | freeSpace, move, prefetch | store |
| Blocks, callers `tpn/block.*`, `Network::Caller` | the file of a block; who asks for what | waitContent; (un)registerCaller | store, network |
| Thread pool `pla/threadpool.hpp` | queue of tasks, workers, `joining` | enqueue, clear, join | everything asynchronous |
| Scheduler, alarms `pla/scheduler.hpp`, `pla/alarm.hpp` | tasks by time, pending ids; the id of an alarm's last task | schedule, cancel, wait, clear, join | handlers, overlay, HTTP tunnel |
| Links, listeners `tpn/network.*` | handlers by link, links by node, listeners | connect, registerHandler, unregisterHandler, onConnected | tunneler, users, address book |
| Publish/subscribe `tpn/network.*` | publishers, subscribers, remote subscribers | publish, subscribe, advertise, match* | boards, requests, indexer |
| Calls, pusher `tpn/network.*` | callers by block, tokens by destination | directCall, fallbackCall, push, run | store, overlay |
| Tunneler `tpn/network.*` | pending nodes, tunnels by number | open, listen, handshake | overlay, links |
| Overlay `tpn/overlay.*` | handlers by node, addresses, pending retrievals | connect, route, send, store, retrieve | store, network |
| Boards, mails `tpn/board.*`, `tpn/mail.*` | heads of a chain of resources, mails, orphans | post, add, appendMail, anounce, incoming | publish/subscribe, store |
| Resources, indexer, requests | lists of blocks, an index of files, queries | process, notify, query | store, publish/subscribe |
| Address book, users | contacts, invitations, meeting points | invite, listen, connected | network |
| HTTP tunnel `tpn/httptunnel.*` | sessions, POST and download budgets | read, write, flush, close | overlay's transports |
| Port mapping, tracker | mappings, registrations with an expiry | refresh, announce, retrieve | overlay |
| Interface, HTML, config, database; sockets, serializers, HTTP, crypto | pages, options, wrappers of the system and of libraries | | |

How they interact:

- **Shared state between threads.** Reader threads of all links and of the
  overlay push to the store; every handler has a reader, writers and alarms on
  one mutex; alarms of all objects share one scheduler with four workers.
- **Messages.** Flows and overlay datagrams are lost and overtake each other.
- **Callbacks.** Alarms call back into the object that owns them, which also
  cancels, joins and destroys them; listeners, publishers and subscribers are
  called under the network's mutexes.
- **The file system and the database.** The cache removes files and then tells
  the store; several threads use one database without the store's mutex.

What is hard: steps of two threads in orders nobody tests (the sink of a block
is shared and outlives its entry in the map; an alarm's callback races with the
join of the alarm), two nodes that do the same at once (open a tunnel, connect
to each other), messages out of order or lost, restarts, liveness that hangs on
one notification or on a budget being granted, and ids or checks that are stale
when they are used. `PROJECT.json` lists these hazards at their lines, with the
properties that cover them.

## 2. Modules

```
Fountain ── Sink ─────────────┐              Store ── MCStore
   │                          │
   └── Flow ── MCFlow         │              Publishing ┐
         │  └ ReliableStream  │              Table      ├── MCSafety
         │    (abstract)      │              Retrieve   ┘      │
ThreadPool ── Scheduler ──────┼────────────────────────────────┘
   │              └───────────┴── MCNode ── Overlay, HttpTunnel
   └── MCNetwork ── Flow, Tunnels, Calls, Board       Overlay ── MCOverlay

proofs: FountainProofs ┬ SinkProofs ────┐
                       └ FlowProofs     ├─ OverlayProofs      ── MCNode
        SchedulerProofs ┬───────────────┘  (Overlay, HttpTunnel)
                        └─ DistributionProofs                 ── MCSafety
                           (Publishing, Table, Retrieve)
        NetworkProofs                                         ── MCNetwork
        (Tunnels, Calls, Board, ThreadPool)
        StoreProofs
```

`MCSafety`, `MCNode` and `MCNetwork` compose components that have no state in
common. A behaviour of theirs plays one component and the others are off (in a
final state), so that the states of the components add up instead of
multiplying. The proof module beside each composite, in the diagram, proves
what the run checks of it. Where one component relies on another (a board on the order of a
link's records, a link on its alarms), it is stated as what the other promises,
and checked of the other.

### Fountain, Sink: network coding (`tpn/fountain.cpp`)

`Fountain` is a library of operators, without variables. A combination is a
pair of vectors over a field: `comp`, the code's coefficients, and `data`, the
linear combination of chunks its data really is. The code keeps the two in step
by applying each row operation to both; in the model every operation does the
same, so `data # comp` is a corruption the properties can see. Addition,
multiplication and inverse are constants that satisfy `FieldAssumption` and `FieldLaws`; the
code's tables over GF(256) satisfy them, and the model checker uses the field of
four elements (`GF4`), the smallest in which a coefficient and its inverse
differ. `solve` is split into turns of its loops: eliminate, discard, insert,
substitute, descend, count. A chunk's 4 KiB are one symbol; the coded last
chunk, which the code recognises by a marker, is `LastChunk`.

`Sink` is the sink of a block: any combination a file source generates may
arrive at any time. `heard` is the span of what came in.

### Flow: a reliable stream over datagrams (`Network::Handler`)

Two ends, each with a source, a sink and the budgets of `send`. `lock` is
`mMutex` with the state of the `send` its holder is in, `reader` the reader's
place outside it: `drop` and `solve` run unlocked, so that every turn of solve
interleaves with the writers and the alarms, which read the sink's counters
(`Acknowledgements`) as they are. `Receive` is all of `recvCombination` up to
its call of `send`: the acknowledged chunks are dropped, the budgets granted.
Budgets are doubles in the code; the model counts tenths of a packet
(`DefaultRedundancy` 1.20 is 12) and rounds the additive increase down. The
windows are as small as the bounds need: `DefaultTokens`, `DefaultThreshold`
and the trigger are constants. `Width` is the modulus of the 32-bit counters.

`ReliableStream` is the abstract specification: each end reads what the other
wrote, in order. `Flow` implements it under `written <- source.next`,
`received <- read` (property `IsReliableStream`).

`scenario` is a variable that `Init` chooses from `Scenarios` and no step
changes: who writes how much, who may stop, whose timeout alarm may fire before
it is put off, and how many datagrams are in flight. One run so covers several.

### ThreadPool and Scheduler (`pla/threadpool.hpp`, `pla/scheduler.hpp`, `pla/alarm.hpp`)

A step of `ThreadPool` is a critical section. `Sleep` is the wait on the
condition; `NotifyOne` wakes one sleeper, whichever; `WakeSpuriously` wakes
one for nothing. `begun` is history. `Scheduler` instantiates the pool with its
own tasks. The map of the tasks to come, `pending` and the scheduling thread
(which sleeps until `timer`) are shared; each alarm has an owner that
schedules, cancels and joins it. `cancel` and `join` copy the id of the last
task before they lock, so each takes two steps. A callback may schedule its
alarm again (`Arm`, `Rearm`) or join it (`JoinItself`). The clock is a number
of ticks; a time that somebody still remembers does not come again after its
task left the map (`Distinct`), since the clock counts nanoseconds.

### Store: the life of a block (`tpn/store.cpp`, with `tpn/cache.cpp`, `tpn/block.cpp`, `Network::Caller`)

One block. Threads push combinations: `TakeSink` is the first critical section
of `push`, `SinkPush` and `Dump` the sink's own (between them the file is open
for writing, hence truncated), `NotifyBlock` the second critical section,
`Unregister` what the caller of push does. Threads wait in `waitBlock` and open
the file afterwards; `Pull` reads it; `Evict` and `NotifyErasure` are the two
halves of the cache's removal. Sinks are objects with references: a thread
keeps its sink after it left the map, and an object is used again only when
nobody refers to it. Decoding is abstracted to a rank and to whether a wrong
combination is among the rows.

### Publishing: the task that publishes the blocks (`Store::start`, `Store::run`)

The table of blocks is a sequence, newest first. A thread that has registered
the first handler of the overlay calls `Start` some time later; the task then
takes turns: `Check` the connections, `Select` a page, `SendNext` for each of
its blocks, and again. Meanwhile blocks are notified (`NotifyBlock`, which
moves a row to the front, and `PublishNotified` afterwards, as the code does it
after the statement), files are erased, and the connections are lost. `due`
and `told` are history: what the task owes the neighbours, and what they know.

### Overlay: connections between nodes (`tpn/overlay.cpp`)

A connection has two ends, each with a handshake, a handler that it registers
(`Register`) and a thread that unregisters it (`Unregister`) once the stream is
closed. `update` is a task in the pool with its own places: the peers a node
knew, then those the tracker names, and last its alarm. The handler that is in
`mHandlers` stays there when another is registered (`KeepHandler`), because
`Map::insert` does not replace; both addresses are remembered all the same.
`Fault` counts what goes wrong: a connection breaks, a handshake fails, the
tracker does not answer, or a node is killed and starts again with its file of
known peers only. Addresses are a host and a port, compared as `Address` does,
where port 0 stands for any.

### Retrieve: threads that look for a key (`Overlay::retrieve`)

Threads share one entry of `mRetrievePending` for a key and one condition.
A thread that is notified looks at the entry again (`Wake`, or `SleepAgain`
when another has inserted the key anew), or its time is up (`TimeOut`). Value
and Store messages store the value in one step (`ReceiveValue`, `ReceiveStore`)
and erase the entry in another (`Answer`). The loss of the last connection and
`ClearPending` are two steps as well, with new requests in between. `reasons` is history: why a key was given up.

### Table: a value on its way to the closest nodes (`Overlay::store`, the Store messages)

Several nodes, one key. Each node forwards to the closest of those it knows,
and is silent when it has stored the value within the minute. The check of the
time and the forwarding are two steps, as the readers of several connections
run at once, and the messages are a bag: they overtake each other and are lost
when a queue is full. `neighbors` is any connected graph and never changes.

### Tunnels: how two nodes get a link (`Network::Tunneler`)

`mPending`, the ends of the tunnels and the handlers of the link at both nodes.
`ContactSeen` is a beacon, with the first checks of `open`, and `Begin` the task
it starts; `Listen` is the first message with an unknown number, with the
comparison of the two numbers (`Wins`). `FinishServer`, `FinishClient` and
`Fail` are the ends of `handshake`, in the order of DTLS: the server is done
first. `FinishMistaken` is the end where the certificate is not that of the user
the client looked for: `handshake` returns false without removing the entry of
`mPending` or the transport (`network.cpp:1722`), and both stay for good; the
model keeps the end as "mistaken". `PendingIsShaking` says that this is the only
such end. `Disconnect` is the end of a handler. `Mishap`s are losses that last,
for longer than a handshake takes or than a handler may be idle, and a peer that
turns out to be somebody else.

### Calls: fetching a block (`Network::directCall`, `sendCalls`, `Pusher`, `Handler::push`)

One block, missing at one node, and nodes that have it. `mCallers` and the
place of each thread between `registerCaller` and `unregisterCaller`; the
records `pull` and `push` of the links are in order (as `Flow` promises); Call
messages and combinations may be lost. Tokens are counted as the code counts
them, with their redundancy, by the link (`linkTokens`) and by the pusher of the
overlay (`rawTokens`).

### Board: mails and how they spread (`tpn/board.cpp`, publish and subscribe in `tpn/network.cpp`)

A resource is its mail and the heads it names, and is the same thing on every
node, as its digest is that of its content. `Add` is `add`, `Incoming` one
resource read by `incoming`, `AppendMail` its `appendMail`, with the orphans
that follow; `Publish` and `Issue` are what the caller of `add` does next, after
the mutex is released, and `ReceiveTargets` and `ReceiveMail` what comes of it
at the other end of a link. Links are cut (what is in flight is lost) and made
again, and fetches fail. `merged` is a board that shows another.

What lasts, and what does not: `add` stores the digest of its resource as
permanent (`board.cpp:174`), while the digests and mails that others send are
temporary (`network.cpp:740`, `:751`), and `Expire` deletes any of these at any
time, as `Store::run` does after a while (`store.cpp:426`). `Restart` passes the
digests that are left to `incoming`; a resource that is only named by another is
in the cache by then, so `fetch` does not pass it on, and its mail is not shown
again. `ReadFails` is `incoming` that throws (`board.cpp:296`) at one of the
digests it chains or in the reader: a head may stay that was never read.
Therefore two promises are stated apart: that the heads lead to all a board has
been through since its node started (`HeadsCoverAll`), and that the mails a node
has written, or was sent by themselves, are never lost (`MailsAreKept`). That of
the mails that came inside the resources of others is no promise of the code.
`stored` is the cache, from which `Board` deletes nothing.

### HttpTunnel: a stream through a proxy (`tpn/httptunnel.cpp`)

The way up and the way down, each with counters of bytes: `mPostSize`,
`mPostLeft`, the body of the current request, the flusher that fills it with
padding; the response that the server ends. A proxy may hold a request back
until its body is whole, which is why the padding must end to the byte.

## 3. What is checked

| Run | Expect | What it shows |
|---|---|---|
| `flow` | pass | a reliable stream under loss, reordering, timeouts, stops; nothing acknowledged that was not seen; budgets bounded |
| `safety` | pass | `pending` is exact, alarms do not take each other's tasks; no block is skipped; values get to the closest nodes; searches are empty for a reason |
| `store` | pass | the file is right and known when written, one sink, callers stay registered, waiters are served |
| `node` | pass | due tasks run and joins return; decoding is right, loses nothing, terminates; connections come back; what is written through a proxy is read |
| `network` | pass | no lost wake-up, every task run; everything delivered without loss; a link on one tunnel; the block arrives and its pushers rest; the heads of a board lead to all it has been through, a mail added by a node is kept, boards converge |
| `flow_window` | violation | `generate` names other components than those whose data it sends |
| `flow_hole` | violation | an acknowledgement covers a chunk the sink has no row for |
| `flow_tail` | violation | the timeout does not retransmit |
| `sched_join` | violation | a callback runs after its alarm was joined |
| `store_rewrite` | violation | an announced file is truncated and read |
| `overlay_reconnect` | violation | two nodes that connected to each other at once never connect again after a loss |
| `publish` | violation | after an interruption the blocks are never published again |

Bounds, and why they are enough:

- Flow, in `flow`: three scenarios (two chunks, timeouts at both ends, one
  datagram in flight each way; three chunks, two datagrams each way, no
  timeout; one chunk each way with an end that stops or fails). Two in flight
  are enough for one to overtake another; three chunks for a row between two
  others. The action constraint `QuietFirst` takes first the steps that commute
  with all others: the turns of solve that change neither the pivots nor the
  counters, and the release of `mMutex`. They read and write only what the same
  thread touches next, and no property mentions it in between. In `network`:
  three chunks, room for all datagrams, and all-ones coefficients (`OneDraw`):
  liveness holds for a generator that makes progress. With arbitrary
  coefficients the hole of `flow_hole` blocks the stream also without loss.
- Scheduler, in `safety`: two alarms, two workers, two ticks, three calls: an
  alarm that is scheduled again while its earlier task is queued, and another
  with the same time. Workers and alarms are interchanged by symmetry, which is
  sound there: the run has no liveness property. In `node`, for liveness, one
  alarm and no symmetry.
- Publishing: three blocks in pages of two (a last page that is not full, and a
  block that moves from one page to the other), two notifications, one erasure,
  one outage, one exception; the table has zero to three rows, always the same
  ones of its length, as blocks are interchangeable at the start. `publish`
  needs two blocks in pages of one and nothing but an outage.
- Table: all 38 connected graphs of four nodes, two of which are the closest of
  all, two calls of `store`, one lost message. Four nodes give a way of three
  steps, a circle, and a node that is told from two sides. The code forwards to
  three; with four nodes two is what leaves somebody out.
- Retrieve: two threads that share a key, two messages, one loss of the
  connections, two calls each, so that a search starts while an earlier one is
  being cleared.
- Store: two pushing threads, one waiting, three sinks, two chunks, one wrong
  combination and one eviction. A third pusher adds nothing new (it was checked
  too, without liveness); the proofs have any number.
- Sink: four chunks and windows of three, so that rows of every shape,
  substitutions over several columns, and the coded last chunk occur; repeated
  and useless combinations too. `NormalDraws` gives a first coefficient of one:
  a combination and its multiples reduce to the same row.
- Overlay: two nodes, one of which can be reached, two connections, one fault:
  the old connection and the new one, at both ends. `overlay_reconnect` has two
  nodes that can both be reached.
- HttpTunnel: posts of 8 to 12 bytes and downloads of 2, records of at most 2
  bytes, 5 bytes each way: several requests each way, and every remainder of a
  body the padding has to fill, down to one byte.
- ThreadPool: three workers and three tasks: one worker asleep, one waking, one
  running. Tunnels: two numbers, so both nodes may open at once, and two
  mishaps. Calls: two threads without a loss, or one with a loss; one provider,
  a block of two chunks. Board: two nodes, two mails, the second of which
  answers the first, without a fault, or one mail with a cut or a restart, up to
  one deletion of old values (`MaxExpiries`, any of them at once) and up to one
  resource that cannot be read (`MaxFailures`). One mail makes two resources, one
  by `post` and one by the board that is sent its own mail, and two more where
  it arrives: enough for heads that name others.

Deadlock is checked in `store`, `store_rewrite` and `overlay_reconnect`. In the
other runs the program may really have nothing left to do (idle ends of a flow,
idle workers of a joined pool, a scheduler that was destroyed), or the bounds
end a behaviour; that something must happen is there the business of the
liveness properties.

Fairness:

- `Sink`: solve runs to its end in the thread that called it.
- `Flow`: threads inside `send` and `solve` go on, a thread that keeps asking
  for `mMutex` gets it (hence strong fairness), scheduled alarms fire, and a
  network that keeps holding data for an end, or the latest acknowledgement,
  ends up delivering it (in `network`, it delivers everything). Nobody has to
  write, and nothing is promised after a stop.
- `ThreadPool`, `Scheduler`: threads are scheduled, callbacks return, the clock
  runs. Nobody has to enqueue, schedule or close; spurious wake-ups are never
  relied on.
- `Store`: threads finish what they began; nothing has to arrive and no timeout
  has to fire.
- `Publishing`: the thread of run goes on and start is called; no connection
  has to be made.
- `Overlay`: threads are scheduled, alarms fire, and a handshake that nothing
  disturbs is completed. Faults are bounded by `MaxFaults`, and never owed.
- `Tunnels`: beacons are sent for ever (the network's thread sends them again
  and again), tasks run, messages get through in the end, and the handshake's
  time passes. `LinkComesUp` excludes behaviours with a mishap: after one, a
  node may connect while the other still has its old handler, which
  `registerHandler` keeps (`network.cpp:550`), and each in turn is left with a
  handler on a tunnel the other has let go of.
- `Calls`: threads are scheduled, the network's thread sends calls every
  second, the overlay finds the nodes that have the block, and only so much is
  lost.
- `Board`: threads are scheduled, messages arrive, nodes are linked again.
  `Converges` excludes restarts and what could not be fetched or read: a
  restarted node shows what it reads again, and neither is repeated.
- `HttpTunnel`: both ends read all the time, as the overlay's handlers do;
  alarms fire; requests get through the proxy.
- `Retrieve` and `Table` are checked without fairness.

`DueIsRun` is stated up to the moment a worker takes the task: a callback that
joins its own alarm never returns (the `break` at `pla/scheduler.hpp:195`
leaves only the `for` loop), so `node` has `JoinsItself = FALSE`, and `safety`
`TRUE`. `KnownIsWritten`, `OneSink` and `CalledWhileMissing` are stated until
the first eviction: afterwards the block is forgotten and fetched again, and a
caller of the second round may be unregistered by a push of the first, which
costs it a timeout. `NothingSkipped` excuses the one row that slips past the
offset when an earlier one is erased. `Placed` is stated for a minute in which
no message was lost; after a loss, those who stored the value are silent until
the minute is over.

## 4. What is proved

Each proof module holds the theorems of the components it extends. Where a
component assumes something of its constants, the assumption is an `ASSUME` of
its module, which TLC evaluates in the runs. Two of them only say that there is
something to check: `Table` has a graph to choose (`Topologies # {}`), and the
pool a worker.

The composites `MCSafety`, `MCNode` and `MCNetwork` are proved as TLC checks
them: `SafetyTyped` and `NodeIsSafe` (in `DistributionProofs`), `NodeTyped` and
`NodeIsCorrect` (in `OverlayProofs`), `NetworkTyped` and `NetworkIsCorrect` (in
`NetworkProofs`) state every invariant and every action property of these three
runs of the composite's own specification. The argument is the same for the
three: a step of the composite is a step of one component with the variables of
the others unchanged, the state in which a component is off satisfies its
inductive invariant too, and so the composite keeps the conjunction of them
all. The flow in `MCNetwork` has liveness only in that run; its invariants
are those of `FlowProofs`, about `Flow`.

`SinkProofs` (with the lemmas of `FountainProofs` on vectors and the turns of
solve), for every field, number of chunks and window:

- `TypeCorrect`, `DecodedCorrect`, `DecodingMonotone`, `FullRankDecodes`,
  `FinishedDumpsAll`. The inductive invariant `SinkOK` says that the rows are
  triangular (a row is keyed by its first component), that they and the row in
  hand have `data = comp`, and, between the turns of substitute, which columns
  of which rows are already cleared. Without the last part `FullRankIsDecoded`
  is not inductive: it needs that a call of solve leaves no row below a pivot
  unreduced.
- `HeardIsKept`: the rows are a basis of all that was heard. The invariant
  (`Learnt`) is that between calls what was heard is a space whose vectors start
  where there is a row; and during the elimination, that it is spanned by such
  a space and the combination in hand. That each turn keeps the span, and that a
  new row adds the one offset where it starts, needs the laws of the field
  (`FieldLaws`), which addition by xor and the multiplication table of GF(256)
  follow. For finitely many rows this says that the number of vectors heard is a
  power of the size of the field with their number as exponent, but without
  counting.
- `SolveDescends`: solve can always take a turn until it returns, and each turn
  goes on to a later coefficient, a row above or a column to the left. With the
  fairness of its thread this is `SolveReturns`; the last step, from the bounded
  measure to the end, is what the prover cannot take.

`FlowProofs`, for every field, width, window and constant of the budgets, any
traffic, loss, reordering, timeout and stop:

- `FlowTyped`, `AcknowledgedAlwaysSeen`. The invariant
  `FlowInv` has four parts: `Shapes` (what each thread holds at each place),
  `Budget` (what an end may send, from its windows and what it has
  unacknowledged), `Turns` (what holds of a sink in the middle of solve, where
  the lock is not held), and `Line`, which is the order of one direction: what
  is released, what every acknowledgement on its way claims, what the other end
  has seen and what was written, in this order. `Line` is what a late or
  overtaken acknowledgement is measured against.
- `NarrowIsReliable`: `Flow` implements `ReliableStream` as long as no source
  holds more than `GenerateSize` chunks at once, and `ShortIsReliable`: so it
  does where nobody writes more than that, the bound being one on the constants
  and the scenarios those of the run `flow`. The hypothesis cannot be dropped: the code draws the positions
  of a combination's components and of its data from different ends of the
  window as soon as this is wider (`flow_window` shows it). What the proof adds
  to `FlowInv` is `Honest`: what is sent, held and read is the chunks it says.
  It is kept by each step that finds the windows narrow, which is why `Narrow`
  may be a hypothesis about the behaviour.

`SchedulerProofs`, for any number of workers, alarms, calls and ticks:

- `SchedulerTyped`, `PendingAlwaysLive`, `OthersAlwaysKept`. They are inductive
  together with `Apart` (no two tasks in the map, the queue or a worker have an
  id in common), `Numbered` (there is always a number to tell a new task from
  the others of its time) and `Belongs` (the id an alarm or its owner has
  copied, however long ago, is the id of no other alarm's task).
- `TimerNeverLate` and `DueWakesAWorker`: the scheduling thread never sleeps
  beyond the first task, and the tasks it queues wake workers enough. This is
  the part of `DueIsRun` that is a safety property.
- `RunsOnce`: one call of `schedule()` is run at most once, by one worker. The
  invariant, `HandedOnce`, says that the map, the queue and what was begun have
  no task in common, and the queue none twice; it rests on the calls' numbers,
  which are history.
- `JoinedTaskStaysOver`: the task whose id a `join` has copied has left all
  three when the join returns, and does not come back while the owner has the
  id. What `sched_join` shows is that this id need not be that of the alarm's
  last task.
- `ImplementsPool`: workers and queue are those of `ThreadPool`, step by step,
  with the scheduler's tasks for the pool's. The one departure is stated:
  `Dispatch` goes on queueing what is due while the pool is being joined
  (`QueuesWhileClosing`), which `ThreadPool::enqueue` does not forbid.

`NetworkProofs`, about `Tunnels`, `Calls`, `Board` and `ThreadPool`:

- `HandlersOfLinks`, `PendingEnds`, for any numbers drawn and any number of
  mishaps: types, `HandlerIsLive` and `PendingIsShaking` are inductive
  together; the second is what makes the end of a tunnel free its handler, the
  third survives because a number is pending only from the start of its own
  handshake to the end of one of its node, well or not. The exception is the
  handshake that ends with an unexpected certificate, which the property names.
- `TokensStayBounded`, for any providers, redundancy and losses: what a
  destination is granted, by a pull of a link or by calls of the overlay,
  replaces what it had, so a node that is asked again and again does not owe
  the block twice. The arithmetic is about the quotient the code takes.
- `WhoWaitsIsCalledFor`: until the block is there, the threads that wait for it
  are exactly its callers, so that it goes on being asked for; and
  `OnlyWindsDown`: once it is there, tokens come only from requests that were
  already on their way, and every other step lowers them or asks to stop. These
  are the parts of `BlockArrives` and `ComesToRest` that are safety properties.
- `HeadsAlwaysLead`, for any members, mails, cuts, restarts, expiries and
  resources that fail to be read: `HeadsCoverAll` is inductive with one more
  part, that every previous digest is named by a resource in `Tried`, what was
  read or was at hand and could not be read. Without it a resource that comes
  after the one that names it could be made a head, or one that is not named
  could cease to be. What `incoming` throws at counts, since it has taken the
  named ones off the heads by then.
- `MailsAlwaysKept`, in the same generality: the values a node has on its disk
  are read, being fetched or missed; its permanent ones are among them, whatever
  expires; every mail it has added is in a permanent one; and what is read is on
  the board, or about to be (`ReadIsOnBoard`).
- `AnswersAlwaysFollow`, `BoardTyped`: resources were added one by one, and
  each names and answers only earlier ones, on whichever node (`FilledFrom`
  gives the library so far as a set that is closed under this); what a board
  lists is without repetition and in order (`Showing`), with the orphans that
  wait for the mail they answer; and what is in flight, or was cut off, is in
  the library (`Linking`).
- `BoardsAgreeAtRest`: when linked nodes have come to rest (no message, fetch or
  thread left), every board shows all that anybody posted, unless a node was
  started again or a resource could not be fetched or read. This is the part of `Converges` that is a
  safety property, for any members, mails, orders and cuts. The invariant is
  `Passed`: whoever has read a resource is about to publish it, or has, and then
  each subscriber will read it, which means that it is in the closure, through
  `previous`, of what the subscriber has read, is fetching and was told. At rest
  this closure is what it has read. That telling the heads is enough rests on
  `HeadsCoverAll` and on the order in which resources were added: among any
  of them there is one that none of the others names (`Topped`), so what was
  read and is not reached from the heads would have a last one, which is a head.
- `LinkedCanFetch`: what a board is fetching is stored by some node, also after
  restarts, so that a fetch fails only while nodes are not linked.
- `PoolTypeCorrect`, `NeverLeftBehind`, for every finite set of workers and
  every set of tasks: `NoLostWakeup` is inductive with the type invariant,
  since a notification adds one ready worker for the one task added, a worker
  takes one task with it, and sleeps or leaves only from an empty queue. The
  lemmas are about the cardinality of the ready workers.

`StoreProofs`, for any number of threads, sinks, chunks, wrong combinations and
evictions:

- `StoreTyped`, `FileAlwaysRight`, `KnownAlwaysWritten`, `OneSinkOnly`,
  `AlwaysCalled`. The invariant has three parts: types; `SinksAreRight` (a
  decoded sink was compared with its digest, and a sink somebody dumps is
  decoded and nobody's fresh one, which is where references matter); and
  `UntilEvicted`, which holds until the first eviction and says what each
  thread knows at each place: pushed means known, pushing means the current
  sink or known, waiting means called or known.
- `NobodyOversleeps`: nobody sleeps in `waitBlock` for a block that has a row,
  before and after evictions: only `NotifyBlock` writes a row, and it wakes all
  under the mutex of those who are about to sleep. It is the part of
  `WaiterIsServed` that is a safety property: what is left to fairness is that
  who was woken looks.

`DistributionProofs`, about `Publishing`, `Table` and `Retrieve`:

- `PublishingTyped`, `NoBlockSkipped`, for any table, page, and number of
  notifications, erasures and outages: a block the task owes is at every moment
  told, being notified, in the page in hand or behind the offset
  (`Underway`). What moves up at an erasure is one row, which the model's
  `Skipped` names; a notification moves rows down, which costs a repetition
  only.
- `TableTyped`, `PlacedUnlessExpired`, `ValueIsPlaced`, on any graph of any
  number of peers, with any loss: a peer that was told has told its closest or has a
  message in hand that will (`Spreading`), unless a message expires. That none
  does follows, in `ValueIsPlaced`, from a bound on its hops: each forwarding
  brings it closer to the key or is by a peer that keeps the value, and such a
  peer is silent next time. With N peers this is less than N*(N-1) hops; the
  code's ttl of 16 (`overlay.cpp:48`) covers four peers, as in `safety`, whatever their
  connections. For more peers the bound is far from tight, and
  `PlacedUnlessExpired` says what remains true.
- `RetrieveTyped`, `PendingAlwaysMatches`, `EmptyForAReason`, for any number of
  threads, keys, messages and losses. An entry without a waiter cannot come
  about because each thread erases its key when it leaves, whether or not
  others wait; the price is in `SleeperIsPending`, which holds up to the
  timeouts of others. `EmptyHasReason` is inductive only as part of
  `ReasonInv`: a thread has a value or a reason as soon as its entry is gone,
  and so has a message that is about to erase one.

`OverlayProofs`, about `Overlay` and `HttpTunnel`:

- `OverlayTyped`, `NeverStopsTrying`, `AddressesFollowHandlers`, for any number
  of nodes, connections, tasks, faults. A task of
  update ends only by setting the alarm, and the alarm is only taken by a task.
  What is said of addresses needs more (`OverlayInv`): a connection is between
  two nodes and was opened to one that can be reached (`ConnsSane`), the handler
  of a peer is on a connection with it, and every live end is that of a handler
  (`HandlersSane`), and no node is a peer of itself (`PeersSane`).
- `HttpTyped`, `NothingLostOrDoubled`, `BodiesAreWhole`, for any sizes of
  posts, records and downloads and any amounts written: `HttpInv` relates the
  counters of one request to the bytes it stands for (`UpInv`, `DownInv`) and
  all bytes written to those read, left and on their way (`UpKept`,
  `DownKept`). That a finished body is whole is what a proxy that waits for
  the whole body relies on.
- `WrittenGetsOn`: as long as something written is unread, some step of its
  direction can be taken, and every step but a write lowers a natural number
  (`UpWork`, `DownWork`: what is left to do, the stage the body is in, and the
  flusher). `Flushed` adds to it that the steps are taken.

Only model-checked, with the reason:

- All liveness: it rests on fairness and `ENABLED`, which the prover does not
  have. `SolveDescends`, `TimerNeverLate`, `DueWakesAWorker`, `NeverLeftBehind`,
  `PendingEnds`, `NobodyOversleeps`, `WhoWaitsIsCalledFor`, `OnlyWindsDown`,
  `BoardsAgreeAtRest` and `WrittenGetsOn` are the safety it rests on.
- `Delivered` and the other promises of `flow` without a bound on the window
  are false of the code (`flow_window`, `flow_hole`, `flow_tail`).

## 5. Not modelled

- *Libraries and I/O.* Parsing, formatting, HTML, SQL, sockets, cryptography
  and the vendored SQLite and unzip (most of the lines of the repository).
- *Resources, indexer, requests*: walks of directories and queries of a
  database; a resource appears in `Board` as its content.
- *Address book and users*: whom to trust and connect to, decided by forms; the
  result is an input of `Tunnels` (`knows`).
- *Port mapping and tracker*: the protocols of others. What a tracker answers
  is an input of `Overlay`.
- *Routing of messages to one node, and path folding* (Offer, Suggest) in the
  overlay: each hop reads the handlers and changes nothing of its own.
- *Within the modelled parts*: the contents of chunks and the wire format; the
  turns of the pusher between destinations and targets; the amounts of
  `freeSpace`; a resource of a board that the cache has removed; Block as a stream; the flags of mails; RemotePublisher and
  advertise; close and time-outs of the HTTP tunnel, and a flush that runs
  while a thread writes, whose outcome is an exception that closes the stream.
- A block notified from a local file (`Block::notifyStore`) notifies without
  the store's mutex and is not in `Store`; `Publishing` has notifications at
  any time.

The hazards in `PROJECT.json` that have a note and no property say what each
would need.

## 6. What is left

In order of importance: the circle of senders that wait for each other's
sockets (`overlay.cpp:1581`), which needs routes over three nodes and bounded
buffers; RemotePublisher and requests, so that a query is answered or given up;
path folding, composed with `Overlay`; `freeSpace` with its amounts.

Theorems to come: a bound on the hops of a value that is tight enough for the
code's ttl on larger graphs; `Retrieve` as a refinement of what it promises; a
safety property that says of `Tunnels` what `LinkComesUp` needs.
