CONSTANTS
  Workers = {w1, w2}
  Alarms = {a, b}
  NoTask = NoTask
  MaxTime = 1
  MaxCalls = 3
  JoinsItself = TRUE
  Blocks = {d1, d2, d3}
  BatchSize = 2
  MaxNotified = 2
  MaxErased = 1
  MaxOutages = 1
  MaxThrows = 1
  Peers <- FourPeers
  Distance <- Identity
  Topologies <- Connected
  StoreNeighbors = 2
  DefaultTtl = 16
  MaxStores = 2
  MaxDropped = 1
  Seekers = {s1, s2}
  Keys = {k}
  NoKey = NoKey
  MaxMessages = 2
  MaxLosses = 1
  MaxAsks = 2
SPECIFICATION SafetySpec
SYMMETRY Symmetry
INVARIANTS
  SafetyTypeOK
  PendingIsLive
  NothingSkipped
  Placed
  PendingMatchesWaiters
  EmptyHasReason
PROPERTY KeepsOthers
\* A component stops when its bounds are reached.
CHECK_DEADLOCK FALSE
