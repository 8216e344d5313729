CONSTANTS
  opener = opener
  reached = reached
  Workers = {w1, w2}
  Alarms = {x}
  NoTask = NoTask
  MaxTime = 1
  MaxCalls = 3
  JoinsItself = FALSE
  Coeff <- GF4
  gAdd <- GF4Add
  gMul <- GF4Mul
  gInv <- GF4Inv
  Draws <- NormalDraws
  MaxChunks = 4
  GenerateSize = 3
  LastChunk = 3
  Nodes = {opener, reached}
  Conns = {c1, c2}
  NoConn = NoConn
  Updaters = {t1}
  NoUpdater = NoUpdater
  MinConnections <- OpenerNeeds
  Transports = {"TCP"}
  MaxFaults = 1
  DefaultPostSize = 8
  MaxPostSize = 12
  MaxDownloadSize = 2
  MaxRecord = 2
  MaxWritten = 5
SPECIFICATION NodeSpec
INVARIANTS
  NodeTypeOK
  DecodedIsChunk
  NothingIsLost
  FullRankIsDecoded
  FinishedIsWhole
  KeepsTrying
  AddressesAreLive
PROPERTIES
  DecodingIsMonotone
  SolveReturns
  DueIsRun
  AlarmJoinReturns
  Reconnects
  Flushed
\* A component stops when its bounds are reached.
CHECK_DEADLOCK FALSE
