CONSTANTS
  alice = alice
  bob = bob
  question = question
  answer = answer
  Workers = {w1, w2, w3}
  Tasks = {t1, t2, t3}
  NoTask = NoTask
  Coeff <- GF4
  gAdd <- GF4Add
  gMul <- GF4Mul
  gInv <- GF4Inv
  Draws <- OneDraw
  MaxChunks = 3
  GenerateSize = 3
  LastChunk = 3
  Ends = {alice, bob}
  Scenarios <- FlowScenarios
  Lossy = "never"
  DefaultTokens = 20
  DefaultThreshold = 30
  Trigger = 0
  Width = 16
  TunnelEnds = {alice, bob}
  MaxTunnelId = 2
  MaxMishaps = 2
  Waiting = {v1, v2}
  Providers = {p}
  BlockRank = 2
  Redundant = 1
  MaxLost = 1
  MaxVisits = 1
  Members = {alice, bob}
  Author <- ByAlice
  Parent <- SecondAnswersFirst
  NoMail = NoMail
  MaxCuts = 1
  MaxRestarts = 1
  MaxExpiries = 1
  MaxFailures = 1
SPECIFICATION NetworkSpec
INVARIANTS
  NetworkTypeOK
  NoLostWakeup
  PendingIsShaking
  HeadsCoverAll
  MailsAreKept
  AnswersFollow
PROPERTIES
  EnqueuedIsRun
  Delivered
  LinkComesUp
  BlockArrives
  ComesToRest
  Converges
\* A component stops when its bounds are reached.
CHECK_DEADLOCK FALSE
