CONSTANTS
  a = a
  b = b
  Coeff <- GF4
  gAdd <- GF4Add
  gMul <- GF4Mul
  gInv <- GF4Inv
  Draws <- NormalDraws
  MaxChunks = 3
  GenerateSize = 3
  LastChunk = 3
  Ends = {a, b}
  Scenarios <- EveryScenario
  Lossy = "always"
  DefaultTokens = 20
  DefaultThreshold = 30
  Trigger = 0
  Width = 16
SPECIFICATION Spec
INVARIANTS
  TypeOK
  AcknowledgedIsSeen
PROPERTIES
  IsReliableStream
ACTION_CONSTRAINT QuietFirst
CHECK_DEADLOCK FALSE
