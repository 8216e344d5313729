CONSTANTS
  a = a
  b = b
  Coeff <- GF4
  gAdd <- GF4Add
  gMul <- GF4Mul
  gInv <- GF4Inv
  Draws <- AllDraws
  MaxChunks = 2
  GenerateSize = 1
  LastChunk = 2
  Ends = {a, b}
  Scenarios <- TwoInFlight
  Lossy = "always"
  DefaultTokens = 20
  DefaultThreshold = 30
  Trigger = 0
  Width = 16
SPECIFICATION Spec
INVARIANT SentIsConsistent
CHECK_DEADLOCK FALSE
