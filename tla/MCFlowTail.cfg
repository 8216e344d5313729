CONSTANTS
  a = a
  b = b
  Coeff <- GF4
  gAdd <- GF4Add
  gMul <- GF4Mul
  gInv <- GF4Inv
  Draws <- NormalDraws
  MaxChunks = 1
  GenerateSize = 1
  LastChunk = 1
  Ends = {a, b}
  Scenarios <- LastChunkLost
  Lossy = "once"
  DefaultTokens = 20
  DefaultThreshold = 30
  Trigger = 0
  Width = 16
SPECIFICATION FairSpec
PROPERTY DeliveredDespiteLoss
CHECK_DEADLOCK FALSE
