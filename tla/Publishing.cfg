CONSTANTS
  Blocks = {d1, d2}
  BatchSize = 1
  MaxNotified = 0
  MaxErased = 0
  MaxOutages = 1
  MaxThrows = 0
SPECIFICATION PublishingSpec
PROPERTY PublishedAgain
\* The node need not connect.
CHECK_DEADLOCK FALSE
