SPECIFICATION FairSpec
CONSTANTS
  Pushers = {p1, p2}
  Waiters = {w1}
  Sinks = {s1, s2, s3}
  NoSink = NoSink
  Chunks = 2
  MaxWrong = 1
  MaxEvictions = 1
INVARIANTS FileIsRight KnownIsWritten OneSink CalledWhileMissing
PROPERTY WaiterIsServed
