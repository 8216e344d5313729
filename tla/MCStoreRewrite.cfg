SPECIFICATION Spec
CONSTANTS
  Pushers = {p1, p2}
  Waiters = {w1}
  Sinks = {s1, s2, s3}
  NoSink = NoSink
  Chunks = 1
  MaxWrong = 0
  MaxEvictions = 0
INVARIANT PulledIsWhole
