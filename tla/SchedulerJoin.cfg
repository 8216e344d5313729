SPECIFICATION Spec
CONSTANTS
  Workers = {w1, w2}
  Alarms = {a}
  NoTask = NoTask
  MaxTime = 1
  MaxCalls = 2
  JoinsItself = FALSE
INVARIANT JoinedIsOver
CHECK_DEADLOCK FALSE
