CONSTANTS
  NoTask = NoTask
  Shard = {s1, s2}
  Interrupt = {i1}
  Task = {k1}
  Observer = {}
  Caller = {c1, c2}
SPECIFICATION Spec
CHECK_DEADLOCK FALSE
INVARIANTS
  StopSeenAfterShutDown
