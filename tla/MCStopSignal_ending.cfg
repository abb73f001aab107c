CONSTANTS
  NoTask = NoTask
  Shard = {s1, s2}
  Interrupt = {i1}
  Task = {k1, k2}
  Observer = {o1}
  Caller = {c1, c2}
SPECIFICATION FairSpec
CHECK_DEADLOCK FALSE
INVARIANTS
  NoLostStopEvent
PROPERTIES
  InterruptsEnd
  ShuttingDownResolves
