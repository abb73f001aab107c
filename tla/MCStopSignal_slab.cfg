CONSTANTS
  NoTask = NoTask
  Shard = {s1}
  Interrupt = {i1, i2, i3}
  Task = {k1, k2}
  Observer = {}
  Caller = {c1, c2}
SPECIFICATION Spec
SYMMETRY StopSymmetry
CHECK_DEADLOCK FALSE
INVARIANTS
  TypeOK
  RegistrationsIntact
  NoLostWake
