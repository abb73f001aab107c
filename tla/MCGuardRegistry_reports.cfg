CONSTANTS
  Dangling = Dangling
  Shard = {s1, s2}
  Guard = {g1, g2}
  Location = {l1, l2}
  Reporter = {p1, p2}
  MIN_SWEEP_THRESHOLD = 1
SPECIFICATION Spec
SYMMETRY RegistrySymmetry
CHECK_DEADLOCK FALSE
INVARIANTS
  TypeOK
  RegistryBounded
  RegistryExact
  ReportExactWhenQuiet
