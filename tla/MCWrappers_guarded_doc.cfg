CONSTANTS
  root = root  kid = kid
  Root = root
  Node = {root, kid}
  Parent <- PairParent
  Guard = {g1, g2, g3}
  Caller = {c1}
  Wrapper = {w1, w2}
  NoNode = NoNode  NoGuard = NoGuard
SPECIFICATION WrapSpec
CHECK_DEADLOCK FALSE
PROPERTIES
  GuardedDelays
