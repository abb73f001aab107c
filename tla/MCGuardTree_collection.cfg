\* Pair: see MCGuardTree.
CONSTANTS
  root = root  kid = kid  grandkid = grandkid
  r1 = r1  r2 = r2  k1 = k1  gk1 = gk1
  a = a  b = b
  NoNode = NoNode  NoShard = NoShard  NoGuard = NoGuard
  Root = root
  Node <- FamilyNodes
  Parent <- FamilyParent
  Shard <- PairShards
  NodeOf <- PairNodeOf
  MyShard <- PairMyShard
  Thread = {a, b}
  Guard = {g1}
  MaxHandles <- ClonedRoot  MaxFutures = 1
  Calls = {"for_shard", "drop_guard", "drop",
           "shut_down", "child", "into_future", "drop_future", "await", "block", "clone"}
SPECIFICATION Spec
SYMMETRY FullSymmetry
CHECK_DEADLOCK FALSE
PROPERTIES
  Implements
INVARIANTS
  CountsExact
  ChainAlive
  CollectedDeparted
  EmptyChildDeparts
  ExactWhenQuiet
