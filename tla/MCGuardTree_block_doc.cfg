\* Pair: see MCGuardTree.
CONSTANTS
  root = root  kid = kid  grandkid = grandkid
  r1 = r1  r2 = r2  k1 = k1  gk1 = gk1
  a = a  b = b
  NoNode = NoNode  NoShard = NoShard  NoGuard = NoGuard
  Root = root
  Node <- FamilyNodes
  Parent <- FamilyParent
  Shard <- PairShards
  NodeOf <- PairNodeOf
  MyShard <- PairMyShard
  Thread = {a, b}
  Guard = {g1}
  MaxHandles <- ClonedRoot  MaxFutures = 1
  Calls = {"guard", "drop_guard", "clone", "drop", "shut_down", "block"}
SPECIFICATION FairSpec
CHECK_DEADLOCK FALSE
PROPERTIES
  UngovernedRootStops
