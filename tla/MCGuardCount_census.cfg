\* Chain: see MCGuardTree.
CONSTANTS
  root = root  kid = kid  grandkid = grandkid
  r1 = r1  r2 = r2  k1 = k1  gk1 = gk1
  a = a  b = b
  NoNode = NoNode  NoShard = NoShard  NoGuard = NoGuard
  Root = root
  Stoppable = {kid}
  Node <- ChainNodes
  Parent <- ChainParent
  Shard <- ChainShards
  NodeOf <- ChainNodeOf
  MyShard <- ChainMyShard
  Thread = {a, b}
  Guard = {g1}
  MaxHandles <- OneHandle  MaxFutures = 0
  Calls = {"guard", "for_shard", "drop_guard", "shut_down", "child", "drop"}
SPECIFICATION CountSpec
SYMMETRY FullSymmetry
CHECK_DEADLOCK FALSE
INVARIANTS
  CountBracketed
  ReportMissesNone
  GuardCounted
  NoChildLeftRunning
  GuardsRegistered
