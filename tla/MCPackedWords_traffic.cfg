\* Family: see MCGuardTree and MCPackedWords.
CONSTANTS
  root = root  kid = kid  grandkid = grandkid
  r1 = r1  r2 = r2  k1 = k1  gk1 = gk1
  a = a  b = b
  NoNode = NoNode  NoShard = NoShard  NoGuard = NoGuard
  Root = root
  Node <- FamilyNodes
  Parent <- FamilyParent
  Shard <- FamilyShards
  NodeOf <- FamilyNodeOf
  MyShard <- FamilyMyShard
  Thread = {a, b}
  Guard = {g1, g2}
  MaxHandles <- ClonedRoot  MaxFutures = 0
  Calls = {"guard", "clone_guard", "drop_guard", "shut_down", "child", "clone"}
  LOW = 6  MIDDLE = 4  INDEX = 2
  IndexOf <- FamilyIndexOf
SPECIFICATION Spec
SYMMETRY GuardSymmetry
CHECK_DEADLOCK FALSE
INVARIANTS
  TypeOK
  ControlOK
  CountsExact
  PackedAgrees
PROPERTIES
  StopLatches
