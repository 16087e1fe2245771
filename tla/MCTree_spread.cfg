SPECIFICATION FairSpec
CONSTANTS
  n1 = n1
  n2 = n2
  a = a
  b = b
  Thread = {a, b}
  Node = {n1, n2}
  NodeOf <- TwoNodes
  Workloads <- SpreadWorkloads
  Key <- Keys
  kKeyMin = 0
  kKeyMax = 14
  kValueNull = 0
  kLeafCardinality = 2
  kInternalCardinality = 3
  MaxPages = 16
  MaxLevel = 3
  MemNode <- TwoMemNodes
  RootNode = 0
  LockOf <- TwoLocks
  kCacheLevel = 2
  kCachePages = 2
  NoCall = NoCall
  NoEntry = NoEntry
  Free = Free
PROPERTIES
  OperationsReturn
INVARIANTS
  BLinkTree
  AckedKeysSurvive
  AssertionsHold
