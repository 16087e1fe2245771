SPECIFICATION Spec
CONSTANTS
  n1 = n1
  n2 = n2
  a = a
  b = b
  Thread = {a, b}
  Node = {n1, n2}
  NodeOf <- TwoNodes
  Workloads <- RefillWorkloads
  Key <- RefillKeys
  kKeyMin = 0
  kKeyMax = 7
  kValueNull = 0
  kLeafCardinality = 2
  kInternalCardinality = 3
  MaxPages = 16
  MaxLevel = 2
  MemNode <- OneMemNode
  RootNode = 0
  LockOf <- TwoLocks
  kCacheLevel = 3
  kCachePages = 2
  NoCall = NoCall
  NoEntry = NoEntry
  Free = Free
INVARIANT AssertParentKnown
