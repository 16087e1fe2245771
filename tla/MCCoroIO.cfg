SPECIFICATION Spec
CONSTANTS
  t1 = t1
  t2 = t2
  n1 = n1
  n2 = n2
  c1 = c1
  c2 = c2
  c3 = c3
  Thread = {t1, t2}
  Node = {n1, n2}
  NodeOf <- TwoNodes
  Workers <- TwoThreads
  Mem = {0, 1}
  Home = 0
  kCasBufferCnt = 3
  kPageBufferCnt = 2
  kMaxHandOverTime = 2
  Plans <- FewRequests
  Master = Master
  NoTag = NoTag
INVARIANTS
  PostedIntact
  OneWakeup
PROPERTIES
  RequestsReturn
  ImplementsLockedPage
