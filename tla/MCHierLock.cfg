SPECIFICATION FairSpec
CONSTANTS
  n1 = n1
  n2 = n2
  a = a
  b = b
  c = c
  Node <- MCNode
  Thread <- MCThread
  NodeOf <- MCNodeOf
  Free = Free
  FirstTag = a
  kMaxHandOverTime = 2
  TicketMod = 16
  kRetryLimit = 1
  MaxTickets <- MCTickets
PROPERTIES
  ImplementsLockedPage
  LockProgress
  UnlockProgress
INVARIANTS
  MutualExclusion
  NoLostUpdate
  BoundedHandOver
  LockInv
