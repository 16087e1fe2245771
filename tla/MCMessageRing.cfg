SPECIFICATION FairSpec
CONSTANTS
  a = a
  b = b
  App = {a, b}
  machineNR = 2
  messageNR <- ShortRings
  kBatchCount = 2
  kSignal = 2
  Plans <- SomeCalls
  MaxRoots = 2
  Empty = Empty
PROPERTY CallsReturn
INVARIANTS
  SentAsPosted
  LostOnlyInCrowd
  HandlesItsMessage
CHECK_DEADLOCK FALSE
