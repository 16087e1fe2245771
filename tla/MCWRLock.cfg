SPECIFICATION FairSpec
CONSTANTS
  t1 = t1
  t2 = t2
  t3 = t3
  Thread = {t1, t2, t3}
  WordMod = 8
  MaxCalls = 2
PROPERTIES
  CallsReturn
INVARIANTS
  Exclusion
  WordCounts
