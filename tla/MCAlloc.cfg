SPECIFICATION FairSpec
CONSTANTS
  t1 = t1
  t2 = t2
  t3 = t3
  Thread <- MCThread
  machineNR = 2
  NodeOf <- MCNodeOf
  FirstTarget <- MCFirstTarget
  kChunkSize = 3
  Size = {1, 2}
  bitmap_len = 3
  NoChunk = NoChunk
  NoOwner = NoOwner
  Lossy = {t3}
  MaxAllocs = 2
INVARIANTS
  PagesDisjoint
  PagesInside
  AllocInv
PROPERTY AllocReturns
