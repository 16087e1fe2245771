SPECIFICATION FairSpec
CONSTANTS
  p1 = p1
  p2 = p2
  p3 = p3
  Proc = {p1, p2, p3}
  Calls <- Benchmark
  Value <- MCValue
  Absent = Absent
PROPERTY AllFinish
INVARIANTS
  ConnectedPairs
  BarrierHolds
  SumIsTotal
