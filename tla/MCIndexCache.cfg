SPECIFICATION Spec
CONSTANTS
  t1 = t1
  t2 = t2
  t3 = t3
  Thread = {t1, t2, t3}
  Leader = t1
  PageRange <- Halves
  Key = {1, 3}
  all_page_cnt = 1
  MaxPages = 3
  NoNode = NoNode
  Null = Null
  Grace = TRUE
INVARIANTS
  OnePlace
  BudgetExact
  NoUseAfterFree
  NarrowestFound
