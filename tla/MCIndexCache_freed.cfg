SPECIFICATION Spec
CONSTANTS
  t1 = t1
  t2 = t2
  t3 = t3
  Thread = {t1, t2, t3}
  Leader = t1
  PageRange <- OneRange
  Key = {1, 3}
  all_page_cnt = 1
  MaxPages = 2
  NoNode = NoNode
  Null = Null
  Grace = FALSE
INVARIANT FreedIsNoticed
