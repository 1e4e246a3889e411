CONSTANTS
  t1 = t1
  t2 = t2
  Thread = {t1, t2}
  Programs <- MCPrograms
  RP = {"a", "b"}
  Mode = {{"r"}, {"w"}}
  Access <- MCAccess
  NULL = NULL
  Low = 0
  MaxFd = 2
  Grow = 1
  MaxRef = 2
  Beyond = {}
SPECIFICATION FairSpec
CHECK_DEADLOCK FALSE
INVARIANTS RealExact SupersetOfOne
PROPERTIES NeverFullyClosed Forgotten
