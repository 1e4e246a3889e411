CONSTANTS
  Thread = {t1, t2}
  Top = 2
  Lists = 4
  PageLog = 1
  Bytes <- MCBytes
  Request = {0, 1, 3, 9}
  Free = Free
  None = None
SPECIFICATION Spec
CHECK_DEADLOCK FALSE
INVARIANTS Partition ListsExact FreeAccepts LiveMapped BlockFits
