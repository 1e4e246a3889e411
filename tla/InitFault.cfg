SPECIFICATION Spec
CONSTANTS
  t0 = t0
  t1 = t1
  t2 = t2
  t3 = t3
  t4 = t4
  p0 = p0
  p1 = p1
  p2 = p2
  p3 = p3
  NULL = NULL
  Thread = {t0, t1, t2, t3}
  Proc = {p0, p1, p2}
  Keeper = t0
  Idle = p0
  Init1 = p1
  MaxTasks = 3
  MaxThreads = 3
  Index = {}
  Served = {}
  Irq = {}
  MaxFrozen = 1
  MaxConn = 2
  Calls = {"timer", "when", "fault", "fork", "exit"}
  Beyond = {"init_stops"}
SYMMETRY Symmetry
INVARIANTS
  NeverPanics
CHECK_DEADLOCK FALSE
