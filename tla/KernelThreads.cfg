SPECIFICATION Spec
CONSTANTS
  t0 = t0
  t1 = t1
  t2 = t2
  t3 = t3
  t4 = t4
  p0 = p0
  p1 = p1
  p2 = p2
  p3 = p3
  NULL = NULL
  Thread = {t0, t1, t2, t3}
  Proc = {p0, p1, p2}
  Keeper = t0
  Idle = p0
  Init1 = p1
  MaxTasks = 3
  MaxThreads = 3
  Index = {}
  Served = {}
  Irq = {1}
  MaxFrozen = 2
  MaxConn = 1
  Calls = {"timer", "also", "done", "exit", "fault", "stop", "wake", "send", "fork", "when", "exec", "rirq", "irq"}
  Beyond = {}
SYMMETRY Symmetry
VIEW View
INVARIANT Consistent
PROPERTY FaultStopsProcess
