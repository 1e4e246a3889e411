CONSTANTS
  NULL = NULL
  Crash = Crash
  MaxPos = 3
  MaxMoves = 5
  Beyond = {}
  Chosen = {"tree", "table", "file", "exec", "signal", "slab", "go"}
SPECIFICATION Spec
CHECK_DEADLOCK FALSE
INVARIANTS IndexRight TableRight SignalOnce SlabPartition GoGroupsExact
PROPERTIES StreamExact ExecKeeps SignalKept
