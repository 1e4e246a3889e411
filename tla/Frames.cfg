CONSTANTS
  Proc = {1, 2}
  First = 1
  Pages = 2
  Frame = {f1, f2, f3}
  Uncounted = Uncounted
  None = None
  PoolMax = 2
  MaxBusy = 1
  Perms = {{"rw"}, {"lock"}}
  Deaf = {}
  Calls = {}
SPECIFICATION Spec
SYMMETRY Symmetry
CHECK_DEADLOCK FALSE
INVARIANT RefExact
PROPERTY Isolated
