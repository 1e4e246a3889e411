SPECIFICATION FairSpec
CONSTANTS
  t0 = t0
  t1 = t1
  t2 = t2
  t3 = t3
  NULL = NULL
  Thread <- MCThread
  Keeper = t0
  MaxFrozen = 2
INVARIANT QueueExact
PROPERTIES FrozenStaysOut ImplementsRoundRobin NoStarvation
