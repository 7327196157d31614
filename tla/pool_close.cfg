SPECIFICATION Spec
CONSTANTS
  h1 = h1
  h2 = h2
  s1 = s1
  s2 = s2
  Handlers = {h1, h2}
  Subjects = {s1, s2}
  SharedKey = sharedKey
  Insts = {i0, i1, i2}
  WarmInst = i0
  None = none
  ShareModes = {TRUE, FALSE}
  PoolIdle = 1
CHECK_DEADLOCK FALSE
INVARIANTS
  CloseStopsEveryRunner
