SPECIFICATION Spec
CONSTANTS
  p1 = p1
  p2 = p2
  k1 = k1
  k2 = k2
  c1 = c1
  c2 = c2
  c3 = c3
  None = None
  Proc = {p1, p2}
  Key = {k1}
  Call = {c1, c2, c3}
  ProcOf <- MCConcurrentProcOf
  MaxWrites = 2
INVARIANTS
  OwnChangeIsNotUndone
CHECK_DEADLOCK FALSE
