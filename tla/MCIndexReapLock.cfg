SPECIFICATION Spec
CONSTANTS
  n1 = n1  n2 = n2
  q1 = q1  q2 = q2  q3 = q3
  Node = {n1, n2}
  Request = {}
  Token = {1, 2, 3, 4, 5, 6, 7, 8, 9}
  None = None
  PausedAtFirst = {FALSE}
  MaxScheduled = 3
  MaxRenewals = 2
  MaxDeploys = 1
  MaxCrashes = 1
SYMMETRY MCSymmetry
INVARIANTS NoLockIsLeftBehind
PROPERTIES LockIsItsHolders
CHECK_DEADLOCK FALSE
