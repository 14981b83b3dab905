SPECIFICATION Spec
CONSTANTS
  n1 = n1  n2 = n2
  q1 = q1  q2 = q2  q3 = q3
  Node = {n1}
  Request = {q1, q2}
  Token = {1, 2, 3, 4, 5}
  None = None
  PausedAtFirst = {FALSE}
  MaxScheduled = 0
  MaxRenewals = 0
  MaxDeploys = 0
  MaxCrashes = 0
SYMMETRY MCSymmetry
INVARIANTS EveryRequestIsAnswered
CHECK_DEADLOCK FALSE
