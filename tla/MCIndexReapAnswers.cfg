SPECIFICATION FairSpec
CONSTANTS
  n1 = n1  n2 = n2
  q1 = q1  q2 = q2  q3 = q3
  Node = {n1}
  Request = {q1, q2}
  Token = {1, 2, 3, 4, 5, 6}
  None = None
  PausedAtFirst = {TRUE, FALSE}
  MaxScheduled = 0
  MaxRenewals = 0
  MaxDeploys = 1
  MaxCrashes = 1
INVARIANTS TypeOK RequestsBeforeTheTestAreAnswered
PROPERTIES EveryRequestReturns
CHECK_DEADLOCK FALSE
