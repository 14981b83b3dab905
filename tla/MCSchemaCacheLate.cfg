SPECIFICATION Spec
CONSTANTS
  None = None
  p1 = p1  p2 = p2
  c1 = c1  c2 = c2  w1 = w1  w2 = w2
  Process = {p1, p2}
  Call = {c1, c2}
  Write = {w1}
  Home <- MCHome
  Writer <- MCWriter
  Transactional = {}
  MaxAttempts = 1
  MaxBuilds = 2
  MaxIterations = 3
  MaxDone = 1
  MaxFaults = 0
INVARIANTS OldSchemaIsCleared
CHECK_DEADLOCK FALSE
