SPECIFICATION Spec
CONSTANTS
  q1 = q1
  q2 = q2
  Request <- MCRequest
  Plans <- MCPlans
  Field <- MCField
  PrimaryKey = "id"
  ScopeFields <- MCScopeFields
  AnyField = AnyField
  Row <- MCRow
  Value <- MCValue
  InitialRows <- MCInitialRows
  Read <- MCRead
  HookWrite <- MCHookWrite
  Hooked <- MCHooked
  Serializable = TRUE
  MaxAttempts = 2
  Absent = Absent
  None = None
INVARIANTS
  RolledBackTasksWereNotNeeded
CONSTRAINT OnlyDropped
CHECK_DEADLOCK FALSE
