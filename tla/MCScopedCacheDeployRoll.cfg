SPECIFICATION Spec
CONSTANTS
  l = l a1 = a1 a2 = a2 b1 = b1 b2 = b2
  s1 = s1
  L = L A = A B = B None = None
  Process = {l, a1, b1}
  Build = {L, A, B}
  Legacy = L
  Set = {s1}
  BuildOf <- MCBuildOf
  QuietLooks = 3
  RollBack = FALSE
  MaxPauses = 3
  MaxReconnects = 1
INVARIANTS TypeOK VouchedSetsAreNamed BuildsFillApart
CHECK_DEADLOCK FALSE
