SPECIFICATION Spec
CONSTANTS
  l = l a1 = a1 a2 = a2 b1 = b1 b2 = b2
  L = L A = A B = B None = None
  Process = {a1, a2, b1}
  Build = {L, A, B}
  Legacy = L
  Set = {}
  BuildOf <- MCBuildOf
  QuietLooks = 3
  RollBack = FALSE
  MaxPauses = 3
  MaxReconnects = 0
INVARIANTS PausesEndOnTheirOwnLooks
CHECK_DEADLOCK FALSE
