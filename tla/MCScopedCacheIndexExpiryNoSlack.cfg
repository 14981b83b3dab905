SPECIFICATION Spec
CONSTANTS
  s1 = s1 s2 = s2 s3 = s3 e1 = e1 e2 = e2
  Set = {s1, s2}
  Entry = {e1, e2}
  CacheTtl = {1000, 2000}
  Factor = 1
  Elapse = {250}
  MaxFill = 500
SYMMETRY MCSymmetry
INVARIANTS SetsOutliveTheirEntries
CHECK_DEADLOCK FALSE
