SPECIFICATION Spec
CONSTANTS
  s1 = s1 s2 = s2 s3 = s3 e1 = e1 e2 = e2
  Set = {s1, s2}
  Entry = {e1, e2}
  CacheTtl = {0, 1000, 1500}
  Factor = 2
  Elapse = {250}
  MaxFill = 250
SYMMETRY MCSymmetry
INVARIANTS TypeOK IndexKeysOutliveTheirSets SetsOutliveTheirEntries
CHECK_DEADLOCK FALSE
