SPECIFICATION HistorySpec
CONSTANTS
  k1 = k1  s1 = s1  s2 = s2  a = a
  r1 = r1  r2 = r2  w1 = w1  w2 = w2  v1 = v1
  None = None  Star = Star
  Key = {k1}
  Coll = {a}
  Slice = {s1, s2}
  CollOf <- MCOneCollection
  FiledIn <- MCOneKey
  Read = {r1}
  Mutation = {w1}
  Sweeper = {v1}
  Modes = {"row", "collection", "clear", "flushdb"}
  FillsMayFail = TRUE
  RedisMayRefuse = TRUE
  StoreReturns = FALSE
  MaxReaps = 1
  MaxExpiries = 0
SYMMETRY MCSymmetry
INVARIANTS StaleEntryIsOwed
PROPERTIES PurgeSparesOtherSlices
CHECK_DEADLOCK FALSE
