SPECIFICATION Spec
CONSTANTS
  k1 = k1
  s1 = s1
  s2 = s2
  a = a
  r1 = r1
  r2 = r2
  w1 = w1
  w2 = w2
  v1 = v1
  None = None
  Star = Star
  Key = {k1}
  Coll = {a}
  Slice = {s1}
  CollOf <- MCOneSlice
  FiledIn <- MCOneKey
  Read = {r1, r2}
  Mutation = {w1}
  Sweeper = {}
  Modes = {"row", "collection"}
  FillsMayFail = FALSE
  RedisMayRefuse = FALSE
  StoreReturns = FALSE
  MaxReaps = 0
  MaxExpiries = 0
SYMMETRY MCSymmetry
INVARIANTS
  KeptEntryIsNamed
CHECK_DEADLOCK FALSE
