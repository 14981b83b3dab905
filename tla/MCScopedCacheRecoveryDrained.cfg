SPECIFICATION FairSpec
CONSTANTS
  p1 = p1 k1 = k1 k2 = k2
  Proc = {p1}
  Entry = {k1, k2}
  Writes <- MCWrites
  Kinds = {"slices", "collection"}
  MaxFingerprints = 1
  MaxMutations = 2
  Faults = {"outage", "refusal", "death"}
  MaxFaults = 2
  MaxQueue = 1
INVARIANTS TypeOK StaleEntryIsOwed
PROPERTY EveryRowIsDrained
CHECK_DEADLOCK FALSE
