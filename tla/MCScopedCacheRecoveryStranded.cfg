SPECIFICATION FairSpec
CONSTANTS
  p1 = p1 k1 = k1 k2 = k2
  Proc = {p1}
  Entry = {k1}
  Writes <- MCWrites
  Kinds = {"collection"}
  MaxFingerprints = 1
  MaxMutations = 1
  Faults = {"death"}
  MaxFaults = 1
  MaxQueue = 1
PROPERTY SweptEntryIsDropped
CHECK_DEADLOCK FALSE
