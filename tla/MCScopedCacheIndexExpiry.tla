----------------------- MODULE MCScopedCacheIndexExpiry -----------------------
(* Two or three sets, one or two entries, quarters of a second.               *)
EXTENDS ScopedCacheIndexExpiry, TLC

CONSTANTS s1, s2, s3, e1, e2

MCSymmetry == Permutations(Set) \cup Permutations(Entry)
=============================================================================
