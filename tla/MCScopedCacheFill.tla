------------------------- MODULE MCScopedCacheFill -------------------------
(* Instances of ScopedCacheFill: one key, one collection.                     *)
EXTENDS ScopedCacheFill, TLC

CONSTANTS k1, s1, s2, a, r1, r2, w1, w2, v1

(* One slice, and the key filed in it *)
MCOneSlice == s1 :> a
MCOneKey == k1 :> {s1}

(* A second slice of the collection, whose sets do not name the key *)
MCOneCollection == (s1 :> a) @@ (s2 :> a)

MCSymmetry == Permutations({r1, r2}) \cup Permutations({w1, w2})
=============================================================================
