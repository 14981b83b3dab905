---------------------------- MODULE MCMultiCache ----------------------------
(* Two processes with two keys.                                               *)
EXTENDS MultiCache, TLC

CONSTANTS p1, p2, k1, k2, c1, c2, c3

(* Two calls at a time in p1, one in p2 *)
MCConcurrentProcOf == (c1 :> p1) @@ (c2 :> p1) @@ (c3 :> p2)

(* The calls of p1 are interchangeable, and so are the keys *)
MCSymmetry == Permutations({c1, c2}) \cup Permutations({k1, k2})
=============================================================================
