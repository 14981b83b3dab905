------------------------------ MODULE MCIndexReap ------------------------------
(* Instances of IndexReap: one or two processes, one to three requests.       *)
EXTENDS IndexReap, TLC

CONSTANTS n1, n2, q1, q2, q3

MCSymmetry == Permutations({q1, q2, q3}) \cup Permutations({n1, n2})
=============================================================================
