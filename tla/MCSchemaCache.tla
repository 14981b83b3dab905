---------------------------- MODULE MCSchemaCache ----------------------------
(* Instances of SchemaCache: a call in each of two processes. *)
EXTENDS SchemaCache, TLC

CONSTANTS p1, p2, c1, c2, w1, w2

MCHome == (c1 :> p1) @@ (c2 :> p2)
MCWriter == w1 :> p1
=============================================================================
