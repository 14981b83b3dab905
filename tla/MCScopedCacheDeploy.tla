-------------------------- MODULE MCScopedCacheDeploy --------------------------
(* Deploys of small fleets: l runs the build older than the index-key sets,   *)
(* a1 and a2 the next one, b1 and b2 the one after.                           *)
EXTENDS ScopedCacheDeploy

CONSTANTS l, a1, a2, b1, b2, L, A, B

Builds == [p \in {l, a1, a2, b1, b2} |-> CASE p = l -> L [] p \in {a1, a2} -> A [] OTHER -> B]

MCBuildOf == [p \in Process |-> Builds[p]]
=============================================================================
