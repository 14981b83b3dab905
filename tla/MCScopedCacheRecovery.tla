------------------------ MODULE MCScopedCacheRecovery ------------------------
(* One process and up to two entries.                                         *)
EXTENDS ScopedCacheRecovery

CONSTANTS p1, k1, k2

(* One slice, or all of them *)
MCWrites == {{k1}, Entry}
=============================================================================
