---------------------- MODULE MCScopedCacheFillHistory ----------------------
(* Instances of ScopedCacheFillHistory, on the constants of MCScopedCacheFill.*)
EXTENDS MCScopedCacheFill, ScopedCacheFillHistory
=============================================================================
