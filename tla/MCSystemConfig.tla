--------------------------- MODULE MCSystemConfig ---------------------------
(* Small instances of SystemConfig for TLC.  Processes are                   *)
(* interchangeable, but symmetry is unsound for the liveness property that   *)
(* is checked together with the invariants.                                  *)
EXTENDS SystemConfig
=============================================================================
