--------------------------- MODULE MCUpdaterApply ---------------------------
(* Machines on which everything may fail, or everything but the way back,  *)
(* and those on which only calls do that leave the service running.        *)
EXTENDS UpdaterApply

MCTroubles == {FaultKinds, FaultKinds \ {"restore"}, Harmless}
=============================================================================
