------------------------- MODULE MCAutosaveRequests -------------------------
(* Instances of AutosaveRequests for TLC.                                   *)
EXTENDS AutosaveRequests

AllMethods == {PERIODIC, MONITORED, TRIGGERED}
=============================================================================
