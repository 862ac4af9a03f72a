--------------------------- MODULE MCAutosaveFiles ---------------------------
(* Instances of AutosaveFiles for TLC.                                      *)
EXTENDS AutosaveFiles
=============================================================================
