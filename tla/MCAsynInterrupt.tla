--------------------------- MODULE MCAsynInterrupt ---------------------------
(* Instances of AsynInterrupt for TLC.                                      *)
EXTENDS AsynInterrupt

CONSTANTS n1, n2, n3, d1, d2
=============================================================================
