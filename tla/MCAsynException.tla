--------------------------- MODULE MCAsynException ---------------------------
(* Instances of AsynException for TLC.                                      *)
EXTENDS AsynException

CONSTANTS u1, u2, u3, a1
=============================================================================
