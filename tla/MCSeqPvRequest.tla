--------------------------- MODULE MCSeqPvRequest ---------------------------
(* Instances of SeqPvRequest for TLC.                                       *)
EXTENDS SeqPvRequest

CONSTANTS s1, q1, q2
=============================================================================
