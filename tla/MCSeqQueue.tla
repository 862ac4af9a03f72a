----------------------------- MODULE MCSeqQueue -----------------------------
(* Instances of SeqQueue for TLC.                                           *)
EXTENDS SeqQueue

CONSTANTS v1, v2
=============================================================================
