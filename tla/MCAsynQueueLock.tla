-------------------------- MODULE MCAsynQueueLock --------------------------
(* Instances of AsynQueueLock for TLC.                                      *)
EXTENDS AsynQueueLock, TLC

CONSTANTS q1, q2, l1, l2
=============================================================================
