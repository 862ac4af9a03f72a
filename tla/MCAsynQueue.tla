---------------------------- MODULE MCAsynQueue ----------------------------
(* Instances of AsynQueue for TLC.                                          *)
EXTENDS AsynQueue

CONSTANTS u1, u2, d1

\* Two asynUsers of one device.
SameDevice == u1 :> d1 @@ u2 :> d1
=============================================================================
