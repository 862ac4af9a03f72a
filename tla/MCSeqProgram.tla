---------------------------- MODULE MCSeqProgram ----------------------------
(* Instances of SeqProgram for TLC: state set 0 reads the queue on its flag *)
(* or on the queue itself; state set 1 waits for a value, a flag and a      *)
(* delay.                                                                   *)
EXTENDS SeqProgram

StatesOf == [s \in {0, 1} |-> IF s = 0 THEN {"s0", "s1"} ELSE {"s0"}]
Masks == [s \in {0, 1} |-> IF s = 0 THEN [s0 |-> {"queueFlag"}, s1 |-> {"q"}]
                          ELSE [s0 |-> {"v", "flag"}]]
DelayedStates == [s \in {0, 1} |-> IF s = 0 THEN {} ELSE {"s0"}]
=============================================================================
