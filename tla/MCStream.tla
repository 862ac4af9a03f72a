------------------------------ MODULE MCStream ------------------------------
(***************************************************************************)
(* Two records on one device.  a asks twice and waits in between, b hands  *)
(* the bus back to execute a command; a resets the device when it does not *)
(* answer, and reads a mismatching answer again; b repeats its output.     *)
(***************************************************************************)
EXTENDS Stream, TLC
CONSTANTS a, b

MCRecords == {a, b}
MCProtocol == a :> <<"out", "in", "wait", "out", "in">> @@ b :> <<"out", "exec", "out", "in">>

NoHandlers == [res \in Handled |-> <<>>]
MCHandler == a :> [NoHandlers EXCEPT !["ReplyTimeout"] = <<"out">>,
                                     !["ScanError"] = <<"in", "out">>]
          @@ b :> [NoHandlers EXCEPT !["WriteTimeout"] = <<"out", "in">>,
                                     !["ScanError"] = <<"wait">>]

AfterTheStart == {"later out"}
Noticed == {"first lock", "first write", "rest"}
Unnoticed == Noticed \cup {"read"}
=============================================================================
