------------------------------ MODULE AsynPort ------------------------------
(***************************************************************************)
(* What a blocking asyn port promises to the clients of queueRequest: the  *)
(* port thread serves one request at a time; each accepted request ends in *)
(* exactly one of three ways, its process callback is called by the port   *)
(* thread, its timeout callback by the timer thread, or it is withdrawn;   *)
(* and while one asynUser blocks the port, no other one is served, except  *)
(* for connect requests.                                                   *)
(***************************************************************************)
CONSTANTS Users, NoUser

VARIABLES
  pending,     \* the asynUsers that have a request queued
  serving,     \* the asynUser the port thread serves, or NoUser
  ordinary,    \* is the request served not a connect request?
  expiring,    \* the asynUser whose timeout callback the timer thread runs
  blocker      \* the asynUser that blocks the port, or NoUser

vars == <<pending, serving, ordinary, expiring, blocker>>

Init ==
  /\ pending = {} /\ serving = NoUser /\ ordinary = FALSE
  /\ expiring = NoUser /\ blocker = NoUser

Accept(u) ==
  /\ u \notin pending
  /\ pending' = pending \cup {u}
  /\ UNCHANGED <<serving, ordinary, expiring, blocker>>

Withdraw(u) ==
  /\ u \in pending
  /\ pending' = pending \ {u}
  /\ UNCHANGED <<serving, ordinary, expiring, blocker>>

Serve(u) ==
  /\ serving = NoUser /\ u \in pending
  /\ blocker \in {NoUser, u}
  /\ pending' = pending \ {u}
  /\ serving' = u /\ ordinary' = TRUE
  /\ UNCHANGED <<expiring, blocker>>

ServeConnect(u) ==
  /\ serving = NoUser /\ u \in pending
  /\ pending' = pending \ {u}
  /\ serving' = u /\ ordinary' = FALSE
  /\ UNCHANGED <<expiring, blocker>>

\* An asynUser can become the blocker only when its own request was served.
Served ==
  /\ serving # NoUser
  /\ serving' = NoUser /\ ordinary' = FALSE
  /\ blocker' \in IF ordinary THEN {blocker, serving} ELSE {blocker}
  /\ UNCHANGED <<pending, expiring>>

Expire(u) ==
  /\ expiring = NoUser /\ u \in pending
  /\ pending' = pending \ {u}
  /\ expiring' = u
  /\ UNCHANGED <<serving, ordinary, blocker>>

Expired ==
  /\ expiring # NoUser /\ expiring' = NoUser
  /\ UNCHANGED <<pending, serving, ordinary, blocker>>

Unblock ==
  /\ blocker # NoUser /\ blocker' = NoUser
  /\ UNCHANGED <<pending, serving, ordinary, expiring>>

Next == \/ \E u \in Users : Accept(u) \/ Withdraw(u) \/ Serve(u) \/ ServeConnect(u)
                            \/ Expire(u)
        \/ Served \/ Expired \/ Unblock

Spec == Init /\ [][Next]_vars
=============================================================================
