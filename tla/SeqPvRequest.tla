---------------------------- MODULE SeqPvRequest ----------------------------
(***************************************************************************)
(* pvGet and pvPut of a state program that wait for an answer or ask for   *)
(* it later (seq_if.c), and the thread of the PV system that brings the    *)
(* answers and the news of lost connections (seq_ca.c).                    *)
(*                                                                         *)
(* Every state set has for every channel a semaphore (getSemId, putSemId), *)
(* full unless a request is pending, and a pointer to the request it waits *)
(* for (getReq, putReq).  Requests come from one pool and go back to it    *)
(* when their answer arrives, at whatever time.                            *)
(***************************************************************************)
EXTENDS Integers

CONSTANTS
  SS,         \* the state sets, one thread each
  Kinds,      \* "get", "put": the calls the program uses
  length,     \* the elements of the program's variable, a channel each
  Polled,     \* how many elements pvPutComplete is asked about
  Requests,   \* the requests of the pool
  NoReq,      \* NULL
  MaxCalls,   \* bound: calls of pvGet and pvPut of a state set
  MaxBreaks   \* bound: lost connections

ASSUME SeqPvRequestAssumption ==
  /\ Kinds \subseteq {"get", "put"} /\ Kinds # {}
  /\ length \in Nat \ {0}
  /\ Polled \subseteq 1..length
  /\ NoReq \notin Requests
  /\ MaxCalls \in Nat /\ MaxBreaks \in Nat

Channels == 0..length - 1
Slots == SS \X Kinds \X Channels

VARIABLES
  sem,        \* [Slots -> is the semaphore full?]
  reqOf,      \* [Slots -> the request of getReq or putReq]
  pool,       \* the free requests
  asked,      \* accepted requests without an answer: [rq, slot]
  ca,         \* the callback the PV system is running
  connected,  \* [Channels -> dbch->connected]
  syncSem,    \* [SS -> syncSemId]
  pc, op,     \* [SS -> where its thread is, and the call it is in]
  open,       \* (ghost) [Slots -> is the last request still unanswered?]
  left,       \* (ghost) [Slots -> did an ASYNC call leave a request nobody asked about?]
  excused,    \* (ghost) [Slots -> may a late answer or a lost connection complete it?]
  calls, breaks

vars == <<sem, reqOf, pool, asked, ca, connected, syncSem, pc, op, open, left, excused,
          calls, breaks>>
ssVars == <<syncSem, pc, op, calls>>
caVars == <<asked, ca, connected, breaks>>

\* A call for the channel c, or for the len channels from c on.
Op(k, c, len, how, done) ==
  [kind |-> k, ch |-> c, how |-> how, rq |-> NoReq, n |-> 0, len |-> len, done |-> done]
NoOp == Op("none", 0, 0, "async", FALSE)

\* The callback of the PV system has the answer rq for a slot, or the channel c.
Doing(at, rq, slot, c) == [at |-> at, rq |-> rq, slot |-> slot, ch |-> c]
Idle == Doing("idle", NoReq, <<>>, 0)

\* The slot a state set's call works on; in pvPutComplete the one it looks at.
Slot(s) == <<s, op[s].kind, op[s].ch + op[s].n>>

\* The slot whose request pointer pvPutComplete reads and clears: always that
\* of the first element.
ReqSlot(s) == <<s, op[s].kind, op[s].ch>>

Init ==
  /\ sem = [x \in Slots |-> TRUE]
  /\ reqOf = [x \in Slots |-> NoReq]
  /\ pool = Requests /\ asked = {} /\ ca = Idle
  /\ connected = [c \in Channels |-> TRUE]
  /\ syncSem = [s \in SS |-> FALSE]
  /\ pc = [s \in SS |-> "idle"] /\ op = [s \in SS |-> NoOp]
  /\ open = [x \in Slots |-> FALSE] /\ left = [x \in Slots |-> FALSE]
  /\ excused = [x \in Slots |-> FALSE]
  /\ calls = [s \in SS |-> 0] /\ breaks = 0

Goto(s, at) == pc' = [pc EXCEPT ![s] = at]
Return(s) == Goto(s, "idle") /\ op' = [op EXCEPT ![s] = NoOp]

----------------------------------------------------------------------------
(* seq_pvGet and seq_pvPut.                                                 *)

\* pvPut looks at the connection before it takes the semaphore.
Call(s, k, c, how) ==
  /\ pc[s] = "idle" /\ calls[s] < MaxCalls
  /\ k = "put" => connected[c]
  /\ op' = [op EXCEPT ![s] = Op(k, c, 0, how, FALSE)]
  /\ calls' = [calls EXCEPT ![s] = @ + 1]
  /\ Goto(s, "take")
  /\ UNCHANGED <<sem, reqOf, pool, syncSem, open, left, excused, caVars>>

\* An answer to an older request of the slot is still to come.
Late(x) == (\E a \in asked : a.slot = x) \/ (ca.slot = x /\ ca.at \in {"compare", "write", "signal"})

Take(s) ==
  /\ pc[s] = "take" /\ sem[Slot(s)]
  /\ sem' = [sem EXCEPT ![Slot(s)] = FALSE]
  /\ excused' = [excused EXCEPT ![Slot(s)] = Late(Slot(s))]
  /\ open' = [open EXCEPT ![Slot(s)] = FALSE]
  /\ Goto(s, IF op[s].how = "async" THEN "clear" ELSE "check")
  /\ UNCHANGED <<reqOf, pool, syncSem, left, op, calls, caVars>>

\* One request is pending already: ASYNC fails at once, SYNC after a while.
TakeFails(s) ==
  /\ pc[s] = "take" /\ ~sem[Slot(s)]
  /\ Return(s)
  /\ UNCHANGED <<sem, reqOf, pool, syncSem, open, left, excused, calls, caVars>>

\* (mutant) The request nobody asked about stays.
ClearNothing(s) ==
  /\ pc[s] = "clear"
  /\ Goto(s, "check")
  /\ UNCHANGED <<sem, reqOf, pool, syncSem, op, open, left, excused, calls, caVars>>

Clear(s) ==
  /\ pc[s] = "clear"
  /\ reqOf' = [reqOf EXCEPT ![Slot(s)] = NoReq]
  /\ left' = [left EXCEPT ![Slot(s)] = FALSE]
  /\ Goto(s, "check")
  /\ UNCHANGED <<sem, pool, syncSem, op, open, excused, calls, caVars>>

\* pvGet looks at the connection with the semaphore in its hands.
Check(s) ==
  /\ pc[s] = "check"
  /\ IF op[s].kind = "get" /\ ~connected[op[s].ch]
     THEN sem' = [sem EXCEPT ![Slot(s)] = TRUE] /\ Return(s)
     ELSE Goto(s, "alloc") /\ UNCHANGED <<sem, op>>
  /\ UNCHANGED <<reqOf, pool, syncSem, open, left, excused, calls, caVars>>

\* The assertion in between is AssertHolds; a build without assertions goes on.
\* The request that was left is lost.
Alloc(s) ==
  /\ pc[s] = "alloc"
  /\ \E rq \in pool :
       /\ pool' = pool \ {rq}
       /\ reqOf' = [reqOf EXCEPT ![Slot(s)] = rq]
       /\ op' = [op EXCEPT ![s].rq = rq]
  /\ left' = [left EXCEPT ![Slot(s)] = FALSE]
  /\ Goto(s, "issue")
  /\ UNCHANGED <<sem, syncSem, open, excused, calls, caVars>>

Issue(s) ==
  /\ pc[s] = "issue"
  /\ asked' = asked \cup {[rq |-> op[s].rq, slot |-> Slot(s)]}
  /\ open' = [open EXCEPT ![Slot(s)] = TRUE]
  /\ left' = [left EXCEPT ![Slot(s)] = op[s].how = "async"]
  /\ IF op[s].how = "sync" THEN Goto(s, "wait") /\ UNCHANGED op ELSE Return(s)
  /\ UNCHANGED <<sem, reqOf, pool, ca, connected, syncSem, excused, calls, breaks>>

\* pvVarGetCallback or pvVarPutCallback fails.
IssueFails(s) ==
  /\ pc[s] = "issue"
  /\ reqOf' = [reqOf EXCEPT ![Slot(s)] = NoReq]
  /\ pool' = pool \cup {op[s].rq}
  /\ sem' = [sem EXCEPT ![Slot(s)] = TRUE]
  /\ Return(s)
  /\ UNCHANGED <<syncSem, open, left, excused, calls, caVars>>

\* SYNC waits for the answer, or until it is too late for it.
WaitOK(s) ==
  /\ pc[s] = "wait" /\ sem[Slot(s)]
  /\ sem' = [sem EXCEPT ![Slot(s)] = FALSE]
  /\ op' = [op EXCEPT ![s].done = TRUE]
  /\ Goto(s, "finish")
  /\ UNCHANGED <<reqOf, pool, syncSem, open, left, excused, calls, caVars>>

WaitTimesOut(s) ==
  /\ pc[s] = "wait" /\ ~sem[Slot(s)]
  /\ open' = [open EXCEPT ![Slot(s)] = FALSE]
  /\ Goto(s, "finish")
  /\ UNCHANGED <<sem, reqOf, pool, syncSem, op, left, excused, calls, caVars>>

\* (mutant) The semaphore is given back only if it was taken.
FinishIfDone(s) ==
  /\ pc[s] = "finish"
  /\ reqOf' = [reqOf EXCEPT ![Slot(s)] = NoReq]
  /\ sem' = [sem EXCEPT ![Slot(s)] = op[s].done]
  /\ Return(s)
  /\ UNCHANGED <<pool, syncSem, open, left, excused, calls, caVars>>

Finish(s) ==
  /\ pc[s] = "finish"
  /\ reqOf' = [reqOf EXCEPT ![Slot(s)] = NoReq]
  /\ sem' = [sem EXCEPT ![Slot(s)] = TRUE]
  /\ Return(s)
  /\ UNCHANGED <<pool, syncSem, open, left, excused, calls, caVars>>

----------------------------------------------------------------------------
(* seq_pvGetComplete and seq_pvPutComplete, called from an action or from   *)
(* the condition of a when, which ss_entry evaluates again and again.       *)

\* The call looks at element n next, and all it looked at is done.
At(o, n, done) == [o EXCEPT !.n = n, !.done = done]

Poll(s, k, c, len) ==
  /\ pc[s] = "idle"
  /\ op' = [op EXCEPT ![s] = Op(k, c, len, "poll", TRUE)]
  /\ Goto(s, "poll")
  /\ UNCHANGED <<sem, reqOf, pool, syncSem, open, left, excused, calls, caVars>>

\* Entering a state guarantees one evaluation of its conditions.
EnterWhen(s, k, c, len) ==
  /\ pc[s] = "idle"
  /\ op' = [op EXCEPT ![s] = Op(k, c, len, "when", TRUE)]
  /\ syncSem' = [syncSem EXCEPT ![s] = TRUE]
  /\ Goto(s, "when")
  /\ UNCHANGED <<sem, reqOf, pool, open, left, excused, calls, caVars>>

WhenWakes(s) ==
  /\ pc[s] = "when" /\ syncSem[s]
  /\ syncSem' = [syncSem EXCEPT ![s] = FALSE]
  /\ op' = [op EXCEPT ![s] = At(@, 0, TRUE)]
  /\ Goto(s, "poll")
  /\ UNCHANGED <<sem, reqOf, pool, open, left, excused, calls, caVars>>

PollsElement(s) == pc[s] = "poll" /\ op[s].n < op[s].len

PollNothingPending(s) ==
  /\ PollsElement(s) /\ reqOf[ReqSlot(s)] = NoReq
  /\ op' = [op EXCEPT ![s] = At(@, op[s].n + 1, op[s].done)]
  /\ UNCHANGED <<sem, reqOf, pool, syncSem, pc, open, left, excused, calls, caVars>>

PollTakes(s) ==
  /\ PollsElement(s) /\ reqOf[ReqSlot(s)] # NoReq /\ sem[Slot(s)]
  /\ sem' = [sem EXCEPT ![Slot(s)] = FALSE]
  /\ Goto(s, "pollFinish")
  /\ UNCHANGED <<reqOf, pool, syncSem, op, open, left, excused, calls, caVars>>

\* (mutant) The semaphore is signalled although no answer has come.
PollSignals(s) ==
  /\ PollsElement(s) /\ reqOf[ReqSlot(s)] # NoReq /\ ~sem[Slot(s)]
  /\ sem' = [sem EXCEPT ![Slot(s)] = TRUE]
  /\ op' = [op EXCEPT ![s] = At(@, op[s].n + 1, FALSE)]
  /\ UNCHANGED <<reqOf, pool, syncSem, pc, open, left, excused, calls, caVars>>

PollPending(s) ==
  /\ PollsElement(s) /\ reqOf[ReqSlot(s)] # NoReq /\ ~sem[Slot(s)]
  /\ op' = [op EXCEPT ![s] = At(@, op[s].n + 1, FALSE)]
  /\ UNCHANGED <<sem, reqOf, pool, syncSem, pc, open, left, excused, calls, caVars>>

PollFinish(s) ==
  /\ pc[s] = "pollFinish"
  /\ reqOf' = [reqOf EXCEPT ![ReqSlot(s)] = NoReq]
  /\ sem' = [sem EXCEPT ![Slot(s)] = TRUE]
  /\ left' = [left EXCEPT ![ReqSlot(s)] = FALSE]
  /\ op' = [op EXCEPT ![s] = At(@, op[s].n + 1, op[s].done)]
  /\ Goto(s, "poll")
  /\ UNCHANGED <<pool, syncSem, open, excused, calls, caVars>>

\* A condition that is false sends ss_entry back to wait.
Returns(s) == pc[s] = "poll" /\ op[s].n = op[s].len
PollReturns(s) ==
  /\ Returns(s)
  /\ IF op[s].how = "when" /\ ~op[s].done THEN Goto(s, "when") /\ UNCHANGED op ELSE Return(s)
  /\ UNCHANGED <<sem, reqOf, pool, syncSem, open, left, excused, calls, caVars>>

----------------------------------------------------------------------------
(* The thread of the PV system: seq_get_handler, seq_put_handler and        *)
(* seq_conn_handler.                                                        *)

\* The request goes back to the pool before anybody looks at it again.
Answer(a) ==
  /\ ca.at = "idle" /\ a \in asked
  /\ asked' = asked \ {a}
  /\ pool' = pool \cup {a.rq}
  /\ ca' = Doing("compare", a.rq, a.slot, 0)
  /\ UNCHANGED <<sem, reqOf, connected, breaks, open, left, excused, ssVars>>

\* An answer nobody waits for any more is dropped.
Compare ==
  /\ ca.at = "compare"
  /\ ca' = IF reqOf[ca.slot] = ca.rq THEN [ca EXCEPT !.at = "write"] ELSE Idle
  /\ UNCHANGED <<sem, reqOf, pool, asked, connected, breaks, open, left, excused, ssVars>>

\* (mutant) The state sets are woken before the semaphore is signalled.
WakeFirst == [write |-> "wake", wake |-> "signal", signal |-> "idle"]

\* What proc_db_events does one after the other.
After == [write |-> "signal", signal |-> "wake", wake |-> "idle"]

WriteBuffer ==
  /\ ca.at = "write"
  /\ open' = [open EXCEPT ![ca.slot] = FALSE]
  /\ ca' = [ca EXCEPT !.at = After.write]
  /\ UNCHANGED <<sem, reqOf, pool, asked, connected, breaks, left, excused, ssVars>>

SignalCompletion ==
  /\ ca.at = "signal"
  /\ sem' = [sem EXCEPT ![ca.slot] = TRUE]
  /\ ca' = [ca EXCEPT !.at = After.signal]
  /\ UNCHANGED <<reqOf, pool, asked, connected, breaks, open, left, excused, ssVars>>

\* The event mask of a state has the channels of the conditions it waits for.
InMask(s, c) == op[s].how = "when" /\ c \in op[s].ch..op[s].ch + op[s].len - 1

\* Whoever has the channel in its mask is woken, others may be for another
\* condition of their state.
Wake ==
  /\ ca.at = "wake"
  /\ \E W \in SUBSET SS :
       /\ \A s \in SS : InMask(s, ca.slot[3]) => s \in W
       /\ syncSem' = [s \in SS |-> syncSem[s] \/ s \in W]
  /\ ca' = [ca EXCEPT !.at = After.wake]
  /\ UNCHANGED <<sem, reqOf, pool, asked, connected, breaks, open, left, excused, pc, op, calls>>

Disconnect(c) ==
  /\ ca.at = "idle" /\ connected[c] /\ breaks < MaxBreaks
  /\ connected' = [connected EXCEPT ![c] = FALSE]
  /\ breaks' = breaks + 1
  /\ ca' = Doing("release", NoReq, <<>>, c)
  /\ UNCHANGED <<sem, reqOf, pool, asked, open, left, excused, ssVars>>

\* Whoever waits on this channel is released.
Release ==
  /\ ca.at = "release"
  /\ sem' = [x \in Slots |-> sem[x] \/ x[3] = ca.ch]
  /\ excused' = [x \in Slots |-> excused[x] \/ x[3] = ca.ch]
  /\ ca' = [ca EXCEPT !.at = "wakeAll"]
  /\ UNCHANGED <<reqOf, pool, asked, connected, breaks, open, left, ssVars>>

Reconnect(c) ==
  /\ ca.at = "idle" /\ ~connected[c]
  /\ connected' = [connected EXCEPT ![c] = TRUE]
  /\ ca' = Doing("wakeAll", NoReq, <<>>, 0)
  /\ UNCHANGED <<sem, reqOf, pool, asked, breaks, open, left, excused, ssVars>>

WakeAll ==
  /\ ca.at = "wakeAll"
  /\ syncSem' = [s \in SS |-> TRUE]
  /\ ca' = Idle
  /\ UNCHANGED <<sem, reqOf, pool, asked, connected, breaks, open, left, excused, pc, op, calls>>

----------------------------------------------------------------------------
Calls(s) ==
  \E k \in Kinds, c \in Channels :
    \/ \E how \in {"sync", "async"} : Call(s, k, c, how)
    \/ \E len \in IF k = "put" THEN Polled ELSE {1} :
         /\ c + len <= length
         /\ Poll(s, k, c, len) \/ EnterWhen(s, k, c, len)

StateSet(s) ==
  \/ Take(s) \/ TakeFails(s) \/ Clear(s) \/ Check(s) \/ Alloc(s)
  \/ Issue(s) \/ IssueFails(s) \/ WaitOK(s) \/ WaitTimesOut(s) \/ Finish(s)
  \/ WhenWakes(s) \/ PollNothingPending(s) \/ PollTakes(s) \/ PollPending(s)
  \/ PollFinish(s) \/ PollReturns(s)

Callback ==
  \/ Compare \/ WriteBuffer \/ SignalCompletion \/ Wake \/ Release \/ WakeAll

Next ==
  \/ \E s \in SS : Calls(s) \/ StateSet(s)
  \/ Callback
  \/ \E a \in asked : Answer(a)
  \/ \E c \in Channels : Disconnect(c) \/ Reconnect(c)

\* A state set in the middle of a call goes on, so does a callback, and channel
\* access answers every request it accepted in the end, even if with an error
\* because the channel disconnected.
Fairness ==
  /\ \A s \in SS : WF_vars(StateSet(s))
  /\ WF_vars(Callback)
  /\ \A rq \in Requests, x \in Slots :
       SF_vars([rq |-> rq, slot |-> x] \in asked /\ Answer([rq |-> rq, slot |-> x]))

Spec == Init /\ [][Next]_vars /\ Fairness
----------------------------------------------------------------------------
Ops == [kind : Kinds \cup {"none"}, ch : Channels,
        how : {"sync", "async", "poll", "when"}, rq : Requests \cup {NoReq},
        n : 0..length, len : 0..length, done : BOOLEAN]

SlotTypes ==
  /\ sem \in [Slots -> BOOLEAN]
  /\ reqOf \in [Slots -> Requests \cup {NoReq}]
  /\ open \in [Slots -> BOOLEAN] /\ left \in [Slots -> BOOLEAN]
  /\ excused \in [Slots -> BOOLEAN]
CallbackTypes ==
  /\ pool \subseteq Requests
  /\ asked \subseteq [rq : Requests, slot : Slots]
  /\ ca \in [at : {"idle", "compare", "write", "signal", "wake", "release", "wakeAll"},
              rq : Requests \cup {NoReq}, slot : Slots \cup {<<>>}, ch : Channels]
  /\ ca.at \in {"compare", "write", "signal"} => ca.slot \in Slots
  /\ connected \in [Channels -> BOOLEAN]
  /\ breaks \in 0..MaxBreaks
CallTypes ==
  /\ syncSem \in [SS -> BOOLEAN]
  /\ pc \in [SS -> {"idle", "take", "clear", "check", "alloc", "issue", "wait",
                     "finish", "when", "poll", "pollFinish"}]
  /\ op \in [SS -> Ops]
  /\ \A s \in SS : op[s].ch + op[s].len <= length /\ op[s].n <= op[s].len
  /\ calls \in [SS -> 0..MaxCalls]

\* Types of the state, and a call or a poll never leaves the program's variable.
TypeOK == SlotTypes /\ CallbackTypes /\ CallTypes

\* The assertion of pvGet and pvPut: whoever gets the semaphore finds no request.
AssertHolds == \A s \in SS : pc[s] = "alloc" => reqOf[Slot(s)] = NoReq

\* What the code achieves: a request is only ever found by a SYNC call, and then
\* it is one that an ASYNC call left and nobody has asked about since.  Calls that
\* failed, timed out, lost their connection or were asked about leave nothing, and
\* an ASYNC call finds nothing whatever came before it.
OnlyLeftFound ==
  \A s \in SS : pc[s] = "alloc" /\ reqOf[Slot(s)] # NoReq => op[s].how = "sync" /\ left[Slot(s)]

\* A semaphore is never lost: if it is empty, a call is about to give it back or
\* an answer that will is on its way.  (Without this a variable never recovers.)
Holds(s) == pc[s] \in {"clear", "check", "alloc", "issue", "finish", "pollFinish"}
OnItsWay(x) ==
  \/ [rq |-> reqOf[x], slot |-> x] \in asked
  \/ /\ ca.slot = x
     /\ \/ ca.at = "compare" /\ ca.rq = reqOf[x]
        \/ ca.at \in {"write", "signal"}
SemaphoreKept ==
  \A x \in Slots : ~sem[x] => \/ Holds(x[1]) /\ Slot(x[1]) = x
                              \/ OnItsWay(x)

\* A request belongs to one caller until its answer arrives, even if that caller
\* has long given up: it is in the pool, or about to be issued, or asked, once.
InHand(s) == pc[s] = "issue"
RequestsApart ==
  /\ \A a \in asked : a.rq \notin pool
  /\ \A a, b \in asked : a.rq = b.rq => a = b
  /\ \A s \in SS : InHand(s) =>
       /\ op[s].rq \notin pool
       /\ \A a \in asked : a.rq # op[s].rq
       /\ \A t \in SS : InHand(t) /\ op[t].rq = op[s].rq => s = t

\* A call that says a request is complete speaks the truth: the answer has come,
\* unless an answer to an older request of the variable was still missing or the
\* connection was lost meanwhile.
Complete(x) == ~open[x] \/ excused[x]
CompleteMeansAnswered ==
  \A s \in SS :
    /\ pc[s] = "finish" /\ op[s].done => Complete(Slot(s))
    /\ Returns(s) /\ op[s].done =>
         \A n \in 0..op[s].len - 1 : Complete(<<s, op[s].kind, op[s].ch + n>>)

\* A state set that waits in a when for its requests to complete notices it.
CompletionNoticed == \A s \in SS : (op[s].how = "when" /\ pc[s] # "idle") ~> (pc[s] = "idle")
=============================================================================
