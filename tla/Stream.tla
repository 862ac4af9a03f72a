------------------------------- MODULE Stream -------------------------------
(***************************************************************************)
(* StreamDevice: records that talk to one device by their protocols        *)
(* (StreamEpics.cc, StreamCore.cc, AsynDriverInterface.cc).                *)
(*                                                                         *)
(* A record runs its protocol command by command.  A command that needs    *)
(* the device queues a request at the asyn port and goes on in the         *)
(* callback; the port is the one AsynPort promises.  The scan thread that  *)
(* processes a record, the thread of the port, the timer thread and the    *)
(* callback threads meet in StreamCore, one at a time for each record      *)
(* because of its mutex, so that at[r] is the place of the one inside.     *)
(*                                                                         *)
(* Left out: "I/O Intr" records, the @init handler, event, connect and     *)
(* disconnect, early and multi-line input, what is formatted and parsed.   *)
(***************************************************************************)
EXTENDS Naturals, Sequences

CONSTANTS
  Records, NoRecord,
  Protocol,        \* the commands of each record, of "out", "in", "wait", "exec"
  Handler,         \* the exception handlers of each record, by result
  FormatErrors,    \* where the output may fail to be formatted
  Refusals         \* where queueRequest may fail (the port is not connected)

Results == {"Success", "LockTimeout", "WriteTimeout", "ReplyTimeout", "ReadTimeout",
            "ScanError", "FormatError", "Fault"}

\* The results that look for an exception handler.
Handled == {"WriteTimeout", "ReplyTimeout", "ReadTimeout", "ScanError"}

ASSUME StreamAssumption ==
  /\ NoRecord \notin Records
  /\ Protocol \in [Records -> Seq({"out", "in", "wait", "exec"})]
  /\ Handler \in [Records -> [Handled -> Seq({"out", "in", "wait", "exec"})]]
  /\ FormatErrors \subseteq {"first out", "later out"}
  /\ Refusals \subseteq {"first lock", "first write", "rest", "lock", "write", "read"}

VARIABLES
  pending, serving, ordinary, expiring, blocker, \* the port, see AsynPort
  blocking,        \* the records whose blockDeviceCount is positive
  asked, line,     \* the record the device will answer, and the one whose answer
                   \* waits in the input
  pact,            \* is the record being processed?
  starting,        \* is process() still inside startProtocol?
  at, result,      \* where StreamCore is: "none", "eval" or "finish", with what
  flags, commands, runningHandler, ioAction,
  partly,          \* has a part of the output been written?
  timer, command,  \* startTimer and execute: a callback of theirs is to come
  callback         \* the processCallback is requested

portVars == <<pending, serving, ordinary, expiring, blocker>>
deviceVars == <<asked, line>>
coreVars == <<at, result, flags, commands, runningHandler>>
busVars == <<ioAction, partly, blocking>>
recordVars == <<pact, starting, callback>>
waitVars == <<timer, command>>
vars == <<portVars, deviceVars, coreVars, busVars, recordVars, waitVars>>

Port == INSTANCE AsynPort WITH Users <- Records, NoUser <- NoRecord

Init ==
  /\ Port!Init
  /\ blocking = {} /\ asked = NoRecord /\ line = NoRecord
  /\ pact = [r \in Records |-> FALSE]
  /\ starting = [r \in Records |-> FALSE]
  /\ at = [r \in Records |-> "none"]
  /\ result = [r \in Records |-> "Success"]
  /\ flags = [r \in Records |-> {}]
  /\ commands = [r \in Records |-> <<>>]
  /\ runningHandler = [r \in Records |-> "Success"]
  /\ ioAction = [r \in Records |-> "None"]
  /\ partly = [r \in Records |-> FALSE]
  /\ timer = [r \in Records |-> FALSE]
  /\ command = [r \in Records |-> FALSE]
  /\ callback = [r \in Records |-> FALSE]

\* The action Lock, by the priority of its request.
Locking == {"Lock", "LockFirst"}

BusPending == {"LockPending", "WritePending", "WaitPending"}

----------------------------------------------------------------------------
(* Steps inside StreamCore.                                                 *)

Stay(r) == at' = [at EXCEPT ![r] = "none"] /\ result' = [result EXCEPT ![r] = "Success"]
Go(r) == at' = [at EXCEPT ![r] = "eval"] /\ result' = [result EXCEPT ![r] = "Success"]
FinishWith(r, res) ==
  at' = [at EXCEPT ![r] = "finish"] /\ result' = [result EXCEPT ![r] = res]

\* The callback of a pending flag: it is cleared, and others are set.
Flags(r, cleared, set) ==
  flags' = [flags EXCEPT ![r] = (@ \ cleared) \cup set]

\* unblockProcessCallback, which does nothing for one that does not block.
Unlock(r) ==
  /\ blocking' = blocking \ {r}
  /\ blocker' = IF blocker = r THEN NoRecord ELSE blocker

\* process() returns when startProtocol does.
Return(r, ok) ==
  /\ starting' = [starting EXCEPT ![r] = FALSE]
  /\ pact' = [pact EXCEPT ![r] = @ /\ (ok \/ ~starting[r])]

\* A command whose request is refused returns false, which the callbacks that
\* evaluate it ignore.
Queue(r, where) ==
  \/ Port!Accept(r) /\ Return(r, TRUE)
  \/ where \in Refusals /\ UNCHANGED portVars /\ Return(r, FALSE)

Evaluating(r, cmd) ==
  /\ at[r] = "eval" /\ commands[r] # <<>> /\ Head(commands[r]) = cmd
  /\ commands' = [commands EXCEPT ![r] = Tail(@)]

OutFormatError(r) ==
  /\ Evaluating(r, "out")
  /\ (IF starting[r] THEN "first out" ELSE "later out") \in FormatErrors
  /\ FinishWith(r, "FormatError")
  /\ UNCHANGED <<portVars, deviceVars, flags, runningHandler, busVars, recordVars, waitVars>>

\* lockRequest queues a connect request if it finds the port disconnected.
OutLocks(r) ==
  /\ Evaluating(r, "out")
  /\ "BusOwner" \notin flags[r]
  /\ Flags(r, {}, {"LockPending"})
  /\ \E action \in Locking : ioAction' = [ioAction EXCEPT ![r] = action]
  /\ Queue(r, IF starting[r] THEN "first lock" ELSE "lock")
  /\ Stay(r)
  /\ UNCHANGED <<deviceVars, runningHandler, partly, blocking, callback, waitVars>>

OutWrites(r) ==
  /\ Evaluating(r, "out")
  /\ "BusOwner" \in flags[r]
  /\ Flags(r, {}, {"WritePending"})
  /\ ioAction' = [ioAction EXCEPT ![r] = "Write"]
  /\ partly' = [partly EXCEPT ![r] = FALSE]
  /\ Queue(r, "write")
  /\ Stay(r)
  /\ UNCHANGED <<deviceVars, runningHandler, blocking, callback, waitVars>>

EvalIn(r) ==
  /\ Evaluating(r, "in")
  /\ ioAction' = [ioAction EXCEPT ![r] = "Read"]
  /\ \/ Port!Accept(r)
     \/ "read" \in Refusals /\ UNCHANGED portVars
  /\ Return(r, TRUE)
  /\ Stay(r)
  /\ UNCHANGED <<deviceVars, flags, runningHandler, partly, blocking, callback, waitVars>>

EvalWait(r) ==
  /\ Evaluating(r, "wait")
  /\ Flags(r, {}, {"WaitPending"})
  /\ timer' = [timer EXCEPT ![r] = TRUE]
  /\ Return(r, TRUE)
  /\ Stay(r)
  /\ UNCHANGED <<portVars, deviceVars, runningHandler, busVars, callback, command>>

EvalExec(r) ==
  /\ Evaluating(r, "exec")
  /\ IF "BusOwner" \in flags[r]
       THEN Unlock(r) /\ Flags(r, {"BusOwner"}, {})
       ELSE UNCHANGED <<blocking, blocker, flags>>
  /\ command' = [command EXCEPT ![r] = TRUE]
  /\ Return(r, TRUE)
  /\ Stay(r)
  /\ UNCHANGED <<pending, serving, ordinary, expiring, deviceVars, runningHandler,
                 ioAction, partly, callback, timer>>

EvalEnd(r) ==
  /\ at[r] = "eval" /\ commands[r] = <<>>
  /\ FinishWith(r, "Success")
  /\ UNCHANGED <<portVars, deviceVars, flags, commands, runningHandler, busVars,
                 recordVars, waitVars>>

\* (mutant) The record is told to end before its handler has run.
HandlerAfterwards(r) ==
  /\ at[r] = "finish" /\ runningHandler[r] = "Success"
  /\ flags[r] \cap BusPending = {} /\ result[r] \in Handled
  /\ commands' = [commands EXCEPT ![r] = Handler[r][result[r]]]
  /\ runningHandler' = [runningHandler EXCEPT ![r] = result[r]]
  /\ callback' = [callback EXCEPT ![r] = TRUE]
  /\ Go(r)
  /\ UNCHANGED <<portVars, deviceVars, flags, busVars, pact, starting, waitVars>>

\* The first error looks for a handler; @mismatch may begin by reading the same
\* input again, which matches or not.
StartHandler(r) ==
  /\ at[r] = "finish" /\ runningHandler[r] = "Success"
  /\ flags[r] \cap BusPending = {} /\ result[r] \in Handled
  /\ LET handler == Handler[r][result[r]]
         reparse == result[r] = "ScanError" /\ handler # <<>> /\ Head(handler) = "in"
     IN commands' = [commands EXCEPT ![r] = IF reparse THEN Tail(handler) ELSE handler]
  /\ runningHandler' = [runningHandler EXCEPT ![r] = result[r]]
  /\ Go(r)
  /\ UNCHANGED <<portVars, deviceVars, flags, busVars, recordVars, waitVars>>

\* (mutant) A handler keeps the bus.
BusKept(r) ==
  /\ at[r] = "finish"
  /\ runningHandler[r] # "Success" \/ result[r] \notin Handled
  /\ IF "BusOwner" \in flags[r] /\ runningHandler[r] = "Success"
       THEN Unlock(r) /\ Flags(r, {"BusOwner"}, {})
       ELSE UNCHANGED <<blocking, blocker, flags>>
  /\ ioAction' = [ioAction EXCEPT ![r] = "None"]
  /\ callback' = [callback EXCEPT ![r] = @ \/ pact[r]]
  /\ commands' = [commands EXCEPT ![r] = <<>>]
  /\ runningHandler' = [runningHandler EXCEPT ![r] = "Success"]
  /\ Return(r, result[r] # "FormatError")
  /\ Stay(r)
  /\ UNCHANGED <<pending, serving, ordinary, expiring, deviceVars, partly, waitVars>>

\* What finishProtocol leaves: the bus is released and the record is to be
\* processed again, as the end of its processing.  (commandIndex and runningHandler
\* are not used any more and forgotten here.)
FinishProtocol(r) ==
  /\ at[r] = "finish"
  /\ \/ runningHandler[r] # "Success" \/ flags[r] \cap BusPending # {}
     \/ result[r] \notin Handled
     \/ result[r] = "ScanError" /\ Handler[r]["ScanError"] # <<>>
        /\ Head(Handler[r]["ScanError"]) = "in"
  /\ IF "BusOwner" \in flags[r]
       THEN Unlock(r) /\ Flags(r, {"BusOwner"}, {})
       ELSE UNCHANGED <<blocking, blocker, flags>>
  /\ ioAction' = [ioAction EXCEPT ![r] = "None"]
  /\ callback' = [callback EXCEPT ![r] = @ \/ pact[r]]
  /\ commands' = [commands EXCEPT ![r] = <<>>]
  /\ runningHandler' = [runningHandler EXCEPT ![r] = "Success"]
  /\ Return(r, result[r] # "FormatError")
  /\ Stay(r)
  /\ UNCHANGED <<pending, serving, ordinary, expiring, deviceVars, partly, waitVars>>

----------------------------------------------------------------------------
(* The threads of the port.                                                 *)

\* The port thread takes a request, and calls the handler of ioAction when
\* nobody is inside StreamCore for the record.
TakeRequest(r) ==
  /\ IF ioAction[r] = "LockFirst" THEN Port!ServeConnect(r) ELSE Port!Serve(r)
  /\ at[r] = "none"
  /\ at' = [at EXCEPT ![r] = "request"]
  /\ UNCHANGED <<deviceVars, result, flags, commands, runningHandler, busVars,
                 recordVars, waitVars>>

\* The timer thread takes a request that waited too long.
TakeTimeout(r) ==
  /\ Port!Expire(r)
  /\ at[r] = "none"
  /\ at' = [at EXCEPT ![r] = "timeout"]
  /\ UNCHANGED <<deviceVars, result, flags, commands, runningHandler, busVars,
                 recordVars, waitVars>>

\* (mutant) lockCallback ignores that its write is refused.
RefusalIgnored(r) ==
  /\ at[r] = "request" /\ ioAction[r] \in Locking
  /\ blocking' = blocking \cup {r}
  /\ Flags(r, {"LockPending"}, {"BusOwner", "WritePending"})
  /\ ioAction' = [ioAction EXCEPT ![r] = "Write"]
  /\ partly' = [partly EXCEPT ![r] = FALSE]
  /\ Port!Accept(r) \/ ("first write" \in Refusals /\ UNCHANGED portVars)
  /\ Stay(r)
  /\ UNCHANGED <<deviceVars, commands, runningHandler, recordVars, waitVars>>

\* lockHandler makes the record block the port, and lockCallback writes.
LockHandler(r) ==
  /\ at[r] = "request" /\ ioAction[r] \in Locking
  /\ blocking' = blocking \cup {r}
  /\ \/ /\ Flags(r, {"LockPending"}, {"BusOwner", "WritePending"})
        /\ ioAction' = [ioAction EXCEPT ![r] = "Write"]
        /\ partly' = [partly EXCEPT ![r] = FALSE]
        /\ \/ Port!Accept(r) /\ Stay(r)
           \/ "first write" \in Refusals /\ UNCHANGED portVars /\ FinishWith(r, "Fault")
     \/ /\ Flags(r, {"LockPending"}, {"BusOwner"})
        /\ FinishWith(r, "Fault")
        /\ UNCHANGED <<portVars, ioAction, partly>>
  /\ UNCHANGED <<deviceVars, commands, runningHandler, recordVars, waitVars>>

\* (mutant) Early input is left for the next in command.
InputKept(r) ==
  /\ at[r] = "request" /\ ioAction[r] = "Write"
  /\ asked' = r /\ Flags(r, {"WritePending"}, {}) /\ Go(r)
  /\ UNCHANGED <<portVars, partly, line>>
  /\ UNCHANGED <<commands, runningHandler, ioAction, blocking, recordVars, waitVars>>

\* What came in before is thrown away; then all of the output is written, a part
\* of it (at most once, the rest needs another request), or nothing in time.
WriteHandler(r) ==
  /\ at[r] = "request" /\ ioAction[r] = "Write"
  /\ line' = NoRecord
  /\ \/ asked' = r /\ Flags(r, {"WritePending"}, {}) /\ Go(r)
        /\ partly' = [partly EXCEPT ![r] = FALSE]
        /\ UNCHANGED portVars
     \/ /\ ~partly[r]
        /\ asked' = NoRecord
        /\ partly' = [partly EXCEPT ![r] = TRUE]
        /\ \/ Port!Accept(r) /\ Stay(r) /\ UNCHANGED flags
           \/ /\ "rest" \in Refusals /\ UNCHANGED portVars
              /\ Flags(r, {"WritePending"}, {}) /\ FinishWith(r, "WriteTimeout")
     \/ asked' \in {NoRecord, r} /\ Flags(r, {"WritePending"}, {})
        /\ FinishWith(r, "WriteTimeout")
        /\ partly' = [partly EXCEPT ![r] = FALSE]
        /\ UNCHANGED portVars
  /\ UNCHANGED <<commands, runningHandler, ioAction, blocking, recordVars, waitVars>>

\* The reply matches, does not match or stops too early; without one the handler
\* waited for replyTimeout; or the driver reports an error.
ReadHandler(r) ==
  /\ at[r] = "request" /\ ioAction[r] = "Read"
  /\ \/ /\ line # NoRecord /\ line' = NoRecord
        /\ Go(r) \/ FinishWith(r, "ScanError") \/ FinishWith(r, "ReadTimeout")
     \/ line = NoRecord /\ FinishWith(r, "ReplyTimeout") /\ UNCHANGED line
     \/ line' = NoRecord /\ FinishWith(r, "Fault")
  /\ UNCHANGED <<portVars, asked, flags, commands, runningHandler, busVars, recordVars,
                 waitVars>>

\* handleTimeout: lockCallback makes the record the bus owner all the same.
HandleTimeout(r) ==
  /\ at[r] = "timeout"
  /\ \/ /\ ioAction[r] \in Locking /\ Flags(r, {"LockPending"}, {"BusOwner"})
        /\ FinishWith(r, "LockTimeout")
     \/ /\ ioAction[r] = "Write" /\ Flags(r, {"WritePending"}, {})
        /\ FinishWith(r, "WriteTimeout")
     \/ ioAction[r] = "Read" /\ FinishWith(r, "Fault") /\ UNCHANGED flags
  /\ UNCHANGED <<portVars, deviceVars, commands, runningHandler, busVars, recordVars,
                 waitVars>>

\* The callbacks return when StreamCore has nothing more to do for the record.  The
\* one served blocks the port from now on if its blockDeviceCount is positive, but
\* a connect request makes nobody block it.
HandlerReturns ==
  /\ Port!Served /\ at[serving] = "none"
  /\ blocker' = IF ordinary /\ serving \in blocking THEN serving ELSE blocker
  /\ UNCHANGED <<deviceVars, coreVars, busVars, recordVars, waitVars>>

TimeoutReturns ==
  /\ Port!Expired /\ at[expiring] = "none"
  /\ UNCHANGED <<deviceVars, coreVars, busVars, recordVars, waitVars>>

----------------------------------------------------------------------------
(* The other threads, and the device.                                       *)

TimerCallback(r) ==
  /\ timer[r] /\ at[r] = "none"
  /\ timer' = [timer EXCEPT ![r] = FALSE]
  /\ Flags(r, {"WaitPending"}, {})
  /\ Go(r)
  /\ UNCHANGED <<portVars, deviceVars, commands, runningHandler, busVars, recordVars, command>>

ExecCallback(r) ==
  /\ command[r] /\ at[r] = "none"
  /\ command' = [command EXCEPT ![r] = FALSE]
  /\ Go(r) \/ FinishWith(r, "Fault")
  /\ UNCHANGED <<portVars, deviceVars, flags, commands, runningHandler, busVars, recordVars,
                 timer>>

\* process() of a record that is not being processed.
StartProtocol(r) ==
  /\ ~pact[r] /\ at[r] = "none"
  /\ pact' = [pact EXCEPT ![r] = TRUE]
  /\ starting' = [starting EXCEPT ![r] = TRUE]
  /\ flags' = [flags EXCEPT ![r] = {}]
  /\ commands' = [commands EXCEPT ![r] = Protocol[r]]
  /\ runningHandler' = [runningHandler EXCEPT ![r] = "Success"]
  /\ Go(r)
  /\ UNCHANGED <<portVars, deviceVars, busVars, waitVars>>

Process(r) == StartProtocol(r) /\ UNCHANGED callback

\* The processCallback: the record ends its processing, or starts anew if it was
\* not being processed.
ProcessCallback(r) ==
  /\ callback[r] /\ ~starting[r]
  /\ callback' = [callback EXCEPT ![r] = FALSE]
  /\ \/ /\ pact[r] /\ pact' = [pact EXCEPT ![r] = FALSE]
        /\ UNCHANGED <<portVars, deviceVars, coreVars, busVars, starting, waitVars>>
     \/ StartProtocol(r)

\* The answer comes, in time or late, but not after the next question.
DeviceAnswers ==
  /\ asked # NoRecord
  /\ line' = asked /\ asked' = NoRecord
  /\ UNCHANGED <<portVars, coreVars, busVars, recordVars, waitVars>>

Eval(r) == \/ OutFormatError(r) \/ OutLocks(r) \/ OutWrites(r) \/ EvalIn(r) \/ EvalWait(r)
           \/ EvalExec(r) \/ EvalEnd(r) \/ StartHandler(r) \/ FinishProtocol(r)

Callbacks(r) == \/ LockHandler(r) \/ WriteHandler(r) \/ ReadHandler(r) \/ HandleTimeout(r)
                \/ TimerCallback(r) \/ ExecCallback(r)

Next == \/ \E r \in Records : \/ Process(r) \/ Eval(r) \/ Callbacks(r) \/ ProcessCallback(r)
                             \/ TakeRequest(r) \/ TakeTimeout(r)
        \/ HandlerReturns \/ TimeoutReturns \/ DeviceAnswers

Spec == Init /\ [][Next]_vars

\* The code and its threads go on, timers expire; the port may take no request
\* at all, and the device may not answer.  (A callback that returned while a scan
\* thread is inside StreamCore is not held up by it, however often: hence SF.)
FairSpec ==
  /\ Spec
  /\ \A r \in Records : /\ WF_vars(Eval(r)) /\ WF_vars(Callbacks(r))
                        /\ WF_vars(ProcessCallback(r)) /\ SF_vars(TakeTimeout(r))
  /\ SF_vars(HandlerReturns) /\ SF_vars(TimeoutReturns)

----------------------------------------------------------------------------
(* Properties.                                                              *)

\* Every variable has its type.
TypeOK ==
  /\ pending \subseteq Records /\ blocking \subseteq Records
  /\ {serving, expiring, blocker, asked, line} \subseteq Records \cup {NoRecord}
  /\ ordinary \in BOOLEAN
  /\ pact \in [Records -> BOOLEAN] /\ starting \in [Records -> BOOLEAN]
  /\ at \in [Records -> {"none", "eval", "finish", "request", "timeout"}]
  /\ result \in [Records -> Results] /\ runningHandler \in [Records -> Results]
  /\ flags \in [Records -> SUBSET (BusPending \cup {"BusOwner"})]
  /\ commands \in [Records -> Seq({"out", "in", "wait", "exec"})]
  /\ ioAction \in [Records -> {"None", "Write", "Read"} \cup Locking]
  /\ partly \in [Records -> BOOLEAN] /\ timer \in [Records -> BOOLEAN]
  /\ command \in [Records -> BOOLEAN] /\ callback \in [Records -> BOOLEAN]

\* The replies of the device reach the record that has sent the request
\* (processing.html): while the owner of the bus waits for input, there is no
\* input and there will be none but the answer to its own output.
ReplyToWriter ==
  \A r \in Records :
    "BusOwner" \in flags[r] /\ ioAction[r] = "Read" /\ (r \in pending \/ at[r] = "request")
      => {asked, line} \subseteq {r, NoRecord}

\* A record that is not being processed has left nothing at the port: it does not
\* block it, waits in no queue, and is called by no thread of it.
BusReleased ==
  \A r \in Records :
    ~pact[r] => /\ r \notin blocking /\ blocker # r
                /\ r \notin pending /\ at[r] = "none"
                /\ ~timer[r] /\ ~command[r]

\* A protocol completes the processing of its record once: the processCallback
\* finds it still being processed, and nothing of the protocol going on.
CompletesOnce ==
  \A r \in Records :
    callback[r] => /\ pact[r] /\ at[r] = "none" /\ r \notin pending
                   /\ ~timer[r] /\ ~command[r]

\* Every protocol ends, and with it the processing of the record, even if the device
\* never answers, the port never takes a request or refuses one where the code
\* looks (Refusals has no other place in the runs).
ProtocolEnds == \A r \in Records : pact[r] ~> ~pact[r]
=============================================================================
