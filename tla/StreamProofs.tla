---------------------------- MODULE StreamProofs ----------------------------
(***************************************************************************)
(* Proofs about Stream for any number of records and any protocols and     *)
(* exception handlers: type correctness, that the bus is released, that a  *)
(* protocol ends the processing of its record once, and that a reply       *)
(* reaches the record that has asked for it.                               *)
(***************************************************************************)
EXTENDS Stream, TLAPS

----------------------------------------------------------------------------
(* Types.                                                                   *)

Commands == Seq({"out", "in", "wait", "exec"})
Flagged == SUBSET (BusPending \cup {"BusOwner"})

\* process() returns with ok, if it is still going on.
LEMMA Returns ==
  ASSUME TypeOK, NEW r \in Records, NEW ok \in BOOLEAN, Return(r, ok)
  PROVE  /\ starting' \in [Records -> BOOLEAN] /\ ~starting'[r]
         /\ pact' \in [Records -> BOOLEAN]
         /\ pact'[r] <=> pact[r] /\ (ok \/ ~starting[r])
         /\ \A q \in Records \ {r} : starting'[q] = starting[q] /\ pact'[q] = pact[q]
<1>1. starting \in [Records -> BOOLEAN] /\ pact \in [Records -> BOOLEAN]
  BY DEF TypeOK
<1> DEFINE p == pact[r] /\ (ok \/ ~starting[r])
<1>2. p \in BOOLEAN
  OBVIOUS
<1>3. starting' = [starting EXCEPT ![r] = FALSE] /\ pact' = [pact EXCEPT ![r] = p]
  BY Zenon DEF Return
<1> HIDE DEF p
<1>4. /\ starting' \in [Records -> BOOLEAN] /\ ~starting'[r]
      /\ pact' \in [Records -> BOOLEAN] /\ pact'[r] = p
      /\ \A q \in Records \ {r} : starting'[q] = starting[q] /\ pact'[q] = pact[q]
  BY <1>1, <1>2, <1>3
<1> QED BY <1>4 DEF p

\* The processCallback is requested if the record is being processed.
LEMMA Requests ==
  ASSUME TypeOK, NEW r \in Records, callback' = [callback EXCEPT ![r] = @ \/ pact[r]]
  PROVE  /\ callback' \in [Records -> BOOLEAN]
         /\ callback'[r] <=> callback[r] \/ pact[r]
         /\ \A q \in Records \ {r} : callback'[q] = callback[q]
<1>1. callback \in [Records -> BOOLEAN] /\ pact \in [Records -> BOOLEAN]
  BY DEF TypeOK
<1> DEFINE c == callback[r] \/ pact[r]
<1>2. c \in BOOLEAN
  OBVIOUS
<1>3. callback' = [callback EXCEPT ![r] = c]
  OBVIOUS
<1> HIDE DEF c
<1>4. /\ callback' \in [Records -> BOOLEAN] /\ callback'[r] = c
      /\ \A q \in Records \ {r} : callback'[q] = callback[q]
  BY <1>1, <1>2, <1>3
<1> QED BY <1>4 DEF c

LEMMA ReturnsType ==
  ASSUME TypeOK, NEW r \in Records, Return(r, TRUE) \/ Return(r, FALSE)
                                    \/ Return(r, result[r] # "FormatError")
  PROVE  starting' \in [Records -> BOOLEAN] /\ pact' \in [Records -> BOOLEAN]
BY Returns

\* The command that is evaluated is no longer to come.
LEMMA EvaluatingType ==
  ASSUME TypeOK, NEW r \in Records, NEW cmd, Evaluating(r, cmd)
  PROVE  commands' \in [Records -> Commands]
BY DEF Evaluating, TypeOK, Commands

LEMMA FlagsType ==
  ASSUME TypeOK, NEW r \in Records, NEW cleared, NEW set \in Flagged, Flags(r, cleared, set)
  PROVE  flags' \in [Records -> Flagged]
BY DEF TypeOK, Flags, Flagged

LEMMA QueueType ==
  ASSUME TypeOK, NEW r \in Records, NEW where, Queue(r, where)
  PROVE  /\ starting' \in [Records -> BOOLEAN] /\ pact' \in [Records -> BOOLEAN]
         /\ pending' \subseteq Records /\ UNCHANGED <<serving, ordinary, expiring, blocker>>
<1>1. Return(r, TRUE) \/ Return(r, FALSE)
  BY DEF Queue
<1>2. pending' \subseteq Records /\ UNCHANGED <<serving, ordinary, expiring, blocker>>
  BY DEF Queue, Port!Accept, portVars, TypeOK
<1> QED BY <1>1, <1>2, ReturnsType

LEMMA HandlerType ==
  ASSUME NEW r \in Records, NEW res \in Handled
  PROVE  /\ Handler[r][res] \in Commands
         /\ Handler[r][res] # <<>> => Tail(Handler[r][res]) \in Commands
<1>1. Handler[r][res] \in Seq({"out", "in", "wait", "exec"})
  <2>1. Handler[r] \in [Handled -> Seq({"out", "in", "wait", "exec"})]
    BY StreamAssumption
  <2> QED BY <2>1
<1> QED BY <1>1 DEF Commands

\* TypeOK, with the two large sets by their names.
Types ==
  /\ pending \subseteq Records /\ blocking \subseteq Records
  /\ {serving, expiring, blocker, asked, line} \subseteq Records \cup {NoRecord}
  /\ ordinary \in BOOLEAN
  /\ pact \in [Records -> BOOLEAN] /\ starting \in [Records -> BOOLEAN]
  /\ at \in [Records -> {"none", "eval", "finish", "request", "timeout"}]
  /\ result \in [Records -> Results] /\ runningHandler \in [Records -> Results]
  /\ flags \in [Records -> Flagged]
  /\ commands \in [Records -> Commands]
  /\ ioAction \in [Records -> {"None", "Write", "Read"} \cup Locking]
  /\ partly \in [Records -> BOOLEAN] /\ timer \in [Records -> BOOLEAN]
  /\ command \in [Records -> BOOLEAN] /\ callback \in [Records -> BOOLEAN]

LEMMA EvalTypes ==
  ASSUME Types, NEW r \in Records, Eval(r)
  PROVE  Types'
<1> USE DEF portVars, deviceVars, coreVars, busVars, recordVars, waitVars, Stay, Go, FinishWith
<1>0. TypeOK
  BY DEF Types, TypeOK, Commands, Flagged
<1>1. CASE OutFormatError(r)
  BY <1>0, <1>1, EvaluatingType DEF OutFormatError, Types, Results
<1>2. CASE OutLocks(r)
  <2>1. /\ flags' \in [Records -> Flagged] /\ commands' \in [Records -> Commands]
        /\ starting' \in [Records -> BOOLEAN] /\ pact' \in [Records -> BOOLEAN]
        /\ pending' \subseteq Records /\ UNCHANGED <<serving, ordinary, expiring, blocker>>
    BY <1>0, <1>2, EvaluatingType, FlagsType, QueueType DEF OutLocks, Flagged, BusPending
  <2> QED BY <1>2, <2>1 DEF OutLocks, Types, Results
<1>3. CASE OutWrites(r)
  <2>1. /\ flags' \in [Records -> Flagged] /\ commands' \in [Records -> Commands]
        /\ starting' \in [Records -> BOOLEAN] /\ pact' \in [Records -> BOOLEAN]
        /\ pending' \subseteq Records /\ UNCHANGED <<serving, ordinary, expiring, blocker>>
    BY <1>0, <1>3, EvaluatingType, FlagsType, QueueType DEF OutWrites, Flagged, BusPending
  <2> QED BY <1>3, <2>1 DEF OutWrites, Types, Results
<1>4. CASE EvalIn(r)
  <2>1. /\ starting' \in [Records -> BOOLEAN] /\ pact' \in [Records -> BOOLEAN]
        /\ commands' \in [Records -> Commands]
    BY <1>0, <1>4, EvaluatingType, ReturnsType DEF EvalIn
  <2>2. pending' \subseteq Records /\ UNCHANGED <<serving, ordinary, expiring, blocker>>
    BY <1>0, <1>4 DEF EvalIn, Port!Accept, Types
  <2> QED BY <1>4, <2>1, <2>2 DEF EvalIn, Types, Results
<1>5. CASE EvalWait(r)
  <2>1. /\ starting' \in [Records -> BOOLEAN] /\ pact' \in [Records -> BOOLEAN]
        /\ commands' \in [Records -> Commands] /\ flags' \in [Records -> Flagged]
    BY <1>0, <1>5, EvaluatingType, FlagsType, ReturnsType DEF EvalWait, Flagged, BusPending
  <2> QED BY <1>5, <2>1 DEF EvalWait, Types, Results
<1>6. CASE EvalExec(r)
  <2>1. /\ starting' \in [Records -> BOOLEAN] /\ pact' \in [Records -> BOOLEAN]
        /\ commands' \in [Records -> Commands]
    BY <1>0, <1>6, EvaluatingType, ReturnsType DEF EvalExec
  <2>2. /\ flags' \in [Records -> Flagged] /\ blocking' \subseteq Records
        /\ blocker' \in Records \cup {NoRecord}
    BY <1>6 DEF EvalExec, Types, Flags, Flagged, Unlock
  <2>3. command' \in [Records -> BOOLEAN]
    BY <1>6 DEF EvalExec, Types
  <2>4. /\ at' \in [Records -> {"none", "eval", "finish", "request", "timeout"}]
        /\ result' \in [Records -> Results]
    BY <1>6 DEF EvalExec, Types, Results
  <2>5. UNCHANGED <<pending, serving, ordinary, expiring, deviceVars, runningHandler,
                    ioAction, partly, callback, timer>>
    BY <1>6 DEF EvalExec
  <2> QED BY <2>1, <2>2, <2>3, <2>4, <2>5 DEF Types
<1>7. CASE EvalEnd(r)
  BY <1>7 DEF EvalEnd, Types, Results
<1>8. CASE StartHandler(r)
  <2>1. result[r] \in Handled /\ result[r] \in Results
    BY <1>8 DEF StartHandler, Types
  <2>2. commands' \in [Records -> Commands]
    BY <1>8, <2>1, HandlerType DEF StartHandler, Types
  <2> QED BY <1>8, <2>1, <2>2 DEF StartHandler, Types, Results
<1>9. CASE FinishProtocol(r)
  <2>1. /\ starting' \in [Records -> BOOLEAN] /\ pact' \in [Records -> BOOLEAN]
        /\ callback' \in [Records -> BOOLEAN]
    BY <1>0, <1>9, ReturnsType, Requests DEF FinishProtocol
  <2>2. /\ flags' \in [Records -> Flagged] /\ blocking' \subseteq Records
        /\ blocker' \in Records \cup {NoRecord}
    BY <1>9 DEF FinishProtocol, Types, Flags, Flagged, Unlock
  <2>3. <<>> \in Commands
    BY DEF Commands
  <2> QED BY <1>9, <2>1, <2>2, <2>3 DEF FinishProtocol, Types, Results
<1> QED BY <1>1, <1>2, <1>3, <1>4, <1>5, <1>6, <1>7, <1>8, <1>9 DEF Eval

LEMMA CallbackTypes ==
  ASSUME Types, NEW r \in Records, Callbacks(r) \/ TakeRequest(r) \/ TakeTimeout(r)
  PROVE  Types'
<1> USE DEF portVars, deviceVars, coreVars, busVars, recordVars, waitVars, Stay, Go, FinishWith
<1>0. TypeOK
  BY DEF Types, TypeOK, Commands, Flagged
<1>1. CASE LockHandler(r)
  <2>1. /\ pending' \subseteq Records /\ UNCHANGED <<serving, ordinary, expiring, blocker>>
        /\ blocking' \subseteq Records
    BY <1>1 DEF LockHandler, Port!Accept, Types
  <2>2. flags' \in [Records -> Flagged]
    BY <1>0, <1>1, FlagsType DEF LockHandler, Flagged, BusPending
  <2>3. /\ at' \in [Records -> {"none", "eval", "finish", "request", "timeout"}]
        /\ result' \in [Records -> Results]
    BY <1>1 DEF LockHandler, Types, Results
  <2>4. /\ ioAction' \in [Records -> {"None", "Write", "Read"} \cup Locking]
        /\ partly' \in [Records -> BOOLEAN]
    BY <1>1 DEF LockHandler, Types
  <2> QED BY <1>1, <2>1, <2>2, <2>3, <2>4 DEF LockHandler, Types
<1>2. CASE WriteHandler(r)
  <2>1. /\ pending' \subseteq Records /\ UNCHANGED <<serving, ordinary, expiring, blocker>>
        /\ {asked', line'} \subseteq Records \cup {NoRecord}
    BY <1>2 DEF WriteHandler, Port!Accept, Types
  <2>2. flags' \in [Records -> Flagged]
    BY <1>2, <1>0, FlagsType DEF WriteHandler, Flagged, Types
  <2>3. /\ at' \in [Records -> {"none", "eval", "finish", "request", "timeout"}]
        /\ result' \in [Records -> Results]
    BY <1>2 DEF WriteHandler, Types, Results
  <2>4. partly' \in [Records -> BOOLEAN]
    BY <1>2 DEF WriteHandler, Types
  <2> QED BY <1>2, <2>1, <2>2, <2>3, <2>4 DEF WriteHandler, Types
<1>3. CASE ReadHandler(r)
  BY <1>3 DEF ReadHandler, Types, Results
<1>4. CASE HandleTimeout(r)
  <2>1. flags' \in [Records -> Flagged]
    BY <1>4, <1>0, FlagsType DEF HandleTimeout, Flagged, BusPending, Types
  <2> QED BY <1>4, <2>1 DEF HandleTimeout, Types, Results
<1>5. CASE TimerCallback(r)
  <2>1. flags' \in [Records -> Flagged]
    BY <1>5, <1>0, FlagsType DEF TimerCallback, Flagged, Types
  <2> QED BY <1>5, <2>1 DEF TimerCallback, Types, Results
<1>6. CASE ExecCallback(r)
  BY <1>6 DEF ExecCallback, Types, Results
<1>7. CASE TakeRequest(r)
  BY <1>7 DEF TakeRequest, Port!Serve, Port!ServeConnect, Types
<1>8. CASE TakeTimeout(r)
  BY <1>8 DEF TakeTimeout, Port!Expire, Types
<1> QED BY <1>1, <1>2, <1>3, <1>4, <1>5, <1>6, <1>7, <1>8 DEF Callbacks

LEMMA StartTypes ==
  ASSUME Types, NEW r \in Records, StartProtocol(r)
  PROVE  /\ pact' \in [Records -> BOOLEAN] /\ starting' \in [Records -> BOOLEAN]
         /\ at' \in [Records -> {"none", "eval", "finish", "request", "timeout"}]
         /\ result' \in [Records -> Results] /\ runningHandler' \in [Records -> Results]
         /\ flags' \in [Records -> Flagged]
         /\ commands' \in [Records -> Commands]
         /\ UNCHANGED <<portVars, deviceVars, busVars, waitVars>>
<1>1. Protocol[r] \in Commands /\ {} \in Flagged
  BY StreamAssumption DEF Commands, Flagged
<1> QED BY <1>1 DEF StartProtocol, Go, Types, Results

LEMMA OtherTypes ==
  ASSUME Types, [Next]_vars,
         \A r \in Records : ~(Eval(r) \/ Callbacks(r) \/ TakeRequest(r) \/ TakeTimeout(r))
  PROVE  Types'
<1> USE DEF portVars, deviceVars, coreVars, busVars, recordVars, waitVars
<1>1. ASSUME NEW r \in Records, Process(r) PROVE Types'
  BY <1>1, StartTypes DEF Process, Types
<1>2. ASSUME NEW r \in Records, ProcessCallback(r) PROVE Types'
  <2>1. callback' \in [Records -> BOOLEAN]
    BY <1>2 DEF ProcessCallback, Types
  <2>2. CASE StartProtocol(r)
    BY <2>1, <2>2, StartTypes DEF Types
  <2>3. CASE /\ pact' = [pact EXCEPT ![r] = FALSE]
             /\ UNCHANGED <<portVars, deviceVars, coreVars, busVars, starting, waitVars>>
    BY <2>1, <2>3 DEF Types
  <2> QED BY <1>2, <2>2, <2>3 DEF ProcessCallback
<1>3. CASE HandlerReturns
  BY <1>3 DEF HandlerReturns, Port!Served, Types
<1>4. CASE TimeoutReturns
  BY <1>4 DEF TimeoutReturns, Port!Expired, Types
<1>5. CASE DeviceAnswers
  BY <1>5 DEF DeviceAnswers, Types
<1>6. CASE UNCHANGED vars
  BY <1>6 DEF vars, Types
<1> QED BY <1>1, <1>2, <1>3, <1>4, <1>5, <1>6 DEF Next

LEMMA TypesIs == TypeOK <=> Types
BY DEF TypeOK, Types, Commands, Flagged

LEMMA TypeStep == TypeOK /\ [Next]_vars => TypeOK'
<1>1. TypeOK' <=> Types'
  BY DEF TypeOK, Types, Commands, Flagged
<1> QED BY <1>1, TypesIs, EvalTypes, CallbackTypes, OtherTypes

LEMMA InitTypes == Init => TypeOK
<1> SUFFICES ASSUME Init PROVE TypeOK
  OBVIOUS
<1>1. /\ {} \in SUBSET (BusPending \cup {"BusOwner"})
      /\ <<>> \in Seq({"out", "in", "wait", "exec"})
      /\ "Success" \in Results
  BY DEF Results
<1>2. /\ pending = {} /\ serving = NoRecord /\ ordinary = FALSE
      /\ expiring = NoRecord /\ blocker = NoRecord
  BY DEF Init, Port!Init
<1>3. /\ at \in [Records -> {"none", "eval", "finish", "request", "timeout"}]
      /\ result \in [Records -> Results] /\ runningHandler \in [Records -> Results]
      /\ flags \in [Records -> SUBSET (BusPending \cup {"BusOwner"})]
      /\ commands \in [Records -> Seq({"out", "in", "wait", "exec"})]
      /\ ioAction \in [Records -> {"None", "Write", "Read"} \cup Locking]
  BY <1>1 DEF Init
<1>4. /\ {pact, starting, partly, timer, command, callback} \subseteq [Records -> BOOLEAN]
  BY DEF Init
<1> QED BY <1>2, <1>3, <1>4 DEF Init, TypeOK

\* Every variable keeps its type.
THEOREM TypeCorrect == Spec => []TypeOK
BY InitTypes, TypeStep, PTL DEF Spec

----------------------------------------------------------------------------
(* The inductive invariant.                                                 *)

\* Who blocks the port has blocked it, and nobody else is served, but for a lock
\* that found the port disconnected.
PortInv ==
  /\ blocker # NoRecord => blocker \in blocking
  /\ serving # NoRecord /\ ordinary => blocker \in {NoRecord, serving}

\* The record blocks the port or, while its callback runs, will.
Holder(r) == r = blocker \/ (r = serving /\ ordinary)

\* A protocol goes on in one place: a thread, the port, a timer, a command or the
\* processCallback that ends it; and only while its record is processed.
OnePlace(r) ==
  /\ at[r] # "none" => r \notin pending /\ ~timer[r] /\ ~command[r] /\ ~callback[r]
  /\ r \in pending => ~timer[r] /\ ~command[r] /\ ~callback[r]
  /\ timer[r] => ~command[r] /\ ~callback[r]
  /\ command[r] => ~callback[r]
  /\ ~pact[r] => /\ at[r] = "none" /\ r \notin pending
                 /\ ~timer[r] /\ ~command[r] /\ ~callback[r]
  /\ starting[r] => /\ at[r] \in {"eval", "finish"} /\ "BusOwner" \notin flags[r]
                    /\ result[r] # "FormatError"
  /\ at[r] = "request" => serving = r /\ (ordinary \/ ioAction[r] = "LockFirst")

\* BusOwner says that the record blocks the port; after a timeout of the lock
\* it does not, but then the protocol is being finished.
OwnerInv(r) ==
  /\ r \in blocking => "BusOwner" \in flags[r]
  /\ "BusOwner" \in flags[r] => pact[r] /\ ~callback[r] /\ ~command[r]
  /\ "BusOwner" \in flags[r] /\ r \notin blocking
       => at[r] = "finish" /\ result[r] \notin Handled

\* Nothing but the end of a write, or of the protocol, follows its start.
WriteInv(r) ==
  \/ at[r] = "eval" \/ timer[r] \/ command[r]
  \/ (r \in pending \/ at[r] \in {"request", "timeout"}) /\ ioAction[r] = "Read"
  => "WritePending" \notin flags[r]

\* Every input of the commands comes after an output or without the bus.
WritesFirst(s) ==
  \A i \in 1..Len(s) : s[i] = "in" => \E j \in 1..i - 1 : s[j] \in {"out", "exec"}
HandlersWrite == \A r \in Records : WritesFirst(Handler[r]["WriteTimeout"])

\* The record has not written since it has the bus, and will not read before it
\* has.
Unwritten(r) ==
  /\ ioAction[r] # "Read"
  /\ \/ "WritePending" \in flags[r] /\ at[r] # "eval"
     \/ /\ at[r] = "finish"
        /\ \/ result[r] = "WriteTimeout" \/ result[r] \notin Handled
           \/ runningHandler[r] # "Success"
     \/ /\ at[r] = "eval" \/ (at[r] = "none" /\ r \notin pending)
        /\ runningHandler[r] # "Success" /\ WritesFirst(commands[r])

OwnInput(r) == {asked, line} \subseteq {r, NoRecord}

\* A record that has the bus blocks the port as soon as it has written.  (Before, a
\* lock that found the port disconnected may have given the bus to several.)
InputInv(r) ==
  HandlersWrite /\ r \in blocking => Unwritten(r) \/ (OwnInput(r) /\ Holder(r))

RecordInv(r) == OnePlace(r) /\ OwnerInv(r) /\ WriteInv(r) /\ InputInv(r)

IInv == TypeOK /\ PortInv /\ \A r \in Records : RecordInv(r)

\* A format error of the first command ends the processing of the record and has
\* the processCallback requested nevertheless.
NoEarlyError == "first out" \notin FormatErrors

----------------------------------------------------------------------------
(* Steps of one record keep what is said of the others.                     *)

\* The step leaves the record as it is.
Untouched(q) ==
  /\ at'[q] = at[q] /\ result'[q] = result[q] /\ flags'[q] = flags[q]
  /\ commands'[q] = commands[q] /\ runningHandler'[q] = runningHandler[q]
  /\ ioAction'[q] = ioAction[q] /\ pact'[q] = pact[q] /\ starting'[q] = starting[q]
  /\ timer'[q] = timer[q] /\ command'[q] = command[q] /\ callback'[q] = callback[q]
  /\ q \in pending' <=> q \in pending
  /\ q \in blocking' <=> q \in blocking

\* A record that a step does not touch, and whose input it does not spoil.
LEMMA Elsewhere ==
  ASSUME NEW q \in Records, RecordInv(q), Untouched(q),
         at[q] = "request" => serving' = q /\ ordinary' = ordinary,
         q \in blocking /\ OwnInput(q) /\ Holder(q) => OwnInput(q)' /\ Holder(q)'
  PROVE  RecordInv(q)'
<1>1. OnePlace(q)' /\ OwnerInv(q)' /\ WriteInv(q)'
  BY DEF RecordInv, OnePlace, OwnerInv, WriteInv, Untouched
<1>2. Unwritten(q) => Unwritten(q)'
  BY DEF Unwritten, Untouched, WritesFirst
<1>3. InputInv(q)'
  BY <1>2 DEF RecordInv, InputInv, Untouched, HandlersWrite, WritesFirst
<1> QED BY <1>1, <1>3 DEF RecordInv

\* A step of one record that leaves the device and the thread of the port alone.
LEMMA StepOf ==
  ASSUME IInv, TypeOK', PortInv', NEW r \in Records, RecordInv(r)',
         \A q \in Records \ {r} : Untouched(q), UNCHANGED <<serving, ordinary, asked, line>>,
         blocker' = blocker \/ blocker = r
  PROVE  IInv'
<1>1. ASSUME NEW q \in Records \ {r} PROVE RecordInv(q)'
  BY <1>1, Elsewhere DEF IInv, RecordInv, OnePlace, OwnInput, Holder
<1> QED BY <1>1 DEF IInv

\* The first of some commands that write before they read.
LEMMA FirstCommand ==
  ASSUME NEW s \in Commands, s # <<>>, WritesFirst(s)
  PROVE  /\ Head(s) # "in"
         /\ Head(s) \notin {"out", "exec"} => WritesFirst(Tail(s))
<1>1. Len(s) \in Nat /\ Len(s) >= 1 /\ Head(s) = s[1]
  BY DEF Commands
<1>2. Head(s) # "in"
  BY <1>1 DEF WritesFirst
<1>3. ASSUME Head(s) \notin {"out", "exec"},
             NEW i \in 1..Len(Tail(s)), Tail(s)[i] = "in"
      PROVE  \E j \in 1..i - 1 : Tail(s)[j] \in {"out", "exec"}
  <2>1. /\ Len(Tail(s)) = Len(s) - 1
        /\ \A k \in 1..Len(s) - 1 : Tail(s)[k] = s[k + 1]
    BY <1>1 DEF Commands
  <2>2. i + 1 \in 1..Len(s) /\ s[i + 1] = "in"
    BY <1>1, <1>3, <2>1
  <2>3. PICK j \in 1..(i + 1) - 1 : s[j] \in {"out", "exec"}
    BY <2>2 DEF WritesFirst
  <2>4. j # 1
    BY <1>1, <1>3, <2>3
  <2>5. j - 1 \in 1..i - 1 /\ Tail(s)[j - 1] = s[j]
    BY <1>1, <2>1, <2>3, <2>4
  <2> QED BY <2>3, <2>5
<1> QED BY <1>2, <1>3 DEF WritesFirst

\* The bus is released if the record has it.
LEMMA Releases ==
  ASSUME IInv, NEW r \in Records, UNCHANGED <<serving, ordinary>>,
         IF "BusOwner" \in flags[r]
           THEN Unlock(r) /\ Flags(r, {"BusOwner"}, {})
           ELSE UNCHANGED <<blocking, blocker, flags>>
  PROVE  /\ PortInv' /\ r \notin blocking' /\ (blocker' = blocker \/ blocker = r)
         /\ "BusOwner" \notin flags'[r] /\ flags'[r] \subseteq flags[r]
         /\ \A q \in Records \ {r} : /\ flags'[q] = flags[q]
                                     /\ q \in blocking' <=> q \in blocking
<1>1. TypeOK /\ PortInv /\ OwnerInv(r) /\ r # NoRecord
  BY StreamAssumption DEF IInv, RecordInv
<1>2. CASE "BusOwner" \in flags[r]
  <2>1. /\ blocking' = blocking \ {r}
        /\ blocker' = IF blocker = r THEN NoRecord ELSE blocker
        /\ flags' = [flags EXCEPT ![r] = flags[r] \ {"BusOwner"}]
    BY <1>2 DEF Unlock, Flags
  <2>2. PortInv'
    BY <1>1, <2>1 DEF PortInv
  <2> QED BY <1>1, <2>1, <2>2 DEF TypeOK
<1>3. CASE "BusOwner" \notin flags[r]
  BY <1>1, <1>3 DEF PortInv, OwnerInv
<1> QED BY <1>2, <1>3

----------------------------------------------------------------------------
(* The commands.                                                            *)

\* It returns without an error.
LEMMA ReturnsTrue ==
  ASSUME TypeOK, NEW r \in Records, Return(r, TRUE)
  PROVE  /\ ~starting'[r] /\ (pact'[r] <=> pact[r])
         /\ \A q \in Records \ {r} : starting'[q] = starting[q] /\ pact'[q] = pact[q]
BY Returns

\* A request is queued, or refused in the middle of process() or later.
LEMMA Queues ==
  ASSUME TypeOK, NEW r \in Records, NEW where, Queue(r, where)
  PROVE  /\ UNCHANGED <<serving, ordinary, expiring, blocker>>
         /\ \A q \in Records \ {r} : q \in pending' <=> q \in pending
         /\ ~starting'[r] /\ (pact'[r] => pact[r])
         /\ ~pact'[r] => ~pact[r] \/ (starting[r] /\ pending' = pending)
         /\ \A q \in Records \ {r} : starting'[q] = starting[q] /\ pact'[q] = pact[q]
<1>1. /\ UNCHANGED <<serving, ordinary, expiring, blocker>>
      /\ \A q \in Records \ {r} : q \in pending' <=> q \in pending
      /\ Return(r, TRUE) \/ (Return(r, FALSE) /\ pending' = pending)
  BY DEF Queue, Port!Accept, portVars
<1>2. CASE Return(r, TRUE)
  BY <1>1, <1>2, ReturnsTrue
<1>3. CASE Return(r, FALSE) /\ pending' = pending
  BY <1>1, <1>3, Returns
<1> QED BY <1>1, <1>2, <1>3

LEMMA OutFormatErrorStep ==
  ASSUME IInv, TypeOK', NoEarlyError, NEW r \in Records, OutFormatError(r)
  PROVE  IInv'
<1> USE DEF portVars, deviceVars, busVars, recordVars, waitVars
<1>1. TypeOK /\ PortInv /\ RecordInv(r)
  BY DEF IInv
<1>2. /\ at[r] = "eval" /\ ~starting[r]
      /\ at' = [at EXCEPT ![r] = "finish"] /\ result' = [result EXCEPT ![r] = "FormatError"]
      /\ commands' = [commands EXCEPT ![r] = Tail(@)]
      /\ UNCHANGED <<portVars, deviceVars, flags, runningHandler, busVars, recordVars,
                     waitVars>>
  BY <1>1 DEF OutFormatError, Evaluating, FinishWith, NoEarlyError
<1>3. PortInv'
  BY <1>1, <1>2 DEF PortInv
<1>4. RecordInv(r)'
  <2>1. at'[r] = "finish" /\ result'[r] = "FormatError"
    BY <1>1, <1>2 DEF TypeOK
  <2>2. OnePlace(r)' /\ OwnerInv(r)' /\ WriteInv(r)'
    BY <1>1, <1>2, <2>1 DEF RecordInv, OnePlace, OwnerInv, WriteInv, Handled
  <2>3. InputInv(r)'
    BY <1>1, <1>2, <2>1 DEF RecordInv, InputInv, Unwritten, OwnInput, Holder, Handled
  <2> QED BY <2>2, <2>3 DEF RecordInv
<1>5. \A q \in Records \ {r} : Untouched(q)
  BY <1>1, <1>2 DEF Untouched, TypeOK
<1> QED BY <1>2, <1>3, <1>4, <1>5, StepOf

LEMMA OutLocksStep ==
  ASSUME IInv, TypeOK', NEW r \in Records, OutLocks(r)
  PROVE  IInv'
<1> USE DEF portVars, deviceVars, waitVars
<1>1. TypeOK /\ PortInv /\ RecordInv(r)
  BY DEF IInv
<1>2. /\ at[r] = "eval" /\ at' = [at EXCEPT ![r] = "none"]
      /\ result' = [result EXCEPT ![r] = "Success"]
      /\ "BusOwner" \notin flags[r]
      /\ flags' = [flags EXCEPT ![r] = (@ \ {}) \cup {"LockPending"}]
      /\ \E a \in Locking : ioAction' = [ioAction EXCEPT ![r] = a]
      /\ commands' = [commands EXCEPT ![r] = Tail(@)]
      /\ UNCHANGED <<blocking, deviceVars, runningHandler, callback, waitVars>>
  BY <1>1 DEF OutLocks, Evaluating, Stay, Flags
<1>3. /\ UNCHANGED <<serving, ordinary, expiring, blocker>>
      /\ \A q \in Records \ {r} : q \in pending' <=> q \in pending
      /\ ~starting'[r] /\ (pact'[r] => pact[r])
      /\ ~pact'[r] => ~pact[r] \/ pending' = pending
      /\ \A q \in Records \ {r} : starting'[q] = starting[q] /\ pact'[q] = pact[q]
  BY <1>1, Queues DEF OutLocks
<1>4. PortInv'
  BY <1>1, <1>2, <1>3 DEF PortInv
<1>5. RecordInv(r)'
  BY <1>1, <1>2, <1>3 DEF RecordInv, OnePlace, OwnerInv, WriteInv, InputInv, TypeOK
<1>6. \A q \in Records \ {r} : Untouched(q)
  BY <1>1, <1>2, <1>3 DEF Untouched, TypeOK
<1> QED BY <1>2, <1>3, <1>4, <1>5, <1>6, StepOf

LEMMA OutWritesStep ==
  ASSUME IInv, TypeOK', NEW r \in Records, OutWrites(r)
  PROVE  IInv'
<1> USE DEF portVars, deviceVars, waitVars
<1>1. TypeOK /\ PortInv /\ RecordInv(r)
  BY DEF IInv
<1>2. /\ at[r] = "eval" /\ at' = [at EXCEPT ![r] = "none"]
      /\ result' = [result EXCEPT ![r] = "Success"]
      /\ "BusOwner" \in flags[r]
      /\ flags' = [flags EXCEPT ![r] = (@ \ {}) \cup {"WritePending"}]
      /\ ioAction' = [ioAction EXCEPT ![r] = "Write"]
      /\ commands' = [commands EXCEPT ![r] = Tail(@)]
      /\ UNCHANGED <<blocking, deviceVars, runningHandler, callback, waitVars>>
  BY <1>1 DEF OutWrites, Evaluating, Stay, Flags
<1>3. /\ UNCHANGED <<serving, ordinary, expiring, blocker>>
      /\ \A q \in Records \ {r} : q \in pending' <=> q \in pending
      /\ ~starting'[r] /\ pact'[r]
      /\ \A q \in Records \ {r} : starting'[q] = starting[q] /\ pact'[q] = pact[q]
  <2>1. ~starting[r] /\ pact[r]
    BY <1>1, <1>2 DEF RecordInv, OnePlace
  <2> QED BY <1>1, <2>1, Queues DEF OutWrites
<1>4. PortInv'
  BY <1>1, <1>2, <1>3 DEF PortInv
<1>5. RecordInv(r)'
  <2>1. OnePlace(r)' /\ OwnerInv(r)' /\ WriteInv(r)'
    BY <1>1, <1>2, <1>3 DEF RecordInv, OnePlace, OwnerInv, WriteInv, TypeOK
  <2>2. InputInv(r)'
    BY <1>1, <1>2 DEF InputInv, Unwritten, TypeOK
  <2> QED BY <2>1, <2>2 DEF RecordInv
<1>6. \A q \in Records \ {r} : Untouched(q)
  BY <1>1, <1>2, <1>3 DEF Untouched, TypeOK
<1> QED BY <1>2, <1>3, <1>4, <1>5, <1>6, StepOf

LEMMA EvalInStep ==
  ASSUME IInv, TypeOK', NEW r \in Records, EvalIn(r)
  PROVE  IInv'
<1> USE DEF portVars, deviceVars, waitVars
<1>1. TypeOK /\ PortInv /\ RecordInv(r)
  BY DEF IInv
<1>2. /\ at[r] = "eval" /\ at' = [at EXCEPT ![r] = "none"]
      /\ result' = [result EXCEPT ![r] = "Success"]
      /\ ioAction' = [ioAction EXCEPT ![r] = "Read"]
      /\ commands' = [commands EXCEPT ![r] = Tail(@)]
      /\ commands[r] # <<>> /\ Head(commands[r]) = "in"
      /\ Return(r, TRUE) /\ (pending' = pending \cup {r} \/ pending' = pending)
      /\ UNCHANGED <<serving, ordinary, expiring, blocker, blocking, deviceVars,
                     flags, runningHandler, callback, waitVars>>
  BY <1>1 DEF EvalIn, Evaluating, Stay, Port!Accept
<1>3. /\ ~starting'[r] /\ (pact'[r] <=> pact[r])
      /\ \A q \in Records \ {r} : starting'[q] = starting[q] /\ pact'[q] = pact[q]
  BY <1>1, <1>2, ReturnsTrue
<1>4. PortInv'
  BY <1>1, <1>2 DEF PortInv
<1>5. RecordInv(r)'
  <2>1. OnePlace(r)' /\ OwnerInv(r)' /\ WriteInv(r)'
    BY <1>1, <1>2, <1>3 DEF RecordInv, OnePlace, OwnerInv, WriteInv, TypeOK
  <2>2. InputInv(r)'
    <3>1. ~WritesFirst(commands[r])
      BY <1>1, <1>2, FirstCommand DEF TypeOK, Commands
    <3>2. ~Unwritten(r)
      BY <1>2, <3>1 DEF Unwritten
    <3> QED BY <1>1, <1>2, <3>2 DEF RecordInv, InputInv, OwnInput, Holder
  <2> QED BY <2>1, <2>2 DEF RecordInv
<1>6. \A q \in Records \ {r} : Untouched(q)
  BY <1>1, <1>2, <1>3 DEF Untouched, TypeOK
<1> QED BY <1>2, <1>4, <1>5, <1>6, StepOf

LEMMA EvalWaitStep ==
  ASSUME IInv, TypeOK', NEW r \in Records, EvalWait(r)
  PROVE  IInv'
<1> USE DEF portVars, deviceVars, busVars
<1>1. TypeOK /\ PortInv /\ RecordInv(r)
  BY DEF IInv
<1>2. /\ at[r] = "eval" /\ at' = [at EXCEPT ![r] = "none"]
      /\ result' = [result EXCEPT ![r] = "Success"]
      /\ flags' = [flags EXCEPT ![r] = (@ \ {}) \cup {"WaitPending"}]
      /\ timer' = [timer EXCEPT ![r] = TRUE]
      /\ commands' = [commands EXCEPT ![r] = Tail(@)]
      /\ commands[r] # <<>> /\ Head(commands[r]) = "wait"
      /\ Return(r, TRUE)
      /\ UNCHANGED <<portVars, deviceVars, runningHandler, busVars, callback, command>>
  BY <1>1 DEF EvalWait, Evaluating, Flags, Stay
<1>3. /\ ~starting'[r] /\ (pact'[r] <=> pact[r])
      /\ \A q \in Records \ {r} : starting'[q] = starting[q] /\ pact'[q] = pact[q]
  BY <1>1, <1>2, ReturnsTrue
<1>4. PortInv'
  BY <1>1, <1>2 DEF PortInv
<1>5. RecordInv(r)'
  <2>0. /\ at'[r] = "none"
        /\ "BusOwner" \in flags'[r] <=> "BusOwner" \in flags[r]
        /\ "WritePending" \in flags'[r] <=> "WritePending" \in flags[r]
        /\ timer'[r] /\ commands'[r] = Tail(commands[r])
    BY <1>1, <1>2 DEF TypeOK
  <2>1. OnePlace(r)' /\ OwnerInv(r)' /\ WriteInv(r)'
    BY <1>1, <1>2, <1>3, <2>0 DEF RecordInv, OnePlace, OwnerInv, WriteInv
  <2>2. InputInv(r)'
    <3>1. WritesFirst(commands[r]) => WritesFirst(commands'[r])
      BY <1>1, <1>2, <2>0, FirstCommand DEF TypeOK, Commands
    <3>2. Unwritten(r) => Unwritten(r)'
      BY <1>1, <1>2, <2>0, <3>1 DEF RecordInv, OnePlace, Unwritten, WritesFirst
    <3> QED BY <1>1, <1>2, <3>2 DEF RecordInv, InputInv, OwnInput, Holder
  <2> QED BY <2>1, <2>2 DEF RecordInv
<1>6. \A q \in Records \ {r} : Untouched(q)
  BY <1>1, <1>2, <1>3 DEF Untouched, TypeOK
<1> QED BY <1>2, <1>4, <1>5, <1>6, StepOf

LEMMA EvalExecStep ==
  ASSUME IInv, TypeOK', NEW r \in Records, EvalExec(r)
  PROVE  IInv'
<1> USE DEF deviceVars
<1>1. TypeOK /\ RecordInv(r)
  BY DEF IInv
<1>2. /\ at[r] = "eval" /\ at' = [at EXCEPT ![r] = "none"]
      /\ result' = [result EXCEPT ![r] = "Success"]
      /\ command' = [command EXCEPT ![r] = TRUE]
      /\ commands' = [commands EXCEPT ![r] = Tail(@)]
      /\ Return(r, TRUE)
      /\ UNCHANGED <<pending, serving, ordinary, expiring, deviceVars, runningHandler,
                     ioAction, partly, callback, timer>>
  BY <1>1 DEF EvalExec, Evaluating, Stay
<1>3. /\ ~starting'[r] /\ (pact'[r] <=> pact[r])
      /\ \A q \in Records \ {r} : starting'[q] = starting[q] /\ pact'[q] = pact[q]
  BY <1>1, <1>2, ReturnsTrue
<1>4. /\ PortInv' /\ r \notin blocking' /\ (blocker' = blocker \/ blocker = r)
      /\ "BusOwner" \notin flags'[r] /\ flags'[r] \subseteq flags[r]
      /\ \A q \in Records \ {r} : flags'[q] = flags[q] /\ (q \in blocking' <=> q \in blocking)
  BY <1>2, Releases DEF EvalExec
<1>5. RecordInv(r)'
  BY <1>1, <1>2, <1>3, <1>4 DEF RecordInv, OnePlace, OwnerInv, WriteInv, InputInv, TypeOK
<1>6. \A q \in Records \ {r} : Untouched(q)
  BY <1>1, <1>2, <1>3, <1>4 DEF Untouched, TypeOK
<1> QED BY <1>2, <1>4, <1>5, <1>6, StepOf

LEMMA EvalEndStep ==
  ASSUME IInv, TypeOK', NEW r \in Records, EvalEnd(r)
  PROVE  IInv'
<1> USE DEF portVars, deviceVars, busVars, recordVars, waitVars
<1>1. TypeOK /\ PortInv /\ RecordInv(r)
  BY DEF IInv
<1>2. /\ at[r] = "eval"
      /\ at' = [at EXCEPT ![r] = "finish"] /\ result' = [result EXCEPT ![r] = "Success"]
      /\ UNCHANGED <<portVars, deviceVars, flags, commands, runningHandler, busVars,
                     recordVars, waitVars>>
  BY <1>1 DEF EvalEnd, FinishWith
<1>3. PortInv'
  BY <1>1, <1>2 DEF PortInv
<1>4. RecordInv(r)'
  <2>1. at'[r] = "finish" /\ result'[r] = "Success"
    BY <1>1, <1>2 DEF TypeOK
  <2>2. OnePlace(r)' /\ OwnerInv(r)' /\ WriteInv(r)'
    BY <1>1, <1>2, <2>1 DEF RecordInv, OnePlace, OwnerInv, WriteInv, Handled
  <2>3. InputInv(r)'
    BY <1>1, <1>2, <2>1 DEF RecordInv, InputInv, Unwritten, OwnInput, Holder, Handled
  <2> QED BY <2>2, <2>3 DEF RecordInv
<1>5. \A q \in Records \ {r} : Untouched(q)
  BY <1>1, <1>2 DEF Untouched, TypeOK
<1> QED BY <1>2, <1>3, <1>4, <1>5, StepOf

LEMMA StartHandlerStep ==
  ASSUME IInv, TypeOK', NEW r \in Records, StartHandler(r)
  PROVE  IInv'
<1> USE DEF portVars, deviceVars, busVars, recordVars, waitVars
<1>1. TypeOK /\ PortInv /\ RecordInv(r)
  BY DEF IInv
<1>2. /\ at[r] = "finish" /\ runningHandler[r] = "Success"
      /\ flags[r] \cap BusPending = {} /\ result[r] \in Handled
      /\ at' = [at EXCEPT ![r] = "eval"] /\ result' = [result EXCEPT ![r] = "Success"]
      /\ runningHandler' = [runningHandler EXCEPT ![r] = result[r]]
      /\ UNCHANGED <<portVars, deviceVars, flags, busVars, recordVars, waitVars>>
  BY DEF StartHandler, Go
<1>3. \E s : commands' = [commands EXCEPT ![r] = s]
  BY DEF StartHandler
<1>4. PortInv'
  BY <1>1, <1>2 DEF PortInv
<1>5. RecordInv(r)'
  <2>1. /\ at'[r] = "eval" /\ result'[r] = "Success" /\ runningHandler'[r] = result[r]
        /\ "WritePending" \notin flags[r]
    BY <1>1, <1>2 DEF TypeOK, BusPending
  <2>2. OnePlace(r)' /\ OwnerInv(r)' /\ WriteInv(r)'
    BY <1>1, <1>2, <2>1 DEF RecordInv, OnePlace, OwnerInv, WriteInv
  <2>3. ASSUME HandlersWrite, Unwritten(r) PROVE Unwritten(r)'
    <3>1. result[r] = "WriteTimeout"
      BY <1>2, <2>1, <2>3 DEF Unwritten
    <3>2. commands'[r] = Handler[r]["WriteTimeout"]
      BY <1>1, <3>1 DEF StartHandler, TypeOK
    <3>3. WritesFirst(commands'[r])
      BY <2>3, <3>2 DEF HandlersWrite
    <3> QED BY <1>2, <2>1, <2>3, <3>1, <3>3 DEF Unwritten, WritesFirst
  <2>4. InputInv(r)'
    BY <1>1, <1>2, <2>3 DEF RecordInv, InputInv, OwnInput, Holder, HandlersWrite, WritesFirst
  <2> QED BY <2>2, <2>4 DEF RecordInv
<1>6. \A q \in Records \ {r} : Untouched(q)
  BY <1>1, <1>2, <1>3 DEF Untouched, TypeOK
<1> QED BY <1>2, <1>4, <1>5, <1>6, StepOf

LEMMA FinishProtocolStep ==
  ASSUME IInv, TypeOK', NEW r \in Records, FinishProtocol(r)
  PROVE  IInv'
<1> USE DEF deviceVars, waitVars
<1>1. TypeOK /\ RecordInv(r)
  BY DEF IInv
<1>2. /\ at[r] = "finish" /\ at' = [at EXCEPT ![r] = "none"]
      /\ result' = [result EXCEPT ![r] = "Success"]
      /\ runningHandler' = [runningHandler EXCEPT ![r] = "Success"]
      /\ commands' = [commands EXCEPT ![r] = <<>>]
      /\ ioAction' = [ioAction EXCEPT ![r] = "None"]
      /\ callback' = [callback EXCEPT ![r] = @ \/ pact[r]]
      /\ Return(r, result[r] # "FormatError")
      /\ UNCHANGED <<pending, serving, ordinary, expiring, deviceVars, waitVars>>
  BY <1>1 DEF FinishProtocol, Stay
<1>3. /\ ~starting'[r] /\ pact'[r] = pact[r] /\ pact[r]
      /\ \A q \in Records \ {r} : starting'[q] = starting[q] /\ pact'[q] = pact[q]
  <2>1. pact[r] /\ (result[r] # "FormatError" \/ ~starting[r])
    BY <1>1, <1>2 DEF RecordInv, OnePlace
  <2>2. (result[r] # "FormatError") \in BOOLEAN
    OBVIOUS
  <2> QED BY <1>1, <1>2, <2>1, <2>2, Returns DEF TypeOK
<1>4. /\ PortInv' /\ r \notin blocking' /\ (blocker' = blocker \/ blocker = r)
      /\ "BusOwner" \notin flags'[r] /\ flags'[r] \subseteq flags[r]
      /\ \A q \in Records \ {r} : flags'[q] = flags[q] /\ (q \in blocking' <=> q \in blocking)
  BY <1>2, Releases DEF FinishProtocol
<1>5. \A q \in Records \ {r} : callback'[q] = callback[q]
  BY <1>1, <1>2, Requests
<1>6. RecordInv(r)'
  <2>1. /\ at[r] # "none" /\ at'[r] = "none" /\ ioAction'[r] = "None"
    BY <1>1, <1>2 DEF TypeOK
  <2> QED BY <1>1, <1>2, <1>3, <1>4, <2>1 DEF RecordInv, OnePlace, OwnerInv, WriteInv, InputInv
<1>7. \A q \in Records \ {r} : Untouched(q)
  BY <1>1, <1>2, <1>3, <1>4, <1>5 DEF Untouched, TypeOK
<1> QED BY <1>2, <1>4, <1>6, <1>7, StepOf

----------------------------------------------------------------------------
(* The callbacks of the port, and the other threads.                        *)

LEMMA TakeRequestStep ==
  ASSUME IInv, TypeOK', NEW r \in Records, TakeRequest(r)
  PROVE  IInv'
<1> USE DEF deviceVars, busVars, recordVars, waitVars
<1>1. TypeOK /\ PortInv /\ RecordInv(r)
  BY DEF IInv
<1>2. /\ at[r] = "none" /\ at' = [at EXCEPT ![r] = "request"] /\ r \in pending
      /\ pending' = pending \ {r} /\ serving = NoRecord /\ serving' = r
      /\ UNCHANGED blocker
      /\ IF ioAction[r] = "LockFirst" THEN ~ordinary' ELSE ordinary' /\ blocker \in {NoRecord, r}
      /\ UNCHANGED <<deviceVars, result, flags, commands, runningHandler, busVars,
                     recordVars, waitVars>>
  BY DEF TakeRequest, Port!Serve, Port!ServeConnect
<1>3. PortInv'
  BY <1>1, <1>2 DEF PortInv
<1>4. RecordInv(r)'
  <2>1. at'[r] = "request" /\ r \notin pending' /\ pact[r]
    BY <1>1, <1>2 DEF TypeOK, RecordInv, OnePlace
  <2>2. OnePlace(r)' /\ OwnerInv(r)' /\ WriteInv(r)'
    BY <1>1, <1>2, <2>1 DEF RecordInv, OnePlace, OwnerInv, WriteInv
  <2>3. Holder(r) => Holder(r)'
    BY <1>2, StreamAssumption DEF Holder
  <2>4. OwnInput(r) => OwnInput(r)'
    BY <1>2 DEF OwnInput
  <2>5. InputInv(r)'
    BY <1>1, <1>2, <2>1, <2>3, <2>4 DEF RecordInv, InputInv, Unwritten
  <2> QED BY <2>2, <2>5 DEF RecordInv
<1>5. ASSUME NEW q \in Records \ {r} PROVE RecordInv(q)'
  <2>1. Untouched(q)
    BY <1>1, <1>2 DEF Untouched, TypeOK
  <2>2. at[q] # "request"
    BY <1>2, StreamAssumption DEF IInv, RecordInv, OnePlace
  <2>3. OwnInput(q) /\ Holder(q) => OwnInput(q)' /\ Holder(q)'
    BY <1>2, StreamAssumption DEF OwnInput, Holder
  <2> QED BY <1>2, <2>1, <2>2, <2>3, Elsewhere DEF IInv
<1> QED BY <1>3, <1>4, <1>5 DEF IInv

LEMMA TakeTimeoutStep ==
  ASSUME IInv, TypeOK', NEW r \in Records, TakeTimeout(r)
  PROVE  IInv'
<1> USE DEF deviceVars, busVars, recordVars, waitVars
<1>1. TypeOK /\ PortInv /\ RecordInv(r)
  BY DEF IInv
<1>2. /\ at[r] = "none" /\ at' = [at EXCEPT ![r] = "timeout"] /\ r \in pending
      /\ pending' = pending \ {r} /\ UNCHANGED <<serving, ordinary, blocker>>
      /\ UNCHANGED <<deviceVars, result, flags, commands, runningHandler, busVars,
                     recordVars, waitVars>>
  BY DEF TakeTimeout, Port!Expire
<1>3. PortInv'
  BY <1>1, <1>2 DEF PortInv
<1>4. RecordInv(r)'
  <2>1. at'[r] = "timeout" /\ r \notin pending' /\ pact[r]
    BY <1>1, <1>2 DEF TypeOK, RecordInv, OnePlace
  <2>2. OnePlace(r)' /\ OwnerInv(r)' /\ WriteInv(r)'
    BY <1>1, <1>2, <2>1 DEF RecordInv, OnePlace, OwnerInv, WriteInv
  <2>3. InputInv(r)'
    BY <1>1, <1>2, <2>1 DEF RecordInv, InputInv, Unwritten, OwnInput, Holder
  <2> QED BY <2>2, <2>3 DEF RecordInv
<1>5. \A q \in Records \ {r} : Untouched(q)
  BY <1>1, <1>2 DEF Untouched, TypeOK
<1> QED BY <1>2, <1>3, <1>4, <1>5, StepOf

LEMMA LockHandlerStep ==
  ASSUME IInv, TypeOK', NEW r \in Records, LockHandler(r)
  PROVE  IInv'
<1> USE DEF deviceVars, recordVars, waitVars
<1>1. TypeOK /\ PortInv /\ RecordInv(r) /\ r # NoRecord
  BY StreamAssumption DEF IInv
<1>2. /\ at[r] = "request" /\ ioAction[r] \in Locking /\ serving = r /\ pact[r]
      /\ ~callback[r] /\ ~command[r] /\ ~timer[r] /\ r \notin pending /\ ~starting[r]
  BY <1>1 DEF LockHandler, RecordInv, OnePlace
<1>3. /\ blocking' = blocking \cup {r}
      /\ UNCHANGED <<serving, ordinary, blocker, deviceVars, commands, runningHandler, recordVars,
                     waitVars>>
  BY DEF LockHandler, Port!Accept, portVars
<1>4. \/ /\ flags' = [flags EXCEPT ![r] =
                         (@ \ {"LockPending"}) \cup {"BusOwner", "WritePending"}]
         /\ ioAction' = [ioAction EXCEPT ![r] = "Write"]
         /\ \/ /\ at' = [at EXCEPT ![r] = "none"] /\ result' = [result EXCEPT ![r] = "Success"]
               /\ pending' = pending \cup {r}
            \/ /\ at' = [at EXCEPT ![r] = "finish"] /\ result' = [result EXCEPT ![r] = "Fault"]
               /\ pending' = pending
      \/ /\ flags' = [flags EXCEPT ![r] = (@ \ {"LockPending"}) \cup {"BusOwner"}]
         /\ at' = [at EXCEPT ![r] = "finish"] /\ result' = [result EXCEPT ![r] = "Fault"]
         /\ UNCHANGED <<pending, ioAction>>
  BY DEF LockHandler, Flags, Stay, FinishWith, Port!Accept, portVars
<1>5. PortInv'
  BY <1>1, <1>2, <1>3 DEF PortInv
<1>6. /\ "BusOwner" \in flags'[r] /\ at'[r] \in {"none", "finish"}
      /\ at'[r] = "finish" => result'[r] = "Fault" /\ r \notin pending'
      /\ at'[r] = "none" => "WritePending" \in flags'[r]
      /\ ioAction'[r] # "Read" /\ ~timer'[r] /\ ~command'[r]
  BY <1>1, <1>2, <1>3, <1>4 DEF TypeOK, Locking
<1>7. RecordInv(r)'
  <2>1. OnePlace(r)' /\ OwnerInv(r)' /\ WriteInv(r)'
    BY <1>1, <1>2, <1>3, <1>6 DEF OnePlace, OwnerInv, WriteInv
  <2>2. InputInv(r)'
    BY <1>6 DEF InputInv, Unwritten, Handled
  <2> QED BY <2>1, <2>2 DEF RecordInv
<1>8. \A q \in Records \ {r} : Untouched(q)
  BY <1>1, <1>3, <1>4 DEF Untouched, TypeOK
<1> QED BY <1>3, <1>5, <1>7, <1>8, StepOf

LEMMA WriteHandlerStep ==
  ASSUME IInv, TypeOK', NEW r \in Records, WriteHandler(r)
  PROVE  IInv'
<1> USE DEF recordVars, waitVars
<1>1. TypeOK /\ PortInv /\ RecordInv(r) /\ r # NoRecord
  BY StreamAssumption DEF IInv
<1>2. /\ at[r] = "request" /\ ioAction[r] = "Write" /\ serving = r /\ ordinary /\ pact[r]
      /\ ~callback[r] /\ ~command[r] /\ ~timer[r] /\ r \notin pending /\ ~starting[r]
      /\ "BusOwner" \in flags[r] => r \in blocking
  BY <1>1 DEF WriteHandler, RecordInv, OnePlace, OwnerInv
<1>3. UNCHANGED <<serving, ordinary, blocker, blocking, ioAction, commands, runningHandler, recordVars,
                  waitVars>>
  BY DEF WriteHandler, Port!Accept, portVars
<1>4. OwnInput(r)'
  BY DEF WriteHandler, OwnInput
<1>5. \/ /\ flags' = [flags EXCEPT ![r] = (@ \ {"WritePending"}) \cup {}]
         /\ \/ at' = [at EXCEPT ![r] = "eval"] /\ result' = [result EXCEPT ![r] = "Success"]
            \/ /\ at' = [at EXCEPT ![r] = "finish"]
               /\ result' = [result EXCEPT ![r] = "WriteTimeout"]
         /\ UNCHANGED pending
      \/ /\ pending' = pending \cup {r}
         /\ at' = [at EXCEPT ![r] = "none"] /\ result' = [result EXCEPT ![r] = "Success"]
         /\ UNCHANGED flags
  BY DEF WriteHandler, Flags, Stay, Go, FinishWith, Port!Accept, portVars
<1>6. PortInv'
  BY <1>1, <1>3 DEF PortInv
<1>7. RecordInv(r)'
  <2>1. /\ "BusOwner" \in flags'[r] <=> "BusOwner" \in flags[r]
        /\ at'[r] \in {"none", "eval", "finish"}
        /\ at'[r] = "eval" => "WritePending" \notin flags'[r]
        /\ at'[r] # "none" => r \notin pending'
    BY <1>1, <1>2, <1>5 DEF TypeOK
  <2>2. OnePlace(r)' /\ OwnerInv(r)' /\ WriteInv(r)'
    BY <1>1, <1>2, <1>3, <2>1 DEF RecordInv, OnePlace, OwnerInv, WriteInv
  <2> QED BY <1>2, <1>3, <1>4, <2>2 DEF RecordInv, InputInv, Holder
<1>8. ASSUME NEW q \in Records \ {r} PROVE RecordInv(q)'
  <2>1. Untouched(q)
    BY <1>1, <1>3, <1>5 DEF Untouched, TypeOK
  <2>2. ~Holder(q)
    BY <1>1, <1>2, StreamAssumption DEF PortInv, Holder
  <2> QED BY <1>3, <2>1, <2>2, Elsewhere DEF IInv, RecordInv, OnePlace
<1> QED BY <1>6, <1>7, <1>8 DEF IInv

LEMMA ReadHandlerStep ==
  ASSUME IInv, TypeOK', NEW r \in Records, ReadHandler(r)
  PROVE  IInv'
<1> USE DEF portVars, busVars, recordVars, waitVars
<1>1. TypeOK /\ PortInv /\ RecordInv(r)
  BY DEF IInv
<1>2. /\ at[r] = "request" /\ ioAction[r] = "Read" /\ serving = r /\ pact[r]
      /\ ~callback[r] /\ ~command[r] /\ ~timer[r] /\ r \notin pending /\ ~starting[r]
      /\ "BusOwner" \in flags[r] => r \in blocking
  BY <1>1 DEF ReadHandler, RecordInv, OnePlace, OwnerInv
<1>3. UNCHANGED <<portVars, asked, flags, commands, runningHandler, busVars, recordVars,
                  waitVars>>
  BY DEF ReadHandler
<1>4. \/ at' = [at EXCEPT ![r] = "eval"] /\ result' = [result EXCEPT ![r] = "Success"]
      \/ /\ at' = [at EXCEPT ![r] = "finish"]
         /\ \E res : res # "FormatError" /\ result' = [result EXCEPT ![r] = res]
  BY DEF ReadHandler, Go, FinishWith
<1>5. line' \in {line, NoRecord}
  BY DEF ReadHandler
<1>6. PortInv'
  BY <1>1, <1>3 DEF PortInv
<1>7. RecordInv(r)'
  <2>1. at'[r] \in {"eval", "finish"}
    BY <1>1, <1>4 DEF TypeOK
  <2>2. OnePlace(r)' /\ OwnerInv(r)' /\ WriteInv(r)'
    BY <1>1, <1>2, <1>3, <2>1 DEF RecordInv, OnePlace, OwnerInv, WriteInv
  <2>3. InputInv(r)'
    BY <1>1, <1>2, <1>3, <1>5 DEF RecordInv, InputInv, Unwritten, OwnInput, Holder
  <2> QED BY <2>2, <2>3 DEF RecordInv
<1>8. ASSUME NEW q \in Records \ {r} PROVE RecordInv(q)'
  <2>1. Untouched(q)
    BY <1>1, <1>3, <1>4 DEF Untouched, TypeOK
  <2> QED BY <1>3, <1>5, <2>1, Elsewhere DEF IInv, RecordInv, OnePlace, OwnInput, Holder
<1> QED BY <1>6, <1>7, <1>8 DEF IInv

LEMMA HandleTimeoutStep ==
  ASSUME IInv, TypeOK', NEW r \in Records, HandleTimeout(r)
  PROVE  IInv'
<1> USE DEF portVars, deviceVars, busVars, recordVars, waitVars
<1>1. TypeOK /\ PortInv /\ RecordInv(r)
  BY DEF IInv
<1>2. /\ at[r] = "timeout" /\ pact[r]
      /\ ~callback[r] /\ ~command[r] /\ ~timer[r] /\ r \notin pending /\ ~starting[r]
      /\ "BusOwner" \in flags[r] => r \in blocking
  BY <1>1 DEF HandleTimeout, RecordInv, OnePlace, OwnerInv
<1>3. UNCHANGED <<portVars, deviceVars, commands, runningHandler, busVars, recordVars,
                  waitVars>>
  BY DEF HandleTimeout
<1>4. /\ at' = [at EXCEPT ![r] = "finish"]
      /\ \/ /\ ioAction[r] \in Locking
            /\ flags' = [flags EXCEPT ![r] = (@ \ {"LockPending"}) \cup {"BusOwner"}]
            /\ result' = [result EXCEPT ![r] = "LockTimeout"]
         \/ /\ ioAction[r] = "Write"
            /\ flags' = [flags EXCEPT ![r] = (@ \ {"WritePending"}) \cup {}]
            /\ result' = [result EXCEPT ![r] = "WriteTimeout"]
         \/ /\ ioAction[r] = "Read" /\ UNCHANGED flags
            /\ result' = [result EXCEPT ![r] = "Fault"]
  BY DEF HandleTimeout, Flags, FinishWith
<1>5. PortInv'
  BY <1>1, <1>3 DEF PortInv
<1>6. RecordInv(r)'
  <2>1. /\ at'[r] = "finish" /\ result'[r] \in {"LockTimeout", "WriteTimeout", "Fault"}
        /\ "BusOwner" \in flags[r] => "BusOwner" \in flags'[r]
        /\ "BusOwner" \in flags'[r] => "BusOwner" \in flags[r] \/ result'[r] = "LockTimeout"
    BY <1>1, <1>4 DEF TypeOK
  <2>2. OnePlace(r)' /\ OwnerInv(r)' /\ WriteInv(r)'
    BY <1>1, <1>2, <1>3, <2>1 DEF RecordInv, OnePlace, OwnerInv, WriteInv, Handled
  <2>3. InputInv(r)'
    BY <1>1, <1>2, <1>3, <2>1 DEF RecordInv, InputInv, Unwritten, OwnInput, Holder, Handled
  <2> QED BY <2>2, <2>3 DEF RecordInv
<1>7. \A q \in Records \ {r} : Untouched(q)
  BY <1>1, <1>3, <1>4 DEF Untouched, TypeOK
<1> QED BY <1>3, <1>5, <1>6, <1>7, StepOf

LEMMA TimerCallbackStep ==
  ASSUME IInv, TypeOK', NEW r \in Records, TimerCallback(r)
  PROVE  IInv'
<1> USE DEF portVars, deviceVars, busVars, recordVars
<1>1. TypeOK /\ PortInv /\ RecordInv(r)
  BY DEF IInv
<1>2. /\ timer[r] /\ at[r] = "none" /\ r \notin pending /\ ~command[r] /\ ~callback[r]
      /\ pact[r]
      /\ ~starting[r] /\ "WritePending" \notin flags[r]
      /\ "BusOwner" \in flags[r] => r \in blocking
  BY <1>1 DEF TimerCallback, RecordInv, OnePlace, OwnerInv, WriteInv
<1>3. /\ timer' = [timer EXCEPT ![r] = FALSE]
      /\ flags' = [flags EXCEPT ![r] = (@ \ {"WaitPending"}) \cup {}]
      /\ at' = [at EXCEPT ![r] = "eval"] /\ result' = [result EXCEPT ![r] = "Success"]
      /\ UNCHANGED <<portVars, deviceVars, commands, runningHandler, busVars, recordVars,
                     command>>
  BY DEF TimerCallback, Flags, Go
<1>4. PortInv'
  BY <1>1, <1>3 DEF PortInv
<1>5. RecordInv(r)'
  <2>1. /\ at'[r] = "eval" /\ ~timer'[r]
        /\ "BusOwner" \in flags'[r] <=> "BusOwner" \in flags[r]
        /\ "WritePending" \notin flags'[r]
    BY <1>1, <1>2, <1>3 DEF TypeOK
  <2>2. OnePlace(r)' /\ OwnerInv(r)' /\ WriteInv(r)'
    BY <1>1, <1>2, <1>3, <2>1 DEF RecordInv, OnePlace, OwnerInv, WriteInv
  <2>3. Unwritten(r) => Unwritten(r)'
    BY <1>2, <1>3, <2>1 DEF Unwritten, WritesFirst
  <2>4. InputInv(r)'
    BY <1>1, <1>3, <2>3 DEF RecordInv, InputInv, OwnInput, Holder
  <2> QED BY <2>2, <2>4 DEF RecordInv
<1>6. \A q \in Records \ {r} : Untouched(q)
  BY <1>1, <1>3 DEF Untouched, TypeOK
<1> QED BY <1>3, <1>4, <1>5, <1>6, StepOf

LEMMA ExecCallbackStep ==
  ASSUME IInv, TypeOK', NEW r \in Records, ExecCallback(r)
  PROVE  IInv'
<1> USE DEF portVars, deviceVars, busVars, recordVars
<1>1. TypeOK /\ PortInv /\ RecordInv(r)
  BY DEF IInv
<1>2. /\ command[r] /\ at[r] = "none" /\ r \notin pending /\ ~timer[r] /\ ~callback[r]
      /\ pact[r]
      /\ ~starting[r] /\ "WritePending" \notin flags[r] /\ "BusOwner" \notin flags[r]
  BY <1>1 DEF ExecCallback, RecordInv, OnePlace, OwnerInv, WriteInv
<1>3. /\ command' = [command EXCEPT ![r] = FALSE]
      /\ \/ at' = [at EXCEPT ![r] = "eval"] /\ result' = [result EXCEPT ![r] = "Success"]
         \/ at' = [at EXCEPT ![r] = "finish"] /\ result' = [result EXCEPT ![r] = "Fault"]
      /\ UNCHANGED <<portVars, deviceVars, flags, commands, runningHandler, busVars, recordVars,
                     timer>>
  BY DEF ExecCallback, FinishWith, Go
<1>4. PortInv'
  BY <1>1, <1>3 DEF PortInv
<1>5. RecordInv(r)'
  <2>1. at'[r] \in {"eval", "finish"} /\ ~command'[r]
    BY <1>1, <1>3 DEF TypeOK
  <2> QED BY <1>1, <1>2, <1>3, <2>1 DEF RecordInv, OnePlace, OwnerInv, WriteInv, InputInv
<1>6. \A q \in Records \ {r} : Untouched(q)
  BY <1>1, <1>3 DEF Untouched, TypeOK
<1> QED BY <1>3, <1>4, <1>5, <1>6, StepOf

LEMMA StartProtocolStep ==
  ASSUME IInv, TypeOK', NEW r \in Records, StartProtocol(r), UNCHANGED callback
  PROVE  IInv'
<1> USE DEF portVars, deviceVars, busVars, waitVars
<1>1. TypeOK /\ PortInv /\ RecordInv(r)
  BY DEF IInv
<1>2. /\ ~pact[r] /\ at[r] = "none" /\ r \notin pending /\ ~timer[r] /\ ~command[r]
      /\ ~callback[r] /\ ~starting[r] /\ "BusOwner" \notin flags[r] /\ r \notin blocking
  BY <1>1 DEF StartProtocol, RecordInv, OnePlace, OwnerInv
<1>3. /\ pact' = [pact EXCEPT ![r] = TRUE] /\ starting' = [starting EXCEPT ![r] = TRUE]
      /\ flags' = [flags EXCEPT ![r] = {}] /\ commands' = [commands EXCEPT ![r] = Protocol[r]]
      /\ runningHandler' = [runningHandler EXCEPT ![r] = "Success"]
      /\ at' = [at EXCEPT ![r] = "eval"] /\ result' = [result EXCEPT ![r] = "Success"]
      /\ UNCHANGED <<portVars, deviceVars, busVars, waitVars>>
  BY DEF StartProtocol, Go
<1>4. PortInv'
  BY <1>1, <1>3 DEF PortInv
<1>5. RecordInv(r)'
  <2>1. at'[r] = "eval" /\ pact'[r] /\ flags'[r] = {} /\ result'[r] = "Success"
    BY <1>1, <1>3 DEF TypeOK
  <2> QED BY <1>1, <1>2, <1>3, <2>1 DEF RecordInv, OnePlace, OwnerInv, WriteInv, InputInv
<1>6. \A q \in Records \ {r} : Untouched(q)
  BY <1>1, <1>3 DEF Untouched, TypeOK
<1> QED BY <1>3, <1>4, <1>5, <1>6, StepOf

\* The record that the processCallback processes is still being processed, so that
\* this ends the protocol and does not start it anew.
LEMMA ProcessCallbackStep ==
  ASSUME IInv, TypeOK', NEW r \in Records, ProcessCallback(r)
  PROVE  IInv'
<1> USE DEF portVars, deviceVars, coreVars, busVars, waitVars
<1>1. TypeOK /\ PortInv /\ RecordInv(r)
  BY DEF IInv
<1>2. /\ pact[r] /\ at[r] = "none" /\ r \notin pending /\ ~timer[r] /\ ~command[r]
      /\ callback[r] /\ ~starting[r] /\ "BusOwner" \notin flags[r] /\ r \notin blocking
  BY <1>1 DEF ProcessCallback, RecordInv, OnePlace, OwnerInv
<1>3. /\ pact' = [pact EXCEPT ![r] = FALSE] /\ callback' = [callback EXCEPT ![r] = FALSE]
      /\ UNCHANGED <<portVars, deviceVars, coreVars, busVars, starting, waitVars>>
  BY <1>2 DEF ProcessCallback, StartProtocol
<1>4. PortInv'
  BY <1>1, <1>3 DEF PortInv
<1>5. RecordInv(r)'
  <2>1. ~pact'[r] /\ ~callback'[r]
    BY <1>1, <1>3 DEF TypeOK
  <2> QED BY <1>1, <1>2, <1>3, <2>1 DEF RecordInv, OnePlace, OwnerInv, WriteInv, InputInv
<1>6. \A q \in Records \ {r} : Untouched(q)
  BY <1>1, <1>3 DEF Untouched, TypeOK
<1> QED BY <1>3, <1>4, <1>5, <1>6, StepOf

LEMMA OtherStep ==
  ASSUME IInv, TypeOK', HandlerReturns \/ TimeoutReturns \/ DeviceAnswers \/ UNCHANGED vars
  PROVE  IInv'
<1> USE DEF deviceVars, coreVars, busVars, recordVars, waitVars
<1>1. TypeOK /\ PortInv
  BY DEF IInv
<1>2. UNCHANGED <<pending, coreVars, busVars, recordVars, waitVars>>
  BY DEF HandlerReturns, TimeoutReturns, DeviceAnswers, Port!Served, Port!Expired, vars,
         portVars
<1>3. \/ UNCHANGED <<serving, ordinary, blocker>>
      \/ /\ serving # NoRecord /\ at[serving] = "none" /\ serving' = NoRecord
         /\ blocker' = IF ordinary /\ serving \in blocking THEN serving ELSE blocker
         /\ UNCHANGED deviceVars
  BY DEF HandlerReturns, TimeoutReturns, DeviceAnswers, Port!Served, Port!Expired, vars,
         portVars
<1>4. PortInv'
  BY <1>1, <1>2, <1>3 DEF PortInv
<1>5. ASSUME NEW q \in Records PROVE RecordInv(q)'
  <2>1. Untouched(q)
    BY <1>2 DEF Untouched
  <2>2. at[q] = "request" => serving' = q /\ ordinary' = ordinary
    BY <1>3 DEF IInv, RecordInv, OnePlace
  <2>3. OwnInput(q) => OwnInput(q)'
    BY DEF HandlerReturns, TimeoutReturns, DeviceAnswers, vars, OwnInput
  <2>4. q \in blocking /\ Holder(q) => Holder(q)'
    <3>1. CASE UNCHANGED <<serving, ordinary, blocker>>
      BY <3>1 DEF Holder
    <3>2. CASE /\ serving # NoRecord
               /\ blocker' = IF ordinary /\ serving \in blocking THEN serving ELSE blocker
      <4>1. SUFFICES ASSUME q \in blocking, Holder(q) PROVE q = blocker'
        BY DEF Holder
      <4>2. CASE ordinary
        <5>1. q = serving
          BY <1>1, <3>2, <4>1, <4>2, StreamAssumption DEF PortInv, Holder
        <5> QED BY <3>2, <4>1, <4>2, <5>1
      <4>3. CASE ~ordinary
        BY <3>2, <4>1, <4>3 DEF Holder
      <4> QED BY <4>2, <4>3
    <3> QED BY <1>3, <3>1, <3>2
  <2> QED BY <2>1, <2>2, <2>3, <2>4, Elsewhere DEF IInv
<1> QED BY <1>4, <1>5 DEF IInv

LEMMA InitIInv == Init => IInv
<1> SUFFICES ASSUME Init PROVE IInv
  OBVIOUS
<1>1. /\ blocking = {} /\ pending = {} /\ blocker = NoRecord /\ serving = NoRecord
  BY DEF Init, Port!Init
<1>2. PortInv
  BY <1>1 DEF PortInv
<1>3. \A r \in Records : RecordInv(r)
  BY <1>1 DEF Init, RecordInv, OnePlace, OwnerInv, WriteInv, InputInv
<1> QED BY <1>2, <1>3, InitTypes DEF IInv

LEMMA Invariance ==
  ASSUME NoEarlyError
  PROVE  Spec => []IInv
<1>1. IInv /\ [Next]_vars => IInv'
  <2> SUFFICES ASSUME IInv, [Next]_vars PROVE IInv'
    OBVIOUS
  <2>1. TypeOK'
    BY TypeStep DEF IInv
  <2>2. ASSUME NEW r \in Records, Eval(r) PROVE IInv'
    BY <2>1, <2>2, NoEarlyError, OutFormatErrorStep, OutLocksStep, OutWritesStep, EvalInStep,
       EvalWaitStep, EvalExecStep, EvalEndStep, StartHandlerStep, FinishProtocolStep DEF Eval
  <2>3. ASSUME NEW r \in Records, Callbacks(r) PROVE IInv'
    BY <2>1, <2>3, LockHandlerStep, WriteHandlerStep, ReadHandlerStep, HandleTimeoutStep,
       TimerCallbackStep, ExecCallbackStep DEF Callbacks
  <2>4. ASSUME NEW r \in Records, Process(r) PROVE IInv'
    BY <2>1, <2>4, StartProtocolStep DEF Process
  <2>5. ASSUME NEW r \in Records, ProcessCallback(r) \/ TakeRequest(r) \/ TakeTimeout(r)
        PROVE  IInv'
    BY <2>1, <2>5, ProcessCallbackStep, TakeRequestStep, TakeTimeoutStep
  <2> QED BY <2>1, <2>2, <2>3, <2>4, <2>5, OtherStep DEF Next
<1> QED BY <1>1, InitIInv, PTL DEF Spec

\* A record that is not being processed has left nothing at the port: neither a
\* request nor the block, whatever was refused, timed out or failed on the way.
THEOREM BusIsReleased ==
  ASSUME NoEarlyError
  PROVE  Spec => []BusReleased
<1>1. IInv => BusReleased
  BY StreamAssumption DEF IInv, PortInv, RecordInv, OnePlace, OwnerInv, BusReleased
<1> QED BY <1>1, Invariance, PTL

\* The processCallback finds the record being processed and its protocol ended, so
\* that it completes the processing, once, and starts nothing anew.
THEOREM CompletedOnce ==
  ASSUME NoEarlyError
  PROVE  Spec => []CompletesOnce
<1>1. IInv => CompletesOnce
  BY DEF IInv, RecordInv, OnePlace, CompletesOnce
<1> QED BY <1>1, Invariance, PTL

\* While the owner of the bus waits for input there is none, and will be none, but
\* the answer to its own output; unless its @writetimeout handler reads before it
\* has written, when the answer may be that to the owner before.
THEOREM ReplyReachesWriter ==
  ASSUME NoEarlyError, HandlersWrite
  PROVE  Spec => []ReplyToWriter
<1>1. IInv => ReplyToWriter
  BY HandlersWrite DEF IInv, RecordInv, OnePlace, OwnerInv, InputInv, Unwritten, OwnInput, Holder,
     ReplyToWriter
<1> QED BY <1>1, Invariance, PTL
=============================================================================
