-------------------------- MODULE SeqProgramProofs --------------------------
(***************************************************************************)
(* Proofs about SeqProgram, for any number of state sets, states, channels *)
(* and flags: no state set sleeps over what it waits for, the flag of the  *)
(* queue follows the queue, and the program starts when all channels are   *)
(* connected and at most as many lack their first monitor as were lost     *)
(* after it.  And, in the last part, about the queue itself (SeqQueue,     *)
(* QueueSpec), for a ring of any size and any elements: type correctness,  *)
(* which includes seqQueueInvariant; that reader and writer never meet in  *)
(* a slot; and that the ring is a first-in first-out queue.                *)
(***************************************************************************)
EXTENDS SeqProgram, SeqQueue, FiniteSetTheorems, SequenceTheorems, TLAPS

----------------------------------------------------------------------------
(* Types.                                                                   *)

\* TypeOK with what it takes to be kept: only monitored channels have handlers that
\* count a first monitor, and the queue is no variable.
Types ==
  /\ TypeOK
  /\ state \in [StateSets -> UNION {States[s] : s \in StateSets}]
  /\ ca.chan \in Monitored \cup {Everyone} /\ Queued \notin values

Places == {"none", "enter", "delays", "timeout", "wait", "timed wait", "evaluate",
           "action", "got", "flushed", "dead"}

LEMMA StateSetsAre ==
  /\ numSS \in Nat \ {0} /\ StateSets \subseteq Nat
  /\ \A s \in StateSets : s < numSS /\ s >= 0 /\ States[s] \subseteq UNION {States[t] : t \in StateSets}
BY ProgramAssumption DEF StateSets

\* seqWakeup under programLock.
LEMMA Wakes ==
  ASSUME Types, NEW events, syncSem' = Woken(events)
  PROVE  /\ syncSem' \in [StateSets -> BOOLEAN]
         /\ \A s \in StateSets : syncSem'[s] <=> syncSem[s] \/ mask[s] \cap events # {}
<1>1. \A s \in StateSets : (syncSem[s] \/ mask[s] \cap events # {}) \in BOOLEAN
  BY DEF Types, TypeOK
<1> QED BY <1>1 DEF Woken

\* The end of a state's code.
LEMMA Leaves ==
  ASSUME Types, NEW s \in StateSets, Leave(s)
  PROVE  /\ pc' \in [StateSets -> Places] /\ pc'[s] \in {"enter", "dead"}
         /\ state' \in [StateSets -> UNION {States[t] : t \in StateSets}]
         /\ \A t \in StateSets : state'[t] \in States[t]
         /\ \A t \in StateSets \ {s} : pc'[t] = pc[t] /\ state'[t] = state[t]
<1>1. /\ pc \in [StateSets -> Places] /\ \A t \in StateSets : state[t] \in States[t]
      /\ state \in [StateSets -> UNION {States[t] : t \in StateSets}]
  BY DEF Types, TypeOK, Places
<1>2. CASE die
  BY <1>1, <1>2 DEF Leave, Places
<1>3. CASE ~die
  <2>1. PICK st \in States[s] : state' = [state EXCEPT ![s] = st]
    BY <1>3 DEF Leave
  <2>2. st \in UNION {States[t] : t \in StateSets}
    BY StateSetsAre
  <2>3. state' \in [StateSets -> UNION {States[t] : t \in StateSets}]
    BY <1>1, <2>1, <2>2
  <2>4. \A t \in StateSets \ {s} : state'[t] = state[t]
    BY <1>1, <2>1
  <2>5. state'[s] = st
    BY <1>1, <2>1
  <2>6. pc' = [pc EXCEPT ![s] = "enter"]
    BY <1>3 DEF Leave
  <2>7. pc' \in [StateSets -> Places] /\ pc'[s] = "enter" /\ \A t \in StateSets \ {s} : pc'[t] = pc[t]
    BY <1>1, <2>6 DEF Places
  <2> QED BY <1>1, <2>3, <2>4, <2>5, <2>7
<1> QED BY <1>2, <1>3

\* What a state set waits for and has.
LEMMA HoldingIs ==
  ASSUME Types, NEW s \in StateSets
  PROVE  /\ Queued \in Holding(s) => queue \in 1..QueueSize
         /\ Holding(s) \subseteq EventMask[s][state[s]]
<1>1. Queued \notin Flags /\ Queued \notin values /\ evFlags \subseteq Flags
  BY ProgramAssumption DEF Types, TypeOK
<1>2. queue \in 0..QueueSize /\ QueueSize \in Nat
  BY ProgramAssumption DEF Types, TypeOK
<1>3. Queued \in Holding(s) => queue > 0
  BY <1>1 DEF Holding
<1>4. Holding(s) \subseteq EventMask[s][state[s]]
  BY DEF Holding
<1> QED BY <1>2, <1>3, <1>4

\* What a state is interested in.
LEMMA MasksAre ==
  ASSUME Types, NEW s \in StateSets
  PROVE  EventMask[s][state[s]] \subseteq Flags \cup Channels
<1>1. EventMask[s] \in [States[s] -> SUBSET (Flags \cup Channels)]
  BY ProgramAssumption
<1>2. state[s] \in States[s]
  BY DEF Types, TypeOK
<1> QED BY <1>1, <1>2

\* The progress of a caller of seqWakeup.
LEMMA Callers ==
  ASSUME Types
  PROVE  /\ waking \in [Threads -> 0..numSS] /\ numSS \in Nat /\ numSS > 0
         /\ \A t \in Threads : [waking EXCEPT ![t] = 0] \in [Threads -> 0..numSS]
         /\ \A t \in Threads : waking[t] < numSS =>
               /\ waking[t] \in StateSets
               /\ [waking EXCEPT ![t] = @ + 1] \in [Threads -> 0..numSS]
<1>1. waking \in [Threads -> 0..numSS] /\ numSS \in Nat /\ numSS > 0
  <2>1. waking \in [Threads -> 0..numSS]
    BY DEF Types, TypeOK
  <2>2. numSS \in Nat /\ numSS > 0
    BY StateSetsAre
  <2> QED BY <2>1, <2>2
<1>2. 0 \in 0..numSS
  BY <1>1
<1>3. ASSUME NEW t \in Threads, waking[t] < numSS
      PROVE  waking[t] \in 0..numSS - 1 /\ waking[t] + 1 \in 0..numSS
  BY <1>1, <1>3
<1> QED BY <1>1, <1>2, <1>3 DEF StateSets

LEMMA InitTypes == Init => Types
<1> SUFFICES ASSUME Init PROVE Types
  OBVIOUS
<1>1. /\ \A s \in StateSets : state[s] \in States[s]
      /\ state \in [StateSets -> UNION {States[s] : s \in StateSets}]
  BY ProgramAssumption, StateSetsAre DEF Init
<1>2. ca \in [at : {"idle", "flag", "wake"}, chan : Channels \cup {Everyone}] /\ ca.chan = Everyone
  BY DEF Init, Idle
<1>3. waking \in [Threads -> 0..numSS]
  BY StateSetsAre DEF Init
<1>4. /\ pc \in [StateSets -> Places] /\ syncSem \in [StateSets -> BOOLEAN]
      /\ mask \in [StateSets -> SUBSET (Flags \cup Channels)]
      /\ delay \in [StateSets -> {"off", "running", "passed", "marked"}]
  BY DEF Init, Places
<1>5. queue \in 0..QueueSize
  BY ProgramAssumption DEF Init
<1> QED BY <1>1, <1>2, <1>3, <1>4, <1>5 DEF Init, Types, TypeOK, Places

LEMMA TypesMain == Types /\ (MainStep \/ SeqExit) => Types'
<1> SUFFICES ASSUME Types, MainStep \/ SeqExit PROVE Types'
  OBVIOUS
<1>1. ASSUME NEW s \in StateSets, CreateStateSet(s) PROVE Types'
  <2>1. pc' \in [StateSets -> Places] /\ main' \in {"entry", "state set"}
    BY <1>1 DEF CreateStateSet, Types, TypeOK, Places
  <2> QED BY <1>1, <2>1 DEF CreateStateSet, Types, TypeOK, Places, connVars, dataVars
<1>2. CASE SeqConnect \/ JoinStateSets \/ SeqDisconnect
  BY <1>2 DEF SeqConnect, JoinStateSets, SeqDisconnect, Types, TypeOK, connVars, dataVars, ssVars
<1>3. CASE SeqExit
  <2>1. waking' \in [Threads -> 0..numSS]
    BY <1>3, Callers DEF SeqExit, Threads
  <2> QED BY <1>3, <2>1 DEF SeqExit, Types, TypeOK, connVars, dataVars, ssVars
<1> QED BY <1>1, <1>2, <1>3 DEF MainStep

LEMMA TypesHandler ==
  ASSUME Types,
         HandlerStep \/ (\E c \in Channels : ConnHandler(c) \/ DisconnHandler(c) \/ MonHandler(c))
                     \/ (\E t \in Threads : WakeNext(t))
  PROVE  Types'
<1> USE DEF connVars, dataVars, ssVars
<1>0. /\ Queued \in Monitored /\ Monitored \subseteq Channels
      /\ waking \in [Threads -> 0..numSS]
      /\ [waking EXCEPT !["ca"] = 0] \in [Threads -> 0..numSS]
  BY Callers, ProgramAssumption DEF Threads
<1>1. ASSUME NEW c \in Channels, ConnHandler(c) \/ DisconnHandler(c) PROVE Types'
  <2>1. connected' \subseteq Channels /\ gotOneMonitor' \subseteq Monitored
    BY <1>1 DEF ConnHandler, DisconnHandler, Types, TypeOK
  <2>2. ca' \in [at : {"idle", "flag", "wake"}, chan : Channels \cup {Everyone}] /\ ca'.chan = Everyone
    BY <1>1 DEF ConnHandler, DisconnHandler
  <2>3. lost' \in Nat
    <3>1. lost \in Nat
      BY DEF Types, TypeOK
    <3>2. lost' = lost \/ lost' = lost + 1
      BY <1>1 DEF ConnHandler, DisconnHandler
    <3> QED BY <3>1, <3>2
  <2>4. UNCHANGED <<main, firstMonitorCount, dataVars, die, ssVars>>
        /\ waking' = [waking EXCEPT !["ca"] = 0]
    BY <1>1 DEF ConnHandler, DisconnHandler
  <2> QED BY <1>0, <2>1, <2>2, <2>3, <2>4 DEF Types, TypeOK
<1>2. ASSUME NEW c \in Channels, MonHandler(c) PROVE Types'
  <2>1. CASE c = Queued
    <3>1. queue' \in 0..QueueSize
      <4>1. queue \in 0..QueueSize /\ QueueSize \in Nat
        BY ProgramAssumption DEF Types, TypeOK
      <4>2. queue' = IF queue = QueueSize THEN queue ELSE queue + 1
        BY <1>2, <2>1 DEF MonHandler
      <4> QED BY <4>1, <4>2
    <3>2. ca' \in [at : {"idle", "flag", "wake"}, chan : Channels \cup {Everyone}] /\ ca'.chan = c
      BY <1>2, <2>1 DEF MonHandler
    <3> QED BY <1>0, <1>2, <2>1, <3>1, <3>2 DEF MonHandler, Types, TypeOK
  <2>2. CASE c # Queued
    <3>1. c \in Monitored /\ values' \subseteq Monitored /\ Queued \notin values'
      <4>1. c \in Monitored /\ values' \in {values \cup {c}, values \ {c}}
        BY <1>2, <2>2 DEF MonHandler
      <4>2. values \subseteq Monitored /\ Queued \notin values
        BY DEF Types, TypeOK
      <4> QED BY <2>2, <4>1, <4>2
    <3>2. ca' \in [at : {"idle", "flag", "wake"}, chan : Channels \cup {Everyone}] /\ ca'.chan = c
      BY <1>2, <2>2 DEF MonHandler
    <3> QED BY <1>0, <1>2, <2>2, <3>1, <3>2 DEF MonHandler, Types, TypeOK
  <2> QED BY <2>1, <2>2
<1>3. CASE MonSetsFlag
  <2>1. syncSem' \in [StateSets -> BOOLEAN]
    BY <1>3, Wakes DEF MonSetsFlag
  <2>2. /\ ca' \in [at : {"idle", "flag", "wake"}, chan : Channels \cup {Everyone}]
        /\ ca'.chan = ca.chan
    BY <1>3 DEF MonSetsFlag, Types, TypeOK
  <2>3. evFlags' \subseteq Flags
    BY <1>3, ProgramAssumption DEF MonSetsFlag, Types, TypeOK
  <2> QED BY <1>0, <1>3, <2>1, <2>2, <2>3 DEF MonSetsFlag, Types, TypeOK
<1>4. CASE HandlerReturns
  <2>1. gotOneMonitor' \subseteq Monitored /\ firstMonitorCount' \in Nat
    <3>1. /\ gotOneMonitor \subseteq Monitored /\ firstMonitorCount \in Nat
          /\ ca.chan \in Monitored \cup {Everyone}
      BY DEF Types, TypeOK
    <3>2. CASE ca.chan = Everyone \/ ca.chan \in gotOneMonitor
      BY <1>4, <3>1, <3>2 DEF HandlerReturns
    <3>3. CASE ~(ca.chan = Everyone \/ ca.chan \in gotOneMonitor)
      BY <1>4, <3>1, <3>3 DEF HandlerReturns
    <3> QED BY <3>2, <3>3
  <2>2. ca' \in [at : {"idle", "flag", "wake"}, chan : Channels \cup {Everyone}] /\ ca'.chan = Everyone
    BY <1>4 DEF HandlerReturns, Idle
  <2> QED BY <1>4, <2>1, <2>2 DEF HandlerReturns, Types, TypeOK
<1>5. ASSUME NEW t \in Threads, WakeNext(t) PROVE Types'
  <2>1. waking' \in [Threads -> 0..numSS]
    BY <1>5, Callers DEF WakeNext
  <2>2. syncSem' \in [StateSets -> BOOLEAN]
    <3> DEFINE b == syncSem[waking[t]] \/ t = "shell" \/ ca.chan = Everyone \/ ca.chan \in mask[waking[t]]
    <3>1. waking[t] \in StateSets /\ syncSem \in [StateSets -> BOOLEAN]
      BY <1>5, Callers DEF WakeNext, Types, TypeOK
    <3>2. b \in BOOLEAN
      BY <3>1
    <3>3. syncSem' = [syncSem EXCEPT ![waking[t]] = b]
      BY <1>5 DEF WakeNext
    <3> HIDE DEF b
    <3> QED BY <3>1, <3>2, <3>3
  <2> QED BY <1>5, <2>1, <2>2 DEF WakeNext, Types, TypeOK
<1> QED BY <1>1, <1>2, <1>3, <1>4, <1>5 DEF HandlerStep

LEMMA TypesStateSet ==
  ASSUME Types, NEW s \in StateSets, StateSetStep(s) \/ TimePasses(s)
  PROVE  Types'
<1> USE DEF connVars, dataVars, ssVars
<1>1. CASE Enter(s)
  <2>1. EventMask[s][state[s]] \subseteq Flags \cup Channels
    BY MasksAre
  <2>2. mask' \in [StateSets -> SUBSET (Flags \cup Channels)] /\ pc' \in [StateSets -> Places]
    BY <1>1, <2>1 DEF Enter, Types, TypeOK, Places
  <2> QED BY <1>1, <2>2 DEF Enter, Types, TypeOK, Places
<1>2. CASE SetDelays(s) \/ CalcTimeout(s) \/ TimePasses(s) \/ Wait(s)
  <2>1. pc' \in [StateSets -> Places] /\ syncSem' \in [StateSets -> BOOLEAN]
    BY <1>2 DEF SetDelays, CalcTimeout, TimePasses, Wait, Types, TypeOK, Places
  <2>2. delay' \in [StateSets -> {"off", "running", "passed", "marked"}]
    BY <1>2 DEF SetDelays, CalcTimeout, TimePasses, Wait, Types, TypeOK
  <2> QED BY <1>2, <2>1, <2>2 DEF SetDelays, CalcTimeout, TimePasses, Wait, Types, TypeOK, Places
<1>3. CASE EventFunc(s)
  <2>1. pc \in [StateSets -> Places] /\ evFlags \subseteq Flags /\ overtaken \in BOOLEAN
        /\ queue \in 0..QueueSize
    BY DEF Types, TypeOK, Places
  <2>2. pc' \in [StateSets -> Places] /\ UNCHANGED <<values, overtaken>>
    BY <1>3, <2>1 DEF EventFunc, Places
  <2>3. evFlags' \subseteq Flags
    BY <1>3, <2>1 DEF EventFunc
  <2>4. queue' = queue \/ (queue' = queue - 1 /\ Queued \in Holding(s))
    BY <1>3, <2>1 DEF EventFunc
  <2>5. queue' \in 0..QueueSize
    BY <2>1, <2>4, HoldingIs, ProgramAssumption
  <2> QED BY <1>3, <2>1, <2>2, <2>3, <2>5 DEF EventFunc, Types, TypeOK, Places
<1>4. CASE EfSet(s) \/ EfClear(s)
  <2>1. syncSem' \in [StateSets -> BOOLEAN] /\ evFlags' \subseteq Flags
    BY <1>4, Wakes DEF EfSet, EfClear, Types, TypeOK
  <2>2. /\ pc' \in [StateSets -> Places] /\ \A t \in StateSets : state'[t] \in States[t]
        /\ state' \in [StateSets -> UNION {States[t] : t \in StateSets}]
    BY <1>4, Leaves DEF EfSet, EfClear
  <2> QED BY <1>4, <2>1, <2>2 DEF EfSet, EfClear, Types, TypeOK, Places
<1>5. CASE PvGetQ(s) \/ PvFlushQ(s)
  <2>1. pc' \in [StateSets -> Places] /\ queue' \in 0..QueueSize
    <3>1. queue \in 0..QueueSize /\ QueueSize \in Nat /\ pc \in [StateSets -> Places]
      BY ProgramAssumption DEF Types, TypeOK, Places
    <3>2. pc' \in [StateSets -> Places]
      BY <1>5, <3>1 DEF PvGetQ, PvFlushQ, Places
    <3>3. queue' = 0 \/ (queue # 0 /\ queue' = queue - 1)
      BY <1>5, <3>1 DEF PvGetQ, PvFlushQ
    <3> QED BY <3>1, <3>2, <3>3
  <2> QED BY <1>5, <2>1 DEF PvGetQ, PvFlushQ, Types, TypeOK, Places
<1>6. CASE ClearFlagIfEmpty(s) \/ ClearFlag(s)
  <2>1. evFlags' \subseteq Flags /\ overtaken' \in BOOLEAN
    BY <1>6 DEF ClearFlagIfEmpty, ClearFlag, Types, TypeOK
  <2>2. /\ pc' \in [StateSets -> Places] /\ \A t \in StateSets : state'[t] \in States[t]
        /\ state' \in [StateSets -> UNION {States[t] : t \in StateSets}]
    BY <1>6, Leaves DEF ClearFlagIfEmpty, ClearFlag
  <2> QED BY <1>6, <2>1, <2>2 DEF ClearFlagIfEmpty, ClearFlag, Types, TypeOK, Places
<1> QED BY <1>1, <1>2, <1>3, <1>4, <1>5, <1>6 DEF StateSetStep

LEMMA TypesStep == Types /\ [Next]_vars => Types'
<1> SUFFICES ASSUME Types, [Next]_vars PROVE Types'
  OBVIOUS
<1>1. CASE UNCHANGED vars
  BY <1>1 DEF vars, connVars, dataVars, ssVars, Types, TypeOK
<1> QED BY <1>1, TypesMain, TypesHandler, TypesStateSet DEF Next

\* The variables of a state program keep their types; an element is removed from
\* the queue only when there is one.
THEOREM TypeCorrect == Spec => []TypeOK
<1>1. Types => TypeOK
  BY DEF Types
<1> QED BY <1>1, InitTypes, TypesStep, PTL DEF Spec

----------------------------------------------------------------------------
(* The inductive invariant.                                                 *)

\* The state set evaluates or sleeps, and its last evaluation found nothing.
Waiting(s) == pc[s] \in {"timeout", "wait", "timed wait"}

\* The event mask is that of the state from the top of the main loop on.
MaskInv(s) ==
  pc[s] \notin {"none", "enter", "dead"} => mask[s] = EventMask[s][state[s]]

\* Only a delay that is off lets the state set wait without a limit.
DelayInv(s) == /\ pc[s] = "timeout" => delay[s] # "marked"
               /\ pc[s] = "wait" => delay[s] = "off"

\* What the state set waits for and has is what the handler that runs has brought
\* and has not yet told it.
HeldInv(s) ==
  Waiting(s) /\ ~syncSem[s] =>
    \A e \in Holding(s) :
      ca.chan = e /\ (ca.at = "flag" \/ (ca.at = "wake" /\ waking["ca"] <= s))

\* Who has asked for an exit has not yet come to this state set.
DieInv(s) ==
  die /\ (Waiting(s) \/ pc[s] = "evaluate") /\ ~syncSem[s] => waking["shell"] <= s

\* Between the two steps of pvGetQ and pvFlushQ there is only the reader; what was
\* put after pvFlushQ emptied the queue has its flag or will have it.
ReaderInv(s) ==
  /\ pc[s] \in {"got", "flushed"} => s = Reader
  /\ pc[s] = "flushed" /\ queue > 0 => ca.at = "flag" \/ SyncFlag \in evFlags

SetInv(s) == MaskInv(s) /\ DelayInv(s) /\ HeldInv(s) /\ DieInv(s) /\ ReaderInv(s)

IInv == Types /\ FlagFollowsQueue /\ \A s \in StateSets : SetInv(s)

LEMMA InitIInv == Init => IInv
<1> SUFFICES ASSUME Init PROVE IInv
  OBVIOUS
<1>1. \A s \in StateSets : SetInv(s)
  BY DEF Init, SetInv, MaskInv, DelayInv, HeldInv, DieInv, ReaderInv, Waiting
<1>2. FlagFollowsQueue
  BY DEF Init, FlagFollowsQueue
<1> QED BY <1>1, <1>2, InitTypes DEF IInv

\* What a state set has of what it waits for when flags are set and elements put.
LEMMA HoldingGrows ==
  ASSUME Types, NEW t \in StateSets, NEW F, state'[t] = state[t],
         evFlags' \subseteq evFlags \cup F, values' \subseteq values \cup F,
         queue' > 0 => queue > 0 \/ Queued \in F
  PROVE  Holding(t)' \subseteq Holding(t) \cup (F \cap EventMask[t][state[t]])
BY DEF Holding

\* A state set that does not move itself keeps its part of the invariant when no
\* handler moves and, unless it is woken, it has no more of what it waits for.
LEMMA Kept ==
  ASSUME IInv, NEW t \in StateSets,
         pc'[t] = pc[t], state'[t] = state[t], mask'[t] = mask[t], delay'[t] = delay[t],
         syncSem[t] => syncSem'[t], UNCHANGED <<ca, waking, die>>,
         Waiting(t) /\ ~syncSem'[t] => Holding(t)' \subseteq Holding(t),
         pc[t] = "flushed" => /\ queue' > 0 => queue > 0
                              /\ SyncFlag \in evFlags => SyncFlag \in evFlags'
  PROVE  SetInv(t)'
<1>1. SetInv(t)
  BY DEF IInv
<1>2. MaskInv(t)' /\ DelayInv(t)' /\ DieInv(t)' /\ ReaderInv(t)'
  BY <1>1 DEF SetInv, MaskInv, DelayInv, DieInv, ReaderInv, Waiting
<1>3. HeldInv(t)'
  BY <1>1 DEF SetInv, HeldInv, Waiting
<1> QED BY <1>2, <1>3 DEF SetInv

----------------------------------------------------------------------------
(* The steps of a state set.                                                *)

\* They leave the other state sets as they are.
LEMMA OthersKept ==
  ASSUME IInv, NEW s \in StateSets, StateSetStep(s) \/ TimePasses(s),
         NEW t \in StateSets, t # s
  PROVE  SetInv(t)'
<1> USE DEF connVars, dataVars, ssVars
<1>1. /\ Types /\ MaskInv(t) /\ ReaderInv(s) /\ ReaderInv(t)
      /\ pc \in [StateSets -> Places] /\ syncSem \in [StateSets -> BOOLEAN]
      /\ mask \in [StateSets -> SUBSET (Flags \cup Channels)]
      /\ delay \in [StateSets -> {"off", "running", "passed", "marked"}]
      /\ state \in [StateSets -> UNION {States[u] : u \in StateSets}]
      /\ queue \in 0..QueueSize /\ QueueSize \in Nat
  BY ProgramAssumption DEF IInv, SetInv, Types, TypeOK, Places
<1>2. CASE Enter(s) \/ SetDelays(s) \/ CalcTimeout(s) \/ TimePasses(s) \/ Wait(s)
  <2>1. /\ pc'[t] = pc[t] /\ state'[t] = state[t] /\ mask'[t] = mask[t]
        /\ delay'[t] = delay[t] /\ syncSem'[t] = syncSem[t]
        /\ UNCHANGED <<ca, waking, die, evFlags, values, queue>>
    BY <1>1, <1>2 DEF Enter, SetDelays, CalcTimeout, TimePasses, Wait
  <2>2. Holding(t)' \subseteq Holding(t)
    BY <2>1 DEF Holding
  <2> QED BY <2>1, <2>2, Kept
<1>3. CASE EventFunc(s) \/ PvGetQ(s) \/ PvFlushQ(s)
  <2>1. /\ pc'[t] = pc[t] /\ state'[t] = state[t] /\ mask'[t] = mask[t]
        /\ delay'[t] = delay[t] /\ syncSem'[t] = syncSem[t]
        /\ UNCHANGED <<ca, waking, die, values>>
    BY <1>1, <1>3 DEF EventFunc, PvGetQ, PvFlushQ
  <2>2. /\ evFlags' \subseteq evFlags
        /\ SyncFlag \in evFlags => SyncFlag \in evFlags'
    BY <1>3 DEF EventFunc, PvGetQ, PvFlushQ
  <2>3. queue' > 0 => queue > 0
    BY <1>1, <1>3 DEF EventFunc, PvGetQ, PvFlushQ
  <2>4. Holding(t)' \subseteq Holding(t) \cup ({} \cap EventMask[t][state[t]])
    BY <1>1, <2>1, <2>2, <2>3, HoldingGrows
  <2> QED BY <2>1, <2>2, <2>3, <2>4, Kept
<1>4. CASE EfSet(s) \/ EfClear(s)
  <2>1. PICK f \in Flags \ {SyncFlag} :
          evFlags' \in {evFlags \cup {f}, evFlags \ {f}} /\ syncSem' = Woken({f})
    BY <1>4 DEF EfSet, EfClear
  <2>2. /\ pc'[t] = pc[t] /\ state'[t] = state[t] /\ mask'[t] = mask[t]
        /\ delay'[t] = delay[t]
        /\ UNCHANGED <<ca, waking, die, values, queue>>
    BY <1>1, <1>4, Leaves DEF EfSet, EfClear
  <2>3. syncSem'[t] <=> syncSem[t] \/ mask[t] \cap {f} # {}
    BY <1>1, <2>1, Wakes
  <2>4. Holding(t)' \subseteq Holding(t) \cup ({f} \cap EventMask[t][state[t]])
    BY <1>1, <2>1, <2>2, HoldingGrows
  <2>5. Waiting(t) => mask[t] = EventMask[t][state[t]]
    BY <1>1 DEF MaskInv, Waiting
  <2>6. Waiting(t) /\ ~syncSem'[t] => Holding(t)' \subseteq Holding(t)
    BY <2>3, <2>4, <2>5
  <2>7. SyncFlag \in evFlags => SyncFlag \in evFlags'
    BY <2>1
  <2> QED BY <2>2, <2>3, <2>6, <2>7, Kept
<1>5. CASE ClearFlagIfEmpty(s) \/ ClearFlag(s)
  <2>1. /\ pc'[t] = pc[t] /\ state'[t] = state[t] /\ mask'[t] = mask[t]
        /\ delay'[t] = delay[t] /\ syncSem'[t] = syncSem[t]
        /\ UNCHANGED <<ca, waking, die, values, queue>>
    BY <1>1, <1>5, Leaves DEF ClearFlagIfEmpty, ClearFlag
  <2>2. evFlags' \subseteq evFlags
    BY <1>5 DEF ClearFlagIfEmpty, ClearFlag
  <2>3. pc[t] # "flushed"
    BY <1>1, <1>5 DEF ReaderInv, ClearFlagIfEmpty, ClearFlag
  <2>4. Holding(t)' \subseteq Holding(t) \cup ({} \cap EventMask[t][state[t]])
    BY <1>1, <2>1, <2>2, HoldingGrows
  <2> QED BY <2>1, <2>3, <2>4, Kept
<1> QED BY <1>2, <1>3, <1>4, <1>5 DEF StateSetStep

LEMMA OwnStep ==
  ASSUME IInv, NEW s \in StateSets, StateSetStep(s) \/ TimePasses(s)
  PROVE  SetInv(s)'
<1> USE DEF connVars, dataVars, ssVars
<1>1. /\ Types /\ SetInv(s)
      /\ pc \in [StateSets -> Places] /\ syncSem \in [StateSets -> BOOLEAN]
      /\ mask \in [StateSets -> SUBSET (Flags \cup Channels)]
      /\ delay \in [StateSets -> {"off", "running", "passed", "marked"}]
      /\ state \in [StateSets -> UNION {States[u] : u \in StateSets}]
  BY DEF IInv, Types, TypeOK, Places
<1> USE DEF SetInv, MaskInv, DelayInv, DieInv, ReaderInv, Waiting
<1>2. CASE Enter(s)
  BY <1>1, <1>2 DEF Enter, HeldInv
<1>3. CASE SetDelays(s)
  BY <1>1, <1>3 DEF SetDelays, HeldInv
<1>4. CASE CalcTimeout(s) \/ TimePasses(s)
  <2>1. /\ Waiting(s) /\ Waiting(s)' /\ (pc'[s] = "timeout" => delay'[s] # "marked")
        /\ pc'[s] = "wait" => delay'[s] = "off"
    BY <1>1, <1>4 DEF CalcTimeout, TimePasses
  <2>2. UNCHANGED <<ca, waking, die, evFlags, values, queue, state, mask, syncSem>>
    BY <1>4 DEF CalcTimeout, TimePasses
  <2>3. HeldInv(s)'
    BY <1>1, <2>1, <2>2 DEF HeldInv, Holding
  <2> QED BY <1>1, <2>1, <2>2, <2>3
<1>5. CASE Wait(s)
  BY <1>1, <1>5 DEF Wait, HeldInv
<1>6. CASE EventFunc(s)
  <2>1. CASE ~Condition(s)
    <3>1. /\ pc'[s] = "timeout" /\ delay'[s] # "marked" /\ Holding(s) = {}
          /\ UNCHANGED <<ca, waking, die, evFlags, values, queue, state, mask, syncSem>>
      BY <1>1, <1>6, <2>1 DEF EventFunc, Condition, DelayPassed
    <3>2. Holding(s)' = Holding(s)
      BY <3>1 DEF Holding
    <3>3. HeldInv(s)'
      BY <3>1, <3>2 DEF HeldInv
    <3> QED BY <1>1, <1>6, <3>1, <3>3 DEF EventFunc
  <2>2. CASE Condition(s)
    <3>1. pc'[s] = "action" \/ (pc'[s] = "got" /\ Queued \in Holding(s))
      BY <1>1, <1>6, <2>2 DEF EventFunc
    <3>2. Queued \in Holding(s) => s = Reader
      BY <1>1, ProgramAssumption DEF Holding, Types, TypeOK
    <3>3. HeldInv(s)'
      BY <3>1 DEF HeldInv
    <3> QED BY <1>1, <1>6, <3>1, <3>2, <3>3 DEF EventFunc
  <2> QED BY <2>1, <2>2
<1>7. CASE EfSet(s) \/ EfClear(s) \/ ClearFlagIfEmpty(s) \/ ClearFlag(s)
  <2>1. pc'[s] \in {"enter", "dead"}
    BY <1>1, <1>7, Leaves DEF EfSet, EfClear, ClearFlagIfEmpty, ClearFlag
  <2> QED BY <2>1 DEF HeldInv
<1>8. CASE PvGetQ(s) \/ PvFlushQ(s)
  <2>1. /\ pc[s] = "action" /\ pc'[s] \in {"got", "flushed"} /\ s = Reader
        /\ UNCHANGED <<state, mask>>
        /\ pc'[s] = "flushed" => queue' = 0
    BY <1>1, <1>8 DEF PvGetQ, PvFlushQ
  <2>2. MaskInv(s)' /\ DelayInv(s)' /\ DieInv(s)' /\ HeldInv(s)'
    BY <1>1, <2>1 DEF HeldInv
  <2>3. ReaderInv(s)'
    BY <2>1
  <2> QED BY <2>2, <2>3
<1> QED BY <1>2, <1>3, <1>4, <1>5, <1>6, <1>7, <1>8 DEF StateSetStep

LEMMA FlagKept ==
  ASSUME IInv, NEW s \in StateSets, StateSetStep(s) \/ TimePasses(s)
  PROVE  FlagFollowsQueue'
<1> USE DEF connVars, dataVars, ssVars, FlagFollowsQueue
<1>1. /\ queue > 0 /\ SyncFlag \notin evFlags => ca.at = "flag" \/ overtaken
      /\ pc[s] = "flushed" /\ queue > 0 => ca.at = "flag" \/ SyncFlag \in evFlags
  BY DEF IInv, SetInv, ReaderInv
<1>2. queue \in 0..QueueSize /\ QueueSize \in Nat
  BY ProgramAssumption DEF IInv, Types, TypeOK
<1>3. CASE Enter(s) \/ SetDelays(s) \/ CalcTimeout(s) \/ TimePasses(s) \/ Wait(s)
  <2>1. UNCHANGED <<queue, evFlags, ca, overtaken>>
    BY <1>3 DEF Enter, SetDelays, CalcTimeout, TimePasses, Wait
  <2> QED BY <1>1, <2>1
<1>4. CASE PvGetQ(s) \/ PvFlushQ(s) \/ EfSet(s) \/ EfClear(s) \/ EventFunc(s)
  <2>1. /\ SyncFlag \in evFlags => SyncFlag \in evFlags'
        /\ UNCHANGED <<ca, overtaken>>
    BY <1>4 DEF PvGetQ, PvFlushQ, EfSet, EfClear, EventFunc
  <2>2. queue' > 0 => queue > 0
    BY <1>2, <1>4 DEF PvGetQ, PvFlushQ, EfSet, EfClear, EventFunc
  <2> QED BY <1>1, <2>1, <2>2
<1>5. CASE ClearFlagIfEmpty(s)
  <2>1. /\ queue > 0 => UNCHANGED evFlags
        /\ UNCHANGED <<queue, ca, overtaken>>
    BY <1>2, <1>5 DEF ClearFlagIfEmpty
  <2> QED BY <1>1, <2>1
<1>6. CASE ClearFlag(s)
  <2>1. /\ pc[s] = "flushed" /\ UNCHANGED <<queue, ca>>
        /\ overtaken' = (queue > 0 /\ SyncFlag \in evFlags)
    BY <1>6 DEF ClearFlag
  <2> QED BY <1>1, <2>1
<1> QED BY <1>3, <1>4, <1>5, <1>6 DEF StateSetStep

----------------------------------------------------------------------------
(* The steps of the handlers, of seqWakeup and of the main thread.          *)

\* A handler that begins, or goes on to wake the state sets, changes nothing else of a
\* state set that knows what it waits for.
LEMMA Brought ==
  ASSUME IInv, NEW s \in StateSets, HeldInv(s)',
         pc' = pc, state' = state, mask' = mask, delay' = delay, die' = die,
         waking'["shell"] = waking["shell"],
         syncSem[s] => syncSem'[s],
         pc[s] = "flushed" /\ queue' > 0 => ca'.at = "flag" \/ SyncFlag \in evFlags'
  PROVE  SetInv(s)'
<1>1. SetInv(s)
  BY DEF IInv
<1>2. MaskInv(s)' /\ DelayInv(s)' /\ DieInv(s)' /\ ReaderInv(s)'
  BY <1>1 DEF SetInv, MaskInv, DelayInv, DieInv, ReaderInv, Waiting
<1> QED BY <1>2 DEF SetInv

\* When no handler runs, a state set that sleeps has nothing of what it waits for.
LEMMA NothingHeld ==
  ASSUME IInv, NEW s \in StateSets, ca = Idle \/ (ca.at = "wake" /\ waking["ca"] = numSS)
  PROVE  Waiting(s) /\ ~syncSem[s] => Holding(s) = {}
<1>1. s < numSS /\ s \in Nat /\ numSS \in Nat
  BY StateSetsAre
<1>2. ~(waking["ca"] = numSS /\ waking["ca"] <= s)
  BY <1>1
<1>3. CASE ca = Idle
  BY <1>3 DEF IInv, SetInv, HeldInv, Idle
<1>4. CASE ca.at = "wake" /\ waking["ca"] = numSS
  BY <1>2, <1>4 DEF IInv, SetInv, HeldInv
<1> QED BY <1>3, <1>4

LEMMA HandlerInv ==
  ASSUME IInv,
         HandlerStep \/ \E c \in Channels : ConnHandler(c) \/ DisconnHandler(c) \/ MonHandler(c)
  PROVE  FlagFollowsQueue' /\ \A s \in StateSets : SetInv(s)'
<1> USE DEF connVars, dataVars, ssVars
<1>1. /\ Types /\ \A s \in StateSets : SetInv(s)
      /\ queue > 0 /\ SyncFlag \notin evFlags => ca.at = "flag" \/ overtaken
      /\ \A s \in StateSets :
           pc[s] = "flushed" /\ queue > 0 => ca.at = "flag" \/ SyncFlag \in evFlags
  BY DEF IInv, FlagFollowsQueue, SetInv, ReaderInv
<1>2. /\ Queued \in Channels /\ Everyone \notin Channels /\ Idle.at = "idle"
      /\ \A s \in StateSets : s \in Nat /\ 0 <= s
      /\ waking \in [Threads -> 0..numSS] /\ numSS \in Nat
      /\ ca \in [at : {"idle", "flag", "wake"}, chan : Channels \cup {Everyone}]
      /\ queue \in 0..QueueSize /\ QueueSize \in Nat
  <2>1. \A s \in StateSets : s \in Nat /\ 0 <= s
    BY StateSetsAre
  <2> QED BY <2>1, <1>1, ProgramAssumption, StateSetsAre DEF Types, TypeOK, Idle
<1>3. ASSUME NEW c \in Channels, ConnHandler(c) \/ DisconnHandler(c)
      PROVE  FlagFollowsQueue' /\ \A s \in StateSets : SetInv(s)'
  <2>1. /\ ca = Idle /\ ca' = [at |-> "wake", chan |-> Everyone]
        /\ waking' = [waking EXCEPT !["ca"] = 0]
        /\ UNCHANGED <<pc, state, mask, delay, syncSem, die, evFlags, values, queue, overtaken>>
    BY <1>3 DEF ConnHandler, DisconnHandler
  <2>2. waking'["shell"] = waking["shell"]
    BY <1>2, <2>1 DEF Threads
  <2>3. ASSUME NEW s \in StateSets PROVE SetInv(s)'
    <3>1. Waiting(s) /\ ~syncSem'[s] => Holding(s)' \subseteq {}
      BY <2>1, NothingHeld DEF Holding
    <3>2. pc[s] = "flushed" /\ queue' > 0 => ca'.at = "flag" \/ SyncFlag \in evFlags'
      BY <1>1, <1>2, <2>1
    <3>3. /\ pc' = pc /\ state' = state /\ mask' = mask /\ delay' = delay /\ die' = die
          /\ syncSem[s] => syncSem'[s]
      BY <2>1
    <3>4. HeldInv(s)'
      BY <3>1, <3>3 DEF HeldInv, Waiting
    <3> QED BY <2>2, <3>2, <3>3, <3>4, Brought
  <2>4. FlagFollowsQueue'
    BY <1>1, <1>2, <2>1 DEF FlagFollowsQueue
  <2> QED BY <2>3, <2>4
<1>4. ASSUME NEW c \in Channels, MonHandler(c)
      PROVE  FlagFollowsQueue' /\ \A s \in StateSets : SetInv(s)'
  <2>1. /\ ca = Idle /\ ca'.chan = c
        /\ UNCHANGED <<pc, state, mask, delay, syncSem, die, evFlags, overtaken>>
    BY <1>4 DEF MonHandler
  <2>2. /\ waking'["shell"] = waking["shell"]
        /\ \/ ca'.at = "flag" /\ c = Queued /\ values' = values
           \/ /\ ca'.at = "wake" /\ waking'["ca"] = 0 /\ queue' = queue
              /\ values' \subseteq values \cup {c}
    BY <1>2, <1>4 DEF MonHandler, Threads
  <2>3. ASSUME NEW s \in StateSets PROVE SetInv(s)'
    <3>1. queue' > 0 => queue > 0 \/ Queued \in {c}
      BY <2>2
    <3>2. Holding(s)' \subseteq Holding(s) \cup ({c} \cap EventMask[s][state[s]])
      BY <1>1, <2>1, <2>2, <3>1, HoldingGrows
    <3>3. Waiting(s) /\ ~syncSem'[s] => Holding(s)' \subseteq {c}
      BY <2>1, <3>2, NothingHeld
    <3>4. pc[s] = "flushed" /\ queue' > 0 => ca'.at = "flag" \/ SyncFlag \in evFlags'
      BY <1>1, <1>2, <2>1, <2>2
    <3>5. \A e \in {c} : ca'.chan = e /\ (ca'.at = "flag" \/ (ca'.at = "wake" /\ waking'["ca"] <= s))
      BY <1>2, <2>1, <2>2
    <3>6. /\ pc' = pc /\ state' = state /\ mask' = mask /\ delay' = delay /\ die' = die
          /\ syncSem[s] => syncSem'[s]
      BY <2>1
    <3>7. HeldInv(s)'
      BY <3>3, <3>5, <3>6 DEF HeldInv, Waiting
    <3> QED BY <2>2, <3>4, <3>6, <3>7, Brought
  <2>4. FlagFollowsQueue'
    BY <1>1, <1>2, <2>1, <2>2 DEF FlagFollowsQueue
  <2> QED BY <2>3, <2>4
<1>5. CASE MonSetsFlag
  <2>1. /\ ca.at = "flag" /\ ca'.at = "wake" /\ ca'.chan = ca.chan
        /\ evFlags' = evFlags \cup {SyncFlag} /\ syncSem' = Woken({SyncFlag})
        /\ waking' = [waking EXCEPT !["ca"] = 0]
        /\ UNCHANGED <<pc, state, mask, delay, die, values, queue>>
    BY <1>2, <1>5 DEF MonSetsFlag
  <2>2. waking'["shell"] = waking["shell"] /\ waking'["ca"] = 0
    BY <1>2, <2>1 DEF Threads
  <2>3. ASSUME NEW s \in StateSets PROVE SetInv(s)'
    <3>1. syncSem'[s] <=> syncSem[s] \/ mask[s] \cap {SyncFlag} # {}
      BY <1>1, <2>1, Wakes
    <3>2. Holding(s)' \subseteq Holding(s) \cup ({SyncFlag} \cap EventMask[s][state[s]])
      BY <1>1, <2>1, HoldingGrows
    <3>3. Waiting(s) => mask[s] = EventMask[s][state[s]]
      BY <1>1 DEF SetInv, MaskInv, Waiting
    <3>4. Waiting(s) /\ ~syncSem[s] => Holding(s) \subseteq {ca.chan}
      BY <1>1 DEF SetInv, HeldInv
    <3>5. Waiting(s) /\ ~syncSem'[s] => Holding(s)' \subseteq {ca.chan}
      BY <3>1, <3>2, <3>3, <3>4
    <3>6. \A e \in {ca.chan} :
            ca'.chan = e /\ (ca'.at = "flag" \/ (ca'.at = "wake" /\ waking'["ca"] <= s))
      BY <1>2, <2>1, <2>2
    <3>7. /\ pc' = pc /\ state' = state /\ mask' = mask /\ delay' = delay /\ die' = die
          /\ SyncFlag \in evFlags'
      BY <2>1
    <3>8. HeldInv(s)'
      BY <3>5, <3>6, <3>7 DEF HeldInv, Waiting
    <3> QED BY <2>2, <3>1, <3>7, <3>8, Brought
  <2>4. FlagFollowsQueue'
    BY <2>1 DEF FlagFollowsQueue
  <2> QED BY <2>3, <2>4
<1>6. CASE HandlerReturns
  <2>1. /\ ca.at = "wake" /\ waking["ca"] = numSS /\ ca' = Idle
        /\ UNCHANGED <<pc, state, mask, delay, syncSem, die, evFlags, values, queue, overtaken, waking>>
    BY <1>6 DEF HandlerReturns
  <2>2. ASSUME NEW s \in StateSets PROVE SetInv(s)'
    <3>1. Waiting(s) /\ ~syncSem'[s] => Holding(s)' \subseteq {}
      BY <2>1, NothingHeld DEF Holding
    <3>2. pc[s] = "flushed" /\ queue' > 0 => ca'.at = "flag" \/ SyncFlag \in evFlags'
      BY <1>1, <2>1
    <3>3. /\ pc' = pc /\ state' = state /\ mask' = mask /\ delay' = delay /\ die' = die
          /\ waking'["shell"] = waking["shell"] /\ (syncSem[s] => syncSem'[s])
      BY <2>1
    <3>4. HeldInv(s)'
      BY <3>1, <3>3 DEF HeldInv, Waiting
    <3> QED BY <3>2, <3>3, <3>4, Brought
  <2>3. FlagFollowsQueue'
    BY <1>1, <2>1 DEF FlagFollowsQueue
  <2> QED BY <2>2, <2>3
<1> QED BY <1>3, <1>4, <1>5, <1>6 DEF HandlerStep

LEMMA WakeInv ==
  ASSUME IInv, NEW t \in Threads, WakeNext(t)
  PROVE  FlagFollowsQueue' /\ \A s \in StateSets : SetInv(s)'
<1> USE DEF connVars, dataVars
<1>1. /\ waking[t] \in StateSets /\ waking[t] \in Nat
      /\ waking \in [Threads -> 0..numSS] /\ numSS \in Nat
      /\ syncSem \in [StateSets -> BOOLEAN] /\ \A s \in StateSets : s \in Nat
      /\ {"ca", "shell"} = Threads
  BY Callers, StateSetsAre DEF WakeNext, IInv, Types, TypeOK, Threads
<1>2. /\ waking'[t] = waking[t] + 1 /\ \A u \in Threads \ {t} : waking'[u] = waking[u]
      /\ UNCHANGED <<ca, evFlags, values, queue, overtaken, die, pc, state, mask, delay>>
  BY <1>1 DEF WakeNext
<1>3. FlagFollowsQueue'
  BY <1>2 DEF IInv, FlagFollowsQueue
<1>4. ASSUME NEW s \in StateSets PROVE SetInv(s)'
  <2>1. SetInv(s) /\ Holding(s)' = Holding(s)
    BY <1>2 DEF IInv, Holding
  <2>2. MaskInv(s)' /\ DelayInv(s)' /\ ReaderInv(s)'
    BY <1>2, <2>1 DEF SetInv, MaskInv, DelayInv, ReaderInv
  <2>3. CASE s # waking[t]
    <3>1. syncSem'[s] = syncSem[s]
      BY <1>1, <2>3 DEF WakeNext
    <3>2. \A u \in Threads : waking[u] <= s => waking'[u] <= s
      BY <1>1, <1>2, <2>3
    <3>3. HeldInv(s)'
      BY <1>1, <1>2, <2>1, <3>1, <3>2 DEF SetInv, HeldInv, Waiting
    <3>4. DieInv(s)'
      BY <1>1, <1>2, <2>1, <3>1, <3>2 DEF SetInv, DieInv, Waiting
    <3> QED BY <2>2, <3>3, <3>4 DEF SetInv
  <2>4. CASE s = waking[t] /\ t = "shell"
    <3>1. syncSem'[s]
      BY <1>1, <2>4 DEF WakeNext
    <3> QED BY <2>2, <3>1 DEF SetInv, HeldInv, DieInv
  <2>5. CASE s = waking[t] /\ t = "ca"
    <3>1. syncSem'[s] <=> syncSem[s] \/ ca.chan = Everyone \/ ca.chan \in mask[s]
      BY <1>1, <2>5 DEF WakeNext
    <3>2. waking'["shell"] = waking["shell"]
      BY <1>1, <1>2, <2>5
    <3>3. DieInv(s)'
      BY <1>2, <2>1, <3>1, <3>2 DEF SetInv, DieInv, Waiting
    <3>4. ASSUME Waiting(s), ~syncSem'[s], NEW e \in Holding(s) PROVE FALSE
      <4>1. ca.chan = e /\ mask[s] = EventMask[s][state[s]]
        BY <2>1, <3>1, <3>4 DEF SetInv, HeldInv, MaskInv, Waiting
      <4>2. e \in EventMask[s][state[s]]
        BY <3>4 DEF Holding
      <4> QED BY <3>1, <3>4, <4>1, <4>2
    <3>5. HeldInv(s)'
      BY <1>2, <2>1, <3>4 DEF HeldInv, Waiting
    <3> QED BY <2>2, <3>3, <3>5 DEF SetInv
  <2> QED BY <1>1, <2>3, <2>4, <2>5
<1> QED BY <1>3, <1>4

LEMMA MainInv ==
  ASSUME IInv, MainStep \/ SeqExit
  PROVE  FlagFollowsQueue' /\ \A s \in StateSets : SetInv(s)'
<1> USE DEF connVars, dataVars, ssVars
<1>1. UNCHANGED <<evFlags, values, queue, overtaken, state, mask, syncSem, delay, ca>>
  BY DEF MainStep, SeqExit, SeqConnect, JoinStateSets, SeqDisconnect, CreateStateSet
<1>2. FlagFollowsQueue'
  BY <1>1 DEF IInv, FlagFollowsQueue
<1>3. ASSUME NEW s \in StateSets PROVE SetInv(s)'
  <2>1. SetInv(s) /\ Holding(s)' = Holding(s)
    BY <1>1 DEF IInv, Holding
  <2>2. CASE SeqConnect \/ JoinStateSets \/ SeqDisconnect
    <3>1. UNCHANGED <<pc, die, waking>>
      BY <2>2 DEF SeqConnect, JoinStateSets, SeqDisconnect
    <3> QED BY <1>1, <2>1, <3>1 DEF SetInv, MaskInv, DelayInv, HeldInv, DieInv, ReaderInv, Waiting
  <2>3. ASSUME NEW r \in StateSets, CreateStateSet(r) PROVE SetInv(s)'
    <3>1. /\ pc'[s] = pc[s] \/ pc'[s] = "enter"
          /\ UNCHANGED <<die, waking>>
      BY <2>3 DEF CreateStateSet, IInv, Types, TypeOK
    <3> QED BY <1>1, <2>1, <3>1 DEF SetInv, MaskInv, DelayInv, HeldInv, DieInv, ReaderInv, Waiting
  <2>4. CASE SeqExit
    <3>1. /\ waking'["ca"] = waking["ca"] /\ waking'["shell"] = 0 /\ UNCHANGED pc
          /\ s \in Nat /\ 0 <= s
      BY <2>4, StateSetsAre DEF SeqExit, IInv, Types, TypeOK, Threads
    <3> QED BY <1>1, <2>1, <3>1 DEF SetInv, MaskInv, DelayInv, HeldInv, DieInv, ReaderInv, Waiting
  <2> QED BY <2>2, <2>3, <2>4 DEF MainStep
<1> QED BY <1>2, <1>3

LEMMA Invariance == Spec => []IInv
<1>1. IInv /\ [Next]_vars => IInv'
  <2> SUFFICES ASSUME IInv, [Next]_vars PROVE IInv'
    OBVIOUS
  <2>1. Types'
    BY TypesStep DEF IInv
  <2>2. CASE UNCHANGED vars
    BY <2>1, <2>2 DEF vars, connVars, dataVars, ssVars, IInv, FlagFollowsQueue, SetInv,
       MaskInv, DelayInv, HeldInv, DieInv, ReaderInv, Waiting, Holding
  <2>3. ASSUME NEW s \in StateSets, StateSetStep(s) \/ TimePasses(s) PROVE IInv'
    BY <2>1, <2>3, OthersKept, OwnStep, FlagKept DEF IInv
  <2>4. CASE HandlerStep \/ \E c \in Channels : ConnHandler(c) \/ DisconnHandler(c) \/ MonHandler(c)
    BY <2>1, <2>4, HandlerInv DEF IInv
  <2>5. ASSUME NEW t \in Threads, WakeNext(t) PROVE IInv'
    BY <2>1, <2>5, WakeInv DEF IInv
  <2>6. CASE MainStep \/ SeqExit
    BY <2>1, <2>6, MainInv DEF IInv
  <2> QED BY <2>2, <2>3, <2>4, <2>5, <2>6 DEF Next
<1> QED BY <1>1, InitIInv, PTL DEF Spec

\* A state set never sleeps over a condition that holds, a delay that has passed or
\* an exit that was asked for, unless somebody is on the way to wake it.
THEOREM NoWakeupLost == Spec => []NoLostWakeup
<1>1. IInv => NoLostWakeup
  <2> SUFFICES ASSUME IInv, NEW s \in StateSets,
                      pc[s] \in {"wait", "timed wait"}, ~syncSem[s],
                      ~(pc[s] = "timed wait" /\ DelayPassed(s)), die \/ Condition(s)
               PROVE  AboutToWake(s)
    BY DEF NoLostWakeup
  <2>1. SetInv(s)
    BY DEF IInv
  <2>2. CASE die
    BY <2>1, <2>2 DEF SetInv, DieInv, Waiting, AboutToWake, Threads
  <2>3. CASE Holding(s) # {}
    BY <2>1, <2>3 DEF SetInv, HeldInv, Waiting, AboutToWake, Threads
  <2>4. ~DelayPassed(s)
    BY <2>1 DEF SetInv, DelayInv, DelayPassed
  <2> QED BY <2>2, <2>3, <2>4 DEF Condition
<1> QED BY <1>1, Invariance, PTL

\* A queue with elements has its flag set, unless the monitor of its last element is
\* about to set it or pvFlushQ has just overtaken one.
THEOREM FlagIsKept == Spec => []FlagFollowsQueue
<1>1. IInv => FlagFollowsQueue
  BY DEF IInv
<1> QED BY <1>1, Invariance, PTL

----------------------------------------------------------------------------
(* The start of the program.                                                *)

\* Until the channels are destroyed, firstMonitorCount counts the channels that have
\* had their first monitor, and those lost since, and the former are connected.
FirstInv ==
  main # "ended" =>
    /\ firstMonitorCount = Cardinality(gotOneMonitor) + lost
    /\ gotOneMonitor \subseteq connected
    /\ ca.at # "idle" /\ ca.chan # Everyone => ca.chan \in connected

LEMMA FirstStep ==
  ASSUME Types, FirstInv, [Next]_vars
  PROVE  FirstInv'
<1> USE DEF connVars, dataVars, ssVars
<1>1. /\ gotOneMonitor \subseteq Channels /\ IsFiniteSet(gotOneMonitor)
      /\ Cardinality(gotOneMonitor) \in Nat /\ lost \in Nat
      /\ ca.chan \in Monitored \cup {Everyone}
  <2>1. gotOneMonitor \subseteq Channels /\ IsFiniteSet(Channels)
    BY ProgramAssumption DEF Types, TypeOK
  <2> QED BY <2>1, FS_Subset, FS_CardinalityType DEF Types, TypeOK
<1>2. main = "ended" => main' = "ended"
  BY DEF Next, MainStep, SeqConnect, JoinStateSets, SeqDisconnect, CreateStateSet, SeqExit,
     HandlerStep, MonSetsFlag, HandlerReturns, ConnHandler, DisconnHandler, MonHandler,
     WakeNext, StateSetStep, Enter, SetDelays, CalcTimeout, Wait, EventFunc, EfSet, EfClear,
     PvGetQ, ClearFlagIfEmpty, PvFlushQ, ClearFlag, TimePasses, vars
<1> SUFFICES ASSUME main # "ended", main' # "ended" PROVE FirstInv'
  BY <1>2 DEF FirstInv
<1>3. ASSUME NEW c \in Channels, ConnHandler(c) PROVE FirstInv'
  <2>1. gotOneMonitor' = gotOneMonitor
    BY <1>3 DEF ConnHandler, FirstInv
  <2> QED BY <1>3, <2>1 DEF ConnHandler, FirstInv
<1>4. ASSUME NEW c \in Channels, DisconnHandler(c) PROVE FirstInv'
  <2>1. CASE c \notin gotOneMonitor
    <3>1. gotOneMonitor' = gotOneMonitor /\ lost' = lost
      BY <1>4, <2>1 DEF DisconnHandler
    <3> QED BY <1>4, <2>1, <3>1 DEF DisconnHandler, FirstInv
  <2>2. CASE c \in gotOneMonitor
    <3>1. Cardinality(gotOneMonitor \ {c}) = Cardinality(gotOneMonitor) - 1
      BY <1>1, <2>2, FS_RemoveElement
    <3>2. Cardinality(gotOneMonitor') + lost' = Cardinality(gotOneMonitor) + lost
      BY <1>1, <1>4, <2>2, <3>1 DEF DisconnHandler
    <3> QED BY <1>4, <3>2 DEF DisconnHandler, FirstInv
  <2> QED BY <2>1, <2>2
<1>5. ASSUME NEW c \in Channels, MonHandler(c) PROVE FirstInv'
  BY <1>5 DEF MonHandler, FirstInv
<1>6. CASE MonSetsFlag
  BY <1>6 DEF MonSetsFlag, FirstInv, Types, TypeOK
<1>7. CASE HandlerReturns
  <2>1. CASE ca.chan = Everyone \/ ca.chan \in gotOneMonitor
    BY <1>7, <2>1 DEF HandlerReturns, FirstInv, Idle
  <2>2. CASE ca.chan # Everyone /\ ca.chan \notin gotOneMonitor
    <3>1. Cardinality(gotOneMonitor \cup {ca.chan}) = Cardinality(gotOneMonitor) + 1
      BY <1>1, <2>2, FS_AddElement
    <3>2. ca.chan \in connected
      BY <1>7, <2>2 DEF HandlerReturns, FirstInv
    <3>3. gotOneMonitor' = gotOneMonitor \cup {ca.chan} /\ firstMonitorCount' = firstMonitorCount + 1
          /\ lost' = lost /\ connected' = connected /\ ca'.at = "idle"
      BY <1>7, <2>2 DEF HandlerReturns, Idle
    <3>4. firstMonitorCount = Cardinality(gotOneMonitor) + lost /\ gotOneMonitor \subseteq connected
      BY DEF FirstInv
    <3>5. firstMonitorCount' = Cardinality(gotOneMonitor') + lost'
      BY <1>1, <3>1, <3>3, <3>4
    <3> QED BY <3>2, <3>3, <3>4, <3>5 DEF FirstInv
  <2> QED BY <2>1, <2>2
<1>8. CASE SeqDisconnect
  BY <1>8 DEF SeqDisconnect
<1>9. CASE \/ UNCHANGED vars \/ SeqConnect \/ JoinStateSets \/ SeqExit
           \/ \E s \in StateSets : CreateStateSet(s) \/ StateSetStep(s) \/ TimePasses(s)
           \/ \E t \in Threads : WakeNext(t)
  <2>1. UNCHANGED <<firstMonitorCount, lost, gotOneMonitor, connected, ca>>
    BY <1>9 DEF vars, SeqConnect, JoinStateSets, CreateStateSet, SeqExit,
       WakeNext, StateSetStep, Enter, SetDelays, CalcTimeout, Wait, EventFunc, EfSet, EfClear,
       PvGetQ, ClearFlagIfEmpty, PvFlushQ, ClearFlag, TimePasses
  <2> QED BY <2>1 DEF FirstInv
<1> QED BY <1>3, <1>4, <1>5, <1>6, <1>7, <1>8, <1>9 DEF Next, MainStep, HandlerStep

\* The entry code runs when every channel is connected, and no more monitored ones
\* lack their first monitor than were lost after it.
THEOREM EntryInTime == Spec => EntryWithMonitors
<1> DEFINE Step == main' = "entry" /\ main = "connect" =>
                     connected = Channels /\ Cardinality(Monitored \ gotOneMonitor) <= lost
<1>1. Init => FirstInv
  <2>1. Cardinality({}) = 0
    BY FS_EmptySet
  <2> QED BY <2>1 DEF Init, FirstInv, Idle
<1>2. FirstInv /\ Types /\ [Next]_vars => FirstInv'
  BY FirstStep
<1>3. FirstInv /\ Types /\ [Next]_vars => [Step]_vars
  <2> SUFFICES ASSUME FirstInv, Types, Next, main' = "entry", main = "connect"
               PROVE  connected = Channels /\ Cardinality(Monitored \ gotOneMonitor) <= lost
    BY DEF vars
  <2>1. SeqConnect
    BY DEF connVars, dataVars, ssVars, Next, MainStep, JoinStateSets, SeqDisconnect,
       CreateStateSet, SeqExit, HandlerStep, MonSetsFlag, HandlerReturns, ConnHandler,
       DisconnHandler, MonHandler, WakeNext, StateSetStep, Enter, SetDelays, CalcTimeout,
       Wait, EventFunc, EfSet, EfClear, PvGetQ, ClearFlagIfEmpty, PvFlushQ, ClearFlag,
       TimePasses
  <2>2. /\ Cardinality(connected) = Cardinality(Channels)
        /\ Cardinality(gotOneMonitor) + lost = Cardinality(Monitored)
    BY <2>1 DEF SeqConnect, Ready, FirstInv
  <2>3. /\ IsFiniteSet(Channels) /\ connected \subseteq Channels
        /\ Monitored \subseteq Channels /\ gotOneMonitor \subseteq Monitored
        /\ lost \in Nat
    BY ProgramAssumption DEF Types, TypeOK
  <2>4. IsFiniteSet(Monitored) /\ IsFiniteSet(gotOneMonitor)
    BY <2>3, FS_Subset
  <2>5. connected = Channels
    BY <2>2, <2>3, FS_Subset
  <2>6. Cardinality(Monitored \ gotOneMonitor) = Cardinality(Monitored) - Cardinality(gotOneMonitor)
    <3>1. Monitored \cap gotOneMonitor = gotOneMonitor
      BY <2>3
    <3> QED BY <2>4, <3>1, FS_Difference
  <2>7. Cardinality(Monitored) \in Nat /\ Cardinality(gotOneMonitor) \in Nat
    BY <2>4, FS_CardinalityType
  <2> QED BY <2>2, <2>3, <2>5, <2>6, <2>7
<1> QED BY <1>1, <1>2, <1>3, InitTypes, TypesStep, PTL DEF Spec, EntryWithMonitors

----------------------------------------------------------------------------
(* The queue of a syncQ variable.                                           *)

\* The slots from rd up to wr, as seqQueueUsed counts them without overflow.
Used == IF wr >= rd THEN wr - rd ELSE wr - rd + numElems

\* The writer goes without the mutex only if nothing overflows and the slot it
\* writes is not the last free one: that one tells a full ring from an empty one.
RingWriterInv ==
  /\ mutex = "writer" <=> wPc \in {"locked", "full", "notFull", "stillFull",
                                   "copyLocked", "unlock"}
  /\ wPc \in {"positions", "copy", "advance"} => ~overflow
  /\ wPc \in {"copy", "advance"} => Used <= numElems - 2
  /\ wPc \in {"notFull", "stillFull"} => overflow
  /\ wPc = "notFull" => Used <= numElems - 2
  /\ wPc \in {"copyLocked", "unlock"} /\ ~overflow => Used <= numElems - 2

\* The reader goes without the mutex only if the ring is not empty; with it
\* there is an element, or the writer is about to add one.
RingReaderInv ==
  /\ mutex = "reader" <=> rPc \in {"copyLocked", "unlock", "flush", "flushOverflow"}
  /\ rPc \in {"copy", "advance"} => Used >= 1
  /\ rPc = "lock" => overflow \/ Used >= 1 \/ wPc \in {"copyLocked", "unlock"}
  /\ rPc \in {"copyLocked", "unlock"} => overflow \/ Used >= 1

\* The inductive invariant.
RingInv == QueueTypeOK /\ RingWriterInv /\ RingReaderInv

LEMMA Sizes ==
  numElems \in Nat /\ numElems > 0 /\ Slots = 0..numElems - 1
BY SeqQueueAssumption DEF Slots

\* The next position, without the modulus.
LEMMA SuccIs ==
  ASSUME NEW i \in Slots
  PROVE  Succ(i) = IF i + 1 = numElems THEN 0 ELSE i + 1
<1>1. numElems \in Nat /\ numElems > 0 /\ i \in Nat /\ i < numElems
  BY Sizes
<1>2. CASE i + 1 = numElems
  BY <1>1, <1>2 DEF Succ
<1>3. CASE i + 1 < numElems
  BY <1>1, <1>3 DEF Succ
<1> QED BY <1>1, <1>2, <1>3

\* What the two tests of the positions find out, and what moving one does.
LEMMA UsedFacts ==
  ASSUME wr \in Slots, rd \in Slots
  PROVE  /\ Used \in 0..numElems - 1
         /\ Used = 0 <=> wr = rd
         /\ Used = numElems - 1 <=> Succ(wr) = rd
         /\ Succ(wr) \in Slots /\ Succ(rd) \in Slots
<1>1. numElems \in Nat /\ numElems > 0 /\ Slots = 0..numElems - 1
  BY Sizes
<1>2. /\ Succ(wr) = IF wr + 1 = numElems THEN 0 ELSE wr + 1
      /\ Succ(rd) = IF rd + 1 = numElems THEN 0 ELSE rd + 1
  BY SuccIs
<1> QED BY <1>1, <1>2 DEF Used

LEMMA WriterMoves ==
  ASSUME wr \in Slots, rd \in Slots, wr' = Succ(wr), rd' = rd,
         Used <= numElems - 2
  PROVE  Used' = Used + 1
BY Sizes, SuccIs DEF Used

LEMMA ReaderMoves ==
  ASSUME wr \in Slots, rd \in Slots, wr' = wr, rd' = Succ(rd), Used >= 1
  PROVE  Used' = Used - 1
BY Sizes, SuccIs DEF Used

LEMMA RingInit ==
  QueueInit => RingInv
<1> SUFFICES ASSUME QueueInit PROVE RingInv
  OBVIOUS
<1>1. QueueTypeOK
  <2>1. PICK v \in Values : buffer = [s \in Slots |-> v] /\ wVal = v /\ rVal = v /\ got = v
    BY DEF QueueInit
  <2>2. 0 \in Slots /\ buffer \in [Slots -> Values]
    BY <2>1, Sizes
  <2> QED BY <2>1, <2>2 DEF QueueInit, QueueTypeOK
<1>2. RingWriterInv /\ RingReaderInv
  BY SeqQueueAssumption DEF QueueInit, RingWriterInv, RingReaderInv
<1> QED BY <1>1, <1>2 DEF RingInv

\* Every step of the writer preserves it.
LEMMA WriterStep ==
  ASSUME RingInv, (\E v \in Values : Put(v)) \/ PutNext
  PROVE  RingInv'
<1> USE Sizes, UsedFacts DEF RingInv
<1>1. CASE \E v \in Values : Put(v)
  <2>1. QueueTypeOK'
    BY <1>1 DEF Put, QueueTypeOK, writerVars, readerVars
  <2>2. Used' = Used
    BY <1>1 DEF Put, Used
  <2>3. RingWriterInv'
    BY <1>1, <2>2, SeqQueueAssumption DEF Put, QueueTypeOK,
       RingWriterInv, RingReaderInv, writerVars, readerVars
  <2>4. RingReaderInv'
    BY <1>1, <2>2, SeqQueueAssumption DEF Put, QueueTypeOK,
       RingWriterInv, RingReaderInv, writerVars, readerVars
  <2> QED BY <2>1, <2>3, <2>4
<1>2. CASE PutReadsOverflow
  <2>1. QueueTypeOK'
    BY <1>2 DEF PutReadsOverflow, QueueTypeOK, writerVars, readerVars
  <2>2. Used' = Used
    BY <1>2 DEF PutReadsOverflow, Used
  <2>3. RingWriterInv'
    BY <1>2, <2>2, SeqQueueAssumption DEF PutReadsOverflow, QueueTypeOK, RingWriterInv,
       RingReaderInv, writerVars, readerVars
  <2>4. RingReaderInv'
    BY <1>2, <2>2, SeqQueueAssumption DEF PutReadsOverflow, QueueTypeOK, RingWriterInv,
       RingReaderInv, writerVars, readerVars
  <2> QED BY <2>1, <2>3, <2>4
<1>3. CASE PutReadsPositions
  <2>1. QueueTypeOK'
    BY <1>3 DEF PutReadsPositions, QueueTypeOK, writerVars, readerVars
  <2>2. Used' = Used
    BY <1>3 DEF PutReadsPositions, Used
  <2>3. RingWriterInv'
    BY <1>3, <2>2, SeqQueueAssumption DEF PutReadsPositions, QueueTypeOK, RingWriterInv,
       RingReaderInv, writerVars, readerVars
  <2>4. RingReaderInv'
    BY <1>3, <2>2, SeqQueueAssumption DEF PutReadsPositions, QueueTypeOK, RingWriterInv,
       RingReaderInv, writerVars, readerVars
  <2> QED BY <2>1, <2>3, <2>4
<1>4. CASE PutCopies
  <2>1. QueueTypeOK'
    BY <1>4 DEF PutCopies, QueueTypeOK, writerVars, readerVars
  <2>2. Used' = Used
    BY <1>4 DEF PutCopies, Used
  <2>3. RingWriterInv'
    BY <1>4, <2>2, SeqQueueAssumption DEF PutCopies, QueueTypeOK, RingWriterInv, RingReaderInv,
       writerVars, readerVars
  <2>4. RingReaderInv'
    BY <1>4, <2>2, SeqQueueAssumption DEF PutCopies, QueueTypeOK, RingWriterInv, RingReaderInv,
       writerVars, readerVars
  <2> QED BY <2>1, <2>3, <2>4
<1>5. CASE PutAdvances
  <2>1. QueueTypeOK'
    BY <1>5 DEF PutAdvances, QueueTypeOK, writerVars, readerVars
  <2>2. Used' = Used + 1
    BY <1>5, WriterMoves DEF PutAdvances, QueueTypeOK, RingWriterInv
  <2>3. RingWriterInv'
    BY <1>5, <2>2, SeqQueueAssumption DEF PutAdvances, QueueTypeOK, RingWriterInv,
       RingReaderInv, writerVars, readerVars
  <2>4. RingReaderInv'
    BY <1>5, <2>2, SeqQueueAssumption DEF PutAdvances, QueueTypeOK, RingWriterInv,
       RingReaderInv, writerVars, readerVars
  <2> QED BY <2>1, <2>3, <2>4
<1>6. CASE PutLocks
  <2>1. QueueTypeOK'
    BY <1>6 DEF PutLocks, QueueTypeOK, writerVars, readerVars
  <2>2. Used' = Used
    BY <1>6 DEF PutLocks, Used
  <2>3. RingWriterInv'
    BY <1>6, <2>2, SeqQueueAssumption DEF PutLocks, QueueTypeOK, RingWriterInv, RingReaderInv,
       writerVars, readerVars
  <2>4. RingReaderInv'
    BY <1>6, <2>2, SeqQueueAssumption DEF PutLocks, QueueTypeOK, RingWriterInv, RingReaderInv,
       writerVars, readerVars
  <2> QED BY <2>1, <2>3, <2>4
<1>7. CASE PutReadsPositionsLocked
  <2>1. QueueTypeOK'
    BY <1>7 DEF PutReadsPositionsLocked, QueueTypeOK, writerVars, readerVars
  <2>2. Used' = Used
    BY <1>7 DEF PutReadsPositionsLocked, Used
  <2>3. RingWriterInv'
    BY <1>7, <2>2, SeqQueueAssumption DEF PutReadsPositionsLocked, QueueTypeOK,
       RingWriterInv, RingReaderInv, writerVars, readerVars
  <2>4. RingReaderInv'
    BY <1>7, <2>2, SeqQueueAssumption DEF PutReadsPositionsLocked, QueueTypeOK,
       RingWriterInv, RingReaderInv, writerVars, readerVars
  <2> QED BY <2>1, <2>3, <2>4
<1>8. CASE PutOverflows
  <2>1. QueueTypeOK'
    BY <1>8 DEF PutOverflows, QueueTypeOK, writerVars, readerVars
  <2>2. Used' = Used
    BY <1>8 DEF PutOverflows, Used
  <2>3. RingWriterInv'
    BY <1>8, <2>2, SeqQueueAssumption DEF PutOverflows, QueueTypeOK, RingWriterInv,
       RingReaderInv, writerVars, readerVars
  <2>4. RingReaderInv'
    BY <1>8, <2>2, SeqQueueAssumption DEF PutOverflows, QueueTypeOK, RingWriterInv,
       RingReaderInv, writerVars, readerVars
  <2> QED BY <2>1, <2>3, <2>4
<1>9. CASE PutAdmitsOverflow
  <2>1. QueueTypeOK'
    BY <1>9 DEF PutAdmitsOverflow, QueueTypeOK, writerVars, readerVars
  <2>2. Used' = Used + 1
    BY <1>9, WriterMoves DEF PutAdmitsOverflow, QueueTypeOK, RingWriterInv
  <2>3. RingWriterInv'
    BY <1>9, <2>2, SeqQueueAssumption DEF PutAdmitsOverflow, QueueTypeOK, RingWriterInv,
       RingReaderInv, writerVars, readerVars
  <2>4. RingReaderInv'
    BY <1>9, <2>2, SeqQueueAssumption DEF PutAdmitsOverflow, QueueTypeOK, RingWriterInv,
       RingReaderInv, writerVars, readerVars
  <2> QED BY <2>1, <2>3, <2>4
<1>10. CASE PutClearsOverflow
  <2>1. QueueTypeOK'
    BY <1>10 DEF PutClearsOverflow, QueueTypeOK, writerVars, readerVars
  <2>2. Used' = Used
    BY <1>10 DEF PutClearsOverflow, Used
  <2>5. overflow' <=> Used = numElems - 1
    BY <1>10 DEF PutClearsOverflow, QueueTypeOK
  <2>6. Used \in 0..numElems - 1
    BY DEF QueueTypeOK
  <2>3. RingWriterInv'
    BY <1>10, <2>2, <2>5, <2>6 DEF PutClearsOverflow, RingWriterInv
  <2>4. RingReaderInv'
    BY <1>10, <2>2, SeqQueueAssumption DEF PutClearsOverflow, QueueTypeOK, RingWriterInv,
       RingReaderInv, writerVars, readerVars
  <2> QED BY <2>1, <2>3, <2>4
<1>11. CASE PutCopiesLocked
  <2>1. QueueTypeOK'
    BY <1>11 DEF PutCopiesLocked, QueueTypeOK, writerVars, readerVars
  <2>2. Used' = Used
    BY <1>11 DEF PutCopiesLocked, Used
  <2>3. RingWriterInv'
    BY <1>11, <2>2, SeqQueueAssumption DEF PutCopiesLocked, QueueTypeOK, RingWriterInv,
       RingReaderInv, writerVars, readerVars
  <2>4. RingReaderInv'
    BY <1>11, <2>2, SeqQueueAssumption DEF PutCopiesLocked, QueueTypeOK, RingWriterInv,
       RingReaderInv, writerVars, readerVars
  <2> QED BY <2>1, <2>3, <2>4
<1>12. CASE PutUnlocks
  <2>1. QueueTypeOK'
    BY <1>12 DEF PutUnlocks, QueueTypeOK, writerVars, readerVars
  <2>2. IF overflow THEN Used' = Used ELSE Used' = Used + 1
    BY <1>12, WriterMoves DEF PutUnlocks, QueueTypeOK, RingWriterInv, Used
  <2>3. RingWriterInv'
    BY <1>12, <2>2, SeqQueueAssumption DEF PutUnlocks, QueueTypeOK, RingWriterInv,
       RingReaderInv, writerVars, readerVars
  <2>4. RingReaderInv'
    BY <1>12, <2>2, SeqQueueAssumption DEF PutUnlocks, QueueTypeOK, RingWriterInv,
       RingReaderInv, writerVars, readerVars
  <2> QED BY <2>1, <2>3, <2>4
<1> QED BY <1>1, <1>2, <1>3, <1>4, <1>5, <1>6, <1>7, <1>8, <1>9, <1>10, <1>11,
       <1>12 DEF PutNext

\* So does every step of the reader.
LEMMA ReaderStep ==
  ASSUME RingInv, GetNext
  PROVE  RingInv'
<1> USE Sizes, UsedFacts DEF RingInv
<1>1. CASE GetReadsPositions
  <2>0. MayBeEmpty \in BOOLEAN
    BY DEF MayBeEmpty
  <2>1. QueueTypeOK'
    BY <1>1, <2>0 DEF GetReadsPositions, QueueTypeOK, writerVars, readerVars
  <2>2. Used' = Used
    BY <1>1 DEF GetReadsPositions, Used
  <2>3. RingWriterInv'
    BY <1>1, <2>2, SeqQueueAssumption DEF GetReadsPositions, QueueTypeOK, RingWriterInv,
       RingReaderInv, writerVars, readerVars
  <2>4. RingReaderInv'
    BY <1>1, <2>2, SeqQueueAssumption DEF GetReadsPositions, QueueTypeOK, RingWriterInv,
       RingReaderInv, writerVars, readerVars
  <2> QED BY <2>1, <2>3, <2>4
<1>2. CASE GetReadsOverflow
  <2>1. QueueTypeOK'
    BY <1>2 DEF GetReadsOverflow, QueueTypeOK, writerVars, readerVars
  <2>2. Used' = Used
    BY <1>2 DEF GetReadsOverflow, Used
  <2>3. RingWriterInv'
    BY <1>2, <2>2, SeqQueueAssumption DEF GetReadsOverflow, QueueTypeOK, RingWriterInv,
       RingReaderInv, writerVars, readerVars
  <2>4. RingReaderInv'
    BY <1>2, <2>2, SeqQueueAssumption DEF GetReadsOverflow, QueueTypeOK, RingWriterInv,
       RingReaderInv, writerVars, readerVars
  <2> QED BY <2>1, <2>3, <2>4
<1>3. CASE GetReturnsEmpty
  <2>1. QueueTypeOK'
    BY <1>3 DEF GetReturnsEmpty, QueueTypeOK, writerVars, readerVars
  <2>2. Used' = Used
    BY <1>3 DEF GetReturnsEmpty, Used
  <2>3. RingWriterInv'
    BY <1>3, <2>2, SeqQueueAssumption DEF GetReturnsEmpty, QueueTypeOK, RingWriterInv,
       RingReaderInv, writerVars, readerVars
  <2>4. RingReaderInv'
    BY <1>3, <2>2, SeqQueueAssumption DEF GetReturnsEmpty, QueueTypeOK, RingWriterInv,
       RingReaderInv, writerVars, readerVars
  <2> QED BY <2>1, <2>3, <2>4
<1>4. CASE GetCopies
  <2>1. QueueTypeOK'
    BY <1>4 DEF GetCopies, QueueTypeOK, writerVars, readerVars
  <2>2. Used' = Used
    BY <1>4 DEF GetCopies, Used
  <2>3. RingWriterInv'
    BY <1>4, <2>2, SeqQueueAssumption DEF GetCopies, QueueTypeOK, RingWriterInv, RingReaderInv,
       writerVars, readerVars
  <2>4. RingReaderInv'
    BY <1>4, <2>2, SeqQueueAssumption DEF GetCopies, QueueTypeOK, RingWriterInv, RingReaderInv,
       writerVars, readerVars
  <2> QED BY <2>1, <2>3, <2>4
<1>5. CASE GetAdvances
  <2>1. QueueTypeOK'
    BY <1>5 DEF GetAdvances, QueueTypeOK, writerVars, readerVars
  <2>2. Used' = Used - 1
    BY <1>5, ReaderMoves DEF GetAdvances, QueueTypeOK, RingReaderInv, writerVars
  <2>3. RingWriterInv'
    BY <1>5, <2>2, SeqQueueAssumption DEF GetAdvances, QueueTypeOK, RingWriterInv,
       RingReaderInv, writerVars, readerVars
  <2>4. RingReaderInv'
    BY <1>5, <2>2, SeqQueueAssumption DEF GetAdvances, QueueTypeOK, RingWriterInv,
       RingReaderInv, writerVars, readerVars
  <2> QED BY <2>1, <2>3, <2>4
<1>6. CASE GetLocks
  <2>1. QueueTypeOK'
    BY <1>6 DEF GetLocks, QueueTypeOK, writerVars, readerVars
  <2>2. Used' = Used
    BY <1>6 DEF GetLocks, Used
  <2>3. RingWriterInv'
    BY <1>6, <2>2, SeqQueueAssumption DEF GetLocks, QueueTypeOK, RingWriterInv, RingReaderInv,
       writerVars, readerVars
  <2>4. RingReaderInv'
    BY <1>6, <2>2, SeqQueueAssumption DEF GetLocks, QueueTypeOK, RingWriterInv, RingReaderInv,
       writerVars, readerVars
  <2> QED BY <2>1, <2>3, <2>4
<1>7. CASE GetCopiesLocked
  <2>1. QueueTypeOK'
    BY <1>7 DEF GetCopiesLocked, QueueTypeOK, writerVars, readerVars
  <2>2. Used' = Used
    BY <1>7 DEF GetCopiesLocked, Used
  <2>3. RingWriterInv'
    BY <1>7, <2>2, SeqQueueAssumption DEF GetCopiesLocked, QueueTypeOK, RingWriterInv,
       RingReaderInv, writerVars, readerVars
  <2>4. RingReaderInv'
    BY <1>7, <2>2, SeqQueueAssumption DEF GetCopiesLocked, QueueTypeOK, RingWriterInv,
       RingReaderInv, writerVars, readerVars
  <2> QED BY <2>1, <2>3, <2>4
<1>8. CASE GetUnlocks
  <2>1. QueueTypeOK'
    BY <1>8 DEF GetUnlocks, QueueTypeOK, writerVars, readerVars
  <2>2. IF wr = rd THEN Used' = Used ELSE Used' = Used - 1
    BY <1>8, ReaderMoves DEF GetUnlocks, QueueTypeOK, RingReaderInv, writerVars, Used
  <2>3. RingWriterInv'
    BY <1>8, <2>2, SeqQueueAssumption DEF GetUnlocks, QueueTypeOK, RingWriterInv,
       RingReaderInv, writerVars, readerVars
  <2>4. RingReaderInv'
    BY <1>8, <2>2, SeqQueueAssumption DEF GetUnlocks, QueueTypeOK, RingWriterInv,
       RingReaderInv, writerVars, readerVars
  <2> QED BY <2>1, <2>3, <2>4
<1>9. CASE FlushLocks
  <2>1. QueueTypeOK'
    BY <1>9 DEF FlushLocks, QueueTypeOK, writerVars, readerVars
  <2>2. Used' = Used
    BY <1>9 DEF FlushLocks, Used
  <2>3. RingWriterInv'
    BY <1>9, <2>2, SeqQueueAssumption DEF FlushLocks, QueueTypeOK, RingWriterInv,
       RingReaderInv, writerVars, readerVars
  <2>4. RingReaderInv'
    BY <1>9, <2>2, SeqQueueAssumption DEF FlushLocks, QueueTypeOK, RingWriterInv,
       RingReaderInv, writerVars, readerVars
  <2> QED BY <2>1, <2>3, <2>4
<1>10. CASE FlushPositions
  <2>1. QueueTypeOK'
    BY <1>10 DEF FlushPositions, QueueTypeOK, writerVars, readerVars
  <2>2. Used' = 0
    BY <1>10 DEF FlushPositions, QueueTypeOK, Used
  <2>3. RingWriterInv'
    BY <1>10, <2>2, SeqQueueAssumption DEF FlushPositions, QueueTypeOK, RingWriterInv,
       RingReaderInv, writerVars, readerVars
  <2>4. RingReaderInv'
    BY <1>10, <2>2, SeqQueueAssumption DEF FlushPositions, QueueTypeOK, RingWriterInv,
       RingReaderInv, writerVars, readerVars
  <2> QED BY <2>1, <2>3, <2>4
<1>11. CASE FlushOverflow
  <2>1. QueueTypeOK'
    BY <1>11 DEF FlushOverflow, QueueTypeOK, writerVars, readerVars
  <2>2. Used' = Used
    BY <1>11 DEF FlushOverflow, Used
  <2>3. RingWriterInv'
    BY <1>11, <2>2, SeqQueueAssumption DEF FlushOverflow, QueueTypeOK, RingWriterInv,
       RingReaderInv, writerVars, readerVars
  <2>4. RingReaderInv'
    BY <1>11, <2>2, SeqQueueAssumption DEF FlushOverflow, QueueTypeOK, RingWriterInv,
       RingReaderInv, writerVars, readerVars
  <2> QED BY <2>1, <2>3, <2>4
<1> QED BY <1>1, <1>2, <1>3, <1>4, <1>5, <1>6, <1>7, <1>8, <1>9, <1>10, <1>11 DEF
       GetNext

LEMMA RingInvariance ==
  QueueSpec => []RingInv
<1>1. RingInv /\ [QueueNext]_queueVars => RingInv'
  <2> SUFFICES ASSUME RingInv, [QueueNext]_queueVars PROVE RingInv'
    OBVIOUS
  <2>1. CASE QueueNext
    BY <2>1, WriterStep, ReaderStep DEF QueueNext
  <2>2. CASE UNCHANGED queueVars
    BY <2>2 DEF queueVars, RingInv, QueueTypeOK, RingWriterInv, RingReaderInv, Used
  <2> QED BY <2>1, <2>2
<1> QED BY RingInit, <1>1, PTL DEF QueueSpec

\* Every variable keeps its type; that rd and wr stay below numElems is what
\* seqQueueInvariant asserts.
THEOREM QueueTypeCorrect ==
  QueueSpec => []QueueTypeOK
BY RingInvariance, PTL DEF RingInv

\* In a ring of any size the reader never copies the slot that the writer is
\* writing, although both go mostly without the mutex.
THEOREM SlotsNotShared ==
  QueueSpec => []NoSlotShared
<1>1. RingInv => NoSlotShared
  BY UsedFacts DEF RingInv, QueueTypeOK, RingWriterInv, RingReaderInv, NoSlotShared
<1> QED BY RingInvariance, <1>1, PTL

----------------------------------------------------------------------------
(* The elements in the ring, as a list.                                     *)

\* The slot of the i-th element, without the modulus.
At(i) == IF rd + i - 1 < numElems THEN rd + i - 1 ELSE rd + i - 1 - numElems

Ring == [i \in 1..Used |-> buffer[At(i)]]

LEMMA Modulus ==
  ASSUME NEW n \in Nat, n > 0, NEW k \in Int
  PROVE  /\ 0 <= k /\ k < n => k % n = k
         /\ n <= k /\ k < 2 * n => k % n = k - n
         /\ -n <= k /\ k < 0 => k % n = k + n
<1>1. ASSUME 0 <= k, k < n PROVE k % n = k
  BY <1>1
<1>2. ASSUME n <= k, k < 2 * n PROVE k % n = k - n
  BY <1>2
<1>3. ASSUME -n <= k, k < 0 PROVE k % n = k + n
  BY <1>3
<1> QED BY <1>1, <1>2, <1>3

LEMMA SlotOf ==
  ASSUME wr \in Slots, rd \in Slots, NEW i \in 1..Used
  PROVE  At(i) \in Slots /\ At(i) # wr
BY Sizes DEF Used, At

LEMMA Positions ==
  ASSUME NEW w \in Slots, NEW r \in Slots
  PROVE  /\ (w - r) % numElems = IF w >= r THEN w - r ELSE w - r + numElems
         /\ (IF w >= r THEN w - r ELSE w - r + numElems) \in 0..numElems - 1
         /\ \A i \in 1..numElems : (r + i - 1) % numElems =
              IF r + i - 1 < numElems THEN r + i - 1 ELSE r + i - 1 - numElems
<1>1. /\ numElems \in Nat /\ numElems > 0
      /\ w \in 0..numElems - 1 /\ r \in 0..numElems - 1
  BY Sizes
<1>2. (w - r) % numElems = IF w >= r THEN w - r ELSE w - r + numElems
  <2>1. w - r \in Int /\ -numElems <= w - r /\ w - r < numElems /\ (w >= r <=> 0 <= w - r)
    BY <1>1
  <2> QED BY <1>1, <2>1, Modulus
<1>3. ASSUME NEW i \in 1..numElems
      PROVE  (r + i - 1) % numElems =
                IF r + i - 1 < numElems THEN r + i - 1 ELSE r + i - 1 - numElems
  <2>1. r + i - 1 \in Int /\ 0 <= r + i - 1 /\ r + i - 1 < 2 * numElems
    BY <1>1
  <2> QED BY <1>1, <2>1, Modulus
<1> QED BY <1>1, <1>2, <1>3

LEMMA ContentsAre ==
  ASSUME QueueTypeOK
  PROVE  /\ Ring \in Seq(Values) /\ Len(Ring) = Used
         /\ \A i \in 1..Used : Ring[i] = buffer[At(i)]
         /\ Contents = Ring \o Extra
<1>1. wr \in Slots /\ rd \in Slots /\ Used \in 0..numElems - 1
  BY UsedFacts DEF QueueTypeOK
<1>2. (wr - rd) % numElems = Used
  BY <1>1, Positions DEF Used
<1>3. ASSUME NEW i \in 1..Used PROVE (rd + i - 1) % numElems = At(i)
  <2>1. i \in 1..numElems
    BY <1>1, Sizes
  <2> QED BY <1>1, <2>1, Positions DEF At
<1>4. \A i \in 1..Used : buffer[At(i)] \in Values
  BY <1>1, SlotOf DEF QueueTypeOK
<1>5. Ring = [i \in 1..(wr - rd) % numElems |-> buffer[(rd + i - 1) % numElems]]
  BY <1>2, <1>3 DEF Ring
<1>6. Ring \in Seq(Values) /\ Len(Ring) = Used
  BY <1>1, <1>4 DEF Ring
<1> QED BY <1>5, <1>6 DEF Contents, Ring

LEMMA ContentsNext ==
  ASSUME QueueTypeOK'
  PROVE  Contents' = Ring' \o Extra'
<1>1. wr' \in Slots /\ rd' \in Slots
  BY DEF QueueTypeOK
<1>2. (wr' - rd') % numElems = Used' /\ Used' \in 0..numElems - 1
  BY <1>1, Positions DEF Used
<1>3. ASSUME NEW i \in 1..Used' PROVE (rd' + i - 1) % numElems = At(i)'
  <2>1. i \in 1..numElems
    BY <1>2, Sizes
  <2>2. At(i)' = IF rd' + i - 1 < numElems THEN rd' + i - 1 ELSE rd' + i - 1 - numElems
    BY DEF At
  <2> QED BY <1>1, <2>1, <2>2, Positions
<1>4. Ring' = [i \in 1..(wr' - rd') % numElems |-> buffer'[(rd' + i - 1) % numElems]]
  BY <1>2, <1>3 DEF Ring
<1> QED BY <1>4 DEF Contents

\* A write to the slot at wr touches no element of the ring.
LEMMA RingKept ==
  ASSUME QueueTypeOK, QueueTypeOK', UNCHANGED <<wr, rd>>,
         \A s \in Slots : s # wr => buffer'[s] = buffer[s]
  PROVE  Ring' = Ring
<1>1. Used' = Used
  BY DEF Used
<1>2. wr \in Slots /\ rd \in Slots
  BY DEF QueueTypeOK
<1>3. \A i \in 1..Used : At(i)' = At(i) /\ buffer'[At(i)] = buffer[At(i)]
  BY <1>2, SlotOf DEF At
<1> QED BY <1>1, <1>3 DEF Ring

\* Advancing wr appends what is in its slot.
LEMMA RingPut ==
  ASSUME QueueTypeOK, QueueTypeOK', Used <= numElems - 2, wr' = Succ(wr),
         UNCHANGED <<rd, buffer>>
  PROVE  Ring' = Append(Ring, buffer[wr])
<1>1. wr \in Slots /\ rd \in Slots /\ Used \in 0..numElems - 1
  BY UsedFacts DEF QueueTypeOK
<1>2. Used' = Used + 1
  BY <1>1, WriterMoves
<1>3. \A i \in 1..Used + 1 : At(i)' = At(i)
  BY DEF At
<1>4. At(Used + 1) = wr
  BY <1>1, Sizes DEF At, Used
<1>5. /\ Ring \in Seq(Values) /\ Len(Ring) = Used
      /\ \A i \in 1..Used : Ring[i] = buffer[At(i)]
  BY ContentsAre
<1>6. Ring' = [i \in 1..Used + 1 |-> buffer[At(i)]]
  BY <1>2, <1>3 DEF Ring
<1>7. Append(Ring, buffer[wr]) = [i \in 1..Used + 1 |-> IF i = Used + 1 THEN buffer[wr] ELSE Ring[i]]
  BY <1>1, <1>5
<1> QED BY <1>1, <1>4, <1>5, <1>6, <1>7

\* Advancing rd takes the first element off.
LEMMA RingGet ==
  ASSUME QueueTypeOK, QueueTypeOK', Used >= 1, rd' = Succ(rd), UNCHANGED <<wr, buffer>>
  PROVE  Ring # <<>> /\ Head(Ring) = buffer[rd] /\ Ring' = Tail(Ring)
<1>1. wr \in Slots /\ rd \in Slots /\ Used \in 0..numElems - 1
  BY UsedFacts DEF QueueTypeOK
<1>2. Used' = Used - 1
  BY <1>1, ReaderMoves
<1>3. \A i \in 1..Used - 1 : At(i)' = At(i + 1)
  <2>1. rd' = IF rd + 1 = numElems THEN 0 ELSE rd + 1
    BY <1>1, SuccIs
  <2> QED BY <1>1, <2>1, Sizes DEF At
<1>4. At(1) = rd
  BY <1>1, Sizes DEF At
<1>5. /\ Ring \in Seq(Values) /\ Len(Ring) = Used
      /\ \A i \in 1..Used : Ring[i] = buffer[At(i)]
  BY ContentsAre
<1>6. Ring' = [i \in 1..Used - 1 |-> buffer[At(i + 1)]]
  BY <1>2, <1>3 DEF Ring
<1>7. Ring # <<>> /\ Head(Ring) = Ring[1]
  BY <1>1, <1>5
<1>8. /\ Tail(Ring) \in Seq(Values) /\ Len(Tail(Ring)) = Used - 1
      /\ \A i \in 1..Used - 1 : Tail(Ring)[i] = Ring[i + 1]
  BY <1>5, <1>7, HeadTailProperties
<1>9. \A i \in 1..Used - 1 : buffer[At(i + 1)] \in Values
  BY <1>1, SlotOf DEF QueueTypeOK
<1>10. Ring' \in Seq(Values) /\ Len(Ring') = Used - 1
  BY <1>1, <1>6, <1>9
<1>11. \A i \in 1..Used - 1 : Ring'[i] = Tail(Ring)[i]
  BY <1>1, <1>5, <1>6, <1>8
<1>12. Ring' = Tail(Ring)
  BY <1>8, <1>10, <1>11, SeqEqual
<1> QED BY <1>1, <1>4, <1>5, <1>7, <1>12

----------------------------------------------------------------------------
(* Each step of the queue is one of the FIFO, or none.                      *)

\* What the writer has written and the reader has copied stays as it is until
\* the positions move.
CopiesMade ==
  /\ wPc \in {"advance", "unlock"} => buffer[wr] = wVal
  /\ rPc \in {"advance", "unlock"} => rVal = buffer[rd]

LEMMA CopiesStep ==
  RingInv /\ CopiesMade /\ [QueueNext]_queueVars => CopiesMade'
<1> SUFFICES ASSUME RingInv, CopiesMade, [QueueNext]_queueVars PROVE CopiesMade'
  OBVIOUS
<1> USE DEF writerVars, readerVars
<1>1. QueueTypeOK /\ RingWriterInv /\ RingReaderInv
  BY DEF RingInv
<1>2. /\ wr \in Slots /\ rd \in Slots /\ Used \in 0..numElems - 1
      /\ Used >= 1 => wr # rd
  BY <1>1, UsedFacts DEF QueueTypeOK
<1>3. CASE PutCopies \/ PutCopiesLocked
  <2>1. /\ buffer'[wr] = wVal /\ \A s \in Slots : s # wr => buffer'[s] = buffer[s]
        /\ UNCHANGED <<wr, rd, wVal, rPc, rVal>>
    BY <1>1, <1>3 DEF PutCopies, PutCopiesLocked, QueueTypeOK
  <2>2. rPc \in {"advance", "unlock"} => wr # rd
    BY <1>1, <1>2, <1>3, SeqQueueAssumption
       DEF PutCopies, PutCopiesLocked, RingWriterInv, RingReaderInv
  <2> QED BY <1>2, <2>1, <2>2 DEF CopiesMade
<1>4. CASE GetCopies \/ GetCopiesLocked
  BY <1>4 DEF GetCopies, GetCopiesLocked, CopiesMade
<1>5. CASE UNCHANGED queueVars
  BY <1>5 DEF queueVars, CopiesMade
<1>6. CASE (\E v \in Values : Put(v)) \/ (PutNext /\ ~PutCopies /\ ~PutCopiesLocked)
  <2>1. UNCHANGED <<rd, buffer, rPc, rVal>> /\ wPc' \notin {"advance", "unlock"}
    BY <1>6 DEF Put, PutNext, PutReadsOverflow, PutReadsPositions, PutAdvances,
       PutLocks, PutReadsPositionsLocked, PutOverflows, PutAdmitsOverflow,
       PutClearsOverflow, PutUnlocks
  <2> QED BY <2>1 DEF CopiesMade
<1>7. CASE GetNext /\ ~GetCopies /\ ~GetCopiesLocked
  <2>1. UNCHANGED <<wr, buffer, wPc, wVal>> /\ rPc' \notin {"advance", "unlock"}
    BY <1>7 DEF GetNext, GetReadsPositions, GetReadsOverflow, GetReturnsEmpty,
       GetAdvances, GetLocks, GetUnlocks, FlushLocks, FlushPositions, FlushOverflow
  <2> QED BY <2>1 DEF CopiesMade
<1> QED BY <1>3, <1>4, <1>5, <1>6, <1>7 DEF QueueNext

\* What the FIFO does to a list, in terms of the ring and the element after it.
LEMMA ListFacts ==
  ASSUME NEW S, NEW r \in Seq(S), NEW x \in S
  PROVE  /\ r \o <<>> = r /\ r \o <<x>> = Append(r, x)
         /\ Len(r \o <<x>>) = Len(r) + 1
         /\ SubSeq(r \o <<x>>, 1, Len(r \o <<x>>) - 1) = r
         /\ r \o <<x>> # <<>>
<1>1. r \o <<>> = r
  BY ConcatEmptySeq
<1>2. r \o <<x>> = Append(r, x) /\ Append(r, x) # <<>>
  BY AppendIsConcat, AppendProperties
<1>3. Len(r \o <<x>>) = Len(r) + 1
  BY <1>2, AppendProperties
<1>4. SubSeq(r \o <<x>>, 1, Len(r)) = r
  <2>1. CASE r = <<>>
    BY <2>1, SubSeqEmpty
  <2>2. CASE r # <<>>
    <3>1. Len(r) \in 1..Len(r) /\ 1 \in 1..Len(r) /\ <<x>> \in Seq(S)
      BY <2>2, EmptySeq
    <3>2. SubSeq(r \o <<x>>, 1, Len(r)) = SubSeq(r, 1, Len(r))
      BY <3>1, SubSeqOfConcat1
    <3> QED BY <3>2, SubSeqFull
  <2> QED BY <2>1, <2>2
<1>5. Len(r \o <<x>>) - 1 = Len(r)
  BY <1>3, LenProperties
<1> QED BY <1>1, <1>2, <1>3, <1>4, <1>5

LEMMA FirstOf ==
  ASSUME NEW S, NEW r \in Seq(S), NEW e \in Seq(S), r # <<>>
  PROVE  /\ r \o e # <<>> /\ Head(r \o e) = Head(r)
         /\ Tail(r \o e) = Tail(r) \o e
<1>1. /\ r \o e \in Seq(S) /\ Len(r \o e) = Len(r) + Len(e)
      /\ \A i \in 1..Len(r) + Len(e) : (r \o e)[i] = IF i <= Len(r) THEN r[i] ELSE e[i - Len(r)]
      /\ Len(r) \in Nat \ {0} /\ Len(e) \in Nat
  BY ConcatProperties, EmptySeq, LenProperties
<1>2. r \o e # <<>>
  BY <1>1, EmptySeq
<1>3. Head(r \o e) = Head(r)
  BY <1>1, <1>2
<1>4. /\ Tail(r) \in Seq(S) /\ Len(Tail(r)) = Len(r) - 1
      /\ \A i \in 1..Len(Tail(r)) : Tail(r)[i] = r[i + 1]
  BY HeadTailProperties
<1>5. /\ Tail(r \o e) \in Seq(S) /\ Len(Tail(r \o e)) = Len(r \o e) - 1
      /\ \A i \in 1..Len(Tail(r \o e)) : Tail(r \o e)[i] = (r \o e)[i + 1]
  BY <1>1, <1>2, HeadTailProperties
<1>6. /\ Tail(r) \o e \in Seq(S) /\ Len(Tail(r) \o e) = Len(Tail(r)) + Len(e)
      /\ \A i \in 1..Len(Tail(r)) + Len(e) :
           (Tail(r) \o e)[i] = IF i <= Len(Tail(r)) THEN Tail(r)[i] ELSE e[i - Len(Tail(r))]
  BY <1>4, ConcatProperties
<1>7. Len(Tail(r \o e)) = Len(Tail(r) \o e)
  BY <1>1, <1>4, <1>5, <1>6
<1>8. ASSUME NEW i \in 1..Len(Tail(r \o e)) PROVE Tail(r \o e)[i] = (Tail(r) \o e)[i]
  <2>1. i \in Nat /\ i >= 1 /\ i <= Len(r) - 1 + Len(e)
    BY <1>1, <1>5
  <2>2. Tail(r \o e)[i] = IF i + 1 <= Len(r) THEN r[i + 1] ELSE e[i + 1 - Len(r)]
    BY <1>1, <1>5, <2>1
  <2>3. (Tail(r) \o e)[i] = IF i <= Len(r) - 1 THEN Tail(r)[i] ELSE e[i - (Len(r) - 1)]
    BY <1>1, <1>4, <1>6, <2>1
  <2>4. i <= Len(r) - 1 => Tail(r)[i] = r[i + 1]
    BY <1>1, <1>4, <2>1
  <2> QED BY <1>1, <2>1, <2>2, <2>3, <2>4
<1>9. Tail(r \o e) = Tail(r) \o e
  BY <1>5, <1>6, <1>7, <1>8, SeqEqual
<1> QED BY <1>2, <1>3, <1>9

\* The steps of the FIFO, as they change the list.
LEMMA Appends ==
  ASSUME QueueTypeOK, NEW r \in Seq(Values), NEW v \in Values, Contents = r,
         Len(r) < numElems,
         Contents' = r \o <<v>>, UNCHANGED got
  PROVE  Promise!Next
<1>1. r \o <<v>> = Append(r, v)
  BY ListFacts
<1>2. Promise!Put(v)
  BY <1>1 DEF Promise!Put
<1> QED BY <1>2 DEF Promise!Next

LEMMA Overwrites ==
  ASSUME QueueTypeOK, NEW r \in Seq(Values), NEW x \in Values, NEW v \in Values,
         Contents = r \o <<x>>, Len(r) = numElems - 1,
         Contents' = r \o <<v>>, UNCHANGED got
  PROVE  Promise!Next
<1>1. r \o <<v>> = Append(r, v)
  BY ListFacts
<1>2. Len(Contents) = numElems /\ Promise!Front(Contents) = r
  BY ListFacts, Sizes DEF Promise!Front
<1>3. ~(Len(Contents) < numElems)
  BY <1>2, Sizes
<1>4. Append(Promise!Front(Contents), v) = Contents'
  BY <1>1, <1>2
<1>5. Promise!Put(v)
  BY <1>3, <1>4 DEF Promise!Put
<1> QED BY <1>5 DEF Promise!Next

\* At most one element comes after those of the ring.
LEMMA ExtraIs ==
  ASSUME QueueTypeOK
  PROVE  /\ Extra \in Seq(Values)
         /\ rPc = "flushOverflow" => Extra = <<>>
         /\ ~overflow /\ wPc # "full" => Extra = <<>>
         /\ rPc # "flushOverflow" /\ overflow /\ wPc \notin {"full", "stillFull", "copyLocked"}
              => Extra = <<buffer[wr]>> /\ buffer[wr] \in Values
BY DEF Extra, QueueTypeOK

LEMMA WriterImplements ==
  ASSUME RingInv, RingInv', CopiesMade, (\E v \in Values : Put(v)) \/ PutNext
  PROVE  Promise!Next \/ UNCHANGED <<Contents, got>>
<1> USE DEF writerVars, readerVars
<1>1. QueueTypeOK /\ QueueTypeOK' /\ RingWriterInv /\ RingReaderInv
  BY DEF RingInv
<1>2. /\ wr \in Slots /\ rd \in Slots /\ Used \in 0..numElems - 1
      /\ Succ(wr) = rd <=> Used = numElems - 1
      /\ buffer[wr] \in Values /\ wVal \in Values
  BY <1>1, UsedFacts DEF QueueTypeOK
<1>3. Contents = Ring \o Extra /\ Ring \in Seq(Values) /\ Len(Ring) = Used
  BY <1>1, ContentsAre
<1>4. Contents' = Ring' \o Extra'
  BY <1>1, ContentsNext
<1>5. mutex = "writer" => rPc # "flushOverflow"
  BY <1>1 DEF RingReaderInv
<1>6. /\ Ring \o <<>> = Ring
      /\ \A x \in Values : Append(Ring, x) = Ring \o <<x>>
      /\ \A x \in Values : (Ring \o <<x>>) \o <<>> = Ring \o <<x>>
  BY <1>3, ListFacts, AppendProperties
<1>7. CASE \/ \E v \in Values : Put(v)
           \/ PutReadsOverflow \/ PutReadsPositions \/ PutLocks
  <2>1. /\ UNCHANGED <<wr, rd, buffer, overflow, rPc, got>>
        /\ wPc \notin {"full", "copyLocked", "stillFull"}
        /\ wPc' \notin {"full", "copyLocked", "stillFull"}
    BY <1>7 DEF Put, PutReadsOverflow, PutReadsPositions, PutLocks
  <2>2. Ring' = Ring /\ Extra' = Extra
    BY <1>1, <2>1, RingKept DEF Extra
  <2> QED BY <1>3, <1>4, <2>1, <2>2
<1>8. CASE PutCopies
  <2>1. /\ UNCHANGED <<wr, rd, overflow, rPc, got>> /\ ~overflow
        /\ \A s \in Slots : s # wr => buffer'[s] = buffer[s]
        /\ wPc = "copy" /\ wPc' = "advance"
    BY <1>1, <1>8 DEF PutCopies, QueueTypeOK, RingWriterInv
  <2>2. Ring' = Ring /\ Extra' = <<>> /\ Extra = <<>>
    BY <1>1, <2>1, RingKept DEF Extra
  <2> QED BY <1>3, <1>4, <2>1, <2>2
<1>9. CASE PutAdvances \/ (PutUnlocks /\ ~overflow)
  <2>1. /\ wr' = Succ(wr) /\ ~overflow /\ Used <= numElems - 2 /\ buffer[wr] = wVal
        /\ UNCHANGED <<rd, buffer, overflow, got>>
        /\ wPc \in {"advance", "unlock"} /\ wPc' = "idle"
    BY <1>1, <1>9 DEF PutAdvances, PutUnlocks, RingWriterInv, CopiesMade
  <2>2. Ring' = Append(Ring, wVal) /\ Extra = <<>> /\ Extra' = <<>>
    BY <1>1, <2>1, RingPut DEF Extra
  <2>3. Contents = Ring /\ Contents' = Ring \o <<wVal>>
    BY <1>2, <1>3, <1>4, <1>6, <2>2
  <2>4. Len(Ring) < numElems
    BY <1>2, <1>3, Sizes
  <2> QED BY <1>1, <1>2, <1>3, <2>1, <2>3, <2>4, Appends
<1>10. CASE PutUnlocks /\ overflow
  <2>1. /\ UNCHANGED <<wr, rd, buffer, overflow, rPc, got>>
        /\ wPc = "unlock" /\ wPc' = "idle"
    BY <1>10 DEF PutUnlocks
  <2>2. Ring' = Ring /\ Extra' = Extra
    BY <1>1, <2>1, RingKept DEF Extra
  <2> QED BY <1>3, <1>4, <2>1, <2>2
<1>11. CASE PutReadsPositionsLocked
  <2>1. /\ UNCHANGED <<wr, rd, buffer, overflow, rPc, wVal, got>>
        /\ wPc = "locked" /\ rPc # "flushOverflow"
        /\ wPc' = IF Succ(wr) = rd THEN "full" ELSE IF overflow THEN "notFull" ELSE "copyLocked"
    BY <1>1, <1>5, <1>11 DEF PutReadsPositionsLocked, RingWriterInv
  <2>2. Ring' = Ring
    BY <1>1, <2>1, RingKept
  <2>3. Extra = IF overflow THEN <<buffer[wr]>> ELSE <<>>
    BY <2>1 DEF Extra
  <2>4. CASE Succ(wr) # rd
    <3>1. Extra' = Extra
      BY <2>1, <2>3, <2>4 DEF Extra
    <3> QED BY <1>3, <1>4, <2>1, <2>2, <3>1
  <2>5. CASE Succ(wr) = rd
    <3>1. Contents' = Ring \o <<wVal>>
      BY <1>4, <2>1, <2>2, <2>5 DEF Extra
    <3>2. CASE overflow
      <4>1. Contents = Ring \o <<buffer[wr]>>
        BY <1>3, <2>3, <3>2
      <4> QED BY <1>1, <1>2, <1>3, <2>1, <2>5, <3>1, <4>1, Overwrites
    <3>3. CASE ~overflow
      <4>1. Contents = Ring
        BY <1>3, <1>6, <2>3, <3>3
      <4>2. Len(Ring) < numElems
        BY <1>2, <1>3, Sizes
      <4> QED BY <1>1, <1>2, <1>3, <2>1, <3>1, <4>1, <4>2, Appends
    <3> QED BY <3>2, <3>3
  <2> QED BY <2>4, <2>5
<1>12. CASE PutOverflows
  <2>1. /\ UNCHANGED <<wr, rd, buffer, rPc, wVal, got>> /\ overflow'
        /\ wPc = "full" /\ wPc' = "copyLocked" /\ rPc # "flushOverflow"
    BY <1>1, <1>5, <1>12 DEF PutOverflows, RingWriterInv
  <2>2. Ring' = Ring /\ Extra' = Extra
    BY <1>1, <2>1, RingKept DEF Extra
  <2> QED BY <1>3, <1>4, <2>1, <2>2
<1>13. CASE PutAdmitsOverflow
  <2>1. /\ wr' = Succ(wr) /\ overflow /\ Used <= numElems - 2
        /\ UNCHANGED <<rd, buffer, overflow, rPc, got>>
        /\ wPc = "notFull" /\ wPc' = "stillFull" /\ rPc # "flushOverflow"
    BY <1>1, <1>5, <1>13 DEF PutAdmitsOverflow, RingWriterInv
  <2>2. Ring' = Append(Ring, buffer[wr]) /\ Extra = <<buffer[wr]>> /\ Extra' = <<>>
    BY <1>1, <2>1, RingPut DEF Extra
  <2> QED BY <1>2, <1>3, <1>4, <1>6, <2>1, <2>2
<1>14. CASE PutClearsOverflow
  <2>1. /\ overflow' = (Succ(wr) = rd)
        /\ UNCHANGED <<wr, rd, buffer, rPc, wVal, got>>
        /\ wPc = "stillFull" /\ wPc' = "copyLocked" /\ rPc # "flushOverflow"
    BY <1>1, <1>5, <1>14 DEF PutClearsOverflow, RingWriterInv
  <2>2. Ring' = Ring /\ Extra = <<>> /\ Contents = Ring
    BY <1>1, <1>3, <1>6, <2>1, RingKept DEF Extra
  <2>3. CASE Succ(wr) = rd
    <3>1. Contents' = Ring \o <<wVal>>
      BY <1>4, <2>1, <2>2, <2>3 DEF Extra
    <3>2. Len(Ring) < numElems
      BY <1>2, <1>3, Sizes
    <3> QED BY <1>1, <1>2, <1>3, <2>1, <2>2, <3>1, <3>2, Appends
  <2>4. CASE Succ(wr) # rd
    <3>1. Extra' = <<>>
      BY <2>1, <2>4 DEF Extra
    <3> QED BY <1>3, <1>4, <2>1, <2>2, <3>1
  <2> QED BY <2>3, <2>4
<1>15. CASE PutCopiesLocked
  <2>1. /\ UNCHANGED <<wr, rd, overflow, rPc, wVal, got>> /\ rPc # "flushOverflow"
        /\ buffer'[wr] = wVal /\ \A s \in Slots : s # wr => buffer'[s] = buffer[s]
        /\ wPc = "copyLocked" /\ wPc' = "unlock"
    BY <1>1, <1>5, <1>15 DEF PutCopiesLocked, QueueTypeOK, RingWriterInv
  <2>2. Ring' = Ring /\ Extra' = Extra
    BY <1>1, <2>1, RingKept DEF Extra
  <2> QED BY <1>3, <1>4, <2>1, <2>2
<1> QED BY <1>7, <1>8, <1>9, <1>10, <1>11, <1>12, <1>13, <1>14, <1>15 DEF PutNext

LEMMA ReaderImplements ==
  ASSUME RingInv, RingInv', CopiesMade, GetNext
  PROVE  Promise!Next \/ UNCHANGED <<Contents, got>>
<1> USE DEF writerVars, readerVars
<1>1. QueueTypeOK /\ QueueTypeOK' /\ RingWriterInv /\ RingReaderInv
  BY DEF RingInv
<1>2. /\ wr \in Slots /\ rd \in Slots /\ Used \in 0..numElems - 1
      /\ Used = 0 <=> wr = rd
      /\ buffer[wr] \in Values /\ buffer[rd] \in Values
  BY <1>1, UsedFacts DEF QueueTypeOK
<1>3. Contents = Ring \o Extra /\ Ring \in Seq(Values) /\ Len(Ring) = Used
  BY <1>1, ContentsAre
<1>4. Contents' = Ring' \o Extra'
  BY <1>1, ContentsNext
<1>5. Extra \in Seq(Values)
  BY <1>1, ExtraIs
<1>6. CASE \/ GetReadsPositions \/ GetReadsOverflow \/ GetReturnsEmpty \/ GetCopies
           \/ GetLocks \/ GetCopiesLocked \/ FlushLocks
  <2>1. /\ UNCHANGED <<wr, rd, buffer, overflow, wPc, wVal, got>>
        /\ rPc # "flushOverflow" /\ rPc' # "flushOverflow"
    BY <1>6 DEF GetReadsPositions, GetReadsOverflow, GetReturnsEmpty, GetCopies, GetLocks,
                GetCopiesLocked, FlushLocks
  <2>2. Ring' = Ring /\ Extra' = Extra
    BY <1>1, <2>1, RingKept DEF Extra
  <2> QED BY <1>3, <1>4, <2>1, <2>2
<1>7. CASE GetAdvances \/ (GetUnlocks /\ ~(wr = rd /\ overflow))
  <2>1. /\ rd' = Succ(rd) /\ Used >= 1 /\ got' = rVal /\ rVal = buffer[rd]
        /\ UNCHANGED <<wr, buffer, overflow, wPc, wVal>>
        /\ rPc # "flushOverflow" /\ rPc' # "flushOverflow"
    BY <1>1, <1>2, <1>7 DEF GetAdvances, GetUnlocks, RingReaderInv, CopiesMade
  <2>2. Ring # <<>> /\ Head(Ring) = buffer[rd] /\ Ring' = Tail(Ring) /\ Extra' = Extra
    BY <1>1, <2>1, RingGet DEF Extra
  <2>3. Contents # <<>> /\ Head(Contents) = buffer[rd] /\ Contents' = Tail(Contents)
    BY <1>3, <1>4, <1>5, <2>2, FirstOf
  <2>4. Promise!Get
    BY <2>1, <2>3 DEF Promise!Get
  <2> QED BY <2>4 DEF Promise!Next
<1>8. CASE GetUnlocks /\ wr = rd /\ overflow
  <2>1. /\ ~overflow' /\ got' = rVal /\ rVal = buffer[wr]
        /\ UNCHANGED <<wr, rd, buffer, wPc>>
        /\ rPc # "flushOverflow" /\ rPc' # "flushOverflow"
        /\ wPc \notin {"full", "stillFull", "copyLocked"}
    BY <1>1, <1>8 DEF GetUnlocks, RingReaderInv, RingWriterInv, CopiesMade
  <2>2. Ring = <<>> /\ Ring' = Ring
    BY <1>1, <1>2, <1>3, <1>8, <2>1, RingKept, EmptySeq
  <2>3. Extra = <<buffer[wr]>> /\ Extra' = <<>>
    BY <1>8, <2>1 DEF Extra
  <2>4. Contents = <<buffer[wr]>> /\ Contents' = <<>>
    BY <1>3, <1>4, <2>2, <2>3
  <2>5. Promise!Get
    BY <2>1, <2>4 DEF Promise!Get
  <2> QED BY <2>5 DEF Promise!Next
<1>9. CASE FlushPositions
  <2>1. rd' = wr /\ wr' = wr /\ UNCHANGED got /\ rPc' = "flushOverflow"
    BY <1>9 DEF FlushPositions
  <2>2. Ring' = <<>> /\ Extra' = <<>>
    <3>1. Used' = 0
      BY <1>2, <2>1, Sizes DEF Used
    <3>2. 1..0 = {}
      OBVIOUS
    <3>3. Ring' = <<>>
      BY <3>1 DEF Ring
    <3> QED BY <2>1, <3>3 DEF Extra
  <2>3. Contents' = <<>>
    BY <1>4, <2>2
  <2>4. Promise!Flush
    BY <2>1, <2>3 DEF Promise!Flush
  <2> QED BY <2>4 DEF Promise!Next
<1>10. CASE FlushOverflow
  <2>1. /\ ~overflow' /\ UNCHANGED <<wr, rd, buffer, wPc, got>>
        /\ rPc = "flushOverflow" /\ wPc \notin {"full", "stillFull", "copyLocked"}
    BY <1>1, <1>10 DEF FlushOverflow, RingReaderInv, RingWriterInv
  <2>2. Ring' = Ring /\ Extra = <<>> /\ Extra' = <<>>
    BY <1>1, <2>1, RingKept DEF Extra
  <2> QED BY <1>3, <1>4, <2>1, <2>2
<1> QED BY <1>6, <1>7, <1>8, <1>9, <1>10 DEF GetNext

\* A ring of any size, filled and emptied at the same time without a lock as long
\* as it is not full, is a first-in first-out queue in which only a put into the
\* full queue loses an element, the last one.
THEOREM QueueIsFifo ==
  QueueSpec => FifoImplemented
<1>1. QueueInit => CopiesMade /\ Promise!Init
  <2> SUFFICES ASSUME QueueInit PROVE CopiesMade /\ Promise!Init
    OBVIOUS
  <2>1. CopiesMade
    BY DEF QueueInit, CopiesMade
  <2>2. QueueTypeOK
    BY RingInit DEF RingInv
  <2>3. Contents = Ring \o Extra /\ Used = 0 /\ Extra = <<>> /\ Len(Ring) = Used
          /\ Ring \in Seq(Values)
    BY <2>2, ContentsAre DEF QueueInit, Used, Extra
  <2>4. Contents = <<>>
    BY <2>3, EmptySeq
  <2> QED BY <2>1, <2>2, <2>4 DEF Promise!Init, QueueTypeOK
<1>2. RingInv /\ RingInv' /\ CopiesMade /\ [QueueNext]_queueVars
        => CopiesMade' /\ [Promise!Next]_<<Contents, got>>
  <2> SUFFICES ASSUME RingInv, RingInv', CopiesMade, [QueueNext]_queueVars
               PROVE  Promise!Next \/ UNCHANGED <<Contents, got>>
    BY CopiesStep
  <2>1. CASE QueueNext
    BY <2>1, WriterImplements, ReaderImplements DEF QueueNext
  <2>2. CASE UNCHANGED queueVars
    BY <2>2 DEF queueVars, Contents, Extra
  <2> QED BY <2>1, <2>2
<1> QED BY <1>1, <1>2, RingInvariance, PTL DEF QueueSpec, FifoImplemented, Promise!Spec
=============================================================================
