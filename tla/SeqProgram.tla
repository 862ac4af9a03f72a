----------------------------- MODULE SeqProgram -----------------------------
(***************************************************************************)
(* A state program of the sequencer (seq_task.c, seq_ca.c, seq_if.c): its  *)
(* main thread connects the channels, waits for their first monitors,      *)
(* starts the state sets and joins them; each state set waits for the      *)
(* events its state is interested in; the Channel Access thread brings     *)
(* connections and monitors; and anybody may ask the program to exit.      *)
(*                                                                         *)
(* The program has the options +c (wait for the connections) and +e (event *)
(* flags are cleared by the program alone).  What is done under            *)
(* programLock is one step.  What a state's code does is any one of the    *)
(* calls modelled here, and any state may follow any other.                *)
(***************************************************************************)
EXTENDS Integers, FiniteSets

CONSTANTS
  numSS,               \* the number of state sets
  States, InitialState, \* the states of each state set, and the first one of all
  Flags, SyncFlag,     \* the event flags, and the one of the syncQ channel
  Channels, Monitored, Queued, \* the channels, the monitored ones, the syncQ one
  EventMask,           \* the flags and channels the conditions of a state mention
  Delays,              \* the states with a delay in a condition
  Reader,              \* the state set that reads the queue
  QueueSize, MaxFirstMonitors \* bounds on the queue and on firstMonitorCount

\* The main thread runs the state set 0.
StateSets == 0..numSS - 1

\* The event number 0 of seqWakeup.
Everyone == "everyone"

ASSUME ProgramAssumption ==
  /\ numSS \in Nat \ {0} /\ Reader \in StateSets
  /\ SyncFlag \in Flags /\ Flags \cap Channels = {}
  /\ Queued \in Monitored /\ Monitored \subseteq Channels
  /\ \A s \in StateSets : EventMask[s] \in [States[s] -> SUBSET (Flags \cup Channels)]
  /\ \A s \in StateSets : InitialState \in States[s] /\ Delays[s] \subseteq States[s]
  /\ QueueSize \in Nat \ {0} /\ MaxFirstMonitors \in Nat
  /\ \A s \in StateSets \ {Reader} : \A st \in States[s] : Queued \notin EventMask[s][st]
  /\ Everyone \notin Channels /\ IsFiniteSet(Channels)

VARIABLES
  main,        \* where the main thread is outside ss_entry
  connected,   \* the channels whose dbch->connected is set (connectCount of them)
  gotOneMonitor,     \* the channels whose gotOneMonitor is set
  firstMonitorCount,
  lost,        \* (ghost) how often a channel was lost that had had its first monitor
  ca,          \* where the handler running in the Channel Access thread is
  evFlags,     \* the event flags that are set
  queue,       \* the number of elements in the queue
  values,      \* the monitored variables that are nonzero
  die,         \* sp->die
  waking,      \* the state set each caller of seqWakeup comes to next, or numSS
  pc, state, mask, syncSem, \* struct state_set_control_block
  delay,       \* the delay of the state: off, running, passed, or marked as expired
  overtaken    \* (ghost) did pvFlushQ clear the flag of an element put meanwhile?

connVars == <<connected, gotOneMonitor, firstMonitorCount, lost>>
dataVars == <<evFlags, queue, values, overtaken>>
ssVars == <<pc, state, mask, syncSem, delay>>
vars == <<main, connVars, ca, dataVars, die, waking, ssVars>>

Threads == {"ca", "shell"}
\* The handler in the Channel Access thread: its place and the channel whose
\* eventNum it wakes the state sets for.
Idle == [at |-> "idle", chan |-> Everyone]

Init ==
  /\ main = "connect"
  /\ connected = {} /\ gotOneMonitor = {} /\ firstMonitorCount = 0 /\ lost = 0
  /\ ca = Idle
  /\ evFlags = {} /\ queue = 0 /\ values = {} /\ overtaken = FALSE
  /\ die = FALSE
  /\ waking = [t \in Threads |-> numSS]
  /\ pc = [s \in StateSets |-> "none"]
  /\ state = [s \in StateSets |-> InitialState]
  /\ mask = [s \in StateSets |-> {}]
  /\ syncSem = [s \in StateSets |-> FALSE]
  /\ delay = [s \in StateSets |-> "off"]

----------------------------------------------------------------------------
(* Waking state sets, and asking the program to exit.                       *)

\* The state sets that seqWakeup signals under programLock.
Woken(events) == [s \in StateSets |-> syncSem[s] \/ mask[s] \cap events # {}]

\* Without programLock seqWakeup takes it anew for every state set.
WakeNext(t) ==
  /\ waking[t] < numSS
  /\ waking' = [waking EXCEPT ![t] = @ + 1]
  /\ syncSem' = [syncSem EXCEPT ![waking[t]] =
                  @ \/ t = "shell" \/ ca.chan = Everyone \/ ca.chan \in mask[waking[t]]]
  /\ UNCHANGED <<main, connVars, ca, dataVars, die, pc, state, mask, delay>>

\* (mutant) The exit wakes nobody.
ExitUnheard ==
  /\ ~die
  /\ die' = TRUE
  /\ UNCHANGED <<main, connVars, ca, dataVars, waking, ssVars>>

\* seq_exit, called by seqStop in a shell or by a state set, whose next step is
\* delayed then until all are woken.
SeqExit ==
  /\ ~die
  /\ die' = TRUE
  /\ waking' = [waking EXCEPT !["shell"] = 0]
  /\ UNCHANGED <<main, connVars, ca, dataVars, ssVars>>

----------------------------------------------------------------------------
(* The Channel Access thread: one handler at a time.                        *)

ConnHandler(c) ==
  /\ ca = Idle /\ main \notin {"disconnect", "ended"}
  /\ c \notin connected
  /\ connected' = connected \cup {c}
  /\ gotOneMonitor' = gotOneMonitor \ {c}
  /\ ca' = [at |-> "wake", chan |-> Everyone]
  /\ waking' = [waking EXCEPT !["ca"] = 0]
  /\ UNCHANGED <<main, firstMonitorCount, lost, dataVars, die, ssVars>>

DisconnHandler(c) ==
  /\ ca = Idle /\ main \notin {"disconnect", "ended"}
  /\ c \in connected /\ firstMonitorCount < MaxFirstMonitors
  /\ connected' = connected \ {c}
  /\ gotOneMonitor' = gotOneMonitor \ {c}
  /\ lost' = (IF c \in gotOneMonitor THEN lost + 1 ELSE lost)
  /\ ca' = [at |-> "wake", chan |-> Everyone]
  /\ waking' = [waking EXCEPT !["ca"] = 0]
  /\ UNCHANGED <<main, firstMonitorCount, dataVars, die, ssVars>>

\* An element that finds the queue full overwrites the last one.
MonHandler(c) ==
  /\ ca = Idle /\ main \notin {"disconnect", "ended"}
  /\ c \in connected \cap Monitored
  /\ c \in gotOneMonitor \/ firstMonitorCount < MaxFirstMonitors
  /\ IF c = Queued
     THEN /\ queue' = (IF queue = QueueSize THEN queue ELSE queue + 1)
          /\ ca' = [at |-> "flag", chan |-> c]
          /\ UNCHANGED <<values, waking>>
     ELSE /\ values' \in {values \cup {c}, values \ {c}}
          /\ ca' = [at |-> "wake", chan |-> c]
          /\ waking' = [waking EXCEPT !["ca"] = 0]
          /\ UNCHANGED queue
  /\ UNCHANGED <<main, connVars, evFlags, overtaken, die, ssVars>>

MonSetsFlag ==
  /\ ca.at = "flag"
  /\ evFlags' = evFlags \cup {SyncFlag} /\ overtaken' = FALSE
  /\ syncSem' = Woken({SyncFlag})
  /\ ca' = [ca EXCEPT !.at = "wake"]
  /\ waking' = [waking EXCEPT !["ca"] = 0]
  /\ UNCHANGED <<main, connVars, queue, values, die, pc, state, mask, delay>>

HandlerReturns ==
  /\ ca.at = "wake" /\ waking["ca"] = numSS
  /\ ca' = Idle
  /\ IF ca.chan = Everyone \/ ca.chan \in gotOneMonitor
     THEN UNCHANGED <<gotOneMonitor, firstMonitorCount>>
     ELSE /\ gotOneMonitor' = gotOneMonitor \cup {ca.chan}
          /\ firstMonitorCount' = firstMonitorCount + 1
  /\ UNCHANGED <<main, connected, lost, dataVars, die, waking, ssVars>>

----------------------------------------------------------------------------
(* The main thread.                                                         *)

\* (mutant) The first monitors are not waited for.
AllConnected == Cardinality(connected) = Cardinality(Channels)

Ready ==
  /\ Cardinality(connected) = Cardinality(Channels)
  /\ firstMonitorCount = Cardinality(Monitored)

\* seq_connect looks at the counts again and again: its wait has a timeout.
SeqConnect ==
  /\ main = "connect"
  /\ \/ die /\ main' = "disconnect"
     \/ ~die /\ Ready /\ main' = "entry"
  /\ UNCHANGED <<connVars, ca, dataVars, die, waking, ssVars>>

\* The entry code has run: one thread after the other is created, and the main
\* thread becomes that of the first state set.
CreateStateSet(s) ==
  /\ main = "entry" /\ pc[s] = "none"
  /\ IF s = 0 THEN \A r \in StateSets \ {0} : pc[r] # "none"
     ELSE \A r \in 1..s - 1 : pc[r] # "none"
  /\ pc' = [pc EXCEPT ![s] = "enter"]
  /\ main' = IF s = 0 THEN "state set" ELSE "entry"
  /\ UNCHANGED <<connVars, ca, dataVars, die, waking, state, mask, syncSem, delay>>

\* The first state set has ended, and the others one by one: the exit code runs.
JoinStateSets ==
  /\ main = "state set"
  /\ \A s \in StateSets : pc[s] = "dead"
  /\ main' = "disconnect"
  /\ UNCHANGED <<connVars, ca, dataVars, die, waking, ssVars>>

\* Destroying a channel waits for the handler that runs for it.
SeqDisconnect ==
  /\ main = "disconnect" /\ ca = Idle
  /\ connected' = {} /\ main' = "ended"
  /\ UNCHANGED <<gotOneMonitor, firstMonitorCount, lost, ca, dataVars, die, waking, ssVars>>

----------------------------------------------------------------------------
(* The main loop of a state set.                                            *)

Enter(s) ==
  /\ pc[s] = "enter"
  /\ mask' = [mask EXCEPT ![s] = EventMask[s][state[s]]]
  /\ pc' = [pc EXCEPT ![s] = "delays"]
  /\ UNCHANGED <<main, connVars, ca, dataVars, die, waking, state, syncSem, delay>>

\* (mutant) The state set waits before it has evaluated its conditions once.
DelaysOnly(s) ==
  /\ pc[s] = "delays"
  /\ delay' = [delay EXCEPT ![s] = IF state[s] \in Delays[s] THEN "running" ELSE "off"]
  /\ pc' = [pc EXCEPT ![s] = "timeout"]
  /\ UNCHANGED <<main, connVars, ca, dataVars, die, waking, state, mask, syncSem>>

\* The delays start, and the state set signals itself to evaluate its conditions
\* once before it waits.
SetDelays(s) ==
  /\ pc[s] = "delays"
  /\ delay' = [delay EXCEPT ![s] = IF state[s] \in Delays[s] THEN "running" ELSE "off"]
  /\ syncSem' = [syncSem EXCEPT ![s] = TRUE]
  /\ pc' = [pc EXCEPT ![s] = "timeout"]
  /\ UNCHANGED <<main, connVars, ca, dataVars, die, waking, state, mask>>

TimePasses(s) ==
  /\ pc[s] \in {"timeout", "wait", "timed wait"} /\ delay[s] = "running"
  /\ delay' = [delay EXCEPT ![s] = "passed"]
  /\ UNCHANGED <<main, connVars, ca, dataVars, die, waking, pc, state, mask, syncSem>>

\* A delay that has passed is marked and the wait lasts no time; one that is
\* marked no longer limits it.
CalcTimeout(s) ==
  /\ pc[s] = "timeout"
  /\ delay' = [delay EXCEPT ![s] = IF @ = "passed" THEN "marked" ELSE @]
  /\ pc' = [pc EXCEPT ![s] = IF delay[s] \in {"running", "passed"} THEN "timed wait" ELSE "wait"]
  /\ UNCHANGED <<main, connVars, ca, dataVars, die, waking, state, mask, syncSem>>

DelayPassed(s) == delay[s] \in {"passed", "marked"}

Wait(s) ==
  /\ \/ pc[s] \in {"wait", "timed wait"} /\ syncSem[s]
     \/ pc[s] = "timed wait" /\ DelayPassed(s)
  /\ syncSem' = [syncSem EXCEPT ![s] = FALSE]
  /\ pc' = [pc EXCEPT ![s] = IF die THEN "dead" ELSE "evaluate"]
  /\ UNCHANGED <<main, connVars, ca, dataVars, die, waking, state, mask, delay>>

\* The events a state set waits for: flags, values, elements and delays.
Holding(s) == {e \in EventMask[s][state[s]] : \/ e \in evFlags \cup values
                                              \/ e = Queued /\ queue > 0}
Condition(s) == Holding(s) # {} \/ DelayPassed(s)

\* eventFunc: a condition may be efTest or efTestAndClear, and pvGetQ removes an
\* element.
EventFunc(s) ==
  /\ pc[s] = "evaluate"
  /\ IF ~Condition(s) THEN pc' = [pc EXCEPT ![s] = "timeout"] /\ UNCHANGED dataVars
     ELSE \/ /\ Holding(s) \ {Queued} # {} \/ DelayPassed(s)
             /\ pc' = [pc EXCEPT ![s] = "action"]
             /\ evFlags' \in {evFlags} \cup {evFlags \ {f} : f \in Holding(s) \cap (Flags \ {SyncFlag})}
             /\ UNCHANGED <<queue, values, overtaken>>
          \/ /\ Queued \in Holding(s)
             /\ pc' = [pc EXCEPT ![s] = "got"]
             /\ queue' = queue - 1
             /\ UNCHANGED <<evFlags, values, overtaken>>
  /\ UNCHANGED <<main, connVars, ca, die, waking, state, mask, syncSem, delay>>

----------------------------------------------------------------------------
(* The calls of a state's code.                                             *)

\* After the action: the check for an exit, and the change to the next state.
Leave(s) ==
  IF die THEN pc' = [pc EXCEPT ![s] = "dead"] /\ UNCHANGED state
  ELSE /\ pc' = [pc EXCEPT ![s] = "enter"]
       /\ \E st \in States[s] : state' = [state EXCEPT ![s] = st]

EfSet(s) ==
  /\ pc[s] = "action"
  /\ \E f \in Flags \ {SyncFlag} : evFlags' = evFlags \cup {f} /\ syncSem' = Woken({f})
  /\ Leave(s)
  /\ UNCHANGED <<main, connVars, ca, queue, values, overtaken, die, waking, mask, delay>>

EfClear(s) ==
  /\ pc[s] = "action"
  /\ \E f \in Flags \ {SyncFlag} : evFlags' = evFlags \ {f} /\ syncSem' = Woken({f})
  /\ Leave(s)
  /\ UNCHANGED <<main, connVars, ca, queue, values, overtaken, die, waking, mask, delay>>

PvGetQ(s) ==
  /\ pc[s] = "action" /\ s = Reader
  /\ queue' = IF queue = 0 THEN 0 ELSE queue - 1
  /\ pc' = [pc EXCEPT ![s] = "got"]
  /\ UNCHANGED <<main, connVars, ca, evFlags, values, overtaken, die, waking, state, mask,
                 syncSem, delay>>

\* (mutant) The flag is cleared whatever came since the element was removed.
ClearFlagAnyway(s) ==
  /\ pc[s] = "got"
  /\ evFlags' = evFlags \ {SyncFlag}
  /\ Leave(s)
  /\ UNCHANGED <<main, connVars, ca, queue, values, overtaken, die, waking, mask,
                 syncSem, delay>>

ClearFlagIfEmpty(s) ==
  /\ pc[s] = "got"
  /\ evFlags' = IF queue = 0 THEN evFlags \ {SyncFlag} ELSE evFlags
  /\ Leave(s)
  /\ UNCHANGED <<main, connVars, ca, queue, values, overtaken, die, waking, mask,
                 syncSem, delay>>

PvFlushQ(s) ==
  /\ pc[s] = "action" /\ s = Reader
  /\ queue' = 0
  /\ pc' = [pc EXCEPT ![s] = "flushed"]
  /\ UNCHANGED <<main, connVars, ca, evFlags, values, overtaken, die, waking, state, mask,
                 syncSem, delay>>

ClearFlag(s) ==
  /\ pc[s] = "flushed"
  /\ evFlags' = evFlags \ {SyncFlag}
  /\ overtaken' = (queue > 0 /\ SyncFlag \in evFlags)
  /\ Leave(s)
  /\ UNCHANGED <<main, connVars, ca, queue, values, die, waking, mask, syncSem, delay>>

----------------------------------------------------------------------------

MainStep ==
  \/ SeqConnect \/ JoinStateSets \/ SeqDisconnect
  \/ \E s \in StateSets : CreateStateSet(s)

StateSetStep(s) ==
  \/ Enter(s) \/ SetDelays(s) \/ CalcTimeout(s) \/ Wait(s) \/ EventFunc(s)
  \/ EfSet(s) \/ EfClear(s) \/ PvGetQ(s) \/ ClearFlagIfEmpty(s)
  \/ PvFlushQ(s) \/ ClearFlag(s)

HandlerStep == MonSetsFlag \/ HandlerReturns

Next ==
  \/ MainStep \/ HandlerStep \/ SeqExit
  \/ \E c \in Channels : ConnHandler(c) \/ DisconnHandler(c) \/ MonHandler(c)
  \/ \E t \in Threads : WakeNext(t)
  \/ \E s \in StateSets : StateSetStep(s) \/ TimePasses(s)

Spec == Init /\ [][Next]_vars

\* The threads run.
FairSpec ==
  /\ Spec
  /\ WF_vars(MainStep)
  /\ WF_vars(HandlerStep \/ WakeNext("ca")) /\ WF_vars(WakeNext("shell"))
  /\ \A s \in StateSets : WF_vars(StateSetStep(s))

----------------------------------------------------------------------------
(* Properties.                                                              *)

\* Every variable has its type.
TypeOK ==
  /\ main \in {"connect", "entry", "state set", "disconnect", "ended"}
  /\ connected \subseteq Channels /\ gotOneMonitor \subseteq Monitored
  /\ firstMonitorCount \in Nat /\ lost \in Nat
  /\ ca \in [at : {"idle", "flag", "wake"}, chan : Channels \cup {Everyone}]
  /\ evFlags \subseteq Flags /\ queue \in 0..QueueSize /\ values \subseteq Monitored
  /\ {overtaken, die} \subseteq BOOLEAN
  /\ waking \in [Threads -> 0..numSS]
  /\ pc \in [StateSets -> {"none", "enter", "delays", "timeout", "wait", "timed wait", "evaluate",
                           "action", "got", "flushed", "dead"}]
  /\ \A s \in StateSets : state[s] \in States[s]
  /\ mask \in [StateSets -> SUBSET (Flags \cup Channels)]
  /\ syncSem \in [StateSets -> BOOLEAN]
  /\ delay \in [StateSets -> {"off", "running", "passed", "marked"}]

\* Somebody is about to signal the semaphore of the state set.
AboutToWake(s) == ca.at = "flag" \/ \E t \in Threads : waking[t] <= s

\* A state set does not sleep over a condition that holds, a delay that has
\* passed or an exit that was asked for, although its event mask and the flags are
\* read and written without programLock in places.
NoLostWakeup ==
  \A s \in StateSets :
    /\ pc[s] \in {"wait", "timed wait"} /\ ~syncSem[s]
    /\ ~(pc[s] = "timed wait" /\ DelayPassed(s))
    /\ die \/ Condition(s)
    => AboutToWake(s)

\* The flag of a syncQ variable stays set as long as its queue has elements, but
\* for an element whose monitor is on its way to setting it or that came while
\* pvFlushQ emptied the queue.
FlagFollowsQueue ==
  queue > 0 /\ SyncFlag \notin evFlags => ca.at = "flag" \/ overtaken

ConnectedAndMonitored == connected = Channels /\ Monitored \subseteq gotOneMonitor

\* The entry code and the state sets start when every channel is connected and
\* every monitored one has had its first monitor: what Reference.txt says.  A channel
\* that is lost and comes back is counted twice, and breaks it.
EntryAfterMonitors == [][main' = "entry" /\ main = "connect" => ConnectedAndMonitored]_vars

\* What the code achieves: every channel is connected, and no more of the monitored
\* ones lack their first monitor than channels were lost that had had theirs; so
\* none does where no such channel was lost.
EntryWithMonitors ==
  [][main' = "entry" /\ main = "connect" =>
       /\ connected = Channels
       /\ Cardinality(Monitored \ gotOneMonitor) <= lost]_vars

\* When an exit is asked for, by a state set or by seqStop, all state sets end,
\* also those that sleep and those that have not begun.
ExitEnds == die ~> main \in {"disconnect", "ended"}
=============================================================================
