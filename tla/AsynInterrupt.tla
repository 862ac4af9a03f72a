---------------------------- MODULE AsynInterrupt ----------------------------
(***************************************************************************)
(* The interrupt users of one interface of an asyn port (asynManager.c): a *)
(* driver walks callbackList between interruptStart and interruptEnd,      *)
(* clients take a node from the free list, add it, remove it and free it.  *)
(* Each node belongs to one client thread; isOnAddRemoveList, which is for *)
(* a second thread, is membership of addRemoveList.  Every critical        *)
(* section of asynManagerLock is one action.                               *)
(***************************************************************************)
EXTENDS Naturals, Sequences, SequencesExt

CONSTANTS
  Nodes,    \* the interrupt nodes
  Drivers,  \* the threads that deliver interrupts
  NoNode    \* the end of a list

ASSUME InterruptAssumption == NoNode \notin Nodes

VARIABLES
  callbackActive, listModified, callbackList, addRemoveList, \* interruptBase
  isOnList, callbackDone,                                    \* interruptNodePvt
  interruptNodeFree, \* is the node on the free list?
  intPc,                \* what the client thread of each node waits for
  intWalk, intCursor       \* where each driver is: the node whose callback runs

intVars == <<callbackActive, listModified, callbackList, addRemoveList, isOnList,
          callbackDone, interruptNodeFree, intPc, intWalk, intCursor>>

IntInit ==
  /\ callbackActive = FALSE /\ listModified = FALSE
  /\ callbackList = <<>> /\ addRemoveList = <<>>
  /\ isOnList = [n \in Nodes |-> FALSE]
  /\ callbackDone = [n \in Nodes |-> FALSE]
  /\ interruptNodeFree = [n \in Nodes |-> TRUE]
  /\ intPc = [n \in Nodes |-> "idle"]
  /\ intWalk = [d \in Drivers |-> "idle"]
  /\ intCursor = [d \in Drivers |-> NoNode]

----------------------------------------------------------------------------
(* createInterruptNode, addInterruptUser, removeInterruptUser and           *)
(* freeInterruptNode.                                                       *)

CreateInterruptNode(n) ==
  /\ interruptNodeFree[n]
  /\ interruptNodeFree' = [interruptNodeFree EXCEPT ![n] = FALSE]
  /\ isOnList' = [isOnList EXCEPT ![n] = FALSE]
  /\ UNCHANGED <<callbackActive, listModified, callbackList, addRemoveList,
                 callbackDone, intPc, intWalk, intCursor>>

FreeInterruptNode(n) ==
  /\ ~interruptNodeFree[n] /\ intPc[n] = "idle"
  /\ ~isOnList[n]
  /\ interruptNodeFree' = [interruptNodeFree EXCEPT ![n] = TRUE]
  /\ UNCHANGED <<callbackActive, listModified, callbackList, addRemoveList,
                 isOnList, callbackDone, intPc, intWalk, intCursor>>

\* A call enters, or comes back from its wait.
IntAt(n, what) ==
  \/ intPc[n] = "idle" /\ ~interruptNodeFree[n] /\ isOnList[n] = (what = "remove")
  \/ intPc[n] = what /\ callbackDone[n]

\* (mutant) Only the first call looks whether an interrupt is delivered.
IntBusyAtFirst(n) == callbackActive /\ intPc[n] = "idle"

IntBusy(n) == callbackActive

AddInterruptUser(n) ==
  /\ IntAt(n, "add") /\ ~IntBusy(n)
  /\ callbackList' = Append(callbackList, n)
  /\ isOnList' = [isOnList EXCEPT ![n] = TRUE]
  /\ callbackDone' = [callbackDone EXCEPT ![n] = FALSE]
  /\ intPc' = [intPc EXCEPT ![n] = "idle"]
  /\ UNCHANGED <<callbackActive, listModified, addRemoveList, interruptNodeFree,
                 intWalk, intCursor>>

RemoveInterruptUser(n) ==
  /\ IntAt(n, "remove") /\ ~IntBusy(n)
  /\ callbackList' = RemoveFirst(callbackList, n)
  /\ isOnList' = [isOnList EXCEPT ![n] = FALSE]
  /\ callbackDone' = [callbackDone EXCEPT ![n] = FALSE]
  /\ intPc' = [intPc EXCEPT ![n] = "idle"]
  /\ UNCHANGED <<callbackActive, listModified, addRemoveList, interruptNodeFree,
                 intWalk, intCursor>>

WaitForInterruptEnd(n, what) ==
  /\ IntAt(n, what) /\ IntBusy(n)
  /\ addRemoveList' = Append(addRemoveList, n)
  /\ listModified' = TRUE
  /\ callbackDone' = [callbackDone EXCEPT ![n] = FALSE]
  /\ intPc' = [intPc EXCEPT ![n] = what]
  /\ UNCHANGED <<callbackActive, callbackList, isOnList, interruptNodeFree,
                 intWalk, intCursor>>

----------------------------------------------------------------------------
(* A driver that delivers an interrupt (asynOctetBase, int32Driver, ...).   *)

InterruptStart(d) ==
  /\ intWalk[d] = "idle"
  /\ callbackActive' = TRUE /\ listModified' = FALSE
  /\ intWalk' = [intWalk EXCEPT ![d] = "first"]
  /\ UNCHANGED <<callbackList, addRemoveList, isOnList, callbackDone,
                 interruptNodeFree, intPc, intCursor>>

\* The node after the one at the cursor.  A node that was removed meanwhile
\* still links to some node, or to none.
FollowingNode(d) ==
  IF intWalk[d] = "first" THEN {Append(callbackList, NoNode)[1]}
  ELSE LET at == {i \in DOMAIN callbackList : callbackList[i] = intCursor[d]}
       IN IF at = {} THEN Nodes \cup {NoNode}
          ELSE {Append(callbackList, NoNode)[i + 1] : i \in at}

\* The callback at the cursor has returned, and that of the next node starts.
CallNext(d) ==
  /\ intWalk[d] \in {"first", "callback"}
  /\ \E n \in FollowingNode(d) :
       /\ intCursor' = [intCursor EXCEPT ![d] = n]
       /\ intWalk' = [intWalk EXCEPT ![d] = IF n = NoNode THEN "end" ELSE "callback"]
  /\ UNCHANGED <<callbackActive, listModified, callbackList, addRemoveList,
                 isOnList, callbackDone, interruptNodeFree, intPc>>

\* (mutant) Only the first thread on the list is woken.
WokenFirst == {addRemoveList[i] : i \in DOMAIN addRemoveList \cap {1}}

\* The threads on addRemoveList are woken, unless nobody asked to modify.
Woken == IF listModified THEN ToSet(addRemoveList) ELSE {}

InterruptEnd(d) ==
  /\ intWalk[d] = "end"
  /\ callbackActive' = FALSE
  /\ callbackDone' = [n \in Nodes |-> callbackDone[n] \/ n \in Woken]
  /\ addRemoveList' = IF listModified THEN <<>> ELSE addRemoveList
  /\ intWalk' = [intWalk EXCEPT ![d] = "idle"]
  /\ UNCHANGED <<listModified, callbackList, isOnList, interruptNodeFree, intPc, intCursor>>

IntNext ==
  \/ \E n \in Nodes : \/ CreateInterruptNode(n) \/ FreeInterruptNode(n)
                      \/ AddInterruptUser(n) \/ RemoveInterruptUser(n)
                      \/ \E what \in {"add", "remove"} : WaitForInterruptEnd(n, what)
  \/ \E d \in Drivers : InterruptStart(d) \/ CallNext(d) \/ InterruptEnd(d)

IntSpec == IntInit /\ [][IntNext]_intVars

\* A driver that started an interrupt ends it; a thread that was woken runs, and
\* is not always late for the time between two interrupts.
IntFairSpec ==
  /\ IntSpec
  /\ \A d \in Drivers : WF_intVars(CallNext(d) \/ InterruptEnd(d))
  /\ \A n \in Nodes : /\ SF_intVars(intPc[n] # "idle" /\ AddInterruptUser(n))
                      /\ SF_intVars(intPc[n] # "idle" /\ RemoveInterruptUser(n))
                      /\ \A what \in {"add", "remove"} :
                           WF_intVars(intPc[n] # "idle" /\ WaitForInterruptEnd(n, what))

----------------------------------------------------------------------------
(* Properties.                                                              *)

\* The type of every variable.
IntTypeOK ==
  /\ callbackActive \in BOOLEAN /\ listModified \in BOOLEAN
  /\ callbackList \in Seq(Nodes) /\ addRemoveList \in Seq(Nodes)
  /\ isOnList \in [Nodes -> BOOLEAN] /\ callbackDone \in [Nodes -> BOOLEAN]
  /\ interruptNodeFree \in [Nodes -> BOOLEAN]
  /\ intPc \in [Nodes -> {"idle", "add", "remove"}]
  /\ intWalk \in [Drivers -> {"idle", "first", "callback", "end"}]
  /\ intCursor \in [Drivers -> Nodes \cup {NoNode}]
  /\ \A d \in Drivers : intWalk[d] = "callback" => intCursor[d] \in Nodes

\* A node on the free list is on no other list and nobody calls its callback: a
\* client that gets it next is not mixed up with the last one.
FreeNodeUnused ==
  \A n \in Nodes : interruptNodeFree[n] =>
    /\ ~Contains(callbackList, n) /\ ~Contains(addRemoveList, n)
    /\ ~callbackDone[n]
    /\ \A d \in Drivers : intWalk[d] = "callback" => intCursor[d] # n

\* The list is modified only between interrupts: addInterruptUser and
\* removeInterruptUser block until interruptEnd is called.
CallbackListFrozen ==
  [][(\E d \in Drivers : intWalk[d] # "idle" /\ intWalk'[d] # "idle")
       => UNCHANGED callbackList]_intVars

\* Who waits will be woken by the end of the interrupt, or has been.
InterruptWaiterKnown ==
  \A n \in Nodes : intPc[n] # "idle" =>
    \/ callbackActive /\ listModified /\ Contains(addRemoveList, n)
    \/ callbackDone[n]

\* addInterruptUser and removeInterruptUser return.
InterruptCallsReturn == \A n \in Nodes : intPc[n] # "idle" ~> intPc[n] = "idle"
=============================================================================
