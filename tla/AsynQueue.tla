----------------------------- MODULE AsynQueue -----------------------------
(***************************************************************************)
(* The request queues of one blocking asyn port (asynManager.c): client   *)
(* calls queueRequest, cancelRequest, blockProcessCallback, ..., the port *)
(* thread that takes requests off the queues and runs their callbacks, and *)
(* the timer thread that takes off the requests that waited too long.      *)
(*                                                                         *)
(* A critical section of asynManagerLock is one action, except that of the *)
(* port thread, which keeps the lock over several actions: the lock is     *)
(* held exactly when ptPc is in Holding.  The connected and enabled flags  *)
(* are written without the lock, and so they change at any time here too.  *)
(***************************************************************************)
EXTENDS Integers, Sequences, SequencesExt

CONSTANTS
  Users,            \* the asynUsers connected to this port
  Devices,          \* the addresses of a multi-device port
  Port,             \* the port's own dpCommon
  DeviceOf,         \* the dpCommon of each asynUser: an address, or Port
  TimeoutUsers,     \* the asynUsers created with a timeout callback
  AutoConnect,      \* the dpCommons with autoConnect set
  NoUser,           \* a null userPvt pointer
  RequestPriorities,\* the priorities that clients of this instance use
  Cancellers,       \* the asynUsers whose owners call cancelRequest
  QueueWhileActive, \* may an asynUser be queued while a callback of it is active?
  MaxRequests,      \* bound: requests accepted
  MaxBlocks,        \* bound: nesting of blockProcessCallback
  MaxChanges,       \* bound: connects, disconnects, enables, disables
  MaxFrees          \* bound: asynUsers freed

Dpcs == Devices \cup {Port}
Priorities == {"low", "medium", "high", "connect"}

ASSUME QueueAssumption ==
  /\ Port \notin Devices
  /\ NoUser \notin Users
  /\ DeviceOf \in [Users -> Dpcs]
  /\ TimeoutUsers \subseteq Users
  /\ AutoConnect \subseteq Dpcs
  /\ Cancellers \subseteq Users
  /\ RequestPriorities \subseteq Priorities
  /\ QueueWhileActive \in BOOLEAN
  /\ {MaxRequests, MaxBlocks, MaxChanges, MaxFrees} \subseteq Nat

VARIABLES
  \* struct userPvt, a field each
  isQueued, state, timed, blockPortCount, blockDeviceCount,
  freeAfterCallback, callbackDone,
  live,             \* where the asynUser is: "live", "freeing" or "free" list
  timer,            \* its epicsTimer
  \* struct port and struct dpCommon
  queueList, pblockProcessHolder, dpcHolder, enabled, connected,
  queueStateChange, notifyPortThread,
  \* the port thread
  ptPc, ptUser, ptConnect, ptPos, callTimeoutUser,
  \* the thread of the timer queue
  tmPc, tmUser,
  \* the owner of each asynUser, and who announces a changed flag
  owner,
  watch,            \* the callbacks that were active when the owner cancelled
  announcing,
  requests, changes, frees \* counters that only bound the instance

userVars  == <<isQueued, state, timed, freeAfterCallback, callbackDone, live>>
blockVars == <<blockPortCount, blockDeviceCount, pblockProcessHolder, dpcHolder>>
linkVars  == <<enabled, connected, announcing, changes>>
wakeVars  == <<queueStateChange, notifyPortThread>>
portVars  == <<ptPc, ptUser, ptConnect, ptPos, callTimeoutUser>>
timerVars == <<timer, tmPc, tmUser>>
ownerVars == <<owner, watch>>
vars == <<userVars, blockVars, linkVars, wakeVars, portVars, timerVars,
          ownerVars, queueList, requests, frees>>

----------------------------------------------------------------------------
\* The port thread holds asynManagerLock at these points of its loop.
Holding == {"connects", "scan", "element"}
LockFree == ptPc \notin Holding

PortRuns(u)  == ptPc = "callback" /\ ptUser = u
TimerRuns(u) == tmPc = "callback" /\ tmUser = u
InCallback(u) == PortRuns(u) \/ TimerRuns(u)

\* A live asynUser is used by its owner or from its own callbacks.
MayCall(u) == live[u] = "live" /\ (owner[u] = "idle" \/ InCallback(u))

\* The search for a request in all lists, and ellDelete where it is found.
Dequeue(u) == [p \in Priorities |-> RemoveFirst(queueList[p], u)]

\* The requests below connect priority in the order the scan visits them.
Waiting == queueList["high"] \o queueList["medium"] \o queueList["low"]

\* (mutants) The scan forgets to look at one of the two holders.
UnblockedPortOnly(u) == pblockProcessHolder \in {NoUser, u}
UnblockedDeviceOnly(u) == dpcHolder[DeviceOf[u]] \in {NoUser, u}

\* The test that lets the scan take a request: nobody else blocks it.
Unblocked(u) == /\ pblockProcessHolder \in {NoUser, u}
                /\ dpcHolder[DeviceOf[u]] \in {NoUser, u}

\* A request waits in front of all others if its asynUser is a block holder.
AddToFront(u) == /\ blockPortCount[u] > 0 \/ blockDeviceCount[u] > 0
                 /\ pblockProcessHolder = u \/ dpcHolder[DeviceOf[u]] = u

\* epicsTimerStartDelay: a timer that is expiring runs again afterwards.
Started(t) == IF t \in {"firing", "rearmed"} THEN "rearmed" ELSE "armed"

\* (mutant) A change of the queues goes unnoticed by a scan without the lock.
ChangeForgotten == UNCHANGED queueStateChange

\* The queues changed: what the port thread found out about them is stale.
QueueChanged == queueStateChange' = TRUE

\* (mutant) The end of a block is not signalled.
NotSignalled(wasOwner) == notifyPortThread

\* Unblocking signals the port thread if the caller was the holder.
Signalled(wasOwner) == notifyPortThread \/ wasOwner

\* (mutant) An asynUser is put on the free list while its callback is active.
FreedAtOnce(u) == "free"

\* freeAsynUser leaves an asynUser with an active callback to that callback.
Freed(u) == IF state[u] = "idle" THEN "free" ELSE "freeing"

Init ==
  /\ isQueued = [u \in Users |-> FALSE]
  /\ state = [u \in Users |-> "idle"]
  /\ timed = [u \in Users |-> FALSE]
  /\ blockPortCount = [u \in Users |-> 0]
  /\ blockDeviceCount = [u \in Users |-> 0]
  /\ freeAfterCallback = [u \in Users |-> FALSE]
  /\ callbackDone = [u \in Users |-> FALSE]
  /\ live = [u \in Users |-> "live"]
  /\ timer = [u \in Users |-> "off"]
  /\ queueList = [p \in Priorities |-> <<>>]
  /\ pblockProcessHolder = NoUser
  /\ dpcHolder = [d \in Dpcs |-> NoUser]
  /\ enabled = [d \in Dpcs |-> TRUE]
  /\ connected \in [Dpcs -> BOOLEAN]
  /\ queueStateChange = FALSE /\ notifyPortThread = FALSE
  /\ ptPc = "wait" /\ ptUser = NoUser /\ ptConnect = FALSE /\ ptPos = 0
  /\ callTimeoutUser = FALSE
  /\ tmPc = "idle" /\ tmUser = NoUser
  /\ owner = [u \in Users |-> "idle"]
  /\ watch = [u \in Users |-> {}]
  /\ announcing = FALSE
  /\ requests = 0 /\ changes = 0 /\ frees = 0

----------------------------------------------------------------------------
(* Calls that clients make, from a callback or from the owner's thread.    *)

\* queueRequest that is accepted; withTimeout is timeout > 0, evenIfDown is
\* the reason ASYN_REASON_QUEUE_EVEN_IF_NOT_CONNECTED.
QueueRequest(u, p, withTimeout, evenIfDown) ==
  /\ LockFree /\ MayCall(u)
  /\ requests < MaxRequests
  /\ QueueWhileActive \/ state[u] = "idle"
  /\ enabled[Port]
  /\ \/ connected[Port]
     \/ p = "connect" /\ (DeviceOf[u] = Port \/ evenIfDown)
  /\ ~isQueued[u]
  /\ withTimeout => u \in TimeoutUsers
  /\ queueList' = [queueList EXCEPT
                     ![p] = IF AddToFront(u) THEN <<u>> \o @ ELSE Append(@, u)]
  /\ isQueued' = [isQueued EXCEPT ![u] = TRUE]
  /\ timed' = [timed EXCEPT ![u] = withTimeout]
  /\ timer' = [timer EXCEPT ![u] = IF withTimeout THEN Started(@) ELSE @]
  /\ QueueChanged /\ notifyPortThread' = TRUE
  /\ requests' = requests + 1
  /\ UNCHANGED <<state, freeAfterCallback, callbackDone, live, blockVars,
                 linkVars, portVars, tmPc, tmUser, ownerVars, frees>>

\* cancelRequest of a queued request: it leaves the queue, then its timer is
\* stopped without the lock.
CancelQueued(u) ==
  /\ u \in Cancellers
  /\ LockFree /\ live[u] = "live" /\ owner[u] = "idle"
  /\ isQueued[u]
  /\ queueList' = Dequeue(u)
  /\ isQueued' = [isQueued EXCEPT ![u] = FALSE]
  /\ QueueChanged
  /\ owner' = [owner EXCEPT ![u] = IF timed[u] THEN "stopTimer" ELSE "signal"]
  /\ watch' = [watch EXCEPT ![u] = {t \in {"port", "timer"} :
                     IF t = "port" THEN PortRuns(u) ELSE TimerRuns(u)}]
  /\ UNCHANGED <<state, timed, freeAfterCallback, callbackDone, live, blockVars,
                 linkVars, notifyPortThread, portVars, timerVars, requests, frees>>

CancelStopTimer(u) ==
  /\ owner[u] = "stopTimer"
  /\ \/ /\ timer[u] = "rearmed"
        /\ timer' = [timer EXCEPT ![u] = "firing"]
        /\ UNCHANGED owner
     \/ /\ timer[u] \in {"off", "armed"}
        /\ timer' = [timer EXCEPT ![u] = "off"]
        /\ owner' = [owner EXCEPT ![u] = "signal"]
  /\ UNCHANGED <<userVars, blockVars, linkVars, wakeVars, portVars, tmPc, tmUser,
                 watch, queueList, requests, frees>>

CancelSignal(u) ==
  /\ owner[u] = "signal"
  /\ notifyPortThread' = TRUE
  /\ owner' = [owner EXCEPT ![u] = "returned"]
  /\ UNCHANGED <<userVars, blockVars, linkVars, queueStateChange, portVars,
                 timerVars, watch, queueList, requests, frees>>

\* cancelRequest of a request that is not queued: wait for its callback.
CancelActive(u) ==
  /\ u \in Cancellers
  /\ LockFree /\ live[u] = "live" /\ owner[u] = "idle"
  /\ ~isQueued[u]
  /\ state[u] = "active"
  /\ state' = [state EXCEPT ![u] = "canceled"]
  /\ owner' = [owner EXCEPT ![u] = "waitDone"]
  /\ watch' = [watch EXCEPT ![u] = {t \in {"port", "timer"} :
                     IF t = "port" THEN PortRuns(u) ELSE TimerRuns(u)}]
  /\ UNCHANGED <<isQueued, timed, freeAfterCallback, callbackDone, live, blockVars,
                 linkVars, wakeVars, portVars, timerVars, queueList, requests, frees>>

\* (mutant) cancelRequest does not wait for the callback.
CancelNoWait(u) ==
  /\ owner[u] = "waitDone"
  /\ callbackDone' = [callbackDone EXCEPT ![u] = FALSE]
  /\ owner' = [owner EXCEPT ![u] = "returned"]
  /\ UNCHANGED <<isQueued, state, timed, freeAfterCallback, live, blockVars, linkVars,
                 wakeVars, portVars, timerVars, watch, queueList, requests, frees>>

CancelWake(u) ==
  /\ owner[u] = "waitDone" /\ callbackDone[u]
  /\ callbackDone' = [callbackDone EXCEPT ![u] = FALSE]
  /\ owner' = [owner EXCEPT ![u] = "returned"]
  /\ UNCHANGED <<isQueued, state, timed, freeAfterCallback, live, blockVars, linkVars,
                 wakeVars, portVars, timerVars, watch, queueList, requests, frees>>

\* The caller of cancelRequest goes on.
CancelReturn(u) ==
  /\ owner[u] = "returned"
  /\ owner' = [owner EXCEPT ![u] = "idle"]
  /\ watch' = [watch EXCEPT ![u] = {}]
  /\ UNCHANGED <<userVars, blockVars, linkVars, wakeVars, portVars, timerVars,
                 queueList, requests, frees>>

BlockProcessCallback(u, allDevices) ==
  /\ LockFree /\ MayCall(u)
  /\ ~isQueued[u]
  /\ IF allDevices
     THEN /\ blockPortCount[u] < MaxBlocks
          /\ blockPortCount' = [blockPortCount EXCEPT ![u] = @ + 1]
          /\ UNCHANGED blockDeviceCount
     ELSE /\ blockDeviceCount[u] < MaxBlocks
          /\ blockDeviceCount' = [blockDeviceCount EXCEPT ![u] = @ + 1]
          /\ UNCHANGED blockPortCount
  /\ UNCHANGED <<userVars, pblockProcessHolder, dpcHolder, linkVars, wakeVars,
                 portVars, timerVars, ownerVars, queueList, requests, frees>>

UnblockPort(u) ==
  /\ LockFree /\ MayCall(u)
  /\ ~isQueued[u] /\ blockPortCount[u] > 0
  /\ blockPortCount' = [blockPortCount EXCEPT ![u] = @ - 1]
  /\ LET wasOwner == blockPortCount[u] = 1 /\ pblockProcessHolder = u
     IN /\ pblockProcessHolder' = IF wasOwner THEN NoUser ELSE pblockProcessHolder
        /\ notifyPortThread' = Signalled(wasOwner)
  /\ UNCHANGED <<userVars, blockDeviceCount, dpcHolder, linkVars, queueStateChange,
                 portVars, timerVars, ownerVars, queueList, requests, frees>>

UnblockDevice(u) ==
  /\ LockFree /\ MayCall(u)
  /\ ~isQueued[u] /\ blockDeviceCount[u] > 0
  /\ blockDeviceCount' = [blockDeviceCount EXCEPT ![u] = @ - 1]
  /\ LET wasOwner == blockDeviceCount[u] = 1 /\ dpcHolder[DeviceOf[u]] = u
     IN /\ dpcHolder' = [dpcHolder EXCEPT ![DeviceOf[u]] = IF wasOwner THEN NoUser ELSE @]
        /\ notifyPortThread' = Signalled(wasOwner)
  /\ UNCHANGED <<userVars, blockPortCount, pblockProcessHolder, linkVars,
                 queueStateChange, portVars, timerVars, ownerVars, queueList,
                 requests, frees>>

\* freeAsynUser, by the owner when no callback runs, or from a callback: then
\* the callback's thread puts the asynUser on the free list.
FreeAsynUser(u) ==
  /\ LockFree /\ live[u] = "live" /\ owner[u] = "idle"
  /\ state[u] = "idle" \/ InCallback(u)
  /\ frees < MaxFrees
  /\ ~isQueued[u] /\ blockPortCount[u] = 0 /\ blockDeviceCount[u] = 0
  /\ live' = [live EXCEPT ![u] = Freed(u)]
  /\ freeAfterCallback' = [freeAfterCallback EXCEPT ![u] = state[u] # "idle"]
  /\ frees' = frees + 1
  /\ UNCHANGED <<isQueued, state, timed, callbackDone, blockVars, linkVars, wakeVars,
                 portVars, timerVars, ownerVars, queueList, requests>>

\* createAsynUser reuses an asynUser of the free list; connectDevice follows.
CreateAsynUser(u) ==
  /\ LockFree /\ live[u] = "free"
  /\ live' = [live EXCEPT ![u] = "live"]
  /\ timed' = [timed EXCEPT ![u] = FALSE]
  /\ state' = [state EXCEPT ![u] = "idle"]
  /\ isQueued' = [isQueued EXCEPT ![u] = FALSE]
  /\ UNCHANGED <<freeAfterCallback, callbackDone, blockVars, linkVars, wakeVars,
                 portVars, timerVars, ownerVars, queueList, requests, frees>>

ClientNext == \E u \in Users :
  \/ \E p \in RequestPriorities, withTimeout, evenIfDown \in BOOLEAN :
       QueueRequest(u, p, withTimeout, evenIfDown)
  \/ CancelQueued(u) \/ CancelStopTimer(u) \/ CancelSignal(u)
  \/ CancelActive(u) \/ CancelWake(u) \/ CancelReturn(u)
  \/ \E allDevices \in BOOLEAN : BlockProcessCallback(u, allDevices)
  \/ UnblockPort(u) \/ UnblockDevice(u)
  \/ FreeAsynUser(u) \/ CreateAsynUser(u)

----------------------------------------------------------------------------
(* exceptionConnect, exceptionDisconnect and enable write their flag        *)
(* without the lock and then announce the change.                           *)

ExceptionConnect(d) ==
  /\ ~announcing /\ changes < MaxChanges
  /\ ~connected[d]
  /\ connected' = [connected EXCEPT ![d] = TRUE]
  /\ announcing' = TRUE /\ changes' = changes + 1
  /\ UNCHANGED <<userVars, blockVars, enabled, wakeVars, portVars, timerVars,
                 ownerVars, queueList, requests, frees>>

ExceptionDisconnect(d) ==
  /\ ~announcing /\ changes < MaxChanges
  /\ connected[d]
  /\ connected' = [connected EXCEPT ![d] = FALSE]
  /\ announcing' = TRUE /\ changes' = changes + 1
  /\ UNCHANGED <<userVars, blockVars, enabled, wakeVars, portVars, timerVars,
                 ownerVars, queueList, requests, frees>>

Enable(d, yesNo) ==
  /\ ~announcing /\ changes < MaxChanges
  /\ enabled' = [enabled EXCEPT ![d] = yesNo]
  /\ announcing' = TRUE /\ changes' = changes + 1
  /\ UNCHANGED <<userVars, blockVars, connected, wakeVars, portVars, timerVars,
                 ownerVars, queueList, requests, frees>>

AnnounceExceptionOccurred ==
  /\ LockFree /\ announcing
  /\ announcing' = FALSE
  /\ queueStateChange' = TRUE /\ notifyPortThread' = TRUE
  /\ UNCHANGED <<userVars, blockVars, enabled, connected, changes, portVars,
                 timerVars, ownerVars, queueList, requests, frees>>

LinkNext == \/ \E d \in Dpcs : \/ ExceptionConnect(d) \/ ExceptionDisconnect(d)
                               \/ \E yesNo \in BOOLEAN : Enable(d, yesNo)
            \/ AnnounceExceptionOccurred

----------------------------------------------------------------------------
(* The port thread.                                                         *)

\* (mutant) No callback signals.
SignalsNever(u) == FALSE

\* The end of a callback is signalled if somebody cancelled the request.
Signals(u) == state[u] = "canceled"

\* What both threads do under the lock when the callback of u is over; who is
\* "port" or "timer".
FinishCallback(u, who) ==
  /\ callbackDone' = [callbackDone EXCEPT ![u] = @ \/ Signals(u)]
  /\ state' = [state EXCEPT ![u] = "idle"]
  /\ freeAfterCallback' = [freeAfterCallback EXCEPT ![u] = FALSE]
  /\ live' = [live EXCEPT ![u] = IF freeAfterCallback[u] THEN "free" ELSE @]
  /\ watch' = [watch EXCEPT ![u] = @ \ {who}]
  /\ UNCHANGED <<isQueued, timed>>

PortWake ==
  /\ ptPc = "wait" /\ notifyPortThread
  /\ notifyPortThread' = FALSE
  /\ ptPc' = "top"
  /\ UNCHANGED <<userVars, blockVars, linkVars, queueStateChange, ptUser, ptConnect,
                 ptPos, callTimeoutUser, timerVars, ownerVars, queueList,
                 requests, frees>>

\* Takes asynManagerLock; a disabled port waits for the next event.
PortTop ==
  /\ ptPc = "top"
  /\ ptPc' = IF enabled[Port] THEN "connects" ELSE "wait"
  /\ UNCHANGED <<userVars, blockVars, linkVars, wakeVars, ptUser, ptConnect, ptPos,
                 callTimeoutUser, timerVars, ownerVars, queueList, requests,
                 frees>>

\* The request of u leaves its queue and its callback is about to run.
TakeRequest(u) ==
  /\ queueList' = Dequeue(u)
  /\ isQueued' = [isQueued EXCEPT ![u] = FALSE]
  /\ state' = [state EXCEPT ![u] = "active"]
  /\ ptUser' = u
  /\ ptPc' = IF timed[u] THEN "stopTimer" ELSE "callback"
  /\ UNCHANGED <<timed, freeAfterCallback, callbackDone, live>>

\* All connect requests come first, and no block holder holds them up.
PortTakeConnect ==
  /\ ptPc = "connects" /\ queueList["connect"] # <<>>
  /\ TakeRequest(Head(queueList["connect"]))
  /\ ptConnect' = TRUE /\ callTimeoutUser' = FALSE
  /\ UNCHANGED <<blockVars, linkVars, wakeVars, ptPos, timerVars, ownerVars,
                 requests, frees>>

\* No connect request is left.  A port that is down is given a connection
\* attempt without the lock, unless it had one less than two seconds ago.
PortConnectsDone ==
  /\ ptPc = "connects" /\ queueList["connect"] = <<>>
  /\ \/ connected[Port] /\ ptPc' = "scan"
     \/ ~connected[Port] /\ Port \in AutoConnect /\ ptPc' = "autoPort"
     \/ ~connected[Port] /\ ptPc' = "wait"
  /\ UNCHANGED <<userVars, blockVars, linkVars, wakeVars, ptUser, ptConnect, ptPos,
                 callTimeoutUser, timerVars, ownerVars, queueList, requests,
                 frees>>

\* The attempt is over; if it succeeded the driver called exceptionConnect.
PortAutoConnected ==
  /\ ptPc = "autoPort"
  /\ ptPc' = IF connected[Port] THEN "scan" ELSE "wait"
  /\ UNCHANGED <<userVars, blockVars, linkVars, wakeVars, ptUser, ptConnect, ptPos,
                 callTimeoutUser, timerVars, ownerVars, queueList, requests,
                 frees>>

PortScan ==
  /\ ptPc = "scan"
  /\ ptPc' = "element" /\ ptPos' = 1
  /\ callTimeoutUser' = FALSE /\ queueStateChange' = FALSE
  /\ UNCHANGED <<userVars, blockVars, linkVars, notifyPortThread, ptUser, ptConnect,
                 timerVars, ownerVars, queueList, requests, frees>>

\* The element at ptPos once its device's connection is known to be up or down.
TakeOrSkip(u, up) ==
  /\ callTimeoutUser' = (callTimeoutUser \/ (~up /\ u \in TimeoutUsers))
  /\ IF Unblocked(u)
     THEN /\ TakeRequest(u)
          /\ ptConnect' = FALSE
          /\ ptPos' = 0
     ELSE /\ ptPos' = ptPos + 1 /\ ptPc' = "element"
          /\ UNCHANGED <<userVars, queueList, ptUser, ptConnect>>

PortElement ==
  /\ ptPc = "element" /\ ptPos <= Len(Waiting)
  /\ LET u == Waiting[ptPos]
     IN \/ /\ enabled[DeviceOf[u]]
           /\ TakeOrSkip(u, connected[DeviceOf[u]])
        \/ /\ ~enabled[DeviceOf[u]]
           /\ ptPos' = ptPos + 1
           /\ UNCHANGED <<userVars, queueList, ptPc, ptUser, ptConnect,
                          callTimeoutUser>>
        \/ /\ enabled[DeviceOf[u]] /\ ~connected[DeviceOf[u]]
           /\ (IF connected[Port] THEN DeviceOf[u] ELSE Port) \in AutoConnect
           /\ ptPc' = "autoElement"
           /\ UNCHANGED <<userVars, queueList, ptPos, ptUser, ptConnect,
                          callTimeoutUser>>
  /\ UNCHANGED <<blockVars, linkVars, wakeVars, timerVars, ownerVars, requests, frees>>

\* autoConnectDevice returns with the lock taken again.  The queues may have
\* changed meanwhile: then the scan is given up.
PortElementAutoConnected ==
  /\ ptPc = "autoElement"
  /\ IF queueStateChange
     THEN /\ ptPc' = "wait" /\ ptPos' = 0
          /\ UNCHANGED <<userVars, queueList, ptUser, ptConnect,
                         callTimeoutUser>>
     ELSE LET u == Waiting[ptPos] IN TakeOrSkip(u, connected[DeviceOf[u]])
  /\ UNCHANGED <<blockVars, linkVars, wakeVars, timerVars, ownerVars, requests, frees>>

\* The scan found no request it could take.
PortScanDone ==
  /\ ptPc = "element" /\ ptPos > Len(Waiting)
  /\ ptPc' = "wait" /\ ptPos' = 0
  /\ UNCHANGED <<userVars, blockVars, linkVars, wakeVars, ptUser, ptConnect,
                 callTimeoutUser, timerVars, ownerVars, queueList, requests,
                 frees>>

\* epicsTimerCancel, without the lock: withdraws a restart and waits for a
\* callback of the timer that is running.
PortStopTimer ==
  /\ ptPc = "stopTimer"
  /\ \/ /\ timer[ptUser] = "rearmed"
        /\ timer' = [timer EXCEPT ![ptUser] = "firing"]
        /\ UNCHANGED ptPc
     \/ /\ timer[ptUser] \in {"off", "armed"}
        /\ timer' = [timer EXCEPT ![ptUser] = "off"]
        /\ ptPc' = "callback"
  /\ UNCHANGED <<userVars, blockVars, linkVars, wakeVars, ptUser, ptConnect, ptPos,
                 callTimeoutUser, tmPc, tmUser, ownerVars, queueList,
                 requests, frees>>

\* The callback of a connect request returns.
PortConnectCallbackDone ==
  /\ ptPc = "callback" /\ ptConnect
  /\ FinishCallback(ptUser, "port")
  /\ ptPc' = "connects" /\ ptUser' = NoUser /\ ptConnect' = FALSE
  /\ UNCHANGED <<blockVars, linkVars, wakeVars, ptPos, callTimeoutUser,
                 timerVars, owner, queueList, requests, frees>>

\* The block holder once a callback of u has returned.
HolderAfter(count, u, holder) == IF count > 0 THEN u ELSE holder

\* (mutant) After each callback the port thread waits for the next event.
WaitAfterCallback == "wait"

\* The scan starts again unless the queues changed: then an event is coming.
AfterCallback == IF queueStateChange THEN "wait" ELSE "scan"

\* The callback of any other request returns: its asynUser becomes the block
\* holder if it asked for that, and the scan starts again if nothing changed.
PortCallbackDone ==
  /\ ptPc = "callback" /\ ~ptConnect
  /\ pblockProcessHolder' =
       HolderAfter(blockPortCount[ptUser], ptUser, pblockProcessHolder)
  /\ dpcHolder' = [dpcHolder EXCEPT ![DeviceOf[ptUser]] =
                     HolderAfter(blockDeviceCount[ptUser], ptUser, @)]
  /\ FinishCallback(ptUser, "port")
  /\ ptPc' = AfterCallback
  /\ ptUser' = NoUser /\ callTimeoutUser' = FALSE
  /\ UNCHANGED <<blockPortCount, blockDeviceCount, linkVars, wakeVars, ptConnect,
                 ptPos, timerVars, owner, queueList, requests, frees>>

PortNext == \/ PortWake \/ PortTop \/ PortTakeConnect \/ PortConnectsDone
            \/ PortAutoConnected \/ PortScan \/ PortElement
            \/ PortElementAutoConnected \/ PortScanDone \/ PortStopTimer
            \/ PortConnectCallbackDone \/ PortCallbackDone

----------------------------------------------------------------------------
(* The timer thread: one thread runs the expired timers of all asynUsers.   *)

TimerExpires(u) ==
  /\ tmPc = "idle" /\ timer[u] = "armed"
  /\ timer' = [timer EXCEPT ![u] = "firing"]
  /\ tmPc' = "queueTimeoutCallback" /\ tmUser' = u
  /\ UNCHANGED <<userVars, blockVars, linkVars, wakeVars, portVars, ownerVars,
                 queueList, requests, frees>>

\* A timer that was started again while it expired is armed once it is over.
Expired(t) == IF t = "rearmed" THEN "armed" ELSE "off"

\* (mutant) The timer thread does not look whether the request is still queued.
AlwaysQueued == TRUE

\* (mutant) The timer thread mistakes a queued request for one that was taken.
NeverQueued == FALSE

\* The request whose timer expired may have been taken or cancelled meanwhile.
StillQueued == isQueued[tmUser]

QueueTimeoutNotQueued ==
  /\ LockFree /\ tmPc = "queueTimeoutCallback" /\ ~StillQueued
  /\ timer' = [timer EXCEPT ![tmUser] = Expired(@)]
  /\ tmPc' = "idle" /\ tmUser' = NoUser
  /\ UNCHANGED <<userVars, blockVars, linkVars, wakeVars, portVars, ownerVars,
                 queueList, requests, frees>>

QueueTimeoutCallback ==
  /\ LockFree /\ tmPc = "queueTimeoutCallback" /\ StillQueued
  /\ queueList' = Dequeue(tmUser)
  /\ isQueued' = [isQueued EXCEPT ![tmUser] = FALSE]
  /\ QueueChanged
  /\ state' = [state EXCEPT ![tmUser] = "active"]
  /\ tmPc' = "callback"
  /\ UNCHANGED <<timed, freeAfterCallback, callbackDone, live, blockVars, linkVars,
                 notifyPortThread, portVars, timer, tmUser, ownerVars, requests, frees>>

TimeoutCallbackDone ==
  /\ LockFree /\ tmPc = "callback"
  /\ FinishCallback(tmUser, "timer")
  /\ notifyPortThread' = TRUE
  /\ timer' = [timer EXCEPT ![tmUser] = Expired(@)]
  /\ tmPc' = "idle" /\ tmUser' = NoUser
  /\ UNCHANGED <<blockVars, linkVars, queueStateChange, portVars, owner,
                 queueList, requests, frees>>

TimerNext == \/ \E u \in Users : TimerExpires(u)
             \/ QueueTimeoutNotQueued \/ QueueTimeoutCallback \/ TimeoutCallbackDone

Next == ClientNext \/ LinkNext \/ PortNext \/ TimerNext

Spec == Init /\ [][Next]_vars

\* Every thread inside asynManager goes on, callbacks return, expired timers
\* run, and an asynUser that blocks others unblocks in the end, as often as it
\* blocked them.
FairSpec ==
  /\ Spec
  /\ WF_vars(PortNext) /\ WF_vars(TimerNext) /\ WF_vars(AnnounceExceptionOccurred)
  /\ \A u \in Users :
       /\ WF_vars(CancelStopTimer(u)) /\ WF_vars(CancelSignal(u))
       /\ WF_vars(CancelWake(u)) /\ WF_vars(CancelReturn(u))
       /\ WF_vars(UnblockPort(u)) /\ SF_vars(blockPortCount[u] = 1 /\ UnblockPort(u))
       /\ WF_vars(UnblockDevice(u)) /\ SF_vars(blockDeviceCount[u] = 1 /\ UnblockDevice(u))

----------------------------------------------------------------------------
(* Properties.                                                              *)

\* The type of every variable (the fields of userPvt, port and dpCommon).
TypeOK ==
  /\ isQueued \in [Users -> BOOLEAN]
  /\ state \in [Users -> {"idle", "active", "canceled"}]
  /\ timed \in [Users -> BOOLEAN]
  /\ blockPortCount \in [Users -> Nat] /\ blockDeviceCount \in [Users -> Nat]
  /\ freeAfterCallback \in [Users -> BOOLEAN]
  /\ callbackDone \in [Users -> BOOLEAN]
  /\ live \in [Users -> {"live", "freeing", "free"}]
  /\ timer \in [Users -> {"off", "armed", "firing", "rearmed"}]
  /\ queueList \in [Priorities -> Seq(Users)]
  /\ pblockProcessHolder \in Users \cup {NoUser}
  /\ dpcHolder \in [Dpcs -> Users \cup {NoUser}]
  /\ enabled \in [Dpcs -> BOOLEAN] /\ connected \in [Dpcs -> BOOLEAN]
  /\ queueStateChange \in BOOLEAN /\ notifyPortThread \in BOOLEAN
  /\ ptPc \in {"wait", "top", "connects", "autoPort", "scan", "element",
               "autoElement", "stopTimer", "callback"}
  /\ ptUser \in Users \cup {NoUser}
  /\ ptPc \in {"stopTimer", "callback"} => ptUser \in Users
  /\ ptConnect \in BOOLEAN /\ ptPos \in Nat
  /\ callTimeoutUser \in BOOLEAN
  /\ tmPc \in {"idle", "queueTimeoutCallback", "callback"}
  /\ tmUser \in Users \cup {NoUser}
  /\ tmPc # "idle" => tmUser \in Users
  /\ owner \in [Users -> {"idle", "stopTimer", "signal", "waitDone", "returned"}]
  /\ watch \in [Users -> SUBSET {"port", "timer"}]
  /\ announcing \in BOOLEAN
  /\ requests \in Nat /\ changes \in Nat /\ frees \in Nat

\* A request is on exactly one queue, once, if and only if isQueued is set: the
\* asserts of portThread hold and the LOGIC ERROR branches of cancelRequest
\* and queueTimeoutCallback are dead code.
QueueConsistent ==
  \A u \in Users :
    /\ isQueued[u] <=> \E p \in Priorities : \E i \in DOMAIN queueList[p] : queueList[p][i] = u
    /\ \A p, q \in Priorities : \A i \in DOMAIN queueList[p], j \in DOMAIN queueList[q] :
         queueList[p][i] = u /\ queueList[q][j] = u => p = q /\ i = j

\* When the scan comes back from a connection attempt made without the lock and
\* goes on with its element, that element is still on the queue.
ScanElementQueued ==
  ptPc = "autoElement" /\ ~queueStateChange => ptPos <= Len(Waiting)

\* Only an asynUser that still asks for blocking holds the port or a device:
\* no holder is left behind that nobody would ever clear.
HolderBlocks ==
  /\ pblockProcessHolder # NoUser => blockPortCount[pblockProcessHolder] > 0
  /\ \A d \in Dpcs : dpcHolder[d] # NoUser =>
       blockDeviceCount[dpcHolder[d]] > 0 /\ DeviceOf[dpcHolder[d]] = d

\* blockProcessCallback: from the end of the holder's callback until it
\* unblocks, the port thread runs no other asynUser's request (of the port, or
\* of the device) except connect requests.
BlockedServesHolder ==
  ptPc \in {"stopTimer", "callback"} /\ ~ptConnect =>
    pblockProcessHolder \in {NoUser, ptUser} /\ dpcHolder[DeviceOf[ptUser]] \in {NoUser, ptUser}

\* An asynUser on the free list is out of use everywhere: the asserts of
\* createAsynUser hold and no thread still runs a callback of it.
FreeListQuiet ==
  \A u \in Users : live[u] = "free" =>
    /\ ~isQueued[u] /\ state[u] = "idle" /\ ~freeAfterCallback[u]
    /\ blockPortCount[u] = 0 /\ blockDeviceCount[u] = 0
    /\ ~InCallback(u) /\ owner[u] = "idle"
    /\ pblockProcessHolder # u /\ \A d \in Dpcs : dpcHolder[d] # u

\* callbackDone is signalled only to a canceller that waits: a later
\* cancelRequest finds no stale event that would let it return too early.
NoStaleDone == \A u \in Users : callbackDone[u] => owner[u] = "waitDone"

\* At most one callback of an asynUser is active.
OneCallback == \A u \in Users : ~(PortRuns(u) /\ TimerRuns(u))

\* cancelRequest does not return while a callback that was active when it was
\* called still runs.
CancelWaits == \A u \in Users : owner[u] = "returned" => watch[u] = {}

\* A request that the port thread can take now.
Ready(u) ==
  /\ isQueued[u] /\ enabled[Port]
  /\ \/ Contains(queueList["connect"], u)
     \/ connected[Port] /\ enabled[DeviceOf[u]] /\ Unblocked(u)

\* The promise of the port to its clients, see AsynPort.
Promise == INSTANCE AsynPort WITH
  pending   <- {u \in Users : isQueued[u]},
  serving   <- IF ptPc \in {"stopTimer", "callback"} THEN ptUser ELSE NoUser,
  ordinary  <- ptPc \in {"stopTimer", "callback"} /\ ~ptConnect,
  expiring  <- IF tmPc = "callback" THEN tmUser ELSE NoUser,
  blocker   <- pblockProcessHolder

\* The port keeps its promise.
KeepsPromise == Promise!Spec

\* No lost wakeup: the port thread does not sleep on a request it can take,
\* unless somebody is about to signal it.
NoLostWakeup ==
  (\E u \in Users : Ready(u)) =>
    \/ ptPc # "wait" \/ notifyPortThread \/ announcing \/ tmPc = "callback"
    \/ \E u \in Users : owner[u] \in {"stopTimer", "signal"}

\* A request is not left on its queue while port and device stay enabled and
\* the port stays connected, whatever happened before.
RequestsServed ==
  \A u \in Users :
    <>[](enabled[Port] /\ connected[Port] /\ enabled[DeviceOf[u]])
      => (isQueued[u] ~> ~isQueued[u])

\* A request with a timeout leaves its queue even if port or device are
\* disabled, down or blocked.
TimedRequestEnds == \A u \in Users : isQueued[u] /\ timed[u] ~> ~isQueued[u]

\* cancelRequest returns.
CancelReturns == \A u \in Users : owner[u] = "waitDone" ~> owner[u] = "returned"
=============================================================================
