--------------------------- MODULE AsynQueueLock ---------------------------
(***************************************************************************)
(* Locking a blocking asyn port (asynManager.c): queueLockPort parks the   *)
(* port thread inside a queued callback until queueUnlockPort, lockPort    *)
(* takes the port's synchronousLock, and asynLockPortNotify, where the     *)
(* driver of the port registers it, also locks the port below it (drvLove).*)
(* The queues and the connection of the port are those of AsynQueue: here  *)
(* they are one first-in first-out queue that may refuse a request.        *)
(***************************************************************************)
EXTENDS Naturals, Sequences

CONSTANTS
  QueueLockers,  \* the threads that call queueLockPort
  Lockers,       \* the threads that call lockPort
  PortThread, NoThread,
  IO,            \* the request of any other client
  NotifiedQueueLocks, \* is queueLockPort called where the driver registers
                      \* asynLockPortNotify?
  MaxNesting,    \* bound: nested calls of queueLockPort
  MaxIO,         \* bound: requests of other clients waiting
  MaxRefused     \* bound: requests refused

Threads == QueueLockers \cup Lockers

ASSUME QueueLockAssumption ==
  /\ QueueLockers \cap Lockers = {}
  /\ PortThread \notin Threads /\ NoThread \notin Threads \cup {PortThread}
  /\ IO \notin Threads \cup {PortThread, NoThread}
  /\ NotifiedQueueLocks \in BOOLEAN
  /\ MaxNesting \in Nat \ {0} /\ MaxIO \in Nat /\ MaxRefused \in Nat

VARIABLES
  notifies,    \* does the driver register asynLockPortNotify?
  pc,          \* where each calling thread is
  count,       \* queueLockPortCount of each thread
  mutex,       \* the owner of each thread's queueLockPortMutex
  event,       \* each thread's queueLockPortEvent
  queue,       \* the queued requests: a thread for its queueLockPort
  ptPc, ptReq, \* the port thread and the request it serves
  sync,        \* the owner of the port's synchronousLock
  lower,       \* the owner of the lower port's synchronousLock
  depth,       \* and how often its owner has taken it: epicsMutex is recursive
  refused

vars == <<pc, count, mutex, event, queue, ptPc, ptReq, sync, lower, depth, refused,
          notifies>>

Init ==
  /\ pc = [t \in Threads |-> "idle"]
  /\ count = [t \in QueueLockers |-> 0]
  /\ mutex = [t \in QueueLockers |-> NoThread]
  /\ event = [t \in QueueLockers |-> FALSE]
  /\ queue = <<>>
  /\ ptPc = "idle" /\ ptReq = NoThread
  /\ sync = NoThread /\ lower = NoThread /\ depth = 0
  /\ refused = 0 /\ notifies \in BOOLEAN

----------------------------------------------------------------------------
(* asynLockPortNotify as the drivers implement it: lockPort of the port     *)
(* below, whose synchronousLock is a recursive mutex.                       *)

NotifyLock(t) ==
  IF notifies
  THEN /\ lower \in {NoThread, t}
       /\ lower' = t /\ depth' = depth + 1
  ELSE UNCHANGED <<lower, depth>>

\* Releasing a mutex that another thread holds has no effect.
NotifyUnlock(t) ==
  IF notifies /\ lower = t
  THEN /\ depth' = depth - 1
       /\ lower' = IF depth = 1 THEN NoThread ELSE t
  ELSE UNCHANGED <<lower, depth>>

----------------------------------------------------------------------------
(* queueLockPort and queueUnlockPort.                                       *)

\* The first call of a thread takes the thread's own mutex.
QueueLockPort(t) ==
  /\ pc[t] = "idle" /\ mutex[t] = NoThread
  /\ notifies => NotifiedQueueLocks
  /\ mutex' = [mutex EXCEPT ![t] = t]
  /\ pc' = [pc EXCEPT ![t] = "queueRequest"]
  /\ UNCHANGED <<count, event, queue, ptPc, ptReq, sync, lower, depth, refused, notifies>>

QueueRequestOfLock(t) ==
  /\ pc[t] = "queueRequest"
  /\ queue' = Append(queue, t)
  /\ pc' = [pc EXCEPT ![t] = "waitBegin"]
  /\ UNCHANGED <<count, mutex, event, ptPc, ptReq, sync, lower, depth, refused, notifies>>

\* The port is disabled or disconnected.
QueueLockRefused(t) ==
  /\ pc[t] = "queueRequest" /\ refused < MaxRefused
  /\ mutex' = [mutex EXCEPT ![t] = NoThread]
  /\ pc' = [pc EXCEPT ![t] = "idle"]
  /\ refused' = refused + 1
  /\ UNCHANGED <<count, event, queue, ptPc, ptReq, sync, lower, depth, notifies>>

\* The port thread has signalled that it runs the callback.
QueueLockBegin(t) ==
  /\ pc[t] = "waitBegin" /\ event[t]
  /\ event' = [event EXCEPT ![t] = FALSE]
  /\ count' = [count EXCEPT ![t] = @ + 1]
  /\ pc' = [pc EXCEPT ![t] = "notify"]
  /\ UNCHANGED <<mutex, queue, ptPc, ptReq, sync, lower, depth, refused, notifies>>

QueueLockNotify(t) ==
  /\ pc[t] = "notify" /\ t \in QueueLockers
  /\ NotifyLock(t)
  /\ pc' = [pc EXCEPT ![t] = "locked"]
  /\ UNCHANGED <<count, mutex, event, queue, ptPc, ptReq, sync, refused, notifies>>

\* A nested call only counts.
QueueLockNested(t) ==
  /\ pc[t] = "locked" /\ count[t] < MaxNesting
  /\ count' = [count EXCEPT ![t] = @ + 1]
  /\ UNCHANGED <<pc, mutex, event, queue, ptPc, ptReq, sync, lower, depth, refused, notifies>>

\* The lower port is unlocked by every call, then a nested call only counts.
QueueUnlockNested(t) ==
  /\ pc[t] = "locked" /\ count[t] > 1
  /\ NotifyUnlock(t)
  /\ count' = [count EXCEPT ![t] = @ - 1]
  /\ UNCHANGED <<pc, mutex, event, queue, ptPc, ptReq, sync, refused, notifies>>

\* (mutant) The last unlock leaves the mutex locked.
UnlockKeepsMutex(t) ==
  /\ pc[t] = "locked" /\ count[t] = 1
  /\ NotifyUnlock(t)
  /\ pc' = [pc EXCEPT ![t] = "waitEnd"]
  /\ UNCHANGED <<count, mutex, event, queue, ptPc, ptReq, sync, refused, notifies>>

\* The last unlock lets the callback that parks the port thread go on.
QueueUnlockPort(t) ==
  /\ pc[t] = "locked" /\ count[t] = 1
  /\ NotifyUnlock(t)
  /\ mutex' = [mutex EXCEPT ![t] = NoThread]
  /\ pc' = [pc EXCEPT ![t] = "waitEnd"]
  /\ UNCHANGED <<count, event, queue, ptPc, ptReq, sync, refused, notifies>>

QueueUnlockEnd(t) ==
  /\ pc[t] = "waitEnd" /\ event[t]
  /\ event' = [event EXCEPT ![t] = FALSE]
  /\ count' = [count EXCEPT ![t] = @ - 1]
  /\ pc' = [pc EXCEPT ![t] = "idle"]
  /\ UNCHANGED <<mutex, queue, ptPc, ptReq, sync, lower, depth, refused, notifies>>

----------------------------------------------------------------------------
(* lockPort and unlockPort.                                                 *)

LockPort(t) ==
  /\ pc[t] = "idle" /\ sync = NoThread
  /\ sync' = t
  /\ pc' = [pc EXCEPT ![t] = "notify"]
  /\ UNCHANGED <<count, mutex, event, queue, ptPc, ptReq, lower, depth, refused, notifies>>

LockPortNotify(t) ==
  /\ pc[t] = "notify" /\ t \in Lockers
  /\ NotifyLock(t)
  /\ pc' = [pc EXCEPT ![t] = "locked"]
  /\ UNCHANGED <<count, mutex, event, queue, ptPc, ptReq, sync, refused, notifies>>

UnlockPort(t) ==
  /\ pc[t] = "locked"
  /\ NotifyUnlock(t)
  /\ sync' = NoThread
  /\ pc' = [pc EXCEPT ![t] = "idle"]
  /\ UNCHANGED <<count, mutex, event, queue, ptPc, ptReq, refused, notifies>>

----------------------------------------------------------------------------
(* The port thread.                                                         *)

QueueIO ==
  /\ Len(SelectSeq(queue, LAMBDA r : r = IO)) < MaxIO
  /\ queue' = Append(queue, IO)
  /\ UNCHANGED <<pc, count, mutex, event, ptPc, ptReq, sync, lower, depth, refused, notifies>>

PortTake ==
  /\ ptPc = "idle" /\ queue # <<>>
  /\ queue' = Tail(queue)
  /\ ptReq' = Head(queue) /\ ptPc' = "sync"
  /\ UNCHANGED <<pc, count, mutex, event, sync, lower, depth, refused, notifies>>

\* (mutant) The port thread does not lock the port around the callback.
PortNoSync ==
  /\ ptPc = "sync"
  /\ ptPc' = "notify"
  /\ UNCHANGED <<pc, count, mutex, event, queue, ptReq, sync, lower, depth, refused, notifies>>

PortSync ==
  /\ ptPc = "sync" /\ sync = NoThread
  /\ sync' = PortThread /\ ptPc' = "notify"
  /\ UNCHANGED <<pc, count, mutex, event, queue, ptReq, lower, depth, refused, notifies>>

PortNotify ==
  /\ ptPc = "notify"
  /\ NotifyLock(PortThread)
  /\ ptPc' = "callback"
  /\ UNCHANGED <<pc, count, mutex, event, queue, ptReq, sync, refused, notifies>>

\* The callback of an ordinary request does its input and output.
PortIO ==
  /\ ptPc = "callback" /\ ptReq = IO
  /\ ptPc' = "unnotify"
  /\ UNCHANGED <<pc, count, mutex, event, queue, ptReq, sync, lower, depth, refused, notifies>>

\* queueLockPortCallback: signal, wait for the mutex, release it and signal.
QueueLockPortCallback ==
  /\ ptPc = "callback" /\ ptReq \in QueueLockers
  /\ event' = [event EXCEPT ![ptReq] = TRUE]
  /\ ptPc' = "mutex"
  /\ UNCHANGED <<pc, count, mutex, queue, ptReq, sync, lower, depth, refused, notifies>>

CallbackMutex ==
  /\ ptPc = "mutex" /\ mutex[ptReq] = NoThread
  /\ mutex' = [mutex EXCEPT ![ptReq] = PortThread]
  /\ ptPc' = "release"
  /\ UNCHANGED <<pc, count, event, queue, ptReq, sync, lower, depth, refused, notifies>>

CallbackRelease ==
  /\ ptPc = "release"
  /\ mutex' = [mutex EXCEPT ![ptReq] = NoThread]
  /\ ptPc' = "signal"
  /\ UNCHANGED <<pc, count, event, queue, ptReq, sync, lower, depth, refused, notifies>>

CallbackSignal ==
  /\ ptPc = "signal"
  /\ event' = [event EXCEPT ![ptReq] = TRUE]
  /\ ptPc' = "unnotify"
  /\ UNCHANGED <<pc, count, mutex, queue, ptReq, sync, lower, depth, refused, notifies>>

PortUnnotify ==
  /\ ptPc = "unnotify"
  /\ NotifyUnlock(PortThread)
  /\ ptPc' = "unsync"
  /\ UNCHANGED <<pc, count, mutex, event, queue, ptReq, sync, refused, notifies>>

\* (mutant) The port thread leaves the port locked.
PortKeepsSync ==
  /\ ptPc = "unsync"
  /\ ptPc' = "idle" /\ ptReq' = NoThread
  /\ UNCHANGED <<pc, count, mutex, event, queue, sync, lower, depth, refused, notifies>>

PortUnsync ==
  /\ ptPc = "unsync"
  /\ sync' = NoThread
  /\ ptPc' = "idle" /\ ptReq' = NoThread
  /\ UNCHANGED <<pc, count, mutex, event, queue, lower, depth, refused, notifies>>

QueueLockerNext(t) ==
  \/ QueueLockPort(t) \/ QueueRequestOfLock(t) \/ QueueLockRefused(t)
  \/ QueueLockBegin(t) \/ QueueLockNotify(t) \/ QueueLockNested(t)
  \/ QueueUnlockNested(t) \/ QueueUnlockPort(t) \/ QueueUnlockEnd(t)

LockerNext(t) == LockPort(t) \/ LockPortNotify(t) \/ UnlockPort(t)

PortNext ==
  \/ PortTake \/ PortSync \/ PortNotify \/ PortIO \/ QueueLockPortCallback
  \/ CallbackMutex \/ CallbackRelease \/ CallbackSignal \/ PortUnnotify \/ PortUnsync

Next == \/ \E t \in QueueLockers : QueueLockerNext(t)
        \/ \E t \in Lockers : LockerNext(t)
        \/ QueueIO \/ PortNext

Spec == Init /\ [][Next]_vars

\* A thread in one of the calls goes on, and who has locked the port unlocks
\* it as often as it locked it.  Taking a mutex that is again and again free
\* succeeds in the end.
FairSpec ==
  /\ Spec
  /\ WF_vars(PortNext) /\ SF_vars(PortSync)
  /\ \A t \in QueueLockers :
       /\ WF_vars(QueueRequestOfLock(t) \/ QueueLockBegin(t) \/ QueueUnlockEnd(t))
       /\ WF_vars(QueueLockNotify(t))
       /\ WF_vars(QueueUnlockNested(t)) /\ SF_vars(QueueUnlockPort(t))
  /\ \A t \in Lockers : WF_vars(LockPortNotify(t)) /\ WF_vars(UnlockPort(t))

----------------------------------------------------------------------------
(* Properties.                                                              *)

\* The type of every variable.
TypeOK ==
  /\ pc \in [Threads -> {"idle", "queueRequest", "waitBegin", "notify", "locked", "waitEnd"}]
  /\ count \in [QueueLockers -> Nat]
  /\ mutex \in [QueueLockers -> QueueLockers \cup {PortThread, NoThread}]
  /\ event \in [QueueLockers -> BOOLEAN]
  /\ queue \in Seq(QueueLockers \cup {IO})
  /\ ptPc \in {"idle", "sync", "notify", "callback", "mutex", "release", "signal",
               "unnotify", "unsync"}
  /\ ptReq \in QueueLockers \cup {IO, NoThread}
  /\ sync \in Lockers \cup {PortThread, NoThread}
  /\ lower \in Threads \cup {PortThread, NoThread}
  /\ depth \in Nat /\ refused \in Nat /\ notifies \in BOOLEAN

\* The threads that may access the driver of the port at this moment.
PortUsers == {t \in Threads : pc[t] = "locked"}
             \cup (IF ptPc = "callback" /\ ptReq = IO THEN {PortThread} ELSE {})

\* queueLockPort and lockPort give exclusive access to the port: against each
\* other and against every queued request.
Exclusive == \A s, t \in PortUsers : s = t

\* The one event of a thread serves as begin and as end signal: it is set only
\* while the thread waits, and it means what the thread waits for.
EventMeansWhatIsAwaited ==
  \A t \in QueueLockers : event[t] =>
    \/ pc[t] = "waitBegin" /\ ptReq = t /\ ptPc = "mutex" /\ mutex[t] = t
    \/ pc[t] = "waitEnd" /\ ~(ptReq = t /\ ptPc \in {"mutex", "release", "signal"})

\* While the port is in use, the port below it is locked by the user or by the
\* port thread on its behalf.
LowerLocked == notifies => \A t \in PortUsers : lower \in {t, PortThread}

\* A queued queueLockPort is granted, and the thread gets to use the port.
QueueLockGranted == \A t \in QueueLockers : pc[t] = "waitBegin" ~> pc[t] = "locked"

\* The requests of other clients are not locked out.
IOServed == (\E i \in DOMAIN queue : queue[i] = IO) ~> (ptPc = "callback" /\ ptReq = IO)
=============================================================================
