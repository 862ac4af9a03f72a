-------------------------- MODULE AsynManagerProofs --------------------------
(***************************************************************************)
(* Proofs about three parts of asynManager, each by itself and for any     *)
(* number of threads: the lock of a blocking port (AsynQueueLock) and the  *)
(* two lists that are walked without the lock of asynManager, the          *)
(* interrupt users (AsynInterrupt, whose specification is IntSpec) and the *)
(* exception callbacks (AsynException, whose specification is ExcSpec).    *)
(*                                                                         *)
(* The port is used by one at a time, and the event of a thread in         *)
(* queueLockPort means one thing.  The lists are consistent whatever the   *)
(* threads do; that a walk is safe and nobody is forgotten takes one       *)
(* walker, but for the waiters of the exception list, who are never        *)
(* forgotten.                                                              *)
(***************************************************************************)
EXTENDS AsynQueueLock, AsynInterrupt, AsynException, ListLemmas, TLAPS

----------------------------------------------------------------------------
(* The lock of a blocking port.                                             *)

InQueue(t) == \E i \in DOMAIN queue : queue[i] = t
Once(t) == \A i, j \in DOMAIN queue : queue[i] = t /\ queue[j] = t => i = j

\* The port thread has nothing more to do with thread t than to unlock.
PortLeft(t) == ptReq = t => ptPc \in {"unnotify", "unsync"}

\* How far a thread in queueLockPort or queueUnlockPort is, and how far the
\* port thread is with the request of that thread.
Idle(t)     == mutex[t] = NoThread /\ ~InQueue(t) /\ ~event[t] /\ PortLeft(t)
Asking(t)   == mutex[t] = t /\ ~InQueue(t) /\ ~event[t] /\ PortLeft(t)
Queued(t)   == mutex[t] = t /\ InQueue(t) /\ ~event[t] /\ PortLeft(t)
Taken(t)    == /\ mutex[t] = t /\ ~InQueue(t) /\ ~event[t] /\ ptReq = t
               /\ ptPc \in {"sync", "notify", "callback"}
Parked(t)   == mutex[t] = t /\ ~InQueue(t) /\ ptReq = t /\ ptPc = "mutex"
Leaving(t)  == /\ ~InQueue(t) /\ ~event[t] /\ ptReq = t
               /\ \/ ptPc \in {"mutex", "signal"} /\ mutex[t] = NoThread
                  \/ ptPc = "release" /\ mutex[t] = PortThread
Left(t)     == mutex[t] = NoThread /\ ~InQueue(t) /\ event[t] /\ PortLeft(t)

QueueLockerInv(t) ==
  /\ pc[t] = "idle" => Idle(t)
  /\ pc[t] = "queueRequest" => Asking(t)
  /\ pc[t] = "waitBegin" => Queued(t) \/ Taken(t) \/ (Parked(t) /\ event[t])
  /\ pc[t] \in {"notify", "locked"} => Parked(t) /\ ~event[t] /\ count[t] > 0
  /\ pc[t] = "waitEnd" => (Leaving(t) \/ Left(t)) /\ count[t] > 0
  /\ Once(t)

LockerInv(t) == /\ pc[t] \in {"idle", "notify", "locked"}
                /\ pc[t] # "idle" <=> sync = t

PortInv == /\ sync = PortThread <=> ptPc \notin {"idle", "sync"}
           /\ ptPc \in {"mutex", "release", "signal"} => ptReq \in QueueLockers
           /\ ptPc # "idle" => ptReq # NoThread
           /\ ptPc = "idle" => ptReq = NoThread
           /\ lower # NoThread => depth > 0

\* The lower port belongs to the user of the port.  The port thread, parked with
\* it, never lets a thread get as far as using the port after queueLockPort.
LowerInv == notifies =>
  /\ depth = IF lower = NoThread THEN 0 ELSE 1
  /\ lower = PortThread <=>
       ptPc \in {"callback", "mutex", "release", "signal", "unnotify"}
  /\ \A t \in Lockers : lower = t <=> pc[t] = "locked"
  /\ \A t \in QueueLockers : lower # t /\ pc[t] \notin {"locked", "waitEnd"}

\* The inductive invariant.
IInv == /\ TypeOK /\ PortInv /\ LowerInv
        /\ \A t \in QueueLockers : QueueLockerInv(t)
        /\ \A t \in Lockers : LockerInv(t)

\* What Append and Tail do to the requests of a thread in the queue.
LEMMA AppendInQueue ==
  ASSUME queue \in Seq(QueueLockers \cup {IO}), NEW r, queue' = Append(queue, r),
         r \in QueueLockers \cup {IO}, NEW t
  PROVE  /\ InQueue(t)' <=> InQueue(t) \/ r = t
         /\ Once(t) /\ (r = t => ~InQueue(t)) => Once(t)'
<1>1. /\ Len(queue') = Len(queue) + 1 /\ DOMAIN queue' = 1..Len(queue) + 1
      /\ \A i \in DOMAIN queue : queue'[i] = queue[i]
      /\ queue'[Len(queue) + 1] = r
      /\ Len(queue) \in Nat /\ DOMAIN queue = 1..Len(queue)
  OBVIOUS
<1> QED BY <1>1 DEF InQueue, Once

LEMMA TailInQueue ==
  ASSUME queue \in Seq(QueueLockers \cup {IO}), queue # <<>>,
         queue' = Tail(queue), NEW t
  PROVE  /\ InQueue(t)' => InQueue(t)
         /\ InQueue(t) => InQueue(t)' \/ Head(queue) = t
         /\ Once(t) => Once(t)'
         /\ Once(t) /\ Head(queue) = t => ~InQueue(t)'
<1>1. /\ Len(queue) \in Nat /\ Len(queue) > 0 /\ DOMAIN queue = 1..Len(queue)
      /\ DOMAIN queue' = 1..Len(queue) - 1
      /\ \A i \in DOMAIN queue' : queue'[i] = queue[i + 1]
      /\ Head(queue) = queue[1]
  OBVIOUS
<1>2. \A i \in DOMAIN queue : i # 1 => i - 1 \in DOMAIN queue' /\ queue'[i - 1] = queue[i]
  BY <1>1
<1>3. InQueue(t)' => InQueue(t)
  <2> SUFFICES ASSUME NEW i \in DOMAIN queue', queue'[i] = t PROVE InQueue(t)
    BY DEF InQueue
  <2> i + 1 \in DOMAIN queue /\ queue[i + 1] = t
    BY <1>1
  <2> QED BY DEF InQueue
<1>4. InQueue(t) => InQueue(t)' \/ Head(queue) = t
  BY <1>1, <1>2 DEF InQueue
<1>5. Once(t) => Once(t)'
  <2> SUFFICES ASSUME Once(t), NEW i \in DOMAIN queue', NEW j \in DOMAIN queue',
                      queue'[i] = t, queue'[j] = t
               PROVE  i = j
    BY DEF Once
  <2> /\ i + 1 \in DOMAIN queue /\ queue[i + 1] = t
      /\ j + 1 \in DOMAIN queue /\ queue[j + 1] = t
    BY <1>1
  <2> i + 1 = j + 1
    BY DEF Once
  <2> QED BY <1>1
<1>6. Once(t) /\ Head(queue) = t => ~InQueue(t)'
  <2> SUFFICES ASSUME Once(t), Head(queue) = t, NEW i \in DOMAIN queue', queue'[i] = t
               PROVE  FALSE
    BY DEF InQueue
  <2> /\ i + 1 \in DOMAIN queue /\ queue[i + 1] = t
      /\ 1 \in DOMAIN queue /\ queue[1] = t /\ i + 1 # 1
    BY <1>1
  <2> QED BY DEF Once
<1> QED BY <1>3, <1>4, <1>5, <1>6

\* Type correctness and the inductive invariant: initially.
LEMMA InitIInv == Init => IInv
BY QueueLockAssumption DEF Init, IInv, TypeOK, PortInv, LowerInv, QueueLockerInv, LockerInv,
   Idle, PortLeft, InQueue, Once, Threads

\* Every step of a thread in queueLockPort or queueUnlockPort preserves it.
LEMMA QueueLockerStep ==
  ASSUME IInv, NEW s \in QueueLockers, QueueLockerNext(s)
  PROVE  IInv'
<1>1. CASE QueueLockPort(s)
  <2>1. TypeOK'
    BY <1>1, QueueLockAssumption DEF QueueLockPort, IInv, TypeOK, PortInv,
       QueueLockerInv, LockerInv, Threads
  <2>2. PortInv'
    BY <1>1, QueueLockAssumption DEF QueueLockPort, IInv, TypeOK, PortInv,
       QueueLockerInv, LockerInv, Threads, Idle, Asking, Queued, Taken, Parked,
       Leaving, Left, PortLeft
  <2>3. ASSUME NEW t \in QueueLockers PROVE QueueLockerInv(t)'
    BY <1>1, QueueLockAssumption DEF QueueLockPort, IInv, TypeOK, PortInv,
       QueueLockerInv, LockerInv, Threads, InQueue, Once, Idle, Asking, Queued,
       Taken, Parked, Leaving, Left, PortLeft
  <2>4. ASSUME NEW t \in Lockers PROVE LockerInv(t)'
    BY <1>1, QueueLockAssumption DEF QueueLockPort, IInv, TypeOK, PortInv,
       LockerInv, Threads
  <2>5. LowerInv'
    BY <1>1, QueueLockAssumption DEF QueueLockPort, IInv, TypeOK, PortInv,
       LowerInv, QueueLockerInv, LockerInv, Threads, Idle, Asking, Parked,
       PortLeft
  <2> QED BY <2>1, <2>2, <2>3, <2>4, <2>5 DEF IInv
<1>2. CASE QueueRequestOfLock(s)
  <2>1. TypeOK'
    BY <1>2, QueueLockAssumption DEF QueueRequestOfLock, IInv, TypeOK, PortInv,
       QueueLockerInv, LockerInv, Threads
  <2>2. PortInv'
    BY <1>2, QueueLockAssumption DEF QueueRequestOfLock, IInv, TypeOK, PortInv,
       QueueLockerInv, LockerInv, Threads, Idle, Asking, Queued, Taken, Parked,
       Leaving, Left, PortLeft
  <2>3. ASSUME NEW t \in QueueLockers PROVE QueueLockerInv(t)'
    BY <1>2, QueueLockAssumption, AppendInQueue DEF QueueRequestOfLock, IInv,
       TypeOK, PortInv, QueueLockerInv, LockerInv, Threads, Idle, Asking, Queued,
       Taken, Parked, Leaving, Left, PortLeft
  <2>4. ASSUME NEW t \in Lockers PROVE LockerInv(t)'
    BY <1>2, QueueLockAssumption DEF QueueRequestOfLock, IInv, TypeOK, PortInv,
       LockerInv, Threads
  <2>5. LowerInv'
    BY <1>2, QueueLockAssumption DEF QueueRequestOfLock, IInv, TypeOK, PortInv,
       LowerInv, QueueLockerInv, LockerInv, Threads, Idle, Asking, Parked,
       PortLeft
  <2> QED BY <2>1, <2>2, <2>3, <2>4, <2>5 DEF IInv
<1>3. CASE QueueLockRefused(s)
  <2>1. TypeOK'
    BY <1>3, QueueLockAssumption DEF QueueLockRefused, IInv, TypeOK, PortInv,
       QueueLockerInv, LockerInv, Threads
  <2>2. PortInv'
    BY <1>3, QueueLockAssumption DEF QueueLockRefused, IInv, TypeOK, PortInv,
       QueueLockerInv, LockerInv, Threads, Idle, Asking, Queued, Taken, Parked,
       Leaving, Left, PortLeft
  <2>3. ASSUME NEW t \in QueueLockers PROVE QueueLockerInv(t)'
    BY <1>3, QueueLockAssumption DEF QueueLockRefused, IInv, TypeOK, PortInv,
       QueueLockerInv, LockerInv, Threads, InQueue, Once, Idle, Asking, Queued,
       Taken, Parked, Leaving, Left, PortLeft
  <2>4. ASSUME NEW t \in Lockers PROVE LockerInv(t)'
    BY <1>3, QueueLockAssumption DEF QueueLockRefused, IInv, TypeOK, PortInv,
       LockerInv, Threads
  <2>5. LowerInv'
    BY <1>3, QueueLockAssumption DEF QueueLockRefused, IInv, TypeOK, PortInv,
       LowerInv, QueueLockerInv, LockerInv, Threads, Idle, Asking, Parked,
       PortLeft
  <2> QED BY <2>1, <2>2, <2>3, <2>4, <2>5 DEF IInv
<1>4. CASE QueueLockBegin(s)
  <2>1. TypeOK'
    BY <1>4, QueueLockAssumption DEF QueueLockBegin, IInv, TypeOK, PortInv,
       QueueLockerInv, LockerInv, Threads
  <2>2. PortInv'
    BY <1>4, QueueLockAssumption DEF QueueLockBegin, IInv, TypeOK, PortInv,
       QueueLockerInv, LockerInv, Threads, Idle, Asking, Queued, Taken, Parked,
       Leaving, Left, PortLeft
  <2>3. ASSUME NEW t \in QueueLockers PROVE QueueLockerInv(t)'
    BY <1>4, QueueLockAssumption DEF QueueLockBegin, IInv, TypeOK, PortInv,
       QueueLockerInv, LockerInv, Threads, InQueue, Once, Idle, Asking, Queued,
       Taken, Parked, Leaving, Left, PortLeft
  <2>4. ASSUME NEW t \in Lockers PROVE LockerInv(t)'
    BY <1>4, QueueLockAssumption DEF QueueLockBegin, IInv, TypeOK, PortInv,
       LockerInv, Threads
  <2>5. LowerInv'
    BY <1>4, QueueLockAssumption DEF QueueLockBegin, IInv, TypeOK, PortInv,
       LowerInv, QueueLockerInv, LockerInv, Threads, Idle, Asking, Parked,
       PortLeft
  <2> QED BY <2>1, <2>2, <2>3, <2>4, <2>5 DEF IInv
<1>5. CASE QueueLockNotify(s)
  <2>1. TypeOK'
    BY <1>5, QueueLockAssumption DEF QueueLockNotify, NotifyLock, IInv, TypeOK,
       PortInv, QueueLockerInv, LockerInv, Threads
  <2>2. PortInv'
    BY <1>5, QueueLockAssumption DEF QueueLockNotify, NotifyLock, IInv, TypeOK,
       PortInv, QueueLockerInv, LockerInv, Threads, Idle, Asking, Queued, Taken,
       Parked, Leaving, Left, PortLeft
  <2>3. ASSUME NEW t \in QueueLockers PROVE QueueLockerInv(t)'
    BY <1>5, QueueLockAssumption DEF QueueLockNotify, NotifyLock, IInv, TypeOK,
       PortInv, QueueLockerInv, LockerInv, Threads, InQueue, Once, Idle, Asking,
       Queued, Taken, Parked, Leaving, Left, PortLeft
  <2>4. ASSUME NEW t \in Lockers PROVE LockerInv(t)'
    BY <1>5, QueueLockAssumption DEF QueueLockNotify, NotifyLock, IInv, TypeOK,
       PortInv, LockerInv, Threads
  <2>5. LowerInv'
    BY <1>5, QueueLockAssumption DEF QueueLockNotify, NotifyLock, IInv, TypeOK,
       PortInv, LowerInv, QueueLockerInv, LockerInv, Threads, Idle, Asking,
       Parked, PortLeft
  <2> QED BY <2>1, <2>2, <2>3, <2>4, <2>5 DEF IInv
<1>6. CASE QueueLockNested(s)
  <2>1. TypeOK'
    BY <1>6, QueueLockAssumption DEF QueueLockNested, IInv, TypeOK, PortInv,
       QueueLockerInv, LockerInv, Threads
  <2>2. PortInv'
    BY <1>6, QueueLockAssumption DEF QueueLockNested, IInv, TypeOK, PortInv,
       QueueLockerInv, LockerInv, Threads, Idle, Asking, Queued, Taken, Parked,
       Leaving, Left, PortLeft
  <2>3. ASSUME NEW t \in QueueLockers PROVE QueueLockerInv(t)'
    BY <1>6, QueueLockAssumption DEF QueueLockNested, IInv, TypeOK, PortInv,
       QueueLockerInv, LockerInv, Threads, InQueue, Once, Idle, Asking, Queued,
       Taken, Parked, Leaving, Left, PortLeft
  <2>4. ASSUME NEW t \in Lockers PROVE LockerInv(t)'
    BY <1>6, QueueLockAssumption DEF QueueLockNested, IInv, TypeOK, PortInv,
       LockerInv, Threads
  <2>5. LowerInv'
    BY <1>6, QueueLockAssumption DEF QueueLockNested, IInv, TypeOK, PortInv,
       LowerInv, QueueLockerInv, LockerInv, Threads, Idle, Asking, Parked,
       PortLeft
  <2> QED BY <2>1, <2>2, <2>3, <2>4, <2>5 DEF IInv
<1>7. CASE QueueUnlockNested(s)
  <2>1. TypeOK'
    BY <1>7, QueueLockAssumption DEF QueueUnlockNested, NotifyUnlock, IInv,
       TypeOK, PortInv, QueueLockerInv, LockerInv, Threads
  <2>2. PortInv'
    BY <1>7, QueueLockAssumption DEF QueueUnlockNested, NotifyUnlock, IInv,
       TypeOK, PortInv, QueueLockerInv, LockerInv, Threads, Idle, Asking, Queued,
       Taken, Parked, Leaving, Left, PortLeft
  <2>3. ASSUME NEW t \in QueueLockers PROVE QueueLockerInv(t)'
    BY <1>7, QueueLockAssumption DEF QueueUnlockNested, NotifyUnlock, IInv,
       TypeOK, PortInv, QueueLockerInv, LockerInv, Threads, InQueue, Once, Idle,
       Asking, Queued, Taken, Parked, Leaving, Left, PortLeft
  <2>4. ASSUME NEW t \in Lockers PROVE LockerInv(t)'
    BY <1>7, QueueLockAssumption DEF QueueUnlockNested, NotifyUnlock, IInv,
       TypeOK, PortInv, LockerInv, Threads
  <2>5. LowerInv'
    BY <1>7, QueueLockAssumption DEF QueueUnlockNested, NotifyUnlock, IInv,
       TypeOK, PortInv, LowerInv, QueueLockerInv, LockerInv, Threads, Idle,
       Asking, Parked, PortLeft
  <2> QED BY <2>1, <2>2, <2>3, <2>4, <2>5 DEF IInv
<1>8. CASE QueueUnlockPort(s)
  <2>1. TypeOK'
    BY <1>8, QueueLockAssumption DEF QueueUnlockPort, NotifyUnlock, IInv, TypeOK,
       PortInv, QueueLockerInv, LockerInv, Threads
  <2>2. PortInv'
    BY <1>8, QueueLockAssumption DEF QueueUnlockPort, NotifyUnlock, IInv, TypeOK,
       PortInv, QueueLockerInv, LockerInv, Threads, Idle, Asking, Queued, Taken,
       Parked, Leaving, Left, PortLeft
  <2>3. ASSUME NEW t \in QueueLockers PROVE QueueLockerInv(t)'
    BY <1>8, QueueLockAssumption DEF QueueUnlockPort, NotifyUnlock, IInv, TypeOK,
       PortInv, QueueLockerInv, LockerInv, Threads, InQueue, Once, Idle, Asking,
       Queued, Taken, Parked, Leaving, Left, PortLeft
  <2>4. ASSUME NEW t \in Lockers PROVE LockerInv(t)'
    BY <1>8, QueueLockAssumption DEF QueueUnlockPort, NotifyUnlock, IInv, TypeOK,
       PortInv, LockerInv, Threads
  <2>5. LowerInv'
    BY <1>8, QueueLockAssumption DEF QueueUnlockPort, NotifyUnlock, IInv, TypeOK,
       PortInv, LowerInv, QueueLockerInv, LockerInv, Threads, Idle, Asking,
       Parked, PortLeft
  <2> QED BY <2>1, <2>2, <2>3, <2>4, <2>5 DEF IInv
<1>9. CASE QueueUnlockEnd(s)
  <2>1. TypeOK'
    BY <1>9, QueueLockAssumption DEF QueueUnlockEnd, IInv, TypeOK, PortInv,
       QueueLockerInv, LockerInv, Threads
  <2>2. PortInv'
    BY <1>9, QueueLockAssumption DEF QueueUnlockEnd, IInv, TypeOK, PortInv,
       QueueLockerInv, LockerInv, Threads, Idle, Asking, Queued, Taken, Parked,
       Leaving, Left, PortLeft
  <2>3. ASSUME NEW t \in QueueLockers PROVE QueueLockerInv(t)'
    BY <1>9, QueueLockAssumption DEF QueueUnlockEnd, IInv, TypeOK, PortInv,
       QueueLockerInv, LockerInv, Threads, InQueue, Once, Idle, Asking, Queued,
       Taken, Parked, Leaving, Left, PortLeft
  <2>4. ASSUME NEW t \in Lockers PROVE LockerInv(t)'
    BY <1>9, QueueLockAssumption DEF QueueUnlockEnd, IInv, TypeOK, PortInv,
       LockerInv, Threads
  <2>5. LowerInv'
    BY <1>9, QueueLockAssumption DEF QueueUnlockEnd, IInv, TypeOK, PortInv,
       LowerInv, QueueLockerInv, LockerInv, Threads, Idle, Asking, Parked,
       PortLeft
  <2> QED BY <2>1, <2>2, <2>3, <2>4, <2>5 DEF IInv
<1> QED BY <1>1, <1>2, <1>3, <1>4, <1>5, <1>6, <1>7, <1>8, <1>9 DEF QueueLockerNext

\* So does every step of a thread in lockPort or unlockPort.
LEMMA LockerStep ==
  ASSUME IInv, NEW s \in Lockers, LockerNext(s)
  PROVE  IInv'
<1>1. CASE LockPort(s)
  <2>1. TypeOK'
    BY <1>1, QueueLockAssumption DEF LockPort, IInv, TypeOK, PortInv,
       QueueLockerInv, LockerInv, Threads
  <2>2. PortInv'
    BY <1>1, QueueLockAssumption DEF LockPort, IInv, TypeOK, PortInv,
       QueueLockerInv, LockerInv, Threads, Idle, Asking, Queued, Taken, Parked,
       Leaving, Left, PortLeft
  <2>3. ASSUME NEW t \in QueueLockers PROVE QueueLockerInv(t)'
    BY <1>1, QueueLockAssumption DEF LockPort, IInv, TypeOK, PortInv,
       QueueLockerInv, LockerInv, Threads, InQueue, Once, Idle, Asking, Queued,
       Taken, Parked, Leaving, Left, PortLeft
  <2>4. ASSUME NEW t \in Lockers PROVE LockerInv(t)'
    BY <1>1, QueueLockAssumption DEF LockPort, IInv, TypeOK, PortInv, LockerInv,
       Threads
  <2>5. LowerInv'
    BY <1>1, QueueLockAssumption DEF LockPort, IInv, TypeOK, PortInv, LowerInv,
       QueueLockerInv, LockerInv, Threads, Idle, Asking, Parked, PortLeft
  <2> QED BY <2>1, <2>2, <2>3, <2>4, <2>5 DEF IInv
<1>2. CASE LockPortNotify(s)
  <2>1. TypeOK'
    BY <1>2, QueueLockAssumption DEF LockPortNotify, NotifyLock, IInv, TypeOK,
       PortInv, QueueLockerInv, LockerInv, Threads
  <2>2. PortInv'
    BY <1>2, QueueLockAssumption DEF LockPortNotify, NotifyLock, IInv, TypeOK,
       PortInv, QueueLockerInv, LockerInv, Threads, Idle, Asking, Queued, Taken,
       Parked, Leaving, Left, PortLeft
  <2>3. ASSUME NEW t \in QueueLockers PROVE QueueLockerInv(t)'
    BY <1>2, QueueLockAssumption DEF LockPortNotify, NotifyLock, IInv, TypeOK,
       PortInv, QueueLockerInv, LockerInv, Threads, InQueue, Once, Idle, Asking,
       Queued, Taken, Parked, Leaving, Left, PortLeft
  <2>4. ASSUME NEW t \in Lockers PROVE LockerInv(t)'
    BY <1>2, QueueLockAssumption DEF LockPortNotify, NotifyLock, IInv, TypeOK,
       PortInv, LockerInv, Threads
  <2>5. LowerInv'
    BY <1>2, QueueLockAssumption DEF LockPortNotify, NotifyLock, IInv, TypeOK,
       PortInv, LowerInv, QueueLockerInv, LockerInv, Threads, Idle, Asking,
       Parked, PortLeft
  <2> QED BY <2>1, <2>2, <2>3, <2>4, <2>5 DEF IInv
<1>3. CASE UnlockPort(s)
  <2>1. TypeOK'
    BY <1>3, QueueLockAssumption DEF UnlockPort, NotifyUnlock, IInv, TypeOK,
       PortInv, QueueLockerInv, LockerInv, Threads
  <2>2. PortInv'
    BY <1>3, QueueLockAssumption DEF UnlockPort, NotifyUnlock, IInv, TypeOK,
       PortInv, QueueLockerInv, LockerInv, Threads, Idle, Asking, Queued, Taken,
       Parked, Leaving, Left, PortLeft
  <2>3. ASSUME NEW t \in QueueLockers PROVE QueueLockerInv(t)'
    BY <1>3, QueueLockAssumption DEF UnlockPort, NotifyUnlock, IInv, TypeOK,
       PortInv, QueueLockerInv, LockerInv, Threads, InQueue, Once, Idle, Asking,
       Queued, Taken, Parked, Leaving, Left, PortLeft
  <2>4. ASSUME NEW t \in Lockers PROVE LockerInv(t)'
    BY <1>3, QueueLockAssumption DEF UnlockPort, NotifyUnlock, IInv, TypeOK,
       PortInv, LockerInv, Threads
  <2>5. LowerInv'
    BY <1>3, QueueLockAssumption DEF UnlockPort, NotifyUnlock, IInv, TypeOK,
       PortInv, LowerInv, QueueLockerInv, LockerInv, Threads, Idle, Asking,
       Parked, PortLeft
  <2> QED BY <2>1, <2>2, <2>3, <2>4, <2>5 DEF IInv
<1> QED BY <1>1, <1>2, <1>3 DEF LockerNext

\* So does every step of the port thread and every request of another client.
LEMMA PortStep ==
  ASSUME IInv, QueueIO \/ PortNext
  PROVE  IInv'
<1>1. CASE QueueIO
  <2>1. TypeOK'
    BY <1>1, QueueLockAssumption DEF QueueIO, IInv, TypeOK, PortInv,
       QueueLockerInv, LockerInv, Threads
  <2>2. PortInv'
    BY <1>1, QueueLockAssumption DEF QueueIO, IInv, TypeOK, PortInv,
       QueueLockerInv, LockerInv, Threads, Idle, Asking, Queued, Taken, Parked,
       Leaving, Left, PortLeft
  <2>3. ASSUME NEW t \in QueueLockers PROVE QueueLockerInv(t)'
    BY <1>1, QueueLockAssumption, AppendInQueue DEF QueueIO, IInv, TypeOK,
       PortInv, QueueLockerInv, LockerInv, Threads, Idle, Asking, Queued, Taken,
       Parked, Leaving, Left, PortLeft
  <2>4. ASSUME NEW t \in Lockers PROVE LockerInv(t)'
    BY <1>1, QueueLockAssumption DEF QueueIO, IInv, TypeOK, PortInv, LockerInv,
       Threads
  <2>5. LowerInv'
    BY <1>1, QueueLockAssumption DEF QueueIO, IInv, TypeOK, PortInv, LowerInv,
       QueueLockerInv, LockerInv, Threads, Idle, Asking, Parked, PortLeft
  <2> QED BY <2>1, <2>2, <2>3, <2>4, <2>5 DEF IInv
<1>2. CASE PortTake
  <2>1. TypeOK'
    BY <1>2, QueueLockAssumption DEF PortTake, IInv, TypeOK, PortInv,
       QueueLockerInv, LockerInv, Threads
  <2>2. PortInv'
    BY <1>2, QueueLockAssumption DEF PortTake, IInv, TypeOK, PortInv,
       QueueLockerInv, LockerInv, Threads, Idle, Asking, Queued, Taken, Parked,
       Leaving, Left, PortLeft
  <2>3. ASSUME NEW t \in QueueLockers PROVE QueueLockerInv(t)'
    <3>1. queue \in Seq(QueueLockers \cup {IO}) /\ queue # <<>> /\ queue' = Tail(queue)
      BY <1>2 DEF IInv, TypeOK, PortTake
    <3>2. /\ InQueue(t)' => InQueue(t)
          /\ InQueue(t) => InQueue(t)' \/ Head(queue) = t
          /\ Once(t) => Once(t)'
          /\ Once(t) /\ Head(queue) = t => ~InQueue(t)'
      BY <3>1, TailInQueue
    <3>3. Head(queue) = t => InQueue(t)
      BY <3>1 DEF InQueue
    <3> QED
      BY <1>2, <3>2, <3>3, QueueLockAssumption DEF PortTake, IInv, TypeOK, PortInv,
       QueueLockerInv, LockerInv, Threads, Idle, Asking, Queued, Taken, Parked,
       Leaving, Left, PortLeft
  <2>4. ASSUME NEW t \in Lockers PROVE LockerInv(t)'
    BY <1>2, QueueLockAssumption DEF PortTake, IInv, TypeOK, PortInv, LockerInv,
       Threads
  <2>5. LowerInv'
    BY <1>2, QueueLockAssumption DEF PortTake, IInv, TypeOK, PortInv, LowerInv,
       QueueLockerInv, LockerInv, Threads, Idle, Asking, Parked, PortLeft
  <2> QED BY <2>1, <2>2, <2>3, <2>4, <2>5 DEF IInv
<1>3. CASE PortSync
  <2>1. TypeOK'
    BY <1>3, QueueLockAssumption DEF PortSync, IInv, TypeOK, PortInv,
       QueueLockerInv, LockerInv, Threads
  <2>2. PortInv'
    BY <1>3, QueueLockAssumption DEF PortSync, IInv, TypeOK, PortInv,
       QueueLockerInv, LockerInv, Threads, Idle, Asking, Queued, Taken, Parked,
       Leaving, Left, PortLeft
  <2>3. ASSUME NEW t \in QueueLockers PROVE QueueLockerInv(t)'
    BY <1>3, QueueLockAssumption DEF PortSync, IInv, TypeOK, PortInv,
       QueueLockerInv, LockerInv, Threads, InQueue, Once, Idle, Asking, Queued,
       Taken, Parked, Leaving, Left, PortLeft
  <2>4. ASSUME NEW t \in Lockers PROVE LockerInv(t)'
    BY <1>3, QueueLockAssumption DEF PortSync, IInv, TypeOK, PortInv, LockerInv,
       Threads
  <2>5. LowerInv'
    BY <1>3, QueueLockAssumption DEF PortSync, IInv, TypeOK, PortInv, LowerInv,
       QueueLockerInv, LockerInv, Threads, Idle, Asking, Parked, PortLeft
  <2> QED BY <2>1, <2>2, <2>3, <2>4, <2>5 DEF IInv
<1>4. CASE PortNotify
  <2>1. TypeOK'
    BY <1>4, QueueLockAssumption DEF PortNotify, NotifyLock, IInv, TypeOK,
       PortInv, QueueLockerInv, LockerInv, Threads
  <2>2. PortInv'
    BY <1>4, QueueLockAssumption DEF PortNotify, NotifyLock, IInv, TypeOK,
       PortInv, QueueLockerInv, LockerInv, Threads, Idle, Asking, Queued, Taken,
       Parked, Leaving, Left, PortLeft
  <2>3. ASSUME NEW t \in QueueLockers PROVE QueueLockerInv(t)'
    BY <1>4, QueueLockAssumption DEF PortNotify, NotifyLock, IInv, TypeOK,
       PortInv, QueueLockerInv, LockerInv, Threads, InQueue, Once, Idle, Asking,
       Queued, Taken, Parked, Leaving, Left, PortLeft
  <2>4. ASSUME NEW t \in Lockers PROVE LockerInv(t)'
    BY <1>4, QueueLockAssumption DEF PortNotify, NotifyLock, IInv, TypeOK,
       PortInv, LockerInv, Threads
  <2>5. LowerInv'
    BY <1>4, QueueLockAssumption DEF PortNotify, NotifyLock, IInv, TypeOK,
       PortInv, LowerInv, QueueLockerInv, LockerInv, Threads, Idle, Asking,
       Parked, PortLeft
  <2> QED BY <2>1, <2>2, <2>3, <2>4, <2>5 DEF IInv
<1>5. CASE PortIO
  <2>1. TypeOK'
    BY <1>5, QueueLockAssumption DEF PortIO, IInv, TypeOK, PortInv,
       QueueLockerInv, LockerInv, Threads
  <2>2. PortInv'
    BY <1>5, QueueLockAssumption DEF PortIO, IInv, TypeOK, PortInv,
       QueueLockerInv, LockerInv, Threads, Idle, Asking, Queued, Taken, Parked,
       Leaving, Left, PortLeft
  <2>3. ASSUME NEW t \in QueueLockers PROVE QueueLockerInv(t)'
    BY <1>5, QueueLockAssumption DEF PortIO, IInv, TypeOK, PortInv,
       QueueLockerInv, LockerInv, Threads, InQueue, Once, Idle, Asking, Queued,
       Taken, Parked, Leaving, Left, PortLeft
  <2>4. ASSUME NEW t \in Lockers PROVE LockerInv(t)'
    BY <1>5, QueueLockAssumption DEF PortIO, IInv, TypeOK, PortInv, LockerInv,
       Threads
  <2>5. LowerInv'
    BY <1>5, QueueLockAssumption DEF PortIO, IInv, TypeOK, PortInv, LowerInv,
       QueueLockerInv, LockerInv, Threads, Idle, Asking, Parked, PortLeft
  <2> QED BY <2>1, <2>2, <2>3, <2>4, <2>5 DEF IInv
<1>6. CASE QueueLockPortCallback
  <2>1. TypeOK'
    BY <1>6, QueueLockAssumption DEF QueueLockPortCallback, IInv, TypeOK, PortInv,
       QueueLockerInv, LockerInv, Threads
  <2>2. PortInv'
    BY <1>6, QueueLockAssumption DEF QueueLockPortCallback, IInv, TypeOK, PortInv,
       QueueLockerInv, LockerInv, Threads, Idle, Asking, Queued, Taken, Parked,
       Leaving, Left, PortLeft
  <2>3. ASSUME NEW t \in QueueLockers PROVE QueueLockerInv(t)'
    BY <1>6, QueueLockAssumption DEF QueueLockPortCallback, IInv, TypeOK, PortInv,
       QueueLockerInv, LockerInv, Threads, InQueue, Once, Idle, Asking, Queued,
       Taken, Parked, Leaving, Left, PortLeft
  <2>4. ASSUME NEW t \in Lockers PROVE LockerInv(t)'
    BY <1>6, QueueLockAssumption DEF QueueLockPortCallback, IInv, TypeOK, PortInv,
       LockerInv, Threads
  <2>5. LowerInv'
    BY <1>6, QueueLockAssumption DEF QueueLockPortCallback, IInv, TypeOK, PortInv,
       LowerInv, QueueLockerInv, LockerInv, Threads, Idle, Asking, Parked,
       PortLeft
  <2> QED BY <2>1, <2>2, <2>3, <2>4, <2>5 DEF IInv
<1>7. CASE CallbackMutex
  <2>1. TypeOK'
    BY <1>7, QueueLockAssumption DEF CallbackMutex, IInv, TypeOK, PortInv,
       QueueLockerInv, LockerInv, Threads
  <2>2. PortInv'
    BY <1>7, QueueLockAssumption DEF CallbackMutex, IInv, TypeOK, PortInv,
       QueueLockerInv, LockerInv, Threads, Idle, Asking, Queued, Taken, Parked,
       Leaving, Left, PortLeft
  <2>3. ASSUME NEW t \in QueueLockers PROVE QueueLockerInv(t)'
    BY <1>7, QueueLockAssumption DEF CallbackMutex, IInv, TypeOK, PortInv,
       QueueLockerInv, LockerInv, Threads, InQueue, Once, Idle, Asking, Queued,
       Taken, Parked, Leaving, Left, PortLeft
  <2>4. ASSUME NEW t \in Lockers PROVE LockerInv(t)'
    BY <1>7, QueueLockAssumption DEF CallbackMutex, IInv, TypeOK, PortInv,
       LockerInv, Threads
  <2>5. LowerInv'
    BY <1>7, QueueLockAssumption DEF CallbackMutex, IInv, TypeOK, PortInv,
       LowerInv, QueueLockerInv, LockerInv, Threads, Idle, Asking, Parked,
       PortLeft
  <2> QED BY <2>1, <2>2, <2>3, <2>4, <2>5 DEF IInv
<1>8. CASE CallbackRelease
  <2>1. TypeOK'
    BY <1>8, QueueLockAssumption DEF CallbackRelease, IInv, TypeOK, PortInv,
       QueueLockerInv, LockerInv, Threads
  <2>2. PortInv'
    BY <1>8, QueueLockAssumption DEF CallbackRelease, IInv, TypeOK, PortInv,
       QueueLockerInv, LockerInv, Threads, Idle, Asking, Queued, Taken, Parked,
       Leaving, Left, PortLeft
  <2>3. ASSUME NEW t \in QueueLockers PROVE QueueLockerInv(t)'
    BY <1>8, QueueLockAssumption DEF CallbackRelease, IInv, TypeOK, PortInv,
       QueueLockerInv, LockerInv, Threads, InQueue, Once, Idle, Asking, Queued,
       Taken, Parked, Leaving, Left, PortLeft
  <2>4. ASSUME NEW t \in Lockers PROVE LockerInv(t)'
    BY <1>8, QueueLockAssumption DEF CallbackRelease, IInv, TypeOK, PortInv,
       LockerInv, Threads
  <2>5. LowerInv'
    BY <1>8, QueueLockAssumption DEF CallbackRelease, IInv, TypeOK, PortInv,
       LowerInv, QueueLockerInv, LockerInv, Threads, Idle, Asking, Parked,
       PortLeft
  <2> QED BY <2>1, <2>2, <2>3, <2>4, <2>5 DEF IInv
<1>9. CASE CallbackSignal
  <2>1. TypeOK'
    BY <1>9, QueueLockAssumption DEF CallbackSignal, IInv, TypeOK, PortInv,
       QueueLockerInv, LockerInv, Threads
  <2>2. PortInv'
    BY <1>9, QueueLockAssumption DEF CallbackSignal, IInv, TypeOK, PortInv,
       QueueLockerInv, LockerInv, Threads, Idle, Asking, Queued, Taken, Parked,
       Leaving, Left, PortLeft
  <2>3. ASSUME NEW t \in QueueLockers PROVE QueueLockerInv(t)'
    BY <1>9, QueueLockAssumption DEF CallbackSignal, IInv, TypeOK, PortInv,
       QueueLockerInv, LockerInv, Threads, InQueue, Once, Idle, Asking, Queued,
       Taken, Parked, Leaving, Left, PortLeft
  <2>4. ASSUME NEW t \in Lockers PROVE LockerInv(t)'
    BY <1>9, QueueLockAssumption DEF CallbackSignal, IInv, TypeOK, PortInv,
       LockerInv, Threads
  <2>5. LowerInv'
    BY <1>9, QueueLockAssumption DEF CallbackSignal, IInv, TypeOK, PortInv,
       LowerInv, QueueLockerInv, LockerInv, Threads, Idle, Asking, Parked,
       PortLeft
  <2> QED BY <2>1, <2>2, <2>3, <2>4, <2>5 DEF IInv
<1>10. CASE PortUnnotify
  <2>1. TypeOK'
    BY <1>10, QueueLockAssumption DEF PortUnnotify, NotifyUnlock, IInv, TypeOK,
       PortInv, QueueLockerInv, LockerInv, Threads
  <2>2. PortInv'
    BY <1>10, QueueLockAssumption DEF PortUnnotify, NotifyUnlock, IInv, TypeOK,
       PortInv, QueueLockerInv, LockerInv, Threads, Idle, Asking, Queued, Taken,
       Parked, Leaving, Left, PortLeft
  <2>3. ASSUME NEW t \in QueueLockers PROVE QueueLockerInv(t)'
    BY <1>10, QueueLockAssumption DEF PortUnnotify, NotifyUnlock, IInv, TypeOK,
       PortInv, QueueLockerInv, LockerInv, Threads, InQueue, Once, Idle, Asking,
       Queued, Taken, Parked, Leaving, Left, PortLeft
  <2>4. ASSUME NEW t \in Lockers PROVE LockerInv(t)'
    BY <1>10, QueueLockAssumption DEF PortUnnotify, NotifyUnlock, IInv, TypeOK,
       PortInv, LockerInv, Threads
  <2>5. LowerInv'
    BY <1>10, QueueLockAssumption DEF PortUnnotify, NotifyUnlock, IInv, TypeOK,
       PortInv, LowerInv, QueueLockerInv, LockerInv, Threads, Idle, Asking,
       Parked, PortLeft
  <2> QED BY <2>1, <2>2, <2>3, <2>4, <2>5 DEF IInv
<1>11. CASE PortUnsync
  <2>1. TypeOK'
    BY <1>11, QueueLockAssumption DEF PortUnsync, IInv, TypeOK, PortInv,
       QueueLockerInv, LockerInv, Threads
  <2>2. PortInv'
    BY <1>11, QueueLockAssumption DEF PortUnsync, IInv, TypeOK, PortInv,
       QueueLockerInv, LockerInv, Threads, Idle, Asking, Queued, Taken, Parked,
       Leaving, Left, PortLeft
  <2>3. ASSUME NEW t \in QueueLockers PROVE QueueLockerInv(t)'
    BY <1>11, QueueLockAssumption DEF PortUnsync, IInv, TypeOK, PortInv,
       QueueLockerInv, LockerInv, Threads, InQueue, Once, Idle, Asking, Queued,
       Taken, Parked, Leaving, Left, PortLeft
  <2>4. ASSUME NEW t \in Lockers PROVE LockerInv(t)'
    BY <1>11, QueueLockAssumption DEF PortUnsync, IInv, TypeOK, PortInv,
       LockerInv, Threads
  <2>5. LowerInv'
    BY <1>11, QueueLockAssumption DEF PortUnsync, IInv, TypeOK, PortInv, LowerInv,
       QueueLockerInv, LockerInv, Threads, Idle, Asking, Parked, PortLeft
  <2> QED BY <2>1, <2>2, <2>3, <2>4, <2>5 DEF IInv
<1> QED BY <1>1, <1>2, <1>3, <1>4, <1>5, <1>6, <1>7, <1>8, <1>9, <1>10, <1>11 DEF PortNext

LEMMA Invariance == Spec => []IInv
<1>1. IInv /\ [Next]_vars => IInv'
  <2> SUFFICES ASSUME IInv, [Next]_vars PROVE IInv'
    OBVIOUS
  <2>1. CASE Next
    BY <2>1, QueueLockerStep, LockerStep, PortStep DEF Next
  <2>2. CASE UNCHANGED vars
    BY <2>2 DEF vars, IInv, TypeOK, PortInv, LowerInv, QueueLockerInv, LockerInv,
       InQueue, Once, Idle, Asking, Queued, Taken, Parked, Leaving, Left, PortLeft
  <2> QED BY <2>1, <2>2
<1> QED BY InitIInv, <1>1, PTL DEF Spec

\* Every variable keeps its type, whatever the number of threads.
THEOREM TypeCorrect == Spec => []TypeOK
BY Invariance, PTL DEF IInv

\* queueLockPort and lockPort give exclusive access: a thread that queueLockPort
\* returned to, a thread that lockPort returned to and the callback of a queued
\* request never use the port at the same time.
THEOREM ExclusiveAccess == Spec => []Exclusive
<1>1. IInv => Exclusive
  <2> SUFFICES ASSUME IInv, NEW s \in PortUsers, NEW t \in PortUsers PROVE s = t
    BY DEF Exclusive
  <2>1. \A q \in QueueLockers : pc[q] = "locked" => ptReq = q /\ ptPc = "mutex"
    BY DEF IInv, QueueLockerInv, Parked
  <2>2. \A l \in Lockers : pc[l] = "locked" => sync = l
    BY DEF IInv, LockerInv
  <2>3. ptPc \in {"mutex", "callback"} => sync = PortThread
    BY DEF IInv, PortInv
  <2> QED BY <2>1, <2>2, <2>3, QueueLockAssumption DEF PortUsers, Threads
<1> QED BY Invariance, <1>1, PTL

\* The single event of a thread never mixes up its two meanings, "the port
\* thread is parked" and "the callback has ended".
THEOREM EventUnambiguous == Spec => []EventMeansWhatIsAwaited
<1>1. IInv => EventMeansWhatIsAwaited
  BY DEF IInv, TypeOK, EventMeansWhatIsAwaited, QueueLockerInv, Threads,
     Idle, Asking, Queued, Taken, Parked, Leaving, Left, PortLeft
<1> QED BY Invariance, <1>1, PTL

\* While anybody uses the port of a driver with asynLockPortNotify, the port
\* below it is locked, by the user or by the port thread on its behalf.
THEOREM LowerPortLocked == Spec => []LowerLocked
<1>1. IInv => LowerLocked
  BY QueueLockAssumption DEF IInv, TypeOK, PortInv, LowerInv, LowerLocked, PortUsers, Threads
<1> QED BY Invariance, <1>1, PTL

----------------------------------------------------------------------------
(* The list of interrupt users.                                             *)

\* What the next node of a walk may be.
LEMMA IntFollowingNode ==
  ASSUME IntTypeOK, NEW d \in Drivers, NEW n \in FollowingNode(d)
  PROVE  /\ n \in Nodes \cup {NoNode}
         /\ intWalk[d] = "first" \/ Contains(callbackList, intCursor[d])
              => n = NoNode \/ Contains(callbackList, n)
<1> DEFINE s == callbackList
<1>1. s \in Seq(Nodes) /\ Len(s) \in Nat /\ DOMAIN s = 1..Len(s)
  BY DEF IntTypeOK
<1>2. ASSUME NEW x, Contains(s, x) PROVE x \in Nodes
  BY <1>1, <1>2 DEF Contains
<1>3. ASSUME NEW i \in 0..Len(s), n = Append(s, NoNode)[i + 1]
      PROVE  n = NoNode \/ Contains(s, n)
  BY <1>1, <1>3, FollowingLemma
<1> HIDE DEF s
<1>4. CASE intWalk[d] = "first"
  <2>1. 0 \in 0..Len(s) /\ n = Append(s, NoNode)[0 + 1]
    BY <1>1, <1>4 DEF FollowingNode, s
  <2> QED BY <2>1, <1>2, <1>3 DEF s
<1>5. CASE intWalk[d] # "first"
  <2> DEFINE at == {i \in DOMAIN s : s[i] = intCursor[d]}
  <2>1. CASE at = {}
    <3>1. ~Contains(s, intCursor[d])
      BY <2>1 DEF Contains
    <3> QED BY <1>5, <2>1, <3>1 DEF FollowingNode, s
  <2>2. CASE at # {}
    <3>1. PICK i \in at : n = Append(s, NoNode)[i + 1]
      BY <1>5, <2>2 DEF FollowingNode, s
    <3>2. i \in 0..Len(s)
      BY <1>1
    <3> QED BY <1>2, <1>3, <3>1, <3>2 DEF s
  <2> QED BY <2>1, <2>2
<1> QED BY <1>4, <1>5

----------------------------------------------------------------------------
(* What holds for any number of drivers.                                    *)

\* isOnList tells whether a node is on callbackList, where it is at most once.
IntListMatches ==
  /\ IsInjective(callbackList)
  /\ \A n \in Nodes : isOnList[n] <=> Contains(callbackList, n)

\* Who waits wants to add a node that is not on the list, or to remove one that is.
IntCallMatches ==
  \A n \in Nodes : intPc[n] # "idle" =>
    /\ ~interruptNodeFree[n]
    /\ isOnList[n] = (intPc[n] = "remove")

\* Only a node whose thread waits is on addRemoveList or has its event set.
IntWaitMatches ==
  \A n \in Nodes : /\ Contains(addRemoveList, n) => intPc[n] # "idle" /\ ~callbackDone[n]
                   /\ callbackDone[n] => intPc[n] # "idle"

\* A node that is on the callback list is not free.
IntFreeOffList == \A n \in Nodes : interruptNodeFree[n] => ~isOnList[n]

IntInv == IntTypeOK /\ IntListMatches /\ IntCallMatches /\ IntWaitMatches /\ IntFreeOffList

LEMMA IntInitInv == IntInit => IntInv
<1> SUFFICES ASSUME IntInit PROVE IntInv
  OBVIOUS
<1>1. IntTypeOK
  <2>1. <<>> \in Seq(Nodes)
    OBVIOUS
  <2> QED BY <2>1 DEF IntInit, IntTypeOK
<1>2. DOMAIN callbackList = {} /\ DOMAIN addRemoveList = {}
  BY DEF IntInit
<1>3. IntListMatches
  BY <1>2 DEF IntInit, IntListMatches, IsInjective, Contains
<1>4. IntCallMatches /\ IntWaitMatches /\ IntFreeOffList
  BY <1>2 DEF IntInit, IntCallMatches, IntWaitMatches, IntFreeOffList, Contains
<1> QED BY <1>1, <1>3, <1>4 DEF IntInv

LEMMA IntNextInv == IntInv /\ [IntNext]_intVars => IntInv'
<1> SUFFICES ASSUME IntInv, [IntNext]_intVars PROVE IntInv'
  OBVIOUS
<1> USE DEF IntInv
<1>1. ASSUME NEW n \in Nodes, CreateInterruptNode(n) PROVE IntInv'
  <2> USE <1>1 DEF CreateInterruptNode
  <2>1. IntTypeOK'
    BY DEF IntTypeOK
  <2>2. IntListMatches'
    BY DEF IntListMatches, IntFreeOffList, IntTypeOK
  <2>3. IntCallMatches'
    BY DEF IntCallMatches, IntTypeOK
  <2>4. IntWaitMatches' /\ IntFreeOffList'
    BY DEF IntWaitMatches, IntFreeOffList, IntTypeOK
  <2> QED BY <2>1, <2>2, <2>3, <2>4
<1>2. ASSUME NEW n \in Nodes, FreeInterruptNode(n) PROVE IntInv'
  <2> USE <1>2 DEF FreeInterruptNode
  <2>1. IntTypeOK'
    BY DEF IntTypeOK
  <2>2. IntListMatches' /\ IntWaitMatches'
    BY DEF IntListMatches, IntWaitMatches
  <2>3. IntCallMatches' /\ IntFreeOffList'
    BY DEF IntCallMatches, IntFreeOffList, IntTypeOK
  <2> QED BY <2>1, <2>2, <2>3
<1>3. ASSUME NEW n \in Nodes, AddInterruptUser(n) PROVE IntInv'
  <2> USE <1>3 DEF AddInterruptUser
  <2>1. ~isOnList[n] /\ ~interruptNodeFree[n]
    BY DEF IntAt, IntCallMatches, IntTypeOK
  <2>2. ~Contains(addRemoveList, n)
    BY DEF IntAt, IntWaitMatches, IntTypeOK
  <2>3. ~Contains(callbackList, n)
    BY <2>1 DEF IntListMatches
  <2>4. IntTypeOK'
    BY DEF IntTypeOK
  <2>5. IntListMatches'
    BY <2>3, AppendLemma DEF IntListMatches, IntTypeOK
  <2>6. IntCallMatches' /\ IntFreeOffList'
    BY <2>1 DEF IntCallMatches, IntFreeOffList, IntTypeOK
  <2>7. IntWaitMatches'
    BY <2>2 DEF IntWaitMatches, IntTypeOK
  <2> QED BY <2>4, <2>5, <2>6, <2>7
<1>4. ASSUME NEW n \in Nodes, RemoveInterruptUser(n) PROVE IntInv'
  <2> USE <1>4 DEF RemoveInterruptUser
  <2>1. /\ RemoveFirst(callbackList, n) \in Seq(Nodes)
        /\ IsInjective(RemoveFirst(callbackList, n))
        /\ \A x : Contains(RemoveFirst(callbackList, n), x)
                    <=> Contains(callbackList, x) /\ x # n
    BY RemoveFirstLemma DEF IntListMatches, IntTypeOK
  <2>2. ~Contains(addRemoveList, n)
    BY DEF IntAt, IntWaitMatches, IntTypeOK
  <2>3. IntTypeOK'
    BY <2>1 DEF IntTypeOK
  <2>4. IntListMatches'
    BY <2>1 DEF IntListMatches, IntTypeOK
  <2>5. IntCallMatches' /\ IntFreeOffList'
    BY DEF IntCallMatches, IntFreeOffList, IntTypeOK
  <2>6. IntWaitMatches'
    BY <2>2 DEF IntWaitMatches, IntTypeOK
  <2> QED BY <2>3, <2>4, <2>5, <2>6
<1>5. ASSUME NEW n \in Nodes, NEW what \in {"add", "remove"}, WaitForInterruptEnd(n, what)
      PROVE  IntInv'
  <2> USE <1>5 DEF WaitForInterruptEnd
  <2>1. /\ addRemoveList' \in Seq(Nodes)
        /\ \A x : Contains(addRemoveList', x) <=> Contains(addRemoveList, x) \/ x = n
    BY AppendLemma DEF IntTypeOK
  <2>2. IntTypeOK'
    BY <2>1 DEF IntTypeOK
  <2>3. IntListMatches' /\ IntFreeOffList'
    BY DEF IntListMatches, IntFreeOffList
  <2>4. IntCallMatches'
    BY DEF IntCallMatches, IntTypeOK, IntAt
  <2>5. IntWaitMatches'
    BY <2>1 DEF IntWaitMatches, IntTypeOK
  <2> QED BY <2>2, <2>3, <2>4, <2>5
<1>6. ASSUME NEW d \in Drivers, InterruptStart(d) PROVE IntInv'
  <2> USE <1>6 DEF InterruptStart
  <2>1. IntTypeOK'
    BY DEF IntTypeOK
  <2>2. IntListMatches' /\ IntCallMatches' /\ IntWaitMatches' /\ IntFreeOffList'
    BY DEF IntListMatches, IntCallMatches, IntWaitMatches, IntFreeOffList
  <2> QED BY <2>1, <2>2
<1>7. ASSUME NEW d \in Drivers, CallNext(d) PROVE IntInv'
  <2> USE <1>7 DEF CallNext
  <2>1. PICK n \in FollowingNode(d) :
          /\ intCursor' = [intCursor EXCEPT ![d] = n]
          /\ intWalk' = [intWalk EXCEPT ![d] = IF n = NoNode THEN "end" ELSE "callback"]
    OBVIOUS
  <2>2. n \in Nodes \cup {NoNode}
    BY IntFollowingNode
  <2>3. IntTypeOK'
    BY <2>1, <2>2 DEF IntTypeOK
  <2>4. IntListMatches' /\ IntCallMatches' /\ IntWaitMatches' /\ IntFreeOffList'
    BY DEF IntListMatches, IntCallMatches, IntWaitMatches, IntFreeOffList
  <2> QED BY <2>3, <2>4
<1>8. ASSUME NEW d \in Drivers, InterruptEnd(d) PROVE IntInv'
  <2> USE <1>8 DEF InterruptEnd
  <2>1. \A n \in Woken : Contains(addRemoveList, n) /\ listModified
    BY DEF Contains, Woken, ToSet
  <2>2. callbackDone' \in [Nodes -> BOOLEAN]
    <3>1. \A n \in Nodes : (callbackDone[n] \/ n \in Woken) \in BOOLEAN
      OBVIOUS
    <3> QED BY <3>1
  <2>3. addRemoveList' \in Seq(Nodes)
    BY DEF IntTypeOK
  <2>4. IntTypeOK'
    BY <2>2, <2>3 DEF IntTypeOK
  <2>5. IntListMatches' /\ IntCallMatches' /\ IntFreeOffList'
    BY DEF IntListMatches, IntCallMatches, IntFreeOffList
  <2>6. IntWaitMatches'
    <3>1. listModified => \A n : ~Contains(addRemoveList', n)
      BY DEF Contains
    <3>2. ~listModified => UNCHANGED addRemoveList /\ Woken = {}
      BY DEF Woken
    <3>3. \A n \in Nodes : callbackDone'[n] <=> callbackDone[n] \/ n \in Woken
      OBVIOUS
    <3> QED BY <2>1, <3>1, <3>2, <3>3 DEF IntWaitMatches
  <2> QED BY <2>4, <2>5, <2>6
<1>9. CASE UNCHANGED intVars
  BY <1>9 DEF intVars, IntTypeOK, IntListMatches, IntCallMatches, IntWaitMatches, IntFreeOffList
<1> QED BY <1>1, <1>2, <1>3, <1>4, <1>5, <1>6, <1>7, <1>8, <1>9 DEF IntNext

LEMMA IntInvariant == IntSpec => []IntInv
BY IntInitInv, IntNextInv, PTL DEF IntSpec

\* The variables of the interrupt lists keep their types.
THEOREM IntTypeCorrect == IntSpec => []IntTypeOK
<1>1. IntInv => IntTypeOK
  BY DEF IntInv
<1> QED BY <1>1, IntInvariant, PTL

----------------------------------------------------------------------------
(* What holds when only one thread delivers the interrupts.                 *)

OneDriver == \A a, b \in Drivers : a = b

\* callbackActive tells whether a walk goes on.
IntMarked == callbackActive <=> \E d \in Drivers : intWalk[d] # "idle"

\* The walk stands on a node of the list.
IntWalkSafe == \A d \in Drivers : intWalk[d] = "callback" => isOnList[intCursor[d]]

IntWalkInv == IntInv /\ IntMarked /\ IntWalkSafe /\ InterruptWaiterKnown

LEMMA IntNextWalkInv == OneDriver /\ IntWalkInv /\ [IntNext]_intVars => IntWalkInv'
<1> SUFFICES ASSUME OneDriver, IntWalkInv, [IntNext]_intVars
             PROVE  IntMarked' /\ IntWalkSafe' /\ InterruptWaiterKnown'
  BY IntNextInv DEF IntWalkInv
<1> USE DEF IntWalkInv
<1>1. IntTypeOK /\ IntListMatches /\ IntCallMatches /\ IntWaitMatches /\ IntFreeOffList
  BY DEF IntInv
<1>2. ASSUME NEW n \in Nodes, CreateInterruptNode(n) \/ FreeInterruptNode(n)
      PROVE  IntMarked' /\ IntWalkSafe' /\ InterruptWaiterKnown'
  <2>1. /\ UNCHANGED <<callbackActive, listModified, callbackDone, addRemoveList, intPc,
                       intWalk, intCursor>>
        /\ \A m \in Nodes : isOnList'[m] = isOnList[m]
    BY <1>1, <1>2, ZenonT(60) DEF CreateInterruptNode, FreeInterruptNode,
       IntFreeOffList, IntTypeOK
  <2> QED BY <1>1, <2>1 DEF IntMarked, IntWalkSafe, InterruptWaiterKnown, IntTypeOK
<1>3. ASSUME NEW n \in Nodes, AddInterruptUser(n) \/ RemoveInterruptUser(n)
      PROVE  IntMarked' /\ IntWalkSafe' /\ InterruptWaiterKnown'
  <2>1. /\ ~callbackActive
        /\ UNCHANGED <<callbackActive, listModified, addRemoveList, intWalk, intCursor>>
        /\ callbackDone' = [callbackDone EXCEPT ![n] = FALSE]
        /\ intPc' = [intPc EXCEPT ![n] = "idle"]
    BY <1>3 DEF AddInterruptUser, RemoveInterruptUser, IntBusy
  <2>2. \A d \in Drivers : intWalk[d] = "idle"
    BY <2>1 DEF IntMarked
  <2> QED BY <1>1, <2>1, <2>2 DEF IntMarked, IntWalkSafe, InterruptWaiterKnown, IntTypeOK
<1>4. ASSUME NEW n \in Nodes, NEW what \in {"add", "remove"}, WaitForInterruptEnd(n, what)
      PROVE  IntMarked' /\ IntWalkSafe' /\ InterruptWaiterKnown'
  <2> USE <1>4 DEF WaitForInterruptEnd
  <2>1. \A x : Contains(addRemoveList', x) <=> Contains(addRemoveList, x) \/ x = n
    BY <1>1, AppendLemma DEF IntTypeOK
  <2>2. IntMarked' /\ IntWalkSafe'
    BY DEF IntMarked, IntWalkSafe
  <2>3. InterruptWaiterKnown'
    BY <1>1, <2>1 DEF InterruptWaiterKnown, IntTypeOK, IntBusy
  <2> QED BY <2>2, <2>3
<1>5. ASSUME NEW d \in Drivers, InterruptStart(d)
      PROVE  IntMarked' /\ IntWalkSafe' /\ InterruptWaiterKnown'
  <2> USE <1>5 DEF InterruptStart
  <2>1. ~callbackActive
    BY DEF IntMarked, OneDriver
  <2>2. IntMarked' /\ IntWalkSafe'
    BY <1>1 DEF IntMarked, IntWalkSafe, IntTypeOK
  <2>3. InterruptWaiterKnown'
    BY <2>1 DEF InterruptWaiterKnown
  <2> QED BY <2>2, <2>3
<1>6. ASSUME NEW d \in Drivers, CallNext(d)
      PROVE  IntMarked' /\ IntWalkSafe' /\ InterruptWaiterKnown'
  <2>1. PICK n \in FollowingNode(d) :
          /\ intCursor' = [intCursor EXCEPT ![d] = n]
          /\ intWalk' = [intWalk EXCEPT ![d] = IF n = NoNode THEN "end" ELSE "callback"]
    BY <1>6 DEF CallNext
  <2>2. /\ intWalk[d] \in {"first", "callback"}
        /\ UNCHANGED <<callbackActive, listModified, callbackList, addRemoveList,
                       isOnList, callbackDone, intPc>>
    BY <1>6 DEF CallNext
  <2>3. intWalk[d] = "callback" => Contains(callbackList, intCursor[d])
    BY <1>1 DEF IntWalkSafe, IntListMatches, IntTypeOK
  <2>4. n \in Nodes \cup {NoNode} /\ (n = NoNode \/ Contains(callbackList, n))
    BY <1>1, <2>2, <2>3, IntFollowingNode
  <2>5. n # NoNode => isOnList[n]
    BY <1>1, <2>4 DEF IntListMatches
  <2>6. IntMarked'
    BY <1>1, <2>1, <2>2 DEF IntMarked, IntTypeOK
  <2>7. IntWalkSafe'
    BY <1>1, <2>1, <2>2, <2>5 DEF IntWalkSafe, IntTypeOK
  <2>8. InterruptWaiterKnown'
    BY <2>2 DEF InterruptWaiterKnown
  <2> QED BY <2>6, <2>7, <2>8
<1>7. ASSUME NEW d \in Drivers, InterruptEnd(d)
      PROVE  IntMarked' /\ IntWalkSafe' /\ InterruptWaiterKnown'
  <2> USE <1>7 DEF InterruptEnd
  <2>1. \A e \in Drivers : intWalk'[e] = "idle"
    BY <1>1 DEF OneDriver, IntTypeOK
  <2>2. IntMarked' /\ IntWalkSafe'
    BY <2>1 DEF IntMarked, IntWalkSafe
  <2>3. ASSUME NEW n \in Nodes, intPc[n] # "idle" PROVE callbackDone[n] \/ n \in Woken
    BY <2>3 DEF InterruptWaiterKnown, Woken, ToSet, Contains
  <2>4. InterruptWaiterKnown'
    BY <2>3 DEF InterruptWaiterKnown
  <2> QED BY <2>2, <2>4
<1>8. CASE UNCHANGED intVars
  BY <1>8 DEF intVars, IntMarked, IntWalkSafe, InterruptWaiterKnown
<1> QED BY <1>2, <1>3, <1>4, <1>5, <1>6, <1>7, <1>8 DEF IntNext

LEMMA IntWalkInvariant ==
  ASSUME OneDriver
  PROVE  IntSpec => []IntWalkInv
<1>1. IntInit => IntWalkInv
  BY IntInitInv DEF IntInit, IntWalkInv, IntMarked, IntWalkSafe, InterruptWaiterKnown
<1>2. IntWalkInv /\ [IntNext]_intVars => IntWalkInv'
  BY IntNextWalkInv
<1> QED BY <1>1, <1>2, PTL DEF IntSpec

\* As long as one thread at a time delivers the interrupts of an interface, a node
\* on the free list is on no other list and no callback runs with it.
THEOREM FreeNodesUnused ==
  ASSUME OneDriver
  PROVE  IntSpec => []FreeNodeUnused
<1>1. IntWalkInv => FreeNodeUnused
  BY DEF IntWalkInv, IntInv, FreeNodeUnused, IntWalkSafe, IntFreeOffList,
         IntListMatches, IntCallMatches, IntWaitMatches
<1> QED BY <1>1, IntWalkInvariant, PTL

\* And every thread that waits for the end of the interrupt will be woken by it.
THEOREM NobodyForgotten ==
  ASSUME OneDriver
  PROVE  IntSpec => []InterruptWaiterKnown
<1>1. IntWalkInv => InterruptWaiterKnown
  BY DEF IntWalkInv
<1> QED BY <1>1, IntWalkInvariant, PTL

\* And the list does not change while the interrupt is delivered.
THEOREM ListFrozen ==
  ASSUME OneDriver
  PROVE  IntSpec => CallbackListFrozen
<1> DEFINE Step == (\E d \in Drivers : intWalk[d] # "idle" /\ intWalk'[d] # "idle")
                     => UNCHANGED callbackList
<1>1. IntWalkInv /\ [IntNext]_intVars => [Step]_intVars
  <2> SUFFICES ASSUME IntWalkInv, IntNext, \E d \in Drivers : intWalk[d] # "idle"
               PROVE  UNCHANGED callbackList
    BY DEF intVars
  <2>1. callbackActive
    BY DEF IntWalkInv, IntMarked
  <2> QED BY <2>1 DEF IntNext, CreateInterruptNode, FreeInterruptNode, AddInterruptUser,
             RemoveInterruptUser, IntBusy, WaitForInterruptEnd, InterruptStart, CallNext,
             InterruptEnd
<1> QED BY <1>1, IntWalkInvariant, PTL DEF IntSpec, CallbackListFrozen

----------------------------------------------------------------------------
(* The list of exception callbacks.                                         *)

\* What the next node of a walk may be.
LEMMA ExcFollowingNode ==
  ASSUME ExcTypeOK, NEW a \in Announcers, NEW u \in Following(a)
  PROVE  /\ u \in Users \cup {NoUser}
         /\ excWalk[a] = "first" \/ Contains(exceptionUserList, excCursor[a])
              => u = NoUser \/ Contains(exceptionUserList, u)
<1> DEFINE s == exceptionUserList
<1>1. s \in Seq(Users) /\ Len(s) \in Nat /\ DOMAIN s = 1..Len(s)
  BY DEF ExcTypeOK
<1>2. ASSUME NEW x, Contains(s, x) PROVE x \in Users
  BY <1>1, <1>2 DEF Contains
<1>3. ASSUME NEW i \in 0..Len(s), u = Append(s, NoUser)[i + 1]
      PROVE  u = NoUser \/ Contains(s, u)
  BY <1>1, <1>3, FollowingLemma
<1> HIDE DEF s
<1>4. CASE excWalk[a] = "first"
  <2>1. 0 \in 0..Len(s) /\ u = Append(s, NoUser)[0 + 1]
    BY <1>1, <1>4 DEF Following, s
  <2> QED BY <2>1, <1>2, <1>3 DEF s
<1>5. CASE excWalk[a] # "first"
  <2> DEFINE at == {i \in DOMAIN s : s[i] = excCursor[a]}
  <2>1. CASE at = {}
    <3>1. ~Contains(s, excCursor[a])
      BY <2>1 DEF Contains
    <3> QED BY <1>5, <2>1, <3>1 DEF Following, s
  <2>2. CASE at # {}
    <3>1. PICK i \in at : u = Append(s, NoUser)[i + 1]
      BY <1>5, <2>2 DEF Following, s
    <3>2. i \in 0..Len(s)
      BY <1>1
    <3> QED BY <1>2, <1>3, <3>1, <3>2 DEF s
  <2> QED BY <2>1, <2>2
<1> QED BY <1>4, <1>5

----------------------------------------------------------------------------
(* What holds for any number of announcers.                                 *)

\* Who waits wants to add a node that is not there, or to remove one that is.
ExcCallMatches == \A u \in Users : excPc[u] # "idle" => onList[u] = (excPc[u] = "remove")

ExcInv == ExcTypeOK /\ ListMatches /\ ExcCallMatches /\ WaiterKnown

LEMMA ExcInitInv == ExcInit => ExcInv
<1> SUFFICES ASSUME ExcInit PROVE ExcInv
  OBVIOUS
<1>1. ExcTypeOK
  <2>1. <<>> \in Seq(Users)
    OBVIOUS
  <2> QED BY <2>1 DEF ExcInit, ExcTypeOK
<1>2. ListMatches
  <2>1. DOMAIN exceptionUserList = {}
    BY DEF ExcInit
  <2> QED BY <2>1 DEF ExcInit, ListMatches, IsInjective, Contains
<1>3. ExcCallMatches /\ WaiterKnown
  BY DEF ExcInit, ExcCallMatches, WaiterKnown
<1> QED BY <1>1, <1>2, <1>3 DEF ExcInv

LEMMA ExcNextInv == ExcInv /\ [ExcNext]_excVars => ExcInv'
<1> SUFFICES ASSUME ExcInv, [ExcNext]_excVars PROVE ExcInv'
  OBVIOUS
<1> USE DEF ExcInv
<1>1. ASSUME NEW u \in Users, ExceptionCallbackAdd(u) PROVE ExcInv'
  <2> USE <1>1 DEF ExceptionCallbackAdd, AddNode
  <2>1. ~onList[u]
    BY DEF At, ExcCallMatches, ExcTypeOK
  <2>2. ~Contains(exceptionUserList, u)
    BY <2>1 DEF ListMatches
  <2>3. ExcTypeOK'
    BY DEF ExcTypeOK
  <2>4. ListMatches'
    BY <2>2, AppendLemma DEF ListMatches, ExcTypeOK
  <2>5. ExcCallMatches' /\ WaiterKnown'
    BY DEF ExcCallMatches, WaiterKnown, ExcTypeOK
  <2> QED BY <2>3, <2>4, <2>5
<1>2. ASSUME NEW u \in Users, ExceptionCallbackRemove(u) PROVE ExcInv'
  <2> USE <1>2 DEF ExceptionCallbackRemove, RemoveNode
  <2>1. /\ RemoveFirst(exceptionUserList, u) \in Seq(Users)
        /\ IsInjective(RemoveFirst(exceptionUserList, u))
        /\ \A x : Contains(RemoveFirst(exceptionUserList, u), x)
                    <=> Contains(exceptionUserList, x) /\ x # u
    BY RemoveFirstLemma DEF ListMatches, ExcTypeOK
  <2>2. ExcTypeOK'
    BY <2>1 DEF ExcTypeOK
  <2>3. ListMatches'
    BY <2>1 DEF ListMatches, ExcTypeOK
  <2>4. ExcCallMatches' /\ WaiterKnown'
    BY DEF ExcCallMatches, WaiterKnown, ExcTypeOK
  <2> QED BY <2>2, <2>3, <2>4
<1>3. ASSUME NEW u \in Users, NEW what \in {"add", "remove"}, WaitForEnd(u, what)
      PROVE  ExcInv'
  <2> USE <1>3 DEF WaitForEnd, WaitNotified
  <2>1. /\ exceptionNotifyList' \in Seq(Users)
        /\ \A x : Contains(exceptionNotifyList', x)
                    <=> Contains(exceptionNotifyList, x) \/ x = u
    BY AppendLemma DEF ExcTypeOK
  <2>2. ExcTypeOK'
    BY <2>1 DEF ExcTypeOK
  <2>3. ListMatches'
    BY DEF ListMatches
  <2>4. ExcCallMatches'
    BY DEF ExcCallMatches, ExcTypeOK, At
  <2>5. WaiterKnown'
    BY <2>1 DEF WaiterKnown, ExcTypeOK, Busy
  <2> QED BY <2>2, <2>3, <2>4, <2>5
<1>4. ASSUME NEW a \in Announcers, AnnounceStart(a) PROVE ExcInv'
  <2> USE <1>4 DEF AnnounceStart
  <2>1. ExcTypeOK'
    BY DEF ExcTypeOK
  <2>2. ListMatches' /\ ExcCallMatches' /\ WaiterKnown'
    BY DEF ListMatches, ExcCallMatches, WaiterKnown
  <2> QED BY <2>1, <2>2
<1>5. ASSUME NEW a \in Announcers, AnnounceNext(a) PROVE ExcInv'
  <2> USE <1>5 DEF AnnounceNext
  <2>1. PICK u \in Following(a) :
          /\ excCursor' = [excCursor EXCEPT ![a] = u]
          /\ excWalk' = [excWalk EXCEPT ![a] = IF u = NoUser THEN "end" ELSE "callback"]
    OBVIOUS
  <2>2. u \in Users \cup {NoUser}
    BY ExcFollowingNode
  <2>3. ExcTypeOK'
    BY <2>1, <2>2 DEF ExcTypeOK
  <2>4. ListMatches' /\ ExcCallMatches' /\ WaiterKnown'
    BY DEF ListMatches, ExcCallMatches, WaiterKnown
  <2> QED BY <2>3, <2>4
<1>6. ASSUME NEW a \in Announcers, AnnounceEnd(a) PROVE ExcInv'
  <2> USE <1>6 DEF AnnounceEnd
  <2>1. \A u \in Users : Contains(exceptionNotifyList, u) <=> u \in Notified
    BY DEF Contains, Notified
  <2>2. notify' \in [Users -> BOOLEAN]
    <3>1. \A u \in Users : (notify[u] \/ u \in Notified) \in BOOLEAN
      OBVIOUS
    <3> QED BY <3>1
  <2>3. ExcTypeOK'
    <3>1. <<>> \in Seq(Users)
      OBVIOUS
    <3> QED BY <2>2, <3>1 DEF ExcTypeOK
  <2>4. ListMatches' /\ ExcCallMatches'
    BY DEF ListMatches, ExcCallMatches
  <2>5. WaiterKnown'
    BY <2>1, <2>2 DEF WaiterKnown, ExcTypeOK
  <2> QED BY <2>3, <2>4, <2>5
<1>7. CASE UNCHANGED excVars
  BY <1>7 DEF excVars, ExcTypeOK, ListMatches, ExcCallMatches, WaiterKnown
<1> QED BY <1>1, <1>2, <1>3, <1>4, <1>5, <1>6, <1>7 DEF ExcNext

LEMMA ExcInvariant == ExcSpec => []ExcInv
BY ExcInitInv, ExcNextInv, PTL DEF ExcSpec

\* The variables of the exception lists keep their types.
THEOREM ExcTypeCorrect == ExcSpec => []ExcTypeOK
<1>1. ExcInv => ExcTypeOK
  BY DEF ExcInv
<1> QED BY <1>1, ExcInvariant, PTL

\* Each asynUser is on the exception list once or not at all, and its
\* pexceptionUser says which: also when several threads announce at once.
THEOREM ExcListKnown == ExcSpec => []ListMatches
<1>1. ExcInv => ListMatches
  BY DEF ExcInv
<1> QED BY <1>1, ExcInvariant, PTL

\* A thread that waits for the end of an announcement is always on the notify
\* list of one that goes on, or notified.
THEOREM ExcNobodyForgotten == ExcSpec => []WaiterKnown
<1>1. ExcInv => WaiterKnown
  BY DEF ExcInv
<1> QED BY <1>1, ExcInvariant, PTL

----------------------------------------------------------------------------
(* What holds when only one thread announces exceptions.                    *)

OneAnnouncer == \A a, b \in Announcers : a = b

\* exceptionActive tells that a walk goes on.
ExcMarked == \A a \in Announcers : excWalk[a] # "idle" => exceptionActive

ExcWalkInv == ExcInv /\ ExcMarked /\ WalkSafe

LEMMA ExcNextWalkInv == OneAnnouncer /\ ExcWalkInv /\ [ExcNext]_excVars => ExcWalkInv'
<1> SUFFICES ASSUME OneAnnouncer, ExcWalkInv, [ExcNext]_excVars PROVE ExcMarked' /\ WalkSafe'
  BY ExcNextInv DEF ExcWalkInv
<1> USE DEF ExcWalkInv
<1>1. ExcTypeOK /\ ListMatches
  BY DEF ExcInv
<1>2. ASSUME NEW u \in Users, ExceptionCallbackAdd(u) \/ ExceptionCallbackRemove(u)
      PROVE  ExcMarked' /\ WalkSafe'
  <2>1. /\ ~exceptionActive
        /\ UNCHANGED <<exceptionActive, excWalk, excCursor>>
    BY <1>2 DEF ExceptionCallbackAdd, ExceptionCallbackRemove, Busy
  <2>2. \A a \in Announcers : excWalk[a] = "idle"
    BY <2>1 DEF ExcMarked
  <2> QED BY <2>1, <2>2 DEF ExcMarked, WalkSafe
<1>3. ASSUME NEW u \in Users, NEW what \in {"add", "remove"}, WaitForEnd(u, what)
      PROVE  ExcMarked' /\ WalkSafe'
  BY <1>3 DEF WaitForEnd, WaitNotified, ExcMarked, WalkSafe
<1>4. ASSUME NEW a \in Announcers, AnnounceStart(a) PROVE ExcMarked' /\ WalkSafe'
  BY <1>1, <1>4 DEF AnnounceStart, ExcMarked, WalkSafe, ExcTypeOK
<1>5. ASSUME NEW a \in Announcers, AnnounceNext(a) PROVE ExcMarked' /\ WalkSafe'
  <2>1. PICK u \in Following(a) :
          /\ excCursor' = [excCursor EXCEPT ![a] = u]
          /\ excWalk' = [excWalk EXCEPT ![a] = IF u = NoUser THEN "end" ELSE "callback"]
    BY <1>5 DEF AnnounceNext
  <2>2. /\ excWalk[a] \in {"first", "callback"}
        /\ UNCHANGED <<exceptionActive, exceptionUserList, onList>>
    BY <1>5 DEF AnnounceNext
  <2>3. excWalk[a] = "callback" => Contains(exceptionUserList, excCursor[a])
    BY <1>1 DEF WalkSafe, ListMatches, ExcTypeOK
  <2>4. u \in Users \cup {NoUser} /\ (u = NoUser \/ Contains(exceptionUserList, u))
    BY <1>1, <2>2, <2>3, ExcFollowingNode
  <2>5. u # NoUser => onList[u]
    BY <1>1, <2>4 DEF ListMatches
  <2>6. ExcMarked'
    BY <1>1, <2>1, <2>2 DEF ExcMarked, ExcTypeOK
  <2>7. WalkSafe'
    BY <1>1, <2>1, <2>2, <2>5 DEF WalkSafe, ExcTypeOK
  <2> QED BY <2>6, <2>7
<1>6. ASSUME NEW a \in Announcers, AnnounceEnd(a) PROVE ExcMarked' /\ WalkSafe'
  <2>1. \A b \in Announcers : excWalk'[b] = "idle"
    BY <1>1, <1>6 DEF AnnounceEnd, OneAnnouncer, ExcTypeOK
  <2> QED BY <2>1 DEF ExcMarked, WalkSafe
<1>7. CASE UNCHANGED excVars
  BY <1>7 DEF excVars, ExcMarked, WalkSafe
<1> QED BY <1>2, <1>3, <1>4, <1>5, <1>6, <1>7 DEF ExcNext

LEMMA ExcWalkInvariant ==
  ASSUME OneAnnouncer
  PROVE  ExcSpec => []ExcWalkInv
<1>1. ExcInit => ExcWalkInv
  BY ExcInitInv DEF ExcInit, ExcWalkInv, ExcMarked, WalkSafe
<1>2. ExcWalkInv /\ [ExcNext]_excVars => ExcWalkInv'
  BY ExcNextWalkInv
<1> QED BY <1>1, <1>2, PTL DEF ExcSpec

\* As long as one thread at a time announces exceptions, no callback is called
\* for an asynUser that has left the list: its node is freed too late to matter.
THEOREM CallbacksSafe ==
  ASSUME OneAnnouncer
  PROVE  ExcSpec => []WalkSafe
<1>1. ExcWalkInv => WalkSafe
  BY DEF ExcWalkInv
<1> QED BY <1>1, ExcWalkInvariant, PTL

\* And the list does not change under the walk.
THEOREM ExcListFrozen ==
  ASSUME OneAnnouncer
  PROVE  ExcSpec => WalkFrozen
<1> DEFINE Step == (\E a \in Announcers : excWalk[a] # "idle" /\ excWalk'[a] # "idle")
                     => UNCHANGED exceptionUserList
<1>1. ExcWalkInv /\ [ExcNext]_excVars => [Step]_excVars
  <2> SUFFICES ASSUME ExcWalkInv, ExcNext, \E a \in Announcers : excWalk[a] # "idle"
               PROVE  UNCHANGED exceptionUserList
    BY DEF excVars
  <2>1. exceptionActive
    BY DEF ExcWalkInv, ExcMarked
  <2> QED BY <2>1 DEF ExcNext, ExceptionCallbackAdd, ExceptionCallbackRemove, Busy,
             WaitForEnd, WaitNotified, AnnounceStart, AnnounceNext, AnnounceEnd
<1> QED BY <1>1, ExcWalkInvariant, PTL DEF ExcSpec, WalkFrozen
=============================================================================
