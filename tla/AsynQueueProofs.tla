--------------------------- MODULE AsynQueueProofs ---------------------------
(***************************************************************************)
(* Proofs about AsynQueue, for any number of asynUsers and addresses and   *)
(* whatever the bounds: the queues agree with isQueued, block holders are  *)
(* never left behind, a blocked port serves its holder only, no wakeup of  *)
(* the port thread is lost, cancelRequest waits and freed asynUsers are    *)
(* out of use, and the port keeps the promise that AsynPort states.        *)
(***************************************************************************)
EXTENDS AsynQueue, ListLemmas, TLAPS

----------------------------------------------------------------------------
(* The inductive invariant.                                                 *)

\* Every list has an asynUser once at most, no two lists have the same one, and
\* isQueued says whether one has it.
Queues ==
  /\ \A p \in Priorities : IsInjective(queueList[p])
  /\ \A u \in Users : \A p, q \in Priorities :
       Contains(queueList[p], u) /\ Contains(queueList[q], u) => p = q
  /\ \A u \in Users : isQueued[u] <=> \E p \in Priorities : Contains(queueList[p], u)

\* An asynUser that is freed from its callback is marked, and one that was freed
\* is not queued.
FreeMarked ==
  \A u \in Users : /\ freeAfterCallback[u] <=> live[u] = "freeing"
                   /\ live[u] # "live" => ~isQueued[u]

\* The scan is at an element, and nobody took it off since the lock was released.
ScanPosition == /\ ptPc \in {"element", "autoElement"} => ptPos >= 1
                /\ ScanElementQueued

IInv == /\ TypeOK /\ Queues /\ FreeMarked /\ ScanPosition
        /\ HolderBlocks /\ BlockedServesHolder

LEMMA QueuesConsistent == TypeOK /\ Queues => QueueConsistent
<1> SUFFICES ASSUME TypeOK, Queues, NEW u \in Users
             PROVE  /\ isQueued[u] <=> \E p \in Priorities :
                                         \E i \in DOMAIN queueList[p] : queueList[p][i] = u
                    /\ \A p, q \in Priorities :
                         \A i \in DOMAIN queueList[p], j \in DOMAIN queueList[q] :
                           queueList[p][i] = u /\ queueList[q][j] = u => p = q /\ i = j
  BY DEF QueueConsistent
<1>1. \A p \in Priorities : Contains(queueList[p], u)
        <=> \E i \in DOMAIN queueList[p] : queueList[p][i] = u
  <2> SUFFICES ASSUME NEW p \in Priorities
               PROVE  Contains(queueList[p], u)
                        <=> \E i \in DOMAIN queueList[p] : queueList[p][i] = u
    OBVIOUS
  <2>1. queueList[p] \in Seq(Users) /\ DOMAIN queueList[p] = 1..Len(queueList[p])
    BY DEF TypeOK
  <2> QED BY <2>1 DEF Contains
<1>2. isQueued[u] <=> \E p \in Priorities :
                       \E i \in DOMAIN queueList[p] : queueList[p][i] = u
  BY <1>1 DEF Queues
<1>3. ASSUME NEW p \in Priorities, NEW q \in Priorities,
             NEW i \in DOMAIN queueList[p], NEW j \in DOMAIN queueList[q],
             queueList[p][i] = u, queueList[q][j] = u
      PROVE  p = q /\ i = j
  <2>1. p = q
    BY <1>1, <1>3 DEF Queues
  <2>2. IsInjective(queueList[p])
    BY DEF Queues
  <2> QED BY <1>3, <2>1, <2>2 DEF IsInjective
<1> QED BY <1>2, <1>3

----------------------------------------------------------------------------
(* What the changes of the queues do.                                       *)

\* cancelRequest, queueTimeoutCallback and the port thread take a request off.
LEMMA Dequeued ==
  ASSUME TypeOK, Queues, NEW u \in Users, queueList' = Dequeue(u),
         isQueued' = [isQueued EXCEPT ![u] = FALSE]
  PROVE  /\ queueList' \in [Priorities -> Seq(Users)]
         /\ isQueued' \in [Users -> BOOLEAN]
         /\ Queues'
         /\ \A p \in Priorities : \A x : Contains(queueList'[p], x) => Contains(queueList[p], x)
<1>1. \A p \in Priorities :
        /\ queueList'[p] \in Seq(Users) /\ IsInjective(queueList'[p])
        /\ \A x : Contains(queueList'[p], x) <=> Contains(queueList[p], x) /\ x # u
  <2> SUFFICES ASSUME NEW p \in Priorities
               PROVE  /\ queueList'[p] \in Seq(Users) /\ IsInjective(queueList'[p])
                      /\ \A x : Contains(queueList'[p], x)
                                  <=> Contains(queueList[p], x) /\ x # u
    OBVIOUS
  <2>1. queueList'[p] = RemoveFirst(queueList[p], u)
    BY DEF Dequeue
  <2>2. queueList[p] \in Seq(Users) /\ IsInjective(queueList[p])
    BY DEF TypeOK, Queues
  <2> QED BY <2>1, <2>2, RemoveFirstLemma
<1>2. queueList' \in [Priorities -> Seq(Users)]
  BY <1>1 DEF Dequeue
<1>3. /\ isQueued' \in [Users -> BOOLEAN]
      /\ \A v \in Users : isQueued'[v] <=> isQueued[v] /\ v # u
  BY DEF TypeOK
<1> QED BY <1>1, <1>2, <1>3 DEF Queues

\* queueRequest puts a request in front or at the end of a list.
LEMMA Enqueued ==
  ASSUME TypeOK, Queues, NEW u \in Users, NEW r \in Priorities, ~isQueued[u],
         queueList' = [queueList EXCEPT
                         ![r] = IF AddToFront(u) THEN <<u>> \o @ ELSE Append(@, u)],
         isQueued' = [isQueued EXCEPT ![u] = TRUE]
  PROVE  /\ queueList' \in [Priorities -> Seq(Users)]
         /\ isQueued' \in [Users -> BOOLEAN]
         /\ Queues'
<1>1. \A p \in Priorities : /\ queueList[p] \in Seq(Users) /\ IsInjective(queueList[p])
                            /\ ~Contains(queueList[p], u)
  BY DEF TypeOK, Queues
<1> DEFINE new == IF AddToFront(u) THEN <<u>> \o queueList[r] ELSE Append(queueList[r], u)
<1>2. queueList' = [queueList EXCEPT ![r] = new]
  OBVIOUS
<1>3. /\ new \in Seq(Users) /\ IsInjective(new)
      /\ \A x : Contains(new, x) <=> Contains(queueList[r], x) \/ x = u
  BY <1>1, AppendLemma, PrependLemma
<1> HIDE DEF new
<1>4. \A p \in Priorities :
        /\ queueList'[p] \in Seq(Users) /\ IsInjective(queueList'[p])
        /\ \A x : Contains(queueList'[p], x)
                    <=> Contains(queueList[p], x) \/ (x = u /\ p = r)
  BY <1>1, <1>2, <1>3, ZenonT(60) DEF TypeOK
<1>5. queueList' \in [Priorities -> Seq(Users)]
  BY <1>2, <1>4 DEF TypeOK
<1>6. /\ isQueued' \in [Users -> BOOLEAN]
      /\ \A v \in Users : isQueued'[v] <=> isQueued[v] \/ v = u
  BY DEF TypeOK
<1> QED BY <1>1, <1>4, <1>5, <1>6 DEF Queues

\* The scan finds queued asynUsers.
LEMMA WaitingQueued ==
  ASSUME TypeOK, Queues
  PROVE  /\ Waiting \in Seq(Users)
         /\ \A i \in 1..Len(Waiting) : Waiting[i] \in Users /\ isQueued[Waiting[i]]
<1> DEFINE h == queueList["high"]
           m == queueList["medium"]
           l == queueList["low"]
<1>1. h \in Seq(Users) /\ m \in Seq(Users) /\ l \in Seq(Users)
  BY DEF TypeOK, Priorities
<1>2. \A u \in Users : Contains(h, u) \/ Contains(m, u) \/ Contains(l, u) => isQueued[u]
  BY DEF Queues, Priorities
<1>3. Waiting = h \o m \o l
  BY DEF Waiting
<1> HIDE DEF h, m, l
<1>4. /\ h \o m \in Seq(Users)
      /\ \A i \in 1..Len(h \o m) : Contains(h, (h \o m)[i]) \/ Contains(m, (h \o m)[i])
  BY <1>1, ConcatLemma
<1>5. /\ Waiting \in Seq(Users)
      /\ \A i \in 1..Len(Waiting) : Contains(h \o m, Waiting[i]) \/ Contains(l, Waiting[i])
  BY <1>1, <1>3, <1>4, ConcatLemma
<1>6. \A x : Contains(h \o m, x) => Contains(h, x) \/ Contains(m, x)
  BY <1>4 DEF Contains
<1> QED BY <1>2, <1>5, <1>6

\* The first connect request is a queued asynUser.
LEMMA ConnectQueued ==
  ASSUME TypeOK, Queues, queueList["connect"] # <<>>
  PROVE  /\ Head(queueList["connect"]) \in Users
         /\ isQueued[Head(queueList["connect"])]
<1> DEFINE c == queueList["connect"]
<1>1. c \in Seq(Users) /\ c # <<>>
  BY DEF TypeOK, Priorities
<1>2. \A u \in Users : Contains(c, u) => isQueued[u]
  BY DEF Queues, Priorities
<1> HIDE DEF c
<1>3. Head(c) \in Users /\ Contains(c, Head(c))
  <2>1. Len(c) \in Nat /\ Len(c) # 0 /\ Head(c) = c[1]
    BY <1>1
  <2>2. 1 \in 1..Len(c)
    BY <2>1
  <2> QED BY <1>1, <2>1, <2>2 DEF Contains
<1> QED BY <1>2, <1>3 DEF c

----------------------------------------------------------------------------
(* Each step preserves the invariant.                                       *)

LEMMA InitIInv == Init => IInv
<1> SUFFICES ASSUME Init PROVE IInv
  OBVIOUS
<1>1. TypeOK
  <2>1. <<>> \in Seq(Users)
    OBVIOUS
  <2> QED BY <2>1 DEF Init, TypeOK
<1>2. Queues
  <2>1. \A p \in Priorities : queueList[p] = <<>> /\ DOMAIN queueList[p] = {}
    BY DEF Init
  <2> QED BY <2>1 DEF Init, Queues, IsInjective, Contains
<1>3. FreeMarked /\ ScanPosition
  BY DEF Init, FreeMarked, ScanPosition, ScanElementQueued
<1>4. HolderBlocks /\ BlockedServesHolder
  BY DEF Init, HolderBlocks, BlockedServesHolder
<1> QED BY <1>1, <1>2, <1>3, <1>4 DEF IInv

\* The port thread takes a request off; its callback comes next.
LEMMA Taken ==
  ASSUME IInv, NEW u \in Users, TakeRequest(u), ptPc \in {"connects", "element", "autoElement"},
         ptConnect' \in BOOLEAN, callTimeoutUser' \in BOOLEAN,
         ptPos' \in Nat, ptConnect' \/ Unblocked(u),
         UNCHANGED <<blockVars, linkVars, wakeVars, timerVars, ownerVars, requests, frees>>
  PROVE  IInv'
<1> USE DEF IInv, TakeRequest, userVars, blockVars, linkVars, wakeVars, timerVars, ownerVars
<1>1. /\ queueList' \in [Priorities -> Seq(Users)]
      /\ isQueued' \in [Users -> BOOLEAN]
      /\ Queues'
  BY Dequeued
<1>2. TypeOK'
  BY <1>1 DEF TypeOK
<1>3. FreeMarked' /\ ScanPosition'
  BY DEF FreeMarked, ScanPosition, ScanElementQueued, TypeOK
<1>4. HolderBlocks' /\ BlockedServesHolder'
  BY DEF HolderBlocks, BlockedServesHolder, Unblocked
<1> QED BY <1>1, <1>2, <1>3, <1>4

LEMMA TakenOrSkipped ==
  ASSUME IInv, ptPc \in {"element", "autoElement"}, NEW u \in Users, NEW up \in BOOLEAN,
         TakeOrSkip(u, up),
         UNCHANGED <<blockVars, linkVars, wakeVars, timerVars, ownerVars, requests, frees>>
  PROVE  IInv'
<1>1. callTimeoutUser' \in BOOLEAN
  <2>1. (callTimeoutUser \/ (~up /\ u \in TimeoutUsers)) \in BOOLEAN
    OBVIOUS
  <2> QED BY <2>1 DEF TakeOrSkip
<1>2. CASE Unblocked(u)
  <2>1. /\ TakeRequest(u)
        /\ ptConnect' = FALSE /\ ptPos' = 0
    BY <1>2 DEF TakeOrSkip
  <2> QED BY <1>1, <1>2, <2>1, Taken
<1>3. CASE ~Unblocked(u)
  <2> USE DEF IInv, userVars, blockVars, linkVars, wakeVars, timerVars, ownerVars
  <2>1. /\ ptPos' = ptPos + 1 /\ ptPc' = "element"
        /\ UNCHANGED <<userVars, queueList, ptUser, ptConnect>>
    BY <1>3 DEF TakeOrSkip
  <2>2. TypeOK'
    BY <1>1, <2>1 DEF TypeOK
  <2>3. Queues' /\ FreeMarked' /\ ScanPosition'
    BY <2>1 DEF Queues, FreeMarked, ScanPosition, ScanElementQueued, TypeOK
  <2>4. HolderBlocks' /\ BlockedServesHolder'
    BY <2>1 DEF HolderBlocks, BlockedServesHolder
  <2> QED BY <2>2, <2>3, <2>4
<1> QED BY <1>2, <1>3

LEMMA NextIInv == IInv /\ [Next]_vars => IInv'
<1> SUFFICES ASSUME IInv, [Next]_vars PROVE IInv'
  OBVIOUS
<1> USE DEF IInv, userVars, blockVars, linkVars, wakeVars, portVars, timerVars, ownerVars
<1>1. ASSUME NEW u \in Users, NEW p \in RequestPriorities,
             NEW withTimeout \in BOOLEAN, NEW evenIfDown \in BOOLEAN,
             QueueRequest(u, p, withTimeout, evenIfDown)
      PROVE  IInv'
  <2> USE <1>1 DEF QueueRequest, QueueChanged, Started, LockFree, Holding
  <2>1. p \in Priorities
    BY QueueAssumption
  <2>2. /\ queueList' \in [Priorities -> Seq(Users)]
        /\ isQueued' \in [Users -> BOOLEAN]
        /\ Queues'
    BY <2>1, Enqueued
  <2>3. TypeOK'
    <3>1. timed' \in [Users -> BOOLEAN]
      BY DEF TypeOK
    <3>2. timer' \in [Users -> {"off", "armed", "firing", "rearmed"}]
      BY DEF TypeOK
    <3>3. requests' \in Nat
      BY DEF TypeOK
    <3>4. UNCHANGED <<state, freeAfterCallback, callbackDone, live, blockVars, linkVars,
                      portVars, tmPc, tmUser, ownerVars, frees>>
      OBVIOUS
    <3>5. {queueStateChange', notifyPortThread'} \subseteq BOOLEAN
      OBVIOUS
    <3> HIDE DEF QueueRequest
    <3> QED BY <2>2, <3>1, <3>2, <3>3, <3>4, <3>5 DEF TypeOK
  <2>4. Queues'
    BY <2>2
  <2>5. FreeMarked'
    BY DEF FreeMarked, TypeOK, MayCall
  <2>6. ScanPosition'
    BY DEF ScanPosition, ScanElementQueued
  <2>7. HolderBlocks' /\ BlockedServesHolder'
    BY DEF HolderBlocks, BlockedServesHolder
  <2> QED BY <2>3, <2>4, <2>5, <2>6, <2>7
<1>2. ASSUME NEW u \in Users, CancelQueued(u)
      PROVE  IInv'
  <2> USE <1>2 DEF CancelQueued, QueueChanged, LockFree, Holding
  <2>1. /\ queueList' \in [Priorities -> Seq(Users)]
        /\ isQueued' \in [Users -> BOOLEAN]
        /\ Queues'
    BY Dequeued
  <2>2. TypeOK'
    <3>1. watch' \in [Users -> SUBSET {"port", "timer"}]
      BY DEF TypeOK
    <3> QED BY <2>1, <3>1 DEF TypeOK
  <2>3. Queues'
    BY <2>1
  <2>4. FreeMarked'
    BY DEF FreeMarked, TypeOK
  <2>5. ScanPosition'
    BY DEF ScanPosition, ScanElementQueued
  <2>6. HolderBlocks' /\ BlockedServesHolder'
    BY DEF HolderBlocks, BlockedServesHolder
  <2> QED BY <2>2, <2>3, <2>4, <2>5, <2>6
<1>3. ASSUME NEW u \in Users, CancelStopTimer(u)
      PROVE  IInv'
  <2> USE <1>3 DEF CancelStopTimer
  <2>1. TypeOK'
    <3>1. \E t \in {"off", "firing"} : timer' = [timer EXCEPT ![u] = t]
      OBVIOUS
    <3>2. timer' \in [Users -> {"off", "armed", "firing", "rearmed"}]
      BY <3>1 DEF TypeOK
    <3>3. UNCHANGED owner \/ owner' = [owner EXCEPT ![u] = "signal"]
      OBVIOUS
    <3>5. UNCHANGED <<userVars, blockVars, linkVars, wakeVars, portVars, tmPc, tmUser,
                      watch, queueList, requests, frees>>
      OBVIOUS
    <3> HIDE DEF CancelStopTimer
    <3>4. owner' \in [Users -> {"idle", "stopTimer", "signal", "waitDone", "returned"}]
      <4>1. owner \in [Users -> {"idle", "stopTimer", "signal", "waitDone", "returned"}]
        BY DEF TypeOK
      <4> QED BY <3>3, <4>1
    <3> QED BY <3>2, <3>4, <3>5 DEF TypeOK
  <2>2. Queues' /\ FreeMarked' /\ ScanPosition'
    BY DEF Queues, FreeMarked, ScanPosition, ScanElementQueued, Waiting, TypeOK
  <2>3. HolderBlocks' /\ BlockedServesHolder'
    BY DEF HolderBlocks, BlockedServesHolder
  <2> QED BY <2>1, <2>2, <2>3
<1>4. ASSUME NEW u \in Users, CancelSignal(u)
      PROVE  IInv'
  <2> USE <1>4 DEF CancelSignal
  <2>1. TypeOK'
    BY DEF TypeOK
  <2>2. Queues' /\ FreeMarked' /\ ScanPosition'
    BY DEF Queues, FreeMarked, ScanPosition, ScanElementQueued, Waiting, TypeOK
  <2>3. HolderBlocks' /\ BlockedServesHolder'
    BY DEF HolderBlocks, BlockedServesHolder
  <2> QED BY <2>1, <2>2, <2>3
<1>5. ASSUME NEW u \in Users, CancelActive(u)
      PROVE  IInv'
  <2> USE <1>5 DEF CancelActive
  <2>1. TypeOK'
    BY DEF TypeOK
  <2>2. Queues' /\ FreeMarked' /\ ScanPosition'
    BY DEF Queues, FreeMarked, ScanPosition, ScanElementQueued, Waiting, TypeOK
  <2>3. HolderBlocks' /\ BlockedServesHolder'
    BY DEF HolderBlocks, BlockedServesHolder
  <2> QED BY <2>1, <2>2, <2>3
<1>6. ASSUME NEW u \in Users, CancelWake(u)
      PROVE  IInv'
  <2> USE <1>6 DEF CancelWake
  <2>1. TypeOK'
    BY DEF TypeOK
  <2>2. Queues' /\ FreeMarked' /\ ScanPosition'
    BY DEF Queues, FreeMarked, ScanPosition, ScanElementQueued, Waiting, TypeOK
  <2>3. HolderBlocks' /\ BlockedServesHolder'
    BY DEF HolderBlocks, BlockedServesHolder
  <2> QED BY <2>1, <2>2, <2>3
<1>7. ASSUME NEW u \in Users, CancelReturn(u)
      PROVE  IInv'
  <2> USE <1>7 DEF CancelReturn
  <2>1. TypeOK'
    BY DEF TypeOK
  <2>2. Queues' /\ FreeMarked' /\ ScanPosition'
    BY DEF Queues, FreeMarked, ScanPosition, ScanElementQueued, Waiting, TypeOK
  <2>3. HolderBlocks' /\ BlockedServesHolder'
    BY DEF HolderBlocks, BlockedServesHolder
  <2> QED BY <2>1, <2>2, <2>3
<1>8. ASSUME NEW u \in Users, NEW all \in BOOLEAN, BlockProcessCallback(u, all) PROVE IInv'
  <2> USE DEF BlockProcessCallback
  <2>1. /\ blockPortCount' \in [Users -> Nat] /\ blockDeviceCount' \in [Users -> Nat]
        /\ \A v \in Users : /\ blockPortCount'[v] >= blockPortCount[v]
                            /\ blockDeviceCount'[v] >= blockDeviceCount[v]
    <3>1. CASE all
      <4>1. /\ blockPortCount' = [blockPortCount EXCEPT ![u] = blockPortCount[u] + 1]
            /\ UNCHANGED blockDeviceCount
        BY <1>8, <3>1, Zenon
      <4> QED BY <4>1 DEF TypeOK
    <3>2. CASE ~all
      <4>1. /\ blockDeviceCount' = [blockDeviceCount EXCEPT ![u] = blockDeviceCount[u] + 1]
            /\ UNCHANGED blockPortCount
        BY <1>8, <3>2, Zenon
      <4> QED BY <4>1 DEF TypeOK
    <3> QED BY <3>1, <3>2
  <2>2. TypeOK
    OBVIOUS
  <2>3. blockPortCount' \in [Users -> Nat] /\ blockDeviceCount' \in [Users -> Nat]
    BY <2>1
  <2>4. UNCHANGED <<userVars, pblockProcessHolder, dpcHolder, linkVars, wakeVars,
                    portVars, timerVars, ownerVars, queueList, requests, frees>>
    BY <1>8
  <2> HIDE DEF BlockProcessCallback, IInv
  <2>5. TypeOK'
    BY <2>3, <2>4, <2>2, SMTT(30) DEF TypeOK
  <2>6. Queues' /\ FreeMarked' /\ ScanPosition'
    BY <2>4 DEF IInv, Queues, FreeMarked, ScanPosition, ScanElementQueued, Waiting
  <2>7. HolderBlocks'
    BY <2>1, <2>4 DEF IInv, TypeOK, HolderBlocks
  <2>8. BlockedServesHolder'
    BY <2>4 DEF IInv, BlockedServesHolder
  <2> QED BY <2>5, <2>6, <2>7, <2>8 DEF IInv
<1>9. ASSUME NEW u \in Users, UnblockPort(u)
      PROVE  IInv'
  <2> USE <1>9 DEF UnblockPort, Signalled
  <2>1. /\ blockPortCount' \in [Users -> Nat]
        /\ pblockProcessHolder' \in Users \cup {NoUser}
    BY DEF TypeOK
  <2>2. notifyPortThread' \in BOOLEAN
    BY DEF TypeOK
  <2>3. UNCHANGED <<userVars, blockDeviceCount, dpcHolder, linkVars, queueStateChange,
                    portVars, timerVars, ownerVars, queueList, requests, frees>>
    OBVIOUS
  <2>4. TypeOK'
    <3> HIDE DEF UnblockPort
    <3> QED BY <2>1, <2>2, <2>3, SMTT(30) DEF TypeOK
  <2>5. HolderBlocks'
    BY DEF TypeOK, HolderBlocks
  <2>6. BlockedServesHolder'
    BY DEF TypeOK, BlockedServesHolder
  <2>7. Queues' /\ FreeMarked' /\ ScanPosition'
    BY DEF Queues, FreeMarked, ScanPosition, ScanElementQueued, Waiting, TypeOK
  <2> QED BY <2>4, <2>5, <2>6, <2>7
<1>10. ASSUME NEW u \in Users, UnblockDevice(u)
      PROVE  IInv'
  <2> USE <1>10 DEF UnblockDevice, Signalled
  <2> DEFINE new == IF blockDeviceCount[u] = 1 /\ dpcHolder[DeviceOf[u]] = u
                    THEN NoUser ELSE dpcHolder[DeviceOf[u]]
  <2>1. DeviceOf[u] \in Dpcs
    BY QueueAssumption
  <2>2. /\ dpcHolder' = [dpcHolder EXCEPT ![DeviceOf[u]] = new]
        /\ new \in Users \cup {NoUser}
    BY <2>1 DEF TypeOK
  <2>3. TypeOK'
    <3>1. blockDeviceCount' \in [Users -> Nat]
      BY DEF TypeOK
    <3>2. notifyPortThread' \in BOOLEAN
      BY DEF TypeOK
    <3>3. UNCHANGED <<userVars, blockPortCount, pblockProcessHolder, linkVars,
                      queueStateChange, portVars, timerVars, ownerVars, queueList,
                      requests, frees>>
      OBVIOUS
    <3> HIDE DEF UnblockDevice, new
    <3>4. dpcHolder' \in [Dpcs -> Users \cup {NoUser}]
      BY <2>2 DEF TypeOK
    <3> QED BY <3>1, <3>2, <3>3, <3>4, SMTT(30) DEF TypeOK
  <2>4. HolderBlocks'
    BY <2>1, <2>2 DEF TypeOK, HolderBlocks
  <2>5. BlockedServesHolder'
    BY <2>1, <2>2 DEF TypeOK, BlockedServesHolder
  <2>6. Queues' /\ FreeMarked' /\ ScanPosition'
    BY DEF Queues, FreeMarked, ScanPosition, ScanElementQueued, Waiting, TypeOK
  <2> QED BY <2>3, <2>4, <2>5, <2>6
<1>11. ASSUME NEW u \in Users, FreeAsynUser(u)
      PROVE  IInv'
  <2> USE <1>11 DEF FreeAsynUser, Freed
  <2>1. FreeMarked'
    BY ZenonT(60) DEF FreeMarked, TypeOK
  <2>2. TypeOK'
    BY DEF TypeOK
  <2>3. Queues' /\ ScanPosition'
    BY DEF Queues, ScanPosition, ScanElementQueued, Waiting
  <2>4. HolderBlocks' /\ BlockedServesHolder'
    BY DEF HolderBlocks, BlockedServesHolder
  <2> QED BY <2>1, <2>2, <2>3, <2>4
<1>12. ASSUME NEW u \in Users, CreateAsynUser(u)
      PROVE  IInv'
  <2> USE <1>12 DEF CreateAsynUser
  <2>1. isQueued' = isQueued
    BY DEF FreeMarked, TypeOK
  <2>2. TypeOK'
    BY DEF TypeOK
  <2>3. Queues'
    BY <2>1 DEF Queues
  <2>4. FreeMarked'
    BY DEF FreeMarked, TypeOK
  <2>5. ScanPosition'
    BY DEF ScanPosition, ScanElementQueued, Waiting
  <2>6. HolderBlocks' /\ BlockedServesHolder'
    BY DEF HolderBlocks, BlockedServesHolder
  <2> QED BY <2>2, <2>3, <2>4, <2>5, <2>6
<1>13. ASSUME NEW d \in Dpcs, ExceptionConnect(d)
      PROVE  IInv'
  <2> USE <1>13 DEF ExceptionConnect
  <2>1. TypeOK'
    BY DEF TypeOK
  <2>2. Queues' /\ FreeMarked' /\ ScanPosition'
    BY DEF Queues, FreeMarked, ScanPosition, ScanElementQueued, Waiting, TypeOK
  <2>3. HolderBlocks' /\ BlockedServesHolder'
    BY DEF HolderBlocks, BlockedServesHolder
  <2> QED BY <2>1, <2>2, <2>3
<1>14. ASSUME NEW d \in Dpcs, ExceptionDisconnect(d)
      PROVE  IInv'
  <2> USE <1>14 DEF ExceptionDisconnect
  <2>1. TypeOK'
    BY DEF TypeOK
  <2>2. Queues' /\ FreeMarked' /\ ScanPosition'
    BY DEF Queues, FreeMarked, ScanPosition, ScanElementQueued, Waiting, TypeOK
  <2>3. HolderBlocks' /\ BlockedServesHolder'
    BY DEF HolderBlocks, BlockedServesHolder
  <2> QED BY <2>1, <2>2, <2>3
<1>15. ASSUME NEW d \in Dpcs, NEW yesNo \in BOOLEAN, Enable(d, yesNo)
      PROVE  IInv'
  <2> USE <1>15 DEF Enable
  <2>1. TypeOK'
    BY DEF TypeOK
  <2>2. Queues' /\ FreeMarked' /\ ScanPosition'
    BY DEF Queues, FreeMarked, ScanPosition, ScanElementQueued, Waiting, TypeOK
  <2>3. HolderBlocks' /\ BlockedServesHolder'
    BY DEF HolderBlocks, BlockedServesHolder
  <2> QED BY <2>1, <2>2, <2>3
<1>16. ASSUME AnnounceExceptionOccurred
      PROVE  IInv'
  <2> USE <1>16 DEF AnnounceExceptionOccurred
  <2>1. {announcing', queueStateChange', notifyPortThread'} \subseteq BOOLEAN
    OBVIOUS
  <2>2. TypeOK'
    BY <2>1 DEF TypeOK
  <2>3. ScanPosition'
    BY DEF ScanPosition, ScanElementQueued
  <2>4. Queues' /\ FreeMarked'
    BY DEF Queues, FreeMarked, TypeOK
  <2>5. HolderBlocks' /\ BlockedServesHolder'
    BY DEF HolderBlocks, BlockedServesHolder
  <2> QED BY <2>2, <2>3, <2>4, <2>5
<1>17. ASSUME PortWake
      PROVE  IInv'
  <2> USE <1>17 DEF PortWake
  <2>1. TypeOK'
    BY DEF TypeOK
  <2>2. Queues' /\ FreeMarked' /\ ScanPosition'
    BY DEF Queues, FreeMarked, ScanPosition, ScanElementQueued, Waiting, TypeOK
  <2>3. HolderBlocks' /\ BlockedServesHolder'
    BY DEF HolderBlocks, BlockedServesHolder
  <2> QED BY <2>1, <2>2, <2>3
<1>18. ASSUME PortTop
      PROVE  IInv'
  <2> USE <1>18 DEF PortTop
  <2>1. TypeOK'
    BY DEF TypeOK
  <2>2. Queues' /\ FreeMarked' /\ ScanPosition'
    BY DEF Queues, FreeMarked, ScanPosition, ScanElementQueued, Waiting, TypeOK
  <2>3. HolderBlocks' /\ BlockedServesHolder'
    BY DEF HolderBlocks, BlockedServesHolder
  <2> QED BY <2>1, <2>2, <2>3
<1>19. ASSUME PortTakeConnect PROVE IInv'
  <2> USE <1>19 DEF PortTakeConnect
  <2> DEFINE u == Head(queueList["connect"])
  <2>1. u \in Users
    BY ConnectQueued
  <2>2. TakeRequest(u)
    OBVIOUS
  <2>3. /\ ptPc = "connects" /\ ptPos' \in Nat
        /\ ptConnect' /\ ~callTimeoutUser'
        /\ {ptConnect', callTimeoutUser'} \subseteq BOOLEAN
        /\ UNCHANGED <<blockVars, linkVars, wakeVars, timerVars, ownerVars,
                       requests, frees>>
    BY DEF TypeOK
  <2> HIDE DEF u, PortTakeConnect, IInv
  <2> QED BY <2>1, <2>2, <2>3, Taken
<1>20. ASSUME PortConnectsDone
      PROVE  IInv'
  <2> USE <1>20 DEF PortConnectsDone
  <2>1. TypeOK'
    BY DEF TypeOK
  <2>2. Queues' /\ FreeMarked' /\ ScanPosition'
    BY DEF Queues, FreeMarked, ScanPosition, ScanElementQueued, Waiting, TypeOK
  <2>3. HolderBlocks' /\ BlockedServesHolder'
    BY DEF HolderBlocks, BlockedServesHolder
  <2> QED BY <2>1, <2>2, <2>3
<1>21. ASSUME PortAutoConnected
      PROVE  IInv'
  <2> USE <1>21 DEF PortAutoConnected
  <2>1. TypeOK'
    BY DEF TypeOK
  <2>2. Queues' /\ FreeMarked' /\ ScanPosition'
    BY DEF Queues, FreeMarked, ScanPosition, ScanElementQueued, Waiting, TypeOK
  <2>3. HolderBlocks' /\ BlockedServesHolder'
    BY DEF HolderBlocks, BlockedServesHolder
  <2> QED BY <2>1, <2>2, <2>3
<1>22. ASSUME PortScan
      PROVE  IInv'
  <2> USE <1>22 DEF PortScan
  <2>1. ScanPosition'
    BY DEF ScanPosition, ScanElementQueued
  <2>2. TypeOK'
    BY DEF TypeOK
  <2>3. Queues' /\ FreeMarked'
    BY DEF Queues, FreeMarked, TypeOK
  <2>4. HolderBlocks' /\ BlockedServesHolder'
    BY DEF HolderBlocks, BlockedServesHolder
  <2> QED BY <2>1, <2>2, <2>3, <2>4
<1>23. ASSUME PortElement PROVE IInv'
  <2> DEFINE u == Waiting[ptPos]
  <2>1. ptPos \in 1..Len(Waiting) /\ u \in Users
    BY <1>23, WaitingQueued DEF PortElement, TypeOK, ScanPosition
  <2>2. /\ ptPc = "element"
        /\ UNCHANGED <<blockVars, linkVars, wakeVars, timerVars, ownerVars, requests, frees>>
    BY <1>23 DEF PortElement
  <2>3. CASE TakeOrSkip(u, connected[DeviceOf[u]])
    <3>1. connected[DeviceOf[u]] \in BOOLEAN
      BY <2>1, QueueAssumption DEF TypeOK
    <3> QED BY <2>1, <2>2, <2>3, <3>1, TakenOrSkipped
  <2>4. CASE /\ ptPos' = ptPos + 1
             /\ UNCHANGED <<userVars, queueList, ptPc, ptUser, ptConnect, 
                            callTimeoutUser>>
    <3>1. TypeOK'
      BY <2>2, <2>4 DEF TypeOK
    <3>2. Queues' /\ FreeMarked' /\ ScanPosition'
      BY <2>2, <2>4 DEF Queues, FreeMarked, ScanPosition, ScanElementQueued, TypeOK
    <3>3. HolderBlocks' /\ BlockedServesHolder'
      BY <2>2, <2>4 DEF HolderBlocks, BlockedServesHolder
    <3> QED BY <3>1, <3>2, <3>3
  <2>5. CASE /\ ptPc' = "autoElement"
             /\ UNCHANGED <<userVars, queueList, ptPos, ptUser, ptConnect, 
                            callTimeoutUser>>
    <3>1. TypeOK'
      BY <2>2, <2>5 DEF TypeOK
    <3>2. Queues' /\ FreeMarked'
      BY <2>2, <2>5 DEF Queues, FreeMarked
    <3>3. ScanPosition'
      <4>1. UNCHANGED Waiting
        BY <2>5 DEF Waiting
      <4> QED BY <2>1, <2>2, <2>5, <4>1 DEF ScanPosition, ScanElementQueued, TypeOK
    <3>4. HolderBlocks' /\ BlockedServesHolder'
      BY <2>2, <2>5 DEF HolderBlocks, BlockedServesHolder
    <3> QED BY <3>1, <3>2, <3>3, <3>4
  <2> HIDE DEF IInv
  <2> QED BY <1>23, <2>3, <2>4, <2>5 DEF PortElement
<1>24. ASSUME PortElementAutoConnected PROVE IInv'
  <2>1. /\ ptPc = "autoElement"
        /\ UNCHANGED <<blockVars, linkVars, wakeVars, timerVars, ownerVars, requests, frees>>
    BY <1>24 DEF PortElementAutoConnected
  <2>2. CASE queueStateChange
    <3>1. /\ ptPc' = "wait" /\ ptPos' = 0
          /\ UNCHANGED <<userVars, queueList, ptUser, ptConnect, callTimeoutUser>>
      BY <1>24, <2>2 DEF PortElementAutoConnected
    <3>2. TypeOK'
      BY <2>1, <3>1 DEF TypeOK
    <3>3. Queues' /\ FreeMarked' /\ ScanPosition'
      BY <2>1, <3>1 DEF Queues, FreeMarked, ScanPosition, ScanElementQueued
    <3>4. HolderBlocks' /\ BlockedServesHolder'
      BY <2>1, <3>1 DEF HolderBlocks, BlockedServesHolder
    <3> QED BY <3>2, <3>3, <3>4
  <2>3. CASE ~queueStateChange
    <3> DEFINE u == Waiting[ptPos]
    <3>1. ptPos \in 1..Len(Waiting) /\ u \in Users
      BY <2>1, <2>3, WaitingQueued DEF TypeOK, ScanPosition, ScanElementQueued
    <3>2. TakeOrSkip(u, connected[DeviceOf[u]])
      BY <1>24, <2>3 DEF PortElementAutoConnected
    <3>3. connected[DeviceOf[u]] \in BOOLEAN
      BY <3>1, QueueAssumption DEF TypeOK
    <3> QED BY <2>1, <3>1, <3>2, <3>3, TakenOrSkipped
  <2> QED BY <2>2, <2>3
<1>25. ASSUME PortScanDone
      PROVE  IInv'
  <2> USE <1>25 DEF PortScanDone
  <2>1. TypeOK'
    BY DEF TypeOK
  <2>2. Queues' /\ FreeMarked' /\ ScanPosition'
    BY DEF Queues, FreeMarked, ScanPosition, ScanElementQueued, Waiting, TypeOK
  <2>3. HolderBlocks' /\ BlockedServesHolder'
    BY DEF HolderBlocks, BlockedServesHolder
  <2> QED BY <2>1, <2>2, <2>3
<1>26. ASSUME PortStopTimer
      PROVE  IInv'
  <2> USE <1>26 DEF PortStopTimer
  <2>1. TypeOK'
    <3>1. \E t \in {"off", "firing"} : timer' = [timer EXCEPT ![ptUser] = t]
      OBVIOUS
    <3>2. timer' \in [Users -> {"off", "armed", "firing", "rearmed"}]
      BY <3>1 DEF TypeOK
    <3>3. ptPc' \in {"stopTimer", "callback"} /\ ptUser \in Users
      BY DEF TypeOK
    <3> QED BY <3>2, <3>3 DEF TypeOK
  <2>2. BlockedServesHolder'
    BY DEF BlockedServesHolder
  <2>3. Queues' /\ FreeMarked' /\ ScanPosition'
    BY DEF Queues, FreeMarked, ScanPosition, ScanElementQueued, Waiting, TypeOK
  <2>4. HolderBlocks'
    BY DEF HolderBlocks
  <2> QED BY <2>1, <2>2, <2>3, <2>4
<1>27. ASSUME PortConnectCallbackDone
      PROVE  IInv'
  <2> USE <1>27 DEF PortConnectCallbackDone, FinishCallback, Signals
  <2>1. FreeMarked'
    BY DEF FreeMarked, TypeOK
  <2>2. TypeOK'
    BY DEF TypeOK
  <2>3. Queues' /\ ScanPosition'
    BY DEF Queues, ScanPosition, ScanElementQueued, Waiting
  <2>4. HolderBlocks' /\ BlockedServesHolder'
    BY DEF HolderBlocks, BlockedServesHolder
  <2> QED BY <2>1, <2>2, <2>3, <2>4
<1>28. ASSUME PortCallbackDone
      PROVE  IInv'
  <2> USE <1>28 DEF PortCallbackDone, FinishCallback, Signals, HolderAfter, AfterCallback
  <2>1. FreeMarked'
    BY DEF FreeMarked, TypeOK
  <2>2. HolderBlocks'
    <3>1. ptUser \in Users /\ DeviceOf[ptUser] \in Dpcs
      BY QueueAssumption DEF TypeOK
    <3>2. pblockProcessHolder' # NoUser => blockPortCount[pblockProcessHolder'] > 0
      BY DEF TypeOK, HolderBlocks
    <3>3. ASSUME NEW d \in Dpcs, dpcHolder'[d] # NoUser
          PROVE  blockDeviceCount[dpcHolder'[d]] > 0 /\ DeviceOf[dpcHolder'[d]] = d
      BY <3>1, <3>3 DEF TypeOK, HolderBlocks
    <3> QED BY <3>2, <3>3 DEF HolderBlocks
  <2>3. BlockedServesHolder'
    BY DEF BlockedServesHolder, AfterCallback
  <2>4. TypeOK'
    BY DEF TypeOK
  <2>5. Queues' /\ ScanPosition'
    BY DEF Queues, ScanPosition, ScanElementQueued, Waiting
  <2> QED BY <2>1, <2>2, <2>3, <2>4, <2>5
<1>29. ASSUME NEW u \in Users, TimerExpires(u)
      PROVE  IInv'
  <2> USE <1>29 DEF TimerExpires
  <2>1. TypeOK'
    BY DEF TypeOK
  <2>2. Queues' /\ FreeMarked' /\ ScanPosition'
    BY DEF Queues, FreeMarked, ScanPosition, ScanElementQueued, Waiting, TypeOK
  <2>3. HolderBlocks' /\ BlockedServesHolder'
    BY DEF HolderBlocks, BlockedServesHolder
  <2> QED BY <2>1, <2>2, <2>3
<1>30. ASSUME QueueTimeoutNotQueued
      PROVE  IInv'
  <2> USE <1>30 DEF QueueTimeoutNotQueued, Expired
  <2>1. TypeOK'
    BY DEF TypeOK
  <2>2. Queues' /\ FreeMarked' /\ ScanPosition'
    BY DEF Queues, FreeMarked, ScanPosition, ScanElementQueued, Waiting, TypeOK
  <2>3. HolderBlocks' /\ BlockedServesHolder'
    BY DEF HolderBlocks, BlockedServesHolder
  <2> QED BY <2>1, <2>2, <2>3
<1>31. ASSUME QueueTimeoutCallback
      PROVE  IInv'
  <2> USE <1>31 DEF QueueTimeoutCallback, QueueChanged, LockFree, Holding
  <2>0. tmUser \in Users
    BY DEF TypeOK
  <2>1. /\ queueList' \in [Priorities -> Seq(Users)]
        /\ isQueued' \in [Users -> BOOLEAN]
        /\ Queues'
    BY Dequeued, <2>0
  <2>3. TypeOK'
    BY <2>0, <2>1 DEF TypeOK
  <2>4. Queues'
    BY <2>1
  <2>5. FreeMarked'
    BY <2>0 DEF FreeMarked, TypeOK
  <2>6. ScanPosition'
    BY DEF ScanPosition, ScanElementQueued
  <2>7. HolderBlocks' /\ BlockedServesHolder'
    BY DEF HolderBlocks, BlockedServesHolder
  <2> QED BY <2>3, <2>4, <2>5, <2>6, <2>7
<1>32. ASSUME TimeoutCallbackDone
      PROVE  IInv'
  <2> USE <1>32 DEF TimeoutCallbackDone, FinishCallback, Signals, Expired
  <2>1. FreeMarked'
    BY DEF FreeMarked, TypeOK
  <2>2. TypeOK'
    BY DEF TypeOK
  <2>3. Queues' /\ ScanPosition'
    BY DEF Queues, ScanPosition, ScanElementQueued, Waiting
  <2>4. HolderBlocks' /\ BlockedServesHolder'
    BY DEF HolderBlocks, BlockedServesHolder
  <2> QED BY <2>1, <2>2, <2>3, <2>4
<1>33. CASE UNCHANGED vars
  <2> USE <1>33 DEF vars
  <2>1. TypeOK'
    BY DEF TypeOK
  <2>2. Queues' /\ FreeMarked' /\ ScanPosition'
    BY DEF Queues, FreeMarked, ScanPosition, ScanElementQueued, Waiting
  <2>3. HolderBlocks' /\ BlockedServesHolder'
    BY DEF HolderBlocks, BlockedServesHolder
  <2> QED BY <2>1, <2>2, <2>3
<1> HIDE DEF IInv
<1> QED BY <1>1, <1>2, <1>3, <1>4, <1>5, <1>6, <1>7, <1>8, <1>9, <1>10, <1>11,
           <1>12, <1>13, <1>14, <1>15, <1>16, <1>17, <1>18, <1>19, <1>20, <1>21,
           <1>22, <1>23, <1>24, <1>25, <1>26, <1>27, <1>28, <1>29, <1>30, <1>31,
           <1>32, <1>33
       DEF Next, ClientNext, LinkNext, PortNext, TimerNext

LEMMA Invariant == Spec => []IInv
BY InitIInv, NextIInv, PTL DEF Spec

\* The variables of the request queues keep their types.
THEOREM TypeCorrect == Spec => []TypeOK
<1>1. IInv => TypeOK
  BY DEF IInv
<1> QED BY <1>1, Invariant, PTL

\* isQueued tells whether a request is on a queue, where it is once: the asserts
\* of portThread hold and the LOGIC ERROR branches are never taken.
THEOREM QueuesAgree == Spec => []QueueConsistent
<1>1. IInv => QueueConsistent
  BY QueuesConsistent DEF IInv
<1> QED BY <1>1, Invariant, PTL

\* When the port thread comes back from autoConnectDevice and nobody changed the
\* queues, the element its scan was at is still queued.
THEOREM ScanSafe == Spec => []ScanElementQueued
<1>1. IInv => ScanElementQueued
  BY DEF IInv, ScanPosition
<1> QED BY <1>1, Invariant, PTL

\* Who holds the port or a device has asked for that and not yet unblocked.
THEOREM HoldersBlock == Spec => []HolderBlocks
<1>1. IInv => HolderBlocks
  BY DEF IInv
<1> QED BY <1>1, Invariant, PTL

\* A blocked port or device serves no request but its holder's.
THEOREM BlockingWorks == Spec => []BlockedServesHolder
<1>1. IInv => BlockedServesHolder
  BY DEF IInv
<1> QED BY <1>1, Invariant, PTL


----------------------------------------------------------------------------
(* No lost wakeup.                                                          *)

\* Somebody has signalled the port thread or is about to.
Coming ==
  \/ notifyPortThread \/ announcing \/ tmPc = "callback"
  \/ \E u \in Users : owner[u] \in {"stopTimer", "signal"}

\* From the start of a scan to the end of the callback it leads to.
Scanning == \/ ptPc \in {"element", "autoElement"}
            \/ ptPc \in {"stopTimer", "callback"} /\ ~ptConnect

\* Nothing is left behind: the port thread sleeps only when it could take no
\* request; it scans when no connect request and no change of the queues is
\* waiting; and what the scan has passed it could not take.
NothingMissed ==
  /\ ptPc = "wait" => \A u \in Users : ~Ready(u)
  /\ Scanning \/ ptPc \in {"autoPort", "scan"} =>
       \A u \in Users : ~Contains(queueList["connect"], u)
  /\ Scanning => ~queueStateChange
  /\ ptPc \in {"element", "autoElement"} =>
       \A i \in 1..Len(Waiting) : i < ptPos => ~Ready(Waiting[i])

WakeInv == IInv /\ (Coming \/ NothingMissed)

\* The scan visits every request that is not a connect request.
LEMMA QueuedWaits ==
  ASSUME TypeOK, Queues, NEW u \in Users, isQueued[u]
  PROVE  Contains(queueList["connect"], u) \/ \E i \in 1..Len(Waiting) : Waiting[i] = u
<1> DEFINE h == queueList["high"]
           m == queueList["medium"]
           l == queueList["low"]
<1>1. h \in Seq(Users) /\ m \in Seq(Users) /\ l \in Seq(Users)
  BY DEF TypeOK, Priorities
<1>2. Contains(queueList["connect"], u) \/ Contains(h, u) \/ Contains(m, u) \/ Contains(l, u)
  BY DEF Queues, Priorities
<1>3. Waiting = h \o m \o l
  BY DEF Waiting
<1> HIDE DEF h, m, l
<1>4. h \o m \in Seq(Users) /\ (Contains(h, u) \/ Contains(m, u) => Contains(h \o m, u))
  BY <1>1, ConcatLemma
<1>5. Contains(h \o m, u) \/ Contains(l, u) => Contains(Waiting, u)
  BY <1>1, <1>3, <1>4, ConcatLemma
<1> QED BY <1>2, <1>4, <1>5 DEF Contains

\* A signal on its way arrives: only the port thread, when it wakes up, takes it.
LEMMA ComingArrives ==
  ASSUME TypeOK, Coming, [Next]_vars, ~PortWake
  PROVE  Coming'
<1> USE DEF Coming, userVars, blockVars, linkVars, wakeVars, portVars, timerVars, ownerVars
<1>1. ASSUME NEW u \in Users, CancelStopTimer(u) PROVE Coming'
  <2>1. owner'[u] \in {"stopTimer", "signal"}
    BY <1>1 DEF CancelStopTimer, TypeOK
  <2> QED BY <2>1
<1>2. ASSUME NEW u \in Users, CancelSignal(u) PROVE Coming'
  BY <1>2 DEF CancelSignal
<1>3. ASSUME NEW u \in Users,
             CancelActive(u) \/ CancelWake(u) \/ CancelReturn(u)
      PROVE  Coming'
  <2>1. \A v \in Users : owner[v] \in {"stopTimer", "signal"} => owner'[v] = owner[v]
    BY <1>3 DEF CancelActive, CancelWake, CancelReturn, TypeOK
  <2>2. UNCHANGED <<notifyPortThread, announcing, tmPc>>
    BY <1>3 DEF CancelActive, CancelWake, CancelReturn
  <2> QED BY <2>1, <2>2
<1>4. ASSUME NEW u \in Users, CancelQueued(u) PROVE Coming'
  <2>1. owner'[u] \in {"stopTimer", "signal"}
    BY <1>4 DEF CancelQueued, TypeOK
  <2> QED BY <2>1
<1>5. ASSUME NEW u \in Users,
             \/ \E p \in RequestPriorities, t, e \in BOOLEAN : QueueRequest(u, p, t, e)
             \/ \E all \in BOOLEAN : BlockProcessCallback(u, all)
             \/ UnblockPort(u) \/ UnblockDevice(u) \/ FreeAsynUser(u) \/ CreateAsynUser(u)
      PROVE  Coming'
  <2>1. ASSUME NEW p, NEW t, NEW e, QueueRequest(u, p, t, e) PROVE Coming'
    BY <2>1 DEF QueueRequest
  <2>2. ASSUME NEW all, BlockProcessCallback(u, all) PROVE Coming'
    BY <2>2 DEF BlockProcessCallback
  <2>3. ASSUME UnblockPort(u) \/ UnblockDevice(u) PROVE Coming'
    <3>1. UNCHANGED <<announcing, tmPc, owner>> /\ (notifyPortThread => notifyPortThread')
      BY <2>3 DEF UnblockPort, UnblockDevice, Signalled
    <3> QED BY <3>1
  <2>4. ASSUME FreeAsynUser(u) \/ CreateAsynUser(u) PROVE Coming'
    BY <2>4 DEF FreeAsynUser, CreateAsynUser
  <2> QED BY <1>5, <2>1, <2>2, <2>3, <2>4
<1>6. CASE LinkNext
  BY <1>6 DEF LinkNext, ExceptionConnect, ExceptionDisconnect, Enable,
              AnnounceExceptionOccurred
<1>7. CASE PortNext
  <2>1. UNCHANGED <<notifyPortThread, announcing, tmPc, owner>>
    BY <1>7 DEF PortNext, PortTop, PortTakeConnect, PortConnectsDone, PortAutoConnected,
                PortScan, PortElement, PortElementAutoConnected, PortScanDone, PortStopTimer,
                PortConnectCallbackDone, PortCallbackDone
  <2> QED BY <2>1
<1>8. CASE TimerNext
  BY <1>8 DEF TimerNext, TimerExpires, QueueTimeoutNotQueued, QueueTimeoutCallback,
              TimeoutCallbackDone
<1>9. CASE UNCHANGED vars
  BY <1>9 DEF vars
<1> QED BY <1>1, <1>2, <1>3, <1>4, <1>5, <1>6, <1>7, <1>8, <1>9 DEF Next, ClientNext

\* What the steps that leave queues, flags, holders and the scan alone do.
LEMMA NothingMissedStays ==
  ASSUME NothingMissed,
         UNCHANGED <<isQueued, queueList, enabled, connected, pblockProcessHolder,
                     dpcHolder, queueStateChange, ptPc, ptConnect, ptPos>>
  PROVE  NothingMissed'
BY DEF NothingMissed, Ready, Unblocked, Scanning, Waiting

\* The scan takes the request it is at or passes it.
LEMMA ScanGoesOn ==
  ASSUME IInv, NothingMissed, ptPc \in {"element", "autoElement"},
         ptPos \in 1..Len(Waiting), NEW u \in Users, u = Waiting[ptPos], isQueued[u], NEW up,
         TakeOrSkip(u, up), UNCHANGED <<blockVars, linkVars, wakeVars>>
  PROVE  NothingMissed'
<1> USE DEF blockVars, linkVars, wakeVars
<1>0. /\ TypeOK /\ Queues
      /\ ~queueStateChange /\ \A x \in Users : ~Contains(queueList["connect"], x)
  BY DEF IInv, NothingMissed, Scanning
<1>1. CASE Unblocked(u)
  <2>1. TakeRequest(u) /\ ptConnect' = FALSE
    BY <1>1 DEF TakeOrSkip
  <2>2. ptPc' \in {"stopTimer", "callback"}
    BY <2>1 DEF TakeRequest
  <2>3. \A x : Contains(queueList'["connect"], x) => Contains(queueList["connect"], x)
    BY <1>0, <2>1, Dequeued DEF TakeRequest, Priorities
  <2> QED BY <1>0, <2>2, <2>3 DEF NothingMissed, Scanning
<1>2. CASE ~Unblocked(u)
  <2>1. /\ ptPos' = ptPos + 1 /\ ptPc' = "element"
        /\ UNCHANGED <<isQueued, queueList>>
    BY <1>2 DEF TakeOrSkip, userVars
  <2>2. ~Ready(u)
    BY <1>0, <1>2 DEF Ready
  <2>3. Waiting' = Waiting /\ \A x \in Users : Ready(x)' <=> Ready(x)
    BY <2>1 DEF Waiting, Ready, Unblocked
  <2>4. /\ \A i \in 1..Len(Waiting) : Waiting[i] \in Users
        /\ Len(Waiting) \in Nat
    BY <1>0, WaitingQueued
  <2>5. \A i \in 1..Len(Waiting) : i < ptPos => ~Ready(Waiting[i])
    BY DEF NothingMissed
  <2>6. \A i \in 1..Len(Waiting) : i < ptPos + 1 => ~Ready(Waiting[i])
    BY <2>2, <2>4, <2>5
  <2> QED BY <1>0, <2>1, <2>3, <2>4, <2>6 DEF NothingMissed, Scanning
<1> QED BY <1>1, <1>2

LEMMA WakeStep == WakeInv /\ [Next]_vars => WakeInv'
<1> SUFFICES ASSUME IInv, Coming \/ NothingMissed, [Next]_vars
             PROVE  Coming' \/ NothingMissed'
  BY NextIInv DEF WakeInv
<1>0. TypeOK /\ Queues /\ FreeMarked
  BY DEF IInv
<1>1. CASE PortWake
  BY <1>1 DEF PortWake, NothingMissed, Scanning
<1>2. CASE ~PortWake /\ Coming
  BY <1>0, <1>2, ComingArrives
<1> SUFFICES ASSUME ~Coming, NothingMissed, ~PortWake
             PROVE  Coming' \/ NothingMissed'
  BY <1>1, <1>2
<1> USE DEF userVars, blockVars, linkVars, wakeVars, portVars, timerVars, ownerVars
<1>3. ASSUME NEW u \in Users, NEW p, NEW withTimeout, NEW evenIfDown,
             QueueRequest(u, p, withTimeout, evenIfDown)
      PROVE  Coming'
  BY <1>3 DEF QueueRequest, Coming
<1>4. ASSUME NEW u \in Users, CancelQueued(u) PROVE Coming'
  <2>1. owner'[u] \in {"stopTimer", "signal"}
    BY <1>0, <1>4 DEF CancelQueued, TypeOK
  <2> QED BY <2>1 DEF Coming
<1>5. ASSUME NEW u \in Users, CancelStopTimer(u) \/ CancelSignal(u) PROVE FALSE
  BY <1>5 DEF CancelStopTimer, CancelSignal, Coming
<1>6. ASSUME NEW u \in Users,
             \/ CancelActive(u) \/ CancelWake(u) \/ CancelReturn(u)
             \/ FreeAsynUser(u)
      PROVE  NothingMissed'
  <2>1. UNCHANGED <<isQueued, queueList, linkVars, blockVars, wakeVars, portVars>>
    BY <1>6 DEF CancelActive, CancelWake, CancelReturn, FreeAsynUser
  <2> QED BY <2>1, NothingMissedStays
<1>7. ASSUME NEW u \in Users, NEW all, BlockProcessCallback(u, all) PROVE NothingMissed'
  <2>1. UNCHANGED <<userVars, queueList, linkVars, pblockProcessHolder, dpcHolder, wakeVars,
                    portVars>>
    BY <1>7 DEF BlockProcessCallback
  <2> QED BY <2>1, NothingMissedStays
<1>8. ASSUME NEW u \in Users, UnblockPort(u) PROVE Coming' \/ NothingMissed'
  <2> DEFINE wasOwner == blockPortCount[u] = 1 /\ pblockProcessHolder = u
  <2>1. /\ notifyPortThread' = Signalled(wasOwner)
        /\ pblockProcessHolder' = IF wasOwner THEN NoUser ELSE pblockProcessHolder
        /\ UNCHANGED <<userVars, queueList, linkVars, dpcHolder, queueStateChange, portVars>>
    BY <1>8 DEF UnblockPort
  <2>2. CASE wasOwner
    BY <2>1, <2>2 DEF Signalled, Coming
  <2>3. CASE ~wasOwner
    BY <2>1, <2>3, NothingMissedStays
  <2> QED BY <2>2, <2>3
<1>9. ASSUME NEW u \in Users, UnblockDevice(u) PROVE Coming' \/ NothingMissed'
  <2> DEFINE wasOwner == blockDeviceCount[u] = 1 /\ dpcHolder[DeviceOf[u]] = u
  <2>1. /\ notifyPortThread' = Signalled(wasOwner)
        /\ dpcHolder' = [dpcHolder EXCEPT ![DeviceOf[u]] =
                           IF wasOwner THEN NoUser ELSE dpcHolder[DeviceOf[u]]]
        /\ UNCHANGED <<userVars, queueList, linkVars, pblockProcessHolder, queueStateChange,
                       portVars>>
    BY <1>9 DEF UnblockDevice
  <2>2. CASE wasOwner
    BY <2>1, <2>2 DEF Signalled, Coming
  <2>3. CASE ~wasOwner
    <3>1. dpcHolder' = [dpcHolder EXCEPT ![DeviceOf[u]] = dpcHolder[DeviceOf[u]]]
      BY <2>1, <2>3, Zenon
    <3>2. dpcHolder' = dpcHolder
      BY <1>0, <3>1 DEF TypeOK
    <3> QED BY <2>1, <3>2, NothingMissedStays
  <2> QED BY <2>2, <2>3
<1>10. ASSUME NEW u \in Users, CreateAsynUser(u) PROVE NothingMissed'
  <2>1. UNCHANGED isQueued
    BY <1>0, <1>10 DEF CreateAsynUser, FreeMarked, TypeOK
  <2>2. UNCHANGED <<queueList, linkVars, blockVars, wakeVars, portVars>>
    BY <1>10 DEF CreateAsynUser
  <2> QED BY <2>1, <2>2, NothingMissedStays
<1>11. ASSUME LinkNext PROVE Coming'
  BY <1>11 DEF LinkNext, ExceptionConnect, ExceptionDisconnect, Enable,
               AnnounceExceptionOccurred, Coming
<1>12. ASSUME PortTop PROVE NothingMissed'
  <2>1. /\ IF enabled[Port] THEN ptPc' = "connects" ELSE ptPc' = "wait"
        /\ UNCHANGED enabled
    BY <1>12 DEF PortTop
  <2> QED BY <2>1 DEF NothingMissed, Ready, Scanning
<1>13. ASSUME PortTakeConnect PROVE NothingMissed'
  <2>1. ptPc' \in {"stopTimer", "callback"} /\ ptConnect'
    BY <1>13 DEF PortTakeConnect, TakeRequest
  <2> QED BY <2>1 DEF NothingMissed, Scanning
<1>14. ASSUME PortConnectsDone \/ PortAutoConnected PROVE NothingMissed'
  <2>1. \A u \in Users : ~Contains(queueList["connect"], u)
    <3>1. CASE queueList["connect"] = <<>>
      BY <3>1 DEF Contains
    <3> QED BY <1>14, <3>1 DEF PortConnectsDone, PortAutoConnected, NothingMissed
  <2>2. /\ ptPc' \in {"scan", "autoPort"} \/ (ptPc' = "wait" /\ ~connected[Port])
        /\ UNCHANGED <<queueList, connected>>
    BY <1>14 DEF PortConnectsDone, PortAutoConnected
  <2> QED BY <2>1, <2>2 DEF NothingMissed, Scanning, Ready
<1>15. ASSUME PortScan PROVE NothingMissed'
  <2>1. /\ \A u \in Users : ~Contains(queueList["connect"], u)
        /\ ptPc' = "element" /\ ptPos' = 1 /\ ~queueStateChange'
        /\ UNCHANGED <<isQueued, queueList>>
    BY <1>15 DEF PortScan, NothingMissed
  <2> QED BY <2>1 DEF NothingMissed, Scanning
<1>16. ASSUME PortElement PROVE NothingMissed'
  <2> DEFINE u == Waiting[ptPos]
  <2>1. ptPc = "element" /\ ptPos \in 1..Len(Waiting) /\ ptPos \in Nat
        /\ UNCHANGED <<blockVars, linkVars, wakeVars>>
    BY <1>16, WaitingQueued DEF PortElement, IInv, TypeOK, ScanPosition
  <2>2. u \in Users /\ isQueued[u]
    BY <1>0, <2>1, WaitingQueued
  <2>3. CASE TakeOrSkip(u, connected[DeviceOf[u]])
    BY <2>1, <2>2, <2>3, ScanGoesOn
  <2>4. CASE ~enabled[DeviceOf[u]] /\ ptPos' = ptPos + 1 /\ UNCHANGED <<userVars, queueList, ptPc>>
    <3>1. ~Ready(u)
      BY <2>1, <2>2, <2>4 DEF Ready, NothingMissed, Scanning
    <3>2. Waiting' = Waiting /\ \A x \in Users : Ready(x)' <=> Ready(x)
      BY <2>1, <2>4 DEF Waiting, Ready, Unblocked
    <3>3. \A i \in 1..Len(Waiting) : Waiting[i] \in Users
      BY <1>0, WaitingQueued
    <3>4. \A i \in 1..Len(Waiting) : i < ptPos => ~Ready(Waiting[i])
      BY <2>1 DEF NothingMissed
    <3>5. \A i \in 1..Len(Waiting) : i < ptPos + 1 => ~Ready(Waiting[i])
      BY <2>1, <3>1, <3>4
    <3> QED BY <2>1, <2>4, <3>2, <3>3, <3>5 DEF NothingMissed, Scanning
  <2>5. CASE /\ ptPc' = "autoElement"
             /\ UNCHANGED <<userVars, queueList, ptPos, ptConnect>>
    BY <2>1, <2>5 DEF NothingMissed, Scanning, Ready, Unblocked, Waiting
  <2> QED BY <1>16, <2>3, <2>4, <2>5 DEF PortElement
<1>17. ASSUME PortElementAutoConnected PROVE NothingMissed'
  <2> DEFINE u == Waiting[ptPos]
  <2>1. ptPc = "autoElement" /\ ~queueStateChange
        /\ UNCHANGED <<blockVars, linkVars, wakeVars>>
    BY <1>17 DEF PortElementAutoConnected, NothingMissed, Scanning
  <2>2. ptPos \in 1..Len(Waiting)
    BY <1>0, <2>1, WaitingQueued DEF IInv, TypeOK, ScanPosition, ScanElementQueued
  <2>3. u \in Users /\ isQueued[u]
    BY <1>0, <2>2, WaitingQueued
  <2>4. TakeOrSkip(u, connected[DeviceOf[u]])
    BY <1>17, <2>1 DEF PortElementAutoConnected
  <2> QED BY <2>1, <2>2, <2>3, <2>4, ScanGoesOn
<1>18. ASSUME PortScanDone PROVE NothingMissed'
  <2>1. /\ ptPc = "element" /\ ptPos > Len(Waiting) /\ ptPos \in Nat /\ ptPc' = "wait"
        /\ UNCHANGED <<userVars, queueList, linkVars, blockVars>>
    BY <1>0, <1>18 DEF PortScanDone, TypeOK
  <2>2. \A u \in Users : ~Ready(u)
    <3> SUFFICES ASSUME NEW u \in Users, Ready(u) PROVE FALSE
      OBVIOUS
    <3>1. isQueued[u] /\ ~Contains(queueList["connect"], u)
      BY <2>1 DEF Ready, NothingMissed, Scanning
    <3>2. PICK i \in 1..Len(Waiting) : Waiting[i] = u
      BY <1>0, <3>1, QueuedWaits
    <3>3. Len(Waiting) \in Nat
      BY <1>0, WaitingQueued
    <3> QED BY <2>1, <3>2, <3>3 DEF NothingMissed
  <2>3. \A u \in Users : Ready(u)' <=> Ready(u)
    BY <2>1 DEF Ready, Unblocked
  <2> QED BY <2>1, <2>2, <2>3 DEF NothingMissed, Scanning
<1>19. ASSUME PortStopTimer PROVE NothingMissed'
  <2>1. /\ ptPc = "stopTimer" /\ ptPc' \in {"stopTimer", "callback"}
        /\ UNCHANGED <<queueList, ptConnect, queueStateChange>>
    BY <1>19 DEF PortStopTimer
  <2> QED BY <2>1 DEF NothingMissed, Scanning
<1>20. ASSUME PortConnectCallbackDone PROVE NothingMissed'
  BY <1>20 DEF PortConnectCallbackDone, NothingMissed, Scanning
<1>21. ASSUME PortCallbackDone PROVE NothingMissed'
  <2>1. /\ Scanning /\ ~queueStateChange
        /\ ptPc' = AfterCallback /\ UNCHANGED queueList
    BY <1>21 DEF PortCallbackDone, NothingMissed, Scanning
  <2> QED BY <2>1 DEF AfterCallback, NothingMissed, Scanning
<1>22. ASSUME NEW u \in Users, TimerExpires(u) PROVE NothingMissed'
  BY <1>22, NothingMissedStays DEF TimerExpires
<1>23. ASSUME QueueTimeoutNotQueued PROVE NothingMissed'
  BY <1>23, NothingMissedStays DEF QueueTimeoutNotQueued
<1>24. ASSUME QueueTimeoutCallback \/ TimeoutCallbackDone PROVE Coming'
  BY <1>24 DEF QueueTimeoutCallback, TimeoutCallbackDone, Coming
<1>25. CASE UNCHANGED vars
  BY <1>25, NothingMissedStays DEF vars
<1> QED BY <1>3, <1>4, <1>5, <1>6, <1>7, <1>8, <1>9, <1>10, <1>11, <1>12, <1>13, <1>14,
           <1>15, <1>16, <1>17, <1>18, <1>19, <1>20, <1>21, <1>22, <1>23, <1>24, <1>25
       DEF Next, ClientNext, PortNext, TimerNext

LEMMA WakeInvariant == Spec => []WakeInv
<1>1. Init => WakeInv
  <2> SUFFICES ASSUME Init PROVE NothingMissed
    BY InitIInv DEF WakeInv
  <2> QED BY DEF Init, NothingMissed, Ready, Scanning
<1> QED BY <1>1, WakeStep, PTL DEF Spec

\* The port thread does not sleep on a request it could take, unless somebody is
\* about to signal it: whatever requests, cancellations, timeouts, blocks and
\* changes of the connection come between its steps.
THEOREM NoWakeupLost == Spec => []NoLostWakeup
<1>1. WakeInv => NoLostWakeup
  BY DEF WakeInv, NothingMissed, Coming, NoLostWakeup
<1> QED BY <1>1, WakeInvariant, PTL


----------------------------------------------------------------------------
(* Cancelling and freeing.  A timer that starts while the callback of its   *)
(* asynUser is active can have a second one called at the same time: what   *)
(* follows is about clients that do not queue an asynUser while a callback  *)
(* of it is active, or do so without a timeout.                             *)

NoOverlap == ~QueueWhileActive \/ TimeoutUsers = {}

\* An instance without timeouts starts no timer.
NoTimers == TimeoutUsers = {} => tmPc = "idle" /\ \A u \in Users : timer[u] = "off"

LEMMA TimersOff == TypeOK /\ NoTimers /\ [Next]_vars => NoTimers'
<1> SUFFICES ASSUME TypeOK, NoTimers, [Next]_vars, TimeoutUsers = {}
             PROVE  tmPc' = "idle" /\ \A u \in Users : timer'[u] = "off"
  BY DEF NoTimers
<1>0. tmPc = "idle" /\ \A u \in Users : timer[u] = "off"
  BY DEF NoTimers
<1> USE DEF timerVars
<1>1. ASSUME NEW u \in Users, NEW p, NEW withTimeout \in BOOLEAN, NEW evenIfDown,
             QueueRequest(u, p, withTimeout, evenIfDown)
      PROVE  tmPc' = "idle" /\ \A v \in Users : timer'[v] = "off"
  <2>1. ~withTimeout /\ timer' = [timer EXCEPT ![u] = IF withTimeout THEN Started(@) ELSE @]
    BY <1>1 DEF QueueRequest
  <2>2. timer' = [timer EXCEPT ![u] = timer[u]]
    BY <2>1, Zenon
  <2> QED BY <1>0, <1>1, <2>2 DEF QueueRequest, TypeOK
<1>2. CASE ClientNext
  <2>1. ASSUME NEW u \in Users, CancelStopTimer(u)
        PROVE  tmPc' = "idle" /\ \A v \in Users : timer'[v] = "off"
    BY <1>0, <2>1 DEF CancelStopTimer, TypeOK
  <2>2. ASSUME NEW u \in Users,
               \/ CancelQueued(u) \/ CancelSignal(u) \/ CancelActive(u) \/ CancelWake(u)
               \/ CancelReturn(u) \/ \E all \in BOOLEAN : BlockProcessCallback(u, all)
               \/ UnblockPort(u) \/ UnblockDevice(u) \/ FreeAsynUser(u) \/ CreateAsynUser(u)
        PROVE  UNCHANGED timerVars
    BY <2>2 DEF CancelQueued, CancelSignal, CancelActive, CancelWake, CancelReturn,
         BlockProcessCallback, UnblockPort, UnblockDevice, FreeAsynUser, CreateAsynUser
  <2> QED BY <1>0, <1>1, <1>2, <2>1, <2>2 DEF ClientNext
<1>3. CASE LinkNext
  BY <1>0, <1>3 DEF LinkNext, ExceptionConnect, ExceptionDisconnect, Enable,
     AnnounceExceptionOccurred
<1>4. CASE PortNext
  <2>1. CASE PortStopTimer
    BY <1>0, <2>1 DEF PortStopTimer, TypeOK
  <2> QED BY <1>0, <1>4, <2>1 DEF PortNext, PortWake, PortTop, PortTakeConnect,
       PortConnectsDone, PortAutoConnected, PortScan, PortElement, PortElementAutoConnected,
       PortScanDone, PortConnectCallbackDone, PortCallbackDone
<1>5. CASE TimerNext
  BY <1>0, <1>5 DEF TimerNext, TimerExpires, QueueTimeoutNotQueued, QueueTimeoutCallback,
     TimeoutCallbackDone
<1>6. CASE UNCHANGED vars
  BY <1>0, <1>6 DEF vars
<1> QED BY <1>2, <1>3, <1>4, <1>5, <1>6 DEF Next

\* The port thread has taken the request of u and its callback is not over.
PortServes(u) == ptPc \in {"stopTimer", "callback"} /\ ptUser = u

\* An asynUser is busy while one of the two threads serves it, and a queued one is
\* not if its clients wait for the end of its callback.
Busy ==
  \A u \in Users : /\ state[u] # "idle" <=> PortServes(u) \/ TimerRuns(u)
                   /\ ~(PortServes(u) /\ TimerRuns(u))
                   /\ isQueued[u] /\ ~QueueWhileActive => state[u] = "idle"

\* A freed asynUser blocks nobody and no cancelRequest of it is under way; it
\* waits for the end of its callback or is idle.
FreedUnused ==
  \A u \in Users : live[u] # "live" =>
    /\ blockPortCount[u] = 0 /\ blockDeviceCount[u] = 0 /\ owner[u] = "idle"
    /\ live[u] = "freeing" <=> state[u] # "idle"

\* The callbacks a canceller found active are active until they are struck off,
\* and they are when it goes on.
Cancelling ==
  ~QueueWhileActive => \A u \in Users :
    /\ "port" \in watch[u] => PortRuns(u)
    /\ "timer" \in watch[u] => TimerRuns(u)
    /\ state[u] = "canceled" => owner[u] = "waitDone" /\ ~callbackDone[u]
    /\ callbackDone[u] => owner[u] = "waitDone" /\ watch[u] = {}
    /\ owner[u] \in {"stopTimer", "signal", "returned"} => watch[u] = {}

CancelInv == IInv /\ NoTimers /\ Busy /\ FreedUnused /\ Cancelling

\* What the calls and steps that cancel and free nothing leave alone.
LEMMA NotCancelled ==
  ASSUME Busy, FreedUnused, Cancelling,
         UNCHANGED <<isQueued, state, callbackDone, live, blockPortCount, blockDeviceCount,
                     owner, watch>>,
         \A u \in Users : /\ PortServes(u)' <=> PortServes(u)
                          /\ PortRuns(u) => PortRuns(u)'
                          /\ TimerRuns(u)' <=> TimerRuns(u)
  PROVE  Busy' /\ FreedUnused' /\ Cancelling'
<1>1. Busy' /\ FreedUnused'
  BY DEF Busy, FreedUnused
<1>2. Cancelling'
  BY DEF Cancelling
<1> QED BY <1>1, <1>2

\* The callback of u is over.
LEMMA Finished ==
  ASSUME TypeOK, FreeMarked, Busy, FreedUnused, Cancelling, NEW u \in Users,
         NEW who \in {"port", "timer"}, FinishCallback(u, who),
         IF who = "port" THEN PortServes(u) ELSE TimerRuns(u),
         \A v \in Users : /\ PortServes(v)' <=> PortServes(v) /\ ~(who = "port" /\ v = u)
                          /\ PortRuns(v)' <=> PortRuns(v) /\ ~(who = "port" /\ v = u)
                          /\ TimerRuns(v)' <=> TimerRuns(v) /\ ~(who = "timer" /\ v = u),
         UNCHANGED <<blockPortCount, blockDeviceCount, owner>>
  PROVE  Busy' /\ FreedUnused' /\ Cancelling'
<1> USE DEF FinishCallback
<1>1. /\ state' \in [Users -> {"idle", "active", "canceled"}]
      /\ \A v \in Users : state'[v] = IF v = u THEN "idle" ELSE state[v]
      /\ \A v \in Users : live'[v] = IF v = u /\ freeAfterCallback[u] THEN "free" ELSE live[v]
      /\ \A v \in Users : watch'[v] = IF v = u THEN watch[u] \ {who} ELSE watch[v]
      /\ \A v \in Users : callbackDone'[v]
           <=> callbackDone[v] \/ (v = u /\ state[u] = "canceled")
  BY ZenonT(60) DEF TypeOK, Signals
<1>2. Busy'
  BY <1>1 DEF Busy
<1>3. FreedUnused'
  BY <1>1 DEF FreedUnused, FreeMarked, Busy, TypeOK
<1>4. ~QueueWhileActive => watch'[u] = {}
  BY <1>1 DEF Cancelling, Busy, TypeOK, PortRuns, PortServes
<1>5. Cancelling'
  BY <1>1, <1>4 DEF Cancelling, TypeOK
<1> QED BY <1>2, <1>3, <1>5

\* The port thread takes a request off.
LEMMA TakenCancel ==
  ASSUME TypeOK, Queues, FreeMarked, Busy, FreedUnused, Cancelling, NoOverlap, NoTimers,
         NEW u \in Users, isQueued[u], TakeRequest(u),
         ptPc \notin {"stopTimer", "callback"},
         UNCHANGED <<blockVars, timerVars, ownerVars>>
  PROVE  Busy' /\ FreedUnused' /\ Cancelling'
<1> USE DEF TakeRequest, blockVars, timerVars, ownerVars
<1>1. /\ \A v \in Users : state'[v] = IF v = u THEN "active" ELSE state[v]
      /\ \A v \in Users : isQueued'[v] <=> isQueued[v] /\ v # u
      /\ \A v \in Users : PortServes(v)' <=> v = u
      /\ \A v \in Users : ~PortServes(v) /\ ~PortRuns(v)
      /\ \A v \in Users : TimerRuns(v)' <=> TimerRuns(v)
  BY DEF TypeOK, PortServes, PortRuns, TimerRuns
<1>2. Busy'
  <2>1. state[u] = "idle" /\ ~TimerRuns(u)
    BY <1>1 DEF Busy, NoOverlap, NoTimers, TimerRuns
  <2> HIDE DEF TakeRequest, timerVars
  <2> QED BY <1>1, <2>1 DEF Busy
<1>3. FreedUnused'
  BY <1>1 DEF FreedUnused, FreeMarked
<1>4. Cancelling'
  BY <1>1 DEF Cancelling
<1> QED BY <1>2, <1>3, <1>4

LEMMA CancelStep == NoOverlap /\ CancelInv /\ [Next]_vars => CancelInv'
<1> SUFFICES ASSUME NoOverlap, CancelInv, [Next]_vars
             PROVE  Busy' /\ FreedUnused' /\ Cancelling'
  BY NextIInv, TimersOff DEF CancelInv, IInv
<1>0. TypeOK /\ Queues /\ FreeMarked /\ NoTimers /\ Busy /\ FreedUnused /\ Cancelling
  BY DEF CancelInv, IInv
<1> USE <1>0 DEF userVars, blockVars, linkVars, wakeVars, portVars, timerVars, ownerVars
<1>1. ASSUME NEW u \in Users, NEW p, NEW withTimeout, NEW evenIfDown,
             QueueRequest(u, p, withTimeout, evenIfDown)
      PROVE  Busy' /\ FreedUnused' /\ Cancelling'
  <2>1. /\ QueueWhileActive \/ state[u] = "idle"
        /\ \A v \in Users : isQueued'[v] <=> isQueued[v] \/ v = u
        /\ UNCHANGED <<state, callbackDone, live, blockPortCount, blockDeviceCount, owner,
                       watch, ptPc, ptUser, tmPc, tmUser>>
    BY <1>1 DEF QueueRequest, TypeOK
  <2>2. Busy'
    BY <2>1 DEF Busy, PortServes, TimerRuns
  <2>3. FreedUnused' /\ Cancelling'
    BY <2>1 DEF FreedUnused, Cancelling, PortRuns, TimerRuns
  <2> QED BY <2>2, <2>3
<1>2. ASSUME NEW u \in Users, CancelQueued(u)
      PROVE  Busy' /\ FreedUnused' /\ Cancelling'
  <2>1. /\ live[u] = "live" /\ owner[u] = "idle" /\ isQueued[u]
        /\ \A v \in Users : isQueued'[v] <=> isQueued[v] /\ v # u
        /\ \E o \in {"stopTimer", "signal"} : owner' = [owner EXCEPT ![u] = o]
        /\ watch' = [watch EXCEPT ![u] = {t \in {"port", "timer"} :
                       IF t = "port" THEN PortRuns(u) ELSE TimerRuns(u)}]
        /\ UNCHANGED <<state, callbackDone, live, blockPortCount, blockDeviceCount,
                       ptPc, ptUser, tmPc, tmUser>>
    BY <1>2 DEF CancelQueued, TypeOK
  <2>2. Busy'
    BY <2>1 DEF Busy, PortServes, TimerRuns
  <2>3. /\ \A v \in Users : v # u => owner'[v] = owner[v]
        /\ owner'[u] \in {"stopTimer", "signal"}
    BY <2>1 DEF TypeOK
  <2>4. FreedUnused'
    BY <2>1, <2>3 DEF FreedUnused
  <2>5. ASSUME ~QueueWhileActive PROVE Cancelling'
    <3>1. state[u] = "idle" /\ ~callbackDone[u]
      BY <2>1, <2>5 DEF Busy, Cancelling
    <3>2. ~PortRuns(u) /\ ~TimerRuns(u)
      BY <2>1, <3>1 DEF Busy, PortServes, PortRuns
    <3>3. {t \in {"port", "timer"} : IF t = "port" THEN PortRuns(u) ELSE TimerRuns(u)} = {}
      BY <3>2
    <3>4. watch' = [watch EXCEPT ![u] = {}]
      BY <2>1, <3>3, Zenon
    <3>5. \A v \in Users : watch'[v] = IF v = u THEN {} ELSE watch[v]
      BY <3>4 DEF TypeOK
    <3>6. UNCHANGED <<state, callbackDone, ptPc, ptUser, tmPc, tmUser>>
      BY <2>1
    <3> QED BY <2>3, <2>5, <3>1, <3>5, <3>6 DEF Cancelling, PortRuns, TimerRuns
  <2> QED BY <2>2, <2>4, <2>5 DEF Cancelling
<1>3. ASSUME NEW u \in Users, CancelStopTimer(u)
      PROVE  Busy' /\ FreedUnused' /\ Cancelling'
  <2>1. /\ owner[u] = "stopTimer"
        /\ UNCHANGED owner \/ owner' = [owner EXCEPT ![u] = "signal"]
        /\ UNCHANGED <<userVars, blockVars, portVars, tmPc, tmUser, watch>>
    BY <1>3 DEF CancelStopTimer
  <2>2. Busy'
    BY <2>1 DEF Busy, PortServes, TimerRuns
  <2>3. /\ \A v \in Users : v # u => owner'[v] = owner[v]
        /\ owner'[u] \in {"stopTimer", "signal"}
    BY <2>1 DEF TypeOK
  <2>4. FreedUnused' /\ Cancelling'
    BY <2>1, <2>3 DEF FreedUnused, Cancelling, PortRuns, TimerRuns
  <2> QED BY <2>2, <2>4
<1>4. ASSUME NEW u \in Users, CancelSignal(u)
      PROVE  Busy' /\ FreedUnused' /\ Cancelling'
  <2>1. /\ owner[u] = "signal"
        /\ \A v \in Users : owner'[v] = IF v = u THEN "returned" ELSE owner[v]
        /\ UNCHANGED <<userVars, blockVars, portVars, timerVars, watch>>
    BY <1>4 DEF CancelSignal, TypeOK
  <2> QED BY <2>1 DEF Busy, FreedUnused, Cancelling, PortServes, PortRuns, TimerRuns
<1>5. ASSUME NEW u \in Users, CancelActive(u)
      PROVE  Busy' /\ FreedUnused' /\ Cancelling'
  <2>1. /\ live[u] = "live" /\ owner[u] = "idle" /\ ~isQueued[u] /\ state[u] = "active"
        /\ \A v \in Users : state'[v] = IF v = u THEN "canceled" ELSE state[v]
        /\ \A v \in Users : owner'[v] = IF v = u THEN "waitDone" ELSE owner[v]
        /\ \A v \in Users : watch'[v] = IF v = u
             THEN {t \in {"port", "timer"} : IF t = "port" THEN PortRuns(u) ELSE TimerRuns(u)}
             ELSE watch[v]
        /\ UNCHANGED <<isQueued, callbackDone, live, blockVars, portVars, timerVars>>
    BY <1>5 DEF CancelActive, TypeOK
  <2>2. Busy' /\ FreedUnused'
    BY <2>1 DEF Busy, FreedUnused, PortServes, TimerRuns
  <2>3. ~QueueWhileActive => ~callbackDone[u]
    BY <2>1 DEF Cancelling
  <2>4. /\ "port" \in watch'[u] => PortRuns(u)
        /\ "timer" \in watch'[u] => TimerRuns(u)
    BY <2>1
  <2>5. \A v \in Users : v # u => watch'[v] = watch[v]
    BY <2>1
  <2>6. \A v \in Users : /\ PortRuns(v)' <=> PortRuns(v)
                         /\ TimerRuns(v)' <=> TimerRuns(v)
                         /\ callbackDone'[v] <=> callbackDone[v]
    <3>1. UNCHANGED <<callbackDone, ptPc, ptUser, tmPc, tmUser>>
      BY <2>1
    <3> QED BY <3>1 DEF PortRuns, TimerRuns
  <2>7. Cancelling'
    BY <2>1, <2>3, <2>4, <2>5, <2>6 DEF Cancelling
  <2> QED BY <2>2, <2>7
<1>6. ASSUME NEW u \in Users, CancelWake(u)
      PROVE  Busy' /\ FreedUnused' /\ Cancelling'
  <2>1. /\ owner[u] = "waitDone" /\ callbackDone[u]
        /\ \A v \in Users : callbackDone'[v] <=> callbackDone[v] /\ v # u
        /\ \A v \in Users : owner'[v] = IF v = u THEN "returned" ELSE owner[v]
        /\ UNCHANGED <<isQueued, state, live, blockVars, portVars, timerVars, watch>>
    BY <1>6 DEF CancelWake, TypeOK
  <2> QED BY <2>1 DEF Busy, FreedUnused, Cancelling, PortServes, PortRuns, TimerRuns
<1>7. ASSUME NEW u \in Users, CancelReturn(u)
      PROVE  Busy' /\ FreedUnused' /\ Cancelling'
  <2>1. /\ owner[u] = "returned"
        /\ \A v \in Users : owner'[v] = IF v = u THEN "idle" ELSE owner[v]
        /\ \A v \in Users : watch'[v] = IF v = u THEN {} ELSE watch[v]
        /\ UNCHANGED <<userVars, blockVars, portVars, timerVars>>
    BY <1>7 DEF CancelReturn, TypeOK
  <2> QED BY <2>1 DEF Busy, FreedUnused, Cancelling, PortServes, PortRuns, TimerRuns
<1>8. ASSUME NEW u \in Users, NEW all \in BOOLEAN, BlockProcessCallback(u, all)
      PROVE  Busy' /\ FreedUnused' /\ Cancelling'
  <2>1. /\ live[u] = "live"
        /\ \A v \in Users : v # u => /\ blockPortCount'[v] = blockPortCount[v]
                                     /\ blockDeviceCount'[v] = blockDeviceCount[v]
        /\ UNCHANGED <<userVars, portVars, timerVars, ownerVars>>
    <3>1. \/ blockPortCount' = [blockPortCount EXCEPT ![u] = blockPortCount[u] + 1]
             /\ UNCHANGED blockDeviceCount
          \/ blockDeviceCount' = [blockDeviceCount EXCEPT ![u] = blockDeviceCount[u] + 1]
             /\ UNCHANGED blockPortCount
      BY <1>8, Zenon DEF BlockProcessCallback
    <3> QED BY <1>8, <3>1 DEF BlockProcessCallback, MayCall, TypeOK
  <2> QED BY <2>1 DEF Busy, FreedUnused, Cancelling, PortServes, PortRuns, TimerRuns
<1>9. ASSUME NEW u \in Users, UnblockPort(u) \/ UnblockDevice(u)
      PROVE  Busy' /\ FreedUnused' /\ Cancelling'
  <2>1. /\ live[u] = "live"
        /\ \A v \in Users : v # u => /\ blockPortCount'[v] = blockPortCount[v]
                                     /\ blockDeviceCount'[v] = blockDeviceCount[v]
        /\ UNCHANGED <<userVars, portVars, timerVars, ownerVars>>
    BY <1>9 DEF UnblockPort, UnblockDevice, MayCall, TypeOK
  <2> QED BY <2>1 DEF Busy, FreedUnused, Cancelling, PortServes, PortRuns, TimerRuns
<1>10. ASSUME NEW u \in Users, FreeAsynUser(u)
       PROVE  Busy' /\ FreedUnused' /\ Cancelling'
  <2>1. /\ live[u] = "live" /\ owner[u] = "idle"
        /\ blockPortCount[u] = 0 /\ blockDeviceCount[u] = 0
        /\ \A v \in Users : live'[v] = IF v # u THEN live[v]
                                       ELSE IF state[u] = "idle" THEN "free" ELSE "freeing"
        /\ UNCHANGED <<isQueued, state, callbackDone, blockVars, portVars, timerVars,
                       ownerVars>>
    BY <1>10 DEF FreeAsynUser, Freed, TypeOK
  <2> QED BY <2>1 DEF Busy, FreedUnused, Cancelling, PortServes, PortRuns, TimerRuns
<1>11. ASSUME NEW u \in Users, CreateAsynUser(u)
       PROVE  Busy' /\ FreedUnused' /\ Cancelling'
  <2>1. /\ live[u] = "free" /\ state[u] = "idle" /\ ~isQueued[u]
        /\ \A v \in Users : live'[v] = IF v = u THEN "live" ELSE live[v]
        /\ \A v \in Users : state'[v] = state[v]
        /\ \A v \in Users : isQueued'[v] <=> isQueued[v]
        /\ UNCHANGED <<callbackDone, blockVars, portVars, timerVars, ownerVars>>
    BY <1>11, ZenonT(60) DEF CreateAsynUser, FreedUnused, FreeMarked, TypeOK
  <2> QED BY <2>1 DEF Busy, FreedUnused, Cancelling, PortServes, PortRuns, TimerRuns
<1>12. ASSUME LinkNext
       PROVE  Busy' /\ FreedUnused' /\ Cancelling'
  <2>1. UNCHANGED <<userVars, blockVars, portVars, timerVars, ownerVars>>
    BY <1>12 DEF LinkNext, ExceptionConnect, ExceptionDisconnect, Enable,
                 AnnounceExceptionOccurred
  <2> QED BY <2>1, NotCancelled DEF PortServes, PortRuns, TimerRuns
<1>13. ASSUME PortWake \/ PortTop \/ PortConnectsDone \/ PortAutoConnected \/ PortScan
                \/ PortScanDone \/ PortStopTimer
       PROVE  Busy' /\ FreedUnused' /\ Cancelling'
  <2>1. /\ UNCHANGED <<userVars, blockVars, ptUser, tmPc, tmUser, ownerVars>>
        /\ \/ {ptPc, ptPc'} \cap {"stopTimer", "callback"} = {}
           \/ ptPc = "stopTimer" /\ ptPc' \in {"stopTimer", "callback"}
    BY <1>13 DEF PortWake, PortTop, PortConnectsDone, PortAutoConnected, PortScan,
                 PortScanDone, PortStopTimer
  <2> QED BY <2>1, NotCancelled DEF PortServes, PortRuns, TimerRuns
<1>14. ASSUME PortTakeConnect
       PROVE  Busy' /\ FreedUnused' /\ Cancelling'
  <2> DEFINE u == Head(queueList["connect"])
  <2>1. u \in Users /\ isQueued[u]
    BY <1>14, ConnectQueued DEF PortTakeConnect
  <2>2. /\ TakeRequest(u) /\ ptPc \notin {"stopTimer", "callback"}
        /\ UNCHANGED <<blockVars, timerVars, ownerVars>>
    BY <1>14 DEF PortTakeConnect
  <2> HIDE DEF u
  <2> QED BY <2>1, <2>2, TakenCancel
<1>15. ASSUME NEW u \in Users, isQueued[u], NEW up,
              ptPc \in {"element", "autoElement"},
              UNCHANGED <<blockVars, timerVars, ownerVars>>,
              TakeOrSkip(u, up)
       PROVE  Busy' /\ FreedUnused' /\ Cancelling'
  <2>1. CASE Unblocked(u)
    BY <1>15, <2>1, TakenCancel DEF TakeOrSkip
  <2>2. CASE ~Unblocked(u)
    <3>1. ptPc' = "element" /\ UNCHANGED <<userVars, ptUser>>
      BY <1>15, <2>2 DEF TakeOrSkip
    <3> QED BY <1>15, <3>1, NotCancelled DEF PortServes, PortRuns, TimerRuns
  <2> QED BY <2>1, <2>2
<1>16. ASSUME PortElement
       PROVE  Busy' /\ FreedUnused' /\ Cancelling'
  <2> DEFINE u == Waiting[ptPos]
  <2>1. u \in Users /\ isQueued[u]
    BY <1>16, WaitingQueued DEF PortElement, CancelInv, IInv, TypeOK, ScanPosition
  <2>2. ptPc = "element" /\ UNCHANGED <<blockVars, timerVars, ownerVars>>
    BY <1>16 DEF PortElement
  <2>3. CASE TakeOrSkip(u, connected[DeviceOf[u]])
    BY <2>1, <2>2, <2>3, <1>15
  <2>4. CASE UNCHANGED <<userVars, ptUser>> /\ ptPc' \in {"element", "autoElement"}
    BY <2>2, <2>4, NotCancelled DEF PortServes, PortRuns, TimerRuns
  <2> QED BY <1>16, <2>3, <2>4 DEF PortElement
<1>17. ASSUME PortElementAutoConnected
       PROVE  Busy' /\ FreedUnused' /\ Cancelling'
  <2>1. ptPc = "autoElement" /\ UNCHANGED <<blockVars, timerVars, ownerVars>>
    BY <1>17 DEF PortElementAutoConnected
  <2>2. CASE queueStateChange
    <3>1. ptPc' = "wait" /\ UNCHANGED <<userVars, ptUser>>
      BY <1>17, <2>2 DEF PortElementAutoConnected
    <3> QED BY <2>1, <3>1, NotCancelled DEF PortServes, PortRuns, TimerRuns
  <2>3. CASE ~queueStateChange
    <3> DEFINE u == Waiting[ptPos]
    <3>1. u \in Users /\ isQueued[u]
      BY <2>1, <2>3, WaitingQueued
         DEF CancelInv, IInv, TypeOK, ScanPosition, ScanElementQueued
    <3>2. TakeOrSkip(u, connected[DeviceOf[u]])
      BY <1>17, <2>3 DEF PortElementAutoConnected
    <3> QED BY <2>1, <3>1, <3>2, <1>15
  <2> QED BY <2>2, <2>3
<1>18. ASSUME PortConnectCallbackDone \/ PortCallbackDone
       PROVE  Busy' /\ FreedUnused' /\ Cancelling'
  <2>1. /\ ptUser \in Users /\ PortServes(ptUser) /\ FinishCallback(ptUser, "port")
        /\ ptPc' \notin {"stopTimer", "callback"}
        /\ UNCHANGED <<blockPortCount, blockDeviceCount, owner, timerVars>>
    BY <1>18 DEF PortConnectCallbackDone, PortCallbackDone, AfterCallback, PortServes, TypeOK
  <2>2. \A v \in Users : /\ PortServes(v)' <=> PortServes(v) /\ v # ptUser
                         /\ PortRuns(v)' <=> PortRuns(v) /\ v # ptUser
                         /\ TimerRuns(v)' <=> TimerRuns(v)
    BY <2>1 DEF PortServes, PortRuns, TimerRuns
  <2> QED BY <2>1, <2>2, Finished
<1>19. ASSUME NEW u \in Users, TimerExpires(u)
       PROVE  Busy' /\ FreedUnused' /\ Cancelling'
  <2>1. /\ tmPc # "callback" /\ tmPc' # "callback"
        /\ UNCHANGED <<userVars, blockVars, portVars, ownerVars>>
    BY <1>19 DEF TimerExpires
  <2> QED BY <2>1, NotCancelled DEF PortServes, PortRuns, TimerRuns
<1>20. ASSUME QueueTimeoutNotQueued
       PROVE  Busy' /\ FreedUnused' /\ Cancelling'
  <2>1. /\ tmPc # "callback" /\ tmPc' # "callback"
        /\ UNCHANGED <<userVars, blockVars, portVars, ownerVars>>
    BY <1>20 DEF QueueTimeoutNotQueued
  <2> QED BY <2>1, NotCancelled DEF PortServes, PortRuns, TimerRuns
<1>21. ASSUME QueueTimeoutCallback
       PROVE  Busy' /\ FreedUnused' /\ Cancelling'
  <2>1. PICK u \in Users : u = tmUser
    BY <1>21 DEF QueueTimeoutCallback, TypeOK
  <2>2. /\ isQueued[u] /\ tmPc # "callback"
        /\ \A v \in Users : isQueued'[v] <=> isQueued[v] /\ v # u
        /\ \A v \in Users : state'[v] = IF v = u THEN "active" ELSE state[v]
        /\ \A v \in Users : TimerRuns(v)' <=> v = u
        /\ UNCHANGED <<callbackDone, live, blockVars, portVars, ownerVars>>
    BY <1>21, <2>1 DEF QueueTimeoutCallback, StillQueued, TimerRuns, TypeOK
  <2>3. /\ \A v \in Users : ~TimerRuns(v)
        /\ \A v \in Users : PortServes(v)' <=> PortServes(v)
        /\ \A v \in Users : PortRuns(v)' <=> PortRuns(v)
        /\ live[u] = "live"
    BY <2>2 DEF FreeMarked, TimerRuns, PortServes, PortRuns
  <2>4. ~QueueWhileActive
    BY <1>21 DEF NoOverlap, NoTimers, QueueTimeoutCallback
  <2>5. state[u] = "idle"
    BY <2>2, <2>4 DEF Busy
  <2>6. Busy' /\ FreedUnused'
    BY <2>2, <2>3, <2>5 DEF Busy, FreedUnused
  <2>7. Cancelling'
    BY <2>2, <2>3 DEF Cancelling
  <2> QED BY <2>6, <2>7
<1>22. ASSUME TimeoutCallbackDone
       PROVE  Busy' /\ FreedUnused' /\ Cancelling'
  <2>1. /\ tmUser \in Users /\ TimerRuns(tmUser) /\ FinishCallback(tmUser, "timer")
        /\ tmPc' = "idle"
        /\ UNCHANGED <<blockVars, owner, portVars>>
    BY <1>22 DEF TimeoutCallbackDone, TimerRuns, TypeOK
  <2>2. \A v \in Users : /\ PortServes(v)' <=> PortServes(v)
                         /\ PortRuns(v)' <=> PortRuns(v)
                         /\ TimerRuns(v)' <=> TimerRuns(v) /\ v # tmUser
    BY <2>1 DEF PortServes, PortRuns, TimerRuns
  <2> QED BY <2>1, <2>2, Finished
<1>23. CASE UNCHANGED vars
  BY <1>23, NotCancelled DEF vars, PortServes, PortRuns, TimerRuns
<1> QED BY <1>1, <1>2, <1>3, <1>4, <1>5, <1>6, <1>7, <1>8, <1>9, <1>10, <1>11,
           <1>12, <1>13, <1>14, <1>16, <1>17, <1>18, <1>19, <1>20, <1>21, <1>22,
           <1>23
       DEF Next, ClientNext, PortNext, TimerNext

LEMMA CancelInvariant ==
  ASSUME NoOverlap
  PROVE  Spec => []CancelInv
<1>1. Init => CancelInv
  <2> SUFFICES ASSUME Init PROVE NoTimers /\ Busy /\ FreedUnused /\ Cancelling
    BY InitIInv DEF CancelInv
  <2> QED BY DEF Init, NoTimers, Busy, FreedUnused, Cancelling, PortServes, TimerRuns
<1>2. CancelInv /\ [Next]_vars => CancelInv'
  BY CancelStep
<1> QED BY <1>1, <1>2, PTL DEF Spec

\* If an asynUser is not queued with a timeout while a callback of it is active, then
\* the port thread and the timer thread never run callbacks of it at the same time.
THEOREM CallbacksApart ==
  ASSUME NoOverlap
  PROVE  Spec => []OneCallback
<1>1. CancelInv => OneCallback
  BY DEF CancelInv, Busy, OneCallback, PortRuns, PortServes
<1> QED BY <1>1, CancelInvariant, PTL

\* If an asynUser is not queued at all while a callback of it is active, then
\* cancelRequest waits for every callback it found active, and finds no event that
\* an earlier callback has left.
THEOREM CancelIsSafe ==
  ASSUME ~QueueWhileActive
  PROVE  Spec => [](CancelWaits /\ NoStaleDone)
<1>1. CancelInv => CancelWaits /\ NoStaleDone
  BY DEF CancelInv, Cancelling, CancelWaits, NoStaleDone
<1>2. Spec => []CancelInv
  BY CancelInvariant DEF NoOverlap
<1> QED BY <1>1, <1>2, PTL

\* An asynUser on the free list is used by nobody: the asserts of createAsynUser
\* hold, unless an asynUser was queued with a timeout while a callback of it was active.
THEOREM FreedIsQuiet ==
  ASSUME NoOverlap
  PROVE  Spec => []FreeListQuiet
<1>1. CancelInv => FreeListQuiet
  <2> SUFFICES ASSUME CancelInv, NEW u \in Users, live[u] = "free"
               PROVE  /\ ~isQueued[u] /\ state[u] = "idle" /\ ~freeAfterCallback[u]
                      /\ blockPortCount[u] = 0 /\ blockDeviceCount[u] = 0
                      /\ ~InCallback(u) /\ owner[u] = "idle"
                      /\ pblockProcessHolder # u /\ \A d \in Dpcs : dpcHolder[d] # u
    BY DEF FreeListQuiet
  <2> USE DEF CancelInv, IInv
  <2>1. ~isQueued[u] /\ ~freeAfterCallback[u]
    BY DEF FreeMarked
  <2>2. /\ state[u] = "idle" /\ owner[u] = "idle"
        /\ blockPortCount[u] = 0 /\ blockDeviceCount[u] = 0
    BY DEF FreedUnused, TypeOK
  <2>3. ~InCallback(u)
    BY <2>2 DEF Busy, InCallback, PortRuns, PortServes
  <2>4. u # NoUser
    BY QueueAssumption
  <2>5. pblockProcessHolder # u
    BY <2>2, <2>4 DEF HolderBlocks
  <2>6. \A d \in Dpcs : dpcHolder[d] # u
    <3> SUFFICES ASSUME NEW d \in Dpcs, dpcHolder[d] = u PROVE FALSE
      OBVIOUS
    <3>1. blockDeviceCount[u] > 0
      BY <2>4 DEF HolderBlocks
    <3> QED BY <2>2, <3>1
  <2> QED BY <2>1, <2>2, <2>3, <2>5, <2>6
<1> QED BY <1>1, CancelInvariant, PTL

----------------------------------------------------------------------------
(* The port keeps its promise.                                              *)

\* The state of AsynPort as the refinement mapping sees it.
Pending  == {u \in Users : isQueued[u]}
Serving  == IF ptPc \in {"stopTimer", "callback"} THEN ptUser ELSE NoUser
Ordinary == ptPc \in {"stopTimer", "callback"} /\ ~ptConnect
Expiring == IF tmPc = "callback" THEN tmUser ELSE NoUser

LEMMA Mapping ==
  Promise!vars = <<Pending, Serving, Ordinary, Expiring, pblockProcessHolder>>
BY DEF Promise!vars, Pending, Serving, Ordinary, Expiring

LEMMA PromiseInit == Init => Promise!Init
<1> SUFFICES ASSUME Init PROVE Promise!Init
  OBVIOUS
<1>1. {u \in Users : isQueued[u]} = {}
  BY DEF Init
<1> QED BY <1>1 DEF Init, Promise!Init

\* A request that leaves the queues leaves the pending ones.
LEMMA PendingLess ==
  ASSUME TypeOK, NEW u \in Users, isQueued' = [isQueued EXCEPT ![u] = FALSE]
  PROVE  Pending' = Pending \ {u} /\ (isQueued[u] => u \in Pending)
BY DEF TypeOK, Pending

LEMMA PromiseTaken ==
  ASSUME IInv, NEW u \in Users, isQueued[u], TakeRequest(u),
         ptPc \in {"connects", "element", "autoElement"},
         ptConnect' \in BOOLEAN, ptConnect' \/ Unblocked(u),
         UNCHANGED <<blockVars, timerVars>>
  PROVE  Promise!Next
<1>1. Pending' = Pending \ {u} /\ u \in Pending
  BY PendingLess DEF IInv, TakeRequest
<1>2. /\ Serving = NoUser /\ Serving' = u
      /\ Ordinary' <=> ~ptConnect'
      /\ UNCHANGED <<Expiring, pblockProcessHolder>>
  BY DEF Serving, Ordinary, Expiring, TakeRequest, blockVars, timerVars
<1>3. CASE ptConnect'
  <2>1. Promise!ServeConnect(u)
    BY <1>1, <1>2, <1>3 DEF Promise!ServeConnect, Pending, Serving, Ordinary, Expiring
  <2> QED BY <2>1 DEF Promise!Next
<1>4. CASE ~ptConnect'
  <2>1. Promise!Serve(u)
    BY <1>1, <1>2, <1>4 DEF Promise!Serve, Pending, Serving, Ordinary, Expiring, Unblocked
  <2> QED BY <2>1 DEF Promise!Next
<1> QED BY <1>3, <1>4

LEMMA PromiseStep == IInv /\ [Next]_vars => [Promise!Next]_(Promise!vars)
<1> SUFFICES ASSUME IInv, [Next]_vars PROVE Promise!Next \/ UNCHANGED Promise!vars
  OBVIOUS
<1> USE DEF userVars, blockVars, linkVars, wakeVars, portVars, timerVars, ownerVars
<1>0. TypeOK
  BY DEF IInv
<1>1. ASSUME NEW u \in Users, NEW p, NEW withTimeout, NEW evenIfDown,
             QueueRequest(u, p, withTimeout, evenIfDown)
      PROVE  Promise!Next
  <2>1. /\ isQueued' = [isQueued EXCEPT ![u] = TRUE] /\ ~isQueued[u]
        /\ UNCHANGED <<blockVars, portVars, tmPc, tmUser>>
    BY <1>1 DEF QueueRequest
  <2>2. Pending' = Pending \cup {u} /\ u \notin Pending
    BY <1>0, <2>1 DEF TypeOK, Pending
  <2>3. Promise!Accept(u)
    BY <2>1, <2>2 DEF Promise!Accept, Pending
  <2> QED BY <2>3 DEF Promise!Next
<1>2. ASSUME NEW u \in Users, CancelQueued(u) PROVE Promise!Next
  <2>1. /\ isQueued' = [isQueued EXCEPT ![u] = FALSE] /\ isQueued[u]
        /\ UNCHANGED <<blockVars, portVars, timerVars>>
    BY <1>2 DEF CancelQueued
  <2>2. Pending' = Pending \ {u} /\ u \in Pending
    BY <1>0, <2>1, PendingLess
  <2>3. Promise!Withdraw(u)
    BY <2>1, <2>2 DEF Promise!Withdraw, Pending
  <2> QED BY <2>3 DEF Promise!Next
<1>3. ASSUME NEW u \in Users, CancelStopTimer(u) PROVE UNCHANGED Promise!vars
  BY <1>3 DEF CancelStopTimer, Promise!vars
<1>4. ASSUME NEW u \in Users, CancelSignal(u) PROVE UNCHANGED Promise!vars
  BY <1>4 DEF CancelSignal, Promise!vars
<1>5. ASSUME NEW u \in Users, CancelActive(u) PROVE UNCHANGED Promise!vars
  BY <1>5 DEF CancelActive, Promise!vars
<1>6. ASSUME NEW u \in Users, CancelWake(u) PROVE UNCHANGED Promise!vars
  BY <1>6 DEF CancelWake, Promise!vars
<1>7. ASSUME NEW u \in Users, CancelReturn(u) PROVE UNCHANGED Promise!vars
  BY <1>7 DEF CancelReturn, Promise!vars
<1>8. ASSUME NEW u \in Users, NEW all, BlockProcessCallback(u, all)
      PROVE  UNCHANGED Promise!vars
  BY <1>8 DEF BlockProcessCallback, Promise!vars
<1>9. ASSUME NEW u \in Users, UnblockPort(u)
      PROVE  Promise!Next \/ UNCHANGED Promise!vars
  <2>1. /\ UNCHANGED <<userVars, portVars, timerVars>>
        /\ \/ UNCHANGED pblockProcessHolder
           \/ pblockProcessHolder # NoUser /\ pblockProcessHolder' = NoUser
    BY <1>9, QueueAssumption DEF UnblockPort
  <2>2. CASE UNCHANGED pblockProcessHolder
    BY <2>1, <2>2 DEF Promise!vars
  <2>3. CASE pblockProcessHolder # NoUser /\ pblockProcessHolder' = NoUser
    <3>1. Promise!Unblock
      BY <2>1, <2>3 DEF Promise!Unblock
    <3> QED BY <3>1 DEF Promise!Next
  <2> QED BY <2>1, <2>2, <2>3
<1>10. ASSUME NEW u \in Users, UnblockDevice(u) PROVE UNCHANGED Promise!vars
  BY <1>10 DEF UnblockDevice, Promise!vars
<1>11. ASSUME NEW u \in Users, FreeAsynUser(u) PROVE UNCHANGED Promise!vars
  BY <1>11 DEF FreeAsynUser, Promise!vars
<1>12. ASSUME NEW u \in Users, CreateAsynUser(u) PROVE UNCHANGED Promise!vars
  <2>1. UNCHANGED isQueued
    BY <1>0, <1>12 DEF CreateAsynUser, IInv, FreeMarked, TypeOK
  <2> QED BY <1>12, <2>1 DEF CreateAsynUser, Promise!vars
<1>13. ASSUME NEW d \in Dpcs, ExceptionConnect(d) PROVE UNCHANGED Promise!vars
  BY <1>13 DEF ExceptionConnect, Promise!vars
<1>14. ASSUME NEW d \in Dpcs, ExceptionDisconnect(d) PROVE UNCHANGED Promise!vars
  BY <1>14 DEF ExceptionDisconnect, Promise!vars
<1>15. ASSUME NEW d \in Dpcs, NEW yesNo, Enable(d, yesNo) PROVE UNCHANGED Promise!vars
  BY <1>15 DEF Enable, Promise!vars
<1>16. ASSUME AnnounceExceptionOccurred PROVE UNCHANGED Promise!vars
  BY <1>16 DEF AnnounceExceptionOccurred, Promise!vars
<1>17. ASSUME PortWake PROVE UNCHANGED Promise!vars
  BY <1>17 DEF PortWake, Promise!vars
<1>18. ASSUME PortTop PROVE UNCHANGED Promise!vars
  BY <1>18 DEF PortTop, Promise!vars
<1>19. ASSUME PortTakeConnect PROVE Promise!Next
  <2> DEFINE u == Head(queueList["connect"])
  <2>1. u \in Users /\ isQueued[u]
    BY <1>19, ConnectQueued DEF PortTakeConnect, IInv
  <2>2. /\ ptPc = "connects" /\ TakeRequest(u)
        /\ ptConnect' = TRUE /\ UNCHANGED <<blockVars, timerVars>>
    BY <1>19 DEF PortTakeConnect
  <2> HIDE DEF u
  <2> QED BY <2>1, <2>2, PromiseTaken
<1>20. ASSUME PortConnectsDone PROVE UNCHANGED Promise!vars
  BY <1>20 DEF PortConnectsDone, Promise!vars
<1>21. ASSUME PortAutoConnected PROVE UNCHANGED Promise!vars
  BY <1>21 DEF PortAutoConnected, Promise!vars
<1>22. ASSUME PortScan PROVE UNCHANGED Promise!vars
  BY <1>22 DEF PortScan, Promise!vars
<1>23. ASSUME NEW u \in Users, isQueued[u], NEW up \in BOOLEAN,
             ptPc \in {"element", "autoElement"}, UNCHANGED <<blockVars, timerVars>>,
             TakeOrSkip(u, up)
      PROVE  Promise!Next \/ UNCHANGED Promise!vars
  <2>1. CASE Unblocked(u)
    <3>1. TakeRequest(u) /\ ptConnect' = FALSE
      BY <1>23, <2>1 DEF TakeOrSkip
    <3> QED BY <1>23, <2>1, <3>1, PromiseTaken
  <2>2. CASE ~Unblocked(u)
    BY <1>23, <2>2 DEF TakeOrSkip, Promise!vars
  <2> QED BY <2>1, <2>2
<1>24. ASSUME PortElement PROVE Promise!Next \/ UNCHANGED Promise!vars
  <2> DEFINE u == Waiting[ptPos]
  <2>1. u \in Users /\ isQueued[u]
    BY <1>24, WaitingQueued DEF PortElement, IInv, TypeOK, ScanPosition
  <2>2. connected[DeviceOf[u]] \in BOOLEAN
    BY <1>0, <2>1, QueueAssumption DEF TypeOK
  <2>3. ptPc = "element" /\ UNCHANGED <<blockVars, timerVars>>
    BY <1>24 DEF PortElement
  <2>4. CASE TakeOrSkip(u, connected[DeviceOf[u]])
    BY <2>1, <2>2, <2>3, <2>4, <1>23
  <2>5. CASE UNCHANGED <<userVars, ptUser, ptConnect>> /\ ptPc' \in {"element", "autoElement"}
    BY <2>3, <2>5 DEF Promise!vars
  <2> QED BY <1>24, <2>4, <2>5 DEF PortElement
<1>25. ASSUME PortElementAutoConnected PROVE Promise!Next \/ UNCHANGED Promise!vars
  <2>1. ptPc = "autoElement" /\ UNCHANGED <<blockVars, timerVars>>
    BY <1>25 DEF PortElementAutoConnected
  <2>2. CASE queueStateChange
    BY <1>25, <2>2 DEF PortElementAutoConnected, Promise!vars
  <2>3. CASE ~queueStateChange
    <3> DEFINE u == Waiting[ptPos]
    <3>1. u \in Users /\ isQueued[u]
      BY <2>1, <2>3, WaitingQueued DEF IInv, TypeOK, ScanPosition, ScanElementQueued
    <3>2. connected[DeviceOf[u]] \in BOOLEAN
      BY <1>0, <3>1, QueueAssumption DEF TypeOK
    <3>3. TakeOrSkip(u, connected[DeviceOf[u]])
      BY <1>25, <2>3 DEF PortElementAutoConnected
    <3> QED BY <2>1, <3>1, <3>2, <3>3, <1>23
  <2> QED BY <2>2, <2>3
<1>26. ASSUME PortScanDone PROVE UNCHANGED Promise!vars
  BY <1>26 DEF PortScanDone, Promise!vars
<1>27. ASSUME PortStopTimer PROVE UNCHANGED Promise!vars
  BY <1>27 DEF PortStopTimer, Promise!vars
<1>28. ASSUME PortConnectCallbackDone PROVE Promise!Next
  <2>1. /\ ptPc = "callback" /\ ptUser \in Users
        /\ ptPc' \notin {"stopTimer", "callback"}
        /\ UNCHANGED <<isQueued, timerVars>>
    BY <1>0, <1>28 DEF PortConnectCallbackDone, FinishCallback, AfterCallback, TypeOK
  <2>2. Serving # NoUser /\ Serving' = NoUser /\ ~Ordinary' /\ Ordinary' \in BOOLEAN
    BY <2>1, QueueAssumption DEF Serving, Ordinary
  <2>3. UNCHANGED pblockProcessHolder
    BY <1>28 DEF PortConnectCallbackDone
  <2>4. Promise!Served
    BY <2>1, <2>2, <2>3 DEF Promise!Served, Serving, Ordinary
  <2> QED BY <2>4 DEF Promise!Next
<1>29. ASSUME PortCallbackDone PROVE Promise!Next
  <2>1. /\ ptPc = "callback" /\ ptUser \in Users
        /\ ptPc' \notin {"stopTimer", "callback"}
        /\ UNCHANGED <<isQueued, timerVars>>
    BY <1>0, <1>29 DEF PortCallbackDone, FinishCallback, AfterCallback, TypeOK
  <2>2. Serving # NoUser /\ Serving' = NoUser /\ ~Ordinary' /\ Ordinary' \in BOOLEAN
    BY <2>1, QueueAssumption DEF Serving, Ordinary
  <2>3. Ordinary /\ pblockProcessHolder' \in {pblockProcessHolder, Serving}
    BY <1>29 DEF PortCallbackDone, HolderAfter, Serving, Ordinary
  <2>4. Promise!Served
    BY <2>1, <2>2, <2>3 DEF Promise!Served, Serving, Ordinary
  <2> QED BY <2>4 DEF Promise!Next
<1>30. ASSUME NEW u \in Users, TimerExpires(u) PROVE UNCHANGED Promise!vars
  BY <1>30 DEF TimerExpires, Promise!vars
<1>31. ASSUME QueueTimeoutNotQueued PROVE UNCHANGED Promise!vars
  BY <1>31 DEF QueueTimeoutNotQueued, Promise!vars
<1>32. ASSUME QueueTimeoutCallback PROVE Promise!Next
  <2>1. PICK u \in Users : u = tmUser
    BY <1>0, <1>32 DEF QueueTimeoutCallback, TypeOK
  <2>2. /\ tmPc # "callback" /\ tmPc' = "callback" /\ isQueued[u] /\ tmUser' = u
        /\ isQueued' = [isQueued EXCEPT ![u] = FALSE]
        /\ UNCHANGED <<blockVars, portVars>>
    BY <1>32, <2>1 DEF QueueTimeoutCallback, StillQueued
  <2>3. Pending' = Pending \ {u} /\ u \in Pending
    BY <1>0, <2>2, PendingLess
  <2>4. Promise!Expire(u)
    BY <2>2, <2>3 DEF Promise!Expire, Pending
  <2> QED BY <2>4 DEF Promise!Next
<1>33. ASSUME TimeoutCallbackDone PROVE Promise!Next
  <2>1. /\ tmPc = "callback" /\ tmPc' = "idle" /\ tmUser \in Users
        /\ UNCHANGED <<isQueued, blockVars, portVars>>
    BY <1>0, <1>33 DEF TimeoutCallbackDone, FinishCallback, TypeOK
  <2>2. Promise!Expired
    BY <2>1, QueueAssumption DEF Promise!Expired
  <2> QED BY <2>2 DEF Promise!Next
<1>34. CASE UNCHANGED vars
  BY <1>34 DEF vars, Promise!vars
<1> QED BY <1>1, <1>2, <1>3, <1>4, <1>5, <1>6, <1>7, <1>8, <1>9, <1>10, <1>11,
           <1>12, <1>13, <1>14, <1>15, <1>16, <1>17, <1>18, <1>19, <1>20, <1>21,
           <1>22, <1>24, <1>25, <1>26, <1>27, <1>28, <1>29, <1>30, <1>31, <1>32,
           <1>33, <1>34
       DEF Next, ClientNext, LinkNext, PortNext, TimerNext

\* Every behaviour of the port is one that AsynPort allows: a request accepted is
\* called back by one thread, once, or withdrawn, and blocking works.
THEOREM PromiseKept == Spec => KeepsPromise
<1>1. Spec => Promise!Init /\ [][Promise!Next]_(Promise!vars)
  BY PromiseInit, PromiseStep, Invariant, PTL DEF Spec
<1> QED BY <1>1 DEF KeepsPromise, Promise!Spec
=============================================================================
