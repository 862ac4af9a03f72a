---------------------------- MODULE AsynException ----------------------------
(***************************************************************************)
(* The exception callbacks of one port or device (asynManager.c):          *)
(* announceExceptionOccurred walks exceptionUserList without the lock, and *)
(* exceptionCallbackAdd and exceptionCallbackRemove wait until no walk is  *)
(* going on before they change the list.  Every critical section of        *)
(* asynManagerLock is one action.                                          *)
(***************************************************************************)
EXTENDS Naturals, Sequences, SequencesExt

CONSTANTS
  Users,       \* the asynUsers that register for exceptions
  Announcers,  \* the threads that announce exceptions
  NoUser       \* the end of a list

ASSUME ExceptionAssumption == NoUser \notin Users

VARIABLES
  exceptionActive, exceptionUserList, exceptionNotifyList, \* of struct dpCommon
  onList,      \* does userPvt.pexceptionUser point to a node?
  notify,      \* the event in the exceptionUser
  excPc,          \* what each asynUser's thread waits for
  excWalk, excCursor \* where each announcer is: the node whose callback runs

excVars == <<exceptionActive, exceptionUserList, exceptionNotifyList, onList, notify,
          excPc, excWalk, excCursor>>

ExcInit ==
  /\ exceptionActive = FALSE
  /\ exceptionUserList = <<>> /\ exceptionNotifyList = <<>>
  /\ onList = [u \in Users |-> FALSE]
  /\ notify = [u \in Users |-> FALSE]
  /\ excPc = [u \in Users |-> "idle"]
  /\ excWalk = [a \in Announcers |-> "idle"]
  /\ excCursor = [a \in Announcers |-> NoUser]

----------------------------------------------------------------------------
(* exceptionCallbackAdd and exceptionCallbackRemove.                        *)

\* (mutant) The test of exceptionActive is forgotten.
NeverBusy == FALSE

Busy == exceptionActive

\* Wait, on the notify list, for the end of an announcement.
WaitNotified(u, what) ==
  /\ exceptionNotifyList' = Append(exceptionNotifyList, u)
  /\ excPc' = [excPc EXCEPT ![u] = what]
  /\ notify' = [notify EXCEPT ![u] = FALSE]
  /\ UNCHANGED <<exceptionUserList, onList>>

AddNode(u) ==
  /\ exceptionUserList' = Append(exceptionUserList, u)
  /\ onList' = [onList EXCEPT ![u] = TRUE]
  /\ excPc' = [excPc EXCEPT ![u] = "idle"]
  /\ notify' = [notify EXCEPT ![u] = FALSE]
  /\ UNCHANGED exceptionNotifyList

\* The node leaves the list and its memory is freed.
RemoveNode(u) ==
  /\ exceptionUserList' = RemoveFirst(exceptionUserList, u)
  /\ onList' = [onList EXCEPT ![u] = FALSE]
  /\ excPc' = [excPc EXCEPT ![u] = "idle"]
  /\ notify' = [notify EXCEPT ![u] = FALSE]
  /\ UNCHANGED exceptionNotifyList

\* A call enters, or comes back from its wait.
At(u, what) == \/ excPc[u] = "idle" /\ onList[u] = (what = "remove")
               \/ excPc[u] = what /\ notify[u]

ExceptionCallbackAdd(u) ==
  /\ At(u, "add") /\ ~Busy
  /\ AddNode(u)
  /\ UNCHANGED <<exceptionActive, excWalk, excCursor>>

ExceptionCallbackRemove(u) ==
  /\ At(u, "remove") /\ ~Busy
  /\ RemoveNode(u)
  /\ UNCHANGED <<exceptionActive, excWalk, excCursor>>

WaitForEnd(u, what) ==
  /\ At(u, what) /\ Busy
  /\ WaitNotified(u, what)
  /\ UNCHANGED <<exceptionActive, excWalk, excCursor>>

----------------------------------------------------------------------------
(* announceExceptionOccurred.                                               *)

AnnounceStart(a) ==
  /\ excWalk[a] = "idle"
  /\ exceptionActive' = TRUE
  /\ excWalk' = [excWalk EXCEPT ![a] = "first"]
  /\ UNCHANGED <<exceptionUserList, exceptionNotifyList, onList, notify, excPc, excCursor>>

\* The node after the one at the cursor.  The link of a freed node is garbage.
Following(a) ==
  IF excWalk[a] = "first" THEN {Append(exceptionUserList, NoUser)[1]}
  ELSE LET at == {i \in DOMAIN exceptionUserList : exceptionUserList[i] = excCursor[a]}
       IN IF at = {} THEN Users \cup {NoUser}
          ELSE {Append(exceptionUserList, NoUser)[i + 1] : i \in at}

\* The callback at the cursor has returned, and that of the next node starts.
AnnounceNext(a) ==
  /\ excWalk[a] \in {"first", "callback"}
  /\ \E u \in Following(a) :
       /\ excCursor' = [excCursor EXCEPT ![a] = u]
       /\ excWalk' = [excWalk EXCEPT ![a] = IF u = NoUser THEN "end" ELSE "callback"]
  /\ UNCHANGED <<exceptionActive, exceptionUserList, exceptionNotifyList, onList,
                 notify, excPc>>

\* (mutant) Only the first of the waiting threads is notified.
NotifyFirst == {exceptionNotifyList[i] : i \in DOMAIN exceptionNotifyList \cap {1}}

\* The threads that the end of an announcement notifies.
Notified == {exceptionNotifyList[i] : i \in DOMAIN exceptionNotifyList}

AnnounceEnd(a) ==
  /\ excWalk[a] = "end"
  /\ notify' = [u \in Users |-> notify[u] \/ u \in Notified]
  /\ exceptionNotifyList' = <<>>
  /\ exceptionActive' = FALSE
  /\ excWalk' = [excWalk EXCEPT ![a] = "idle"]
  /\ UNCHANGED <<exceptionUserList, onList, excPc, excCursor>>

ExcNext ==
  \/ \E u \in Users : \/ ExceptionCallbackAdd(u) \/ ExceptionCallbackRemove(u)
                      \/ \E what \in {"add", "remove"} : WaitForEnd(u, what)
  \/ \E a \in Announcers : AnnounceStart(a) \/ AnnounceNext(a) \/ AnnounceEnd(a)

ExcSpec == ExcInit /\ [][ExcNext]_excVars

\* A started announcement goes on and its callbacks return; a thread that was
\* notified runs, and is not always late for the time between two announcements.
ExcFairSpec ==
  /\ ExcSpec
  /\ \A a \in Announcers : WF_excVars(AnnounceNext(a) \/ AnnounceEnd(a))
  /\ \A u \in Users : SF_excVars(excPc[u] # "idle" /\ ExceptionCallbackAdd(u))
                      /\ SF_excVars(excPc[u] # "idle" /\ ExceptionCallbackRemove(u))
                      /\ \A what \in {"add", "remove"} :
                           WF_excVars(excPc[u] # "idle" /\ WaitForEnd(u, what))

----------------------------------------------------------------------------
(* Properties.                                                              *)

\* The type of every variable.
ExcTypeOK ==
  /\ exceptionActive \in BOOLEAN
  /\ exceptionUserList \in Seq(Users) /\ exceptionNotifyList \in Seq(Users)
  /\ onList \in [Users -> BOOLEAN] /\ notify \in [Users -> BOOLEAN]
  /\ excPc \in [Users -> {"idle", "add", "remove"}]
  /\ excWalk \in [Announcers -> {"idle", "first", "callback", "end"}]
  /\ excCursor \in [Announcers -> Users \cup {NoUser}]
  /\ \A a \in Announcers : excWalk[a] = "callback" => excCursor[a] \in Users

\* An asynUser has one node on the list or none, as its pexceptionUser says.
ListMatches ==
  /\ IsInjective(exceptionUserList)
  /\ \A u \in Users : onList[u] <=> Contains(exceptionUserList, u)

\* The walk never stands on a node that was removed and freed: the callback of
\* an asynUser does not run any more once exceptionCallbackRemove has returned.
WalkSafe == \A a \in Announcers : excWalk[a] = "callback" => onList[excCursor[a]]

\* While an exception is announced the list stays as it is: everybody who was
\* on it hears of the exception.
WalkFrozen ==
  [][(\E a \in Announcers : excWalk[a] # "idle" /\ excWalk'[a] # "idle")
       => UNCHANGED exceptionUserList]_excVars

\* Who waits is on the notify list of an active announcement, or notified:
\* nobody is forgotten.
WaiterKnown ==
  \A u \in Users : excPc[u] # "idle" =>
    (exceptionActive /\ Contains(exceptionNotifyList, u)) \/ notify[u]

\* exceptionCallbackAdd and exceptionCallbackRemove return.
CallsReturn == \A u \in Users : excPc[u] # "idle" ~> excPc[u] = "idle"
=============================================================================
