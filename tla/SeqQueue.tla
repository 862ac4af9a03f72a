------------------------------ MODULE SeqQueue ------------------------------
(***************************************************************************)
(* The queue of a syncQ variable of a state program (seq_queue.c): a ring  *)
(* of numElems slots that one writer and one reader use without the mutex  *)
(* unless it is full.  The element that no free slot can take stays in the *)
(* slot at wr, and overflow says so.  Every access to a shared field is an *)
(* action of its own, in program order; a copy lasts as long as the pc     *)
(* stays at it.                                                            *)
(***************************************************************************)
EXTENDS Integers, Sequences

CONSTANTS
  numElems,  \* the slots of the ring
  Values,    \* what is put into the queue
  Nobody     \* the owner of a free mutex

ASSUME SeqQueueAssumption ==
  /\ numElems \in Nat \ {0}
  /\ Values # {}
  /\ Nobody \notin {"writer", "reader"}

VARIABLES
  wr, rd, overflow, mutex, buffer,  \* struct seqQueue
  wPc, wVal,  \* the writer and the element it puts
  rPc, rVal,  \* the reader and the element it copied
  got,        \* the element its last successful get returned
  sawEmpty    \* (ghost) could this get find the queue empty at some moment?

queueVars == <<wr, rd, overflow, mutex, buffer, wPc, wVal, rPc, rVal, got, sawEmpty>>
writerVars == <<wPc, wVal>>
readerVars == <<rPc, rVal, got, sawEmpty>>

Slots == 0..numElems - 1

Succ(i) == (i + 1) % numElems

\* The elements in the queue.  The last one is still in the writer's hands in
\* the middle of a put that found the queue full.
Extra ==
  IF rPc = "flushOverflow" THEN <<>>
  ELSE IF wPc = "full" \/ (wPc = "copyLocked" /\ overflow) THEN <<wVal>>
  ELSE IF overflow /\ wPc # "stillFull" THEN <<buffer[wr]>>
  ELSE <<>>
Contents == [i \in 1..(wr - rd) % numElems |-> buffer[(rd + i - 1) % numElems]] \o Extra

\* A get may miss the element of a put that has not returned.
MayBeEmpty ==
  \/ Contents = <<>>
  \/ /\ Len(Contents) = 1
     /\ wPc = "full" \/ (wPc \in {"copyLocked", "unlock"} /\ overflow)

QueueInit ==
  /\ wr = 0 /\ rd = 0 /\ overflow = FALSE /\ mutex = Nobody
  /\ wPc = "idle"
  /\ rPc = "idle" /\ sawEmpty = FALSE
  /\ \E v \in Values : /\ buffer = [s \in Slots |-> v]
                       /\ wVal = v /\ rVal = v /\ got = v

----------------------------------------------------------------------------
(* seqQueuePutF.                                                            *)

Put(v) ==
  /\ wPc = "idle"
  /\ wPc' = "overflow" /\ wVal' = v
  /\ UNCHANGED <<wr, rd, overflow, mutex, buffer, readerVars>>

PutReadsOverflow ==
  /\ wPc = "overflow"
  /\ wPc' = IF overflow THEN "lock" ELSE "positions"
  /\ UNCHANGED <<wr, rd, overflow, mutex, buffer, wVal, readerVars>>

PutReadsPositions ==
  /\ wPc = "positions"
  /\ wPc' = IF Succ(wr) = rd THEN "lock" ELSE "copy"
  /\ UNCHANGED <<wr, rd, overflow, mutex, buffer, wVal, readerVars>>

PutCopies ==
  /\ wPc = "copy"
  /\ buffer' = [buffer EXCEPT ![wr] = wVal]
  /\ wPc' = "advance"
  /\ UNCHANGED <<wr, rd, overflow, mutex, wVal, readerVars>>

PutAdvances ==
  /\ wPc = "advance"
  /\ wr' = Succ(wr)
  /\ wPc' = "idle"
  /\ UNCHANGED <<rd, overflow, mutex, buffer, wVal, readerVars>>

PutLocks ==
  /\ wPc = "lock" /\ mutex = Nobody
  /\ mutex' = "writer"
  /\ wPc' = "locked"
  /\ UNCHANGED <<wr, rd, overflow, buffer, wVal, readerVars>>

PutReadsPositionsLocked ==
  /\ wPc = "locked"
  /\ wPc' = IF Succ(wr) = rd THEN "full" ELSE IF overflow THEN "notFull" ELSE "copyLocked"
  /\ UNCHANGED <<wr, rd, overflow, mutex, buffer, wVal, readerVars>>

PutOverflows ==
  /\ wPc = "full"
  /\ overflow' = TRUE
  /\ wPc' = "copyLocked"
  /\ UNCHANGED <<wr, rd, mutex, buffer, wVal, readerVars>>

\* A get made room: the overflowing element becomes an ordinary one.
PutAdmitsOverflow ==
  /\ wPc = "notFull"
  /\ wr' = Succ(wr)
  /\ wPc' = "stillFull"
  /\ UNCHANGED <<rd, overflow, mutex, buffer, wVal, readerVars>>

PutClearsOverflow ==
  /\ wPc = "stillFull"
  /\ overflow' = (Succ(wr) = rd)
  /\ wPc' = "copyLocked"
  /\ UNCHANGED <<wr, rd, mutex, buffer, wVal, readerVars>>

PutCopiesLocked ==
  /\ wPc = "copyLocked"
  /\ buffer' = [buffer EXCEPT ![wr] = wVal]
  /\ wPc' = "unlock"
  /\ UNCHANGED <<wr, rd, overflow, mutex, wVal, readerVars>>

PutUnlocks ==
  /\ wPc = "unlock"
  /\ wr' = IF overflow THEN wr ELSE Succ(wr)
  /\ mutex' = Nobody
  /\ wPc' = "idle"
  /\ UNCHANGED <<rd, overflow, buffer, wVal, readerVars>>

PutNext ==
  \/ PutReadsOverflow \/ PutReadsPositions \/ PutCopies \/ PutAdvances
  \/ PutLocks \/ PutReadsPositionsLocked \/ PutOverflows \/ PutAdmitsOverflow
  \/ PutClearsOverflow \/ PutCopiesLocked \/ PutUnlocks

----------------------------------------------------------------------------
(* seqQueueGetF and seqQueueFlush, both called by the reader.               *)

GetReadsPositions ==
  /\ rPc = "idle"
  /\ rPc' = IF wr = rd THEN "overflow" ELSE "copy"
  /\ sawEmpty' = MayBeEmpty
  /\ UNCHANGED <<wr, rd, overflow, mutex, buffer, writerVars, rVal, got>>

\* Without an overflowing element the get returns that the queue is empty.
GetReadsOverflow ==
  /\ rPc = "overflow"
  /\ rPc' = IF overflow THEN "lock" ELSE "empty"
  /\ sawEmpty' = (sawEmpty \/ MayBeEmpty)
  /\ UNCHANGED <<wr, rd, overflow, mutex, buffer, writerVars, rVal, got>>

GetReturnsEmpty ==
  /\ rPc = "empty"
  /\ rPc' = "idle"
  /\ UNCHANGED <<wr, rd, overflow, mutex, buffer, writerVars, rVal, got, sawEmpty>>

GetCopies ==
  /\ rPc = "copy"
  /\ rVal' = buffer[rd]
  /\ rPc' = "advance"
  /\ UNCHANGED <<wr, rd, overflow, mutex, buffer, writerVars, got, sawEmpty>>

GetAdvances ==
  /\ rPc = "advance"
  /\ rd' = Succ(rd)
  /\ got' = rVal /\ rPc' = "idle"
  /\ UNCHANGED <<wr, overflow, mutex, buffer, writerVars, rVal, sawEmpty>>

GetLocks ==
  /\ rPc = "lock" /\ mutex = Nobody
  /\ mutex' = "reader"
  /\ rPc' = "copyLocked"
  /\ UNCHANGED <<wr, rd, overflow, buffer, writerVars, rVal, got, sawEmpty>>

GetCopiesLocked ==
  /\ rPc = "copyLocked"
  /\ rVal' = buffer[rd]
  /\ rPc' = "unlock"
  /\ UNCHANGED <<wr, rd, overflow, mutex, buffer, writerVars, got, sawEmpty>>

\* (mutant) The reader does not check again whether a put has intervened.
GetForgetsPut ==
  /\ rPc = "unlock"
  /\ overflow' = FALSE /\ UNCHANGED rd
  /\ mutex' = Nobody
  /\ got' = rVal /\ rPc' = "idle"
  /\ UNCHANGED <<wr, buffer, writerVars, rVal, sawEmpty>>

\* If a put has intervened the element is an ordinary one by now.
GetUnlocks ==
  /\ rPc = "unlock"
  /\ IF wr = rd /\ overflow
     THEN overflow' = FALSE /\ UNCHANGED rd
     ELSE rd' = Succ(rd) /\ UNCHANGED overflow
  /\ mutex' = Nobody
  /\ got' = rVal /\ rPc' = "idle"
  /\ UNCHANGED <<wr, buffer, writerVars, rVal, sawEmpty>>

FlushLocks ==
  /\ rPc = "idle" /\ mutex = Nobody
  /\ mutex' = "reader"
  /\ rPc' = "flush"
  /\ UNCHANGED <<wr, rd, overflow, buffer, writerVars, rVal, got, sawEmpty>>

FlushPositions ==
  /\ rPc = "flush"
  /\ rd' = wr
  /\ rPc' = "flushOverflow"
  /\ UNCHANGED <<wr, overflow, mutex, buffer, writerVars, rVal, got, sawEmpty>>

FlushOverflow ==
  /\ rPc = "flushOverflow"
  /\ overflow' = FALSE /\ mutex' = Nobody
  /\ rPc' = "idle"
  /\ UNCHANGED <<wr, rd, buffer, writerVars, rVal, got, sawEmpty>>

GetNext ==
  \/ GetReadsPositions \/ GetReadsOverflow \/ GetReturnsEmpty \/ GetCopies
  \/ GetAdvances \/ GetLocks \/ GetCopiesLocked \/ GetUnlocks
  \/ FlushLocks \/ FlushPositions \/ FlushOverflow

QueueNext == (\E v \in Values : Put(v)) \/ PutNext \/ GetNext

QueueSpec == QueueInit /\ [][QueueNext]_queueVars

----------------------------------------------------------------------------
(* Properties.                                                              *)

\* The type of every variable; that of rd and wr is seqQueueInvariant.
QueueTypeOK ==
  /\ wr \in Slots /\ rd \in Slots
  /\ overflow \in BOOLEAN
  /\ mutex \in {"writer", "reader", Nobody}
  /\ buffer \in [Slots -> Values]
  /\ wPc \in {"idle", "overflow", "positions", "copy", "advance", "lock", "locked",
              "full", "notFull", "stillFull", "copyLocked", "unlock"}
  /\ wVal \in Values
  /\ rPc \in {"idle", "overflow", "empty", "copy", "advance", "lock", "copyLocked",
              "unlock", "flush", "flushOverflow"}
  /\ rVal \in Values /\ got \in Values /\ sawEmpty \in BOOLEAN

\* Reader and writer never access the same slot at the same time, although both
\* go without the mutex most of the time: no element is read half written.
NoSlotShared ==
  wPc \in {"copy", "copyLocked"} /\ rPc \in {"copy", "copyLocked"} => wr # rd

\* Under every interleaving the queue behaves like a queue that is used by one
\* operation at a time: elements come out in the order they went in, each once,
\* and only a put into a full queue loses one, the last.
Promise == INSTANCE SeqFifo WITH contents <- Contents
FifoImplemented == Promise!Spec

\* A get returns that the queue was empty only if at some moment of the call it
\* held no element whose put had returned.
EmptyMeansEmpty == rPc = "empty" => sawEmpty
=============================================================================
