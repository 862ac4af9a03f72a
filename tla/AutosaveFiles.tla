---------------------------- MODULE AutosaveFiles ----------------------------
(***************************************************************************)
(* The files of a save set of autosave (save_restore.c, dbrestore.c): how  *)
(* the save_restore task writes .sav, .savB and the sequenced copies in    *)
(* place, and what a reboot restores from them.  When a save is made is    *)
(* the subject of AutosaveRequests; here it may be at any pass.            *)
(*                                                                         *)
(* The values of the PVs are a number that grows with every change of one  *)
(* and with every start of the IOC.  A file holds such a number, or is Bad *)
(* (it lacks the <END> marker), Empty or None.  The process may die        *)
(* between any two steps; a write is a step that truncates the file, one   *)
(* that fills it in part, when it is longer than the buffer of stdio, and  *)
(* one that completes it.                                                  *)
(***************************************************************************)
EXTENDS Integers, Sequences, SequencesExt, FiniteSetsExt

CONSTANTS
  Faults,  \* what may fail: "open", "print" or "close" of a file, or the "check" of it
  NumSeq,  \* save_restoreNumSeqFiles
  MaxValue, MaxCrash, MaxFaults, MaxManual \* bounds on what the environment does

ASSUME AutosaveAssumption ==
  /\ Faults \subseteq {"open", "print", "close", "check"}
  /\ {NumSeq, MaxValue, MaxCrash, MaxFaults, MaxManual} \subseteq Nat

None == -3
Bad == -2
Empty == -1
Good(content) == content >= 0
Slots == 0..NumSeq - 1

VARIABLES
  value,    \* the present values of the PVs
  failing,  \* status <= SR_STATUS_FAIL
  fetched,  \* the values in the list of channels
  seqNum,   \* backup_sequence_num
  pc,       \* where the save_restore task is
  backup,   \* backup_state and configName: what becomes of .savB
  file,     \* the contents of .sav and .savB
  copies,   \* the contents of the sequenced copies
  written,  \* the sequenced copies, the most recently written last
  saved,    \* (ghost) what write_save_file last said it has saved
  unsafe,   \* (ghost) a manual save or a failed fclose has bypassed .savB
  crashes, faults, manuals \* counts that the bounds limit

diskVars == <<file, copies, written, saved, unsafe>>
vars == <<value, failing, fetched, seqNum, pc, backup, diskVars,
          crashes, faults, manuals>>

\* checkFile at boot takes a file that ends with the marker.  Of an empty one it
\* reads nothing and looks for the version in a buffer that is not initialised:
\* mostly it finds none and takes the file all the same (emptyPasses).
Taken(content, emptyPasses) == Good(content) \/ (content = Empty /\ emptyPasses)

\* What fopen_and_check opens at boot: .sav, else .savB, else the sequenced
\* copies in turn from the most recent one.
FromCopies(emptyPasses) ==
  LET first == IF written = <<>> THEN 0 ELSE Last(written)
      Turn(i) == copies[(first + i) % NumSeq]
      usable == {i \in Slots : Taken(Turn(i), emptyPasses)}
  IN IF usable = {} THEN None ELSE Turn(Min(usable))
Restored(emptyPasses) ==
  IF Taken(file["sav"], emptyPasses) THEN file["sav"]
  ELSE IF Taken(file["savB"], emptyPasses) THEN file["savB"]
  ELSE FromCopies(emptyPasses)

Init ==
  /\ value = 0
  /\ failing = TRUE /\ fetched = 0 /\ seqNum = -1
  /\ pc = "sleep" /\ backup = "copy"
  /\ file = [f \in {"sav", "savB"} |-> None]
  /\ copies = [i \in Slots |-> None] /\ written = <<>>
  /\ saved = None /\ unsafe = FALSE
  /\ crashes = 0 /\ faults = 0 /\ manuals = 0

----------------------------------------------------------------------------
(* What starts a save.                                                      *)

ValueChanges ==
  /\ value < MaxValue + crashes
  /\ value' = value + 1
  /\ UNCHANGED <<failing, fetched, seqNum, pc, backup, diskVars, crashes, faults,
                 manuals>>

\* A pass over the list that need not save.
PassWithoutSave ==
  /\ pc = "sleep"
  /\ pc' = "seq"
  /\ UNCHANGED <<value, failing, fetched, seqNum, backup, diskVars, crashes,
                 faults, manuals>>

GetChannelValues ==
  /\ pc = "sleep"
  /\ fetched' = value /\ pc' = "check backup"
  /\ UNCHANGED <<value, failing, seqNum, backup, diskVars, crashes, faults, manuals>>

\* A message of manual_save, whose file name is empty when it comes from the
\* shell: the values are fetched and the .sav file is written.  What it held goes
\* to a dated file, which nothing reads; if there is none, the copies go nowhere.
ManualSave ==
  /\ pc = "sleep" /\ manuals < MaxManual
  /\ manuals' = manuals + 1
  /\ fetched' = value /\ failing' = FALSE
  /\ pc' = "open sav"
  /\ backup' = IF file["sav"] = None THEN "nowhere" ELSE "dated"
  /\ UNCHANGED <<value, seqNum, diskVars, crashes, faults>>

----------------------------------------------------------------------------
(* write_save_file, with write_it and myFileCopy.                           *)

\* (mutant) .sav is overwritten without a look at .savB.
BackupUnchecked ==
  /\ pc = "check backup"
  /\ failing' = FALSE
  /\ backup' = "copy" /\ pc' = "open sav"
  /\ UNCHANGED <<value, fetched, seqNum, diskVars, crashes, faults, manuals>>

CheckBackup ==
  /\ pc = "check backup"
  /\ failing' = FALSE
  /\ IF Good(file["savB"]) THEN backup' = "copy" /\ pc' = "open sav"
                           ELSE backup' = "new" /\ pc' = "open savB"
  /\ UNCHANGED <<value, fetched, seqNum, diskVars, crashes, faults, manuals>>

Fault(kind) ==
  /\ kind \in Faults /\ faults < MaxFaults
  /\ faults' = faults + 1

Manual == backup \in {"dated", "nowhere"}

Return == IF Manual THEN "sleep" ELSE "seq"

GiveUp == failing' = TRUE /\ pc' = Return

\* write_it opens and truncates a file, or cannot.
OpenToWrite(f, here, next) ==
  /\ pc = here
  /\ \/ /\ file' = [file EXCEPT ![f] = Empty] /\ unsafe' = (unsafe \/ Manual)
        /\ pc' = next /\ UNCHANGED <<failing, faults>>
     \/ Fault("open") /\ GiveUp /\ UNCHANGED <<file, unsafe>>
  /\ UNCHANGED <<value, fetched, seqNum, backup, copies, written, saved, crashes,
                 manuals>>

\* The buffer of stdio is full before everything is written.
PartWritten ==
  /\ pc \in {"copy", "seq copy"} => file["sav"] # Empty
  /\ \/ \E f \in {"sav", "savB"} :
          /\ pc \in (IF f = "sav" THEN {"write sav"} ELSE {"write savB", "copy"})
          /\ file[f] = Empty /\ file' = [file EXCEPT ![f] = Bad] /\ UNCHANGED copies
     \/ /\ pc \in {"seq copy", "write seq"} /\ copies[seqNum] = Empty
        /\ copies' = [copies EXCEPT ![seqNum] = Bad] /\ UNCHANGED file
  /\ UNCHANGED <<value, failing, fetched, seqNum, pc, backup, written, saved, unsafe,
                 crashes, faults, manuals>>

\* write_it puts the values and the marker into the file, closes it and checks it.
\* After an fclose that failed it calls fclose again: when that returns 0 the file
\* is taken for complete, unchecked.  The check refuses a good file whose time
\* differs from the clock.
WriteValues(f, here, next) ==
  /\ pc = here
  /\ \/ /\ file' = [file EXCEPT ![f] = fetched] /\ UNCHANGED unsafe
        /\ \/ pc' = next /\ UNCHANGED <<failing, faults>>
           \/ Fault("check") /\ GiveUp
     \/ Fault("print") /\ GiveUp /\ UNCHANGED <<file, unsafe>>
     \/ Fault("close") /\ pc' = next /\ unsafe' = TRUE /\ UNCHANGED <<file, failing>>
  /\ UNCHANGED <<value, fetched, seqNum, backup, copies, written, saved, crashes,
                 manuals>>

\* write_save_file returns OK.
Acknowledge ==
  /\ saved' = fetched
  /\ unsafe' = (Manual \/ ~Good(file'["sav"]))

\* The .sav file is written: what remains is the copy, which goes to .savB
\* unless that file is new or the save is a manual one.
SavWritten ==
  /\ pc = "sav written" /\ UNCHANGED file
  /\ \/ /\ backup = "copy"
        /\ pc' = "open copy" /\ UNCHANGED <<saved, unsafe, faults>>
     \/ /\ backup \in {"new", "dated"}
        /\ pc' = Return /\ Acknowledge /\ UNCHANGED faults
     \/ /\ \/ backup = "nowhere" /\ UNCHANGED faults
           \/ backup = "dated" /\ Fault("open")
        /\ pc' = Return /\ UNCHANGED <<saved, unsafe>>
  /\ UNCHANGED <<value, failing, fetched, seqNum, backup, copies, written, crashes,
                 manuals>>

\* myFileCopy of .sav to .savB; a failure is a warning, and an fclose that fails
\* is not one.
OpenCopy ==
  /\ pc = "open copy"
  /\ \/ file' = [file EXCEPT !["savB"] = Empty] /\ pc' = "copy" /\ UNCHANGED faults
     \/ Fault("open") /\ pc' = Return /\ UNCHANGED file
  /\ UNCHANGED <<value, failing, fetched, seqNum, backup, copies, written, saved,
                 unsafe, crashes, manuals>>

CopySav ==
  /\ pc = "copy"
  /\ pc' = Return
  /\ \/ file' = [file EXCEPT !["savB"] = file["sav"]] /\ Acknowledge /\ UNCHANGED faults
     \/ Fault("print") /\ UNCHANGED <<file, saved, unsafe>>
     \/ Fault("close") /\ UNCHANGED file /\ Acknowledge
  /\ UNCHANGED <<value, failing, fetched, seqNum, backup, copies, written,
                 crashes, manuals>>

----------------------------------------------------------------------------
(* do_seq: a copy of .sav, or else the values themselves, in the next of    *)
(* the sequenced copies; the oldest one is the first after a boot.          *)

FirstSlot ==
  IF \E i \in Slots : copies[i] = None THEN Min({i \in Slots : copies[i] = None})
  ELSE Head(written)

StartSeq ==
  /\ pc = "seq"
  /\ \/ /\ NumSeq > 0 /\ ~failing
        /\ seqNum' = IF seqNum = -1 THEN FirstSlot ELSE seqNum
        /\ pc' = "open seq copy"
     \/ pc' = "sleep" /\ UNCHANGED seqNum
  /\ UNCHANGED <<value, failing, fetched, backup, diskVars, crashes, faults,
                 manuals>>

OpenSeq(here, next, failed) ==
  /\ pc = here
  /\ \/ /\ copies' = [copies EXCEPT ![seqNum] = Empty]
        /\ written' = Append(RemoveFirst(written, seqNum), seqNum)
        /\ pc' = next /\ UNCHANGED faults
     \/ Fault("open") /\ pc' = failed /\ UNCHANGED <<copies, written>>
  /\ UNCHANGED <<value, failing, fetched, seqNum, backup, file, saved, unsafe,
                 crashes, manuals>>

SeqDone ==
  /\ pc' = "sleep"
  /\ seqNum' = (seqNum + 1) % NumSeq

FillSeq(here, content, failed) ==
  /\ pc = here
  /\ \/ copies' = [copies EXCEPT ![seqNum] = content] /\ SeqDone /\ UNCHANGED faults
     \/ Fault("print") /\ pc' = failed /\ UNCHANGED <<copies, seqNum>>
     \/ Fault("close") /\ SeqDone /\ UNCHANGED copies
  /\ UNCHANGED <<value, failing, fetched, backup, file, written, saved, unsafe,
                 crashes, manuals>>

WriteSeq ==
  \/ OpenSeq("open seq copy", "seq copy", "open seq")
  \/ FillSeq("seq copy", file["sav"], "open seq")
  \/ OpenSeq("open seq", "write seq", "sleep")
  \/ FillSeq("write seq", fetched, "sleep")

----------------------------------------------------------------------------
(* The process dies and is started again.  Whatever it restores, its values  *)
(* are those of a new run.                                                  *)

CrashAndReboot ==
  /\ crashes < MaxCrash
  /\ crashes' = crashes + 1
  /\ value' = value + 1
  /\ failing' = TRUE /\ fetched' = 0 /\ seqNum' = -1
  /\ pc' = "sleep" /\ backup' = "copy"
  /\ UNCHANGED <<diskVars, faults, manuals>>

Next ==
  \/ ValueChanges \/ PassWithoutSave \/ GetChannelValues \/ ManualSave
  \/ CheckBackup
  \/ OpenToWrite("savB", "open savB", "write savB")
  \/ WriteValues("savB", "write savB", "open sav")
  \/ OpenToWrite("sav", "open sav", "write sav")
  \/ WriteValues("sav", "write sav", "sav written")
  \/ PartWritten \/ SavWritten \/ OpenCopy \/ CopySav
  \/ StartSeq \/ WriteSeq
  \/ CrashAndReboot

Spec == Init /\ [][Next]_vars

----------------------------------------------------------------------------
(* Properties.                                                              *)

Contents == {None, Bad, Empty} \cup Nat
Pcs == {"sleep", "check backup", "open savB", "write savB", "open sav",
        "write sav", "sav written", "open copy", "copy", "seq",
        "open seq copy", "seq copy", "open seq", "write seq"}

\* Every variable has its type.
TypeOK ==
  /\ value \in Nat
  /\ failing \in BOOLEAN /\ fetched \in Nat /\ seqNum \in Slots \cup {-1}
  /\ pc \in Pcs /\ backup \in {"copy", "new", "dated", "nowhere"}
  /\ file \in [{"sav", "savB"} -> Contents] /\ copies \in [Slots -> Contents]
  /\ written \in Seq(Slots)
  /\ saved \in Contents /\ unsafe \in BOOLEAN
  /\ crashes \in Nat /\ faults \in Nat /\ manuals \in Nat

\* A reboot at any moment restores values at least as recent as those of the
\* last save that write_save_file reported as done, whatever it was doing and
\* whatever failed.  If .sav is empty, it may restore nothing instead, and .savB
\* holds these values.  Manual saves and a failed fclose are excepted, until a save
\* has succeeded again.
RestoreNotOlder ==
  ~unsafe => \A emptyPasses \in BOOLEAN :
    \/ Restored(emptyPasses) >= saved
    \/ file["sav"] = Empty /\ file["savB"] >= saved

\* A reboot does not use a file that does not end with the marker
\* (documentation/autoSaveRestore.html:747-750): the code may use an empty one.
OnlyCompleteUsed ==
  \A emptyPasses \in BOOLEAN : Restored(emptyPasses) # Empty

\* Once a save file has been created, .sav is overwritten only while there is a
\* good .savB (documentation/autoSaveRestore.html:751).
BackupBeforeOverwrite ==
  [][ (Good(file["sav"]) /\ ~Good(file'["sav"])) => Good(file["savB"]) ]_vars

=============================================================================
