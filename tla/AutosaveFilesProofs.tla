------------------------- MODULE AutosaveFilesProofs -------------------------
(***************************************************************************)
(* Proofs about AutosaveFiles, for any number of sequenced copies, crashes *)
(* and faults: a reboot restores the last save that was reported, or a     *)
(* later one, unless it finds .sav empty, when .savB has it; and without   *)
(* manual saves and failures of fclose .sav is overwritten only while      *)
(* .savB is good.                                                          *)
(***************************************************************************)
EXTENDS AutosaveFiles, ListLemmas, WellFoundedInduction, TLAPS

Files == {"sav", "savB"}

SeqPlaces == {"open seq copy", "seq copy", "open seq", "write seq"}
SavePlaces == {"check backup", "open savB", "write savB", "open sav", "write sav",
               "sav written", "open copy", "copy"}

\* TypeOK with what it takes to be kept: a copy that exists has been written, and
\* do_seq has a number, which is that of a copy once it is open.
Types ==
  /\ TypeOK
  /\ IsInjective(written) /\ \A i \in Slots : copies[i] = None \/ Contains(written, i)
  /\ pc \in SeqPlaces => seqNum \in Slots
  /\ pc \in {"seq copy", "write seq"} => Contains(written, seqNum)

\* No values are saved that the database has not had.
BoundInv == fetched <= value

\* What the place of the task says of the files, whatever has happened before.
PlaceInv ==
  /\ pc \in {"open savB", "write savB"} => backup = "new" /\ ~Good(file["savB"])
  /\ pc \in {"open copy", "copy"} => backup = "copy"
  /\ pc = "write sav" => ~Good(file["sav"]) /\ (Manual => unsafe)
  /\ pc = "copy" => ~Good(file["savB"])
  /\ pc \in {"open sav", "write sav", "sav written"} /\ backup = "new" /\ Good(file["savB"])
       => file["savB"] = fetched
  /\ pc \in {"sav written", "open copy", "copy"} /\ Good(file["sav"]) => file["sav"] = fetched

\* Each of the two files is as recent as the save that was reported, and one of them
\* is good: the other one while a file is being written.
SafeInv == ~unsafe =>
  /\ \A f \in Files : Good(file[f]) => saved <= file[f]
  /\ saved <= value /\ (pc \in SavePlaces => saved <= fetched)
  /\ saved = None \/ Good(file["sav"]) \/ Good(file["savB"])
  /\ pc \in {"open sav", "write sav"} /\ ~Manual => Good(file["savB"])
  /\ pc \in {"sav written", "open copy", "copy"} => Good(file["sav"])

IInv == Types /\ BoundInv /\ PlaceInv /\ SafeInv

----------------------------------------------------------------------------
(* What the operators of the model return.                                  *)

LEMMA SlotsAre ==
  /\ NumSeq \in Nat /\ Slots \subseteq Nat
  /\ \A n \in Slots : NumSeq > 0 /\ (n + 1) % NumSeq \in Slots
  /\ NumSeq > 0 => 0 \in Slots /\ \A n \in Nat : n % NumSeq \in Slots
<1>1. NumSeq \in Nat
  BY AutosaveAssumption
<1>2. \A n \in Slots : n \in Nat /\ NumSeq > 0
  BY <1>1 DEF Slots
<1>3. NumSeq > 0 => 0 \in Slots
  BY <1>1 DEF Slots
<1>4. ASSUME NEW n \in Nat, NumSeq > 0 PROVE n % NumSeq \in Slots
  BY <1>1, <1>4 DEF Slots
<1>5. \A n \in Slots : n + 1 \in Nat
  BY <1>2
<1> QED BY <1>1, <1>2, <1>3, <1>4, <1>5

\* The least of a set of slots.
LEMMA MinIsOne ==
  ASSUME NEW S, S \subseteq Slots, S # {}
  PROVE  Min(S) \in S
<1>1. S \subseteq Nat
  BY SlotsAre
<1>2. PICK x \in S : \A y \in S : ~(<<y, x>> \in OpToRel(<, Nat))
  BY <1>1, WFMin, NatLessThanWellFounded
<1>3. \A y \in S : ~(y < x)
  BY <1>1, <1>2 DEF OpToRel
<1>4. \A y \in S : x <= y
  BY <1>1, <1>3
<1> QED BY <1>4 DEF Min

\* The copies have nothing to restore, or what one of them holds.
LEMMA FromCopiesIs ==
  ASSUME Types, NEW emptyPasses \in BOOLEAN
  PROVE  \/ FromCopies(emptyPasses) = None
         \/ FromCopies(emptyPasses) \in {copies[i] : i \in Slots}
<1> DEFINE first == IF written = <<>> THEN 0 ELSE Last(written)
           Turn(i) == copies[(first + i) % NumSeq]
           usable == {i \in Slots : Taken(Turn(i), emptyPasses)}
<1>1. FromCopies(emptyPasses) = IF usable = {} THEN None ELSE Turn(Min(usable))
  BY DEF FromCopies
<1>2. CASE usable = {}
  BY <1>1, <1>2
<1>3. CASE usable # {}
  <2>1. Min(usable) \in Slots
    BY <1>3, MinIsOne
  <2>2. first \in Nat
    <3>1. written \in Seq(Slots)
      BY DEF Types, TypeOK
    <3>2. written # <<>> => Last(written) \in Slots
      BY <3>1 DEF Last
    <3> QED BY <3>2, SlotsAre
  <2>3. Min(usable) \in Nat /\ NumSeq > 0
    BY <2>1, SlotsAre
  <2>4. (first + Min(usable)) % NumSeq \in Slots
    <3>1. first + Min(usable) \in Nat
      BY <2>2, <2>3
    <3> QED BY <2>3, <3>1, SlotsAre
  <2> QED BY <1>1, <1>3, <2>4
<1> QED BY <1>2, <1>3

\* A reboot finds what a file or a copy holds, or nothing.
LEMMA RestoredIs ==
  ASSUME Types, NEW emptyPasses \in BOOLEAN
  PROVE  LET restored == Restored(emptyPasses) IN
         /\ Good(file["sav"]) => restored = file["sav"]
         /\ ~Good(file["sav"]) /\ file["sav"] # Empty /\ Good(file["savB"])
              => restored = file["savB"]
         /\ \/ restored = None \/ restored \in {file[f] : f \in Files}
            \/ restored \in {copies[i] : i \in Slots}
<1> DEFINE taken(f) == Taken(file[f], emptyPasses)
<1>1. /\ taken("sav") => Restored(emptyPasses) = file["sav"]
      /\ ~taken("sav") /\ taken("savB") => Restored(emptyPasses) = file["savB"]
      /\ ~taken("sav") /\ ~taken("savB") => Restored(emptyPasses) = FromCopies(emptyPasses)
  BY DEF Restored
<1>2. \A f \in Files : /\ Good(file[f]) => taken(f)
                       /\ (~Good(file[f]) /\ file[f] # Empty) => ~taken(f)
  BY DEF Taken
<1> HIDE DEF taken
<1>3. "sav" \in Files /\ "savB" \in Files
  BY DEF Files
<1>4. \/ Restored(emptyPasses) \in {file["sav"], file["savB"]}
      \/ Restored(emptyPasses) = FromCopies(emptyPasses)
  BY <1>1
<1>5. \/ Restored(emptyPasses) = None \/ Restored(emptyPasses) \in {file[f] : f \in Files}
      \/ Restored(emptyPasses) \in {copies[i] : i \in Slots}
  BY <1>3, <1>4, FromCopiesIs
<1> QED BY <1>1, <1>2, <1>3, <1>5

----------------------------------------------------------------------------
(* Types.                                                                   *)

LEMMA InitTypes == Init => Types
<1> SUFFICES ASSUME Init PROVE Types
  OBVIOUS
<1>1. written = <<>> /\ IsInjective(written) /\ written \in Seq(Slots)
  BY DEF Init, IsInjective
<1> QED BY <1>1 DEF Init, Types, TypeOK, Contents, Pcs, SeqPlaces

\* The parts of Types.
LEMMA TypesAre ==
  ASSUME Types
  PROVE  /\ value \in Nat /\ fetched \in Nat /\ seqNum \in Slots \cup {-1}
         /\ crashes + 1 \in Nat /\ faults + 1 \in Nat /\ manuals + 1 \in Nat
         /\ faults \in Nat /\ saved \in Contents /\ fetched \in Contents
         /\ {Bad, Empty} \subseteq Contents
         /\ file \in [Files -> Contents] /\ copies \in [Slots -> Contents]
         /\ written \in Seq(Slots) /\ IsInjective(written) /\ Return \in {"sleep", "seq"}
<1>1. TypeOK /\ IsInjective(written)
  BY DEF Types
<1>2. /\ value \in Nat /\ fetched \in Nat /\ seqNum \in Slots \cup {-1}
      /\ crashes \in Nat /\ faults \in Nat /\ manuals \in Nat /\ saved \in Contents
      /\ file \in [Files -> Contents] /\ copies \in [Slots -> Contents] /\ written \in Seq(Slots)
  BY <1>1 DEF TypeOK, Files
<1>3. crashes + 1 \in Nat /\ faults + 1 \in Nat /\ manuals + 1 \in Nat
  BY <1>2
<1>4. {Bad, Empty} \subseteq Contents /\ fetched \in Contents
  BY <1>2 DEF Contents
<1> QED BY <1>1, <1>2, <1>3, <1>4 DEF Return

\* The files and what is saved in them.
LEMMA TypesFiles ==
  ASSUME Types,
         \/ \E f \in Files, here \in Pcs, next \in Pcs \ SeqPlaces :
              OpenToWrite(f, here, next) \/ WriteValues(f, here, next)
         \/ SavWritten \/ OpenCopy \/ CopySav
  PROVE  Types'
<1>1. /\ Empty \in Contents /\ fetched \in Contents /\ saved \in Contents
      /\ file \in [Files -> Contents] /\ \A f \in Files : file[f] \in Contents
      /\ Return \in {"sleep", "seq"} /\ faults \in Nat /\ faults + 1 \in Nat
  BY TypesAre
<1>2. UNCHANGED <<value, fetched, seqNum, backup, copies, written, crashes, manuals>>
  BY DEF OpenToWrite, WriteValues, SavWritten, OpenCopy, CopySav
<1>3. file' \in [Files -> Contents]
  BY <1>1 DEF OpenToWrite, WriteValues, SavWritten, OpenCopy, CopySav, Types, TypeOK, Files
<1>4. saved' \in Contents /\ unsafe' \in BOOLEAN /\ failing' \in BOOLEAN /\ faults' \in Nat
  BY <1>1 DEF OpenToWrite, WriteValues, SavWritten, OpenCopy, CopySav, Types, TypeOK,
     Acknowledge, GiveUp, Fault
<1>5. pc' \in Pcs \ SeqPlaces
  BY <1>1 DEF OpenToWrite, WriteValues, SavWritten, OpenCopy, CopySav, GiveUp, Pcs, SeqPlaces
<1>6. TypeOK'
  BY <1>2, <1>3, <1>4, <1>5 DEF Types, TypeOK, Files
<1>7. pc' \notin SeqPlaces /\ pc' \notin {"seq copy", "write seq"}
  BY <1>5 DEF SeqPlaces
<1> QED BY <1>2, <1>6, <1>7 DEF Types

\* What do_seq opens is the last one of those that exist.
LEMMA TypesOpenSeq ==
  ASSUME Types, NEW here \in SeqPlaces, NEW next \in SeqPlaces,
         NEW failed \in {"open seq", "sleep"}, OpenSeq(here, next, failed)
  PROVE  Types'
<1>1. seqNum \in Slots /\ written \in Seq(Slots) /\ IsInjective(written)
      /\ copies \in [Slots -> Contents] /\ Empty \in Contents
      /\ faults \in Nat /\ faults + 1 \in Nat
  BY TypesAre DEF OpenSeq, Types
<1>2. /\ UNCHANGED <<value, failing, fetched, seqNum, backup, file, saved, unsafe,
                     crashes, manuals>>
      /\ pc' \in SeqPlaces \cup {"sleep"} /\ faults' \in Nat
  BY <1>1 DEF OpenSeq, Fault, SeqPlaces
<1>3. /\ copies' \in [Slots -> Contents] /\ written' \in Seq(Slots) /\ IsInjective(written')
      /\ \A i \in Slots : copies'[i] = None \/ Contains(written', i)
      /\ pc' \in {"open seq", "sleep"} \/ Contains(written', seqNum)
  <2>1. CASE UNCHANGED <<copies, written>> /\ pc' = failed
    BY <2>1 DEF Types, TypeOK
  <2>2. CASE /\ copies' = [copies EXCEPT ![seqNum] = Empty]
             /\ written' = Append(RemoveFirst(written, seqNum), seqNum)
    <3> DEFINE rest == RemoveFirst(written, seqNum)
    <3>1. /\ rest \in Seq(Slots) /\ IsInjective(rest)
          /\ \A i : Contains(rest, i) <=> Contains(written, i) /\ i # seqNum
      BY <1>1, RemoveFirstLemma
    <3> HIDE DEF rest
    <3>2. /\ Append(rest, seqNum) \in Seq(Slots) /\ IsInjective(Append(rest, seqNum))
          /\ \A i : Contains(Append(rest, seqNum), i) <=> Contains(rest, i) \/ i = seqNum
      BY <1>1, <3>1, AppendLemma
    <3>3. written' = Append(rest, seqNum)
      BY <2>2 DEF rest
    <3>4. \A i \in Slots : copies'[i] = None \/ Contains(written', i)
      BY <1>1, <2>2, <3>1, <3>2, <3>3 DEF Types
    <3> QED BY <1>1, <2>2, <3>2, <3>3, <3>4
  <2> QED BY <2>1, <2>2 DEF OpenSeq
<1> QED BY <1>1, <1>2, <1>3 DEF Types, TypeOK, Pcs, SeqPlaces

LEMMA TypesFillSeq ==
  ASSUME Types, NEW here \in SeqPlaces, NEW content \in Contents,
         NEW failed \in {"open seq", "sleep"}, FillSeq(here, content, failed),
         here \in {"seq copy", "write seq"}
  PROVE  Types'
<1>1. seqNum \in Slots /\ copies \in [Slots -> Contents]
      /\ faults \in Nat /\ faults + 1 \in Nat /\ Contains(written, seqNum)
  BY TypesAre DEF FillSeq, Types
<1>2. (seqNum + 1) % NumSeq \in Slots
  BY <1>1, SlotsAre
<1>3. /\ UNCHANGED <<value, failing, fetched, backup, file, written, saved, unsafe,
                     crashes, manuals>>
      /\ pc' \in {"open seq", "sleep"} /\ faults' \in Nat /\ seqNum' \in Slots
  BY <1>1, <1>2 DEF FillSeq, SeqDone, Fault
<1>4. /\ copies' \in [Slots -> Contents]
      /\ \A i \in Slots : copies'[i] = None \/ Contains(written, i)
  BY <1>1 DEF FillSeq, Types
<1> QED BY <1>3, <1>4 DEF Types, TypeOK, Pcs, SeqPlaces

LEMMA TypesReboot == Types /\ CrashAndReboot => Types'
<1> SUFFICES ASSUME Types, CrashAndReboot PROVE Types'
  OBVIOUS
<1>1. value + 1 \in Nat /\ crashes + 1 \in Nat
  BY TypesAre
<1> QED BY <1>1, TypesAre DEF CrashAndReboot, Types, TypeOK, diskVars, Pcs, SeqPlaces

LEMMA TypesPart == Types /\ PartWritten => Types'
<1> SUFFICES ASSUME Types, PartWritten PROVE Types'
  OBVIOUS
<1>1. Bad \in Contents /\ file \in [Files -> Contents] /\ copies \in [Slots -> Contents]
  BY TypesAre
<1>2. /\ UNCHANGED <<value, failing, fetched, seqNum, pc, backup, written, saved, unsafe,
                     crashes, faults, manuals>>
      /\ pc \in {"seq copy", "write seq"} \/ UNCHANGED copies
  BY DEF PartWritten
<1>3. /\ file' \in [Files -> Contents] /\ copies' \in [Slots -> Contents]
      /\ \A i \in Slots : copies'[i] = None \/ Contains(written, i)
  BY <1>1, <1>2 DEF PartWritten, Types, Files
<1> QED BY <1>2, <1>3 DEF Types, TypeOK, Files

LEMMA TypesStep == Types /\ [Next]_vars => Types'
<1> SUFFICES ASSUME Types, [Next]_vars PROVE Types'
  OBVIOUS
<1> USE DEF diskVars
<1>1. CASE UNCHANGED vars
  BY <1>1 DEF vars, Types, TypeOK
<1>2. CASE ValueChanges \/ PassWithoutSave \/ GetChannelValues \/ ManualSave \/ CheckBackup
  <2>1. \/ pc' = pc /\ UNCHANGED <<seqNum, written>>
        \/ pc' \in Pcs \ SeqPlaces
    BY <1>2 DEF ValueChanges, PassWithoutSave, GetChannelValues, ManualSave, CheckBackup,
       Pcs, SeqPlaces
  <2>2. value + 1 \in Nat /\ manuals + 1 \in Nat
    BY TypesAre
  <2> QED BY <1>2, <2>1, <2>2 DEF ValueChanges, PassWithoutSave, GetChannelValues, ManualSave,
             CheckBackup, Types, TypeOK
<1>3. CASE \/ OpenToWrite("savB", "open savB", "write savB")
           \/ WriteValues("savB", "write savB", "open sav")
           \/ OpenToWrite("sav", "open sav", "write sav")
           \/ WriteValues("sav", "write sav", "sav written")
  BY <1>3, TypesFiles DEF Files, Pcs, SeqPlaces
<1>4. CASE SavWritten \/ OpenCopy \/ CopySav
  BY <1>4, TypesFiles
<1>5. CASE StartSeq
  <2>1. CASE pc' = "sleep" /\ UNCHANGED seqNum
    BY <1>5, <2>1 DEF StartSeq, Types, TypeOK, Pcs, SeqPlaces
  <2>2. CASE /\ NumSeq > 0 /\ pc' = "open seq copy"
             /\ seqNum' = IF seqNum = -1 THEN FirstSlot ELSE seqNum
    <3>1. FirstSlot \in Slots
      <4>1. CASE \E i \in Slots : copies[i] = None
        BY <4>1, MinIsOne DEF FirstSlot
      <4>2. CASE ~\E i \in Slots : copies[i] = None
        <5>1. 0 \in Slots /\ written \in Seq(Slots)
          BY <2>2, SlotsAre, TypesAre
        <5>2. Contains(written, 0)
          BY <4>2, <5>1 DEF Types
        <5>3. written # <<>>
          BY <5>1, <5>2 DEF Contains
        <5> QED BY <4>2, <5>1, <5>3 DEF FirstSlot
      <4> QED BY <4>1, <4>2
    <3>2. seqNum' \in Slots
      BY <2>2, <3>1 DEF Types, TypeOK
    <3> QED BY <1>5, <2>2, <3>2 DEF StartSeq, Types, TypeOK, Pcs, SeqPlaces
  <2> QED BY <1>5, <2>1, <2>2 DEF StartSeq
<1>6. CASE WriteSeq
  <2>1. file["sav"] \in Contents /\ fetched \in Contents
    BY DEF Types, TypeOK, Contents
  <2> QED BY <1>6, <2>1, TypesOpenSeq, TypesFillSeq DEF WriteSeq, SeqPlaces
<1>7. CASE CrashAndReboot
  BY <1>7, TypesReboot
<1>8. CASE PartWritten
  BY <1>8, TypesPart
<1> QED BY <1>1, <1>2, <1>3, <1>4, <1>5, <1>6, <1>7, <1>8 DEF Next

\* The variables of the files of a save set keep their types: do_seq always has a copy
\* to write, the first one after a boot included.
THEOREM TypeCorrect == Spec => []TypeOK
<1>1. Types => TypeOK
  BY DEF Types
<1> QED BY <1>1, InitTypes, TypesStep, PTL DEF Spec

----------------------------------------------------------------------------
(* The inductive invariant.                                                 *)

LEMMA InitIInv == Init => IInv
<1> SUFFICES ASSUME Init PROVE IInv
  OBVIOUS
<1>1. BoundInv
  BY DEF Init, BoundInv
<1>2. PlaceInv
  BY DEF Init, PlaceInv
<1>3. SafeInv
  BY DEF Init, SafeInv, Files, Good, None, SavePlaces
<1> QED BY <1>1, <1>2, <1>3, InitTypes DEF IInv

\* The numbers that values and contents are compared by.
LEMMA Numbers ==
  ASSUME Types
  PROVE  /\ value \in Nat /\ fetched \in Nat /\ saved \in Int
         /\ \A f \in Files : file[f] \in Int /\ file[f] >= None
         /\ \A i \in Slots : copies[i] \in Int /\ copies[i] >= None
         /\ file \in [Files -> Contents] /\ copies \in [Slots -> Contents]
<1>1. \A c \in Contents : c \in Int /\ c >= None
  BY DEF Contents, None, Bad, Empty
<1>2. file \in [Files -> Contents] /\ copies \in [Slots -> Contents] /\ saved \in Contents
  BY DEF Types, TypeOK, Files
<1> QED BY <1>1, <1>2 DEF Types, TypeOK

LEMMA BoundStep == IInv /\ [Next]_vars => BoundInv'
<1> SUFFICES ASSUME IInv, [Next]_vars PROVE BoundInv'
  OBVIOUS
<1>1. value \in Nat /\ fetched \in Nat /\ fetched <= value
  BY Numbers DEF IInv, BoundInv
<1>2. \/ UNCHANGED <<value, fetched>>
      \/ value' = value + 1 /\ (UNCHANGED fetched \/ fetched' = 0)
      \/ UNCHANGED value /\ fetched' = value
  BY DEF Next, vars, diskVars, ValueChanges, PassWithoutSave, GetChannelValues, ManualSave,
     CheckBackup, OpenToWrite, WriteValues, PartWritten, SavWritten, OpenCopy, CopySav,
     StartSeq, WriteSeq, OpenSeq, FillSeq, CrashAndReboot
<1> QED BY <1>1, <1>2 DEF BoundInv

LEMMA PlaceStep == IInv /\ [Next]_vars => PlaceInv'
<1> SUFFICES ASSUME IInv, [Next]_vars PROVE PlaceInv'
  OBVIOUS
<1> USE DEF diskVars
<1>1. PlaceInv /\ file \in [Files -> Contents] /\ "sav" \in Files /\ "savB" \in Files
  BY Numbers DEF IInv, Files
<1>2. ~Good(Bad) /\ ~Good(Empty) /\ Return \in {"sleep", "seq"}
  BY DEF Good, Bad, Empty, Return
<1>3. CASE UNCHANGED vars \/ ValueChanges
  <2>1. UNCHANGED <<pc, backup, file, unsafe, fetched>>
    BY <1>3 DEF vars, ValueChanges
  <2> QED BY <1>1, <2>1 DEF PlaceInv, Manual
<1>4. CASE PassWithoutSave \/ GetChannelValues \/ StartSeq \/ WriteSeq \/ CrashAndReboot
  <2>1. pc' \in {"seq", "check backup", "sleep"} \cup SeqPlaces
    BY <1>4 DEF PassWithoutSave, GetChannelValues, StartSeq, WriteSeq, OpenSeq, FillSeq,
       SeqDone, CrashAndReboot, SeqPlaces
  <2> QED BY <2>1 DEF PlaceInv, SeqPlaces
<1>5. CASE ManualSave
  BY <1>5 DEF ManualSave, PlaceInv, Manual
<1>6. CASE CheckBackup
  BY <1>6 DEF CheckBackup, PlaceInv
<1>7. CASE OpenToWrite("savB", "open savB", "write savB")
  BY <1>1, <1>2, <1>7 DEF OpenToWrite, GiveUp, PlaceInv, Manual
<1>8. CASE WriteValues("savB", "write savB", "open sav")
  BY <1>1, <1>2, <1>8 DEF WriteValues, GiveUp, PlaceInv
<1>9. CASE OpenToWrite("sav", "open sav", "write sav")
  BY <1>1, <1>2, <1>9 DEF OpenToWrite, GiveUp, PlaceInv, Manual
<1>10. CASE WriteValues("sav", "write sav", "sav written")
  BY <1>1, <1>2, <1>10 DEF WriteValues, GiveUp, PlaceInv
<1>11. CASE SavWritten
  BY <1>1, <1>2, <1>11 DEF SavWritten, PlaceInv
<1>12. CASE OpenCopy
  BY <1>1, <1>2, <1>12 DEF OpenCopy, PlaceInv
<1>13. CASE CopySav
  BY <1>2, <1>13 DEF CopySav, PlaceInv
<1>14. CASE PartWritten
  <2>1. /\ UNCHANGED <<pc, backup, unsafe, fetched>>
        /\ \A f \in Files : file'[f] = file[f] \/ (~Good(file[f]) /\ ~Good(file'[f]))
    BY <1>1, <1>2, <1>14, Numbers DEF PartWritten, IInv, Good, Empty, Files
  <2> QED BY <1>1, <2>1 DEF PlaceInv, Manual
<1> QED BY <1>3, <1>4, <1>5, <1>6, <1>7, <1>8, <1>9, <1>10, <1>11, <1>12, <1>13,
        <1>14 DEF Next

\* What a reboot restores is at least as recent as what is saved, or .sav is empty.
LEMMA RestoresSaved == IInv => RestoreNotOlder
<1> SUFFICES ASSUME IInv, ~unsafe, NEW emptyPasses \in BOOLEAN
             PROVE  \/ Restored(emptyPasses) >= saved
                    \/ file["sav"] = Empty /\ file["savB"] >= saved
  BY DEF RestoreNotOlder
<1>1. Types /\ "sav" \in Files /\ "savB" \in Files /\ saved \in Int
  BY Numbers DEF IInv, Files
<1>2. \A f \in Files : file[f] \in Int /\ file[f] >= None
  BY <1>1, Numbers
<1>3. \A f \in Files : Good(file[f]) => file[f] >= saved
  BY <1>1, <1>2 DEF IInv, SafeInv
<1>4. CASE saved = None
  <2>1. Restored(emptyPasses) \in Int /\ Restored(emptyPasses) >= None
    BY <1>1, Numbers, RestoredIs DEF None
  <2> QED BY <1>4, <2>1
<1>5. CASE Good(file["sav"])
  BY <1>1, <1>3, <1>5, RestoredIs
<1>6. CASE ~Good(file["sav"]) /\ Good(file["savB"])
  <2>1. file["sav"] # Empty => Restored(emptyPasses) = file["savB"]
    BY <1>1, <1>6, RestoredIs
  <2> QED BY <1>1, <1>3, <1>6, <2>1
<1> QED BY <1>4, <1>5, <1>6 DEF IInv, SafeInv

LEMMA SafeStep == IInv /\ [Next]_vars => SafeInv'
<1> SUFFICES ASSUME IInv, [Next]_vars, ~unsafe' PROVE SafeInv'
  BY DEF SafeInv
<1> USE DEF diskVars
<1>1. /\ PlaceInv /\ "sav" \in Files /\ "savB" \in Files /\ file \in [Files -> Contents]
      /\ Files = {"sav", "savB"}
      /\ value \in Nat /\ fetched \in Nat /\ saved \in Int
      /\ fetched <= value
      /\ unsafe \in BOOLEAN
  BY Numbers DEF IInv, Files, BoundInv, Types, TypeOK
<1>2. ~Good(Bad) /\ ~Good(Empty) /\ Good(fetched) /\ Return \in {"sleep", "seq"}
  BY <1>1 DEF Good, Bad, Empty, Return
<1>3. ~unsafe =>
        /\ Good(file["sav"]) => saved <= file["sav"]
        /\ Good(file["savB"]) => saved <= file["savB"]
        /\ saved <= value /\ (pc \in SavePlaces => saved <= fetched)
        /\ saved = None \/ Good(file["sav"]) \/ Good(file["savB"])
        /\ pc \in {"open sav", "write sav"} /\ ~Manual => Good(file["savB"])
        /\ pc \in {"sav written", "open copy", "copy"} => Good(file["sav"])
  BY <1>1 DEF IInv, SafeInv
<1>4. SUFFICES /\ Good(file'["sav"]) => saved' <= file'["sav"]
               /\ Good(file'["savB"]) => saved' <= file'["savB"]
               /\ saved' <= value' /\ (pc' \in SavePlaces => saved' <= fetched')
               /\ saved' = None \/ Good(file'["sav"]) \/ Good(file'["savB"])
               /\ pc' \in {"open sav", "write sav"} /\ ~Manual' => Good(file'["savB"])
               /\ pc' \in {"sav written", "open copy", "copy"} => Good(file'["sav"])
  BY <1>1 DEF SafeInv
<1>5. CASE UNCHANGED vars
  BY <1>3, <1>5 DEF vars, Manual
<1>6. CASE ValueChanges
  <2>1. UNCHANGED <<pc, backup, file, unsafe, fetched, saved>> /\ value' = value + 1
    BY <1>6 DEF ValueChanges
  <2>2. saved <= value => saved <= value'
    BY <1>1, <2>1
  <2> QED BY <1>3, <2>1, <2>2 DEF Manual
<1>7. CASE PassWithoutSave \/ StartSeq \/ WriteSeq
  <2>1. /\ UNCHANGED <<value, fetched, file, saved, unsafe>>
        /\ pc' \in {"seq", "sleep"} \cup SeqPlaces
    BY <1>7 DEF PassWithoutSave, StartSeq, WriteSeq, OpenSeq, FillSeq, SeqDone, SeqPlaces
  <2> QED BY <1>3, <2>1 DEF SeqPlaces, SavePlaces
<1>8. CASE GetChannelValues \/ ManualSave
  <2>1. /\ UNCHANGED <<value, file, saved, unsafe>> /\ fetched' = value
        /\ pc' = "check backup" \/ (pc' = "open sav" /\ Manual')
    BY <1>8 DEF GetChannelValues, ManualSave, Manual
  <2> QED BY <1>3, <2>1
<1>9. CASE CheckBackup
  <2>1. /\ UNCHANGED <<value, fetched, file, saved, unsafe>> /\ pc = "check backup"
        /\ (pc' = "open sav" /\ Good(file["savB"])) \/ pc' = "open savB"
    BY <1>9 DEF CheckBackup
  <2> QED BY <1>3, <2>1 DEF SavePlaces
<1>10. CASE OpenToWrite("savB", "open savB", "write savB")
  <2>1. /\ UNCHANGED <<value, fetched, saved>> /\ pc = "open savB" /\ ~unsafe
        /\ pc' \in {"sleep", "seq", "write savB"}
        /\ file' = [file EXCEPT !["savB"] = Empty] \/ UNCHANGED file
    BY <1>1, <1>2, <1>10 DEF OpenToWrite, GiveUp
  <2>2. ~Good(file["savB"])
    BY <1>1, <2>1 DEF PlaceInv
  <2>3. file'["sav"] = file["sav"] /\ ~Good(file'["savB"])
    BY <1>1, <1>2, <2>1, <2>2
  <2> QED BY <1>3, <2>1, <2>2, <2>3 DEF SavePlaces
<1>11. CASE WriteValues("savB", "write savB", "open sav")
  <2>1. /\ UNCHANGED <<value, fetched, saved>> /\ pc = "write savB" /\ ~unsafe
        /\ \/ pc' \in {"sleep", "seq"} /\ UNCHANGED file
           \/ pc' \in {"open sav", "sleep", "seq"} /\ file' = [file EXCEPT !["savB"] = fetched]
    BY <1>1, <1>2, <1>11 DEF WriteValues, GiveUp
  <2>2. CASE pc' \in {"sleep", "seq"} /\ UNCHANGED file
    BY <1>3, <2>1, <2>2 DEF SavePlaces
  <2>3. CASE /\ pc' \in {"open sav", "sleep", "seq"}
             /\ file' = [file EXCEPT !["savB"] = fetched]
    <3>1. file'["sav"] = file["sav"] /\ file'["savB"] = fetched
      BY <1>1, <2>3
    <3> QED BY <1>2, <1>3, <2>1, <2>3, <3>1 DEF SavePlaces
  <2> QED BY <2>1, <2>2, <2>3
<1>12. CASE OpenToWrite("sav", "open sav", "write sav")
  <2>1. /\ UNCHANGED <<value, fetched, saved, backup>> /\ pc = "open sav" /\ ~unsafe
        /\ \/ pc' \in {"sleep", "seq"} /\ UNCHANGED file
           \/ /\ pc' = "write sav" /\ file' = [file EXCEPT !["sav"] = Empty]
              /\ ~Manual
    BY <1>1, <1>2, <1>12 DEF OpenToWrite, GiveUp
  <2>2. CASE pc' \in {"sleep", "seq"} /\ UNCHANGED file
    BY <1>3, <2>1, <2>2 DEF SavePlaces
  <2>3. CASE pc' = "write sav" /\ file' = [file EXCEPT !["sav"] = Empty] /\ ~Manual
    <3>1. file'["savB"] = file["savB"] /\ file'["sav"] = Empty
      BY <1>1, <2>3
    <3> QED BY <1>2, <1>3, <2>1, <2>3, <3>1 DEF SavePlaces
  <2> QED BY <2>1, <2>2, <2>3
<1>13. CASE WriteValues("sav", "write sav", "sav written")
  <2>1. /\ UNCHANGED <<value, fetched, saved, backup>> /\ pc = "write sav" /\ ~unsafe
        /\ \/ pc' \in {"sleep", "seq"} /\ UNCHANGED file
           \/ pc' \in {"sav written", "sleep", "seq"} /\ file' = [file EXCEPT !["sav"] = fetched]
    BY <1>1, <1>2, <1>13 DEF WriteValues, GiveUp
  <2>2. CASE pc' \in {"sleep", "seq"} /\ UNCHANGED file
    BY <1>3, <2>1, <2>2 DEF SavePlaces
  <2>3. CASE /\ pc' \in {"sav written", "sleep", "seq"}
             /\ file' = [file EXCEPT !["sav"] = fetched]
    <3>1. file'["savB"] = file["savB"] /\ file'["sav"] = fetched
      BY <1>1, <2>3
    <3> QED BY <1>2, <1>3, <2>1, <2>3, <3>1 DEF SavePlaces
  <2> QED BY <2>1, <2>2, <2>3
<1>14. CASE SavWritten
  <2>1. UNCHANGED <<value, fetched, file, backup>> /\ pc = "sav written"
    BY <1>14 DEF SavWritten
  <2>2. CASE UNCHANGED <<saved, unsafe>> /\ pc' \in {"open copy", "sleep", "seq"}
    BY <1>3, <2>1, <2>2 DEF SavePlaces
  <2>3. CASE backup # "copy" /\ Acknowledge /\ pc' \in {"sleep", "seq"}
    <3>1. saved' = fetched /\ ~Manual /\ Good(file["sav"])
      BY <2>1, <2>3 DEF Acknowledge
    <3>2. backup = "new"
      BY <2>3, <3>1 DEF IInv, Types, TypeOK, Manual
    <3>3. file["sav"] = fetched /\ (Good(file["savB"]) => file["savB"] = fetched)
      BY <1>1, <2>1, <3>1, <3>2 DEF PlaceInv
    <3>4. fetched <= value /\ fetched <= fetched
      BY <1>1
    <3> QED BY <2>1, <2>3, <3>1, <3>3, <3>4 DEF SavePlaces
  <2>4. \/ UNCHANGED <<saved, unsafe>> /\ pc' \in {"open copy", "sleep", "seq"}
        \/ backup # "copy" /\ Acknowledge /\ pc' \in {"sleep", "seq"}
    BY <1>2, <1>14 DEF SavWritten
  <2> QED BY <2>2, <2>3, <2>4
<1>15. CASE OpenCopy
  <2>1. /\ UNCHANGED <<value, fetched, saved, unsafe, backup>> /\ pc = "open copy"
        /\ pc' \in {"sleep", "seq", "copy"}
        /\ file' = [file EXCEPT !["savB"] = Empty] \/ UNCHANGED file
    BY <1>2, <1>15 DEF OpenCopy
  <2>2. file'["sav"] = file["sav"] /\ (Good(file'["savB"]) => file'["savB"] = file["savB"])
    BY <1>1, <1>2, <2>1
  <2> QED BY <1>3, <2>1, <2>2 DEF SavePlaces
<1>16. CASE CopySav
  <2>1. /\ UNCHANGED <<value, fetched, backup>> /\ pc = "copy" /\ pc' \in {"sleep", "seq"}
        /\ \/ file' = [file EXCEPT !["savB"] = file["sav"]] /\ Acknowledge
           \/ UNCHANGED <<file, saved, unsafe>>
           \/ UNCHANGED file /\ Acknowledge
    BY <1>2, <1>16 DEF CopySav
  <2>2. /\ ~Good(file["savB"]) /\ (Good(file["sav"]) => file["sav"] = fetched)
    BY <1>1, <2>1 DEF PlaceInv
  <2>3. file'["sav"] = file["sav"] /\ (file'["savB"] = file["sav"] \/ ~Good(file'["savB"]))
    BY <1>1, <2>1, <2>2
  <2>4. CASE UNCHANGED <<file, saved, unsafe>>
    BY <1>3, <2>1, <2>4 DEF SavePlaces
  <2>5. CASE Acknowledge
    <3>1. saved' = fetched /\ Good(file'["sav"])
      BY <2>5 DEF Acknowledge
    <3>2. fetched <= value /\ fetched <= fetched
      BY <1>1
    <3> QED BY <2>1, <2>2, <2>3, <3>1, <3>2 DEF SavePlaces
  <2> QED BY <2>1, <2>4, <2>5
<1>17. CASE CrashAndReboot
  <2>1. /\ UNCHANGED <<file, saved, unsafe>> /\ pc' = "sleep" /\ value' = value + 1
    BY <1>17 DEF CrashAndReboot
  <2>2. saved <= value => saved <= value'
    BY <1>1, <2>1
  <2> QED BY <1>3, <2>1, <2>2 DEF SavePlaces
<1>18. CASE PartWritten
  <2>1. /\ UNCHANGED <<value, fetched, pc, backup, saved, unsafe>>
        /\ \A f \in Files : file'[f] = file[f] \/ (~Good(file[f]) /\ ~Good(file'[f]))
    BY <1>1, <1>2, <1>18 DEF PartWritten, Good, Empty
  <2> QED BY <1>1, <1>3, <2>1 DEF Manual
<1> QED BY <1>5, <1>6, <1>7, <1>8, <1>9, <1>10, <1>11, <1>12, <1>13, <1>14, <1>15, <1>16, <1>17,
        <1>18 DEF Next

LEMMA Invariance == Spec => []IInv
<1>1. IInv /\ [Next]_vars => IInv'
  BY TypesStep, BoundStep, PlaceStep, SafeStep DEF IInv
<1> QED BY <1>1, InitIInv, PTL DEF Spec

\* A reboot at any moment restores the last save that write_save_file reported, or a later
\* one, whatever fails and whenever the process dies; or .sav is empty and .savB has it.
\* Manual saves and failures of fclose are excepted, until a save has succeeded again.
THEOREM RestoredInTime == Spec => []RestoreNotOlder
BY Invariance, RestoresSaved, PTL

----------------------------------------------------------------------------
(* The promise of the documentation.                                        *)

Faultless == MaxManual = 0 /\ "close" \notin Faults

\* Nothing bypasses .savB.
BackedInv == ~Manual /\ unsafe = FALSE /\ manuals = 0

LEMMA BackedStep ==
  ASSUME Faultless, IInv, BackedInv, [Next]_vars
  PROVE  BackedInv'
<1> USE DEF diskVars
<1>1. MaxManual = 0 /\ "close" \notin Faults /\ manuals = 0 /\ unsafe = FALSE /\ ~Manual
  BY DEF Faultless, BackedInv
<1>2. pc \in {"sav written", "open copy", "copy"} => Good(file["sav"])
  BY DEF IInv, SafeInv, BackedInv
<1>3. file \in [Files -> Contents] /\ manuals \in Nat
  BY Numbers DEF IInv, Types, TypeOK
<1>4. CASE \/ PartWritten \/ UNCHANGED vars \/ ValueChanges \/ PassWithoutSave \/ GetChannelValues
           \/ CheckBackup \/ StartSeq \/ WriteSeq \/ CrashAndReboot \/ OpenCopy
  BY <1>1, <1>4 DEF vars, PartWritten, ValueChanges, PassWithoutSave, GetChannelValues, CheckBackup,
     StartSeq, WriteSeq, OpenSeq, FillSeq, CrashAndReboot, OpenCopy, BackedInv, Manual
<1>5. ~ManualSave
  BY <1>1 DEF ManualSave
<1>6. CASE \/ OpenToWrite("savB", "open savB", "write savB")
           \/ WriteValues("savB", "write savB", "open sav")
           \/ OpenToWrite("sav", "open sav", "write sav")
           \/ WriteValues("sav", "write sav", "sav written")
  BY <1>1, <1>6 DEF OpenToWrite, WriteValues, Fault, BackedInv, Manual
<1>7. CASE SavWritten
  BY <1>1, <1>2, <1>7 DEF SavWritten, Acknowledge, BackedInv, Manual
<1>8. CASE CopySav
  <2>1. pc = "copy" /\ UNCHANGED <<backup, manuals>> /\ (UNCHANGED unsafe \/ Acknowledge)
    BY <1>8 DEF CopySav
  <2>2. file'["sav"] = file["sav"]
    BY <1>3, <1>8 DEF CopySav, Files
  <2> QED BY <1>1, <1>2, <2>1, <2>2 DEF Acknowledge, BackedInv, Manual
<1> QED BY <1>4, <1>5, <1>6, <1>7, <1>8 DEF Next

\* As long as nobody saves by hand and no fclose fails, .sav is overwritten only while
\* there is a good .savB, as the documentation says.
THEOREM BackupFirst ==
  ASSUME Faultless
  PROVE  Spec => BackupBeforeOverwrite
<1> DEFINE Step == Good(file["sav"]) /\ ~Good(file'["sav"]) => Good(file["savB"])
<1>1. Init => BackedInv
  BY DEF Init, BackedInv, Manual
<1>2. IInv /\ BackedInv /\ [Next]_vars => BackedInv'
  BY BackedStep
<1>3. IInv /\ BackedInv /\ [Next]_vars => [Step]_vars
  <2> SUFFICES ASSUME IInv, BackedInv, Next, Good(file["sav"]), ~Good(file'["sav"])
               PROVE  Good(file["savB"])
    BY DEF vars, diskVars
  <2>1. file \in [Files -> Contents] /\ Good(fetched) /\ ~Good(Empty)
    BY Numbers DEF IInv, Good, Empty
  <2>2. OpenToWrite("sav", "open sav", "write sav")
    BY <2>1 DEF Next, diskVars, ValueChanges, PassWithoutSave, GetChannelValues,
       ManualSave, CheckBackup, OpenToWrite, WriteValues, PartWritten, SavWritten, OpenCopy, CopySav,
       StartSeq, WriteSeq, OpenSeq, FillSeq, CrashAndReboot, Files
  <2> QED BY <2>2 DEF OpenToWrite, IInv, SafeInv, BackedInv
<1> QED BY <1>1, <1>2, <1>3, Invariance, PTL DEF Spec, BackupBeforeOverwrite
=============================================================================
