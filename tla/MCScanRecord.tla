---------------------------- MODULE MCScanRecord ----------------------------
(***************************************************************************)
(* Records to scan with.  Points moves two positioners and triggers two    *)
(* detectors, some of which fail; Clients waits for two clients at each    *)
(* point; Arrays reads an array while saveData reads that of the last      *)
(* scan, and Reads two; Kills is aborted and killed while nothing need     *)
(* answer, Rekills goes on with more scans than saveData can have by then, *)
(* and Paused is paused as well.                                           *)
(***************************************************************************)
EXTENDS ScanRecord, TLC

MCLinks == {"p1", "p2", "t1", "t2", "a1", "a2", "before", "after"}

Plain ==
  [positioners |-> {"p1"}, triggers |-> {}, arrayTriggers |-> {},
   detectors |-> {}, arrayDetectors |-> {},
   before |-> "none", after |-> "none", retrace |-> FALSE, npts |-> 1, delays |-> {},
   awct |-> 0, aawait |-> FALSE, misses |-> BOOLEAN, failing |-> {}, answers |-> TRUE,
   maxScans |-> 2, maxZeros |-> 0, maxPauses |-> 0, maxHolds |-> 0]

Full == [Plain EXCEPT !.positioners = {"p1", "p2"}, !.triggers = {"t1", "t2"},
                      !.detectors = {"d1"}, !.before = "nowait", !.npts = 2,
                      !.delays = {"pdly", "ddly"}, !.maxScans = 3]

Points == [Full EXCEPT !.npts = 3, !.after = "wait", !.retrace = TRUE,
                       !.failing = {"p2", "t2", "after"}]
Clients == [Points EXCEPT !.delays = {}, !.awct = 2]
Held == [Points EXCEPT !.npts = 2, !.maxHolds = 1]
Arrays == [Plain EXCEPT !.positioners = {"p1", "p2"}, !.triggers = {"t1"},
                        !.arrayTriggers = {"a1"}, !.detectors = {"d1", "d2"},
                        !.arrayDetectors = {"d1"}, !.npts = 2, !.aawait = TRUE]
Reads == [Plain EXCEPT !.positioners = {}, !.detectors = {"d1", "d2"},
                       !.arrayDetectors = {"d1", "d2"}, !.aawait = TRUE]
Kills == [Plain EXCEPT !.aawait = TRUE, !.answers = FALSE, !.maxZeros = 4]
Rekills == [Kills EXCEPT !.positioners = {}, !.maxScans = 3]
Paused == [Kills EXCEPT !.positioners = {}, !.delays = {"rdly"}, !.maxPauses = 1]

MCSetups == "points" :> Points @@ "clients" :> Clients @@ "held" :> Held @@ "arrays" :> Arrays
            @@ "reads" :> Reads @@ "kills" :> Kills @@ "rekills" :> Rekills @@ "paused" :> Paused

(***************************************************************************)
(* Each of these breaks the property it is named with: see section 7 of    *)
(* README.md.  ThirdZeroEnds is broken by Kills, AllReadsSeen and           *)
(* AwaitProtects by Reads.                                                 *)
(***************************************************************************)
BeforeLink == [Full EXCEPT !.before = "wait", !.after = "wait"]            \* PointsComplete
TwoArrays == [Arrays EXCEPT !.arrayTriggers = {"a1", "a2"}]                \* ArraysComplete
SavedEarly == [Full EXCEPT !.after = "wait", !.retrace = TRUE, !.aawait = TRUE] \* ScanComplete
PauseLost == [Plain EXCEPT !.triggers = {"t1"}, !.npts = 2, !.maxPauses = 1] \* GoContinues
ReleaseLost == [Plain EXCEPT !.triggers = {"t1"}, !.npts = 3, !.awct = 1]  \* ReleasedScanEnds
NoHold == [Plain EXCEPT !.awct = 1]                                      \* ClientsWaited
KillBuffers == [Kills EXCEPT !.detectors = {"d1"}]                         \* BuffersKept
NoArrays == [Arrays EXCEPT !.failing = {"a1"}]                             \* ScanEnds
=============================================================================
