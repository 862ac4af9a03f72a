--------------------------- MODULE ScanRecordProofs ---------------------------
(***************************************************************************)
(* The action properties of ScanRecord, for any links, detectors and       *)
(* records to scan with.                                                   *)
(*                                                                         *)
(* The argument is one inductive invariant, IInv.  A scan is carried on by *)
(* process(), the callbacks of puts and reads, doPuts, the delays, clients *)
(* and saveData, and no lock says whose turn it is.  The invariant says    *)
(* that there is always one thing at most that will carry the scan on      *)
(* (OneMover), because a count of callbacks is preset before the first put *)
(* and is the number of callbacks to come plus that preset (CountInv).  So *)
(* process() finds no put in progress, and what it concludes from that is  *)
(* right: PointInv says which moves and triggers have been made in which   *)
(* faze, DataInv which arrays are read and what saveData has of them, and  *)
(* ClientInv that a client that is waited for holds the triggers' count.   *)
(*                                                                         *)
(* It is no invariant of every record: a scan that is aborted or paused    *)
(* leaves callbacks behind, and an answer that overtakes readArrays() a    *)
(* count or a call of scanOnce() (the properties say Undisturbed: the code *)
(* breaks them after that, as the setup Reads shows), and of               *)
(* the other records Apart excludes those in which two things overlap, for *)
(* which the code breaks the properties, and HoldsSomewhere those that set *)
(* WCNT where nothing looks at it.  Each condition has a setup in          *)
(* MCScanRecord that shows so (BeforeLink, TwoArrays, SavedEarly, NoHold). *)
(* BuffersKept holds of records without reads whoever disturbs them, by an *)
(* invariant of its own, HandInv; KillBuffers has a read, and breaks it.   *)
(***************************************************************************)
EXTENDS ScanRecord, FiniteSetTheorems, TLAPS

----------------------------------------------------------------------------
(* The records that the theorems are about.                                 *)

\* Nobody aborts or pauses the scans of a record that is set up as s.
Calm(s) == s.maxZeros = 0 /\ s.maxPauses = 0

\* Nothing overlaps: the before-scan link is not waited for, there is one array trigger at
\* most, and either the data are packed at once or nothing else follows the last point.
OneThing(s) ==
  /\ s.before # "wait"
  /\ \A k, l \in s.arrayTriggers : k = l
  /\ \/ s.arrayTriggers = {} /\ s.arrayDetectors = {} /\ ~s.aawait
     \/ (~s.retrace \/ s.positioners = {}) /\ s.after = "none"

Apart == \A name \in DOMAIN Setups : Calm(Setups[name]) => OneThing(Setups[name])

\* Nothing is read when a record is set up as s: neither array triggers nor detectors.
Bare(s) == s.arrayTriggers = {} /\ s.detectors = {}

\* Either nobody disturbs the scans and nothing overlaps, or nothing is read.
Guarded ==
  \A name \in DOMAIN Setups : LET s == Setups[name] IN (Calm(s) /\ OneThing(s)) \/ Bare(s)

\* Records that wait for clients by themselves have a place where they do.
HoldsSomewhere ==
  \A name \in DOMAIN Setups : LET s == Setups[name] IN
    Calm(s) /\ s.maxHolds = 0 => s.awct = 0 \/ s.triggers # {} \/ "ddly" \in s.delays

\* The data of this record are packed as soon as its last point is recorded.
Simple == ArrayTriggers = {} /\ ArrayDetectors = {} /\ ~Record.aawait

\* ScanAssumption for the record of this behaviour.
LEMMA RecordIs ==
  ASSUME setup \in DOMAIN Setups
  PROVE  /\ Positioners \cup Triggers \cup ArrayTriggers \subseteq Links
         /\ "before" \in Links /\ "after" \in Links
         /\ {"before", "after"} \cap (Positioners \cup Triggers \cup ArrayTriggers) = {}
         /\ Triggers \cap (Positioners \cup ArrayTriggers) = {}
         /\ Positioners \cap ArrayTriggers = {}
         /\ ArrayDetectors \subseteq Detectors
         /\ IsFiniteSet(Detectors) /\ IsFiniteSet(ArrayDetectors)
         /\ Record.aawait \in BOOLEAN /\ Record.retrace \in BOOLEAN
         /\ Record.before \in {"none", "nowait", "wait"}
         /\ Record.after \in {"none", "nowait", "wait"}
         /\ Record.npts \in Nat \ {0} /\ Record.awct \in Nat
         /\ Record.maxScans \in Nat /\ Record.maxZeros \in Nat
         /\ Record.maxPauses \in Nat /\ Record.maxHolds \in Nat
<1>1. /\ Record.positioners \cup Record.triggers \cup Record.arrayTriggers \subseteq Links
      /\ {"before", "after"} \subseteq
           Links \ (Record.positioners \cup Record.triggers \cup Record.arrayTriggers)
      /\ Record.triggers \cap (Record.positioners \cup Record.arrayTriggers) = {}
      /\ Record.positioners \cap Record.arrayTriggers = {}
      /\ Record.arrayDetectors \subseteq Record.detectors /\ IsFiniteSet(Record.detectors)
      /\ {Record.before, Record.after} \subseteq {"none", "nowait", "wait"}
      /\ {Record.retrace, Record.aawait} \subseteq BOOLEAN
      /\ Record.npts \in Nat \ {0} /\ Record.awct \in Nat
      /\ {Record.maxScans, Record.maxZeros, Record.maxPauses, Record.maxHolds} \subseteq Nat
  BY ScanAssumption DEF Record
<1>2. IsFiniteSet(Record.arrayDetectors)
  BY <1>1, FS_Subset
<1> QED BY <1>1, <1>2 DEF Positioners, Triggers, ArrayTriggers, Detectors, ArrayDetectors

----------------------------------------------------------------------------
(* The inductive invariant.                                                 *)

Fazes == {"IDLE", "INIT_SCAN", "BEFORE_SCAN", "BEFORE_SCAN_WAIT", "MOVE_MOTORS",
          "CHECK_MOTORS", "TRIG_DETCTRS", "READ_DETCTRS", "RECORD_SCALAR_DATA",
          "RETRACE_MOVE", "RETRACE_WAIT", "AFTER_SCAN_DO", "AFTER_SCAN_WAIT", "SCAN_DONE"}
Places == {"idle", "array", "before", "BEFORE_SCAN", "MOVE_MOTORS", "moving", "TRIG_DETCTRS",
           "trigger", "triggering", "triggered", "hold", "RETRACE_MOVE", "retracing",
           "AFTER_SCAN_DO", "after"}
PutKinds == {"pos", "trig", "arr"}
Kinds == PutKinds \cup {"get"}
Fields ==
  [xsc : BOOLEAN, pxsc : BOOLEAN, busy : BOOLEAN, kill : Nat, paus : BOOLEAN,
   faze : Fazes, dstate : NotPacked \cup {"PACKED", "POSTED"}, cpt : Nat, validBuf : {0, 1},
   await : BOOLEAN, userSetAWAIT : BOOLEAN, waived : BOOLEAN, wcnt : Nat, wtng : BOOLEAN,
   cbs : [Kinds -> Int], puts : Nat, gets : SUBSET Detectors, early : {NoneEarly}, told : Nat]

\* Links of one kind whose put is in progress.
Flying(k) == {l \in Links : Kind(l) = k /\ put[l] # None}

\* The links that doPuts writes in a case.
LinksOf(at) == CASE at \in {"moving", "retracing"} -> Positioners
                 [] at = "triggering" -> Triggers
                 [] at = "array" -> ArrayTriggers
                 [] at = "after" -> {"after"}
                 [] OTHER -> {}

Types ==
  /\ setup \in DOMAIN Setups
  /\ rec \in Fields /\ proc \in {"idle", "quiet", "busy"}
  /\ dp \in [at : Places, todo : SUBSET Links]
  /\ dp.todo \subseteq LinksOf(dp.at)
  /\ cb \in [at : {"idle", "counted", "last", "hold"}, kind : Kinds]
  /\ put \in [Links -> Nat \cup {None}] /\ done \in [Links -> Nat \cup {Stale}]
  /\ \A k \in PutKinds : IsFiniteSet(Flying(k))
  /\ dly \in SUBSET {"running", "expired"}
  /\ {onces, saving, owed, zeros, pauses, holds} \subseteq Nat

\* Is doPuts in a case, other than at its end after the puts to the array triggers?
DpActive == dp.at # "idle" /\ ~(dp.at = "array" /\ dp.todo = {})

\* Has it preset the count k?
DpCase(k) == \/ k = "pos" /\ dp.at \in {"moving", "retracing"}
             \/ k = "trig" /\ dp.at = "triggering"

\* The scan goes on when saveData is done.
Saver == rec.dstate = "SAVE_DATA_WAIT" /\ rec.await

\* Neither a callback nor doPuts nor a client carries the scan on.
Resting == Quiet /\ ~DpActive /\ ~Saver /\ ~rec.wtng /\ cb.at = "idle"

\* One thing at a time carries the scan on; only doPuts may be in a case while the
\* callbacks of that case come.
OneMover ==
  /\ proc # "idle" => proc = "quiet" /\ Resting /\ onces = 0 /\ rec.puts = 0 /\ dly = {}
  /\ onces # 0 => onces = 1 /\ Resting /\ rec.puts = 0 /\ dly = {}
  /\ rec.puts # 0 => rec.puts = 1 /\ Resting /\ dly = {}
  /\ dly # {} => dly \in {{"running"}, {"expired"}} /\ Resting
  /\ cb.at \in {"last", "hold"} => Quiet /\ ~DpActive /\ ~Saver /\ ~rec.wtng
  /\ rec.wtng => Quiet /\ ~DpActive /\ ~Saver
  /\ Saver => Quiet /\ ~DpActive
  /\ \A k \in Kinds : rec.cbs[k] # 0 => /\ \A j \in Kinds \ {k} : rec.cbs[j] = 0
                                        /\ DpActive => DpCase(k)

\* The counts are those of the callbacks to come, of the preset, and of the callback that
\* is being counted.
CountInv ==
  /\ \A k \in PutKinds :
       rec.cbs[k] = Cardinality(Flying(k)) + (IF DpCase(k) THEN 1 ELSE 0)
                    + (IF cb.at = "counted" /\ cb.kind = k THEN 1 ELSE 0)
  /\ rec.cbs["get"] = Cardinality(rec.gets)
  /\ cb.at = "counted" => cb.kind \in PutKinds
  /\ \A l \in dp.todo : put[l] = None

Before == {"BEFORE_SCAN", "MOVE_MOTORS"}
Moving == {"CHECK_MOTORS", "TRIG_DETCTRS"}
Reading == {"READ_DETCTRS", "RECORD_SCALAR_DATA"}
After == {"RETRACE_MOVE", "RETRACE_WAIT", "AFTER_SCAN_DO", "AFTER_SCAN_WAIT", "SCAN_DONE"}

\* Where the scan is, and what a record has that does not scan.
FazeInv ==
  /\ rec.kill = 0 /\ ~rec.paus
  /\ rec.busy => rec.pxsc = rec.xsc
  /\ ~rec.busy => /\ ~rec.pxsc /\ onces = 0 /\ rec.puts = 0 /\ dly = {} /\ Resting
                  /\ rec.faze = "IDLE" /\ (proc = "idle" <=> ~rec.xsc)
                  /\ rec.dstate \in {"UNPACKED", "POSTED"}
  /\ rec.busy /\ rec.xsc => rec.dstate = "UNPACKED" /\ rec.faze \in Before \cup Moving \cup Reading
  /\ rec.busy /\ ~rec.xsc => rec.dstate \notin {"UNPACKED", "PACKED"} /\ rec.faze \in After

\* What doPuts does fits the faze.
DpInv ==
  /\ dp.at \in {"BEFORE_SCAN", "before"} => rec.faze = "BEFORE_SCAN"
  /\ dp.at = "MOVE_MOTORS" => rec.faze = "MOVE_MOTORS"
  /\ dp.at = "moving" => rec.faze \in {"MOVE_MOTORS", "CHECK_MOTORS"}
  /\ dp.at = "TRIG_DETCTRS" => rec.faze \in {"MOVE_MOTORS", "CHECK_MOTORS", "TRIG_DETCTRS"}
  /\ dp.at \in {"trigger", "triggering", "triggered"} => rec.faze = "READ_DETCTRS"
  /\ dp.at = "RETRACE_MOVE" => rec.faze = "RETRACE_MOVE"
  /\ dp.at = "retracing" => rec.faze \in {"RETRACE_MOVE", "RETRACE_WAIT"}
  /\ dp.at = "AFTER_SCAN_DO" => rec.faze = "AFTER_SCAN_DO"
  /\ dp.at = "after" => rec.faze \in {"AFTER_SCAN_DO", "AFTER_SCAN_WAIT"}
  /\ dp.at = "array" /\ dp.todo # {} => rec.dstate = "ARRAY_READ_WAIT"

\* Where the data of the scan are, and what saveData has of them.
DataInv ==
  /\ rec.told + saving = IF rec.await THEN 1 ELSE 0
  /\ rec.await => Record.aawait
  /\ Simple => rec.dstate \in {"UNPACKED", "POSTED"}
  /\ rec.dstate \notin {"UNPACKED", "POSTED"} => rec.faze = "SCAN_DONE"
  /\ rec.dstate = "TRIG_ARRAY_READ" => rec.puts = 1
  /\ rec.dstate = "ARRAY_GET_CALLBACK_WAIT"
       => rec.cbs["get"] # 0 \/ (cb.at = "last" /\ cb.kind = "get")
  /\ rec.dstate = "ARRAY_READ_WAIT"
     /\ (~Quiet \/ proc # "idle" \/ onces # 0 \/ dly # {} \/ rec.wtng
         \/ cb.at \in {"last", "hold"} \/ dp.at = "hold")
       => \A l \in ArrayTriggers : put[l] # None \/ done[l] # Stale
  /\ rec.dstate \in {"ARRAY_GET_CALLBACK_WAIT", "RECORD_ARRAY_DATA", "SAVE_DATA_WAIT"}
       => \A l \in ArrayTriggers : done[l] # Stale

\* The put of the present point is in progress or has completed.
Reached(l) == put[l] = rec.cpt \/ done[l] = rec.cpt

\* No put of an earlier point is in progress; and which of this one have been made.
PointInv ==
  /\ \A l \in Links : put[l] \in {None, rec.cpt}
  /\ rec.busy /\ rec.xsc
     /\ (rec.faze \in Moving \cup Reading \/ dp.at \in {"moving", "TRIG_DETCTRS"})
       => \A l \in Positioners \ Record.failing : (dp.at = "moving" /\ l \in dp.todo) \/ Reached(l)
  /\ rec.busy /\ rec.xsc /\ rec.faze \in Reading /\ dp.at # "trigger"
       => \A l \in Triggers \ Record.failing : (dp.at = "triggering" /\ l \in dp.todo) \/ Reached(l)

\* The record waits for clients by itself at the most, and not before it has a place to wait.
Waits == Record.maxHolds = 0 /\ (Record.awct = 0 \/ Triggers # {} \/ "ddly" \in Delays)

\* While clients are waited for, only triggers and their callbacks come.
ClientInv == Waits =>
  /\ owed = rec.wcnt
  /\ rec.wcnt # 0 => /\ rec.faze = "READ_DETCTRS" /\ proc = "idle" /\ onces = 0
                     /\ cb.at # "idle" => cb.kind = "trig"
                     /\ \A k \in Kinds \ {"trig"} : rec.cbs[k] = 0

IInv == /\ Types /\ OneMover /\ CountInv /\ FazeInv /\ DpInv /\ DataInv /\ PointInv
        /\ ClientInv

----------------------------------------------------------------------------
(* What the parts of the invariant and the operators of the model say.      *)

\* The record's links and options are the same in each state.
LEMMA SetupStays ==
  ASSUME setup' = setup
  PROVE  /\ Record' = Record /\ Positioners' = Positioners /\ Triggers' = Triggers
         /\ ArrayTriggers' = ArrayTriggers /\ Detectors' = Detectors
         /\ ArrayDetectors' = ArrayDetectors /\ Delays' = Delays /\ Simple' = Simple
         /\ Waits' = Waits
         /\ Fields' = Fields
         /\ \A l : Kind(l)' = Kind(l)
         /\ \A at : LinksOf(at)' = LinksOf(at)
         /\ put' = put => \A k : Flying(k)' = Flying(k)
<1>1. /\ Record' = Record /\ Positioners' = Positioners /\ Triggers' = Triggers
      /\ ArrayTriggers' = ArrayTriggers /\ Detectors' = Detectors
      /\ ArrayDetectors' = ArrayDetectors /\ Delays' = Delays
  BY DEF Record, Positioners, Triggers, ArrayTriggers, Detectors, ArrayDetectors, Delays
<1>2. \A l : Kind(l)' = Kind(l)
  BY <1>1 DEF Kind
<1>3. \A at : LinksOf(at)' = LinksOf(at)
  BY <1>1 DEF LinksOf
<1> QED BY <1>1, <1>2, <1>3 DEF Simple, Waits, Fields, Flying

\* While all counts are 0 no put and no read is in progress.
LEMMA QuietMeans ==
  ASSUME Types, CountInv, Quiet
  PROVE  /\ \A l \in Links : put[l] = None
         /\ rec.gets = {} /\ \A k \in Kinds : rec.cbs[k] = 0
         /\ cb.at # "counted" /\ dp.at \notin {"moving", "retracing", "triggering"}
<1>1. \A k \in Kinds : rec.cbs[k] = 0
  BY DEF Quiet, Counts, Kinds, PutKinds
<1>2. \A k \in PutKinds : Cardinality(Flying(k)) \in Nat
        /\ (Cardinality(Flying(k)) = 0 => Flying(k) = {})
  BY FS_CardinalityType, FS_EmptySet DEF Types
<1>3. \A k \in PutKinds : Flying(k) = {} /\ ~DpCase(k) /\ ~(cb.at = "counted" /\ cb.kind = k)
  BY <1>1, <1>2 DEF CountInv, Kinds
<1>4. \A l \in Links : put[l] = None
  BY <1>3 DEF Flying, PutKinds, Kind
<1>5. rec.gets = {}
  <2>1. IsFiniteSet(rec.gets)
    BY RecordIs, FS_Subset DEF Types, Fields
  <2> QED BY <1>1, <2>1, FS_EmptySet DEF CountInv, Kinds
<1> QED BY <1>1, <1>3, <1>4, <1>5 DEF DpCase, PutKinds, CountInv, Types

----------------------------------------------------------------------------
(* The steps.                                                               *)

\* Initially nothing carries a scan on.
LEMMA InitIInv == Init => IInv
<1> SUFFICES ASSUME Init PROVE IInv
  OBVIOUS
<1>1. Types
  <2>1. \A k : Flying(k) = {}
    BY DEF Init, Flying
  <2>2. \A k \in PutKinds : IsFiniteSet(Flying(k))
    BY <2>1, FS_EmptySet
  <2>3. rec \in Fields
    BY DEF Init, Fields, Fazes, NotPacked, Counts, Kinds, PutKinds
  <2> QED BY <2>2, <2>3 DEF Init, Types, Kinds, PutKinds, Places
<1>2. OneMover /\ FazeInv /\ DpInv /\ PointInv /\ ClientInv
  BY DEF Init, OneMover, FazeInv, DpInv, PointInv, ClientInv, Resting, Quiet, Counts, DpActive,
         Saver, Kinds, PutKinds
<1>3. CountInv
  <2>1. \A k : Flying(k) = {}
    BY DEF Init, Flying
  <2>2. rec.cbs = [pos |-> 0, trig |-> 0, arr |-> 0, get |-> 0] /\ rec.gets = {}
    BY DEF Init, Counts
  <2>3. Cardinality({}) = 0 /\ cb.at = "idle" /\ dp.todo = {} /\ \A k : ~DpCase(k)
    BY FS_EmptySet DEF Init, DpCase
  <2>4. \A k \in PutKinds : rec.cbs[k] = 0
    BY <2>2 DEF PutKinds
  <2>5. rec.cbs["get"] = Cardinality(rec.gets)
    BY <2>2, <2>3
  <2>6. \A k \in PutKinds : Cardinality(Flying(k)) = 0
    BY <2>1, <2>3
  <2> QED BY <2>3, <2>4, <2>5, <2>6 DEF CountInv
<1>4. DataInv
  BY DEF Init, DataInv, Quiet, Counts
<1> QED BY <1>1, <1>2, <1>3, <1>4 DEF IInv

\* The number of puts in progress is a number.
LEMMA FlyingIsNat == Types => \A k \in PutKinds : Cardinality(Flying(k)) \in Nat
BY FS_CardinalityType DEF Types

\* Quiet by the names of the counts.
LEMMA QuietIs ==
  /\ Quiet <=> \A j \in Kinds : rec.cbs[j] = 0
  /\ Quiet' <=> \A j \in Kinds : rec'.cbs[j] = 0
<1>1. DOMAIN Counts = Kinds
  BY DEF Counts, Kinds, PutKinds
<1> QED BY <1>1 DEF Quiet

\* While callbacks are to come nothing but doPuts carries the scan on.
LEMMA CallbacksToCome ==
  ASSUME OneMover, FazeInv, NEW k \in Kinds, rec.cbs[k] # 0
  PROVE  /\ ~Quiet /\ rec.busy /\ proc = "idle" /\ onces = 0 /\ rec.puts = 0 /\ dly = {}
         /\ cb.at \notin {"last", "hold"} /\ ~rec.wtng /\ ~Saver
         /\ (\A j \in Kinds \ {k} : rec.cbs[j] = 0) /\ (DpActive => DpCase(k))
<1>1. ~Quiet
  BY QuietIs
<1> QED BY <1>1 DEF OneMover, FazeInv, Resting

\* notifyCallback counts a callback.
LEMMA NotifyCountsStep == IInv /\ NotifyCounts => IInv'
<1> SUFFICES ASSUME IInv, NotifyCounts, NEW k, k = cb.kind PROVE IInv'
  OBVIOUS
<1>1. /\ UNCHANGED <<proc, dp, put, done, dly, onces, saving, owed, scans, zeros, pauses,
                     holds, setup>>
      /\ rec' = [rec EXCEPT !.cbs[k] = @ - 1] /\ cb.at = "counted" /\ k \in PutKinds
      /\ IF rec.cbs[k] = 1 THEN cb' = [at |-> "last", kind |-> k] ELSE cb' = CbIdle
  BY DEF NotifyCounts, linkVars, clientVars, userVars, IInv, CountInv, CbAt
<1>2. Types'
  BY <1>1, SetupStays DEF IInv, Types, Fields, CbIdle, Kinds, PutKinds
<1>3. /\ rec.cbs[k] = Cardinality(Flying(k)) + (IF DpCase(k) THEN 1 ELSE 0) + 1
      /\ Cardinality(Flying(k)) \in Nat /\ rec.cbs[k] \in Nat
  BY <1>1, FS_CardinalityType DEF IInv, CountInv, Types
<1>4. /\ rec.cbs[k] # 0 /\ k \in Kinds /\ rec'.cbs[k] = rec.cbs[k] - 1
      /\ \A j \in Kinds \ {k} : rec'.cbs[j] = rec.cbs[j]
  BY <1>1, <1>3 DEF IInv, Types, Fields, Kinds, PutKinds
<1>5. /\ ~Quiet /\ rec.busy /\ proc = "idle" /\ onces = 0 /\ rec.puts = 0 /\ dly = {}
      /\ ~rec.wtng /\ ~Saver
      /\ (\A j \in Kinds \ {k} : rec.cbs[j] = 0) /\ (DpActive => DpCase(k))
  BY <1>4, CallbacksToCome DEF IInv
<1>6. Quiet' <=> rec.cbs[k] = 1
  <2>1. rec'.cbs[k] = 0 <=> rec.cbs[k] = 1
    BY <1>3, <1>4
  <2> QED BY <1>4, <1>5, <2>1, QuietIs
<1>7. OneMover'
  <2>1. rec'.dstate = rec.dstate /\ rec'.await = rec.await /\ rec'.wtng = rec.wtng
          /\ rec'.puts = rec.puts
    BY <1>1 DEF IInv, Types, Fields
  <2>2. (DpActive' <=> DpActive) /\ (DpCase(k)' <=> DpCase(k))
    BY <1>1 DEF DpActive, DpCase
  <2>3. ~Saver'
    BY <1>5, <2>1 DEF Saver
  <2>4. rec.cbs[k] = 1 => ~DpCase(k)
    BY <1>3
  <2>5. cb'.at = IF rec.cbs[k] = 1 THEN "last" ELSE "idle"
    BY <1>1 DEF CbIdle
  <2>6. rec'.cbs[k] = 0 <=> rec.cbs[k] = 1
    BY <1>3, <1>4
  <2>7. \A i \in Kinds : rec'.cbs[i] # 0 => i = k
    BY <1>4, <1>5
  <2>8. \A i \in Kinds : rec'.cbs[i] # 0 =>
          (\A j \in Kinds \ {i} : rec'.cbs[j] = 0) /\ (DpActive' => DpCase(i)')
    BY <1>4, <1>5, <2>2, <2>7
  <2>9. cb'.at \in {"last", "hold"} => Quiet' /\ ~DpActive' /\ ~Saver' /\ ~rec'.wtng
    BY <1>5, <1>6, <2>1, <2>2, <2>3, <2>4, <2>5
  <2> QED BY <1>1, <1>5, <2>1, <2>3, <2>8, <2>9 DEF OneMover
<1>8. CountInv'
  <2>1. \A j : DpCase(j)' <=> DpCase(j)
    BY <1>1 DEF DpCase
  <2>2. \A j \in PutKinds : Flying(j)' = Flying(j)
    BY <1>1, SetupStays
  <2>3. ASSUME NEW j \in PutKinds
        PROVE  rec'.cbs[j] = Cardinality(Flying(j)) + (IF DpCase(j) THEN 1 ELSE 0)
    BY <1>1, <1>3, <1>4, FlyingIsNat DEF IInv, CountInv, Kinds
  <2>4. rec'.gets = rec.gets /\ rec'.cbs["get"] = rec.cbs["get"] /\ cb'.at # "counted"
    BY <1>1 DEF IInv, Types, Fields, CbIdle, Kinds, PutKinds
  <2> QED BY <1>1, <2>1, <2>2, <2>3, <2>4, FlyingIsNat DEF IInv, CountInv
<1>9. FazeInv' /\ DpInv' /\ PointInv'
  BY <1>1, <1>5, SetupStays DEF IInv, FazeInv, DpInv, PointInv, Reached, Types, Fields
<1>10. DataInv'
  <2>1. rec'.cbs["get"] = rec.cbs["get"] /\ rec.cbs["get"] = 0
    BY <1>1, <1>4, <1>5 DEF Kinds, PutKinds
  <2> QED BY <1>1, <1>5, <2>1, SetupStays DEF IInv, DataInv, CbIdle, Types, Fields
<1>11. ClientInv'
  <2>1. UNCHANGED <<rec.wcnt, rec.faze>>
    BY <1>1 DEF IInv, Types, Fields
  <2>2. cb'.at # "idle" => cb'.kind = k
    BY <1>1 DEF CbIdle
  <2> QED BY <1>1, <1>4, <1>5, <2>1, <2>2, SetupStays DEF IInv, ClientInv
<1> QED BY <1>2, <1>7, <1>8, <1>9, <1>10, <1>11 DEF IInv

\* scanOnce has the record processed.
LEMMA ScanOnceStep == IInv /\ ScanOnce => IInv'
<1> SUFFICES ASSUME IInv, ScanOnce PROVE IInv'
  OBVIOUS
<1>1. /\ UNCHANGED <<rec, dp, cb, put, done, dly, saving, owed, scans, zeros, pauses, holds, setup>>
      /\ onces = 1 /\ onces' = 0 /\ proc = "idle" /\ Resting /\ rec.puts = 0 /\ dly = {}
      /\ rec.busy /\ proc' = "quiet"
  BY DEF ScanOnce, ReadCounts, linkVars, clientVars, userVars, IInv, OneMover, FazeInv, Types,
         Resting, Quiet
<1>2. Types'
  BY <1>1, SetupStays DEF IInv, Types
<1>3. OneMover' /\ CountInv'
  BY <1>1, SetupStays DEF IInv, OneMover, CountInv, Resting, Quiet, DpActive, DpCase, Saver
<1>4. FazeInv' /\ DpInv' /\ DataInv' /\ PointInv' /\ ClientInv'
  BY <1>1, SetupStays DEF IInv, FazeInv, DpInv, DataInv, PointInv, ClientInv, Reached, Quiet,
                          Resting
<1> QED BY <1>2, <1>3, <1>4 DEF IInv

\* A delay is over; its callback is still to come.
LEMMA DelayExpiresStep == IInv /\ DelayExpires => IInv'
<1> SUFFICES ASSUME IInv, DelayExpires PROVE IInv'
  OBVIOUS
<1>1. /\ UNCHANGED <<rec, proc, dp, cb, put, done, onces, saving, owed, scans, zeros, pauses,
           holds, setup>>
      /\ dly = {"running"} /\ dly' = {"expired"}
  BY DEF DelayExpires, linkVars, clientVars, userVars, IInv, OneMover, Types
<1>2. Types'
  BY <1>1, SetupStays DEF IInv, Types
<1>3. OneMover' /\ CountInv'
  BY <1>1, SetupStays DEF IInv, OneMover, CountInv, Resting, Quiet, DpActive, DpCase, Saver
<1>4. FazeInv' /\ DpInv' /\ DataInv' /\ PointInv' /\ ClientInv'
  BY <1>1, SetupStays DEF IInv, FazeInv, DpInv, DataInv, PointInv, ClientInv, Reached, Quiet,
                          Resting
<1> QED BY <1>2, <1>3, <1>4 DEF IInv

\* A step that leaves the puts alone.
LEMMA TypesKept ==
  ASSUME Types, put' = put, done' = done, setup' = setup, rec' \in Fields,
         proc' \in {"idle", "quiet", "busy"}, dp' = dp,
         cb' \in [at : {"idle", "counted", "last", "hold"}, kind : Kinds],
         dly' \in SUBSET {"running", "expired"},
         {onces', saving', owed', zeros', pauses', holds'} \subseteq Nat
  PROVE  Types'
<1>1. /\ Fields' = Fields /\ \A at : LinksOf(at)' = LinksOf(at)
      /\ \A k : Flying(k)' = Flying(k)
  BY SetupStays
<1> QED BY <1>1 DEF Types, Kinds, PutKinds

\* Fields that the steps of clients leave alone.
Flow == <<rec.xsc, rec.pxsc, rec.busy, rec.kill, rec.paus, rec.faze, rec.cpt, rec.cbs,
          rec.puts, rec.gets>>
Data == <<rec.dstate, rec.validBuf, rec.await, rec.userSetAWAIT, rec.told>>

\* The scan is held.
LEMMA HoldScanStep == IInv /\ HoldScan => IInv'
<1> SUFFICES ASSUME IInv, HoldScan PROVE IInv'
  OBVIOUS
<1>1. /\ UNCHANGED <<proc, dp, put, done, dly, onces, saving, owed, scans, zeros, pauses, holds,
           setup>>
      /\ rec' = [rec EXCEPT !.wtng = TRUE] /\ cb.at = "hold" /\ cb' = CbIdle
      /\ Quiet /\ ~DpActive /\ ~Saver /\ proc = "idle" /\ onces = 0 /\ rec.puts = 0 /\ dly = {}
      /\ rec.busy
  BY DEF HoldScan, linkVars, clientVars, userVars, IInv, OneMover, FazeInv, Resting
<1>2. /\ rec' \in Fields /\ rec'.wtng = TRUE /\ rec'.wcnt = rec.wcnt
      /\ UNCHANGED <<Flow, Data>>
  BY <1>1 DEF IInv, Types, Fields, Flow, Data
<1>3. Types'
  BY <1>1, <1>2, TypesKept DEF IInv, Types, CbIdle, Kinds, PutKinds
<1>4. /\ (Quiet' <=> Quiet) /\ (DpActive' <=> DpActive) /\ (Saver' <=> Saver)
      /\ \A k : (DpCase(k)' <=> DpCase(k))
      /\ \A k : Flying(k)' = Flying(k)
  BY <1>1, <1>2, SetupStays DEF Flow, Data, Quiet, DpActive, Saver, DpCase
<1>5. OneMover'
  BY <1>1, <1>2, <1>4, QuietIs DEF IInv, OneMover, CbIdle, Flow
<1>6. CountInv'
  BY <1>1, <1>2, <1>4, FlyingIsNat DEF IInv, CountInv, CbIdle, Flow
<1>7. FazeInv' /\ DpInv' /\ DataInv' /\ PointInv' /\ ClientInv'
  BY <1>1, <1>2, <1>4, SetupStays, QuietIs
  DEF IInv, FazeInv, DpInv, DataInv, PointInv, ClientInv, Reached, CbIdle, Flow, Data, Kinds
<1> QED BY <1>3, <1>5, <1>6, <1>7 DEF IInv

\* A client is waited for, or lets the scan go on.
LEMMA ClientStep == IInv /\ (ClientReleases \/ ClientHolds) => IInv'
<1> SUFFICES ASSUME IInv, ClientReleases \/ ClientHolds PROVE IInv'
  OBVIOUS
<1>1. /\ UNCHANGED <<dp, cb, put, done, dly, saving, zeros, pauses, setup>>
      /\ proc = "idle" /\ proc' = "idle" /\ owed' \in Nat /\ holds' \in Nat
      /\ rec' \in Fields /\ UNCHANGED <<Flow, Data>>
      /\ \/ rec'.wtng = rec.wtng /\ onces' = onces
         \/ rec.wtng /\ ~rec'.wtng /\ onces' = onces + 1 /\ rec'.wcnt = 0
  <2>1. CASE ClientHolds
    <3>1. owed + 1 \in Nat /\ holds + 1 \in Nat /\ rec.wcnt + 1 \in Nat
      BY DEF IInv, Types, Fields
    <3>2. rec' \in Fields /\ UNCHANGED <<Flow, Data, rec.wtng>>
      BY <2>1, <3>1 DEF ClientHolds, IInv, Types, Fields, Flow, Data
    <3> QED BY <2>1, <3>1, <3>2 DEF ClientHolds, linkVars
  <2>2. CASE ClientReleases
    <3> DEFINE left == IF rec.wcnt > 0 THEN rec.wcnt - 1 ELSE 0
               goes == rec.wtng /\ left = 0
    <3>1. /\ left \in Nat
          /\ rec' = [rec EXCEPT !.wcnt = left, !.wtng = @ /\ ~goes]
          /\ onces' = IF goes THEN onces + 1 ELSE onces
      <4>1. left \in Nat /\ ~rec.paus
        BY DEF IInv, Types, Fields, FazeInv
      <4> QED BY <2>2, <4>1 DEF ClientReleases
    <3> HIDE DEF left
    <3>2. rec' \in Fields /\ UNCHANGED <<Flow, Data>> /\ rec'.wcnt = left
          /\ (rec'.wtng <=> rec.wtng /\ ~goes) /\ rec'.wtng \in BOOLEAN /\ rec.wtng \in BOOLEAN
      <4>1. rec \in Fields /\ rec.wtng \in BOOLEAN
        BY DEF IInv, Types, Fields
      <4>2. PICK w \in BOOLEAN : /\ rec' = [rec EXCEPT !.wcnt = left, !.wtng = w]
                                /\ (w <=> rec.wtng /\ ~goes)
        <5>1. (rec.wtng /\ ~goes) \in BOOLEAN
          OBVIOUS
        <5> QED BY <3>1, <5>1
      <4> HIDE DEF goes
      <4>3. rec' \in Fields
        BY <3>1, <4>1, <4>2 DEF Fields
      <4>4. rec'.wcnt = left /\ rec'.wtng = w
        BY <4>1, <4>2 DEF Fields
      <4>5. UNCHANGED <<Flow, Data>>
        BY <4>1, <4>2 DEF Fields, Flow, Data
      <4> QED BY <4>1, <4>2, <4>3, <4>4, <4>5
    <3>3. owed' \in Nat /\ holds' \in Nat
      BY <2>2 DEF ClientReleases, userVars, IInv, Types
    <3> QED BY <2>2, <3>1, <3>2, <3>3 DEF ClientReleases, linkVars, userVars
  <2> QED BY <2>1, <2>2
<1>2. onces' \in Nat
  BY <1>1 DEF IInv, Types
<1>3. Types'
  BY <1>1, <1>2, TypesKept DEF IInv, Types
<1>4. /\ (Quiet' <=> Quiet) /\ (DpActive' <=> DpActive) /\ (Saver' <=> Saver)
      /\ \A k : (DpCase(k)' <=> DpCase(k))
      /\ \A k : Flying(k)' = Flying(k)
  BY <1>1, SetupStays DEF Flow, Data, Quiet, DpActive, Saver, DpCase
<1>5. rec.wtng => cb.at = "idle" /\ onces = 0 /\ rec.puts = 0 /\ dly = {} /\ rec.busy
                 /\ Quiet /\ ~DpActive /\ ~Saver
  BY QuietMeans DEF IInv, OneMover, Resting, FazeInv, Types
<1>6. OneMover'
  BY <1>1, <1>4, <1>5, QuietIs DEF IInv, OneMover, Flow, Resting
<1>7. CountInv'
  BY <1>1, <1>4, FlyingIsNat DEF IInv, CountInv, Flow
<1>8. FazeInv'
  BY <1>1, <1>4, <1>5 DEF IInv, FazeInv, Resting, Flow, Data
<1>9. DpInv' /\ PointInv'
  BY <1>1, <1>4, <1>5, SetupStays DEF IInv, DpInv, PointInv, Reached, Flow, Data
<1>11. DataInv'
  BY <1>1, <1>4, <1>5, SetupStays DEF IInv, DataInv, Flow, Data
<1>10. ClientInv'
  <2> SUFFICES ASSUME Waits PROVE ClientInv'
    BY <1>1, SetupStays DEF ClientInv
  <2>1. Record.maxHolds = 0 /\ Record.maxHolds \in Nat /\ holds \in Nat
    BY RecordIs DEF Waits, IInv, Types
  <2>2. ClientReleases
    BY <2>1 DEF ClientHolds
  <2>3. owed' = rec'.wcnt /\ (rec.wcnt = 0 => rec'.wcnt = 0)
    BY <2>2 DEF ClientReleases, IInv, ClientInv, Types, Fields
  <2> QED BY <1>1, <2>3, SetupStays DEF IInv, ClientInv, Flow
<1> QED BY <1>3, <1>6, <1>7, <1>8, <1>9, <1>10, <1>11 DEF IInv

\* saveData sees the end of a scan.
LEMMA DataMonitorStep == IInv /\ DataMonitor => IInv'
<1> SUFFICES ASSUME IInv, DataMonitor PROVE IInv'
  OBVIOUS
<1>1. /\ UNCHANGED <<proc, dp, cb, put, done, dly, onces, owed, zeros, pauses, holds, setup>>
      /\ rec' \in Fields /\ UNCHANGED <<Flow, rec.wtng, rec.wcnt, rec.dstate, rec.validBuf,
           rec.await>>
      /\ rec.await /\ rec'.told = rec.told - 1 /\ saving' = saving + 1
  <2>1. rec.await = TRUE /\ rec.told - 1 \in Nat
    BY DEF DataMonitor, IInv, DataInv, Types, Fields
  <2>2. rec' \in Fields /\ rec'.told = rec.told - 1
        /\ UNCHANGED <<Flow, rec.wtng, rec.wcnt, rec.dstate, rec.validBuf, rec.await>>
    BY <2>1 DEF DataMonitor, IInv, Types, Fields, Flow
  <2> QED BY <2>1, <2>2 DEF DataMonitor, linkVars, userVars
<1>2. Types'
  BY <1>1, TypesKept DEF IInv, Types
<1>3. /\ (Quiet' <=> Quiet) /\ (DpActive' <=> DpActive) /\ (Saver' <=> Saver)
      /\ \A k : (DpCase(k)' <=> DpCase(k))
      /\ \A k : Flying(k)' = Flying(k)
  BY <1>1, SetupStays DEF Flow, Quiet, DpActive, Saver, DpCase
<1>4. OneMover' /\ FazeInv' /\ DpInv' /\ PointInv' /\ ClientInv'
  BY <1>1, <1>3, SetupStays, QuietIs
  DEF IInv, OneMover, FazeInv, DpInv, PointInv, ClientInv, Reached, Resting, Flow
<1>5. CountInv'
  BY <1>1, <1>3, FlyingIsNat DEF IInv, CountInv, Flow
<1>6. DataInv'
  <2>1. rec.told \in Nat /\ saving \in Nat
    BY DEF IInv, Types, Fields
  <2> QED BY <1>1, <1>3, <2>1, SetupStays DEF IInv, DataInv, Flow
<1> QED BY <1>2, <1>4, <1>5, <1>6 DEF IInv

\* saveData has saved the arrays: a scan that waits for that goes on.
LEMMA ScanSavedStep == IInv /\ ScanSaved => IInv'
<1> SUFFICES ASSUME IInv, ScanSaved PROVE IInv'
  OBVIOUS
<1>1. /\ UNCHANGED <<proc, dp, cb, put, done, dly, owed, zeros, pauses, holds, setup>>
      /\ rec' \in Fields /\ UNCHANGED <<Flow, rec.wtng, rec.wcnt, rec.dstate, rec.validBuf,
           rec.told>>
      /\ rec.await /\ ~rec'.await /\ rec.told = 0 /\ saving' = 0 /\ proc = "idle"
      /\ onces' = IF rec.dstate = "SAVE_DATA_WAIT" THEN onces + 1 ELSE onces
  <2>1. rec.await /\ rec.told = 0 /\ saving = 1
    BY DEF ScanSaved, IInv, DataInv, Types, Fields
  <2>2. rec' \in Fields /\ ~rec'.await
        /\ UNCHANGED <<Flow, rec.wtng, rec.wcnt, rec.dstate, rec.validBuf, rec.told>>
    BY DEF ScanSaved, IInv, Types, Fields, Flow
  <2> QED BY <2>1, <2>2 DEF ScanSaved, linkVars, userVars
<1>2. Types'
  BY <1>1, TypesKept DEF IInv, Types
<1>3. /\ (Quiet' <=> Quiet) /\ (DpActive' <=> DpActive) /\ ~Saver'
      /\ \A k : (DpCase(k)' <=> DpCase(k))
      /\ \A k : Flying(k)' = Flying(k)
  BY <1>1, SetupStays DEF Flow, Quiet, DpActive, Saver, DpCase
<1>4. rec.dstate = "SAVE_DATA_WAIT" =>
        /\ Quiet /\ ~DpActive /\ ~rec.wtng /\ cb.at = "idle" /\ onces = 0 /\ rec.puts = 0
        /\ dly = {} /\ rec.busy /\ rec.faze = "SCAN_DONE"
  BY <1>1, QuietMeans DEF IInv, OneMover, DataInv, FazeInv, Saver, Resting, Types
<1>5. OneMover' /\ FazeInv' /\ DpInv' /\ PointInv' /\ ClientInv'
  BY <1>1, <1>3, <1>4, SetupStays, QuietIs
  DEF IInv, OneMover, FazeInv, DpInv, PointInv, ClientInv, Reached, Resting, Flow
<1>6. CountInv'
  BY <1>1, <1>3, FlyingIsNat DEF IInv, CountInv, Flow
<1>7. DataInv'
  BY <1>1, <1>3, SetupStays DEF IInv, DataInv, Flow
<1> QED BY <1>2, <1>5, <1>6, <1>7 DEF IInv

\* A scan is started.
LEMMA StartScanStep == IInv /\ StartScan => IInv'
<1> SUFFICES ASSUME IInv, StartScan PROVE IInv'
  OBVIOUS
<1>1. /\ UNCHANGED <<dp, cb, put, done, dly, onces, saving, owed, pauses, holds, setup>>
      /\ rec' \in Fields /\ UNCHANGED <<rec.wtng, rec.wcnt, Data>>
      /\ UNCHANGED <<rec.pxsc, rec.busy, rec.kill, rec.paus, rec.faze, rec.cpt, rec.cbs,
                     rec.puts, rec.gets>>
      /\ ~rec.busy /\ rec'.xsc /\ proc' = "quiet" /\ zeros' = 0
      /\ Resting /\ onces = 0 /\ rec.puts = 0 /\ dly = {} /\ rec.faze = "IDLE"
  BY DEF StartScan, linkVars, clientVars, IInv, Types, Fields, Data, FazeInv, ReadCounts, Resting,
         Quiet
<1>2. Types'
  BY <1>1, TypesKept DEF IInv, Types
<1>3. /\ (Quiet' <=> Quiet) /\ (DpActive' <=> DpActive) /\ (Saver' <=> Saver)
      /\ \A k : (DpCase(k)' <=> DpCase(k))
      /\ \A k : Flying(k)' = Flying(k)
  BY <1>1, SetupStays DEF Data, Quiet, DpActive, Saver, DpCase
<1>4. OneMover'
  BY <1>1, <1>3, QuietIs DEF IInv, OneMover, Resting, Data
<1>7. FazeInv' /\ DpInv'
  BY <1>1, <1>3 DEF IInv, FazeInv, DpInv, Resting, Data
<1>8. PointInv' /\ ClientInv'
  BY <1>1, SetupStays DEF PointInv, IInv, ClientInv
<1>5. CountInv'
  BY <1>1, <1>3, FlyingIsNat DEF IInv, CountInv
<1>6. DataInv'
  BY <1>1, <1>3, SetupStays DEF IInv, DataInv, FazeInv, Data
<1> QED BY <1>2, <1>4, <1>5, <1>6, <1>7, <1>8 DEF IInv

\* The last callback of its kind has come.
LEMMA LastCallbackStep == IInv /\ LastCallback => IInv'
<1> SUFFICES ASSUME IInv, LastCallback PROVE IInv'
  OBVIOUS
<1>1. /\ cb.at = "last" /\ Quiet /\ ~DpActive /\ ~Saver /\ ~rec.wtng /\ ~rec.paus
      /\ proc = "idle" /\ onces = 0 /\ rec.puts = 0 /\ dly = {} /\ rec.busy
  BY DEF LastCallback, IInv, OneMover, FazeInv, Resting
<1>2. /\ rec' \in Fields
      /\ UNCHANGED <<Flow, rec.wtng, rec.wcnt, rec.validBuf, rec.await, rec.userSetAWAIT, rec.told>>
      /\ rec'.dstate = IF cb.kind = "get" /\ rec.dstate = "ARRAY_GET_CALLBACK_WAIT"
                         THEN "RECORD_ARRAY_DATA" ELSE rec.dstate
  <2>1. \/ rec' = rec /\ cb.kind # "get"
        \/ /\ cb.kind = "get"
           /\ rec' = [rec EXCEPT !.dstate = IF @ = "ARRAY_GET_CALLBACK_WAIT"
                                              THEN "RECORD_ARRAY_DATA" ELSE @]
    BY <1>1 DEF LastCallback, Requested
  <2> QED BY <2>1 DEF IInv, Types, Fields, Flow, NotPacked
<1>3. /\ UNCHANGED <<proc, dp, put, done, saving, owed, zeros, pauses, holds, setup>>
      /\ \/ cb' = [at |-> "hold", kind |-> "trig"] /\ cb.kind = "trig" /\ dly' = {} /\ onces' = 0
         \/ /\ cb' = CbIdle
            /\ \/ dly' = {"running"} /\ onces' = 0
               \/ dly' = {} /\ onces' = 1 /\ (cb.kind = "trig" => rec.wcnt = 0)
  <2>1. rec.wcnt \in Nat
    BY DEF IInv, Types, Fields
  <2> QED BY <1>1, <2>1 DEF LastCallback, Requested, CbAt, linkVars, clientVars, userVars
<1>4. Types'
  BY <1>2, <1>3, TypesKept DEF IInv, Types, CbIdle, Kinds, PutKinds
<1>5. /\ Quiet' /\ ~DpActive' /\ ~Saver'
      /\ \A k : (DpCase(k)' <=> DpCase(k))
      /\ \A k : Flying(k)' = Flying(k)
  BY <1>1, <1>2, <1>3, SetupStays DEF Flow, Quiet, DpActive, Saver, DpCase
<1>6. OneMover'
  BY <1>1, <1>2, <1>3, <1>5, QuietIs DEF IInv, OneMover, CbIdle, Resting, Flow
<1>7. CountInv'
  BY <1>1, <1>2, <1>3, <1>5, FlyingIsNat DEF IInv, CountInv, CbIdle, Flow
<1>8. FazeInv' /\ DpInv'
  BY <1>1, <1>2, <1>3 DEF IInv, FazeInv, DpInv, Flow
<1>9. DataInv'
  BY <1>1, <1>2, <1>3, <1>5, SetupStays, QuietIs DEF IInv, DataInv, Flow, Kinds
<1>10. PointInv'
  BY <1>2, <1>3, SetupStays DEF IInv, PointInv, Reached, Flow
<1>11. ClientInv'
  <2>1. CASE rec.wcnt = 0
    BY <1>2, <1>3, <2>1, SetupStays DEF IInv, ClientInv
  <2>2. CASE rec.wcnt # 0 /\ Waits
    <3>1. cb.kind = "trig" /\ onces' = 0
      BY <1>1, <1>3, <2>2 DEF IInv, ClientInv
    <3> QED BY <1>2, <1>3, <2>2, <3>1 DEF IInv, ClientInv, CbIdle, Flow
  <2> QED BY <1>3, <2>1, <2>2, SetupStays DEF ClientInv
<1> QED BY <1>4, <1>6, <1>7, <1>8, <1>9, <1>10, <1>11 DEF IInv

\* A read is answered.
LEMMA UserGetCallbackStep ==
  ASSUME NEW d, IInv, UserGetCallback(d) PROVE IInv'
<1>1. IsFiniteSet(rec.gets) /\ d \in rec.gets /\ IsFiniteSet(rec.gets \ {d})
  BY RecordIs, FS_Subset, FS_RemoveElement DEF UserGetCallback, IInv, Types, Fields
<1>2. /\ rec.cbs["get"] = Cardinality(rec.gets) /\ rec.cbs["get"] \in Nat \ {0}
      /\ Cardinality(rec.gets \ {d}) = rec.cbs["get"] - 1
  BY <1>1, FS_CardinalityType, FS_EmptySet, FS_RemoveElement DEF IInv, CountInv
<1>3. /\ ~Quiet /\ rec.busy /\ proc = "idle" /\ onces = 0 /\ rec.puts = 0 /\ dly = {}
      /\ ~rec.wtng /\ ~Saver /\ (\A j \in PutKinds : rec.cbs[j] = 0) /\ ~DpActive
  BY <1>2, CallbacksToCome DEF IInv, Kinds, PutKinds, DpCase
<1>4. /\ rec' \in Fields /\ rec'.gets = rec.gets \ {d}
      /\ UNCHANGED <<rec.xsc, rec.pxsc, rec.busy, rec.kill, rec.paus, rec.faze, rec.cpt,
                     rec.puts, Data, rec.wtng, rec.wcnt>>
      /\ \A j \in PutKinds : rec'.cbs[j] = rec.cbs[j]
      /\ rec'.cbs["get"] = rec.cbs["get"] - 1
  <2>1. rec' = [rec EXCEPT !.gets = @ \ {d}, !.cbs = [@ EXCEPT !["get"] = rec.cbs["get"] - 1]]
    <3>1. rec.cbs["get"] > 0
      BY <1>2
    <3> QED BY <3>1 DEF UserGetCallback
  <2>2. rec'.cbs = [rec.cbs EXCEPT !["get"] = rec.cbs["get"] - 1]
    BY <2>1 DEF IInv, Types, Fields
  <2>3. rec.cbs \in [Kinds -> Int] /\ rec'.cbs \in [Kinds -> Int]
    BY <1>2, <2>2 DEF IInv, Types, Fields, Kinds
  <2>4. rec' \in Fields
    BY <2>1, <2>2, <2>3 DEF IInv, Types, Fields
  <2>5. UNCHANGED <<rec.xsc, rec.pxsc, rec.busy, rec.kill, rec.paus, rec.faze, rec.cpt,
                    rec.puts, Data, rec.wtng, rec.wcnt>> /\ rec'.gets = rec.gets \ {d}
    BY <2>1 DEF IInv, Types, Fields, Data
  <2> QED BY <2>2, <2>3, <2>4, <2>5 DEF Kinds, PutKinds
<1>5. /\ UNCHANGED <<proc, dp, put, done, dly, onces, saving, owed, zeros, pauses, holds, setup>>
      /\ cb.at = "idle"
      /\ cb' = IF rec.cbs["get"] = 1 THEN [at |-> "last", kind |-> "get"] ELSE CbIdle
  BY <1>2 DEF UserGetCallback, CbAt, linkVars, clientVars, userVars
<1>6. Types'
  BY <1>4, <1>5, TypesKept DEF IInv, Types, CbIdle, Kinds, PutKinds
<1>7. /\ (Quiet' <=> rec.cbs["get"] = 1) /\ ~DpActive' /\ ~Saver'
      /\ \A k : (DpCase(k)' <=> DpCase(k))
      /\ \A k : Flying(k)' = Flying(k)
  <2>1. Quiet' <=> rec.cbs["get"] = 1
    BY <1>2, <1>3, <1>4, QuietIs DEF Kinds
  <2> QED BY <1>3, <1>4, <1>5, <2>1, SetupStays DEF DpActive, Saver, DpCase, Data
<1>8. OneMover'
  BY <1>3, <1>4, <1>5, <1>7 DEF OneMover, CbIdle, Kinds
<1>9. CountInv'
  BY <1>2, <1>4, <1>5, <1>7, FlyingIsNat DEF IInv, CountInv, CbIdle
<1>10. FazeInv' /\ DpInv' /\ PointInv'
  BY <1>3, <1>4, <1>5, SetupStays DEF IInv, FazeInv, DpInv, PointInv, Reached, Data
<1>11. DataInv'
  BY <1>2, <1>3, <1>4, <1>5, SetupStays DEF IInv, DataInv, Data, CbIdle
<1>12. ClientInv'
  BY <1>2, <1>3, <1>4, <1>5, SetupStays DEF IInv, ClientInv, Data, Kinds, PutKinds
<1> QED BY <1>6, <1>8, <1>9, <1>10, <1>11, <1>12 DEF IInv

\* The callback of a put comes.
LEMMA NotifyArrivesStep ==
  ASSUME NEW l \in Links, IInv, NotifyArrives(l), NEW k, k = Kind(l) PROVE IInv'
<1>1. k \in PutKinds /\ k \in Kinds /\ l \in Flying(k) /\ put[l] = rec.cpt /\ put[l] \in Nat
  BY DEF NotifyArrives, Flying, IInv, PointInv, Types, Kind, Kinds, PutKinds
<1>2. IsFiniteSet(Flying(k)) /\ Cardinality(Flying(k)) \in Nat /\ Cardinality(Flying(k)) # 0
  BY <1>1, FS_CardinalityType, FS_EmptySet DEF IInv, Types
<1>3. rec.cbs[k] # 0
  BY <1>1, <1>2 DEF IInv, CountInv, NotifyArrives
<1>4. /\ ~Quiet /\ rec.busy /\ proc = "idle" /\ onces = 0 /\ rec.puts = 0 /\ dly = {}
      /\ ~rec.wtng /\ ~Saver /\ rec.faze # "IDLE"
  BY <1>1, <1>3, CallbacksToCome DEF IInv, FazeInv, Before, Moving, Reading, After
<1>5. /\ UNCHANGED <<rec, proc, dp, dly, onces, saving, owed, zeros, pauses, holds, setup>>
      /\ cb.at = "idle" /\ cb' = [at |-> "counted", kind |-> k]
      /\ put' = [put EXCEPT ![l] = None] /\ done' = [done EXCEPT ![l] = rec.cpt]
  BY <1>1, <1>3, <1>4 DEF NotifyArrives, CbAt, clientVars, userVars, Stale
<1>6. /\ \A j \in PutKinds \ {k} : Flying(j)' = Flying(j)
      /\ Flying(k)' = Flying(k) \ {l}
  BY <1>1, <1>5, SetupStays DEF Flying, IInv, Types
<1>7. IsFiniteSet(Flying(k)') /\ Cardinality(Flying(k)') = Cardinality(Flying(k)) - 1
  <2>1. /\ IsFiniteSet(Flying(k) \ {l})
        /\ Cardinality(Flying(k) \ {l}) = Cardinality(Flying(k)) - 1
    BY <1>1, <1>2, FS_RemoveElement
  <2> QED BY <1>6, <2>1
<1>8. Types'
  <2>1. \A j \in PutKinds : IsFiniteSet(Flying(j)')
    BY <1>6, <1>7 DEF IInv, Types
  <2> QED BY <1>1, <1>5, <2>1, SetupStays DEF IInv, Types
<1>9. /\ (Quiet' <=> Quiet) /\ (DpActive' <=> DpActive) /\ (Saver' <=> Saver)
      /\ \A j : (DpCase(j)' <=> DpCase(j))
  BY <1>5 DEF Quiet, DpActive, Saver, DpCase
<1>10. OneMover'
  BY <1>4, <1>5, <1>9 DEF IInv, OneMover
<1>11. CountInv'
  <2>1. \A j \in PutKinds : rec.cbs[j] = Cardinality(Flying(j)) + (IF DpCase(j) THEN 1 ELSE 0)
    BY <1>5, FlyingIsNat DEF IInv, CountInv
  <2>2. \A j \in PutKinds \ {k} : Cardinality(Flying(j)') \in Nat
    BY <1>6, FlyingIsNat DEF IInv
  <2>3. rec.cbs[k] = Cardinality(Flying(k)') + (IF DpCase(k)' THEN 1 ELSE 0) + 1
    BY <1>1, <1>2, <1>7, <1>9, <2>1
  <2>4. \A j \in PutKinds \ {k} : rec.cbs[j] = Cardinality(Flying(j)')
          + (IF DpCase(j)' THEN 1 ELSE 0) + 0
    BY <1>6, <1>9, <2>1, <2>2
  <2>5. \A x \in dp.todo : put'[x] = None
    BY <1>5 DEF IInv, CountInv, Types
  <2> QED BY <1>1, <1>5, <2>3, <2>4, <2>5 DEF IInv, CountInv
<1>12. FazeInv' /\ DpInv'
  BY <1>4, <1>5 DEF IInv, FazeInv, DpInv
<1>13. DataInv'
  <2>1. \A x \in Links : put[x] # None \/ done[x] # Stale => put'[x] # None \/ done'[x] # Stale
    <3>1. rec.cpt # Stale
      BY <1>1 DEF Stale
    <3>2. \A x \in Links : done'[x] = IF x = l THEN rec.cpt ELSE done[x]
      BY <1>5 DEF IInv, Types
    <3>4. \A x \in Links \ {l} : put'[x] = put[x]
      BY <1>5 DEF IInv, Types
    <3> QED BY <3>1, <3>2, <3>4
  <2>2. ArrayTriggers \subseteq Links
    BY RecordIs DEF IInv, Types
  <2>3. \A x \in Links : done[x] # Stale => done'[x] # Stale
    BY <1>1, <1>5 DEF IInv, Types, Stale
  <2> QED BY <1>4, <1>5, <1>9, <2>1, <2>2, <2>3, SetupStays DEF IInv, DataInv
<1>14. PointInv'
  <2>1. \A x \in Links : Reached(x) => Reached(x)'
    BY <1>1, <1>5 DEF Reached, IInv, Types, PointInv
  <2>2. Positioners \subseteq Links /\ Triggers \subseteq Links
    BY RecordIs DEF IInv, Types
  <2>3. \A x \in Links : put'[x] \in {None, rec'.cpt}
    BY <1>5 DEF IInv, Types, PointInv
  <2> QED BY <1>5, <2>1, <2>2, <2>3, SetupStays DEF IInv, PointInv
<1>15. ClientInv'
  BY <1>1, <1>3, <1>5, SetupStays DEF IInv, ClientInv
<1> QED BY <1>8, <1>10, <1>11, <1>12, <1>13, <1>14, <1>15 DEF IInv

\* A delay is over.
LEMMA DelayCallbackStep == IInv /\ DelayCallback => IInv'
<1> SUFFICES ASSUME IInv, DelayCallback PROVE IInv'
  OBVIOUS
<1>1. /\ dly # {} /\ Resting /\ rec.busy /\ proc = "idle" /\ onces = 0 /\ rec.puts = 0
           /\ dp.at = "idle"
  BY DEF DelayCallback, IInv, OneMover, FazeInv, Resting
<1>2. /\ UNCHANGED <<rec, proc, cb, put, done, saving, owed, zeros, pauses, holds, setup>>
      /\ dly' = {}
      /\ \/ dp' = [at |-> "hold", todo |-> {}] /\ onces' = 0
         \/ dp' = dp /\ onces' = 1 /\ rec.wcnt = 0
  <2>1. dly \in {{"running"}, {"expired"}} /\ rec.wcnt \in Nat
    BY <1>1 DEF IInv, OneMover, Types, Fields
  <2>2. dly' = {}
    BY <2>1 DEF DelayCallback
  <2> QED BY <1>1, <2>1, <2>2 DEF DelayCallback, linkVars, clientVars, userVars
<1>3. Types'
  BY <1>1, <1>2, SetupStays DEF IInv, Types, LinksOf, Places
<1>4. /\ Quiet' /\ (DpActive' <=> dp'.at = "hold") /\ ~Saver'
      /\ \A k : ~DpCase(k) /\ ~DpCase(k)'
      /\ \A k : Flying(k)' = Flying(k)
  BY <1>1, <1>2, SetupStays DEF Quiet, DpActive, Saver, DpCase, Resting
<1>5. OneMover'
  BY <1>1, <1>2, <1>4, QuietIs DEF IInv, OneMover, Resting
<1>6. CountInv'
  BY <1>1, <1>2, <1>4, FlyingIsNat DEF IInv, CountInv
<1>7. FazeInv' /\ DpInv'
  BY <1>1, <1>2 DEF IInv, FazeInv, DpInv
<1>8. DataInv'
  BY <1>1, <1>2, <1>4, SetupStays DEF IInv, DataInv
<1>9. PointInv' /\ ClientInv'
  BY <1>1, <1>2, SetupStays DEF IInv, PointInv, ClientInv, Reached
<1> QED BY <1>3, <1>5, <1>6, <1>7, <1>8, <1>9 DEF IInv

\* doPuts begins.
LEMMA DoPutsStartsStep == IInv /\ DoPutsStarts => IInv'
<1> SUFFICES ASSUME IInv, DoPutsStarts PROVE IInv'
  OBVIOUS
<1>1. /\ dp.at = "idle" /\ rec.puts = 1 /\ Resting /\ dly = {} /\ onces = 0 /\ proc = "idle"
      /\ rec.busy /\ ~rec.paus
  BY DEF DoPutsStarts, StartPuts, IInv, OneMover, FazeInv
<1>2. /\ UNCHANGED <<proc, cb, put, done, dly, onces, saving, owed, zeros, pauses, holds, setup>>
      /\ \/ /\ rec.dstate = "TRIG_ARRAY_READ"
            /\ dp' = [at |-> "array", todo |-> ArrayTriggers]
            /\ rec' = [rec EXCEPT !.puts = 0, !.dstate = "ARRAY_READ_WAIT"]
         \/ /\ rec.dstate # "TRIG_ARRAY_READ"
            /\ \/ dp'.at \in {"BEFORE_SCAN", "MOVE_MOTORS", "TRIG_DETCTRS", "RETRACE_MOVE",
                              "AFTER_SCAN_DO"} /\ dp'.at = rec.faze
               \/ dp'.at = "idle"
            /\ dp' = [at |-> dp'.at, todo |-> {}]
            /\ rec' = [rec EXCEPT !.puts = 0]
  <2>1. UNCHANGED <<proc, cb, put, done, dly, onces, saving, owed, zeros, pauses, holds, setup>>
    BY DEF DoPutsStarts, StartPuts, Goes, Writes, linkVars, clientVars, userVars
  <2>2. [rec EXCEPT !.puts = @ - 1] = [rec EXCEPT !.puts = 0]
    BY <1>1
  <2>3. [rec EXCEPT !.puts = @ - 1, !.dstate = "ARRAY_READ_WAIT"]
          = [rec EXCEPT !.puts = 0, !.dstate = "ARRAY_READ_WAIT"]
    BY <1>1
  <2>4. CASE rec.dstate = "TRIG_ARRAY_READ"
    BY <1>1, <2>1, <2>3, <2>4 DEF DoPutsStarts, StartPuts, Writes
  <2>5. CASE rec.dstate # "TRIG_ARRAY_READ"
    BY <1>1, <2>1, <2>2, <2>5 DEF DoPutsStarts, StartPuts, Goes
  <2> QED BY <2>4, <2>5
<1>3. /\ rec' \in Fields /\ rec'.puts = 0
      /\ UNCHANGED <<rec.xsc, rec.pxsc, rec.busy, rec.kill, rec.paus, rec.faze, rec.cpt, rec.cbs,
                     rec.gets, rec.wtng, rec.wcnt, rec.validBuf, rec.await, rec.userSetAWAIT,
                       rec.told>>
      /\ rec'.dstate = IF rec.dstate = "TRIG_ARRAY_READ" THEN "ARRAY_READ_WAIT" ELSE rec.dstate
  <2>1. CASE rec.dstate = "TRIG_ARRAY_READ"
    <3>1. rec' = [rec EXCEPT !.puts = 0, !.dstate = "ARRAY_READ_WAIT"] /\ rec \in Fields
      BY <1>2, <2>1 DEF IInv, Types
    <3> QED BY <2>1, <3>1 DEF Fields, NotPacked
  <2>2. CASE rec.dstate # "TRIG_ARRAY_READ"
    BY <1>2, <2>2 DEF IInv, Types, Fields
  <2> QED BY <2>1, <2>2
<1>4. /\ \A l \in Links : put[l] = None
      /\ ArrayTriggers \subseteq Links
  BY <1>1, QuietMeans, RecordIs DEF Resting, IInv, Types
<1>5. Types'
  <2>1. dp'.todo \subseteq LinksOf(dp'.at) /\ dp'.todo \subseteq Links
    BY <1>2, <1>4 DEF LinksOf
  <2>2. dp' = [at |-> dp'.at, todo |-> dp'.todo] /\
        dp'.at \in {"idle", "array", "BEFORE_SCAN", "MOVE_MOTORS", "TRIG_DETCTRS",
          "RETRACE_MOVE", "AFTER_SCAN_DO"}
    BY <1>2
  <2>3. dp' \in [at : Places, todo : SUBSET Links]
    BY <2>1, <2>2 DEF Places
  <2> QED BY <1>2, <1>3, <2>1, <2>3, SetupStays DEF IInv, Types
<1>6. /\ Quiet' /\ ~Saver' /\ ~rec'.wtng /\ cb'.at = "idle"
      /\ \A k : ~DpCase(k) /\ ~DpCase(k)'
      /\ \A k : Flying(k)' = Flying(k)
      /\ \A k \in Kinds : rec'.cbs[k] = 0
  BY <1>1, <1>2, <1>3, QuietIs, SetupStays DEF Quiet, Saver, DpCase, Resting
<1>7. OneMover'
  BY <1>1, <1>2, <1>3, <1>6 DEF OneMover
<1>8. CountInv'
  BY <1>1, <1>2, <1>3, <1>4, <1>6, FlyingIsNat DEF IInv, CountInv
<1>9. FazeInv'
  BY <1>1, <1>2, <1>3 DEF IInv, FazeInv
<1>10. DpInv'
  BY <1>1, <1>2, <1>3 DEF IInv, DpInv
<1>11. DataInv'
  BY <1>1, <1>2, <1>3, <1>6, SetupStays DEF IInv, DataInv
<1>12. PointInv'
  BY <1>1, <1>2, <1>3, SetupStays DEF IInv, PointInv, Reached, Moving, Reading
<1>13. ClientInv'
  BY <1>1, <1>2, <1>3, SetupStays DEF IInv, ClientInv
<1> QED BY <1>5, <1>7, <1>8, <1>9, <1>10, <1>11, <1>12, <1>13 DEF IInv

\* While doPuts is in a case nothing else carries the scan on.
LEMMA DoPutsActs ==
  ASSUME OneMover, FazeInv, DpActive
  PROVE  /\ rec.busy /\ proc = "idle" /\ onces = 0 /\ rec.puts = 0 /\ dly = {}
         /\ cb.at \notin {"last", "hold"} /\ ~rec.wtng /\ ~Saver
         /\ \A k \in Kinds : ~DpCase(k) => rec.cbs[k] = 0
  BY DEF OneMover, FazeInv, Resting

\* doPuts writes a link.
LEMMA PutLinkStep ==
  ASSUME NEW l \in Links, IInv, PutLink(l), OneThing(Record), NEW k, k = Kind(l) PROVE IInv'
<1>1. /\ l \in dp.todo /\ l \in LinksOf(dp.at) /\ put[l] = None /\ DpActive
      /\ dp.at \in {"moving", "retracing", "triggering", "array", "after"}
  BY DEF PutLink, IInv, Types, CountInv, LinksOf, DpActive
<1>2. /\ dp.at \in {"moving", "retracing"} => k = "pos" /\ l \in Positioners
      /\ dp.at = "triggering" => k = "trig" /\ l \in Triggers
      /\ dp.at = "array" => k = "arr" /\ ArrayTriggers = {l}
      /\ dp.at = "after" => k = "pos" /\ l = "after" /\ LinksOf("after") = {l}
      /\ (l = "after" <=> dp.at = "after")
  <2>1. /\ Triggers \cap (Positioners \cup ArrayTriggers) = {}
        /\ Positioners \cap ArrayTriggers = {}
        /\ {"before", "after"} \cap (Positioners \cup Triggers \cup ArrayTriggers) = {}
    BY RecordIs DEF IInv, Types
  <2>2. \A m \in ArrayTriggers : m = l \/ l \notin ArrayTriggers
    BY DEF OneThing, ArrayTriggers
  <2> QED BY <1>1, <2>1, <2>2 DEF LinksOf, Kind
<1>3. k \in PutKinds /\ k \in Kinds
  BY <1>1, <1>2 DEF PutKinds, Kinds
<1>4. /\ rec.busy /\ proc = "idle" /\ onces = 0 /\ rec.puts = 0 /\ dly = {}
      /\ cb.at \notin {"last", "hold"} /\ ~rec.wtng /\ ~Saver
      /\ \A j \in Kinds : ~DpCase(j) => rec.cbs[j] = 0
      /\ \A j \in Kinds : DpCase(j) => j = k
  BY <1>1, <1>2, DoPutsActs DEF IInv, DpCase
<1>5. PICK f \in Fazes, r \in Fields :
        /\ r = FazeOfPut /\ r.faze = f
        /\ r.xsc = rec.xsc /\ r.pxsc = rec.pxsc /\ r.busy = rec.busy /\ r.kill = rec.kill
        /\ r.paus = rec.paus /\ r.cpt = rec.cpt /\ r.puts = rec.puts /\ r.gets = rec.gets
        /\ r.dstate = rec.dstate /\ r.validBuf = rec.validBuf /\ r.await = rec.await
        /\ r.userSetAWAIT = rec.userSetAWAIT /\ r.told = rec.told /\ r.wtng = rec.wtng
        /\ r.wcnt = rec.wcnt /\ r.cbs = rec.cbs
        /\ f = CASE dp.at = "moving" -> "CHECK_MOTORS"
                  [] dp.at = "retracing" -> "RETRACE_WAIT"
                  [] OTHER -> rec.faze
  <2>1. PICK f \in Fazes : /\ FazeOfPut = [rec EXCEPT !.faze = f]
                          /\ f = CASE dp.at = "moving" -> "CHECK_MOTORS"
                                    [] dp.at = "retracing" -> "RETRACE_WAIT"
                                    [] OTHER -> rec.faze
    BY DEF FazeOfPut, IInv, Types, Fields, Fazes
  <2> QED BY <2>1 DEF IInv, Types, Fields
<1>6. /\ rec' \in Fields /\ rec'.faze = f
      /\ UNCHANGED <<rec.xsc, rec.pxsc, rec.busy, rec.kill, rec.paus, rec.cpt, rec.puts,
                     rec.gets, Data, rec.wtng, rec.wcnt>>
      /\ \/ rec'.cbs = [rec.cbs EXCEPT ![k] = @ + 1] /\ put' = [put EXCEPT ![l] = rec.cpt]
            /\ dp' = IF l = "after" THEN DpIdle ELSE [dp EXCEPT !.todo = @ \ {l}]
         \/ rec'.cbs = rec.cbs /\ put' = put /\ l \in Record.failing
            /\ dp' = [dp EXCEPT !.todo = @ \ {l}]
  <2>1. CASE PutAccepted(l) /\ dp' = IF l = "after" THEN DpIdle ELSE [dp EXCEPT !.todo = @ \ {l}]
    <3>1. /\ rec' = [r EXCEPT !.cbs = [r.cbs EXCEPT ![k] = @ + 1]]
          /\ put' = [put EXCEPT ![l] = rec.cpt]
      BY <2>1, <1>5 DEF PutAccepted
    <3>2. [r.cbs EXCEPT ![k] = @ + 1] \in [Kinds -> Int]
      BY <1>3 DEF Fields
    <3> QED BY <2>1, <1>5, <3>1, <3>2 DEF Fields, Data
  <2>2. CASE PutRefused(l) /\ dp' = [dp EXCEPT !.todo = @ \ {l}]
    <3>1. /\ rec' = [r EXCEPT !.cbs = [r.cbs EXCEPT !["arr"] = r.cbs["arr"]]]
          /\ put' = put /\ l \in Record.failing
      BY <1>1, <2>2, <1>5 DEF PutRefused
    <3>2. [r.cbs EXCEPT !["arr"] = r.cbs["arr"]] = r.cbs
      BY DEF Fields, Kinds
    <3> QED BY <2>2, <1>5, <3>1, <3>2 DEF Fields, Data
  <2> QED BY <2>1, <2>2 DEF PutLink
<1>7. UNCHANGED <<proc, cb, done, dly, onces, saving, owed, zeros, pauses, holds, setup>>
  BY DEF PutLink, clientVars, userVars
<1>8. /\ put' \in [Links -> Nat \cup {None}] /\ put'[l] \in {None, rec.cpt}
      /\ \A x \in Links \ {l} : put'[x] = put[x]
      /\ \A j \in PutKinds \ {k} : Flying(j)' = Flying(j)
      /\ Flying(k)' = IF put'[l] = None THEN Flying(k) ELSE Flying(k) \cup {l}
      /\ l \notin Flying(k)
  <2>1. /\ put' \in [Links -> Nat \cup {None}] /\ put'[l] \in {None, rec.cpt}
        /\ \A x \in Links \ {l} : put'[x] = put[x]
    BY <1>1, <1>6 DEF IInv, Types, Fields
  <2>2. \A x : Kind(x)' = Kind(x)
    BY <1>7, SetupStays
  <2> QED BY <1>1, <2>1, <2>2 DEF Flying
<1>9. IsFiniteSet(Flying(k)) /\ Cardinality(Flying(k)) \in Nat /\ IsFiniteSet(Flying(k) \cup {l})
      /\ Cardinality(Flying(k) \cup {l}) = Cardinality(Flying(k)) + 1
  BY <1>3, <1>8, FS_CardinalityType, FS_AddElement DEF IInv, Types
<1>10. /\ dp'.at \in {dp.at, "idle"} /\ dp'.todo = dp.todo \ {l}
       /\ (dp'.at = "idle" <=> l = "after" /\ put'[l] # None)
  BY <1>1, <1>2, <1>6 DEF DpIdle, IInv, Types, Fields, None
<1>11. Types'
  <2>1. \A j \in PutKinds : IsFiniteSet(Flying(j)')
    <3>1. \A j \in PutKinds \ {k} : IsFiniteSet(Flying(j)')
      BY <1>8 DEF IInv, Types
    <3>2. IsFiniteSet(Flying(k)')
      BY <1>8, <1>9
    <3> QED BY <3>1, <3>2
  <2>2. dp'.todo \subseteq LinksOf(dp'.at)
    <3>1. CASE dp'.at = dp.at
      BY <1>10, <3>1 DEF IInv, Types
    <3>2. CASE dp'.at = "idle"
      BY <1>2, <1>10, <3>2 DEF IInv, Types
    <3> QED BY <1>10, <3>1, <3>2
  <2>3. dp' \in [at : Places, todo : SUBSET Links]
    BY <1>6 DEF IInv, Types, DpIdle, Places
  <2> QED BY <1>6, <1>7, <1>8, <2>1, <2>2, <2>3, SetupStays DEF IInv, Types
<1>12. /\ ~Saver' /\ (DpActive' => DpActive)
       /\ (DpActive' <=> ~(dp'.at = "idle" \/ dp'.at = "array"))
       /\ \A j \in Kinds : (DpCase(j)' <=> DpCase(j))
       /\ \A j \in Kinds \ {k} : rec'.cbs[j] = 0
       /\ rec'.cbs[k] = rec.cbs[k] + (IF put'[l] = None THEN 0 ELSE 1)
  <2>1. ~Saver'
    BY <1>4, <1>6 DEF Saver, Data
  <2>2. dp'.at = "array" => dp'.todo = {}
    BY <1>2, <1>10 DEF IInv, Types, LinksOf
  <2>3. \A j \in Kinds : (DpCase(j)' <=> DpCase(j))
    BY <1>1, <1>2, <1>10 DEF DpCase
  <2>4. \A j \in Kinds \ {k} : rec'.cbs[j] = 0
    BY <1>4, <1>6 DEF IInv, Types, Fields
  <2>5. rec'.cbs[k] = rec.cbs[k] + (IF put'[l] = None THEN 0 ELSE 1)
    BY <1>1, <1>3, <1>6 DEF IInv, Types, Fields, None
  <2> QED BY <1>1, <2>1, <2>2, <2>3, <2>4, <2>5, <1>10 DEF DpActive
<1>13. OneMover'
  <2>1. DpActive' => DpCase(k)' \/ dp'.at = "after"
    BY <1>1, <1>2, <1>3, <1>10, <1>12 DEF DpCase
  <2>2. dp'.at = "after" => rec'.cbs[k] = 0
    BY <1>1, <1>2, <1>3, <1>4, <1>10, <1>12 DEF DpCase
  <2> QED BY <1>4, <1>6, <1>7, <1>12, <2>1, <2>2 DEF OneMover
<1>14. CountInv'
  <2>1. ASSUME NEW j \in PutKinds
        PROVE  rec'.cbs[j] = Cardinality(Flying(j)') + (IF DpCase(j)' THEN 1 ELSE 0)
                             + (IF cb'.at = "counted" /\ cb'.kind = j THEN 1 ELSE 0)
    <3>1. rec.cbs[j] = Cardinality(Flying(j)) + (IF DpCase(j) THEN 1 ELSE 0)
                       + (IF cb.at = "counted" /\ cb.kind = j THEN 1 ELSE 0)
      BY DEF IInv, CountInv
    <3>2. CASE j # k
      <4>1. rec'.cbs[j] = rec.cbs[j]
        BY <1>6, <3>2, <2>1 DEF IInv, Types, Fields, Kinds
      <4> QED BY <1>7, <1>8, <1>12, <3>1, <3>2, <4>1 DEF Kinds
    <3>3. CASE j = k /\ put'[l] = None
      BY <1>3, <1>7, <1>8, <1>12, <3>1, <3>3 DEF IInv, Types, Fields
    <3>4. CASE j = k /\ put'[l] # None
      <4>1. rec'.cbs[k] = rec.cbs[k] + 1 /\ Cardinality(Flying(k)') = Cardinality(Flying(k)) + 1
        BY <1>8, <1>9, <1>12, <3>4
      <4> QED BY <1>3, <1>7, <1>9, <1>12, <3>1, <3>4, <4>1
    <3> QED BY <3>2, <3>3, <3>4
  <2>2. rec'.cbs["get"] = rec.cbs["get"] /\ rec'.gets = rec.gets
    BY <1>3, <1>6 DEF PutKinds, IInv, Types, Fields, Kinds
  <2>3. \A x \in dp'.todo : put'[x] = None
    BY <1>8, <1>10 DEF IInv, CountInv, Types
  <2> QED BY <1>7, <2>1, <2>2, <2>3 DEF IInv, CountInv
<1>15. FazeInv' /\ DpInv'
  <2>1. FazeInv'
    BY <1>1, <1>4, <1>5, <1>6, <1>7 DEF IInv, FazeInv, DpInv, Data, Moving, Before, Reading, After
  <2>2. DpInv'
    BY <1>1, <1>2, <1>5, <1>6, <1>10 DEF IInv, DpInv, Data
  <2> QED BY <2>1, <2>2
<1>16. DataInv'
  <2>1. dp.at # "array" => rec.dstate \in {"UNPACKED", "POSTED"}
    BY <1>1 DEF IInv, DpInv, DataInv
  <2>2. dp.at = "array" => rec.dstate = "ARRAY_READ_WAIT" /\ f = rec.faze /\ rec.faze = "SCAN_DONE"
    BY <1>1, <1>5 DEF IInv, DpInv, DataInv
  <2>3. dp.at = "array" /\ put'[l] = None => rec'.cbs = rec.cbs /\ ~(DpCase(k))
    BY <1>1, <1>6, <1>2 DEF IInv, Types, Fields, DpCase, None
  <2>4. dp.at = "array" /\ put'[l] = None => (Quiet' <=> Quiet)
    BY <2>3, QuietIs
  <2>5. /\ rec'.dstate = rec.dstate /\ rec'.await = rec.await /\ rec'.told = rec.told
        /\ rec'.puts = rec.puts /\ rec'.wtng = rec.wtng /\ rec'.cbs["get"] = rec.cbs["get"]
    BY <1>3, <1>6 DEF Data, PutKinds, IInv, Types, Fields, Kinds
  <2>6. rec'.dstate = "ARRAY_READ_WAIT"
          /\ (~Quiet' \/ proc' # "idle" \/ onces' # 0 \/ dly' # {} \/ rec'.wtng
              \/ cb'.at \in {"last", "hold"} \/ dp'.at = "hold")
        => \A x \in ArrayTriggers : put'[x] # None \/ done'[x] # Stale
    BY <1>1, <1>2, <1>4, <1>7, <1>10, <2>1, <2>2, <2>4, <2>5 DEF IInv, DataInv
  <2>7. rec'.dstate \notin {"UNPACKED", "POSTED"} => rec'.faze = "SCAN_DONE"
    BY <1>6, <2>1, <2>2, <2>5
  <2> QED BY <1>4, <1>7, <2>5, <2>6, <2>7, SetupStays DEF IInv, DataInv
<1>17. PointInv'
  <2>1. /\ Positioners \subseteq Links /\ Triggers \subseteq Links
    BY RecordIs DEF IInv, Types
  <2>2. \A x \in Links \ {l} : Reached(x)' <=> Reached(x)
    BY <1>6, <1>7, <1>8 DEF Reached
  <2>3. l \notin Record.failing => Reached(l)'
    BY <1>1, <1>6, <1>7 DEF Reached, IInv, Types
  <2>4. Reached(l) => Reached(l)'
    BY <1>1, <1>6, <1>7 DEF Reached, IInv, Types, Fields, None
  <2> QED BY <1>1, <1>2, <1>5, <1>6, <1>7, <1>8, <1>10, <2>1, <2>2, <2>3, <2>4, SetupStays
          DEF IInv, PointInv, DpInv, Moving, Reading
<1>18. ClientInv'
  <2> SUFFICES ASSUME Waits PROVE ClientInv'
    BY <1>7, SetupStays DEF ClientInv
  <2>1. owed' = rec'.wcnt
    BY <1>6, <1>7 DEF IInv, ClientInv
  <2>2. ASSUME rec.wcnt # 0 PROVE dp.at = "triggering"
    BY <1>1, <2>2 DEF IInv, ClientInv, DpInv, DataInv
  <2>3. ASSUME rec.wcnt # 0 PROVE k = "trig" /\ f = rec.faze
    BY <1>2, <1>5, <2>2, <2>3
  <2> QED BY <1>4, <1>6, <1>7, <1>12, <2>1, <2>3 DEF IInv, ClientInv
<1> QED BY <1>11, <1>13, <1>14, <1>15, <1>16, <1>17, <1>18 DEF IInv

\* Where doPuts has not preset a count, nothing is in progress.
LEMMA NothingFlies ==
  ASSUME IInv, dp.at \notin {"idle", "array", "moving", "retracing", "triggering"}
  PROVE  /\ rec.busy /\ proc = "idle" /\ onces = 0 /\ rec.puts = 0 /\ dly = {} /\ cb.at = "idle"
         /\ ~rec.wtng /\ ~Saver /\ Quiet /\ (\A k \in Kinds : rec.cbs[k] = 0)
         /\ (\A l \in Links : put[l] = None) /\ rec.gets = {} /\ \A k : Flying(k) = {}
<1>1. DpActive /\ \A k : ~DpCase(k)
  BY DEF DpActive, DpCase
<1>2. /\ rec.busy /\ proc = "idle" /\ onces = 0 /\ rec.puts = 0 /\ dly = {}
      /\ cb.at \notin {"last", "hold"} /\ ~rec.wtng /\ ~Saver
      /\ \A k \in Kinds : rec.cbs[k] = 0
  BY <1>1, DoPutsActs DEF IInv
<1>3. Quiet
  BY <1>2, QuietIs
<1>4. (\A l \in Links : put[l] = None) /\ rec.gets = {} /\ cb.at # "counted"
  BY <1>3, QuietMeans DEF IInv
<1>5. \A k : Flying(k) = {}
  BY <1>4 DEF Flying
<1> QED BY <1>2, <1>3, <1>4, <1>5 DEF IInv, Types

\* doPuts presets a count, and has then all links of that kind to write.
LEMMA PresetStep ==
  ASSUME IInv, NEW at, NEW k,
         \/ dp.at = "MOVE_MOTORS" /\ at = "moving" /\ k = "pos"
         \/ dp.at = "trigger" /\ at = "triggering" /\ k = "trig"
         \/ dp.at = "RETRACE_MOVE" /\ at = "retracing" /\ k = "pos",
         dp' = [at |-> at, todo |-> LinksOf(at)], rec' = [rec EXCEPT !.cbs[k] = 1],
         UNCHANGED <<proc, cb, put, done, dly, onces, saving, owed, zeros, pauses, holds, setup>>
  PROVE  IInv'
<1>1. /\ rec.busy /\ proc = "idle" /\ onces = 0 /\ rec.puts = 0 /\ dly = {} /\ cb.at = "idle"
      /\ ~rec.wtng /\ ~Saver /\ Quiet /\ (\A j \in Kinds : rec.cbs[j] = 0)
      /\ (\A l \in Links : put[l] = None) /\ rec.gets = {} /\ \A j : Flying(j) = {}
  BY NothingFlies
<1>2. /\ rec' \in Fields /\ rec'.cbs[k] = 1 /\ k \in PutKinds /\ k \in Kinds
      /\ UNCHANGED <<rec.xsc, rec.pxsc, rec.busy, rec.kill, rec.paus, rec.faze, rec.cpt, rec.puts,
                     rec.gets, rec.wtng, rec.wcnt, Data>>
      /\ \A j \in Kinds \ {k} : rec'.cbs[j] = 0
  <2>1. k \in PutKinds /\ k \in Kinds
    BY DEF PutKinds, Kinds
  <2>2. [rec.cbs EXCEPT ![k] = 1] \in [Kinds -> Int]
          /\ rec' = [rec EXCEPT !.cbs = [rec.cbs EXCEPT ![k] = 1]]
    BY <2>1 DEF IInv, Types, Fields
  <2>3. /\ rec' \in Fields /\ rec'.cbs = [rec.cbs EXCEPT ![k] = 1]
        /\ UNCHANGED <<rec.xsc, rec.pxsc, rec.busy, rec.kill, rec.paus, rec.faze, rec.cpt,
                       rec.puts, rec.gets, rec.wtng, rec.wcnt, Data>>
    BY <2>2 DEF IInv, Types, Fields, Data
  <2>4. rec.cbs \in [Kinds -> Int]
    BY DEF IInv, Types, Fields
  <2>5. rec'.cbs[k] = 1 /\ \A j \in Kinds \ {k} : rec'.cbs[j] = rec.cbs[j]
    BY <2>1, <2>3, <2>4
  <2>6. \A j \in Kinds \ {k} : rec'.cbs[j] = 0
    BY <1>1, <2>5
  <2> QED BY <2>1, <2>3, <2>5, <2>6
<1>3. /\ DpActive' /\ ~Saver' /\ ~Quiet'
      /\ \A j \in Kinds : (DpCase(j)' <=> j = k)
      /\ \A j : Flying(j)' = {}
      /\ LinksOf(at) \subseteq Links
  <2>1. LinksOf(at) \subseteq Links
    BY RecordIs DEF IInv, Types, LinksOf
  <2>2. ~Quiet'
    BY <1>2, QuietIs
  <2> QED BY <1>1, <1>2, <2>1, <2>2, SetupStays DEF DpActive, Saver, DpCase, Data, Kinds, PutKinds
<1>4. Types'
  <2>1. \A j \in PutKinds : IsFiniteSet(Flying(j)')
    BY <1>3, FS_EmptySet
  <2>2. dp' \in [at : Places, todo : SUBSET Links] /\ dp'.todo \subseteq LinksOf(dp'.at)
    BY <1>3 DEF Places
  <2> QED BY <1>2, <1>3, <2>1, <2>2, SetupStays DEF IInv, Types
<1>5. OneMover'
  BY <1>1, <1>2, <1>3 DEF OneMover
<1>6. CountInv'
  <2>1. Cardinality({}) = 0
    BY FS_EmptySet
  <2>2. \A j \in PutKinds :
          rec'.cbs[j] = Cardinality(Flying(j)') + (IF DpCase(j)' THEN 1 ELSE 0) + 0
    BY <1>2, <1>3, <2>1 DEF Kinds
  <2>3. rec'.cbs["get"] = Cardinality(rec'.gets)
    BY <1>1, <1>2, <2>1 DEF Kinds, PutKinds
  <2> QED BY <1>1, <1>3, <2>2, <2>3 DEF CountInv
<1>7. FazeInv' /\ DpInv'
  BY <1>1, <1>2 DEF IInv, FazeInv, DpInv, Data
<1>8. DataInv'
  <2>1. rec.dstate \in {"UNPACKED", "POSTED"}
    BY DEF IInv, DataInv, DpInv, FazeInv
  <2> QED BY <1>2, <2>1, SetupStays DEF IInv, DataInv, Data
<1>9. PointInv'
  BY <1>2, SetupStays DEF IInv, PointInv, Reached, DpInv, Reading, Moving, LinksOf
<1>10. ClientInv'
  BY <1>2, SetupStays DEF IInv, ClientInv, DpInv
<1> QED BY <1>4, <1>5, <1>6, <1>7, <1>8, <1>9, <1>10 DEF IInv

\* doPuts goes on without a count: to a link that is written, or to the next case.
LEMMA CaseStep ==
  ASSUME IInv, NEW faze \in Fazes,
         \/ dp.at = "BEFORE_SCAN" /\ dp' = [at |-> "before", todo |-> {}] /\ faze = rec.faze
         \/ dp.at = "before" /\ dp' = [at |-> "MOVE_MOTORS", todo |-> {}] /\ faze = "MOVE_MOTORS"
         \/ dp.at = "AFTER_SCAN_DO" /\ dp' = [at |-> "after", todo |-> {}] /\ faze = rec.faze
         \/ dp.at = "AFTER_SCAN_DO" /\ dp' = [at |-> "after", todo |-> {"after"}]
            /\ faze = "AFTER_SCAN_WAIT"
         \/ dp.at = "triggered" /\ dp' = [at |-> "hold", todo |-> {}] /\ faze = rec.faze,
         rec' = [rec EXCEPT !.faze = faze],
         UNCHANGED <<proc, cb, put, done, dly, onces, saving, owed, zeros, pauses, holds, setup>>
  PROVE  IInv'
<1>1. /\ rec.busy /\ proc = "idle" /\ onces = 0 /\ rec.puts = 0 /\ dly = {} /\ cb.at = "idle"
      /\ ~rec.wtng /\ ~Saver /\ Quiet /\ (\A j \in Kinds : rec.cbs[j] = 0)
      /\ (\A l \in Links : put[l] = None) /\ rec.gets = {} /\ \A j : Flying(j) = {}
  BY NothingFlies
<1>2. /\ rec' \in Fields /\ rec'.faze = faze
      /\ UNCHANGED <<rec.xsc, rec.pxsc, rec.busy, rec.kill, rec.paus, rec.cpt, rec.puts, rec.cbs,
                     rec.gets, rec.wtng, rec.wcnt, Data>>
  BY DEF IInv, Types, Fields, Data
<1>3. /\ DpActive' /\ ~Saver' /\ Quiet'
      /\ \A j : ~DpCase(j) /\ ~DpCase(j)'
      /\ \A j : Flying(j)' = Flying(j)
  BY <1>1, <1>2, SetupStays DEF DpActive, Saver, DpCase, Data, Quiet
<1>4. Types'
  <2>1. "after" \in Links
    BY RecordIs DEF IInv, Types
  <2>2. dp'.todo \subseteq LinksOf(dp'.at) /\ dp' \in [at : Places, todo : SUBSET Links]
    BY <2>1 DEF LinksOf, Places
  <2> QED BY <1>2, <1>3, <2>2, SetupStays DEF IInv, Types, Places
<1>5. OneMover'
  BY <1>1, <1>2, <1>3 DEF OneMover
<1>6. CountInv'
  <2>1. \A l \in dp'.todo : put'[l] = None
    <3>1. "after" \in Links
      BY RecordIs DEF IInv, Types
    <3> QED BY <1>1, <3>1
  <2>2. /\ \A j \in PutKinds : rec'.cbs[j] = rec.cbs[j] /\ Flying(j)' = Flying(j)
        /\ rec'.cbs["get"] = rec.cbs["get"] /\ rec'.gets = rec.gets /\ cb'.at = "idle"
    BY <1>1, <1>2, <1>3
  <2>3. \A j \in PutKinds : rec.cbs[j] = Cardinality(Flying(j)) + 0 + 0
    BY <1>1, <1>3 DEF IInv, CountInv
  <2>4. \A j \in PutKinds : rec'.cbs[j] = Cardinality(Flying(j)') + 0 + 0
    BY <2>2, <2>3
  <2>5. rec'.cbs["get"] = Cardinality(rec'.gets)
    BY <2>2 DEF IInv, CountInv
  <2> QED BY <1>3, <2>1, <2>2, <2>4, <2>5 DEF CountInv
<1>7. FazeInv' /\ DpInv'
  <2>1. FazeInv'
    BY <1>1, <1>2 DEF IInv, FazeInv, DpInv, Data, Before, Moving, Reading, After
  <2>2. DpInv'
    BY <1>2 DEF IInv, DpInv, Data
  <2> QED BY <2>1, <2>2
<1>8. DataInv'
  <2>1. rec.dstate \in {"UNPACKED", "POSTED"}
    BY DEF IInv, DataInv, DpInv, FazeInv
  <2> QED BY <1>2, <2>1, SetupStays DEF IInv, DataInv, Data
<1>9. PointInv'
  BY <1>2, SetupStays DEF IInv, PointInv, Reached, DpInv, Reading, Moving
<1>10. ClientInv'
  BY <1>2, SetupStays DEF IInv, ClientInv, DpInv
<1> QED BY <1>4, <1>5, <1>6, <1>7, <1>8, <1>9, <1>10 DEF IInv

\* doPuts takes the preset out of a count.
LEMMA PresetOutStep ==
  ASSUME IInv, dp.todo = {}, NEW at, NEW k, NEW faze \in Fazes,
         \/ dp.at = "moving" /\ at = "TRIG_DETCTRS" /\ k = "pos" /\ faze = rec.faze
         \/ dp.at = "triggering" /\ at = "triggered" /\ k = "trig" /\ faze = rec.faze
         \/ dp.at = "retracing" /\ at = "AFTER_SCAN_DO" /\ k = "pos" /\ faze = "AFTER_SCAN_DO",
         TakePresetOut(k, at, [rec EXCEPT !.faze = faze]),
         UNCHANGED <<proc, cb, put, done, dly, onces, saving, owed, zeros, pauses, holds, setup>>
  PROVE  IInv'
<1>1. k \in PutKinds /\ k \in Kinds /\ DpActive /\ \A j \in Kinds : (DpCase(j) <=> j = k)
  BY DEF PutKinds, Kinds, DpActive, DpCase
<1>2. /\ rec.busy /\ proc = "idle" /\ onces = 0 /\ rec.puts = 0 /\ dly = {}
      /\ cb.at \notin {"last", "hold"} /\ ~rec.wtng /\ ~Saver
      /\ \A j \in Kinds \ {k} : rec.cbs[j] = 0
  BY <1>1, DoPutsActs DEF IInv
<1>3. /\ rec.cbs[k] \in Nat \ {0} /\ Cardinality(Flying(k)) \in Nat
      /\ rec.cbs[k] - 1 = Cardinality(Flying(k))
           + (IF cb.at = "counted" /\ cb.kind = k THEN 1 ELSE 0)
  BY <1>1, FlyingIsNat DEF IInv, CountInv
<1>4. /\ rec' \in Fields /\ rec'.cbs = [rec.cbs EXCEPT ![k] = rec.cbs[k] - 1]
      /\ UNCHANGED <<rec.xsc, rec.pxsc, rec.busy, rec.kill, rec.paus, rec.cpt, rec.puts,
                     rec.gets, rec.wtng, rec.wcnt, Data>>
      /\ \/ rec.cbs[k] # 1 /\ dp' = [at |-> "idle", todo |-> {}] /\ rec'.faze = rec.faze
         \/ rec.cbs[k] = 1 /\ dp' = [at |-> at, todo |-> {}] /\ rec'.faze = faze
  <2>1. [rec.cbs EXCEPT ![k] = rec.cbs[k] - 1] \in [Kinds -> Int] /\ rec \in Fields
    BY <1>1 DEF IInv, Types, Fields
  <2>2. CASE rec.cbs[k] > 1
    <3>1. rec' = [rec EXCEPT !.cbs = [rec.cbs EXCEPT ![k] = rec.cbs[k] - 1]]
            /\ dp' = [at |-> "idle", todo |-> {}]
      BY <2>2 DEF TakePresetOut, Goes
    <3> QED BY <1>3, <2>1, <2>2, <3>1 DEF Fields, Data
  <2>3. CASE ~(rec.cbs[k] > 1)
    <3>1. PICK q \in Fields : q = [rec EXCEPT !.faze = faze] /\ q.faze = faze /\ q.cbs = rec.cbs
            /\ q.xsc = rec.xsc /\ q.pxsc = rec.pxsc /\ q.busy = rec.busy /\ q.kill = rec.kill
            /\ q.paus = rec.paus /\ q.cpt = rec.cpt /\ q.puts = rec.puts /\ q.gets = rec.gets
            /\ q.dstate = rec.dstate /\ q.validBuf = rec.validBuf /\ q.await = rec.await
            /\ q.userSetAWAIT = rec.userSetAWAIT /\ q.told = rec.told /\ q.wtng = rec.wtng
            /\ q.wcnt = rec.wcnt
      BY <2>1 DEF Fields
    <3>2. rec' = [q EXCEPT !.cbs = [rec.cbs EXCEPT ![k] = rec.cbs[k] - 1]]
            /\ dp' = [at |-> at, todo |-> {}]
      BY <2>3, <3>1 DEF TakePresetOut, Goes
    <3>3. rec.cbs[k] = 1
      BY <1>3, <2>3
    <3>4. /\ rec' \in Fields /\ rec'.cbs = [rec.cbs EXCEPT ![k] = rec.cbs[k] - 1]
          /\ UNCHANGED <<rec.xsc, rec.pxsc, rec.busy, rec.kill, rec.paus, rec.cpt, rec.puts,
                         rec.gets, rec.wtng, rec.wcnt, Data>>
          /\ rec'.faze = faze
      BY <2>1, <3>1, <3>2 DEF Fields, Data
    <3> QED BY <3>2, <3>3, <3>4
  <2> QED BY <2>2, <2>3
<1>5. rec'.cbs[k] = rec.cbs[k] - 1 /\ \A j \in Kinds \ {k} : rec'.cbs[j] = 0
  BY <1>1, <1>2, <1>4 DEF IInv, Types, Fields
<1>6. /\ ~Saver' /\ (DpActive' <=> rec.cbs[k] = 1) /\ (Quiet' <=> rec.cbs[k] = 1)
      /\ (\A j : ~DpCase(j)') /\ (\A j : Flying(j)' = Flying(j))
  <2>1. Quiet' <=> rec.cbs[k] = 1
    BY <1>1, <1>3, <1>5, QuietIs
  <2> QED BY <1>2, <1>4, <2>1, SetupStays DEF DpActive, Saver, DpCase, Data
<1>7. Types'
  <2>1. dp' \in [at : Places, todo : SUBSET Links] /\ dp'.todo = {}
    BY <1>4 DEF Places
  <2> QED BY <1>4, <1>6, <2>1, SetupStays DEF IInv, Types
<1>8. OneMover'
  <2>1. rec.cbs[k] = 1 => rec'.cbs[k] = 0
    BY <1>5
  <2> QED BY <1>2, <1>4, <1>5, <1>6, <2>1 DEF OneMover
<1>9. CountInv'
  <2>1. ASSUME NEW j \in PutKinds, j # k
        PROVE  rec'.cbs[j] = Cardinality(Flying(j)') + 0
                 + (IF cb'.at = "counted" /\ cb'.kind = j THEN 1 ELSE 0)
    <3>1. rec.cbs[j] = Cardinality(Flying(j)) + 0
            + (IF cb.at = "counted" /\ cb.kind = j THEN 1 ELSE 0)
      BY <1>1, <2>1 DEF IInv, CountInv, Kinds
    <3>2. rec'.cbs[j] = rec.cbs[j]
      BY <1>2, <1>5, <2>1 DEF Kinds
    <3> QED BY <1>6, <2>1, <3>1, <3>2
  <2>2. rec'.cbs[k] = Cardinality(Flying(k)') + 0
          + (IF cb'.at = "counted" /\ cb'.kind = k THEN 1 ELSE 0)
    BY <1>3, <1>5, <1>6
  <2>3. rec'.cbs["get"] = Cardinality(rec'.gets)
    <3>1. rec'.cbs["get"] = rec.cbs["get"]
      BY <1>1, <1>2, <1>5 DEF Kinds, PutKinds
    <3> QED BY <1>4, <3>1 DEF IInv, CountInv
  <2> QED BY <1>4, <1>6, <2>1, <2>2, <2>3 DEF IInv, CountInv
<1>10. FazeInv'
  BY <1>2, <1>4 DEF IInv, FazeInv, DpInv, Data, Before, Moving, Reading, After
<1>11. DpInv'
  BY <1>4 DEF IInv, DpInv
<1>12. DataInv'
  <2>1. rec.dstate \in {"UNPACKED", "POSTED"}
    BY DEF IInv, DataInv, DpInv, FazeInv
  <2> QED BY <1>4, <2>1, SetupStays DEF IInv, DataInv, Data
<1>13. PointInv'
  <2>1. \A l : Reached(l)' <=> Reached(l)
    BY <1>4 DEF Reached
  <2>2. dp'.at \in {"idle", at} /\ dp'.at \notin {"moving", "triggering"}
    BY <1>4
  <2> QED BY <1>4, <2>1, <2>2, SetupStays DEF IInv, PointInv, DpInv, Reading, Moving
<1>14. ClientInv'
  <2>1. ASSUME Waits, rec.wcnt # 0
        PROVE  k = "trig" /\ rec'.faze = rec.faze /\ \A j \in Kinds \ {"trig"} : rec'.cbs[j] = 0
    BY <1>4, <1>5, <2>1 DEF IInv, ClientInv, DpInv
  <2> QED BY <1>4, <2>1, SetupStays DEF IInv, ClientInv
<1> QED BY <1>7, <1>8, <1>9, <1>10, <1>11, <1>12, <1>13, <1>14 DEF IInv

\* doPuts has the record processed, at once or after a delay.
DoPutsRequests(faze, n) ==
  /\ dp' = [at |-> "idle", todo |-> {}]
  /\ rec' = [rec EXCEPT !.faze = faze, !.wcnt = n] /\ owed' \in Nat
  /\ \/ /\ dp.at = "TRIG_DETCTRS" /\ faze = "READ_DETCTRS" /\ Triggers = {}
        /\ n = (IF Record.awct > 0 THEN Record.awct ELSE rec.wcnt) /\ owed' = owed + Record.awct
        /\ ("ddly" \in Delays => onces' = 0)
     \/ /\ dp.at = "triggered" /\ faze = rec.faze /\ n = rec.wcnt /\ owed' = owed
        /\ (n # 0 => onces' = 0)
     \/ dp.at = "after" /\ faze = "SCAN_DONE" /\ n = rec.wcnt /\ owed' = owed
  /\ \/ dly' = {"running"} /\ onces' = 0
     \/ dly' = {} /\ onces' = 1
  /\ UNCHANGED <<proc, cb, put, done, saving, zeros, pauses, holds, setup>>

\* doPuts asks for the record to be processed.
LEMMA RequestStep ==
  ASSUME IInv, NEW faze \in Fazes, NEW n \in Nat, DoPutsRequests(faze, n) PROVE IInv'
<1>0. DoPutsRequests(faze, n)
  OBVIOUS
<1> USE DEF DoPutsRequests
<1>1. /\ rec.busy /\ proc = "idle" /\ onces = 0 /\ rec.puts = 0 /\ dly = {} /\ cb.at = "idle"
      /\ ~rec.wtng /\ ~Saver /\ Quiet /\ (\A j \in Kinds : rec.cbs[j] = 0)
      /\ (\A l \in Links : put[l] = None) /\ rec.gets = {} /\ \A j : Flying(j) = {}
  BY NothingFlies
<1>2. /\ rec' \in Fields /\ rec'.faze = faze /\ rec'.wcnt = n
      /\ UNCHANGED <<rec.xsc, rec.pxsc, rec.busy, rec.kill, rec.paus, rec.cpt, rec.puts, rec.cbs,
                     rec.gets, rec.wtng, Data>>
  BY DEF IInv, Types, Fields, Data
<1>3. /\ ~DpActive' /\ ~Saver' /\ Quiet'
      /\ \A j : ~DpCase(j) /\ ~DpCase(j)'
      /\ \A j : Flying(j)' = Flying(j)
  BY <1>1, <1>2, SetupStays DEF DpActive, Saver, DpCase, Data, Quiet
<1>4. Types'
  BY <1>2, <1>3, SetupStays DEF IInv, Types, Places
<1>5. OneMover'
  BY <1>1, <1>2, <1>3 DEF OneMover, Resting
<1>6. CountInv'
  <2>1. \A j \in PutKinds : rec'.cbs[j] = Cardinality(Flying(j)') + 0 + 0
    <3>1. \A j \in PutKinds : rec.cbs[j] = Cardinality(Flying(j)) + 0 + 0
      BY <1>1, <1>3 DEF IInv, CountInv
    <3> QED BY <1>2, <1>3, <3>1
  <2>2. rec'.cbs["get"] = Cardinality(rec'.gets)
    BY <1>2 DEF IInv, CountInv
  <2> QED BY <1>1, <1>3, <2>1, <2>2 DEF CountInv
<1>7. FazeInv' /\ DpInv'
  BY <1>1, <1>2 DEF IInv, FazeInv, DpInv, Data, Before, Moving, Reading, After
<1>8. DataInv'
  <2>1. rec.dstate \in {"UNPACKED", "POSTED"}
    BY DEF IInv, DataInv, DpInv, FazeInv
  <2> QED BY <1>2, <2>1, SetupStays DEF IInv, DataInv, Data
<1>9. PointInv'
  BY <1>2, SetupStays DEF IInv, PointInv, Reached, DpInv, Reading, Moving
<1>10. ClientInv'
  <2> SUFFICES ASSUME Waits PROVE ClientInv'
    BY SetupStays DEF ClientInv
  <2>1. dp.at # "triggered" => rec.wcnt = 0 /\ owed = 0
    BY DEF IInv, ClientInv, DpInv
  <2>2. Record.awct \in Nat
    BY RecordIs DEF IInv, Types
  <2>3. CASE dp.at = "TRIG_DETCTRS"
    <3>1. owed' = n /\ (n # 0 => onces' = 0 /\ faze = "READ_DETCTRS")
      BY <2>1, <2>2, <2>3 DEF Waits
    <3> QED BY <1>1, <1>2, <3>1 DEF ClientInv
  <2>4. CASE dp.at # "TRIG_DETCTRS"
    <3>1. owed' = n /\ (n # 0 => onces' = 0 /\ faze = "READ_DETCTRS")
      BY <2>1, <2>4 DEF IInv, ClientInv
    <3> QED BY <1>1, <1>2, <3>1 DEF ClientInv
  <2> QED BY <2>3, <2>4
<1> QED BY <1>4, <1>5, <1>6, <1>7, <1>8, <1>9, <1>10 DEF IInv

\* doPuts begins to trigger the detectors.
LEMMA TriggerStep ==
  ASSUME IInv, dp.at = "TRIG_DETCTRS", Triggers # {}, dp' = [at |-> "trigger", todo |-> {}],
         NEW n \in Nat, n = (IF Record.awct > 0 THEN Record.awct ELSE rec.wcnt),
         rec' = [rec EXCEPT !.faze = "READ_DETCTRS", !.wcnt = n], owed' = owed + Record.awct,
         UNCHANGED <<proc, cb, put, done, dly, onces, saving, zeros, pauses, holds, setup>>
  PROVE  IInv'
<1>1. /\ rec.busy /\ proc = "idle" /\ onces = 0 /\ rec.puts = 0 /\ dly = {} /\ cb.at = "idle"
      /\ ~rec.wtng /\ ~Saver /\ Quiet /\ (\A j \in Kinds : rec.cbs[j] = 0)
      /\ (\A l \in Links : put[l] = None) /\ rec.gets = {} /\ \A j : Flying(j) = {}
  BY NothingFlies
<1>2. /\ rec' \in Fields /\ rec'.faze = "READ_DETCTRS" /\ rec'.wcnt = n
      /\ UNCHANGED <<rec.xsc, rec.pxsc, rec.busy, rec.kill, rec.paus, rec.cpt, rec.puts, rec.cbs,
                     rec.gets, rec.wtng, Data>>
  BY DEF IInv, Types, Fields, Data, Fazes
<1>3. /\ DpActive' /\ ~Saver' /\ Quiet'
      /\ \A j : ~DpCase(j) /\ ~DpCase(j)'
      /\ \A j : Flying(j)' = Flying(j)
  BY <1>1, <1>2, SetupStays DEF DpActive, Saver, DpCase, Data, Quiet
<1>4. Record.awct \in Nat /\ owed \in Nat
  BY RecordIs DEF IInv, Types
<1>5. Types'
  BY <1>2, <1>3, <1>4, SetupStays DEF IInv, Types, Places
<1>6. OneMover'
  BY <1>1, <1>2, <1>3 DEF OneMover
<1>7. CountInv'
  <2>1. \A j \in PutKinds : rec'.cbs[j] = Cardinality(Flying(j)') + 0 + 0
    <3>1. \A j \in PutKinds : rec.cbs[j] = Cardinality(Flying(j)) + 0 + 0
      BY <1>1, <1>3 DEF IInv, CountInv
    <3> QED BY <1>2, <1>3, <3>1
  <2>2. rec'.cbs["get"] = Cardinality(rec'.gets)
    BY <1>2 DEF IInv, CountInv
  <2> QED BY <1>1, <1>3, <2>1, <2>2 DEF CountInv
<1>8. FazeInv' /\ DpInv'
  BY <1>1, <1>2 DEF IInv, FazeInv, DpInv, Data, Before, Moving, Reading, After
<1>9. DataInv'
  <2>1. rec.dstate \in {"UNPACKED", "POSTED"}
    BY DEF IInv, DataInv, DpInv, FazeInv
  <2> QED BY <1>2, <2>1, SetupStays DEF IInv, DataInv, Data
<1>10. PointInv'
  BY <1>2, SetupStays DEF IInv, PointInv, Reached, DpInv, Reading, Moving
<1>11. ClientInv'
  <2> SUFFICES ASSUME Waits PROVE ClientInv'
    BY SetupStays DEF ClientInv
  <2>1. rec.wcnt = 0 /\ owed = 0
    BY DEF IInv, ClientInv, DpInv
  <2>2. owed' = n
    BY <1>4, <2>1
  <2> QED BY <1>1, <1>2, <2>2 DEF ClientInv
<1> QED BY <1>5, <1>6, <1>7, <1>8, <1>9, <1>10, <1>11 DEF IInv

\* doPuts holds the scan.
LEMMA HoldEndsStep ==
  ASSUME IInv, dp.at = "hold", dp' = [at |-> "idle", todo |-> {}],
         rec' = [rec EXCEPT !.wtng = TRUE],
         UNCHANGED <<proc, cb, put, done, dly, onces, saving, owed, zeros, pauses, holds, setup>>
  PROVE  IInv'
<1>1. /\ rec.busy /\ proc = "idle" /\ onces = 0 /\ rec.puts = 0 /\ dly = {} /\ cb.at = "idle"
      /\ ~rec.wtng /\ ~Saver /\ Quiet /\ (\A j \in Kinds : rec.cbs[j] = 0)
      /\ (\A l \in Links : put[l] = None) /\ rec.gets = {} /\ \A j : Flying(j) = {}
  BY NothingFlies
<1>2. /\ rec' \in Fields /\ rec'.wtng = TRUE /\ UNCHANGED <<Flow, Data, rec.wcnt>>
  BY DEF IInv, Types, Fields, Flow, Data
<1>3. /\ ~DpActive' /\ ~Saver' /\ Quiet'
      /\ \A j : ~DpCase(j) /\ ~DpCase(j)'
      /\ \A j : Flying(j)' = Flying(j)
  BY <1>1, <1>2, SetupStays DEF DpActive, Saver, DpCase, Flow, Data, Quiet
<1>4. Types'
  BY <1>2, <1>3, SetupStays DEF IInv, Types, Places
<1>5. OneMover'
  BY <1>1, <1>2, <1>3 DEF OneMover, Flow
<1>6. CountInv'
  BY <1>1, <1>2, <1>3, FlyingIsNat DEF IInv, CountInv, Flow
<1>7. FazeInv' /\ DpInv'
  BY <1>1, <1>2 DEF IInv, FazeInv, DpInv, Flow, Data
<1>8. DataInv'
  BY <1>1, <1>2, <1>3, SetupStays DEF IInv, DataInv, Flow, Data
<1>9. PointInv' /\ ClientInv'
  BY <1>1, <1>2, SetupStays DEF IInv, PointInv, ClientInv, Reached, Flow
<1> QED BY <1>4, <1>5, <1>6, <1>7, <1>8, <1>9 DEF IInv

\* The puts to the array triggers are made.
LEMMA ArrayEndsStep ==
  ASSUME IInv, dp.at = "array", dp.todo = {}, dp' = [at |-> "idle", todo |-> {}],
         UNCHANGED <<rec, proc, cb, put, done, dly, onces, saving, owed, zeros, pauses, holds,
           setup>>
  PROVE  IInv'
<1>1. /\ (DpActive' <=> DpActive) /\ (Saver' <=> Saver) /\ (Quiet' <=> Quiet)
      /\ \A j : ~DpCase(j) /\ ~DpCase(j)'
      /\ \A j : Flying(j)' = Flying(j)
  BY SetupStays DEF DpActive, Saver, DpCase, Quiet
<1>2. Types'
  BY <1>1, SetupStays DEF IInv, Types, Places
<1>3. OneMover'
  BY <1>1 DEF IInv, OneMover, Resting
<1>4. CountInv'
  BY <1>1, FlyingIsNat DEF IInv, CountInv
<1>5. FazeInv' /\ DpInv'
  BY <1>1 DEF IInv, FazeInv, DpInv, Resting
<1>6. DataInv' /\ PointInv' /\ ClientInv'
  BY <1>1, SetupStays DEF IInv, DataInv, PointInv, ClientInv, Reached
<1> QED BY <1>2, <1>3, <1>4, <1>5, <1>6 DEF IInv

\* doPuts goes to the case that the scan asks for.
LEMMA DoPutsBeginsStep == IInv /\ OneThing(Record) /\ DoPutsBegins => IInv'
<1> SUFFICES ASSUME IInv, OneThing(Record), DoPutsBegins PROVE IInv'
  OBVIOUS
<1>1. /\ UNCHANGED <<proc, cb, put, done, saving, zeros, pauses, holds, setup>> /\ BeginCase
      /\ owed' = IF dp.at = "TRIG_DETCTRS" THEN owed + Record.awct ELSE owed
  BY DEF DoPutsBegins, linkVars, userVars
<1>2. /\ rec \in Fields /\ owed \in Nat /\ Record.awct \in Nat /\ Record.before # "wait"
      /\ rec.wcnt \in Nat /\ rec.faze \in Fazes
  BY RecordIs DEF IInv, Types, Fields, OneThing
<1>3. CASE dp.at = "BEFORE_SCAN"
  <2>1. rec' = rec /\ dp' = [at |-> "before", todo |-> {}] /\ UNCHANGED <<dly, onces>>
    BY <1>1, <1>2, <1>3 DEF BeginCase, Goes
  <2>2. rec' = [rec EXCEPT !.faze = rec.faze]
    BY <1>2, <2>1 DEF Fields
  <2> QED BY <1>1, <1>2, <1>3, <2>1, <2>2, CaseStep
<1>4. CASE dp.at = "MOVE_MOTORS"
  BY <1>1, <1>4, PresetStep DEF BeginCase, Writes, LinksOf
<1>5. CASE dp.at = "trigger"
  BY <1>1, <1>5, PresetStep DEF BeginCase, Writes, LinksOf
<1>6. CASE dp.at = "RETRACE_MOVE"
  BY <1>1, <1>6, PresetStep DEF BeginCase, Writes, LinksOf
<1>7. CASE dp.at = "AFTER_SCAN_DO"
  <2>1. CASE Record.after = "wait"
    BY <1>1, <1>7, <2>1, CaseStep DEF BeginCase, Writes, Fazes
  <2>2. CASE Record.after # "wait"
    <3>1. rec' = rec /\ dp' = [at |-> "after", todo |-> {}] /\ UNCHANGED <<dly, onces>>
      BY <1>1, <1>7, <2>2 DEF BeginCase, Goes
    <3>2. rec' = [rec EXCEPT !.faze = rec.faze]
      BY <1>2, <3>1 DEF Fields
    <3> QED BY <1>1, <1>2, <1>7, <3>1, <3>2, CaseStep
  <2> QED BY <2>1, <2>2
<1>8. CASE dp.at = "TRIG_DETCTRS"
  <2>1. PICK n \in Nat : n = IF Record.awct > 0 THEN Record.awct ELSE rec.wcnt
    BY <1>2
  <2>2. CASE Triggers # {}
    <3>1. /\ dp' = [at |-> "trigger", todo |-> {}] /\ UNCHANGED <<dly, onces>>
          /\ rec' = [rec EXCEPT !.faze = "READ_DETCTRS", !.wcnt = n]
      BY <1>1, <1>8, <2>1, <2>2 DEF BeginCase, Goes
    <3> QED BY <1>1, <1>8, <2>1, <2>2, <3>1, TriggerStep
  <2>3. CASE Triggers = {}
    <3>1. /\ dp' = [at |-> "idle", todo |-> {}]
          /\ rec' = [rec EXCEPT !.faze = "READ_DETCTRS", !.wcnt = n]
          /\ IF "ddly" \in Delays THEN dly' = dly \cup {"running"} /\ UNCHANGED onces
                                  ELSE onces' = onces + 1 /\ UNCHANGED dly
      BY <1>1, <1>8, <2>1, <2>3 DEF BeginCase, Requested, DpIdle
    <3>2. onces = 0 /\ dly = {}
      BY <1>8, NothingFlies
    <3>3. \/ dly' = {"running"} /\ onces' = 0
          \/ dly' = {} /\ onces' = 1 /\ "ddly" \notin Delays
      BY <3>1, <3>2
    <3>4. "READ_DETCTRS" \in Fazes /\ owed' \in Nat
      BY <1>1, <1>2 DEF Fazes
    <3>5. DoPutsRequests("READ_DETCTRS", n)
      BY <1>1, <1>8, <2>1, <2>3, <3>1, <3>3, <3>4 DEF DoPutsRequests
    <3> QED BY <3>4, <3>5, RequestStep
  <2> QED BY <2>2, <2>3
<1> QED BY <1>1, <1>3, <1>4, <1>5, <1>6, <1>7, <1>8 DEF BeginCase

\* doPuts comes to its end: nothing is left to write.
LEMMA DoPutsEndsStep == IInv /\ OneThing(Record) /\ DoPutsEnds => IInv'
<1> SUFFICES ASSUME IInv, OneThing(Record), DoPutsEnds PROVE IInv'
  OBVIOUS
<1>1. /\ UNCHANGED <<proc, cb, put, done, saving, owed, zeros, pauses, holds, setup>>
      /\ EndCase /\ dp.todo = {}
  BY DEF DoPutsEnds, linkVars, clientVars, userVars
<1>2. /\ rec \in Fields /\ owed \in Nat /\ rec.wcnt \in Nat /\ rec.faze \in Fazes /\ ~rec.paus
      /\ rec = [rec EXCEPT !.faze = rec.faze]
           /\ rec = [rec EXCEPT !.faze = rec.faze, !.wcnt = rec.wcnt]
  BY DEF IInv, Types, Fields, FazeInv
<1>3. CASE dp.at = "array"
  BY <1>1, <1>3, ArrayEndsStep DEF EndCase, Goes
<1>4. CASE dp.at = "before"
  <2>1. rec.cbs["pos"] = 0
    BY <1>4, NothingFlies DEF Kinds, PutKinds
  <2> QED BY <1>1, <1>4, <2>1, CaseStep DEF EndCase, Goes, Fazes
<1>5. CASE dp.at = "moving"
  <2>1. TakePresetOut("pos", "TRIG_DETCTRS", [rec EXCEPT !.faze = rec.faze])
          /\ UNCHANGED <<dly, onces>>
    BY <1>1, <1>2, <1>5 DEF EndCase, TakePresetOut, Goes
  <2> QED BY <1>1, <1>2, <1>5, <2>1, PresetOutStep
<1>6. CASE dp.at = "triggering"
  <2>1. TakePresetOut("trig", "triggered", [rec EXCEPT !.faze = rec.faze])
          /\ UNCHANGED <<dly, onces>>
    BY <1>1, <1>2, <1>6 DEF EndCase, TakePresetOut, Goes
  <2> QED BY <1>1, <1>2, <1>6, <2>1, PresetOutStep
<1>7. CASE dp.at = "retracing"
  <2>1. TakePresetOut("pos", "AFTER_SCAN_DO", [rec EXCEPT !.faze = "AFTER_SCAN_DO"])
          /\ UNCHANGED <<dly, onces>>
    BY <1>1, <1>7 DEF EndCase, TakePresetOut, Goes
  <2>2. "AFTER_SCAN_DO" \in Fazes
    BY DEF Fazes
  <2> QED BY <1>1, <1>7, <2>1, <2>2, PresetOutStep
<1>8. CASE dp.at = "hold"
  BY <1>1, <1>8, HoldEndsStep DEF EndCase, Goes
<1>9. CASE dp.at = "triggered"
  <2>1. CASE "ddly" \notin Delays /\ rec.wcnt > 0
    <3>1. dp' = [at |-> "hold", todo |-> {}] /\ rec' = rec /\ UNCHANGED <<dly, onces>>
      BY <1>1, <1>2, <1>9, <2>1 DEF EndCase, Goes
    <3> QED BY <1>1, <1>2, <1>9, <3>1, CaseStep
  <2>2. CASE "ddly" \in Delays \/ rec.wcnt = 0
    <3>1. /\ dp' = [at |-> "idle", todo |-> {}] /\ rec' = rec
          /\ IF "ddly" \in Delays THEN dly' = dly \cup {"running"} /\ UNCHANGED onces
                                  ELSE onces' = onces + 1 /\ UNCHANGED dly
      BY <1>1, <1>2, <1>9, <2>2 DEF EndCase, Requested, DpIdle
    <3>2. onces = 0 /\ dly = {}
      BY <1>9, NothingFlies
    <3>3. \/ dly' = {"running"} /\ onces' = 0
          \/ dly' = {} /\ onces' = 1 /\ rec.wcnt = 0
      BY <2>2, <3>1, <3>2
    <3>4. DoPutsRequests(rec.faze, rec.wcnt)
      BY <1>1, <1>2, <1>9, <3>1, <3>3 DEF DoPutsRequests
    <3> QED BY <1>2, <3>4, RequestStep
  <2> QED BY <1>2, <2>1, <2>2
<1>10. CASE dp.at = "after"
  <2>1. /\ dp' = [at |-> "idle", todo |-> {}]
        /\ rec' = [rec EXCEPT !.faze = "SCAN_DONE"] /\ onces' = onces + 1 /\ dly' = dly
    BY <1>1, <1>10 DEF EndCase, DpIdle
  <2>2. onces = 0 /\ dly = {}
    BY <1>10, NothingFlies
  <2>3. rec' = [rec EXCEPT !.faze = "SCAN_DONE", !.wcnt = rec.wcnt] /\ "SCAN_DONE" \in Fazes
    BY <1>2, <2>1 DEF Fields, Fazes
  <2>4. DoPutsRequests("SCAN_DONE", rec.wcnt)
    <3>1. onces' = 1 /\ dly' = {} /\ owed' = owed /\ owed' \in Nat
      BY <1>1, <1>2, <2>1, <2>2
    <3> QED BY <1>1, <1>10, <2>1, <2>3, <3>1 DEF DoPutsRequests
  <2> QED BY <1>2, <2>3, <2>4, RequestStep
<1> QED BY <1>1, <1>3, <1>4, <1>5, <1>6, <1>7, <1>8, <1>9, <1>10 DEF EndCase

----------------------------------------------------------------------------
(* What process() calls.                                                    *)

\* Fields of q that are those of r.
SameFlow(q, r) ==
  /\ q.kill = r.kill /\ q.paus = r.paus /\ q.userSetAWAIT = r.userSetAWAIT
  /\ q.wcnt = r.wcnt /\ q.wtng = r.wtng /\ q.waived = r.waived
SameReads(q, r) == q.gets = r.gets /\ q.cbs = r.cbs
SameData(q, r) ==
  q.dstate = r.dstate /\ q.validBuf = r.validBuf /\ q.await = r.await /\ q.told = r.told

\* What the monitors at the end of process() tell of the data.
LEMMA CheckMonitorsIs ==
  ASSUME setup \in DOMAIN Setups, NEW r \in Fields, NEW q, q = CheckMonitors(r)
  PROVE  /\ q \in Fields /\ SameFlow(q, r) /\ SameReads(q, r)
         /\ q.xsc = r.xsc /\ q.pxsc = r.pxsc /\ q.busy = r.busy /\ q.faze = r.faze /\ q.cpt = r.cpt
         /\ q.puts = r.puts /\ q.validBuf = r.validBuf
         /\ r.dstate # "PACKED" => q.dstate = r.dstate /\ q.await = r.await /\ q.told = r.told
         /\ r.dstate = "PACKED" => /\ q.dstate = "POSTED" /\ (q.await <=> r.await \/ Record.aawait)
                                  /\ q.told = IF Record.aawait THEN r.told + 1 ELSE r.told
<1>1. Record.aawait \in BOOLEAN
  BY RecordIs
<1>2. CASE r.dstate # "PACKED"
  BY <1>2 DEF CheckMonitors, SameFlow, SameReads
<1>3. CASE r.dstate = "PACKED"
  <2>1. PICK a \in BOOLEAN, t \in Nat :
          /\ q = [r EXCEPT !.dstate = "POSTED", !.await = a, !.told = t]
          /\ (a <=> r.await \/ Record.aawait) /\ t = IF Record.aawait THEN r.told + 1 ELSE r.told
    <3>1. (r.await \/ Record.aawait) \in BOOLEAN /\ r.told \in Nat
      BY <1>1 DEF Fields
    <3>2. q = [r EXCEPT !.dstate = "POSTED", !.await = r.await \/ Record.aawait,
                        !.told = IF Record.aawait THEN r.told + 1 ELSE r.told]
      BY <1>3 DEF CheckMonitors
    <3>3. (IF Record.aawait THEN r.told + 1 ELSE r.told) \in Nat
      BY <3>1
    <3> QED BY <3>1, <3>2, <3>3
  <2> QED BY <1>3, <2>1 DEF Fields, SameFlow, SameReads
<1> QED BY <1>2, <1>3

\* What the end of process() does: the monitors, and the end of a scan with its data.
LEMMA FinishIs ==
  ASSUME setup \in DOMAIN Setups, NEW r \in Fields, NEW q, q = Finish(r),
         NEW over, over = (r.busy /\ r.faze = "SCAN_DONE" /\ r.dstate \in {"PACKED", "POSTED"})
  PROVE  /\ q \in Fields /\ SameFlow(q, r) /\ SameReads(q, r)
         /\ q.xsc = r.xsc /\ q.pxsc = r.xsc /\ q.cpt = r.cpt
         /\ q.puts = r.puts /\ q.validBuf = r.validBuf
         /\ (q.busy <=> r.busy /\ ~over) /\ q.faze = IF over THEN "IDLE" ELSE r.faze
         /\ r.dstate # "PACKED" => q.dstate = r.dstate /\ q.await = r.await /\ q.told = r.told
         /\ r.dstate = "PACKED" => /\ q.dstate = "POSTED" /\ (q.await <=> r.await \/ Record.aawait)
                                  /\ q.told = IF Record.aawait THEN r.told + 1 ELSE r.told
<1>1. PICK p : p = CheckMonitors(r)
  OBVIOUS
<1>2. /\ p \in Fields /\ SameFlow(p, r) /\ SameReads(p, r)
      /\ p.xsc = r.xsc /\ p.pxsc = r.pxsc /\ p.busy = r.busy /\ p.faze = r.faze /\ p.cpt = r.cpt
      /\ p.puts = r.puts /\ p.validBuf = r.validBuf
      /\ r.dstate # "PACKED" => p.dstate = r.dstate /\ p.await = r.await /\ p.told = r.told
      /\ r.dstate = "PACKED" => /\ p.dstate = "POSTED" /\ (p.await <=> r.await \/ Record.aawait)
                               /\ p.told = IF Record.aawait THEN r.told + 1 ELSE r.told
  BY <1>1, CheckMonitorsIs
<1>3. (p.busy /\ p.faze = "SCAN_DONE" /\ p.dstate = "POSTED") <=> over
  BY <1>2
<1>4. PICK b \in BOOLEAN, f \in Fazes :
        /\ q = [p EXCEPT !.busy = b, !.faze = f, !.pxsc = p.xsc]
        /\ (b <=> r.busy /\ ~over) /\ f = IF over THEN "IDLE" ELSE r.faze
  <2>1. q = [p EXCEPT !.busy = p.busy /\ ~over, !.faze = IF over THEN "IDLE" ELSE p.faze,
          !.pxsc = p.xsc]
    BY <1>1, <1>3 DEF Finish
  <2>2. (p.busy /\ ~over) \in BOOLEAN /\ (IF over THEN "IDLE" ELSE p.faze) \in Fazes
    BY <1>2 DEF Fields, Fazes
  <2> QED BY <1>2, <2>1, <2>2
<1>5. /\ q \in Fields /\ SameFlow(q, p) /\ SameReads(q, p) /\ SameData(q, p)
      /\ q.xsc = p.xsc /\ q.pxsc = p.xsc /\ q.cpt = p.cpt /\ q.puts = p.puts
      /\ q.busy = b /\ q.faze = f
  BY <1>2, <1>4 DEF Fields, SameFlow, SameReads, SameData
<1> QED BY <1>2, <1>4, <1>5 DEF SameFlow, SameReads, SameData

\* PackData triggers the arrays, reads them, waits for saveData, or packs the data.
PackOutcome(q, r) ==
  \/ /\ r.dstate = "UNPACKED" /\ ArrayTriggers # {} /\ q.dstate = "TRIG_ARRAY_READ"
     /\ SameReads(q, r) /\ q.puts = r.puts + 1 /\ q.validBuf = r.validBuf
  \/ /\ r.dstate = "UNPACKED" => ArrayTriggers = {}
     /\ q.puts = r.puts
     /\ \/ /\ q.dstate = "ARRAY_GET_CALLBACK_WAIT" /\ ArrayDetectors # {}
           /\ r.dstate \in {"UNPACKED", "ARRAY_READ_WAIT"} /\ q.validBuf = r.validBuf
           /\ q.gets = r.gets \cup ArrayDetectors
           /\ q.cbs = [r.cbs EXCEPT !["get"] = Cardinality(ArrayDetectors)]
        \/ /\ q.dstate = "SAVE_DATA_WAIT" /\ r.await /\ SameReads(q, r)
           /\ q.validBuf = r.validBuf
        \/ /\ q.dstate = "PACKED" /\ ~r.await /\ SameReads(q, r)
           /\ q.validBuf = 1 - r.validBuf

\* What packData does with the data in each of their states.
LEMMA PackDataIs ==
  ASSUME setup \in DOMAIN Setups, NEW r \in Fields, NEW q, q = PackData(r), r.cbs["get"] = 0,
         r.dstate \in {"UNPACKED", "ARRAY_READ_WAIT", "RECORD_ARRAY_DATA", "SAVE_DATA_WAIT"},
         ~(r.dstate = "SAVE_DATA_WAIT" /\ r.await)
  PROVE  /\ q \in Fields /\ SameFlow(q, r) /\ q.await = r.await /\ q.told = r.told
         /\ q.xsc = r.xsc /\ q.pxsc = r.pxsc /\ q.busy = r.busy /\ q.faze = r.faze /\ q.cpt = r.cpt
         /\ PackOutcome(q, r)
<1>0. r.puts + 1 \in Nat /\ 1 - r.validBuf \in {0, 1}
  <2>1. r.puts \in Nat /\ r.validBuf \in {0, 1}
    BY DEF Fields
  <2> QED BY <2>1
<1> USE DEF PackOutcome
<1>1. /\ IsFiniteSet(ArrayDetectors) /\ Cardinality(ArrayDetectors) \in Nat
      /\ (Cardinality(ArrayDetectors) = 0 <=> ArrayDetectors = {})
      /\ ArrayDetectors \subseteq Detectors
  BY RecordIs, FS_CardinalityType, FS_EmptySet
<1>2. CASE r.dstate = "UNPACKED" /\ ArrayTriggers # {}
  <2>1. q = [r EXCEPT !.dstate = "TRIG_ARRAY_READ", !.puts = @ + 1]
    BY <1>2 DEF PackData
  <2>2. /\ q \in Fields /\ SameFlow(q, r) /\ q.await = r.await /\ q.told = r.told
        /\ q.xsc = r.xsc /\ q.pxsc = r.pxsc /\ q.busy = r.busy /\ q.faze = r.faze /\ q.cpt = r.cpt
        /\ q.dstate = "TRIG_ARRAY_READ" /\ q.puts = r.puts + 1 /\ q.validBuf = r.validBuf
        /\ SameReads(q, r)
    BY <1>0, <2>1 DEF Fields, NotPacked, SameFlow, SameReads
  <2> QED BY <1>2, <2>2
<1>3. CASE r.dstate = "SAVE_DATA_WAIT"
  <2>1. q = [r EXCEPT !.dstate = "PACKED", !.validBuf = 1 - @]
    BY <1>3 DEF PackData
  <2>2. /\ q \in Fields /\ SameFlow(q, r) /\ q.await = r.await /\ q.told = r.told
        /\ q.xsc = r.xsc /\ q.pxsc = r.pxsc /\ q.busy = r.busy /\ q.faze = r.faze /\ q.cpt = r.cpt
        /\ q.dstate = "PACKED" /\ q.puts = r.puts /\ q.validBuf = 1 - r.validBuf
        /\ SameReads(q, r)
    BY <1>0, <2>1 DEF Fields, SameFlow, SameReads
  <2> QED BY <1>3, <2>2 DEF Fields
<1>4. CASE r.dstate = "RECORD_ARRAY_DATA"
  <2>1. [r EXCEPT !.dstate = IF @ = "UNPACKED" THEN "ARRAY_READ_WAIT" ELSE @] = r
    BY <1>4 DEF Fields
  <2>2. ReadArrays(r) = r
    BY <1>4 DEF ReadArrays
  <2>3. q = IF r.await THEN [r EXCEPT !.dstate = "SAVE_DATA_WAIT"]
                       ELSE [r EXCEPT !.dstate = "PACKED", !.validBuf = 1 - @]
    BY <1>4, <2>1, <2>2 DEF PackData
  <2>4. CASE r.await
    <3>1. q = [r EXCEPT !.dstate = "SAVE_DATA_WAIT"]
      BY <2>3, <2>4
    <3>2. /\ q \in Fields /\ SameFlow(q, r) /\ q.await = r.await /\ q.told = r.told
          /\ q.xsc = r.xsc /\ q.pxsc = r.pxsc /\ q.busy = r.busy /\ q.faze = r.faze /\ q.cpt = r.cpt
          /\ q.dstate = "SAVE_DATA_WAIT" /\ q.puts = r.puts /\ q.validBuf = r.validBuf
          /\ SameReads(q, r)
      BY <3>1 DEF Fields, NotPacked, SameFlow, SameReads
    <3> QED BY <1>4, <2>4, <3>2
  <2>5. CASE ~r.await
    <3>1. q = [r EXCEPT !.dstate = "PACKED", !.validBuf = 1 - @]
      BY <2>3, <2>5
    <3>2. /\ q \in Fields /\ SameFlow(q, r) /\ q.await = r.await /\ q.told = r.told
          /\ q.xsc = r.xsc /\ q.pxsc = r.pxsc /\ q.busy = r.busy /\ q.faze = r.faze /\ q.cpt = r.cpt
          /\ q.dstate = "PACKED" /\ q.puts = r.puts /\ q.validBuf = 1 - r.validBuf
          /\ SameReads(q, r)
      BY <1>0, <3>1 DEF Fields, SameFlow, SameReads
    <3> QED BY <1>4, <2>5, <3>2
  <2> QED BY <2>4, <2>5
<1>5. CASE r.dstate = "ARRAY_READ_WAIT" \/ (r.dstate = "UNPACKED" /\ ArrayTriggers = {})
  <2>1. PICK p : p = ReadArrays([r EXCEPT !.dstate =
                                   IF @ = "UNPACKED" THEN "ARRAY_READ_WAIT" ELSE @])
    OBVIOUS
  <2>2. p = [r EXCEPT !.gets = r.gets \cup ArrayDetectors,
                      !.cbs = [r.cbs EXCEPT !["get"] = Cardinality(ArrayDetectors)],
                      !.dstate = IF ArrayDetectors # {} THEN "ARRAY_GET_CALLBACK_WAIT"
                                                      ELSE "RECORD_ARRAY_DATA"]
    <3>1. PICK z : z = [r EXCEPT !.dstate = "ARRAY_READ_WAIT"]
      OBVIOUS
    <3>2. z \in Fields /\ z.cbs = r.cbs /\ z.gets = r.gets /\ z.dstate = "ARRAY_READ_WAIT"
      BY <3>1 DEF Fields, NotPacked
    <3>3. p = ReadArrays(z)
      BY <1>5, <2>1, <3>1
    <3>4. PICK a : a = [z EXCEPT !.gets = r.gets \cup ArrayDetectors,
                                 !.cbs = [r.cbs EXCEPT !["get"] = Cardinality(ArrayDetectors)]]
      OBVIOUS
    <3>5. z.cbs["get"] + Cardinality(ArrayDetectors) = Cardinality(ArrayDetectors)
      BY <1>1, <3>2
    <3>6. a = [z EXCEPT !.gets = (z.gets \cup ArrayDetectors) \ z.early.answered,
                        !.cbs.get = z.cbs["get"]
                                      + Cardinality(ArrayDetectors \ z.early.answered) + z.early.lost]
      <4>1. z.early = NoneEarly
        BY <3>2 DEF Fields
      <4>2. z.early.answered = {} /\ z.early.lost = 0
        BY <4>1 DEF NoneEarly
      <4>3. /\ (z.gets \cup ArrayDetectors) \ z.early.answered = r.gets \cup ArrayDetectors
            /\ ArrayDetectors \ z.early.answered = ArrayDetectors
        BY <3>2, <4>2
      <4>4. z.cbs["get"] + Cardinality(ArrayDetectors \ z.early.answered) + z.early.lost
              = Cardinality(ArrayDetectors)
        BY <1>1, <3>5, <4>2, <4>3
      <4> QED BY <3>2, <3>4, <4>3, <4>4
    <3>7. a.cbs["get"] = Cardinality(ArrayDetectors)
      BY <3>2, <3>4 DEF Fields, Kinds
    <3>8. p = [a EXCEPT !.dstate = IF a.cbs["get"] # 0 THEN "ARRAY_GET_CALLBACK_WAIT"
                                                      ELSE "RECORD_ARRAY_DATA"]
      BY <3>2, <3>3, <3>6 DEF ReadArrays
    <3>9. p = [a EXCEPT !.dstate = IF ArrayDetectors # {} THEN "ARRAY_GET_CALLBACK_WAIT"
                                                      ELSE "RECORD_ARRAY_DATA"]
      BY <1>1, <3>7, <3>8
    <3> QED BY <3>1, <3>4, <3>9
  <2>3. /\ p \in Fields /\ SameFlow(p, r) /\ p.await = r.await /\ p.told = r.told /\ p.puts = r.puts
        /\ p.xsc = r.xsc /\ p.pxsc = r.pxsc /\ p.busy = r.busy /\ p.faze = r.faze /\ p.cpt = r.cpt
        /\ p.validBuf = r.validBuf /\ p.gets = r.gets \cup ArrayDetectors
        /\ p.cbs = [r.cbs EXCEPT !["get"] = Cardinality(ArrayDetectors)]
        /\ p.dstate = IF ArrayDetectors # {} THEN "ARRAY_GET_CALLBACK_WAIT" ELSE "RECORD_ARRAY_DATA"
    <3>1. [r.cbs EXCEPT !["get"] = Cardinality(ArrayDetectors)] \in [Kinds -> Int]
      BY <1>1 DEF Fields, Kinds
    <3> QED BY <1>1, <2>2, <3>1 DEF Fields, NotPacked, SameFlow
  <2>4. q = IF p.dstate = "ARRAY_GET_CALLBACK_WAIT" THEN p
            ELSE IF r.await THEN [p EXCEPT !.dstate = "SAVE_DATA_WAIT"]
            ELSE [p EXCEPT !.dstate = "PACKED", !.validBuf = 1 - @]
    BY <1>5, <2>1 DEF PackData
  <2>5. CASE ArrayDetectors # {}
    BY <1>5, <2>3, <2>4, <2>5
  <2>6. CASE ArrayDetectors = {}
    <3>1. SameReads(p, r)
      <4>1. [r.cbs EXCEPT !["get"] = 0] = r.cbs
        BY DEF Fields, Kinds
      <4> QED BY <1>1, <2>3, <2>6, <4>1 DEF SameReads, Fields
    <3>2. CASE r.await
      <4>1. q = [p EXCEPT !.dstate = "SAVE_DATA_WAIT"]
        BY <2>3, <2>4, <2>6, <3>2
      <4>2. /\ q \in Fields /\ SameFlow(q, p) /\ q.await = p.await /\ q.told = p.told
            /\ q.xsc = p.xsc /\ q.pxsc = p.pxsc /\ q.busy = p.busy
            /\ q.faze = p.faze /\ q.cpt = p.cpt
            /\ q.dstate = "SAVE_DATA_WAIT" /\ q.puts = p.puts /\ q.validBuf = p.validBuf
            /\ SameReads(q, p)
        BY <2>3, <4>1 DEF Fields, NotPacked, SameFlow, SameReads
      <4> QED BY <1>5, <2>3, <3>1, <3>2, <4>2 DEF SameFlow, SameReads
    <3>3. CASE ~r.await
      <4>1. q = [p EXCEPT !.dstate = "PACKED", !.validBuf = 1 - @]
        BY <2>3, <2>4, <2>6, <3>3
      <4>2. /\ q \in Fields /\ SameFlow(q, p) /\ q.await = p.await /\ q.told = p.told
            /\ q.xsc = p.xsc /\ q.pxsc = p.pxsc /\ q.busy = p.busy
            /\ q.faze = p.faze /\ q.cpt = p.cpt
            /\ q.dstate = "PACKED" /\ q.puts = p.puts /\ q.validBuf = 1 - p.validBuf
            /\ SameReads(q, p)
        <5>1. 1 - p.validBuf \in {0, 1} /\ p \in Fields
          BY <1>0, <2>3
        <5> QED BY <4>1, <5>1 DEF Fields, SameFlow, SameReads
      <4> QED BY <1>5, <2>3, <3>1, <3>3, <4>2 DEF SameFlow, SameReads
    <3> QED BY <3>2, <3>3
  <2> QED BY <2>5, <2>6
<1> QED BY <1>2, <1>3, <1>4, <1>5

\* At the end of a scan either something follows, and the data are packed, or not.
EndOutcome(q, r) ==
  \/ /\ Simple /\ ~r.await /\ q.dstate = "PACKED" /\ q.validBuf = 1 - r.validBuf /\ SameReads(q, r)
     /\ q.faze \in {"RETRACE_MOVE", "AFTER_SCAN_DO"} /\ q.puts = r.puts + 1
  \/ q.faze = "SCAN_DONE" /\ PackOutcome(q, r)

\* What endScan does.
LEMMA EndScanIs ==
  ASSUME setup \in DOMAIN Setups, OneThing(Record), NEW r \in Fields, NEW q, q = EndScan(r),
         r.cbs["get"] = 0, r.dstate = "UNPACKED", r.await => Record.aawait
  PROVE  /\ q \in Fields /\ SameFlow(q, r) /\ q.await = r.await /\ q.told = r.told
         /\ ~q.xsc /\ q.pxsc = r.pxsc /\ q.busy = r.busy /\ q.cpt = r.cpt
         /\ EndOutcome(q, r)
<1>1. PICK p : p = PackData(r)
  OBVIOUS
<1>2. /\ p \in Fields /\ SameFlow(p, r) /\ p.await = r.await /\ p.told = r.told
      /\ p.xsc = r.xsc /\ p.pxsc = r.pxsc /\ p.busy = r.busy /\ p.faze = r.faze /\ p.cpt = r.cpt
      /\ PackOutcome(p, r)
  BY <1>1, PackDataIs
<1>3. PICK z : z = [p EXCEPT !.xsc = FALSE]
  OBVIOUS
<1>4. /\ z \in Fields /\ SameFlow(z, p) /\ SameReads(z, p) /\ SameData(z, p) /\ ~z.xsc
      /\ z.pxsc = p.pxsc /\ z.busy = p.busy /\ z.cpt = p.cpt /\ z.puts = p.puts
  BY <1>2, <1>3 DEF Fields, SameFlow, SameReads, SameData
<1>5. z.puts + 1 \in Nat /\ p.puts \in Nat /\ r.puts \in Nat
  BY <1>2, <1>4 DEF Fields
<1>6. \/ \E f \in {"RETRACE_MOVE", "AFTER_SCAN_DO"} :
           q = [z EXCEPT !.faze = f, !.puts = @ + 1] /\ Simple
      \/ q = [z EXCEPT !.faze = "SCAN_DONE"]
  <2>1. q = IF Record.retrace /\ Positioners # {}
            THEN [z EXCEPT !.faze = "RETRACE_MOVE", !.puts = @ + 1] ELSE DoAfterScan(z)
    BY <1>1, <1>3 DEF EndScan
  <2>2. Record.retrace /\ Positioners # {} => Simple
    BY DEF OneThing, Simple, ArrayTriggers, ArrayDetectors, Positioners
  <2>3. Record.after # "none" => Simple
    BY DEF OneThing, Simple, ArrayTriggers, ArrayDetectors
  <2> QED BY <2>1, <2>2, <2>3 DEF DoAfterScan
<1>7. CASE q = [z EXCEPT !.faze = "SCAN_DONE"]
  <2>1. /\ q \in Fields /\ SameFlow(q, z) /\ SameReads(q, z) /\ SameData(q, z) /\ ~q.xsc
        /\ q.pxsc = z.pxsc /\ q.busy = z.busy /\ q.cpt = z.cpt /\ q.puts = z.puts
        /\ q.faze = "SCAN_DONE"
    BY <1>4, <1>7 DEF Fields, Fazes, SameFlow, SameReads, SameData
  <2>2. PackOutcome(q, r)
    BY <1>2, <1>4, <2>1 DEF PackOutcome, SameReads, SameData
  <2> QED BY <1>2, <1>4, <2>1, <2>2 DEF EndOutcome, SameFlow, SameData
<1>8. ASSUME Simple, NEW f \in {"RETRACE_MOVE", "AFTER_SCAN_DO"},
             q = [z EXCEPT !.faze = f, !.puts = @ + 1]
      PROVE  /\ q \in Fields /\ SameFlow(q, r) /\ q.await = r.await /\ q.told = r.told
             /\ ~q.xsc /\ q.pxsc = r.pxsc /\ q.busy = r.busy /\ q.cpt = r.cpt
             /\ EndOutcome(q, r)
  <2>1. /\ q \in Fields /\ SameFlow(q, z) /\ SameReads(q, z) /\ SameData(q, z) /\ ~q.xsc
        /\ q.pxsc = z.pxsc /\ q.busy = z.busy /\ q.cpt = z.cpt /\ q.puts = z.puts + 1
        /\ q.faze = f
    <3>1. f \in Fazes /\ z \in Fields /\ z.puts + 1 \in Nat /\ ~z.xsc
      BY <1>4, <1>5 DEF Fazes
    <3> QED BY <1>8, <3>1 DEF Fields, SameFlow, SameReads, SameData
  <2>2. /\ p.dstate = "PACKED" /\ ~r.await /\ SameReads(p, r) /\ p.validBuf = 1 - r.validBuf
        /\ p.puts = r.puts
    BY <1>2, <1>8 DEF PackOutcome, Simple
  <2>3. EndOutcome(q, r)
    BY <1>4, <1>8, <2>1, <2>2 DEF EndOutcome, SameReads, SameData
  <2> QED BY <1>2, <1>4, <2>1, <2>3 DEF SameFlow, SameData
<1> QED BY <1>6, <1>7, <1>8

\* Once the data of a point are there, the scan goes on to the next, or ends.
RecordOutcome(q, r) ==
  \/ /\ q.xsc = r.xsc /\ q.faze = "MOVE_MOTORS" /\ q.puts = r.puts + 1
     /\ SameReads(q, r) /\ q.dstate = r.dstate /\ q.validBuf = r.validBuf
  \/ ~q.xsc /\ EndOutcome(q, r)

\* What the recording of a point does.
LEMMA RecordScalarDataIs ==
  ASSUME setup \in DOMAIN Setups, OneThing(Record), NEW r \in Fields, NEW q,
         q = RecordScalarData(r), r.cbs["get"] = 0, r.dstate = "UNPACKED", r.await => Record.aawait
  PROVE  /\ q \in Fields /\ SameFlow(q, r) /\ q.await = r.await /\ q.told = r.told
         /\ q.pxsc = r.pxsc /\ q.busy = r.busy /\ q.cpt = r.cpt + 1
         /\ RecordOutcome(q, r)
<1>1. PICK z : z = [r EXCEPT !.cpt = @ + 1]
  OBVIOUS
<1>2. r.cpt + 1 \in Nat /\ r.puts + 1 \in Nat
  BY DEF Fields
<1>3. /\ z \in Fields /\ SameFlow(z, r) /\ SameReads(z, r) /\ SameData(z, r)
      /\ z.xsc = r.xsc /\ z.pxsc = r.pxsc /\ z.busy = r.busy /\ z.cpt = r.cpt + 1 /\ z.puts = r.puts
  BY <1>1, <1>2 DEF Fields, SameFlow, SameReads, SameData
<1>4. CASE z.cpt < Record.npts
  <2>1. q = [z EXCEPT !.faze = "MOVE_MOTORS", !.puts = @ + 1]
    BY <1>1, <1>4 DEF RecordScalarData
  <2>2. PICK n \in Nat, f \in Fazes : n = z.puts + 1 /\ f = "MOVE_MOTORS"
    BY <1>2, <1>3 DEF Fazes
  <2>3. /\ q \in Fields /\ SameFlow(q, z) /\ SameReads(q, z) /\ SameData(q, z) /\ q.xsc = z.xsc
        /\ q.pxsc = z.pxsc /\ q.busy = z.busy /\ q.cpt = z.cpt /\ q.puts = z.puts + 1
        /\ q.faze = "MOVE_MOTORS"
    <3>1. q = [z EXCEPT !.faze = f, !.puts = n]
      BY <2>1, <2>2
    <3>2. q \in Fields
      BY <1>3, <3>1 DEF Fields
    <3> QED BY <1>3, <2>2, <3>1, <3>2 DEF Fields, SameFlow, SameReads, SameData
  <2> QED BY <1>3, <2>3 DEF RecordOutcome, SameFlow, SameReads, SameData
<1>5. CASE ~(z.cpt < Record.npts)
  <2>1. q = EndScan(z)
    BY <1>1, <1>5 DEF RecordScalarData
  <2>2. z.cbs["get"] = 0 /\ z.dstate = "UNPACKED" /\ (z.await => Record.aawait)
    BY <1>3 DEF SameReads, SameData
  <2>3. /\ q \in Fields /\ SameFlow(q, z) /\ q.await = z.await /\ q.told = z.told
        /\ ~q.xsc /\ q.pxsc = z.pxsc /\ q.busy = z.busy /\ q.cpt = z.cpt
        /\ EndOutcome(q, z)
    BY <1>3, <2>1, <2>2, EndScanIs
  <2>4. EndOutcome(q, r)
    BY <1>3, <2>3 DEF EndOutcome, PackOutcome, SameReads, SameData
  <2> QED BY <1>3, <2>3, <2>4 DEF RecordOutcome, SameFlow, SameData
<1> QED BY <1>4, <1>5

\* The detectors are read, and without any the point is recorded at once.
ReadOutcome(q, r) ==
  \/ /\ q.xsc = r.xsc /\ q.faze = "RECORD_SCALAR_DATA" /\ q.puts = r.puts /\ q.cpt = r.cpt
     /\ q.dstate = r.dstate /\ q.validBuf = r.validBuf /\ Detectors # {}
     /\ q.gets = r.gets \cup Detectors /\ q.cbs = [r.cbs EXCEPT !["get"] = Cardinality(Detectors)]
  \/ q.cpt = r.cpt + 1 /\ RecordOutcome(q, r)

\* What reading the detectors does.
LEMMA ReadDetectorsIs ==
  ASSUME setup \in DOMAIN Setups, OneThing(Record), NEW r \in Fields, NEW q,
         q = ReadDetectors(r), r.cbs["get"] = 0, r.dstate = "UNPACKED", r.await => Record.aawait
  PROVE  /\ q \in Fields /\ SameFlow(q, r) /\ q.await = r.await /\ q.told = r.told
         /\ q.pxsc = r.pxsc /\ q.busy = r.busy
         /\ ReadOutcome(q, r)
<1>1. PICK z : z = [r EXCEPT !.faze = "RECORD_SCALAR_DATA", !.gets = r.gets \cup Detectors,
                             !.cbs = [r.cbs EXCEPT !["get"] = Cardinality(Detectors)]]
  OBVIOUS
<1>2. Cardinality(Detectors) \in Nat /\ (Detectors = {} => Cardinality(Detectors) = 0)
  BY RecordIs, FS_CardinalityType, FS_EmptySet
<1>3. [r.cbs EXCEPT !["get"] = Cardinality(Detectors)] \in [Kinds -> Int]
  BY <1>2 DEF Fields, Kinds
<1>4. /\ z \in Fields /\ SameFlow(z, r) /\ SameData(z, r) /\ z.faze = "RECORD_SCALAR_DATA"
      /\ z.xsc = r.xsc /\ z.pxsc = r.pxsc /\ z.busy = r.busy /\ z.cpt = r.cpt /\ z.puts = r.puts
      /\ z.gets = r.gets \cup Detectors /\ z.cbs = [r.cbs EXCEPT !["get"] = Cardinality(Detectors)]
  BY <1>1, <1>3 DEF Fields, Fazes, SameFlow, SameData
<1>5. q = IF Detectors = {} THEN RecordScalarData(z) ELSE z
  <2>1. z = [r EXCEPT !.faze = "RECORD_SCALAR_DATA", !.gets = @ \cup Detectors,
                      !.cbs.get = Cardinality(Detectors)]
    BY <1>1
  <2> QED BY <2>1 DEF ReadDetectors
<1>6. CASE Detectors # {}
  BY <1>4, <1>5, <1>6 DEF ReadOutcome, SameData
<1>7. CASE Detectors = {}
  <2>1. SameReads(z, r)
    BY <1>2, <1>4, <1>7 DEF SameReads, Fields, Kinds
  <2>2. z.cbs["get"] = 0 /\ z.dstate = "UNPACKED" /\ (z.await => Record.aawait)
    BY <1>4, <2>1 DEF SameReads, SameData
  <2>3. /\ q \in Fields /\ SameFlow(q, z) /\ q.await = z.await /\ q.told = z.told
        /\ q.pxsc = z.pxsc /\ q.busy = z.busy /\ q.cpt = z.cpt + 1
        /\ RecordOutcome(q, z)
    BY <1>4, <1>5, <1>7, <2>2, RecordScalarDataIs
  <2>4. RecordOutcome(q, r)
    BY <1>4, <2>1, <2>3 DEF RecordOutcome, EndOutcome, PackOutcome, SameReads, SameData
  <2> QED BY <1>4, <2>3, <2>4 DEF ReadOutcome, SameFlow, SameData
<1> QED BY <1>6, <1>7

\* Has the scan what it takes to record a point?
Recordable(r) == r.faze \in Reading \/ (r.faze = "CHECK_MOTORS" /\ Triggers = {})

\* A scan that goes on: nothing happens, or detectors are to be triggered, or they are
\* read, or the point is recorded; or the scan ends, after a last point or without one.
ContOutcome(q, r) ==
  \/ /\ q.xsc = r.xsc /\ q.cpt = r.cpt /\ SameReads(q, r)
     /\ q.dstate = r.dstate /\ q.validBuf = r.validBuf
     /\ \/ q.faze = r.faze /\ q.puts = r.puts /\ r.faze \notin Moving \cup Reading
        \/ q.faze = "TRIG_DETCTRS" /\ q.puts = r.puts + 1 /\ r.faze \in Moving
  \/ Recordable(r) /\ ReadOutcome(q, r)
  \/ q.cpt = r.cpt /\ ~q.xsc /\ EndOutcome(q, r)

\* What contScan does in each faze.
LEMMA ContScanIs ==
  ASSUME setup \in DOMAIN Setups, OneThing(Record), NEW r \in Fields, NEW deviates, NEW q,
         q = ContScan(r, deviates), r.cbs["get"] = 0, r.dstate = "UNPACKED",
         r.await => Record.aawait
  PROVE  /\ q \in Fields /\ SameFlow(q, r) /\ q.await = r.await /\ q.told = r.told
         /\ q.pxsc = r.pxsc /\ q.busy = r.busy
         /\ ContOutcome(q, r)
<1>1. r.puts + 1 \in Nat
  BY DEF Fields
<1>2. CASE r.faze = "TRIG_DETCTRS"
  <2>1. q = [r EXCEPT !.puts = @ + 1]
    BY <1>2 DEF ContScan
  <2> QED BY <1>1, <1>2, <2>1 DEF Fields, ContOutcome, SameFlow, SameReads, Moving
<1>3. CASE r.faze = "CHECK_MOTORS"
  <2>1. q = IF deviates THEN EndScan(r)
            ELSE IF Triggers # {} THEN [r EXCEPT !.faze = "TRIG_DETCTRS", !.puts = @ + 1]
            ELSE ReadDetectors(r)
    BY <1>3 DEF ContScan
  <2>2. CASE deviates
    <3>1. q = EndScan(r)
      BY <2>1, <2>2
    <3> QED BY <3>1, EndScanIs DEF ContOutcome
  <2>3. CASE ~deviates /\ Triggers # {}
    <3>1. PICK f \in Fazes, n \in Nat :
            /\ q = [r EXCEPT !.faze = f, !.puts = n]
            /\ f = "TRIG_DETCTRS" /\ n = r.puts + 1
      <4>1. q = [r EXCEPT !.faze = "TRIG_DETCTRS", !.puts = r.puts + 1]
        BY <2>1, <2>3
      <4> QED BY <1>1, <4>1 DEF Fazes
    <3>2. q \in Fields
      BY <3>1 DEF Fields
    <3>3. /\ q.faze = "TRIG_DETCTRS" /\ q.puts = r.puts + 1 /\ q.xsc = r.xsc /\ q.cpt = r.cpt
          /\ q.dstate = r.dstate /\ q.validBuf = r.validBuf /\ q.await = r.await
          /\ q.told = r.told /\ q.pxsc = r.pxsc /\ q.busy = r.busy
      BY <3>1 DEF Fields
    <3>4. SameFlow(q, r) /\ SameReads(q, r)
      BY <3>1 DEF Fields, SameFlow, SameReads
    <3> QED BY <1>3, <3>2, <3>3, <3>4 DEF ContOutcome, Moving
  <2>4. CASE ~deviates /\ Triggers = {}
    <3>1. q = ReadDetectors(r)
      BY <2>1, <2>4
    <3> QED BY <1>3, <2>4, <3>1, ReadDetectorsIs DEF ContOutcome, Recordable
  <2> QED BY <2>2, <2>3, <2>4
<1>4. CASE r.faze = "READ_DETCTRS"
  <2>1. q = ReadDetectors(r)
    BY <1>4 DEF ContScan
  <2> QED BY <1>4, <2>1, ReadDetectorsIs DEF ContOutcome, Recordable, Reading
<1>5. CASE r.faze = "RECORD_SCALAR_DATA"
  <2>1. q = RecordScalarData(r)
    BY <1>5 DEF ContScan
  <2> QED BY <1>5, <2>1, RecordScalarDataIs DEF ContOutcome, ReadOutcome, Recordable, Reading
<1>6. CASE r.faze \notin {"TRIG_DETCTRS", "CHECK_MOTORS", "READ_DETCTRS", "RECORD_SCALAR_DATA"}
  <2>1. q = r
    BY <1>6 DEF ContScan
  <2> QED BY <1>6, <2>1 DEF ContOutcome, SameFlow, SameReads, Moving, Reading
<1> QED BY <1>2, <1>3, <1>4, <1>5, <1>6

\* Where the scan is when it is processed.
LEMMA ProcessFacts ==
  ASSUME IInv, proc # "idle"
  PROVE  /\ Quiet /\ proc = "quiet" /\ ~DpActive /\ ~Saver /\ ~rec.wtng /\ cb.at = "idle"
         /\ onces = 0 /\ rec.puts = 0 /\ dly = {}
         /\ rec.gets = {} /\ \A k \in Kinds : rec.cbs[k] = 0
         /\ \A l \in Links : put[l] = None
         /\ dp.at \in {"idle", "array"} /\ dp.todo = {}
         /\ rec.kill = 0 /\ ~rec.paus
         /\ rec.dstate \notin {"TRIG_ARRAY_READ", "ARRAY_GET_CALLBACK_WAIT"}
         /\ Waits => rec.wcnt = 0 /\ owed = 0
         /\ ~rec.busy => rec.xsc /\ ~rec.pxsc
         /\ rec.busy => rec.pxsc = rec.xsc
         /\ rec.busy /\ rec.xsc => /\ rec.dstate = "UNPACKED"
                                  /\ rec.faze \in Before \cup Moving \cup Reading
         /\ rec.busy /\ ~rec.xsc => rec.dstate \notin {"UNPACKED", "PACKED"} /\ rec.faze \in After
<1>1. /\ proc = "quiet" /\ Resting /\ onces = 0 /\ rec.puts = 0 /\ dly = {}
  BY DEF IInv, OneMover
<1>2. /\ Quiet /\ ~DpActive /\ ~Saver /\ ~rec.wtng /\ cb.at = "idle"
  BY <1>1 DEF Resting
<1>3. /\ rec.gets = {} /\ \A k \in Kinds : rec.cbs[k] = 0
      /\ \A l \in Links : put[l] = None
  BY <1>2, QuietMeans DEF IInv
<1>4. dp.at \in {"idle", "array"} /\ dp.todo = {}
  BY <1>2 DEF DpActive, IInv, Types, LinksOf
<1>5. rec.dstate \notin {"TRIG_ARRAY_READ", "ARRAY_GET_CALLBACK_WAIT"}
  BY <1>1, <1>2, <1>3 DEF IInv, DataInv, Kinds
<1>6. Waits => rec.wcnt = 0 /\ owed = 0
  BY DEF IInv, ClientInv
<1>7. rec.xsc \in BOOLEAN /\ rec.pxsc \in BOOLEAN /\ rec.busy \in BOOLEAN
  BY DEF IInv, Types, Fields
<1>8. /\ rec.kill = 0 /\ ~rec.paus
      /\ ~rec.busy => rec.xsc /\ ~rec.pxsc
      /\ rec.busy => rec.pxsc = rec.xsc
      /\ rec.busy /\ rec.xsc => /\ rec.dstate = "UNPACKED"
                               /\ rec.faze \in Before \cup Moving \cup Reading
      /\ rec.busy /\ ~rec.xsc => rec.dstate \notin {"UNPACKED", "PACKED"} /\ rec.faze \in After
  BY <1>1, <1>7 DEF IInv, FazeInv
<1> QED BY <1>1, <1>2, <1>3, <1>4, <1>5, <1>6, <1>8

\* The parts of the invariant that are about who carries the scan on hold again when it
\* has been processed: either doPuts was requested, or detectors are read, or neither.
LEMMA ProcessMoves ==
  ASSUME IInv, proc # "idle", proc' = "idle",
         UNCHANGED <<dp, cb, put, dly, onces, saving, owed, scans, zeros, pauses, holds, setup>>,
         done' \in [Links -> Nat \cup {Stale}], rec' \in Fields, ~rec'.wtng, rec'.puts \in {0, 1},
         Waits => rec'.wcnt = 0,
         \/ /\ rec'.gets = {} /\ (\A k \in Kinds : rec'.cbs[k] = 0)
            /\ Saver' => rec'.puts = 0
         \/ /\ rec'.puts = 0 /\ ~Saver' /\ rec'.cbs["get"] = Cardinality(rec'.gets)
            /\ \A k \in PutKinds : rec'.cbs[k] = 0
  PROVE  Types' /\ OneMover' /\ CountInv' /\ DpInv' /\ ClientInv'
<1>1. /\ Quiet /\ ~DpActive /\ cb.at = "idle" /\ onces = 0 /\ dly = {}
      /\ \A k \in Kinds : rec.cbs[k] = 0
      /\ dp.at \in {"idle", "array"} /\ dp.todo = {}
      /\ Waits => rec.wcnt = 0 /\ owed = 0
  BY ProcessFacts
<1>2. /\ \A k : Flying(k)' = Flying(k)
      /\ \A at : LinksOf(at)' = LinksOf(at)
      /\ Waits' = Waits
  BY SetupStays
<1>3. Types'
  <2>1. /\ Types /\ cb' \in [at : {"idle", "counted", "last", "hold"}, kind : Kinds]
        /\ dly' \in SUBSET {"running", "expired"}
        /\ {onces', saving', owed', zeros', pauses', holds'} \subseteq Nat
    BY DEF IInv, Types
  <2>2. proc' \in {"idle", "quiet", "busy"}
    OBVIOUS
  <2>3. Fields' = Fields
    BY SetupStays
  <2>4. /\ (dp \in [at : Places, todo : SUBSET Links])' /\ (dp.todo \subseteq LinksOf(dp.at))'
        /\ (put \in [Links -> Nat \cup {None}])'
    BY <1>2, <2>1 DEF Types
  <2>6. (\A k \in PutKinds : IsFiniteSet(Flying(k)))'
    BY <1>2, <2>1 DEF Types
  <2>5. setup' \in DOMAIN Setups /\ rec' \in Fields'
    BY <2>1, <2>3 DEF Types
  <2> QED BY <2>1, <2>2, <2>4, <2>5, <2>6 DEF Types
<1>4. (DpActive' <=> DpActive) /\ \A k : DpCase(k)' <=> DpCase(k)
  BY DEF DpActive, DpCase
<1>5. \A k \in PutKinds : ~DpCase(k) /\ Cardinality(Flying(k)) = 0
  <2>1. \A k \in PutKinds : ~DpCase(k)
    BY <1>1 DEF DpCase
  <2> QED BY <1>1, <2>1, FlyingIsNat DEF IInv, CountInv, Kinds
<1>6. CountInv'
  <2>1. \A k \in PutKinds : rec'.cbs[k] = 0
    BY DEF Kinds
  <2>2. rec'.cbs["get"] = Cardinality(rec'.gets)
    BY FS_EmptySet DEF Kinds
  <2> QED BY <1>1, <1>2, <1>4, <1>5, <2>1, <2>2 DEF CountInv
<1>7. DpInv'
  BY <1>1 DEF DpInv
<1>8. ClientInv'
  BY <1>1, <1>2 DEF ClientInv
<1>9. OneMover'
  <2>1. CASE rec'.gets = {} /\ (\A k \in Kinds : rec'.cbs[k] = 0) /\ (Saver' => rec'.puts = 0)
    <3>1. Quiet'
      BY <2>1, QuietIs
    <3> QED BY <1>1, <1>4, <2>1, <3>1 DEF OneMover, Resting
  <2>2. CASE /\ rec'.puts = 0 /\ ~Saver'
             /\ \A k \in PutKinds : rec'.cbs[k] = 0
    <3>1. \A k \in Kinds : rec'.cbs[k] # 0 => k = "get"
      BY <2>2 DEF Kinds
    <3> QED BY <1>1, <1>4, <2>2, <3>1 DEF OneMover
  <2> QED BY <2>1, <2>2
<1> QED BY <1>3, <1>6, <1>7, <1>8, <1>9

\* A scan begins.
Begun(q) ==
  /\ ~rec.busy /\ rec.xsc /\ q.busy /\ q.xsc /\ q.pxsc /\ q.faze \in Before
  /\ q.dstate = "UNPACKED" /\ q.puts = 1 /\ q.wcnt = 0 /\ q.cpt = 0
  /\ q.validBuf = rec.validBuf /\ q.await = rec.await /\ q.told = rec.told
  /\ q.gets = {} /\ \A k \in Kinds : q.cbs[k] = 0

\* It goes on: with the triggers, with the data of this point, or with the next point.
GoneOn(q) ==
  /\ rec.busy /\ rec.xsc /\ q.busy /\ q.xsc /\ q.pxsc /\ q.wcnt = rec.wcnt
  /\ q.dstate = "UNPACKED" /\ q.validBuf = rec.validBuf /\ q.await = rec.await /\ q.told = rec.told
  /\ \/ /\ q.cpt = rec.cpt /\ q.gets = {} /\ \A k \in Kinds : q.cbs[k] = 0
        /\ \/ q.faze = rec.faze /\ q.puts = 0 /\ rec.faze \notin Moving \cup Reading
           \/ q.faze = "TRIG_DETCTRS" /\ q.puts = 1 /\ rec.faze \in Moving
     \/ /\ Recordable(rec) /\ q.cpt = rec.cpt /\ q.faze = "RECORD_SCALAR_DATA" /\ q.puts = 0
        /\ Detectors # {} /\ q.gets = Detectors /\ q.cbs["get"] = Cardinality(Detectors)
        /\ \A k \in PutKinds : q.cbs[k] = 0
     \/ /\ Recordable(rec) /\ q.cpt = rec.cpt + 1 /\ q.faze = "MOVE_MOTORS" /\ q.puts = 1
        /\ q.gets = {} /\ \A k \in Kinds : q.cbs[k] = 0

\* May it leave the points behind in r, with those that are recorded?
PointsIn(q) == q.cpt = rec.cpt \/ (q.cpt = rec.cpt + 1 /\ Recordable(rec) /\ rec.xsc)

\* The points are done, the data are packed, and something follows.
Followed(q) ==
  /\ rec.busy /\ q.busy /\ ~q.xsc /\ ~q.pxsc /\ q.wcnt = rec.wcnt /\ PointsIn(q)
  /\ q.gets = {} /\ (\A k \in Kinds : q.cbs[k] = 0) /\ q.dstate = "POSTED"
  /\ \/ /\ rec.xsc /\ Simple /\ ~rec.await /\ ~q.await /\ q.told = rec.told
        /\ q.faze \in {"RETRACE_MOVE", "AFTER_SCAN_DO"} /\ q.puts = 1
     \/ /\ ~rec.xsc /\ rec.dstate = "POSTED" /\ q.validBuf = rec.validBuf
        /\ q.await = rec.await /\ q.told = rec.told
        /\ \/ q.faze = "AFTER_SCAN_DO" /\ q.puts = 1
           \/ q.faze = rec.faze /\ q.puts = 0

\* The points are done, and the data are to be read or saved.
Packing(q) ==
  /\ rec.busy /\ q.busy /\ ~q.xsc /\ ~q.pxsc /\ q.wcnt = rec.wcnt /\ PointsIn(q)
  /\ q.faze = "SCAN_DONE" /\ q.dstate # "PACKED" /\ PackOutcome(q, rec)
  /\ rec.dstate \in {"UNPACKED", "ARRAY_READ_WAIT", "RECORD_ARRAY_DATA", "SAVE_DATA_WAIT"}
  /\ q.await = rec.await /\ q.told = rec.told

\* The scan is over.
Over(q) ==
  /\ rec.busy /\ ~q.busy /\ ~q.xsc /\ ~q.pxsc /\ q.wcnt = rec.wcnt /\ PointsIn(q)
  /\ q.faze = "IDLE" /\ q.dstate = "POSTED" /\ q.puts = 0
  /\ q.gets = {} /\ (\A k \in Kinds : q.cbs[k] = 0)
  /\ \/ /\ rec.dstate # "POSTED" /\ (rec.dstate = "UNPACKED" => ArrayTriggers = {})
        /\ ~rec.await /\ (q.await <=> Record.aawait)
        /\ q.told = IF Record.aawait THEN rec.told + 1 ELSE rec.told
     \/ /\ rec.dstate = "POSTED" /\ q.validBuf = rec.validBuf
        /\ q.await = rec.await /\ q.told = rec.told

Outcome(q) == Begun(q) \/ GoneOn(q) \/ Followed(q) \/ Packing(q) \/ Over(q)

\* When no answer has overtaken readArrays(), process() goes on from the record as it is.
LEMMA ProcessUnrushed ==
  ASSUME rec \in Fields, Process, ~rushed' \/ ArrayDetectors = {}
  PROVE  /\ UNCHANGED <<cb, onces>>
         /\ \E deviates : rec' = Processed(rec, proc = "busy", deviates)
<1>1. PICK deviates, early :
        /\ rec' = Processed([rec EXCEPT !.early = early], proc = "busy", deviates)
        /\ early \in [answered : SUBSET ArrayDetectors, lost : {0, 1}]
        /\ rushed' = (rushed \/ early # NoneEarly)
        /\ (early = NoneEarly /\ UNCHANGED <<cb, onces>>) \/ Early(early)
  BY DEF Process
<1>2. early = NoneEarly /\ UNCHANGED <<cb, onces>>
  <2>1. CASE ~rushed'
    <3>1. early = NoneEarly
      BY <1>1, <2>1
    <3>2. ~Early(early)
      BY <3>1 DEF Early, NoneEarly
    <3> QED BY <1>1, <3>1, <3>2
  <2>2. CASE ArrayDetectors = {}
    <3>1. early.answered = {}
      BY <1>1, <2>2
    <3>2. ~Early(early)
      BY <3>1 DEF Early
    <3> QED BY <1>1, <3>2
  <2> QED BY <2>1, <2>2
<1>3. [rec EXCEPT !.early = early] = rec
  BY <1>2 DEF Fields
<1> QED BY <1>1, <1>2, <1>3

\* A record that did not scan begins to.
LEMMA NewScanIs ==
  ASSUME IInv, proc # "idle", ~rec.busy, NEW q, q = NewScan(rec)
  PROVE  q \in Fields /\ q.kill = 0 /\ ~q.paus /\ ~q.wtng /\ Begun(q)
<1>0. /\ rec \in Fields /\ setup \in DOMAIN Setups
      /\ rec.puts = 0 /\ rec.gets = {} /\ rec.kill = 0 /\ ~rec.paus /\ rec.xsc
      /\ rec.xsc \in BOOLEAN /\ rec.paus \in BOOLEAN
  BY ProcessFacts DEF IInv, Types, Fields
<1>1. PICK r : r = [NoWait(rec) EXCEPT !.dstate = "UNPACKED", !.cbs = Counts,
                                       !.faze = "INIT_SCAN", !.busy = TRUE]
  OBVIOUS
<1>2. r = [rec EXCEPT !.wcnt = 0, !.wtng = FALSE, !.dstate = "UNPACKED", !.cbs = Counts,
                      !.faze = "INIT_SCAN", !.busy = TRUE]
  BY <1>1 DEF NoWait
<1>3. Counts \in [Kinds -> Int] /\ \A k \in Kinds : Counts[k] = 0
  BY DEF Counts, Kinds, PutKinds
<1>4. /\ r \in Fields /\ r.wcnt = 0 /\ ~r.wtng /\ r.dstate = "UNPACKED" /\ r.cbs = Counts
      /\ r.faze = "INIT_SCAN" /\ r.busy /\ r.kill = 0 /\ ~r.paus /\ r.xsc /\ r.puts = 0
      /\ r.gets = {} /\ r.validBuf = rec.validBuf /\ r.await = rec.await /\ r.told = rec.told
  BY <1>0, <1>2, <1>3 DEF Fields, Fazes, NotPacked
<1>5. PICK p : p = InitScan(r)
  OBVIOUS
<1>6. PICK f \in Before : p = [r EXCEPT !.cpt = 0, !.puts = 1, !.faze = f]
  <2>1. PICK f : f = IF Record.before # "none" /\ r.faze = "INIT_SCAN" THEN "BEFORE_SCAN"
                                                                     ELSE "MOVE_MOTORS"
    OBVIOUS
  <2>2. p = [r EXCEPT !.cpt = 0, !.puts = r.puts + 1, !.faze = f]
    BY <1>5, <2>1 DEF InitScan
  <2>3. r.puts + 1 = 1 /\ f \in Before
    BY <1>4, <2>1 DEF Before
  <2> QED BY <2>2, <2>3
<1>7. /\ p \in Fields /\ p.wcnt = 0 /\ ~p.wtng /\ p.dstate = "UNPACKED" /\ p.cbs = Counts
      /\ p.faze = f /\ p.busy /\ p.kill = 0 /\ ~p.paus /\ p.xsc /\ p.puts = 1 /\ p.cpt = 0
      /\ p.gets = {} /\ p.validBuf = rec.validBuf /\ p.await = rec.await /\ p.told = rec.told
  BY <1>4, <1>6 DEF Fields, Fazes, Before
<1>8. q = Finish(p)
  BY <1>1, <1>5 DEF NewScan
<1>9. p.faze # "SCAN_DONE"
  BY <1>7 DEF Before
<1>10. /\ q \in Fields /\ SameFlow(q, p) /\ SameReads(q, p)
       /\ q.xsc = p.xsc /\ q.pxsc = p.xsc /\ q.cpt = p.cpt
       /\ q.puts = p.puts /\ q.validBuf = p.validBuf
       /\ q.busy /\ q.faze = p.faze
       /\ q.dstate = p.dstate /\ q.await = p.await /\ q.told = p.told
  <2>1. PICK over : over = (p.busy /\ p.faze = "SCAN_DONE" /\ p.dstate \in {"PACKED", "POSTED"})
    OBVIOUS
  <2>2. ~over /\ p.dstate # "PACKED" /\ p.busy
    BY <1>7, <1>9, <2>1
  <2>3. p \in Fields /\ setup \in DOMAIN Setups
    BY <1>0, <1>7
  <2>4. /\ q \in Fields /\ SameFlow(q, p) /\ SameReads(q, p)
        /\ q.xsc = p.xsc /\ q.pxsc = p.xsc /\ q.cpt = p.cpt
        /\ q.puts = p.puts /\ q.validBuf = p.validBuf
        /\ (q.busy <=> p.busy /\ ~over) /\ q.faze = IF over THEN "IDLE" ELSE p.faze
        /\ p.dstate # "PACKED" => q.dstate = p.dstate /\ q.await = p.await /\ q.told = p.told
    BY <1>8, <2>1, <2>3, FinishIs
  <2> QED BY <2>2, <2>4
<1> QED BY <1>0, <1>3, <1>7, <1>10 DEF Begun, SameFlow, SameReads

\* The record is finished after the points: it stays, or the scan is over.
LEMMA FinishEnds ==
  ASSUME IInv, proc # "idle", rec.busy, NEW r \in Fields, SameFlow(r, rec), ~r.xsc, r.busy,
         r.await = rec.await, r.told = rec.told, PointsIn(r), r.faze = "SCAN_DONE",
         rec.dstate \in {"UNPACKED", "ARRAY_READ_WAIT", "RECORD_ARRAY_DATA", "SAVE_DATA_WAIT"},
         PackOutcome(r, rec), NEW q, q = Finish(r)
  PROVE  q \in Fields /\ SameFlow(q, rec) /\ (Packing(q) \/ Over(q))
<1>0. /\ rec \in Fields /\ setup \in DOMAIN Setups
      /\ rec.puts = 0 /\ rec.gets = {} /\ \A k \in Kinds : rec.cbs[k] = 0
  BY ProcessFacts DEF IInv, Types
<1>1. CASE r.dstate # "PACKED"
  <2>1. r.dstate # "POSTED"
    BY DEF PackOutcome
  <2>2. /\ q \in Fields /\ SameFlow(q, r) /\ SameReads(q, r)
        /\ q.xsc = r.xsc /\ q.pxsc = r.xsc /\ q.cpt = r.cpt
        /\ q.puts = r.puts /\ q.validBuf = r.validBuf
        /\ q.busy /\ q.faze = r.faze
        /\ q.dstate = r.dstate /\ q.await = r.await /\ q.told = r.told
    <3>1. PICK over : over = (r.busy /\ r.faze = "SCAN_DONE" /\ r.dstate \in {"PACKED", "POSTED"})
      OBVIOUS
    <3>2. ~over
      BY <1>1, <2>1, <3>1
    <3> QED BY <1>0, <1>1, <3>1, <3>2, FinishIs
  <2>3. PackOutcome(q, rec)
    BY <2>2 DEF PackOutcome, SameReads
  <2>4. Packing(q)
    BY <1>1, <2>2, <2>3 DEF Packing, PointsIn, SameFlow
  <2> QED BY <2>2, <2>4 DEF SameFlow
<1>2. CASE r.dstate = "PACKED"
  <2>1. /\ q \in Fields /\ SameFlow(q, r) /\ SameReads(q, r)
        /\ q.xsc = r.xsc /\ q.pxsc = r.xsc /\ q.cpt = r.cpt
        /\ q.puts = r.puts /\ q.validBuf = r.validBuf
        /\ ~q.busy /\ q.faze = "IDLE"
        /\ q.dstate = "POSTED" /\ (q.await <=> r.await \/ Record.aawait)
        /\ q.told = IF Record.aawait THEN r.told + 1 ELSE r.told
    <3>1. q.busy \in BOOLEAN
      BY <1>0, FinishIs DEF Fields
    <3> QED BY <1>0, <1>2, <3>1, FinishIs
  <2>2. /\ ~rec.await /\ SameReads(r, rec) /\ r.puts = rec.puts
        /\ rec.dstate = "UNPACKED" => ArrayTriggers = {}
    BY <1>2 DEF PackOutcome
  <2>3. Over(q)
    BY <1>0, <2>1, <2>2 DEF Over, PointsIn, SameFlow, SameReads
  <2> QED BY <2>1, <2>3 DEF SameFlow
<1> QED BY <1>1, <1>2

\* A scan that is not over stays as it is.
LEMMA FinishKeeps ==
  ASSUME setup \in DOMAIN Setups, NEW r \in Fields, NEW q, q = Finish(r), r.dstate # "PACKED",
         r.faze # "SCAN_DONE" \/ r.dstate # "POSTED"
  PROVE  /\ q \in Fields /\ SameFlow(q, r) /\ SameReads(q, r) /\ SameData(q, r)
         /\ q.xsc = r.xsc /\ q.pxsc = r.xsc /\ q.cpt = r.cpt /\ q.puts = r.puts
         /\ q.busy = r.busy /\ q.faze = r.faze
<1>1. PICK over : over = (r.busy /\ r.faze = "SCAN_DONE" /\ r.dstate \in {"PACKED", "POSTED"})
  OBVIOUS
<1>2. ~over
  BY <1>1
<1>3. /\ q \in Fields /\ SameFlow(q, r) /\ SameReads(q, r)
      /\ q.xsc = r.xsc /\ q.pxsc = r.xsc /\ q.cpt = r.cpt
      /\ q.puts = r.puts /\ q.validBuf = r.validBuf
      /\ (q.busy <=> r.busy /\ ~over) /\ q.faze = IF over THEN "IDLE" ELSE r.faze
      /\ r.dstate # "PACKED" => q.dstate = r.dstate /\ q.await = r.await /\ q.told = r.told
  BY <1>1, FinishIs
<1>4. q.busy = r.busy
  BY <1>2, <1>3 DEF Fields
<1> QED BY <1>2, <1>3, <1>4 DEF SameData

\* The scan goes on with its points, or has no more.
LEMMA ContScanEnds ==
  ASSUME IInv, OneThing(Record), proc # "idle", rec.busy, rec.xsc, NEW deviates,
         NEW q, q = Finish(ContScan(rec, deviates))
  PROVE  /\ q \in Fields /\ SameFlow(q, rec)
         /\ GoneOn(q) \/ Followed(q) \/ Packing(q) \/ Over(q)
<1>1. /\ rec \in Fields /\ setup \in DOMAIN Setups /\ rec.puts = 0 /\ rec.gets = {}
      /\ (\A k \in Kinds : rec.cbs[k] = 0) /\ rec.dstate = "UNPACKED"
      /\ rec.faze \in Before \cup Moving \cup Reading /\ rec.cbs["get"] = 0
      /\ rec.await => Record.aawait
  BY ProcessFacts DEF IInv, Types, DataInv, Kinds
<1>2. PICK c : c = ContScan(rec, deviates)
  OBVIOUS
<1>3. /\ c \in Fields /\ SameFlow(c, rec) /\ c.await = rec.await /\ c.told = rec.told
      /\ c.pxsc = rec.pxsc /\ c.busy = rec.busy /\ ContOutcome(c, rec)
  BY <1>1, <1>2, ContScanIs
<1>4. ASSUME ~c.xsc, EndOutcome(c, rec), PointsIn(c)
      PROVE  q \in Fields /\ SameFlow(q, rec) /\ (Followed(q) \/ Packing(q) \/ Over(q))
  <2>1. CASE c.faze = "SCAN_DONE" /\ PackOutcome(c, rec)
    <3>1. q = Finish(c)
      BY <1>2
    <3> QED BY <1>1, <1>3, <1>4, <2>1, <3>1, FinishEnds
  <2>2. CASE /\ Simple /\ ~rec.await /\ c.dstate = "PACKED" /\ SameReads(c, rec)
             /\ c.faze \in {"RETRACE_MOVE", "AFTER_SCAN_DO"} /\ c.puts = rec.puts + 1
    <3>1. PICK over : over = (c.busy /\ c.faze = "SCAN_DONE" /\ c.dstate \in {"PACKED", "POSTED"})
      OBVIOUS
    <3>2. ~over
      BY <2>2, <3>1
    <3>3. /\ q \in Fields /\ SameFlow(q, c) /\ SameReads(q, c)
          /\ q.xsc = c.xsc /\ q.pxsc = c.xsc /\ q.cpt = c.cpt /\ q.puts = c.puts
          /\ (q.busy <=> c.busy /\ ~over) /\ q.faze = IF over THEN "IDLE" ELSE c.faze
          /\ c.dstate = "PACKED" => /\ q.dstate = "POSTED" /\ (q.await <=> c.await \/ Record.aawait)
                                   /\ q.told = IF Record.aawait THEN c.told + 1 ELSE c.told
      <4>1. q = Finish(c) /\ c \in Fields /\ setup \in DOMAIN Setups
        BY <1>1, <1>2, <1>3
      <4> QED BY <3>1, <4>1, FinishIs
    <3>4. /\ ~q.xsc /\ ~q.pxsc /\ q.busy /\ q.wcnt = rec.wcnt /\ PointsIn(q) /\ q.gets = {}
          /\ \A k \in Kinds : q.cbs[k] = 0
      BY <1>1, <1>3, <1>4, <2>2, <3>2, <3>3 DEF SameFlow, SameReads, PointsIn
    <3>5. /\ q.dstate = "POSTED" /\ ~q.await /\ q.told = rec.told /\ q.puts = 1
          /\ q.faze \in {"RETRACE_MOVE", "AFTER_SCAN_DO"}
      BY <1>1, <1>3, <2>2, <3>2, <3>3 DEF Simple
    <3>6. Followed(q)
      BY <2>2, <3>4, <3>5 DEF Followed
    <3> QED BY <1>3, <3>3, <3>6 DEF SameFlow
  <2> QED BY <1>4, <2>1, <2>2 DEF EndOutcome
<1>5. ASSUME c.xsc, c.dstate = "UNPACKED", c.validBuf = rec.validBuf,
             NEW cpt, NEW faze, NEW puts, NEW gets, NEW cbs,
             c.cpt = cpt, c.faze = faze, c.puts = puts, c.gets = gets, c.cbs = cbs
      PROVE  /\ q \in Fields /\ SameFlow(q, rec)
             /\ q.busy /\ q.xsc /\ q.pxsc /\ q.wcnt = rec.wcnt
             /\ q.dstate = "UNPACKED" /\ q.validBuf = rec.validBuf
             /\ q.await = rec.await /\ q.told = rec.told
             /\ q.cpt = cpt /\ q.faze = faze /\ q.puts = puts /\ q.gets = gets /\ q.cbs = cbs
  <2>1. /\ q \in Fields /\ SameFlow(q, c) /\ SameReads(q, c) /\ SameData(q, c)
        /\ q.xsc = c.xsc /\ q.pxsc = c.xsc /\ q.cpt = c.cpt /\ q.puts = c.puts
        /\ q.busy = c.busy /\ q.faze = c.faze
    BY <1>1, <1>2, <1>3, <1>5, FinishKeeps
  <2> QED BY <1>3, <1>5, <2>1 DEF SameFlow, SameReads, SameData
<1>6. CASE /\ c.xsc = rec.xsc /\ c.cpt = rec.cpt /\ SameReads(c, rec)
           /\ c.dstate = rec.dstate /\ c.validBuf = rec.validBuf
           /\ \/ c.faze = rec.faze /\ c.puts = rec.puts /\ rec.faze \notin Moving \cup Reading
              \/ c.faze = "TRIG_DETCTRS" /\ c.puts = rec.puts + 1 /\ rec.faze \in Moving
  <2>1. /\ q \in Fields /\ SameFlow(q, rec)
        /\ q.busy /\ q.xsc /\ q.pxsc /\ q.wcnt = rec.wcnt
        /\ q.dstate = "UNPACKED" /\ q.validBuf = rec.validBuf
        /\ q.await = rec.await /\ q.told = rec.told
        /\ q.cpt = rec.cpt /\ q.faze = c.faze /\ q.puts = c.puts /\ q.gets = {} /\ q.cbs = rec.cbs
    BY <1>1, <1>5, <1>6 DEF SameReads
  <2>2. GoneOn(q)
    BY <1>1, <1>6, <2>1 DEF GoneOn
  <2> QED BY <2>1, <2>2
<1>7. CASE Recordable(rec) /\ ReadOutcome(c, rec)
  <2>1. CASE /\ c.xsc = rec.xsc /\ c.faze = "RECORD_SCALAR_DATA" /\ c.puts = rec.puts
             /\ c.cpt = rec.cpt /\ c.dstate = rec.dstate /\ c.validBuf = rec.validBuf
             /\ Detectors # {} /\ c.gets = rec.gets \cup Detectors
             /\ c.cbs = [rec.cbs EXCEPT !["get"] = Cardinality(Detectors)]
    <3>1. /\ q \in Fields /\ SameFlow(q, rec)
          /\ q.busy /\ q.xsc /\ q.pxsc /\ q.wcnt = rec.wcnt
          /\ q.dstate = "UNPACKED" /\ q.validBuf = rec.validBuf
          /\ q.await = rec.await /\ q.told = rec.told
          /\ q.cpt = rec.cpt /\ q.faze = "RECORD_SCALAR_DATA" /\ q.puts = 0
          /\ q.gets = c.gets /\ q.cbs = c.cbs
      BY <1>1, <1>5, <2>1
    <3>2. c.gets = Detectors
      BY <1>1, <2>1
    <3>3. c.cbs["get"] = Cardinality(Detectors) /\ \A k \in PutKinds : c.cbs[k] = 0
      BY <1>1, <2>1 DEF Fields, Kinds, PutKinds
    <3>4. GoneOn(q)
      BY <1>7, <2>1, <3>1, <3>2, <3>3 DEF GoneOn
    <3> QED BY <3>1, <3>4
  <2>2. CASE /\ c.cpt = rec.cpt + 1
             /\ c.xsc = rec.xsc /\ c.faze = "MOVE_MOTORS" /\ c.puts = rec.puts + 1
             /\ SameReads(c, rec) /\ c.dstate = rec.dstate /\ c.validBuf = rec.validBuf
    <3>1. /\ q \in Fields /\ SameFlow(q, rec)
          /\ q.busy /\ q.xsc /\ q.pxsc /\ q.wcnt = rec.wcnt
          /\ q.dstate = "UNPACKED" /\ q.validBuf = rec.validBuf
          /\ q.await = rec.await /\ q.told = rec.told
          /\ q.cpt = rec.cpt + 1 /\ q.faze = "MOVE_MOTORS" /\ q.puts = c.puts
          /\ q.gets = c.gets /\ q.cbs = c.cbs
      BY <1>1, <1>5, <2>2
    <3>2. GoneOn(q)
      BY <1>1, <1>7, <2>2, <3>1 DEF GoneOn, SameReads
    <3> QED BY <3>1, <3>2
  <2>3. CASE c.cpt = rec.cpt + 1 /\ ~c.xsc /\ EndOutcome(c, rec)
    BY <1>4, <1>7, <2>3 DEF PointsIn
  <2> QED BY <1>7, <2>1, <2>2, <2>3 DEF ReadOutcome, RecordOutcome
<1>8. CASE c.cpt = rec.cpt /\ ~c.xsc /\ EndOutcome(c, rec)
  BY <1>4, <1>8 DEF PointsIn
<1> QED BY <1>3, <1>6, <1>7, <1>8 DEF ContOutcome

\* What is left to do once the points are done.
LEMMA AfterBusinessIs ==
  ASSUME IInv, proc # "idle", rec.busy, ~rec.xsc, NEW q, q = AfterBusiness(rec)
  PROVE  q \in Fields /\ SameFlow(q, rec) /\ (Followed(q) \/ Packing(q) \/ Over(q))
<1>1. /\ rec \in Fields /\ setup \in DOMAIN Setups /\ rec.puts = 0 /\ rec.gets = {}
      /\ (\A k \in Kinds : rec.cbs[k] = 0) /\ rec.cbs["get"] = 0
      /\ rec.dstate \notin {"UNPACKED", "PACKED", "TRIG_ARRAY_READ", "ARRAY_GET_CALLBACK_WAIT"}
      /\ rec.faze \in After /\ ~rec.pxsc /\ ~(rec.dstate = "SAVE_DATA_WAIT" /\ rec.await)
  BY ProcessFacts DEF Kinds, Saver, IInv, Types
<1>2. rec.dstate \in {"ARRAY_READ_WAIT", "RECORD_ARRAY_DATA", "SAVE_DATA_WAIT", "POSTED"}
  BY <1>1 DEF Fields, NotPacked
<1>3. CASE rec.dstate # "POSTED"
  <2>1. PICK p : p = PackData(rec)
    OBVIOUS
  <2>2. rec.dstate \in NotPacked /\ rec.faze = "SCAN_DONE"
    BY <1>2, <1>3 DEF NotPacked, IInv, DataInv
  <2>3. /\ p \in Fields /\ SameFlow(p, rec) /\ p.await = rec.await /\ p.told = rec.told
        /\ p.xsc = rec.xsc /\ p.pxsc = rec.pxsc /\ p.busy = rec.busy /\ p.faze = rec.faze
        /\ p.cpt = rec.cpt /\ PackOutcome(p, rec)
    BY <1>1, <1>2, <1>3, <2>1, PackDataIs
  <2>4. CASE p.dstate \in NotPacked
    <3>1. q = p
      BY <2>1, <2>2, <2>4 DEF AfterBusiness
    <3>2. p.dstate # "PACKED"
      BY <2>4 DEF NotPacked
    <3>3. Packing(p)
      BY <1>1, <1>2, <1>3, <2>2, <2>3, <3>2 DEF Packing, PointsIn, SameFlow
    <3> QED BY <2>3, <3>1, <3>3
  <2>5. CASE p.dstate \notin NotPacked
    <3>1. q = Finish(p)
      BY <2>1, <2>2, <2>3, <2>5 DEF AfterBusiness
    <3>2. PointsIn(p)
      BY <2>3 DEF PointsIn
    <3> QED BY <1>2, <1>3, <2>2, <2>3, <3>1, <3>2, FinishEnds
  <2> QED BY <2>4, <2>5
<1>4. CASE rec.dstate = "POSTED"
  <2>1. q = IF rec.faze = "RETRACE_WAIT" THEN Finish(DoAfterScan(rec))
            ELSE IF rec.faze = "AFTER_SCAN_WAIT" THEN Finish([rec EXCEPT !.faze = "SCAN_DONE"])
            ELSE Finish(rec)
    BY <1>4 DEF AfterBusiness, NotPacked
  <2>2. PICK r : r = IF rec.faze = "RETRACE_WAIT" THEN DoAfterScan(rec)
                     ELSE IF rec.faze = "AFTER_SCAN_WAIT" THEN [rec EXCEPT !.faze = "SCAN_DONE"]
                     ELSE rec
    OBVIOUS
  <2>3. q = Finish(r)
    BY <2>1, <2>2
  <2>4. \/ r = [rec EXCEPT !.faze = "AFTER_SCAN_DO", !.puts = rec.puts + 1]
        \/ r = [rec EXCEPT !.faze = "SCAN_DONE"]
        \/ r = rec
    BY <2>2 DEF DoAfterScan
  <2>5. /\ r \in Fields /\ SameFlow(r, rec) /\ SameReads(r, rec) /\ SameData(r, rec)
        /\ ~r.xsc /\ r.busy /\ r.cpt = rec.cpt
        /\ \/ r.faze = "AFTER_SCAN_DO" /\ r.puts = 1
           \/ r.faze \in {"SCAN_DONE", rec.faze} /\ r.puts = 0
    <3>1. rec.puts + 1 \in Nat /\ rec.puts + 1 = 1
      BY <1>1
    <3>2. CASE r = [rec EXCEPT !.faze = "AFTER_SCAN_DO", !.puts = rec.puts + 1]
      BY <1>1, <3>1, <3>2 DEF Fields, Fazes, SameFlow, SameReads, SameData
    <3>3. CASE r = [rec EXCEPT !.faze = "SCAN_DONE"]
      BY <1>1, <3>3 DEF Fields, Fazes, SameFlow, SameReads, SameData
    <3>4. CASE r = rec
      BY <1>1, <3>4 DEF SameFlow, SameReads, SameData
    <3> QED BY <2>4, <3>2, <3>3, <3>4
  <2>6. r.dstate = "POSTED" /\ r.await = rec.await /\ r.told = rec.told /\ r.validBuf = rec.validBuf
    BY <1>4, <2>5 DEF SameData
  <2>7. CASE r.faze = "SCAN_DONE"
    <3>1. PICK over : over = (r.busy /\ r.faze = "SCAN_DONE" /\ r.dstate \in {"PACKED", "POSTED"})
      OBVIOUS
    <3>2. over
      BY <2>5, <2>6, <2>7, <3>1
    <3>3. setup \in DOMAIN Setups /\ r \in Fields
      BY <1>1, <2>5
    <3>4. /\ q \in Fields /\ SameFlow(q, r) /\ SameReads(q, r)
          /\ q.xsc = r.xsc /\ q.pxsc = r.xsc /\ q.cpt = r.cpt
          /\ q.puts = r.puts /\ q.validBuf = r.validBuf
          /\ (q.busy <=> r.busy /\ ~over) /\ q.faze = IF over THEN "IDLE" ELSE r.faze
          /\ r.dstate # "PACKED" => q.dstate = r.dstate /\ q.await = r.await /\ q.told = r.told
      BY <2>3, <3>1, <3>3, FinishIs
    <3>5. Over(q)
      BY <1>1, <1>4, <2>5, <2>6, <2>7, <3>2, <3>4 DEF Over, PointsIn, SameFlow, SameReads
    <3> QED BY <2>5, <3>4, <3>5 DEF SameFlow
  <2>8. CASE r.faze # "SCAN_DONE"
    <3>1. /\ q \in Fields /\ SameFlow(q, r) /\ SameReads(q, r) /\ SameData(q, r)
          /\ q.xsc = r.xsc /\ q.pxsc = r.xsc /\ q.cpt = r.cpt /\ q.puts = r.puts
          /\ q.busy = r.busy /\ q.faze = r.faze
      BY <1>1, <2>3, <2>5, <2>6, <2>8, FinishKeeps
    <3>2. Followed(q)
      BY <1>1, <1>4, <2>5, <2>6, <2>8, <3>1 DEF Followed, PointsIn, SameFlow, SameReads, SameData
    <3> QED BY <2>5, <3>1, <3>2 DEF SameFlow
  <2> QED BY <2>7, <2>8
<1> QED BY <1>3, <1>4

\* What a call of process() does.
LEMMA ProcessIs ==
  ASSUME IInv, OneThing(Record), Process, ~rushed', NEW q, q = rec'
  PROVE  /\ proc # "idle" /\ proc' = "idle"
         /\ UNCHANGED <<dp, cb, put, dly, onces, saving, owed, scans, zeros, pauses, holds, setup>>
         /\ q \in Fields /\ q.kill = 0 /\ ~q.paus /\ ~q.wtng
         /\ done' = IF rec.busy THEN done ELSE [l \in Links |-> Stale]
         /\ Outcome(q)
<1>1. /\ proc # "idle" /\ proc' = "idle"
      /\ UNCHANGED <<dp, cb, dly, onces, saving, owed, scans, zeros, pauses, holds, setup>>
      /\ IF BrandNew THEN /\ put' = [l \in Links |-> IF put[l] = None THEN None ELSE Stale]
                          /\ done' = [l \in Links |-> Stale]
                     ELSE UNCHANGED <<put, done>>
  <2>1. UNCHANGED <<cb, onces>>
    BY ProcessUnrushed DEF IInv, Types
  <2> QED BY <2>1 DEF Process, linkVars, clientVars
<1>2. /\ proc = "quiet" /\ ~rec.wtng /\ rec.kill = 0 /\ ~rec.paus
      /\ \A l \in Links : put[l] = None
      /\ ~rec.busy => rec.xsc /\ ~rec.pxsc
      /\ rec.busy => rec.pxsc = rec.xsc
      /\ rec.busy /\ rec.xsc => /\ rec.dstate = "UNPACKED"
                               /\ rec.faze \in Before \cup Moving \cup Reading
      /\ rec.busy /\ ~rec.xsc => rec.faze \in After
  BY <1>1, ProcessFacts
<1>3. put' = put /\ done' = IF rec.busy THEN done ELSE [l \in Links |-> Stale]
  <2>1. BrandNew <=> ~rec.busy
    BY <1>2 DEF BrandNew
  <2>2. put = [l \in Links |-> IF put[l] = None THEN None ELSE Stale]
    BY <1>2 DEF IInv, Types
  <2> QED BY <1>1, <2>1, <2>2
<1>4. PICK deviates : q = IF rec.xsc
                          THEN IF ~rec.pxsc THEN NewScan(rec)
                               ELSE IF rec.faze = "BEFORE_SCAN_WAIT" THEN Finish(InitScan(rec))
                               ELSE IF rec.dstate \in {"SAVE_DATA_WAIT", "ARRAY_READ_WAIT"}
                                 THEN Finish(EndScan(rec))
                               ELSE Finish(ContScan(rec, deviates))
                          ELSE IF rec.faze = "BEFORE_SCAN_WAIT" THEN Finish(InitScan(rec))
                               ELSE AfterBusiness(rec)
  <2>1. (proc = "busy") = FALSE
    BY <1>2
  <2>2. PICK deviates : q = Processed(rec, FALSE, deviates)
    BY <2>1, ProcessUnrushed DEF IInv, Types
  <2>3. ~(rec.kill > 0) /\ rec.kill = 0 /\ ~rec.paus /\ ~rec.wtng
    BY <1>2
  <2>4. CASE rec.xsc
    <3>1. ~(rec.busy /\ ~rec.pxsc)
      BY <1>2, <2>4
    <3> QED BY <2>2, <2>3, <2>4, <3>1 DEF Processed
  <2>5. CASE ~rec.xsc
    <3>1. rec.busy /\ ~rec.pxsc
      BY <1>2, <2>5
    <3> QED BY <2>2, <2>3, <2>5, <3>1 DEF Processed
  <2> QED BY <2>4, <2>5
<1>5. CASE ~rec.busy
  <2>1. q = NewScan(rec)
    BY <1>2, <1>4, <1>5
  <2> QED BY <1>1, <1>3, <1>5, <2>1, NewScanIs DEF Outcome
<1>6. CASE rec.busy /\ rec.xsc
  <2>1. q = Finish(ContScan(rec, deviates))
    BY <1>2, <1>4, <1>6 DEF Before, Moving, Reading
  <2>2. /\ q \in Fields /\ SameFlow(q, rec)
        /\ GoneOn(q) \/ Followed(q) \/ Packing(q) \/ Over(q)
    BY <1>1, <1>6, <2>1, ContScanEnds
  <2> QED BY <1>1, <1>2, <1>3, <2>2 DEF Outcome, SameFlow
<1>7. CASE rec.busy /\ ~rec.xsc
  <2>1. q = AfterBusiness(rec)
    BY <1>2, <1>4, <1>7 DEF After
  <2>2. /\ q \in Fields /\ SameFlow(q, rec) /\ (Followed(q) \/ Packing(q) \/ Over(q))
    BY <1>1, <1>7, <2>1, AfterBusinessIs
  <2> QED BY <1>1, <1>2, <1>3, <2>2 DEF Outcome, SameFlow
<1> QED BY <1>5, <1>6, <1>7

\* The put to every positioner and every detector of a point that is recorded has completed.
LEMMA PointsAreDone ==
  ASSUME IInv, proc # "idle", rec.busy, rec.xsc,
         Recordable(rec) \/ rec.faze \in Moving
  PROVE  /\ \A l \in Positioners \ Record.failing : done[l] = rec.cpt
         /\ Recordable(rec) => \A l \in Triggers \ Record.failing : done[l] = rec.cpt
<1>1. /\ \A l \in Links : put[l] = None
      /\ dp.at \in {"idle", "array"} /\ dp.todo = {} /\ rec.cpt \in Nat
      /\ Positioners \cup Triggers \subseteq Links
  BY ProcessFacts, RecordIs DEF IInv, Types, Fields
<1>2. \A l \in Links : Reached(l) => done[l] = rec.cpt
  BY <1>1 DEF Reached, None
<1>3. rec.faze \in Moving \cup Reading
  BY DEF Recordable, Moving
<1>4. \A l \in Positioners \ Record.failing : Reached(l)
  BY <1>1, <1>3 DEF IInv, PointInv
<1>5. ASSUME Recordable(rec) PROVE \A l \in Triggers \ Record.failing : Reached(l)
  BY <1>1, <1>5 DEF IInv, PointInv, Recordable
<1> QED BY <1>1, <1>2, <1>4, <1>5

\* process() keeps the invariant, whichever of these it does.
LEMMA ProcessStep == IInv /\ OneThing(Record) /\ Process /\ ~rushed' => IInv'
<1> SUFFICES ASSUME IInv, OneThing(Record), Process, ~rushed', NEW q, q = rec' PROVE IInv'
  OBVIOUS
<1>1. /\ proc # "idle" /\ proc' = "idle"
      /\ UNCHANGED <<dp, cb, put, dly, onces, saving, owed, scans, zeros, pauses, holds, setup>>
      /\ q \in Fields /\ q.kill = 0 /\ ~q.paus /\ ~q.wtng
      /\ done' = IF rec.busy THEN done ELSE [l \in Links |-> Stale]
      /\ Outcome(q)
  BY ProcessIs
<1>2. /\ Quiet /\ ~DpActive /\ ~Saver /\ ~rec.wtng /\ cb.at = "idle"
      /\ onces = 0 /\ rec.puts = 0 /\ dly = {}
      /\ rec.gets = {} /\ (\A k \in Kinds : rec.cbs[k] = 0)
      /\ \A l \in Links : put[l] = None
      /\ dp.at \in {"idle", "array"} /\ dp.todo = {}
      /\ Waits => rec.wcnt = 0 /\ owed = 0
  BY <1>1, ProcessFacts
<1>3. /\ Record' = Record /\ Simple' = Simple /\ ArrayTriggers' = ArrayTriggers
      /\ Positioners' = Positioners /\ Triggers' = Triggers
  BY <1>1, SetupStays
<1>4. done' \in [Links -> Nat \cup {Stale}]
  BY <1>1 DEF IInv, Types
<1>5. rec.told \in Nat /\ saving \in Nat /\ rec.await \in BOOLEAN
  BY DEF IInv, Types, Fields
<1>6. /\ rec.told + saving = IF rec.await THEN 1 ELSE 0
      /\ rec.await => Record.aawait
      /\ Simple => rec.dstate \in {"UNPACKED", "POSTED"}
  BY DEF IInv, DataInv
<1>7. CASE Begun(q)
  <2>1. q.puts \in {0, 1} /\ (Waits => q.wcnt = 0) /\ q.gets = {} /\ (\A k \in Kinds : q.cbs[k] = 0)
    BY <1>7 DEF Begun
  <2>2. ~Saver'
    BY <1>7 DEF Begun, Saver
  <2>3. Types' /\ OneMover' /\ CountInv' /\ DpInv' /\ ClientInv'
    BY <1>1, <1>4, <2>1, <2>2, ProcessMoves
  <2>4. FazeInv'
    BY <1>1, <1>7 DEF FazeInv, Begun
  <2>5. DataInv'
    BY <1>1, <1>3, <1>6, <1>7 DEF DataInv, Begun
  <2>6. PointInv'
    BY <1>1, <1>2, <1>7 DEF PointInv, Begun, Before, Moving, Reading
  <2> QED BY <2>3, <2>4, <2>5, <2>6 DEF IInv
<1>8. CASE GoneOn(q)
  <2>1. q.puts \in {0, 1} /\ (Waits => q.wcnt = 0)
    BY <1>2, <1>8 DEF GoneOn
  <2>2. ~Saver'
    BY <1>8 DEF GoneOn, Saver
  <2>3. Types' /\ OneMover' /\ CountInv' /\ DpInv' /\ ClientInv'
    <3>1. \/ q.gets = {} /\ (\A k \in Kinds : q.cbs[k] = 0)
          \/ /\ q.puts = 0 /\ q.cbs["get"] = Cardinality(q.gets)
             /\ \A k \in PutKinds : q.cbs[k] = 0
      BY <1>8 DEF GoneOn
    <3> QED BY <1>1, <1>4, <2>1, <2>2, <3>1, ProcessMoves
  <2>4. FazeInv'
    <3>1. q.faze \in Before \cup Moving \cup Reading
      <4>1. rec.faze \in Before \cup Moving \cup Reading
        BY <1>1, <1>8, ProcessFacts DEF GoneOn
      <4> QED BY <1>8, <4>1 DEF GoneOn, Before, Moving, Reading
    <3> QED BY <1>1, <1>8, <3>1 DEF FazeInv, GoneOn
  <2>5. DataInv'
    BY <1>1, <1>3, <1>6, <1>8 DEF DataInv, GoneOn
  <2>6. PointInv'
    <3>1. \A l \in Links : put'[l] \in {None, q.cpt}
      BY <1>1, <1>2
    <3>2. ASSUME q.faze \in Moving \cup Reading \/ dp'.at \in {"moving", "TRIG_DETCTRS"}
          PROVE  \A l \in Positioners \ Record.failing : done'[l] = q.cpt
      <4>1. q.faze \in Moving \cup Reading
        BY <1>1, <1>2, <3>2
      <4>2. q.cpt = rec.cpt /\ (Recordable(rec) \/ rec.faze \in Moving)
        BY <1>8, <4>1 DEF GoneOn, Moving, Reading
      <4> QED BY <1>1, <1>8, <4>2, PointsAreDone DEF GoneOn
    <3>3. ASSUME q.faze \in Reading
          PROVE  \A l \in Triggers \ Record.failing : done'[l] = q.cpt
      <4>1. q.cpt = rec.cpt /\ Recordable(rec)
        BY <1>8, <3>3 DEF GoneOn, Moving, Reading
      <4> QED BY <1>1, <1>8, <4>1, PointsAreDone DEF GoneOn
    <3> QED BY <1>1, <1>3, <3>1, <3>2, <3>3 DEF PointInv, Reached
  <2> QED BY <2>3, <2>4, <2>5, <2>6 DEF IInv
<1>9. CASE Followed(q)
  <2>1. /\ q.puts \in {0, 1} /\ (Waits => q.wcnt = 0) /\ q.gets = {}
        /\ \A k \in Kinds : q.cbs[k] = 0
    BY <1>2, <1>9 DEF Followed
  <2>2. ~Saver'
    BY <1>9 DEF Followed, Saver
  <2>3. Types' /\ OneMover' /\ CountInv' /\ DpInv' /\ ClientInv'
    BY <1>1, <1>4, <2>1, <2>2, ProcessMoves
  <2>4. FazeInv'
    <3>1. q.faze \in After
      <4>1. ~rec.xsc => rec.faze \in After
        BY <1>1, <1>9, ProcessFacts DEF Followed
      <4> QED BY <1>9, <4>1 DEF Followed, After
    <3>2. q.dstate \notin {"UNPACKED", "PACKED"} /\ q.busy /\ ~q.xsc /\ ~q.pxsc
      BY <1>9 DEF Followed
    <3>3. q.pxsc = q.xsc
      BY <1>1, <3>2 DEF Fields
    <3> QED BY <1>1, <3>1, <3>2, <3>3 DEF FazeInv
  <2>5. DataInv'
    <3>1. q.told + saving = (IF q.await THEN 1 ELSE 0) /\ (q.await => Record.aawait)
      BY <1>6, <1>9 DEF Followed
    <3>2. q.dstate = "POSTED"
      BY <1>9 DEF Followed
    <3> QED BY <1>1, <1>3, <3>1, <3>2 DEF DataInv
  <2>6. PointInv'
    BY <1>1, <1>2, <1>9 DEF PointInv, Followed
  <2> QED BY <2>3, <2>4, <2>5, <2>6 DEF IInv
<1>10. CASE Packing(q)
  <2>0. /\ q.wcnt = rec.wcnt /\ q.busy /\ ~q.xsc /\ ~q.pxsc /\ q.faze = "SCAN_DONE"
        /\ q.dstate # "PACKED" /\ PackOutcome(q, rec) /\ q.await = rec.await /\ q.told = rec.told
    BY <1>10 DEF Packing
  <2>1. q.puts \in {0, 1} /\ (Waits => q.wcnt = 0)
    BY <1>2, <2>0 DEF PackOutcome
  <2>2. /\ IsFiniteSet(ArrayDetectors) /\ Cardinality(ArrayDetectors) \in Nat
        /\ (Cardinality(ArrayDetectors) = 0 <=> ArrayDetectors = {})
    <3>1. IsFiniteSet(ArrayDetectors)
      BY RecordIs DEF IInv, Types
    <3> QED BY <3>1, FS_CardinalityType, FS_EmptySet
  <2>3. \/ /\ q.gets = {} /\ (\A k \in Kinds : q.cbs[k] = 0)
           /\ q.dstate \in {"TRIG_ARRAY_READ", "SAVE_DATA_WAIT"}
           /\ q.dstate = "TRIG_ARRAY_READ" => q.puts = 1 /\ ArrayTriggers # {}
           /\ q.dstate = "SAVE_DATA_WAIT" => q.puts = 0 /\ rec.await
        \/ /\ q.puts = 0 /\ q.dstate = "ARRAY_GET_CALLBACK_WAIT" /\ ArrayDetectors # {}
           /\ q.gets = ArrayDetectors /\ q.cbs["get"] = Cardinality(q.gets)
           /\ \A k \in PutKinds : q.cbs[k] = 0
    <3>1. CASE /\ q.dstate = "TRIG_ARRAY_READ" /\ ArrayTriggers # {}
               /\ SameReads(q, rec) /\ q.puts = rec.puts + 1
      BY <1>2, <3>1 DEF SameReads
    <3>2. CASE /\ q.puts = rec.puts /\ q.dstate = "SAVE_DATA_WAIT" /\ rec.await /\ SameReads(q, rec)
      BY <1>2, <3>2 DEF SameReads
    <3>3. CASE /\ q.puts = rec.puts /\ q.dstate = "ARRAY_GET_CALLBACK_WAIT" /\ ArrayDetectors # {}
               /\ q.gets = rec.gets \cup ArrayDetectors
               /\ q.cbs = [rec.cbs EXCEPT !["get"] = Cardinality(ArrayDetectors)]
      <4>1. q.gets = ArrayDetectors
        BY <1>2, <3>3
      <4>2. rec.cbs \in [Kinds -> Int]
        BY DEF IInv, Types, Fields
      <4>3. q.cbs["get"] = Cardinality(ArrayDetectors) /\ \A k \in PutKinds : q.cbs[k] = 0
        BY <1>2, <3>3, <4>2 DEF Kinds, PutKinds
      <4> QED BY <1>2, <3>3, <4>1, <4>3
    <3> QED BY <2>0, <3>1, <3>2, <3>3 DEF PackOutcome
  <2>4. Types' /\ OneMover' /\ CountInv' /\ DpInv' /\ ClientInv'
    <3>1. q.dstate = "SAVE_DATA_WAIT" \/ ~Saver'
      BY DEF Saver
    <3> QED BY <1>1, <1>4, <2>1, <2>3, <3>1, ProcessMoves
  <2>5. FazeInv'
    <3>1. q.dstate # "UNPACKED" /\ q.pxsc = q.xsc /\ q.faze \in After
      BY <1>1, <2>0, <2>3 DEF Fields, After
    <3> QED BY <1>1, <2>0, <3>1 DEF FazeInv
  <2>6. DataInv'
    <3>1. ~Simple
      BY <1>6, <2>3 DEF Simple
    <3>2. q.dstate = "ARRAY_GET_CALLBACK_WAIT" => q.cbs["get"] # 0
      BY <2>2, <2>3
    <3>3. ASSUME q.dstate # "TRIG_ARRAY_READ" PROVE \A l \in ArrayTriggers : done'[l] # Stale
      <4>1. done' = done
        BY <1>1, <1>10 DEF Packing
      <4>2. CASE rec.dstate = "UNPACKED"
        BY <2>0, <3>3, <4>2 DEF PackOutcome
      <4>3. CASE rec.dstate # "UNPACKED"
        <5>1. rec.dstate \in {"ARRAY_READ_WAIT", "RECORD_ARRAY_DATA", "SAVE_DATA_WAIT"}
          BY <1>10, <4>3 DEF Packing
        <5>2. ArrayTriggers \subseteq Links
          BY RecordIs DEF IInv, Types
        <5> QED BY <1>1, <1>2, <4>1, <5>1, <5>2 DEF IInv, DataInv
      <4> QED BY <4>2, <4>3
    <3>4. q.dstate # "ARRAY_READ_WAIT"
      BY <2>3
    <3> QED BY <1>1, <1>3, <1>6, <2>0, <2>3, <3>1, <3>2, <3>3, <3>4 DEF DataInv
  <2>7. PointInv'
    BY <1>1, <1>2, <2>0 DEF PointInv
  <2> QED BY <2>4, <2>5, <2>6, <2>7 DEF IInv
<1>11. CASE Over(q)
  <2>1. /\ q.puts \in {0, 1} /\ (Waits => q.wcnt = 0) /\ q.gets = {}
        /\ \A k \in Kinds : q.cbs[k] = 0
    BY <1>2, <1>11 DEF Over
  <2>2. ~Saver'
    BY <1>11 DEF Over, Saver
  <2>3. Types' /\ OneMover' /\ CountInv' /\ DpInv' /\ ClientInv'
    BY <1>1, <1>4, <2>1, <2>2, ProcessMoves
  <2>4. FazeInv'
    <3>1. Quiet'
      BY <2>1, QuietIs
    <3>2. Resting'
      BY <1>1, <1>2, <2>2, <3>1 DEF Resting, DpActive
    <3> QED BY <1>1, <1>2, <1>11, <3>2 DEF FazeInv, Over
  <2>5. DataInv'
    <3>1. q.told + saving = (IF q.await THEN 1 ELSE 0) /\ (q.await => Record.aawait)
      <4>1. CASE /\ ~rec.await /\ (q.await <=> Record.aawait)
                 /\ q.told = IF Record.aawait THEN rec.told + 1 ELSE rec.told
        <5>1. rec.told = 0 /\ saving = 0
          BY <1>5, <1>6, <4>1
        <5>2. q.told = IF q.await THEN 1 ELSE 0
          BY <4>1, <5>1
        <5> QED BY <4>1, <5>1, <5>2
      <4>2. CASE q.await = rec.await /\ q.told = rec.told
        BY <1>6, <4>2
      <4> QED BY <1>11, <4>1, <4>2 DEF Over
    <3>2. q.dstate = "POSTED"
      BY <1>11 DEF Over
    <3> QED BY <1>1, <1>3, <3>1, <3>2 DEF DataInv
  <2>6. PointInv'
    BY <1>1, <1>2, <1>11 DEF PointInv, Over
  <2> QED BY <2>3, <2>4, <2>5, <2>6 DEF IInv
<1> QED BY <1>1, <1>7, <1>8, <1>9, <1>10, <1>11 DEF Outcome

----------------------------------------------------------------------------
(* The invariant of the specification.                                      *)

\* Every step of a record that nobody aborts or pauses keeps the invariant.
LEMMA NextStep == IInv /\ Unstopped /\ OneThing(Record) /\ [Next]_vars /\ ~rushed' => IInv'
<1> SUFFICES ASSUME IInv, Unstopped, OneThing(Record), [Next]_vars, ~rushed' PROVE IInv'
  OBVIOUS
<1>1. CASE UNCHANGED vars
  <2>1. /\ UNCHANGED <<rec, proc, dp, cb, put, done, dly, onces, saving, owed, scans, zeros, pauses,
                       holds, setup>>
    BY <1>1 DEF vars, linkVars, clientVars, userVars
  <2>2. IInv' <=> IInv
    BY <2>1 DEF IInv, Types, OneMover, CountInv, FazeInv, DpInv, DataInv, PointInv, ClientInv,
                Flying, Kind, Triggers, ArrayTriggers, Record, LinksOf, Positioners, DpActive,
                DpCase, Saver, Resting, Quiet, Fields, Detectors, Simple, ArrayDetectors, Reached,
                Waits, Delays
  <2> QED BY <2>2
<1>2. CASE ScanOnce
  BY <1>2, ScanOnceStep
<1>3. CASE Process
  BY <1>3, ProcessStep
<1>4. CASE DoPuts
  <2>1. CASE DoPutsStarts
    BY <2>1, DoPutsStartsStep
  <2>2. CASE DoPutsBegins
    BY <2>2, DoPutsBeginsStep
  <2>3. CASE DoPutsEnds
    BY <2>3, DoPutsEndsStep
  <2>4. CASE DelayCallback
    BY <2>4, DelayCallbackStep
  <2>5. ASSUME NEW l \in Links, PutLink(l) PROVE IInv'
    <3>1. PICK k : k = Kind(l)
      OBVIOUS
    <3> QED BY <2>5, <3>1, PutLinkStep
  <2> QED BY <1>4, <2>1, <2>2, <2>3, <2>4, <2>5 DEF DoPuts
<1>5. CASE Callback
  <2>1. ASSUME NEW l \in Links, NotifyArrives(l) PROVE IInv'
    <3>1. PICK k : k = Kind(l)
      OBVIOUS
    <3> QED BY <2>1, <3>1, NotifyArrivesStep
  <2>2. CASE NotifyCounts
    BY <2>2, NotifyCountsStep
  <2>3. CASE LastCallback
    BY <2>3, LastCallbackStep
  <2>4. CASE HoldScan
    BY <2>4, HoldScanStep
  <2>5. ASSUME NEW d \in Detectors, UserGetCallback(d) PROVE IInv'
    BY <2>5, UserGetCallbackStep
  <2> QED BY <1>5, <2>1, <2>2, <2>3, <2>4, <2>5 DEF Callback
<1>6. CASE DelayExpires
  BY <1>6, DelayExpiresStep
<1>7. CASE Client
  BY <1>7, ClientStep, DataMonitorStep, ScanSavedStep DEF Client
<1>8. CASE Go
  BY <1>8 DEF Go, IInv, FazeInv
<1>9. CASE User
  <2>1. ~WriteZero /\ ~Pause
    BY DEF WriteZero, Pause, Unstopped, IInv, Types
  <2> QED BY <1>9, <2>1, StartScanStep, ClientStep DEF User
<1> QED BY <1>1, <1>2, <1>3, <1>4, <1>5, <1>6, <1>7, <1>8, <1>9 DEF Next

\* What stays true of every record: the invariant, unless somebody aborts or pauses scans or
\* an answer has overtaken readArrays().
CalmInv == setup \in DOMAIN Setups /\ (Undisturbed => IInv)

\* What Apart says of the record of this behaviour.
LEMMA ApartMeans == Apart /\ setup \in DOMAIN Setups /\ Unstopped => OneThing(Record)
BY DEF Apart, Calm, Unstopped, Record

\* What is set up stays, and so does what has been overtaken.
LEMMA SetupKept == [Next]_vars => setup' = setup /\ (rushed => rushed')
<1> SUFFICES ASSUME [Next]_vars PROVE setup' = setup /\ (rushed => rushed')
  OBVIOUS
<1>1. CASE Process
  BY <1>1 DEF Process
<1>2. CASE ScanOnce \/ DelayExpires \/ UNCHANGED vars
  BY <1>2 DEF ScanOnce, DelayExpires, vars, userVars
<1>3. CASE DoPuts
  <2>1. UNCHANGED userVars
    BY <1>3 DEF DoPuts, DoPutsStarts, DoPutsBegins, DoPutsEnds, DelayCallback, PutLink
  <2> QED BY <2>1 DEF userVars
<1>4. CASE Callback
  <2>1. UNCHANGED userVars
    BY <1>4 DEF Callback, NotifyArrives, NotifyCounts, LastCallback, HoldScan, UserGetCallback
  <2> QED BY <2>1 DEF userVars
<1>5. CASE Client \/ Go
  <2>1. UNCHANGED userVars
    BY <1>5 DEF Client, ClientReleases, DataMonitor, ScanSaved, Go
  <2> QED BY <2>1 DEF userVars
<1>6. CASE User
  BY <1>6 DEF User, StartScan, WriteZero, Pause, ClientHolds
<1> QED BY <1>1, <1>2, <1>3, <1>4, <1>5, <1>6 DEF Next

\* The invariant stays, for every record.
LEMMA NextKeepsCalm == Apart /\ CalmInv /\ [Next]_vars => CalmInv'
<1> SUFFICES ASSUME Apart, CalmInv, [Next]_vars PROVE CalmInv'
  OBVIOUS
<1>1. setup' = setup /\ (rushed => rushed')
  BY SetupKept
<1>2. Unstopped' = Unstopped
  BY <1>1 DEF Unstopped, Record
<1>3. Undisturbed' => Unstopped /\ Undisturbed /\ ~rushed'
  BY <1>1, <1>2 DEF Undisturbed
<1> QED BY <1>1, <1>3, ApartMeans, NextStep DEF CalmInv

\* A step with which no answer has overtaken readArrays() starts from the invariant.
LEMMA CalmStep ==
  ASSUME Apart, CalmInv, [Next]_vars, Undisturbed'
  PROVE  IInv /\ OneThing(Record) /\ ~rushed' /\ Unstopped
<1>1. setup' = setup /\ (rushed => rushed')
  BY SetupKept
<1>2. Unstopped /\ Undisturbed /\ ~rushed'
  BY <1>1 DEF Undisturbed, Unstopped, Record
<1> QED BY <1>2, ApartMeans DEF CalmInv

\* The invariant holds in every state.
LEMMA Invariance == Apart /\ Spec => []CalmInv
<1>1. Init => CalmInv
  BY InitIInv DEF CalmInv, Init
<1>2. Apart => Apart'
  BY DEF Apart, Calm, OneThing
<1> QED BY <1>1, <1>2, NextKeepsCalm, PTL DEF Spec

\* Only process() counts points, ends scans and switches the buffers.
LEMMA OthersKeep ==
  ASSUME rec \in Fields, [Next]_vars, ~Process
  PROVE  /\ rec'.cpt = rec.cpt /\ rec'.validBuf = rec.validBuf
         /\ rec.busy => rec'.busy
<1>1. rec \in Fields
  OBVIOUS
<1>2. CASE UNCHANGED rec
  BY <1>2
<1>3. CASE ScanOnce \/ DelayExpires
  BY <1>2, <1>3 DEF ScanOnce, DelayExpires
<1>4. CASE DoPuts
  <2>1. CASE DoPutsStarts
    BY <1>1, <2>1 DEF DoPutsStarts, StartPuts, Goes, Writes, Fields
  <2>2. CASE DoPutsBegins
    BY <1>1, <2>2 DEF DoPutsBegins, BeginCase, Goes, Writes, Requested, Fields
  <2>3. CASE DoPutsEnds
    BY <1>1, <2>3 DEF DoPutsEnds, EndCase, Goes, Requested, TakePresetOut, Fields
  <2>4. CASE DelayCallback
    BY <1>2, <2>4 DEF DelayCallback
  <2>5. ASSUME NEW l \in Links, PutLink(l)
        PROVE  /\ rec'.cpt = rec.cpt /\ rec'.validBuf = rec.validBuf
               /\ rec.busy => rec'.busy
    <3>1. /\ FazeOfPut.cpt = rec.cpt /\ FazeOfPut.validBuf = rec.validBuf
          /\ FazeOfPut.busy = rec.busy /\ DOMAIN FazeOfPut = DOMAIN rec
      BY <1>1 DEF FazeOfPut, Fields
    <3> QED BY <1>1, <2>5, <3>1 DEF PutLink, PutAccepted, PutRefused, Fields
  <2> QED BY <1>4, <2>1, <2>2, <2>3, <2>4, <2>5 DEF DoPuts
<1>5. CASE Callback
  <2>1. ASSUME NEW l \in Links, NotifyArrives(l) PROVE UNCHANGED rec
    BY <2>1 DEF NotifyArrives
  <2>2. CASE NotifyCounts
    BY <1>1, <2>2 DEF NotifyCounts, Fields
  <2>3. CASE LastCallback
    BY <1>1, <2>3 DEF LastCallback, Requested, Fields
  <2>4. CASE HoldScan
    BY <1>1, <2>4 DEF HoldScan, Fields
  <2>5. ASSUME NEW d \in Detectors, UserGetCallback(d)
        PROVE  /\ rec'.cpt = rec.cpt /\ rec'.validBuf = rec.validBuf
               /\ rec.busy => rec'.busy
    BY <1>1, <2>5 DEF UserGetCallback, Fields
  <2> QED BY <1>2, <1>5, <2>1, <2>2, <2>3, <2>4, <2>5 DEF Callback
<1>6. CASE Client \/ Go
  BY <1>1, <1>6 DEF Client, ClientReleases, DataMonitor, ScanSaved, Go, Requested, Fields
<1>7. CASE User
  BY <1>1, <1>7 DEF User, StartScan, WriteZero, Pause, ClientHolds, Fields
<1> QED BY <1>2, <1>3, <1>4, <1>5, <1>6, <1>7 DEF Next, vars

\* When process() counts a point, everything the point needs has completed.
LEMMA PointStep ==
  ASSUME IInv, ~rushed', OneThing(Record), [Next]_vars, rec'.cpt = rec.cpt + 1
  PROVE  /\ \A l \in (Positioners \cup Triggers) \ Record.failing : done[l] = rec.cpt
         /\ Waits => owed = 0
<1>1. rec.cpt \in Nat
  BY DEF IInv, Types, Fields
<1>2. Process
  BY <1>1, OthersKeep DEF IInv, Types
<1>3. PICK q : q = rec'
  OBVIOUS
<1>4. proc # "idle" /\ Outcome(q)
  BY <1>2, <1>3, ProcessIs
<1>5. rec.busy /\ rec.xsc /\ Recordable(rec)
  BY <1>1, <1>3, <1>4 DEF Outcome, Begun, GoneOn, Followed, Packing, Over, PointsIn
<1>6. Waits => owed = 0
  BY <1>4, ProcessFacts
<1> QED BY <1>4, <1>5, <1>6, PointsAreDone

\* When process() switches the buffers, saveData is not to read them, and the arrays are there.
LEMMA SwitchStep ==
  ASSUME IInv, ~rushed', OneThing(Record), [Next]_vars, Packs
  PROVE  /\ saving = 0 /\ rec'.gets = {}
         /\ \A l \in ArrayTriggers : put[l] = None /\ done[l] # Stale
<1>1. Process
  BY OthersKeep DEF IInv, Types, Packs
<1>2. PICK q : q = rec'
  OBVIOUS
<1>3. proc # "idle" /\ Outcome(q)
  BY <1>1, <1>2, ProcessIs
<1>4. ~Packing(q)
  BY <1>2 DEF Packing, PackOutcome, Packs
<1>5. /\ ~rec.await /\ q.gets = {} /\ rec.busy
      /\ \/ rec.xsc /\ Simple
         \/ rec.dstate # "POSTED" /\ (rec.dstate = "UNPACKED" => ArrayTriggers = {})
  BY <1>2, <1>3, <1>4 DEF Outcome, Begun, GoneOn, Followed, Over, Packs
<1>6. saving = 0
  BY <1>5 DEF IInv, DataInv, Types, Fields
<1>7. \A l \in Links : put[l] = None
  BY <1>3, ProcessFacts
<1>8. ArrayTriggers \subseteq Links
  BY RecordIs DEF IInv, Types
<1>9. \A l \in ArrayTriggers : done[l] # Stale
  <2>1. CASE Simple
    BY <2>1 DEF Simple
  <2>2. CASE rec.dstate # "POSTED" /\ rec.dstate # "UNPACKED"
    <3>1. rec.dstate \notin {"PACKED", "TRIG_ARRAY_READ", "ARRAY_GET_CALLBACK_WAIT"}
      BY <1>3, <1>5, <2>2, ProcessFacts
    <3>2. rec.dstate \in {"ARRAY_READ_WAIT", "RECORD_ARRAY_DATA", "SAVE_DATA_WAIT"}
      BY <2>2, <3>1 DEF IInv, Types, Fields, NotPacked
    <3> QED BY <1>3, <1>7, <1>8, <3>2 DEF IInv, DataInv
  <2>3. CASE ArrayTriggers = {}
    BY <2>3
  <2> QED BY <1>5, <2>1, <2>2, <2>3
<1> QED BY <1>2, <1>5, <1>6, <1>7, <1>8, <1>9

----------------------------------------------------------------------------
(* saveData's buffers when scans are aborted, paused and killed.  IInv does *)
(* not survive that: callbacks of the scan before come into the next.  What *)
(* does, where nothing is read, is the part that AWAIT and saveData have in *)
(* common, HandInv.                                                         *)

\* A value in process() of a record without reads: packData has looked at AWAIT.
Sound(r) ==
  /\ r \in Fields /\ r.cbs["get"] = 0
  /\ r.dstate \in {"UNPACKED", "SAVE_DATA_WAIT", "PACKED", "POSTED"}
  /\ r.dstate = "PACKED" => ~r.await

\* The buffers of q are those of r, or r did not wait for saveData.
Turns(q, r) ==
  /\ Sound(q) /\ q.await = r.await /\ q.told = r.told
  /\ q.userSetAWAIT = r.userSetAWAIT /\ q.waived = r.waived
  /\ q.validBuf # r.validBuf => ~r.await

\* What Bare says of the record of this behaviour.
LEMMA BareIs ==
  ASSUME setup \in DOMAIN Setups, Bare(Record)
  PROVE  ArrayTriggers = {} /\ Detectors = {} /\ ArrayDetectors = {} /\ Cardinality({}) = 0
BY RecordIs, FS_EmptySet DEF Bare, ArrayTriggers, Detectors

\* packData switches the buffers only when AWAIT is 0.
LEMMA PackDataTurns ==
  ASSUME setup \in DOMAIN Setups, Bare(Record), NEW r, Sound(r), r.dstate # "POSTED",
         NEW q, q = PackData(r)
  PROVE  Turns(q, r) /\ q.dstate \in {"SAVE_DATA_WAIT", "PACKED"}
<1>1. r \in Fields /\ r.cbs["get"] = 0
  BY DEF Sound
<1>2. CASE r.dstate = "PACKED" \/ (r.dstate = "SAVE_DATA_WAIT" /\ r.await)
  <2>1. q = r
    BY <1>2 DEF PackData
  <2> QED BY <1>2, <2>1 DEF Turns
<1>3. CASE r.dstate = "UNPACKED" \/ (r.dstate = "SAVE_DATA_WAIT" /\ ~r.await)
  <2>1. /\ q \in Fields /\ SameFlow(q, r) /\ q.await = r.await /\ q.told = r.told
        /\ PackOutcome(q, r)
    BY <1>1, <1>3, PackDataIs
  <2> QED BY <1>1, <2>1, BareIs DEF PackOutcome, SameFlow, SameReads, Turns, Sound
<1> QED BY <1>2, <1>3 DEF Sound, Fields

\* One step of process() after another.
LEMMA TurnsOn ==
  ASSUME NEW r, NEW z, NEW q, Sound(r), Turns(z, r), Turns(q, z) PROVE Turns(q, r)
BY DEF Turns

\* A request of doPutsCallback does not touch the data.
LEMMA RequestTurns ==
  ASSUME NEW r, Sound(r), NEW f \in Fazes, NEW q, q = [r EXCEPT !.faze = f, !.puts = @ + 1]
  PROVE  Turns(q, r)
<1>1. PICK n \in Nat : n = r.puts + 1
  BY DEF Sound, Fields
<1>2. r \in Fields /\ q = [r EXCEPT !.faze = f, !.puts = n]
  BY <1>1 DEF Sound
<1>3. q \in Fields
  BY <1>2 DEF Fields
<1> QED BY <1>2, <1>3 DEF Turns, Sound, Fields

\* What follows the scan does not touch its data.
LEMMA DoAfterScanTurns ==
  ASSUME NEW r, Sound(r), NEW q, q = DoAfterScan(r) PROVE Turns(q, r)
<1>1. CASE Record.after # "none"
  BY <1>1, RequestTurns DEF DoAfterScan, Fazes
<1>2. CASE Record.after = "none"
  <2>1. r \in Fields /\ q = [r EXCEPT !.faze = "SCAN_DONE"]
    BY <1>2 DEF DoAfterScan, Sound
  <2>2. q \in Fields
    BY <2>1 DEF Fields, Fazes
  <2> QED BY <2>1, <2>2 DEF Turns, Sound, Fields
<1> QED BY <1>1, <1>2

\* The end of a scan packs its data.
LEMMA EndScanTurns ==
  ASSUME setup \in DOMAIN Setups, Bare(Record), NEW r, Sound(r), NEW q, q = EndScan(r)
  PROVE  Turns(q, r)
<1>1. PICK p : p = IF r.dstate = "UNPACKED" THEN PackData(r) ELSE r
  OBVIOUS
<1>2. Turns(p, r)
  <2>1. CASE r.dstate = "UNPACKED"
    BY <1>1, <2>1, PackDataTurns
  <2> QED BY <1>1, <2>1 DEF Turns
<1>3. PICK z : z = [p EXCEPT !.xsc = FALSE]
  OBVIOUS
<1>4. Turns(z, p)
  BY <1>2, <1>3 DEF Turns, Sound, Fields
<1>5. CASE Record.retrace /\ Positioners # {}
  <2>1. q = [z EXCEPT !.faze = "RETRACE_MOVE", !.puts = @ + 1]
    BY <1>1, <1>3, <1>5 DEF EndScan
  <2>2. Turns(q, z)
    BY <1>4, <2>1, RequestTurns DEF Turns, Fazes
  <2> QED BY <1>2, <1>4, <2>2 DEF Turns
<1>6. CASE ~(Record.retrace /\ Positioners # {})
  <2>1. q = DoAfterScan(z)
    BY <1>1, <1>3, <1>6 DEF EndScan
  <2>2. Turns(q, z)
    BY <1>4, <2>1, DoAfterScanTurns DEF Turns
  <2> QED BY <1>2, <1>4, <2>2 DEF Turns
<1> QED BY <1>5, <1>6

\* The beginning of a scan does not touch the data of the last one.
LEMMA InitScanTurns ==
  ASSUME NEW r, Sound(r), NEW q, q = InitScan(r) PROVE Turns(q, r)
<1>1. PICK f \in Fazes : f = IF Record.before # "none" /\ r.faze = "INIT_SCAN" THEN "BEFORE_SCAN"
                                                                          ELSE "MOVE_MOTORS"
  BY DEF Fazes
<1>2. PICK z : z = [r EXCEPT !.cpt = 0]
  OBVIOUS
<1>3. Turns(z, r)
  BY <1>2 DEF Turns, Sound, Fields
<1>4. q = [z EXCEPT !.faze = f, !.puts = @ + 1]
  <2>1. q = [r EXCEPT !.cpt = 0, !.puts = @ + 1, !.faze = f]
    BY <1>1 DEF InitScan
  <2>2. r \in Fields /\ z \in Fields
    BY <1>3 DEF Sound, Turns
  <2> QED BY <1>2, <2>1, <2>2 DEF Fields
<1>5. Turns(q, z)
  BY <1>3, <1>4, RequestTurns DEF Turns
<1> QED BY <1>3, <1>5 DEF Turns

\* A point is recorded: the next one follows, or the end of the scan.
LEMMA RecordScalarDataTurns ==
  ASSUME setup \in DOMAIN Setups, Bare(Record), NEW r, Sound(r), NEW q, q = RecordScalarData(r)
  PROVE  Turns(q, r)
<1>1. PICK z : z = [r EXCEPT !.cpt = @ + 1]
  OBVIOUS
<1>2. r.cpt + 1 \in Nat
  BY DEF Sound, Fields
<1>3. Turns(z, r)
  BY <1>1, <1>2 DEF Turns, Sound, Fields
<1>4. CASE z.cpt < Record.npts
  <2>1. q = [z EXCEPT !.faze = "MOVE_MOTORS", !.puts = @ + 1]
    BY <1>1, <1>4 DEF RecordScalarData
  <2>2. Turns(q, z)
    BY <1>3, <2>1, RequestTurns DEF Turns, Fazes
  <2> QED BY <1>3, <2>2 DEF Turns
<1>5. CASE ~(z.cpt < Record.npts)
  <2>1. q = EndScan(z)
    BY <1>1, <1>5 DEF RecordScalarData
  <2>2. Turns(q, z)
    BY <1>3, <2>1, EndScanTurns DEF Turns
  <2> QED BY <1>3, <2>2 DEF Turns
<1> QED BY <1>4, <1>5

\* Without detectors a point is recorded at once.
LEMMA ReadDetectorsTurns ==
  ASSUME setup \in DOMAIN Setups, Bare(Record), NEW r, Sound(r), NEW q, q = ReadDetectors(r)
  PROVE  Turns(q, r)
<1>1. PICK z : z = [r EXCEPT !.faze = "RECORD_SCALAR_DATA", !.gets = @ \cup {}, !.cbs.get = 0]
  OBVIOUS
<1>2. q = RecordScalarData(z)
  BY <1>1, BareIs DEF ReadDetectors
<1>3. Turns(z, r)
  <2>1. [r.cbs EXCEPT !["get"] = 0] = r.cbs
    BY DEF Sound, Fields, Kinds
  <2>2. z = [r EXCEPT !.faze = "RECORD_SCALAR_DATA", !.gets = @ \cup {}, !.cbs = r.cbs]
    BY <1>1, <2>1
  <2> QED BY <2>2 DEF Turns, Sound, Fields, Fazes
<1>4. Turns(q, z)
  BY <1>2, <1>3, RecordScalarDataTurns DEF Turns
<1> QED BY <1>3, <1>4 DEF Turns

\* The next step of a scan.
LEMMA ContScanTurns ==
  ASSUME setup \in DOMAIN Setups, Bare(Record), NEW r, Sound(r), NEW deviates,
         NEW q, q = ContScan(r, deviates)
  PROVE  Turns(q, r)
<1>1. Turns(r, r)
  BY DEF Turns
<1>2. r.faze \in Fazes /\ "TRIG_DETCTRS" \in Fazes
  BY DEF Sound, Fields, Fazes
<1>3. \/ q = [r EXCEPT !.faze = r.faze, !.puts = @ + 1]
      \/ q = [r EXCEPT !.faze = "TRIG_DETCTRS", !.puts = @ + 1]
      \/ q = EndScan(r) \/ q = ReadDetectors(r) \/ q = RecordScalarData(r) \/ q = r
  <2>1. [r EXCEPT !.faze = r.faze, !.puts = @ + 1] = [r EXCEPT !.puts = @ + 1]
    BY DEF Sound, Fields
  <2> QED BY <2>1 DEF ContScan
<1> QED BY <1>1, <1>2, <1>3, RequestTurns, EndScanTurns,
           ReadDetectorsTurns, RecordScalarDataTurns

\* What becomes of such a record in process(), when it is not killed.
Steps(q, r) ==
  /\ q \in Fields /\ q.cbs["get"] = 0 /\ q.dstate \in {"UNPACKED", "SAVE_DATA_WAIT", "POSTED"}
  /\ q.userSetAWAIT = r.userSetAWAIT /\ q.waived = r.waived
  /\ q.validBuf # r.validBuf => ~r.await
  /\ \/ q.await = r.await /\ q.told = r.told
     \/ ~r.await /\ q.told = r.told + (IF q.await THEN 1 ELSE 0)

\* The monitors tell saveData of the data that are packed, at the end of process() as well.
LEMMA MonitorsStep ==
  ASSUME setup \in DOMAIN Setups, NEW r, NEW z, Turns(z, r), NEW q,
         q \in {CheckMonitors(z), Finish(z)}
  PROVE  Steps(q, r)
<1>1. z \in Fields /\ Sound(z)
  BY DEF Turns, Sound
<1>2. /\ q \in Fields /\ SameFlow(q, z) /\ SameReads(q, z) /\ q.validBuf = z.validBuf
      /\ z.dstate # "PACKED" => q.dstate = z.dstate /\ q.await = z.await /\ q.told = z.told
      /\ z.dstate = "PACKED" => /\ q.dstate = "POSTED" /\ (q.await <=> z.await \/ Record.aawait)
                               /\ q.told = IF Record.aawait THEN z.told + 1 ELSE z.told
  <2>1. CASE q = CheckMonitors(z)
    BY <1>1, <2>1, CheckMonitorsIs
  <2>2. CASE q = Finish(z)
    BY <1>1, <2>2, FinishIs
  <2> QED BY <2>1, <2>2
<1>3. q.cbs["get"] = 0 /\ q.userSetAWAIT = r.userSetAWAIT /\ q.waived = r.waived
      /\ (q.validBuf # r.validBuf => ~r.await)
  BY <1>1, <1>2 DEF SameFlow, SameReads, Turns, Sound
<1>4. CASE z.dstate = "PACKED"
  <2>1. ~z.await /\ z.told \in Nat /\ Record.aawait \in BOOLEAN /\ q.await \in BOOLEAN
    BY <1>1, <1>2, <1>4, RecordIs DEF Sound, Fields
  <2>2. q.await = Record.aawait
    BY <1>2, <1>4, <2>1
  <2>3. q.told = z.told + (IF q.await THEN 1 ELSE 0)
    BY <1>2, <1>4, <2>1, <2>2
  <2> QED BY <1>2, <1>3, <1>4, <2>1, <2>3 DEF Steps, Turns
<1>5. CASE z.dstate # "PACKED"
  BY <1>1, <1>2, <1>3, <1>5 DEF Steps, Turns, Sound
<1> QED BY <1>4, <1>5

\* A value whose data are not packed is one that process() may leave behind.
LEMMA TurnsStep ==
  ASSUME NEW r, NEW z, Turns(z, r), z.dstate # "PACKED" PROVE Steps(z, r)
BY DEF Turns, Sound, Steps

\* What stays true of a record that is set up like that, whoever aborts, kills or pauses it:
\* saveData has AWAIT in hand for all it has of the record, unless a kill took it back.
HandInv ==
  /\ setup \in DOMAIN Setups /\ saving \in Nat
  /\ rec \in Fields /\ rec.cbs["get"] = 0
  /\ rec.dstate \in {"UNPACKED", "SAVE_DATA_WAIT", "POSTED"}
  /\ dp \in [at : Places, todo : SUBSET Links]
  /\ cb \in [at : {"idle", "counted", "last", "hold"}, kind : Kinds]
  /\ cb.at = "counted" => cb.kind \in PutKinds
  /\ ~rec.waived => rec.told + saving = IF rec.await THEN 1 ELSE 0
  /\ ~rec.userSetAWAIT => saving = 0

\* process() without a kill.
LEMMA ProcessedSteps ==
  ASSUME HandInv, Bare(Record), rec.kill = 0, NEW outstanding, NEW deviates,
         NEW q, q = Processed(rec, outstanding, deviates)
  PROVE  Steps(q, rec)
<1>1. /\ setup \in DOMAIN Setups /\ Sound(rec) /\ rec.dstate # "PACKED" /\ Turns(rec, rec)
      /\ rec \in Fields /\ rec.dstate \in {"UNPACKED", "SAVE_DATA_WAIT", "POSTED"}
  BY DEF HandInv, Sound, Turns
<1>2. PICK w : w = NoWait(rec)
  OBVIOUS
<1>3. Turns(w, rec)
  BY <1>1, <1>2 DEF NoWait, Turns, Sound, Fields
<1>4. ASSUME q = NewScan(rec) PROVE Steps(q, rec)
  <2>1. PICK z : z = [w EXCEPT !.dstate = "UNPACKED", !.cbs = Counts, !.faze = "INIT_SCAN",
                               !.busy = TRUE]
    OBVIOUS
  <2>2. Turns(z, w)
    <3>1. Counts \in [Kinds -> Int] /\ Counts["get"] = 0 /\ w \in Fields
      BY <1>3 DEF Counts, Kinds, PutKinds, Turns, Sound
    <3>2. z \in Fields
      BY <2>1, <3>1 DEF Fields, Fazes, NotPacked
    <3> QED BY <2>1, <3>1, <3>2 DEF Turns, Sound, Fields
  <2>3. PICK i : i = InitScan(z)
    OBVIOUS
  <2>4. Turns(i, z)
    BY <2>2, <2>3, InitScanTurns DEF Turns
  <2>5. Turns(i, rec)
    BY <1>3, <2>2, <2>4 DEF Turns
  <2>6. q = Finish(i)
    BY <1>2, <1>4, <2>1, <2>3 DEF NewScan
  <2> QED BY <1>1, <2>5, <2>6, MonitorsStep
<1>5. ASSUME q \in {Finish(InitScan(rec)), Finish(EndScan(rec)), Finish(EndScan(w)), Finish(rec),
                    Finish(ContScan(rec, deviates))}
      PROVE  Steps(q, rec)
  <2>1. Turns(InitScan(rec), rec) /\ Turns(EndScan(rec), rec) /\ Turns(ContScan(rec, deviates), rec)
    BY <1>1, InitScanTurns, EndScanTurns, ContScanTurns
  <2>2. Turns(EndScan(w), w)
    BY <1>1, <1>3, EndScanTurns DEF Turns
  <2>3. Turns(EndScan(w), rec)
    BY <1>3, <2>2 DEF Turns
  <2> QED BY <1>1, <1>5, <2>1, <2>3, MonitorsStep
<1>6. ASSUME q = Abort(rec, outstanding) PROVE Steps(q, rec)
  <2>1. CASE ~outstanding
    BY <1>2, <1>5, <1>6, <2>1 DEF Abort
  <2>2. CASE outstanding /\ rec.dstate \in NotPacked
    <3>1. q = CheckMonitors(PackData(rec))
      BY <1>6, <2>2 DEF Abort
    <3>2. Turns(PackData(rec), rec)
      BY <1>1, <2>2, PackDataTurns DEF NotPacked
    <3> QED BY <1>1, <3>1, <3>2, MonitorsStep
  <2>3. CASE outstanding /\ rec.dstate \notin NotPacked
    <3>1. q = rec
      BY <1>6, <2>3 DEF Abort
    <3> QED BY <1>1, <3>1, TurnsStep
  <2> QED BY <2>1, <2>2, <2>3
<1>7. ASSUME q = AfterBusiness(rec) PROVE Steps(q, rec)
  <2>1. PICK p : p = IF rec.dstate \in NotPacked THEN PackData(rec) ELSE rec
    OBVIOUS
  <2>2. Turns(p, rec)
    BY <1>1, <2>1, PackDataTurns DEF NotPacked
  <2>3. CASE p.dstate \in NotPacked
    <3>1. q = p /\ p.dstate # "PACKED"
      BY <1>7, <2>1, <2>3 DEF AfterBusiness, NotPacked
    <3> QED BY <2>2, <3>1, TurnsStep
  <2>4. CASE p.dstate \notin NotPacked
    <3>1. PICK d : d = [p EXCEPT !.faze = "SCAN_DONE"]
      OBVIOUS
    <3>2. q \in {Finish(DoAfterScan(p)), Finish(d), Finish(p)}
      BY <1>7, <2>1, <2>4, <3>1 DEF AfterBusiness
    <3>3. Turns(d, p)
      BY <2>2, <3>1 DEF Turns, Sound, Fields, Fazes
    <3>4. Turns(DoAfterScan(p), p)
      BY <2>2, DoAfterScanTurns DEF Turns
    <3>5. Turns(d, rec) /\ Turns(DoAfterScan(p), rec)
      BY <2>2, <3>3, <3>4 DEF Turns
    <3> QED BY <1>1, <2>2, <3>2, <3>5, MonitorsStep
  <2> QED BY <2>3, <2>4
<1>8. ASSUME q = rec PROVE Steps(q, rec)
  BY <1>1, <1>8, TurnsStep
<1>9. \/ q = rec \/ q = NewScan(rec) \/ q = Abort(rec, outstanding) \/ q = AfterBusiness(rec)
      \/ q \in {Finish(InitScan(rec)), Finish(EndScan(rec)), Finish(rec),
                Finish(ContScan(rec, deviates))}
  <2>1. rec.xsc \in BOOLEAN
    BY <1>1 DEF Fields
  <2> QED BY <2>1 DEF Processed
<1> QED BY <1>4, <1>5, <1>6, <1>7, <1>8, <1>9

\* What a kill leaves of a scan that it ends.
Stopped(p, xsc) == [p EXCEPT !.busy = FALSE, !.faze = "IDLE", !.pxsc = xsc, !.kill = 0]

\* A scan that a kill ends leaves the data as they are.
LEMMA StoppedIs ==
  ASSUME NEW p \in Fields, NEW x \in BOOLEAN
  PROVE  /\ Stopped(p, x) \in Fields /\ Stopped(p, x).cbs = p.cbs
         /\ Stopped(p, x).dstate = p.dstate /\ Stopped(p, x).validBuf = p.validBuf
         /\ Stopped(p, x).await = p.await /\ Stopped(p, x).told = p.told
         /\ Stopped(p, x).userSetAWAIT = p.userSetAWAIT /\ Stopped(p, x).waived = p.waived
<1>1. "IDLE" \in Fazes
  BY DEF Fazes
<1> QED BY <1>1 DEF Stopped, Fields

\* A kill takes AWAIT back, or leaves it to saveData.
LEMMA KillStep ==
  ASSUME HandInv, Bare(Record), NEW q, q = Kill(rec)
  PROVE  /\ q \in Fields /\ q.cbs["get"] = 0
         /\ q.dstate \in {"UNPACKED", "SAVE_DATA_WAIT", "POSTED"}
         /\ ~q.waived => q.told + saving = IF q.await THEN 1 ELSE 0
         /\ q.userSetAWAIT = rec.userSetAWAIT
         /\ q.validBuf # rec.validBuf => saving = 0 \/ rec.waived
<1>1. /\ setup \in DOMAIN Setups /\ saving \in Nat /\ rec \in Fields
      /\ ~rec.waived => rec.told + saving = IF rec.await THEN 1 ELSE 0
      /\ ~rec.userSetAWAIT => saving = 0
      /\ rec.dstate \in {"UNPACKED", "SAVE_DATA_WAIT", "POSTED"}
  BY DEF HandInv
<1>2. PICK still : still = [NoWait(rec) EXCEPT !.cbs = Counts]
  OBVIOUS
<1>3. /\ Sound(still) /\ still.dstate = rec.dstate /\ still.validBuf = rec.validBuf
      /\ still.await = rec.await /\ still.userSetAWAIT = rec.userSetAWAIT
      /\ still.waived = rec.waived /\ still.told = rec.told
  <2>1. Counts \in [Kinds -> Int] /\ Counts["get"] = 0
    BY DEF Counts, Kinds, PutKinds
  <2>2. still \in Fields
    BY <1>1, <1>2, <2>1 DEF NoWait, Fields
  <2> QED BY <1>1, <1>2, <2>1, <2>2 DEF NoWait, Sound, Fields
<1>4. PICK freed : freed = [still EXCEPT !.await = @ /\ rec.userSetAWAIT]
  OBVIOUS
<1>5. PICK next : next = IF freed.dstate = "SAVE_DATA_WAIT" /\ Abandons(rec)
                           THEN [freed EXCEPT !.dstate = "PACKED", !.await = FALSE] ELSE freed
  OBVIOUS
<1>6. PICK known : known = [next EXCEPT !.waived = @ \/ (rec.await /\ ~next.await)]
  OBVIOUS
<1>7. PICK packed : packed = IF rec.dstate = "POSTED" THEN still ELSE CheckMonitors(PackData(known))
  OBVIOUS
<1>8. q = IF packed.dstate = "SAVE_DATA_WAIT" THEN packed ELSE Stopped(packed, rec.xsc)
  <2>1. freed.dstate # "ARRAY_READ_WAIT"
    BY <1>1, <1>3, <1>4 DEF Sound, Fields
  <2> QED BY <1>2, <1>4, <1>5, <1>6, <1>7, <2>1 DEF Kill, Stopped
<1>9. SUFFICES /\ packed \in Fields /\ packed.cbs["get"] = 0
               /\ packed.dstate \in {"UNPACKED", "SAVE_DATA_WAIT", "POSTED"}
               /\ ~packed.waived => packed.told + saving = IF packed.await THEN 1 ELSE 0
               /\ packed.userSetAWAIT = rec.userSetAWAIT
               /\ packed.validBuf # rec.validBuf => saving = 0 \/ rec.waived
  <2>1. rec.xsc \in BOOLEAN
    BY <1>1 DEF Fields
  <2> QED BY <1>8, <2>1, StoppedIs
<1>10. CASE rec.dstate = "POSTED"
  BY <1>1, <1>3, <1>7, <1>10 DEF Sound
<1>11. CASE rec.dstate # "POSTED"
  <2>1. /\ Sound(freed) /\ freed.dstate = rec.dstate /\ freed.validBuf = rec.validBuf
        /\ freed.await = (rec.await /\ rec.userSetAWAIT) /\ freed.waived = rec.waived
        /\ freed.userSetAWAIT = rec.userSetAWAIT /\ freed.told = rec.told
    BY <1>1, <1>3, <1>4 DEF Sound, Fields
  <2>2. /\ Sound(next) /\ next.validBuf = rec.validBuf /\ next.waived = rec.waived
        /\ next.userSetAWAIT = rec.userSetAWAIT /\ next.told = rec.told
        /\ next.await => rec.await
        /\ rec.await /\ ~next.await => saving = 0 \/ next.dstate = "PACKED"
        /\ next.dstate # "POSTED"
    BY <1>1, <1>5, <1>11, <2>1 DEF Sound, Fields
  <2>3. /\ Sound(known) /\ known.validBuf = rec.validBuf /\ known.await = next.await
        /\ known.waived = (rec.waived \/ (rec.await /\ ~next.await))
        /\ known.dstate = next.dstate
        /\ known.userSetAWAIT = rec.userSetAWAIT /\ known.told = rec.told
    BY <1>1, <1>6, <2>2 DEF Sound, Fields
  <2>4. PICK p : p = PackData(known)
    OBVIOUS
  <2>5. Turns(p, known) /\ p.dstate # "UNPACKED"
    BY <1>1, <2>2, <2>3, <2>4, PackDataTurns
  <2>6. Steps(packed, known)
    BY <1>1, <1>7, <1>11, <2>4, <2>5, MonitorsStep
  <2>7. known.dstate = "PACKED" => packed.validBuf = known.validBuf
    <3>1. ASSUME known.dstate = "PACKED" PROVE packed.validBuf = known.validBuf
      <4>1. p = known
        BY <2>4, <3>1 DEF PackData
      <4>2. packed = CheckMonitors(known) /\ known \in Fields
        BY <1>7, <1>11, <2>3, <2>4, <4>1 DEF Sound
      <4> QED BY <1>1, <4>2, CheckMonitorsIs
    <3> QED BY <3>1
  <2>8. packed.validBuf # rec.validBuf => saving = 0 \/ rec.waived
    BY <1>1, <2>2, <2>3, <2>6, <2>7 DEF Steps, Fields
  <2>9. ~packed.waived => packed.told + saving = IF packed.await THEN 1 ELSE 0
    BY <1>1, <2>2, <2>3, <2>6 DEF Steps, Fields, Sound
  <2> QED BY <2>3, <2>6, <2>8, <2>9 DEF Steps
<1> QED BY <1>10, <1>11

\* An action that leaves the data, AWAIT and what saveData has alone.
LEMMA HandKept ==
  ASSUME HandInv, setup' = setup, saving' = saving, rec' \in Fields,
         rec'.cbs["get"] = rec.cbs["get"], rec'.dstate = rec.dstate, rec'.await = rec.await,
         rec'.told = rec.told, rec'.userSetAWAIT = rec.userSetAWAIT, rec'.waived = rec.waived,
         dp' = dp \/ dp' \in [at : Places, todo : SUBSET Links],
         cb' = cb \/ (/\ cb' \in [at : {"idle", "counted", "last", "hold"}, kind : Kinds]
                      /\ cb'.at = "counted" => cb'.kind \in PutKinds)
  PROVE  HandInv'
BY SetupStays DEF HandInv

\* process().
LEMMA HandProcess ==
  ASSUME HandInv, Bare(Record), Process
  PROVE  HandInv' /\ (rec'.validBuf # rec.validBuf => saving = 0 \/ rec.waived)
<1>0. /\ UNCHANGED cb
      /\ \E deviates : rec' = Processed(rec, proc = "busy", deviates)
  BY ProcessUnrushed, BareIs DEF HandInv
<1>1. PICK q, outstanding, deviates :
         rec' = q /\ q = Processed(rec, outstanding, deviates)
  BY <1>0
<1>2. UNCHANGED <<dp, cb, saving, setup>>
  BY <1>0 DEF Process, clientVars
<1>3. CASE rec.kill > 0
  <2>1. q = Kill(rec)
    BY <1>1, <1>3 DEF Processed, HandInv, Fields
  <2>2. /\ q \in Fields /\ q.cbs["get"] = 0
        /\ q.dstate \in {"UNPACKED", "SAVE_DATA_WAIT", "POSTED"}
        /\ ~q.waived => q.told + saving = IF q.await THEN 1 ELSE 0
        /\ q.userSetAWAIT = rec.userSetAWAIT
        /\ q.validBuf # rec.validBuf => saving = 0 \/ rec.waived
    BY <2>1, KillStep
  <2> QED BY <1>1, <1>2, <2>2, SetupStays DEF HandInv
<1>4. CASE ~(rec.kill > 0)
  <2>1. rec.kill = 0
    BY <1>4 DEF HandInv, Fields
  <2>2. Steps(q, rec)
    BY <1>1, <2>1, ProcessedSteps
  <2>3. ~rec.await => saving = 0 \/ rec.waived
    BY DEF HandInv, Fields
  <2>4. ~q.waived => q.told + saving = IF q.await THEN 1 ELSE 0
    BY <2>2 DEF HandInv, Fields, Steps
  <2> QED BY <1>1, <1>2, <2>2, <2>3, <2>4, SetupStays DEF HandInv, Steps
<1> QED BY <1>3, <1>4

\* doPuts().
LEMMA HandDoPuts ==
  ASSUME HandInv, Bare(Record), DoPuts PROVE HandInv'
<1>1. /\ rec \in Fields /\ setup \in DOMAIN Setups /\ ArrayTriggers = {}
      /\ Positioners \subseteq Links /\ Triggers \subseteq Links
      /\ "before" \in Links /\ "after" \in Links /\ Record.awct \in Nat
      /\ dp \in [at : Places, todo : SUBSET Links]
  BY BareIs, RecordIs DEF HandInv
<1> DEFINE SameHands(q) ==
      /\ q \in Fields /\ q.cbs["get"] = rec.cbs["get"] /\ q.dstate = rec.dstate
      /\ q.await = rec.await /\ q.told = rec.told
      /\ q.userSetAWAIT = rec.userSetAWAIT /\ q.waived = rec.waived
      DpTyped(d) == d \in [at : Places, todo : SUBSET Links]
<1>2. SUFFICES UNCHANGED <<setup, saving, cb>> /\ SameHands(rec') /\ (dp' = dp \/ DpTyped(dp'))
  BY HandKept
<1>3. CASE DoPutsStarts
  <2>1. UNCHANGED <<setup, saving, cb>> /\ rec.dstate # "TRIG_ARRAY_READ"
    BY <1>3 DEF DoPutsStarts, clientVars, userVars, HandInv
  <2>2. rec' = [rec EXCEPT !.puts = @ - 1] /\ rec.puts > 0
    BY <1>3, <2>1 DEF DoPutsStarts, StartPuts, Goes
  <2>3. rec.puts - 1 \in Nat
    BY <1>1, <2>2 DEF Fields
  <2>4. SameHands(rec')
    BY <1>1, <2>2, <2>3 DEF Fields
  <2>5. DpTyped(dp')
    BY <1>3, <2>1 DEF DoPutsStarts, StartPuts, Goes, Places
  <2> QED BY <2>1, <2>4, <2>5
<1>4. CASE DoPutsBegins
  <2>1. UNCHANGED <<setup, saving, cb>>
    BY <1>4 DEF DoPutsBegins, userVars
  <2>2. DpTyped(dp')
    BY <1>1, <1>4 DEF DoPutsBegins, BeginCase, Goes, Writes, DpIdle, Places
  <2>3. \/ rec' = rec
        \/ \E f \in {"BEFORE_SCAN_WAIT", "AFTER_SCAN_WAIT"} : rec' = [rec EXCEPT !.faze = f]
        \/ \E k \in {"pos", "trig"} : rec' = [rec EXCEPT !.cbs = [rec.cbs EXCEPT ![k] = 1]]
        \/ \E n \in Nat : rec' = [rec EXCEPT !.faze = "READ_DETCTRS", !.wcnt = n]
    <3>1. (IF Record.awct > 0 THEN Record.awct ELSE rec.wcnt) \in Nat
      BY <1>1 DEF Fields
    <3> QED BY <1>4, <3>1 DEF DoPutsBegins, BeginCase, Goes, Writes, Requested
  <2>4. SameHands(rec')
    <3>1. ASSUME NEW f \in {"BEFORE_SCAN_WAIT", "AFTER_SCAN_WAIT"}, rec' = [rec EXCEPT !.faze = f]
          PROVE  SameHands(rec')
      BY <1>1, <3>1 DEF Fields, Fazes
    <3>2. ASSUME NEW k \in {"pos", "trig"}, rec' = [rec EXCEPT !.cbs = [rec.cbs EXCEPT ![k] = 1]]
          PROVE  SameHands(rec')
      <4>1. PICK c : c = [rec.cbs EXCEPT ![k] = 1]
        OBVIOUS
      <4>2. c \in [Kinds -> Int] /\ c["get"] = rec.cbs["get"]
        BY <1>1, <4>1 DEF Fields, Kinds, PutKinds
      <4> QED BY <1>1, <3>2, <4>1, <4>2 DEF Fields
    <3>3. ASSUME NEW n \in Nat, rec' = [rec EXCEPT !.faze = "READ_DETCTRS", !.wcnt = n]
          PROVE  SameHands(rec')
      <4>1. "READ_DETCTRS" \in Fazes
        BY DEF Fazes
      <4>2. rec' \in Fields
        BY <1>1, <3>3, <4>1 DEF Fields
      <4> QED BY <1>1, <3>3, <4>2 DEF Fields
    <3> QED BY <1>1, <2>3, <3>1, <3>2, <3>3
  <2> QED BY <2>1, <2>2, <2>4
<1>5. CASE DoPutsEnds
  <2>1. UNCHANGED <<setup, saving, cb>>
    BY <1>5 DEF DoPutsEnds, clientVars, userVars
  <2>2. DpTyped(dp')
    BY <1>1, <1>5 DEF DoPutsEnds, EndCase, Goes, TakePresetOut, DpIdle, Places
  <2>3. ASSUME NEW z, SameHands(z), NEW k \in {"pos", "trig"},
               rec' = [z EXCEPT !.cbs[k] = @ - 1]
        PROVE  SameHands(rec')
    <3>1. PICK c : c = [z.cbs EXCEPT ![k] = @ - 1]
      OBVIOUS
    <3>2. c \in [Kinds -> Int] /\ c["get"] = z.cbs["get"]
      BY <2>3, <3>1 DEF Fields, Kinds, PutKinds
    <3>3. rec' = [z EXCEPT !.cbs = c]
      BY <2>3, <3>1
    <3> QED BY <2>3, <3>2, <3>3 DEF Fields
  <2>4. ASSUME NEW f \in {"MOVE_MOTORS", "AFTER_SCAN_DO", "SCAN_DONE"}
        PROVE  SameHands([rec EXCEPT !.faze = f])
    BY <1>1 DEF Fields, Fazes
  <2>5. SameHands([rec EXCEPT !.wtng = TRUE]) /\ SameHands(rec)
    BY <1>1 DEF Fields
  <2>6. \/ rec' = rec \/ rec' = [rec EXCEPT !.wtng = TRUE]
        \/ \E f \in {"MOVE_MOTORS", "SCAN_DONE"} : rec' = [rec EXCEPT !.faze = f]
        \/ \E k \in {"pos", "trig"} : rec' = [rec EXCEPT !.cbs[k] = @ - 1]
        \/ \E k \in {"pos", "trig"} :
             rec' = [[rec EXCEPT !.faze = "AFTER_SCAN_DO"] EXCEPT !.cbs[k] = @ - 1]
    <3> HIDE DEF SameHands, DpTyped
    <3>1. ASSUME NEW k, NEW case, NEW q, TakePresetOut(k, case, q)
          PROVE  rec' \in {[rec EXCEPT !.cbs[k] = @ - 1], [q EXCEPT !.cbs[k] = @ - 1]}
      BY <3>1 DEF TakePresetOut, Goes
    <3>2. CASE dp.at = "moving" \/ dp.at = "triggering"
      BY <1>5, <3>1, <3>2 DEF DoPutsEnds, EndCase
    <3>3. CASE dp.at = "retracing"
      BY <1>5, <3>1, <3>3 DEF DoPutsEnds, EndCase
    <3>4. CASE dp.at \notin {"moving", "triggering", "retracing"}
      BY <1>5, <3>4 DEF DoPutsEnds, EndCase, Goes, Requested
    <3> QED BY <3>2, <3>3, <3>4
  <2>7. SameHands(rec')
    <3> HIDE DEF SameHands
    <3> QED BY <2>3, <2>4, <2>5, <2>6
  <2> QED BY <2>1, <2>2, <2>7
<1>6. CASE DelayCallback
  <2>1. UNCHANGED <<setup, saving, cb, rec>> /\ (dp' = dp \/ DpTyped(dp'))
    BY <1>6 DEF DelayCallback, clientVars, userVars, Places
  <2> QED BY <1>1, <2>1
<1>7. ASSUME NEW l \in Links, PutLink(l)
      PROVE  UNCHANGED <<setup, saving, cb>> /\ SameHands(rec') /\ DpTyped(dp')
  <2>1. UNCHANGED <<setup, saving, cb>>
    BY <1>7 DEF PutLink, clientVars, userVars
  <2>2. DpTyped(dp')
    BY <1>1, <1>7 DEF PutLink, DpIdle, Places
  <2>3. PICK f \in Fazes : FazeOfPut = [rec EXCEPT !.faze = f]
    <3>1. PICK f : f = CASE dp.at = "moving" -> "CHECK_MOTORS"
                         [] dp.at = "retracing" -> "RETRACE_WAIT" [] OTHER -> rec.faze
      OBVIOUS
    <3>2. f \in Fazes
      BY <1>1, <3>1 DEF Fields, Fazes
    <3> QED BY <3>1, <3>2 DEF FazeOfPut
  <2>4. PICK z : z = FazeOfPut
    OBVIOUS
  <2>5. SameHands(z) /\ z.cbs = rec.cbs
    BY <1>1, <2>3, <2>4 DEF Fields
  <2>6. PICK k \in PutKinds, n \in {-1, 0, 1} :
          rec' = [z EXCEPT !.cbs = [z.cbs EXCEPT ![k] = @ + n]]
    <3>1. Kind(l) \in PutKinds
      BY DEF Kind, PutKinds
    <3>2. CASE PutAccepted(l)
      BY <2>4, <3>1, <3>2 DEF PutAccepted
    <3>3. CASE PutRefused(l)
      <4>1. z.cbs["arr"] + 0 = z.cbs["arr"] /\ z.cbs["arr"] - 1 = z.cbs["arr"] + (-1)
        BY <2>5 DEF Fields, Kinds, PutKinds
      <4>2. \E n \in {-1, 0} : rec' = [z EXCEPT !.cbs.arr = z.cbs["arr"] + n]
        BY <2>4, <3>3, <4>1 DEF PutRefused
      <4> QED BY <4>2 DEF PutKinds
    <3> QED BY <1>7, <3>2, <3>3 DEF PutLink
  <2>7. PICK c : c = [z.cbs EXCEPT ![k] = @ + n]
    OBVIOUS
  <2>8. c \in [Kinds -> Int] /\ c["get"] = z.cbs["get"]
    BY <2>5, <2>7 DEF Fields, Kinds, PutKinds
  <2>9. SameHands(rec')
    BY <2>5, <2>6, <2>7, <2>8 DEF Fields
  <2> QED BY <2>1, <2>2, <2>9
<1> QED BY <1>3, <1>4, <1>5, <1>6, <1>7 DEF DoPuts

\* The callbacks.
LEMMA HandCallback ==
  ASSUME HandInv, Bare(Record), Callback PROVE HandInv'
<1>1. rec \in Fields /\ cb \in [at : {"idle", "counted", "last", "hold"}, kind : Kinds]
  BY DEF HandInv
<1>2. ASSUME NEW l \in Links, NotifyArrives(l) PROVE HandInv'
  <2>1. UNCHANGED <<setup, saving, rec, dp>>
    BY <1>2 DEF NotifyArrives, clientVars, userVars
  <2>2. Kind(l) \in PutKinds
    BY DEF Kind, PutKinds
  <2>3. /\ cb' \in [at : {"idle", "counted", "last", "hold"}, kind : Kinds]
        /\ cb'.at = "counted" => cb'.kind \in PutKinds
    BY <1>2, <2>2 DEF NotifyArrives, CbIdle, CbAt, Kinds, PutKinds
  <2> QED BY <1>1, <2>1, <2>3, HandKept
<1>3. CASE NotifyCounts
  <2>1. UNCHANGED <<setup, saving, dp>>
    BY <1>3 DEF NotifyCounts, clientVars, userVars
  <2>2. cb' \in [at : {"idle", "counted", "last", "hold"}, kind : Kinds] /\ cb'.at # "counted"
    BY <1>1, <1>3 DEF NotifyCounts, CbIdle, CbAt, Kinds, PutKinds
  <2>3. PICK c : c = [rec.cbs EXCEPT ![cb.kind] = @ - 1]
    OBVIOUS
  <2>4. c \in [Kinds -> Int] /\ c["get"] = rec.cbs["get"] /\ rec' = [rec EXCEPT !.cbs = c]
    BY <1>1, <1>3, <2>3 DEF NotifyCounts, HandInv, Fields, Kinds, PutKinds
  <2> QED BY <1>1, <2>1, <2>2, <2>4, HandKept DEF Fields
<1>4. CASE LastCallback
  <2>1. UNCHANGED <<setup, saving, dp>>
    BY <1>4 DEF LastCallback, clientVars, userVars
  <2>2. cb' \in [at : {"idle", "counted", "last", "hold"}, kind : Kinds] /\ cb'.at # "counted"
    BY <1>4 DEF LastCallback, CbIdle, CbAt, Kinds, PutKinds
  <2>3. rec' = rec
    BY <1>4 DEF LastCallback, Requested, HandInv, Fields
  <2> QED BY <1>1, <2>1, <2>2, <2>3, HandKept
<1>5. CASE HoldScan
  <2>1. UNCHANGED <<setup, saving, dp>> /\ cb' = CbIdle /\ rec' = [rec EXCEPT !.wtng = TRUE]
    BY <1>5 DEF HoldScan, clientVars, userVars
  <2> QED BY <1>1, <2>1, HandKept DEF Fields, CbIdle, Kinds, PutKinds
<1> QED BY <1>2, <1>3, <1>4, <1>5, BareIs DEF Callback, HandInv

\* Users and clients, among them saveData.
LEMMA HandClients ==
  ASSUME HandInv, Client \/ Go \/ User PROVE HandInv'
<1>1. rec \in Fields /\ setup \in DOMAIN Setups /\ saving \in Nat
  BY DEF HandInv
<1>2. CASE DataMonitor
  <2>1. rec' = [rec EXCEPT !.told = @ - 1, !.await = TRUE, !.userSetAWAIT = TRUE] /\ rec.told > 0
    BY <1>2 DEF DataMonitor
  <2>2. PICK n \in Nat : n = rec.told - 1
    BY <1>1, <2>1 DEF Fields
  <2>3. rec' \in Fields
    BY <1>1, <2>1, <2>2 DEF Fields
  <2>4. saving' = saving + 1 /\ UNCHANGED <<setup, dp, cb>>
    BY <1>2 DEF DataMonitor, userVars
  <2>5. /\ rec'.told = rec.told - 1 /\ rec'.await /\ rec'.userSetAWAIT
        /\ rec'.waived = rec.waived /\ rec'.dstate = rec.dstate /\ rec'.cbs = rec.cbs
        /\ rec.told \in Nat
    BY <1>1, <2>1 DEF Fields
  <2>6. ~rec.waived => rec.told + saving = 1
    BY <1>1, <2>1, <2>5 DEF HandInv
  <2> QED BY <1>1, <2>3, <2>4, <2>5, <2>6, SetupStays DEF HandInv
<1>3. CASE ScanSaved
  <2>1. PICK w \in BOOLEAN : /\ w = (rec.waived /\ rec.told + saving > 1)
                             /\ rec' = [rec EXCEPT !.await = FALSE, !.waived = w]
    BY <1>1, <1>3 DEF ScanSaved, Fields
  <2>2. saving' = saving - 1 /\ saving > 0 /\ UNCHANGED <<setup, dp, cb>>
    BY <1>3 DEF ScanSaved, userVars
  <2>3. /\ rec' \in Fields /\ ~rec'.await /\ rec'.waived = w /\ rec'.told = rec.told
        /\ rec'.userSetAWAIT = rec.userSetAWAIT /\ rec'.dstate = rec.dstate /\ rec'.cbs = rec.cbs
        /\ rec.told \in Nat /\ rec.await \in BOOLEAN /\ rec.waived \in BOOLEAN
    BY <1>1, <2>1 DEF Fields
  <2>4. ~w => rec.told + saving = 1
    BY <1>1, <2>1, <2>2, <2>3 DEF HandInv
  <2>5. saving' \in Nat /\ (~w => rec'.told + saving' = 0)
    BY <1>1, <2>2, <2>3, <2>4
  <2> QED BY <1>1, <2>2, <2>3, <2>5, SetupStays DEF HandInv
<1>4. CASE StartScan \/ WriteZero \/ Pause \/ Go
  <2>1. UNCHANGED <<setup, saving, dp, cb>>
    BY <1>4 DEF StartScan, WriteZero, Pause, Go, clientVars, userVars, linkVars
  <2>2. \/ \E x \in BOOLEAN : rec' = [rec EXCEPT !.xsc = x] \/ rec' = [rec EXCEPT !.paus = x]
        \/ rec' = [rec EXCEPT !.kill = @ + 1]
    BY <1>4 DEF StartScan, WriteZero, Pause, Go, Requested
  <2>3. rec.kill + 1 \in Nat
    BY <1>1 DEF Fields
  <2> QED BY <1>1, <2>1, <2>2, <2>3, HandKept DEF Fields
<1>5. CASE ClientReleases \/ ClientHolds
  <2>1. UNCHANGED <<setup, saving, dp, cb>>
    BY <1>5 DEF ClientReleases, ClientHolds, clientVars, userVars, linkVars
  <2>2. PICK n \in Nat, w \in BOOLEAN : rec' = [rec EXCEPT !.wcnt = n, !.wtng = w]
    <3>1. CASE ClientReleases
      <4>1. PICK left : /\ left = IF rec.wcnt > 0 THEN rec.wcnt - 1 ELSE 0
                        /\ rec' = [rec EXCEPT !.wcnt = left, !.wtng = @ /\ ~(rec.wtng /\ left = 0)]
        BY <3>1 DEF ClientReleases
      <4>2. left \in Nat
        BY <1>1, <4>1 DEF Fields
      <4> QED BY <4>1, <4>2
    <3>2. CASE ClientHolds
      <4>1. rec' = [rec EXCEPT !.wcnt = @ + 1] /\ rec.wcnt + 1 \in Nat
        BY <1>1, <3>2 DEF ClientHolds, Fields
      <4>2. rec' = [rec EXCEPT !.wcnt = rec.wcnt + 1, !.wtng = rec.wtng] /\ rec.wtng \in BOOLEAN
        BY <1>1, <4>1 DEF Fields
      <4> QED BY <4>1, <4>2
    <3> QED BY <1>5, <3>1, <3>2
  <2>3. rec' \in Fields
    BY <1>1, <2>2 DEF Fields
  <2> QED BY <1>1, <2>1, <2>2, <2>3, HandKept DEF Fields
<1> QED BY <1>2, <1>3, <1>4, <1>5 DEF Client, User

\* The invariant stays, and the buffers are switched by process() alone.
LEMMA HandStep ==
  ASSUME HandInv, Bare(Record), [Next]_vars
  PROVE  HandInv' /\ (rec'.validBuf # rec.validBuf => saving = 0 \/ rec.waived)
<1>1. rec \in Fields
  BY DEF HandInv
<1>2. CASE UNCHANGED vars
  <2>1. UNCHANGED <<rec, dp, cb, saving, setup>>
    BY <1>2 DEF vars, clientVars, userVars
  <2> QED BY <1>1, <2>1, HandKept
<1>3. CASE ScanOnce \/ DelayExpires
  <2>1. UNCHANGED <<rec, dp, cb, saving, setup>>
    BY <1>3 DEF ScanOnce, DelayExpires, clientVars, userVars
  <2> QED BY <1>1, <2>1, HandKept
<1>4. CASE Process
  BY <1>4, HandProcess
<1>5. CASE ~Process /\ (DoPuts \/ Callback \/ Client \/ Go \/ User)
  <2>1. HandInv'
    BY <1>5, HandDoPuts, HandCallback, HandClients
  <2> QED BY <1>1, <1>5, <2>1, OthersKeep
<1> QED BY <1>2, <1>3, <1>4, <1>5 DEF Next

\* HandInv holds initially.
LEMMA InitHandInv == Init => HandInv
<1> SUFFICES ASSUME Init PROVE HandInv
  OBVIOUS
<1>1. rec \in Fields
  BY DEF Init, Fields, Fazes, NotPacked, Counts, Kinds, PutKinds
<1> QED BY <1>1 DEF Init, HandInv, Counts, Kinds, PutKinds, Places

\* What stays true of every record that is guarded.
KeptInv == setup \in DOMAIN Setups /\ IF Bare(Record) THEN HandInv ELSE rushed \/ IInv

\* It stays true, and no step switches buffers that saveData is to read.
LEMMA KeptStep ==
  ASSUME Guarded, KeptInv, [Next]_vars
  PROVE  KeptInv' /\ (Packs => saving = 0 \/ rec.waived \/ rushed')
<1>1. setup' = setup /\ Record' = Record /\ (rushed => rushed')
  BY SetupKept, SetupStays
<1>2. CASE Bare(Record)
  BY <1>1, <1>2, HandStep DEF KeptInv, Bare, Packs
<1>3. CASE ~Bare(Record) /\ ~rushed'
  <2>1. IInv /\ Unstopped /\ OneThing(Record)
    BY <1>1, <1>3 DEF KeptInv, Guarded, Calm, Unstopped, Record
  <2>2. IInv'
    BY <1>3, <2>1, NextStep
  <2>3. Packs => saving = 0
    BY <1>3, <2>1, SwitchStep
  <2> QED BY <1>1, <1>3, <2>2, <2>3 DEF KeptInv, Bare
<1>4. CASE ~Bare(Record) /\ rushed'
  BY <1>1, <1>4 DEF KeptInv, Bare
<1> QED BY <1>2, <1>3, <1>4

\* It holds in every state.
LEMMA KeptInvariance == Guarded /\ Spec => []KeptInv
<1>1. Init => KeptInv
  BY InitIInv, InitHandInv DEF KeptInv, Init
<1>2. Guarded => Guarded'
  BY DEF Guarded, Calm, OneThing, Bare
<1>3. Guarded /\ KeptInv /\ [Next]_vars => KeptInv'
  BY KeptStep
<1> QED BY <1>1, <1>2, <1>3, PTL DEF Spec

----------------------------------------------------------------------------
(* The theorems.                                                            *)

\* A point is recorded only when every positioner has completed its move to that point and
\* every detector its trigger there, in whatever order the callbacks come, for every record
\* in which nothing overlaps: notifyCallback, doPuts and process() count the callbacks of
\* this point and no other.
THEOREM PointsAreComplete == Apart /\ Spec => PointsComplete
<1>1. ASSUME Apart, CalmInv, [Next]_vars
      PROVE  [Undisturbed' /\ rec'.cpt = rec.cpt + 1
                => \A l \in (Positioners \cup Triggers) \ Record.failing : done[l] = rec.cpt]_vars
  BY <1>1, CalmStep, PointStep
<1>2. Apart => Apart'
  BY DEF Apart, Calm, OneThing
<1> QED BY <1>1, <1>2, Invariance, PTL DEF Spec, PointsComplete

\* If the record waits for clients by itself (AWCT), it records a point only after each of
\* them has released the scan: WCNT is theirs until notifyCallback holds the scan, and no
\* way leads past that.
THEOREM ClientsAreWaitedFor == Apart /\ HoldsSomewhere /\ Spec => ClientsWaited
<1>1. ASSUME Apart, HoldsSomewhere, CalmInv, [Next]_vars
      PROVE  [Undisturbed' /\ Record.maxHolds = 0 /\ rec'.cpt = rec.cpt + 1 => owed = 0]_vars
  <2>1. setup \in DOMAIN Setups /\ Unstopped /\ Record.maxHolds = 0 => Waits
    BY <1>1 DEF HoldsSomewhere, Calm, Unstopped, Waits, Record, Triggers, Delays
  <2> QED BY <1>1, <2>1, CalmStep, PointStep DEF CalmInv
<1>2. (Apart => Apart') /\ (HoldsSomewhere => HoldsSomewhere')
  BY DEF Apart, Calm, OneThing, HoldsSomewhere
<1> QED BY <1>1, <1>2, Invariance, PTL DEF Spec, ClientsWaited

\* The arrays of a scan are packed only when the array trigger has completed and every
\* detector has answered: packData goes through the states of the data one by one, and is
\* called in none of them too early.  Of array detectors this is so until an answer comes
\* between the request for it and its count in readArrays; AllReadsSeen is false then.
THEOREM ArraysAreComplete == Apart /\ Spec => ArraysComplete
<1>1. ASSUME Apart, CalmInv, [Next]_vars
      PROVE  [Undisturbed' /\ Packs
                => /\ \A l \in ArrayTriggers : put[l] = None /\ done[l] # Stale
                   /\ rec'.gets = {}]_vars
  BY <1>1, CalmStep, SwitchStep
<1>2. Apart => Apart'
  BY DEF Apart, Calm, OneThing
<1> QED BY <1>1, <1>2, Invariance, PTL DEF Spec, ArraysComplete

\* A scan is over only when no put is in progress any more, that of the retrace and of the
\* after-scan link included: process() finishes a scan only where it finds no put at all.
THEOREM ScanIsComplete == Apart /\ Spec => ScanComplete
<1>1. ASSUME Apart, CalmInv, [Next]_vars
      PROVE  [Undisturbed' /\ rec.busy /\ ~rec'.busy => \A l \in Links : put[l] = None]_vars
  <2>1. SUFFICES ASSUME Undisturbed', rec.busy, ~rec'.busy PROVE \A l \in Links : put[l] = None
    OBVIOUS
  <2>2. IInv /\ OneThing(Record)
    BY <1>1, <2>1, CalmStep
  <2>3. Process
    BY <1>1, <2>1, <2>2, OthersKeep DEF IInv, Types
  <2> QED BY <2>2, <2>3, ProcessFacts DEF Process
<1>2. Apart => Apart'
  BY DEF Apart, Calm, OneThing
<1> QED BY <1>1, <1>2, Invariance, PTL DEF Spec, ScanComplete

\* While saveData reads the arrays of a scan the record does not switch its buffers, though
\* it may scan on: AWAIT is set before saveData hears of the end of the scan, and packData
\* waits for it.  Of a record that reads nothing this is so whoever aborts, pauses and kills
\* its scans, until a kill takes AWAIT back; from then on the property promises nothing
\* before saveData has caught up.  After an answer has overtaken readArrays the record no
\* longer looks at AWAIT, and the property promises nothing either (see AwaitProtects).
THEOREM BuffersAreKept == Guarded /\ Spec => BuffersKept
<1>1. ASSUME Guarded, KeptInv, [Next]_vars
      PROVE  [Packs => saving = 0 \/ rec.waived \/ rushed']_vars
  BY <1>1, KeptStep
<1>2. Guarded => Guarded'
  BY DEF Guarded, Calm, OneThing, Bare
<1> QED BY <1>1, <1>2, KeptInvariance, PTL DEF Spec, BuffersKept
=============================================================================
