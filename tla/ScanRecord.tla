------------------------------ MODULE ScanRecord ------------------------------
(***************************************************************************)
(* The sscan record (sscanRecord.c) and what it talks to: the links of     *)
(* recDynLink.c, which answer every accepted put, and saveData.c, which    *)
(* reads the arrays of a scan before the next one may replace them.        *)
(*                                                                         *)
(* process() and special() run under the lock of the record.  doPuts() and *)
(* delayCallback() run one at a time in a callback thread, without that    *)
(* lock; notifyCallback() and userGetCallback() one at a time in a thread  *)
(* of channel access.  process() reads the counts of callbacks and then    *)
(* acts; doPuts() is a step for each put and each count it presets.  The   *)
(* answers of array detectors may come while process() still asks and      *)
(* counts; those that come while contScan() does, which presets its count, *)
(* come after it.                                                          *)
(*                                                                         *)
(* Left out: what the positions and data are, fly and array mode, the      *)
(* checks of limits, PVs that connect or disconnect during a scan, and     *)
(* reads that fail, which userGetCallback asks for again.                  *)
(***************************************************************************)
EXTENDS Integers, FiniteSets

CONSTANTS Links,  \* all links that are written
          Setups  \* for each name, what the fields of a record set up (see ScanAssumption)

ASSUME ScanAssumption == \A name \in DOMAIN Setups : LET s == Setups[name] IN
  /\ \* the links that are written: positioners, triggers of detectors and of arrays,
     \* "before" and "after"; those that are read; and those that may refuse a put
     s.positioners \cup s.triggers \cup s.arrayTriggers \cup s.failing \subseteq Links
  /\ {"before", "after"} \subseteq Links \ (s.positioners \cup s.triggers \cup s.arrayTriggers)
  /\ s.triggers \cap (s.positioners \cup s.arrayTriggers) = {}
  /\ s.positioners \cap s.arrayTriggers = {}
  /\ s.arrayDetectors \subseteq s.detectors /\ IsFiniteSet(s.detectors)
  /\ {s.before, s.after} \subseteq {"none", "nowait", "wait"}
  /\ {s.retrace, s.aawait} \subseteq BOOLEAN    \* is PASM set, does saveData run?
  /\ s.npts \in Nat \ {0} /\ s.awct \in Nat
  /\ s.delays \subseteq {"pdly", "ddly", "rdly"} \* those that are not 0
  /\ s.misses \in {{FALSE}, BOOLEAN}             \* may a positioner miss its position?
  /\ s.answers \in BOOLEAN                       \* do links and clients answer?
  /\ {s.maxScans, s.maxZeros, s.maxPauses, s.maxHolds} \subseteq Nat \* bounds on users

None == -2   \* no put in progress
Stale == -1  \* a put of an earlier scan

VARIABLES
  rec,    \* the fields of the record, what it has requested, and
          \* cbs, the num...Callbacks
  proc,   \* process(): "idle", or has it read counts that are "quiet" or "busy"
  dp,     \* where doPuts() is, and the links it has still to write
  cb,     \* where notifyCallback() is
  put,    \* for each link the point whose put is in progress, or None
  done,   \* (ghost) for each link the point whose put has completed last
  dly,    \* dlyCallback: "running", "expired", both or neither
  onces,  \* calls of scanOnce whose process() is to come
  saving, \* the scans in the queue of saveData
  owed,   \* how often clients will still write 0 to WAIT
  scans, zeros, pauses, holds, \* counts that the bounds limit; zeros of this scan
  rushed, \* (ghost) has an answer overtaken readArrays()?
  setup   \* the name of what is set up; it stays

clientVars == <<saving, owed>>
userVars == <<scans, zeros, pauses, holds, rushed, setup>>
linkVars == <<put, done>>
vars == <<rec, proc, dp, cb, linkVars, dly, onces, clientVars, userVars>>

Record == Setups[setup]
Positioners == Record.positioners
Triggers == Record.triggers
ArrayTriggers == Record.arrayTriggers
Detectors == Record.detectors
ArrayDetectors == Record.arrayDetectors
Delays == Record.delays
Kind(l) == IF l \in Triggers THEN "trig" ELSE IF l \in ArrayTriggers THEN "arr" ELSE "pos"

Counts == [pos |-> 0, trig |-> 0, arr |-> 0, get |-> 0]
NoneEarly == [answered |-> {}, lost |-> 0]
Quiet == \A k \in DOMAIN Counts : rec.cbs[k] = 0

Init ==
  /\ rec = [xsc |-> FALSE, pxsc |-> FALSE, busy |-> FALSE, kill |-> 0, paus |-> FALSE,
            faze |-> "IDLE", dstate |-> "UNPACKED", cpt |-> 0, validBuf |-> 0,
            await |-> FALSE, userSetAWAIT |-> FALSE, wcnt |-> 0, wtng |-> FALSE,
            waived |-> FALSE, \* (ghost) a kill reset AWAIT and saveData has not caught up
            cbs |-> Counts,
            puts |-> 0,  \* requests of doPutsCallback
            gets |-> {}, \* reads in progress
            early |-> NoneEarly, \* the reads answered while process() asked, see Early
            told |-> 0]  \* monitors of DATA = 1 on their way to saveData
  /\ proc = "idle" /\ dp = [at |-> "idle", todo |-> {}] /\ cb = [at |-> "idle", kind |-> "pos"]
  /\ put = [l \in Links |-> None] /\ done = [l \in Links |-> Stale]
  /\ dly = {} /\ onces = 0 /\ saving = 0 /\ owed = 0
  /\ scans = 0 /\ zeros = 0 /\ pauses = 0 /\ holds = 0 /\ rushed = FALSE
  /\ setup \in DOMAIN Setups

----------------------------------------------------------------------------
(* What process() calls, from one value of the record to the next.          *)

NotPacked == {"UNPACKED", "TRIG_ARRAY_READ", "ARRAY_READ_WAIT", "ARRAY_GET_CALLBACK_WAIT",
              "RECORD_ARRAY_DATA", "SAVE_DATA_WAIT"}

\* (mutant) The answers of the array detectors are not waited for.
ReadNotWaited(r) ==
  [r EXCEPT !.gets = @ \cup ArrayDetectors, !.dstate = "RECORD_ARRAY_DATA"]

\* All reads are asked for, and recorded once they are answered.  A scalar that is still to
\* be answered is waited for, too.  A read is counted after it is asked for: an answer that
\* comes in between may find the count 0, and then counts nothing down (lost).
ReadArrays(r) ==
  LET asked == [r EXCEPT !.gets = (@ \cup ArrayDetectors) \ r.early.answered,
                         !.cbs.get = @ + Cardinality(ArrayDetectors \ r.early.answered)
                                       + r.early.lost]
  IN IF r.dstate = "RECORD_ARRAY_DATA" THEN r
     ELSE [asked EXCEPT !.dstate = IF asked.cbs.get # 0 THEN "ARRAY_GET_CALLBACK_WAIT"
                                                         ELSE "RECORD_ARRAY_DATA"]

\* (mutant) The buffers are switched without a look at AWAIT.
AwaitIgnored(r) ==
  LET read == ReadArrays([r EXCEPT !.dstate = IF @ = "UNPACKED" THEN "ARRAY_READ_WAIT" ELSE @])
      packed(s) == [s EXCEPT !.dstate = "PACKED", !.validBuf = 1 - @]
  IN IF r.dstate = "PACKED" THEN r
     ELSE IF r.dstate = "UNPACKED" /\ ArrayTriggers # {}
       THEN [r EXCEPT !.dstate = "TRIG_ARRAY_READ", !.puts = @ + 1]
     ELSE IF r.dstate \in {"UNPACKED", "ARRAY_READ_WAIT", "RECORD_ARRAY_DATA"}
       THEN IF read.dstate = "ARRAY_GET_CALLBACK_WAIT" THEN read ELSE packed(read)
     ELSE packed(r)

\* The arrays are read, and when saveData has done with the last scan (AWAIT) the
\* buffers are switched.  A dstate of which it knows nothing is packed at once.
PackData(r) ==
  LET read == ReadArrays([r EXCEPT !.dstate = IF @ = "UNPACKED" THEN "ARRAY_READ_WAIT" ELSE @])
      packed(s) == [s EXCEPT !.dstate = "PACKED", !.validBuf = 1 - @]
  IN IF r.dstate = "PACKED" THEN r
     ELSE IF r.dstate = "UNPACKED" /\ ArrayTriggers # {}
       THEN [r EXCEPT !.dstate = "TRIG_ARRAY_READ", !.puts = @ + 1]
     ELSE IF r.dstate \in {"UNPACKED", "ARRAY_READ_WAIT", "RECORD_ARRAY_DATA"}
       THEN IF read.dstate = "ARRAY_GET_CALLBACK_WAIT" THEN read
            ELSE IF r.await THEN [read EXCEPT !.dstate = "SAVE_DATA_WAIT"]
            ELSE packed(read)
     ELSE IF r.dstate = "SAVE_DATA_WAIT" /\ r.await THEN r
     ELSE packed(r)

\* afterScan
DoAfterScan(r) ==
  IF Record.after # "none" THEN [r EXCEPT !.faze = "AFTER_SCAN_DO", !.puts = @ + 1]
                        ELSE [r EXCEPT !.faze = "SCAN_DONE"]

EndScan(r) ==
  LET over == [(IF r.dstate = "UNPACKED" THEN PackData(r) ELSE r) EXCEPT !.xsc = FALSE]
  IN IF Record.retrace /\ Positioners # {}
       THEN [over EXCEPT !.faze = "RETRACE_MOVE", !.puts = @ + 1]
       ELSE DoAfterScan(over)

InitScan(r) ==
  [r EXCEPT !.cpt = 0, !.puts = @ + 1,
            !.faze = IF Record.before # "none" /\ @ = "INIT_SCAN" THEN "BEFORE_SCAN"
                                                              ELSE "MOVE_MOTORS"]

RecordScalarData(r) ==
  LET next == [r EXCEPT !.cpt = @ + 1]
  IN IF next.cpt < Record.npts THEN [next EXCEPT !.faze = "MOVE_MOTORS", !.puts = @ + 1]
                        ELSE EndScan(next)

ReadDetectors(r) ==
  LET asked == [r EXCEPT !.faze = "RECORD_SCALAR_DATA", !.gets = @ \cup Detectors,
                         !.cbs.get = Cardinality(Detectors)]
  IN IF Detectors = {} THEN RecordScalarData(asked) ELSE asked

ContScan(r, deviates) ==
  CASE r.faze = "TRIG_DETCTRS" -> [r EXCEPT !.puts = @ + 1]
    [] r.faze = "CHECK_MOTORS" ->
         IF deviates THEN EndScan(r)
         ELSE IF Triggers # {} THEN [r EXCEPT !.faze = "TRIG_DETCTRS", !.puts = @ + 1]
         ELSE ReadDetectors(r)
    [] r.faze = "READ_DETCTRS" -> ReadDetectors(r)
    [] r.faze = "RECORD_SCALAR_DATA" -> RecordScalarData(r)
    [] OTHER -> r

\* At the end of a scan DATA = 1 is posted.
CheckMonitors(r) ==
  IF r.dstate # "PACKED" THEN r
  ELSE [r EXCEPT !.dstate = "POSTED", !.await = @ \/ Record.aawait,
                 !.told = IF Record.aawait THEN @ + 1 ELSE @]

NoWait(r) == [r EXCEPT !.wcnt = 0, !.wtng = FALSE]

\* What process() does at its end, unless it returns early.
Finish(r) ==
  LET posted == CheckMonitors(r)
      over == posted.busy /\ posted.faze = "SCAN_DONE" /\ posted.dstate = "POSTED"
  IN [posted EXCEPT !.busy = @ /\ ~over, !.faze = IF over THEN "IDLE" ELSE @,
                    !.pxsc = posted.xsc]

\* (mutant) The data of the last scan are abandoned one kill later.
AbandonsLater(r) == r.kill > 3

\* The third kill no longer waits for saveData.
Abandons(r) == r.kill > 2

Kill(r) ==
  LET still == [NoWait(r) EXCEPT !.cbs = Counts]
      freed == [still EXCEPT !.await = @ /\ r.userSetAWAIT]
      next == IF freed.dstate = "ARRAY_READ_WAIT"
                THEN [freed EXCEPT !.dstate = "SAVE_DATA_WAIT"]
              ELSE IF freed.dstate = "SAVE_DATA_WAIT" /\ Abandons(r)
                THEN [freed EXCEPT !.dstate = "PACKED", !.await = FALSE]
              ELSE freed
      known == [next EXCEPT !.waived = @ \/ (r.await /\ ~next.await)]
      packed == IF r.dstate = "POSTED" THEN still ELSE CheckMonitors(PackData(known))
  IN IF packed.dstate = "SAVE_DATA_WAIT" THEN packed
     ELSE [packed EXCEPT !.busy = FALSE, !.faze = "IDLE", !.pxsc = r.xsc, !.kill = 0]

NewScan(r) ==
  Finish(InitScan([NoWait(r) EXCEPT !.dstate = "UNPACKED", !.cbs = Counts,
                                    !.faze = "INIT_SCAN", !.busy = TRUE]))

\* The operator has stopped the scan: it ends when no callback is outstanding.
Abort(r, outstanding) ==
  IF ~outstanding THEN Finish(EndScan(NoWait(r)))
  ELSE IF r.dstate \in NotPacked THEN CheckMonitors(PackData(r)) ELSE r

\* xsc is FALSE, but something is left to do.
AfterBusiness(r) ==
  LET packed == IF r.dstate \in NotPacked THEN PackData(r) ELSE r
  IN IF packed.dstate \in NotPacked THEN packed
     ELSE IF packed.faze = "RETRACE_WAIT" THEN Finish(DoAfterScan(packed))
     ELSE IF packed.faze = "AFTER_SCAN_WAIT" THEN Finish([packed EXCEPT !.faze = "SCAN_DONE"])
     ELSE Finish(packed)

Processed(r, outstanding, deviates) ==
  CASE r.kill > 0 -> Kill(r)
    [] r.kill = 0 /\ r.xsc /\ (r.paus \/ r.wtng) -> r
    [] r.kill = 0 /\ r.xsc /\ ~r.paus /\ ~r.wtng ->
         IF r.busy /\ (outstanding \/ ~r.pxsc) THEN r
         ELSE IF ~r.pxsc THEN NewScan(r)
         ELSE IF r.faze = "BEFORE_SCAN_WAIT" THEN Finish(InitScan(r))
         ELSE IF r.dstate \in {"SAVE_DATA_WAIT", "ARRAY_READ_WAIT"} THEN Finish(EndScan(r))
         ELSE Finish(ContScan(r, deviates))
    [] r.kill = 0 /\ ~r.xsc ->
         IF r.pxsc THEN Abort(r, outstanding)
         ELSE IF r.faze = "BEFORE_SCAN_WAIT" THEN Finish(InitScan(r))
         ELSE IF r.busy THEN AfterBusiness(r)
         ELSE Finish(r)

----------------------------------------------------------------------------
(* doPuts().                                                                *)

Requested(r, delay) == \* the next step of the scan, at once or after a delay
  /\ rec' = r
  /\ IF delay \in Delays THEN dly' = dly \cup {"running"} /\ UNCHANGED onces
                         ELSE onces' = onces + 1 /\ UNCHANGED dly

DpIdle == [at |-> "idle", todo |-> {}]
Goes(at, r) == dp' = [at |-> at, todo |-> {}] /\ rec' = r /\ UNCHANGED <<dly, onces>>
Writes(at, links, r) == dp' = [at |-> at, todo |-> links] /\ rec' = r /\ UNCHANGED <<dly, onces>>

StartPuts ==
  LET taken == [rec EXCEPT !.puts = @ - 1]
  IN /\ dp.at = "idle" /\ rec.puts > 0
     /\ \/ rec.paus /\ Goes("idle", taken)
        \/ /\ ~rec.paus /\ rec.dstate = "TRIG_ARRAY_READ"
           /\ Writes("array", ArrayTriggers, [taken EXCEPT !.dstate = "ARRAY_READ_WAIT"])
        \/ /\ ~rec.paus /\ rec.dstate # "TRIG_ARRAY_READ"
           /\ Goes(IF rec.faze \in {"BEFORE_SCAN", "MOVE_MOTORS", "TRIG_DETCTRS",
                                    "RETRACE_MOVE", "AFTER_SCAN_DO"}
                   THEN rec.faze ELSE "idle", taken)

\* A case of the switch begins: its faze is set, or its count is preset to 1 so that no
\* callback can find it 0 before every link is written.
BeginCase ==
  \/ /\ dp.at = "BEFORE_SCAN" /\ Record.before = "wait"
     /\ Writes("before", {"before"}, [rec EXCEPT !.faze = "BEFORE_SCAN_WAIT"])
  \/ dp.at = "BEFORE_SCAN" /\ Record.before # "wait" /\ Goes("before", rec)
  \/ dp.at = "MOVE_MOTORS" /\ Writes("moving", Positioners, [rec EXCEPT !.cbs.pos = 1])
  \/ /\ dp.at = "TRIG_DETCTRS"
     /\ LET reading == [rec EXCEPT !.faze = "READ_DETCTRS",
                                   !.wcnt = IF Record.awct > 0 THEN Record.awct ELSE @]
        IN IF Triggers # {} THEN Goes("trigger", reading)
                            ELSE dp' = DpIdle /\ Requested(reading, "ddly")
  \/ dp.at = "trigger" /\ Writes("triggering", Triggers, [rec EXCEPT !.cbs.trig = 1])
  \/ dp.at = "RETRACE_MOVE" /\ Writes("retracing", Positioners, [rec EXCEPT !.cbs.pos = 1])
  \/ /\ dp.at = "AFTER_SCAN_DO" /\ Record.after = "wait"
     /\ Writes("after", {"after"}, [rec EXCEPT !.faze = "AFTER_SCAN_WAIT"])
  \/ dp.at = "AFTER_SCAN_DO" /\ Record.after # "wait" /\ Goes("after", rec)

DoPutsBegins ==
  /\ BeginCase
  /\ owed' = IF dp.at = "TRIG_DETCTRS" THEN owed + Record.awct ELSE owed
  /\ UNCHANGED <<proc, cb, linkVars, saving, userVars>>

FazeOfPut == [rec EXCEPT !.faze = CASE dp.at = "moving" -> "CHECK_MOTORS"
                                    [] dp.at = "retracing" -> "RETRACE_WAIT"
                                    [] OTHER -> @]

\* recDynLinkPutCallback: the callback of an accepted put is counted.
PutAccepted(l) ==
  /\ put[l] = None
  /\ put' = [put EXCEPT ![l] = rec.cpt]
  /\ rec' = [FazeOfPut EXCEPT !.cbs[Kind(l)] = @ + 1]

\* A link is busy, or fails.  The array triggers count down twice when it is busy.
PutRefused(l) ==
  /\ put[l] # None \/ l \in Record.failing
  /\ rec' = [FazeOfPut EXCEPT !.cbs.arr = IF Kind(l) = "arr" /\ put[l] # None THEN @ - 1 ELSE @]
  /\ UNCHANGED put

\* (mutant) An accepted put to the after-scan link does not keep doPuts from going on.
AfterScanUnwaited(l) ==
  /\ l \in dp.todo /\ (PutAccepted(l) \/ PutRefused(l)) /\ dp' = [dp EXCEPT !.todo = @ \ {l}]
  /\ UNCHANGED <<proc, cb, done, dly, onces, clientVars, userVars>>

PutLink(l) ==
  /\ l \in dp.todo
  /\ \/ PutAccepted(l) /\ dp' = IF l = "after" THEN DpIdle ELSE [dp EXCEPT !.todo = @ \ {l}]
     \/ PutRefused(l) /\ dp' = [dp EXCEPT !.todo = @ \ {l}]
  /\ UNCHANGED <<proc, cb, done, dly, onces, clientVars, userVars>>

\* (mutant) The next case is entered although callbacks are to come.
FallsThrough(kind, case, r) == Goes(case, [r EXCEPT !.cbs[kind] = @ - 1])

\* (mutant) The step of the scan is left to callbacks that have all come already.
LeftToCallbacks(kind, case, r) == Goes("idle", [rec EXCEPT !.cbs[kind] = @ - 1])

\* The preset is taken out: doPuts goes on by itself if no callback is left to come.
TakePresetOut(kind, case, r) ==
  IF rec.cbs[kind] > 1 THEN Goes("idle", [rec EXCEPT !.cbs[kind] = @ - 1])
                       ELSE Goes(case, [r EXCEPT !.cbs[kind] = @ - 1])

EndCase ==
  \/ dp.at = "array" /\ Goes("idle", rec)
  \/ /\ dp.at = "before"
     /\ IF rec.cbs.pos # 0 THEN Goes("idle", rec)
                           ELSE Goes("MOVE_MOTORS", [rec EXCEPT !.faze = "MOVE_MOTORS"])
  \/ dp.at = "moving" /\ TakePresetOut("pos", "TRIG_DETCTRS", rec)
  \/ dp.at = "triggering" /\ TakePresetOut("trig", "triggered", rec)
  \/ dp.at = "triggered" /\ rec.paus /\ Goes("idle", rec)
  \/ /\ dp.at = "triggered" /\ ~rec.paus /\ "ddly" \notin Delays /\ rec.wcnt > 0
     /\ Goes("hold", rec)
  \/ /\ dp.at = "triggered" /\ ~rec.paus /\ ("ddly" \in Delays \/ rec.wcnt = 0)
     /\ dp' = DpIdle /\ Requested(rec, "ddly")
  \/ dp.at = "hold" /\ Goes("idle", [rec EXCEPT !.wtng = TRUE])
  \/ /\ dp.at = "retracing"
     /\ TakePresetOut("pos", "AFTER_SCAN_DO", [rec EXCEPT !.faze = "AFTER_SCAN_DO"])
  \/ /\ dp.at = "after"
     /\ dp' = DpIdle /\ rec' = [rec EXCEPT !.faze = "SCAN_DONE"]
     /\ onces' = onces + 1 /\ UNCHANGED dly

DoPutsEnds ==
  /\ dp.todo = {} /\ EndCase
  /\ UNCHANGED <<proc, cb, linkVars, clientVars, userVars>>

DoPutsStarts == StartPuts /\ UNCHANGED <<proc, cb, linkVars, clientVars, userVars>>

----------------------------------------------------------------------------
(* The callbacks of links and of the timer.                                 *)

CbIdle == [at |-> "idle", kind |-> "pos"]
CbAt(place, k) == cb' = [at |-> place, kind |-> k]

NotifyArrives(l) ==
  /\ cb.at = "idle" /\ put[l] # None
  /\ put' = [put EXCEPT ![l] = None]
  /\ done' = IF put[l] = Stale THEN done ELSE [done EXCEPT ![l] = put[l]]
  /\ IF rec.faze = "IDLE" \/ rec.cbs[Kind(l)] = 0 THEN cb' = CbIdle ELSE CbAt("counted", Kind(l))
  /\ UNCHANGED <<rec, proc, dp, dly, onces, clientVars, userVars>>

NotifyCounts ==
  /\ cb.at = "counted"
  /\ rec' = [rec EXCEPT !.cbs[cb.kind] = @ - 1]
  /\ IF rec.cbs[cb.kind] = 1 THEN CbAt("last", cb.kind) ELSE cb' = CbIdle
  /\ UNCHANGED <<proc, dp, linkVars, dly, onces, clientVars, userVars>>

\* What notifyCallback does at the last callback of its kind; userGetCallback's is "get".
LastCallback ==
  /\ cb.at = "last"
  /\ \/ rec.paus /\ cb' = CbIdle /\ UNCHANGED <<rec, dly, onces>>
     \/ /\ ~rec.paus /\ cb.kind = "trig" /\ "ddly" \notin Delays /\ rec.wcnt > 0
        /\ CbAt("hold", "trig") /\ UNCHANGED <<rec, dly, onces>>
     \/ /\ ~rec.paus /\ cb.kind = "trig" /\ ("ddly" \in Delays \/ rec.wcnt = 0)
        /\ cb' = CbIdle /\ Requested(rec, "ddly")
     \/ /\ ~rec.paus /\ cb.kind = "pos"
        /\ cb' = CbIdle /\ Requested(rec, IF rec.faze = "CHECK_MOTORS" THEN "pdly" ELSE "none")
     \/ ~rec.paus /\ cb.kind = "arr" /\ cb' = CbIdle /\ Requested(rec, "none")
     \/ /\ ~rec.paus /\ cb.kind = "get" /\ cb' = CbIdle
        /\ Requested([rec EXCEPT !.dstate = IF @ = "ARRAY_GET_CALLBACK_WAIT"
                                              THEN "RECORD_ARRAY_DATA" ELSE @], "none")
  /\ UNCHANGED <<proc, dp, linkVars, clientVars, userVars>>

HoldScan ==
  /\ cb.at = "hold" /\ cb' = CbIdle
  /\ rec' = [rec EXCEPT !.wtng = TRUE]
  /\ UNCHANGED <<proc, dp, linkVars, dly, onces, clientVars, userVars>>

UserGetCallback(d) ==
  /\ cb.at = "idle" /\ d \in rec.gets
  /\ LET left == IF rec.cbs.get > 0 THEN rec.cbs.get - 1 ELSE 0
     IN /\ rec' = [rec EXCEPT !.gets = @ \ {d}, !.cbs.get = left]
        /\ IF left = 0 THEN CbAt("last", "get") ELSE cb' = CbIdle
  /\ UNCHANGED <<proc, dp, linkVars, dly, onces, clientVars, userVars>>

DelayExpires ==
  /\ "running" \in dly /\ dly' = (dly \ {"running"}) \cup {"expired"}
  /\ UNCHANGED <<rec, proc, dp, cb, linkVars, onces, clientVars, userVars>>

\* In the thread of doPuts.
DelayCallback ==
  /\ "expired" \in dly /\ dp.at = "idle"
  /\ dly' = dly \ {"expired"}
  /\ IF rec.wcnt > 0 THEN dp' = [at |-> "hold", todo |-> {}] /\ UNCHANGED onces
                     ELSE onces' = onces + 1 /\ UNCHANGED dp
  /\ UNCHANGED <<rec, proc, cb, linkVars, clientVars, userVars>>

----------------------------------------------------------------------------
(* The record is processed, and its fields are written.                     *)

ReadCounts(r) == proc' = IF \A k \in DOMAIN Counts : r.cbs[k] = 0 THEN "quiet" ELSE "busy"

ScanOnce ==
  /\ onces > 0 /\ proc = "idle"
  /\ onces' = onces - 1 /\ ReadCounts(rec)
  /\ UNCHANGED <<rec, dp, cb, linkVars, dly, clientVars, userVars>>

BrandNew == /\ rec.kill = 0 /\ rec.xsc /\ ~rec.pxsc
            /\ ~rec.paus /\ ~rec.wtng /\ ~rec.busy

\* Has this process() asked for the arrays?
ArraysAsked ==
  /\ rec.dstate = "UNPACKED" \/ (rec.dstate = "ARRAY_READ_WAIT" /\ rec.kill = 0)
  /\ rec'.dstate \in {"ARRAY_GET_CALLBACK_WAIT", "SAVE_DATA_WAIT", "PACKED", "POSTED"}

\* userGetCallback() runs while process() asks.  Each time it finds the count 0 it has the
\* record processed; the last time it may have still to look at dstate when process()
\* ends.  One answer at most is lost, because its count then stays.
Early(early) ==
  /\ early.answered # {} /\ ArraysAsked
  /\ cb.at = "idle" /\ (rec.cbs.get = 0 \/ rec.kill > 0)
  /\ \E zero \in 1 .. Cardinality(early.answered), looks \in BOOLEAN :
       /\ looks /\ early.lost = 1 /\ zero = 1 => Cardinality(early.answered) = 1
       /\ onces' = IF rec.paus THEN onces ELSE onces + (IF looks THEN zero - 1 ELSE zero)
       /\ IF looks THEN CbAt("last", "get") ELSE UNCHANGED cb

Process ==
  /\ proc # "idle" /\ proc' = "idle"
  /\ \E deviates \in Record.misses,
        early \in [answered : SUBSET ArrayDetectors, lost : {0, 1}] :
       /\ rec' = Processed([rec EXCEPT !.early = early], proc = "busy", deviates)
       /\ rushed' = (rushed \/ early # NoneEarly)
       /\ (early = NoneEarly /\ UNCHANGED <<cb, onces>>) \/ Early(early)
  /\ IF BrandNew THEN /\ put' = [l \in Links |-> IF put[l] = None THEN None ELSE Stale]
                      /\ done' = [l \in Links |-> Stale]
                 ELSE UNCHANGED linkVars
  /\ UNCHANGED <<dp, dly, clientVars, scans, zeros, pauses, holds, setup>>

\* A write of 1 to EXSC, which processes the record.
StartScan ==
  /\ proc = "idle" /\ ~rec.xsc /\ ~rec.busy
  /\ scans < Record.maxScans /\ scans' = scans + 1 /\ zeros' = 0
  /\ rec' = [rec EXCEPT !.xsc = TRUE] /\ ReadCounts(rec)
  /\ UNCHANGED <<dp, cb, linkVars, dly, onces, clientVars, pauses, holds, rushed, setup>>

\* A write of 0 to EXSC aborts the scan, and the next ones kill it.
WriteZero ==
  /\ proc = "idle" /\ (rec.xsc \/ rec.faze # "IDLE")
  /\ zeros < Record.maxZeros /\ zeros' = zeros + 1
  /\ rec' = IF rec.xsc THEN [rec EXCEPT !.xsc = FALSE] ELSE [rec EXCEPT !.kill = @ + 1]
  /\ dly' = IF rec.xsc THEN dly ELSE dly \ {"running"}
  /\ ReadCounts(rec)
  /\ UNCHANGED <<dp, cb, linkVars, onces, clientVars, scans, pauses, holds, rushed, setup>>

Pause ==
  /\ proc = "idle" /\ ~rec.paus /\ rec.busy
  /\ pauses < Record.maxPauses /\ pauses' = pauses + 1
  /\ rec' = [rec EXCEPT !.paus = TRUE] /\ dly' = dly \ {"running"}
  /\ UNCHANGED <<proc, dp, cb, linkVars, onces, clientVars, scans, zeros, holds, rushed, setup>>

Go ==
  /\ proc = "idle" /\ rec.paus
  /\ LET running == [rec EXCEPT !.paus = FALSE]
     IN IF Quiet /\ ~rec.wtng /\ ~rec.await THEN Requested(running, "rdly")
        ELSE rec' = running /\ UNCHANGED <<dly, onces>>
  /\ UNCHANGED <<proc, dp, cb, linkVars, clientVars, userVars>>

\* A client asks the scan to wait for it, and writes 0 to WAIT when it is done.
ClientHolds ==
  /\ proc = "idle" /\ rec.busy
  /\ holds < Record.maxHolds /\ holds' = holds + 1
  /\ rec' = [rec EXCEPT !.wcnt = @ + 1] /\ owed' = owed + 1
  /\ UNCHANGED <<proc, dp, cb, linkVars, dly, onces, saving, scans, zeros, pauses, rushed, setup>>

\* (mutant) The first of the clients releases the scan.
FirstReleases ==
  /\ proc = "idle" /\ owed > 0 /\ owed' = owed - 1
  /\ rec' = [rec EXCEPT !.wcnt = IF @ > 0 THEN @ - 1 ELSE 0, !.wtng = FALSE]
  /\ onces' = IF rec.wtng /\ ~rec.paus THEN onces + 1 ELSE onces
  /\ UNCHANGED <<proc, dp, cb, linkVars, dly, saving, userVars>>

ClientReleases ==
  /\ proc = "idle" /\ owed > 0 /\ owed' = owed - 1
  /\ LET left == IF rec.wcnt > 0 THEN rec.wcnt - 1 ELSE 0
         goes == rec.wtng /\ left = 0
     IN /\ rec' = [rec EXCEPT !.wcnt = left, !.wtng = @ /\ ~goes]
        /\ onces' = IF goes /\ ~rec.paus THEN onces + 1 ELSE onces
  /\ UNCHANGED <<proc, dp, cb, linkVars, dly, saving, userVars>>

\* saveData sees DATA = 1: it sets AWAIT, and resets it when it has saved the arrays.
DataMonitor ==
  /\ proc = "idle" /\ rec.told > 0
  /\ rec' = [rec EXCEPT !.told = @ - 1, !.await = TRUE, !.userSetAWAIT = TRUE]
  /\ saving' = saving + 1
  /\ UNCHANGED <<proc, dp, cb, linkVars, dly, onces, owed, userVars>>

ScanSaved ==
  /\ proc = "idle" /\ saving > 0 /\ saving' = saving - 1
  /\ rec' = [rec EXCEPT !.await = FALSE, !.waived = @ /\ rec.told + saving > 1]
  /\ onces' = IF rec.dstate = "SAVE_DATA_WAIT" THEN onces + 1 ELSE onces
  /\ UNCHANGED <<proc, dp, cb, linkVars, dly, owed, userVars>>

----------------------------------------------------------------------------
Callback == \/ \E l \in Links : NotifyArrives(l)
            \/ NotifyCounts \/ LastCallback \/ HoldScan
            \/ \E d \in Detectors : UserGetCallback(d)

DoPuts == DoPutsStarts \/ DoPutsBegins \/ DoPutsEnds \/ DelayCallback
          \/ \E l \in Links : PutLink(l)

User == StartScan \/ WriteZero \/ Pause \/ ClientHolds
Client == ClientReleases \/ DataMonitor \/ ScanSaved

Next == ScanOnce \/ Process \/ DoPuts \/ Callback \/ DelayExpires
        \/ Client \/ Go \/ User

Spec == Init /\ [][Next]_vars

\* The threads of the IOC run on and timers expire.  Where links and clients answer, every
\* put that was accepted and every read is answered, and what is paused, held or waited
\* for is let go in the end.
Answering(A) == Record.answers /\ A
FairSpec ==
  /\ Spec
  /\ WF_vars(ScanOnce) /\ WF_vars(Process) /\ WF_vars(DoPuts) /\ WF_vars(DelayExpires)
  /\ \A l \in Links : WF_vars(Answering(NotifyArrives(l)))
  /\ WF_vars(Answering(Callback)) /\ WF_vars(Answering(Go))
  /\ WF_vars(Answering(ClientReleases))
  /\ WF_vars(Answering(DataMonitor)) /\ WF_vars(Answering(ScanSaved))

----------------------------------------------------------------------------
\* Every variable has its type.
TypeOK ==
  /\ rec.faze \in {"IDLE", "INIT_SCAN", "BEFORE_SCAN", "BEFORE_SCAN_WAIT", "MOVE_MOTORS",
                   "CHECK_MOTORS", "TRIG_DETCTRS", "READ_DETCTRS", "RECORD_SCALAR_DATA",
                   "RETRACE_MOVE", "RETRACE_WAIT", "AFTER_SCAN_DO", "AFTER_SCAN_WAIT", "SCAN_DONE"}
  /\ rec.dstate \in NotPacked \cup {"PACKED", "POSTED"}
  /\ rec.cpt \in 0 .. Record.npts /\ rec.validBuf \in 0 .. 1
  /\ rec.gets \subseteq Detectors /\ DOMAIN rec.cbs = DOMAIN Counts
  /\ {rec.xsc, rec.pxsc, rec.busy, rec.paus, rec.await, rec.waived, rec.wtng, rushed}
        \subseteq BOOLEAN
  /\ rec.early \in [answered : SUBSET ArrayDetectors, lost : {0, 1}]
  /\ {rec.kill, rec.puts, rec.wcnt, rec.told, onces, saving, owed} \subseteq Nat
  /\ proc \in {"idle", "quiet", "busy"} /\ dly \subseteq {"running", "expired"}
  /\ {put[l] : l \in Links} \cup {done[l] : l \in Links} \subseteq None .. Record.npts

\* Nobody aborts or pauses the scans of this record; no answer of an array detector has
\* overtaken readArrays() either, which leaves a count or a call of scanOnce() too many; and
\* nobody asks them to wait.
Unstopped == Record.maxZeros = 0 /\ Record.maxPauses = 0
Undisturbed == Unstopped /\ ~rushed
Unheld == Record.awct = 0 /\ Record.maxHolds = 0

\* A point is recorded only when every positioner has completed its move to that point and
\* every detector its trigger there, whatever the order in which they answer.
PointsComplete ==
  [][Undisturbed' /\ rec'.cpt = rec.cpt + 1
       => \A l \in (Positioners \cup Triggers) \ Record.failing : done[l] = rec.cpt]_vars

\* When the record waits for clients by itself (AWCT), a point is recorded only after each
\* of them has released the scan.
ClientsWaited ==
  [][Undisturbed' /\ Record.maxHolds = 0 /\ rec'.cpt = rec.cpt + 1 => owed = 0]_vars

Packs == rec'.validBuf # rec.validBuf

\* The arrays of a scan are packed only when its array triggers have completed and all
\* its detectors have answered.
ArraysComplete ==
  [][Undisturbed' /\ Packs
       => (\A l \in ArrayTriggers : put[l] = None /\ done[l] # Stale) /\ rec'.gets = {}]_vars

\* readArrays() has "seen callbacks for all" of the reads when it records them: what its
\* comment says, and an answer that overtakes it breaks.
AllReadsSeen == [][Unstopped /\ Packs => rec'.gets = {}]_vars

\* A scan is over only when its links have completed: the retrace, and the after-scan
\* link if it waits for that.
ScanComplete ==
  [][Undisturbed' /\ rec.busy /\ ~rec'.busy => \A l \in Links : put[l] = None]_vars

\* The buffers that saveData reads are not switched under it, unless a kill has said so: the
\* third one, or one before saveData has written AWAIT for the first time; and as long as
\* no answer overtakes readArrays().
BuffersKept == [][Packs => saving = 0 \/ rec.waived \/ rushed']_vars

\* AWAIT "protects scan data no matter how the sscan record gets executed": what the
\* documentation says, and an answer that overtakes readArrays() breaks.
AwaitProtects == [][Unstopped /\ Packs => saving = 0]_vars

\* A scan that nobody disturbs or holds ends, if links and clients answer.
ScanEnds == (rec.busy /\ Undisturbed /\ Unheld) ~> ~rec.busy

\* The fourth write of 0 ends a scan, whoever does not answer.
KillEnds == (zeros >= 4) ~> ~rec.busy

\* The third write of 0 ends a scan, whoever does not answer.
ThirdZeroEnds == (zeros >= 3) ~> ~rec.busy

\* A scan that is paused goes on and ends once GO is written.
GoContinues == (rec.busy /\ ~rec.paus) ~> (~rec.busy \/ rec.paus)

\* A scan ends when all its clients have let it go on.
ReleasedScanEnds == (rec.busy /\ owed = 0) ~> (~rec.busy \/ owed > 0)
=============================================================================
