# Models of the synApps run-time core

synApps is a collection of EPICS support modules: device drivers, record types
and run-time libraries that are linked into an input/output controller (IOC).
Most of its 5000 files are drivers for one board, record definitions, databases
and screens.  The part where threads meet, and that everything else relies on, is

* **asynManager** (`src/asyn/asyn/asynDriver/asynManager.c`): the queues, locks
  and callback lists through which every client talks to every port driver;
* **the sequencer's run-time system** (`src/seq/src/seq/`): the threads of
  compiled state programs, and their requests to process variables (PVs);
* **autosave** (`src/autosave/asApp/src/`): the task that keeps the values of records
  in files and the restore at boot;
* **StreamDevice** (`src/stream/src/`): the interpreter of the protocols by which most
  records talk to serial and network devices;
* **the sscan record** (`src/sscan/sscanApp/src/`): scans of other records through
  channel access, with a data-storage client that reads their arrays.

This directory holds TLA+ models of these five, checked with TLC; TLAPS proves
every invariant that a run checks, some under a condition that is named with them, and
that the two detailed models with an abstract one implement it (section 6).  Where the
code breaks what is said of it, section 7 says so.

Contents: 1 Inventory, 2 Plan, 3 The modules and the code, 4 The runs, 5 Fairness,
6 The proofs, 7 Disagreements with the documentation, 8 What is not modelled.

## 1 Inventory

For each component: its state, its operations, what it interacts with, what is
hard about it, and what makes it correct.

### asynManager: the request queues

*State.*  Per port (`struct port`): four priority queues `queueList`, the block
holder `pblockProcessHolder`, `queueStateChange`, the event `notifyPortThread`,
`dpCommon` with `enabled`, `connected`, `autoConnect`; a `dpCommon` per address.
Per asynUser (`struct userPvt`): `isQueued`, `state` (idle, active, canceled),
the timer and its `timeout`, `blockPortCount`, `blockDeviceCount`,
`freeAfterCallback`, the event `callbackDone`.

*Operations.*  `queueRequest`, `cancelRequest`, `blockProcessCallback`,
`unblockProcessCallback`, `freeAsynUser`, `createAsynUser`; the port thread
(`portThread`, `autoConnectDevice`); the timer thread (`queueTimeoutCallback`);
`exceptionConnect`, `exceptionDisconnect`, `enable`.

*Interaction.*  All of them share `asynManagerLock`, which the port thread gives
up around callbacks, timer cancellations and connection attempts.  The flags
`enabled` and `connected` are written without it.

*Hard.*  A request can be taken, time out, be cancelled and be queued again at
almost the same moment, by three threads; the port thread continues a scan of its
queues after it gave up the lock; freeing an asynUser from its own callback.

*Correct when* each request is on one queue once or on none; one callback of an
asynUser runs at a time; `cancelRequest` waits for exactly the callback that runs;
a blocked port serves only the holder; the port thread never sleeps on a request
it can take; every request ends.

### asynManager: locking a port

*State.*  `synchronousLock` of the port, one `queueLockPortMutex`, event and count
per thread, `asynLockPortNotify` if the driver registered it.
*Operations.*  `queueLockPort`, `queueUnlockPort`, `queueLockPortCallback`,
`lockPort`, `unlockPort`; the port thread takes `synchronousLock` around each callback.
*Hard.*  One event means "begun" and "ended"; four locks are taken in different
orders; the lower port is locked by whoever happens to come by.
*Correct when* users exclude each other, the event is never misread, the lower port
is locked while the upper one is used, and nobody waits for ever.

### asynManager: exception callbacks and interrupt users

*State.*  A list of subscribers, a flag that a walk over it is going on, a list of
the threads that wait to change it, an event for each of them.
*Operations.*  `announceExceptionOccurred`, `exceptionCallbackAdd/Remove`;
`interruptStart/End`, `addInterruptUser`, `removeInterruptUser`,
`createInterruptNode`, `freeInterruptNode`; the drivers walk the list between
start and end (`asynOctetBase`, `asynPortDriver`, ...).
*Hard.*  The walk goes on without the lock, callbacks may take long, subscribers
come and go meanwhile and their nodes are reused; walks may overlap.
*Correct when* no walk stands on a node that is gone, the list does not change
during a walk, everybody who waits is woken.

### asynManager: connection of ports

`portConnectTimerCallback`, `portConnectProcessCallback`, `waitConnect`,
`exceptionConnect/Disconnect`, `autoConnectDevice`.  *Hard:* the timer has to be
restarted on every path on which the port is still down; `waitConnect` asks first
and subscribes afterwards.  *Correct when* a port that can be connected is.

### asynManager: registry and trace; drivers; interfaces; asynPortDriver; asynRecord

Tables built at start-up, formatting of messages, serial, IP, GPIB, VXI-11 and USB
input and output; the SyncIO interfaces (lock, one call, unlock); a parameter
library under one mutex; a record that is a client of asynManager.

### seq: requests to PVs

*State.*  Per state set and channel a semaphore and a request pointer for gets and
for puts (`getSemId`, `getReq`, `putSemId`, `putReq`); the pool of requests;
`dbch->connected`; per state set `syncSemId` and its event mask.
*Operations.*  `seq_pvGet`, `seq_pvPut` (ASYNC, SYNC with time-out, DEFAULT),
`seq_pvGetComplete`, `seq_pvPutComplete`; from the PV system `seq_get_handler`,
`seq_put_handler`, `seq_conn_handler` and `proc_db_events`; `ss_entry` evaluates
the conditions of a state again and again.
*Hard.*  Late answers, failing requests, lost connections, and requests nobody
asks about; the semaphore has to be given back on every path, once; the request
is freed by the answer while the pointer to it stays.
*Correct when* no semaphore is lost, no request has two owners, what is said to be
complete is, and who waits for completion notices it.

### seq: queues of syncQ variables

*State.*  A ring with `rd`, `wr`, `overflow` and a mutex.  *Operations.*
`seqQueuePut`, `seqQueueGet`, `seqQueueFlush`.  *Hard.*  Reader and writer go
without the mutex unless the ring is full.  *Correct when* it is a first-in
first-out queue that loses only the last element of a full queue.

### seq: monitors, event flags, state sets, start of a program, pvAssign

*State.*  Per program the event flags, the queues, the counters `assignCount`,
`monitorCount`, `connectCount` and `firstMonitorCount`, and `die`; per channel
`connected` and `gotOneMonitor`; per state set its state, `mask`, delays and
`syncSemId`.  *Operations.*  `seq_mon_handler`, `seq_conn_handler`, `seq_pvGetQ`,
`seq_pvFlushQ`, `seq_efSet/Test/TestAndClear/Clear`, `ss_entry` (mask, delays, wait,
conditions, exit), `seqWakeup`, `seq_connect` (waits for all connections and first
monitors), `seq_exit`, `seq_disconnect`, `seq_pvAssign`.  *Interaction.*  One thread
of channel access runs all handlers, a thread per state set runs its code, a shell may
stop the program; they meet in `programLock`.  *Hard.*  Masks, delays and queues
are written and read by several threads, partly without `programLock`; a handler
puts the element, sets the flag and wakes the state sets in steps; counters of
connections and first monitors are compared for equality; an exit may come at any
time.  *Correct when* no event is lost for a state set that waits for it, the flag
of a queue tells whether it has elements, a program starts when it can and not
before, and ends when it is told to.

### seq: pv layer, commands, device support, SNL compiler

Wrappers over channel access, formatting, and a sequential compiler.

### autosave

*State.*  The files `.sav`, `.savB` and the sequenced backups; per save set the words
`save_state`, `save_method` and `enabled_method`, the status of the last save, the
times of the last callback and the last attempt.  *Operations.*  The pass of the
`save_restore` task over the list (`enable_list`, the decision to save,
`get_channel_values`, `write_save_file`, `do_seq`, clearing of requests);
`periodic_save`, `on_change_timer`, `triggered_save`, `on_change_save` in other
threads; `create_data_set`, manual saves, removal and reload of a set; the restore
at boot (`reboot_restore`, `fopen_and_check`).  *Interaction.*  Timers and channel
access set bits of `save_state`, the task serves and clears them; the task writes
the files, the next boot reads them.  *Hard.*  A crash between any two steps of the
file protocol, or a write that fails in one of them; `save_state` is shared without
a lock, and a lost bit can stop the timer of a set; removal of a set with callbacks
pending.  *Correct when* what was reported as saved is restored after any crash,
what changed is saved in the end, and a save that failed is made good.

### stream: protocols of records

*State.*  Per record the flags (`BusOwner`, `LockPending`, `WritePending`,
`WaitPending`), the place in the protocol, `runningHandler`, `ioAction` of its
interface, `pact`.  *Operations.*  `startProtocol`, `evalCommand` with `evalOut`,
`evalIn`, `evalWait`, `evalExec`, `finishProtocol` with the exception handlers; the
requests and callbacks of `AsynDriverInterface` (`lockRequest`/`lockHandler`, ...,
`handleTimeout`); `process` and the callback that processes the record again.
*Interaction.*  A client of one asyn port, which it blocks from the first output to
the end of the protocol; scan, port, timer and callback threads meet in the mutex of
the record.  *Hard.*  Requests time out, are refused, or are served late; answers come
late; an error starts a handler that queues requests of its own.  *Correct when* a
reply goes to the record that asked, the bus is given back, and each record is
completed once and in the end.

### sscan: the scan record and saveData

*State.*  The fields `xsc`, `pxsc`, `busy`, `kill`, `paus`, `faze` (where the scan is),
`dstate` (where its data are), `await`, `wcnt`, `wtng`; the counts of outstanding
callbacks; the two buffers and which of them is valid (`validBuf`); per link
`notifyInProgress`.  *Operations.*  `process` and what it calls (`initScan`,
`contScan`, `endScan`, `packData`, `readArrays`, `checkMonitors`), `special` for
`EXSC`, `PAUS`, `WAIT` and `AWAIT`; `doPuts` and `delayCallback`; `notifyCallback` and
`userGetCallback`; `recDynLinkPutCallback`; `dataMonitor` and the end of
`proc_scan_data` in saveData.  *Interaction.*  `process` and `special` run under the
lock of the record, `doPuts` in a callback thread and the answers of links in a
thread of channel access without it; they share the counts, `faze` and `dstate`, and
pass the scan on with `scanOnce` and `callbackRequest`.  *Hard.*  Links answer before
the next one is written; a count must reach 0 exactly when there is nothing left
to wait for, and exactly one thread takes the next step then; a pause, a client's
`WAIT` or an abort comes between any two steps; saveData holds the arrays of the last
scan while the next one goes on.  *Correct when* a point is read after its
positioners and detectors have completed, a scan ends after all its links and does
end, saveData's buffers are not taken from it, and a kill ends what nothing else does.

### The rest

The busy record, motor, calc, modbus, love, std, mca, optics, mdautils, the
formats and protocol files of stream, and the drivers of boards and instruments.
They are arithmetic,
message formats and register access, sequential under the lock of their port or
record.  `PROJECT.json` lists every component with the reason why it is or is not
modelled, and under "hazards" each place in the components above that is hard to
test.

## 2 Plan

Done, in this order:

1. `AsynQueue`, refining `AsynPort`: the request queues.  Most of synApps runs on it.
2. `AsynQueueLock`: the three ways to own a port.
3. `AsynException`, `AsynInterrupt`: the two lists that are walked without a lock.
4. `SeqQueue`, refining `SeqFifo`: the lock-free ring.
5. `SeqPvRequest`: gets and puts of a state program.
6. Proofs about 1 to 5 (section 6).
7. `SeqProgram`: the start, the state sets, monitors, queues with their flags, and the
   exit of a state program.
8. `AutosaveFiles`: the files, with crashes and failures between any two steps.
9. `AutosaveRequests`: who asks for a save and when it is made.
10. `Stream`: protocols of records, on top of an instance of `AsynPort`: with
    `AsynQueue` implementing that module, the two show what a record gets from the
    queues.
11. `ScanRecord`: a step scan, its links and saveData.
12. Proofs about 7, 8, 10 and 11; the rest of the invariants of `AsynQueue`; that
    `SeqQueue` implements `SeqFifo`.

To come:

13. Safety of `AutosaveRequests`, whose two properties are of liveness.
14. The connect timer and `waitConnect`, composed with the queues.
15. I/O Intr records, events and `@init` in `Stream`; removal of save sets; the busy
    record; fly and array mode of `ScanRecord`, and two of them, one the detector of the
    other.

## 3 The modules and the code

Each module has the names of the C code for its variables (the fields of the
structures) and actions (the functions, or the stretches of a function between two
points where another thread may come in).  A stretch that holds a mutex all along is
one action.  Counters marked "bound" only keep the instances finite.
Where a module of proofs extends several specifications, the names that would clash
have a prefix, as in `ExcInit`, `IntSpec` or `QueueNext`.

| module | models |
|---|---|
| `AsynQueue` | the queues of one blocking port, its clients, port thread and timer thread |
| `AsynPort` | the port as its clients see it; `AsynQueue` implements it |
| `AsynQueueLock` | `queueLockPort`, `lockPort`, the port thread around a callback, `asynLockPortNotify` |
| `AsynException` | the exception callbacks of a port or device |
| `AsynInterrupt` | the interrupt users of an interface |
| `SeqQueue` | the ring of `seq_queue.c`, every access to a shared field an action |
| `SeqFifo` | the queue `seq_queue.h` promises; `SeqQueue` implements it |
| `SeqPvRequest` | `pvGet`, `pvPut`, their completion, answers and lost connections |
| `SeqProgram` | the main thread, the state sets and the handlers of a state program |
| `AutosaveFiles` | the files of a save set, their writing and the restore at boot |
| `AutosaveRequests` | the requests to save a set, and the task that serves them |
| `Stream` | records that run protocols on one device, as clients of `AsynPort` |
| `ScanRecord` | the sscan record, its links and saveData |
| `ListLemmas` | lemmas on sequences for the proofs |
| `AsynManagerProofs` | the theorems about `AsynQueueLock`, `AsynInterrupt` and `AsynException` |
| `SeqProgramProofs` | the theorems about `SeqProgram` and `SeqQueue` |
| `*Proofs` | else, the theorems about the module they are named after |
| `MC*` | instances for TLC |

**AsynQueue.**  The port thread holds `asynManagerLock` over several actions: the
lock is held exactly at the points in `Holding`, and actions of other threads that
take it have the guard `LockFree`.  A request is its asynUser (there is at most one
per asynUser), a queue is a sequence of them.  `Waiting` is the order in which the
scan visits the queues below connect priority and `ptPos` the element it stands on;
C keeps a pointer instead, and `ScanElementQueued` says that it still points to a
queued element when the scan continues after a connection attempt.  `cancelRequest`
is four actions because it stops the timer and signals after it gave up the lock.
The rule that a port is not auto-connected twice in two seconds is a
nondeterministic choice.  `epicsTimer` is not under `src/`; as used here it is off,
armed, firing, or restarted while firing, and cancelling waits for a callback that
is running.  Assumptions on clients, from `asynDriver.html` (472-474): one thread
owns an asynUser, and callbacks may use it too; it is freed by its owner while
idle or by its own callback.  `QueueWhileActive` says whether a client may queue the
request again while its callback runs, which the queues allow.  `watch` is a ghost:
the callbacks that ran when `cancelRequest` was called.

**AsynQueueLock.**  The queue of the port is a plain one that may refuse a request.
`notifies` is chosen at the start: does the driver register `asynLockPortNotify`?
`lower` and `depth` are the recursive mutex of the lower port.

**AsynException, AsynInterrupt.**  A walk is a cursor into the list; the link of a
node that was removed meanwhile may lead anywhere.  The two differ where the code
does: exceptions notify a list of nodes, interrupts look at `listModified` first.
Callbacks do not themselves add or remove subscribers, since a driver would wait for
itself.

**SeqQueue.**  One writer (the PV system's callback thread) and one reader (the state
set, which both gets and flushes).  Memory is sequentially consistent.  `sawEmpty`
is a ghost: was the queue empty at some moment of this get?

**SeqPvRequest.**  A slot is a state set, a kind and a channel: one semaphore and
one request pointer.  `Op` is the call a state set is in, `Doing` what the callback
thread of the PV system works on (there is one; channel access runs callbacks one
after the other).  `open` and `excused` are ghosts: the last request has not been
answered; an older answer was missing when its semaphore was taken, or the connection
broke since.  `Polled` are the lengths for which the program calls
`pvPutComplete`.  Calls come in any order; `left` is a ghost for the requests of ASYNC
calls that nobody has asked about.  The assertions of the code are the invariant
`AssertHolds`, which a SYNC call over such a request breaks (section 7);
`OnlyLeftFound` says that nothing else does.  The model goes on as a build with
`NDEBUG` would.  Every accepted request is
answered in the end: the release notes rely on it ("The fix assumes that CA will
eventually call the callback for each accepted request, even if the channel
disconnects", `ReleaseNotes-2-1.txt`).

**SeqProgram.**  Options `+c` and `+e`.  A channel is its event number; the flags of a
mask and the channels are one set, as in C.  The handlers run one after the other in the
thread of channel access (`ca`), each in the steps between which `programLock` is free;
`seqWakeup` called with the lock held is part of the action (`Woken`), and without it is
a loop over the state sets (`waking`, `WakeNext`).  The code of a state is any one of
the calls that are modelled, and any state may follow.  `delay` is the one delay of a
state: time may pass at any moment; `calcTimeout` marks a delay that has passed, and a
marked one no longer limits the wait.  The wait of `seq_connect` has a timeout, so that
it may look at the counters at any moment.  A get and its test for emptiness are one
step each.  Any channel may be lost at any time and come back; `MaxFirstMonitors` bounds
`firstMonitorCount`, and channels are lost only below that.  `lost` is a ghost, the
number of losses of a channel that had its first monitor. `overtaken` is another one: an
element came while `pvFlushQ` emptied the queue.  Monitor events of a program that is
ending are not modelled: `pvVarDestroy` waits for the handler that runs.

**AutosaveFiles.**  The values of all PVs are one number, which grows with each change
and each start of the IOC; a file holds such a number, is `Bad` (it has a beginning and
no `<END>`), `Empty`, or not there.  Opening a file for writing truncates it, the first
flush of the buffer leaves a part of it there (`PartWritten`), and a later step
completes it; each may fail (`Faults`; `"check"` is the look of `write_it` at the size
and the time of the file it has closed), and the process may die between any two steps.
What a reboot makes of an empty file is open: `checkFile` reads nothing and looks for
the version in a buffer that was never initialised (`dbrestore.c:1174-1183`), so the
properties speak of both outcomes (`emptyPasses`).  A manual save for which there is no
`.sav` to keep writes the file and returns an error (`"nowhere"`).  What is on the disk
survives: failures of the file system to keep what was written are not modelled, nor are
dated files, which nothing reads.  `saved` is a ghost: the last values for which
`write_save_file` returned OK.  `unsafe` is one too: a manual save or a failed `fclose`
has bypassed `.savB`.

**AutosaveRequests.**  A bit of `save_state` is set by load and store, two actions of
the thread that runs the callback (`callback` for timers, `ca` for monitors), and
cleared by the task the same way.  `overdue` and `retryDue` are what the task reads
off the clock.  A pass of the task begins after `MIN_DELAY`, which is taken to be
longer than the three instructions of a callback: none spans two passes.

**Stream.**  `at[r]` is where the one thread inside `StreamCore` is for the record, and
its steps are those between which it may call the port.  The port is `AsynPort` with
records for asynUsers: `Port!Accept` is `queueRequest`, `Port!Serve` the port thread
that calls `handleRequest`, `Port!Expire` the timer thread that calls `handleTimeout`.
A lock that finds the port disconnected is queued at connect priority (`LockFirst`,
482-484 of `AsynDriverInterface.cc`): `Port!ServeConnect` serves it whoever blocks the
port, and its callback makes nobody the holder, so that several records may own the bus
until one has written.  What is formatted and parsed is abstracted to whether it
succeeds. The device answers each output at most once, in time or late, and forgets an
older question when asked anew; the discarding of input before an output is one step,
and at most one write of an output is partial.  `FormatErrors` and `Refusals` say where
output cannot be formatted and where `queueRequest` may be refused because the port has
disconnected.  A protocol is a sequence of commands and a handler one for each error;
the constants of `MCStream` have every command and every kind of handler.

**ScanRecord.**  What `process` calls are operators from one value of the record to the
next, named for the functions; the record is what the fields, the requests it has made
(`puts`, `gets`, `told`) and the counts (`cbs`, one for each `num...Callbacks`) are.
`process` is two actions, since it reads the counts first (`ReadCounts`) and a callback
may change them before it acts.  `doPuts` is `dp`: a case of its switch, then the links
it has still to write (`PutLink`, in any order), then what it does at the end of the
case (`EndCase`); falling through is going to the next case.  `notifyCallback` is `cb`:
the arrival, the count, and what the last callback does are steps of their own, and so
is the setting of `WTNG` after the test of `WCNT`.  `put[l]` is the point for which a
put is in progress, `Stale` when the scan of that put is over; `done[l]` is a ghost, the
point for which the last put has completed.  A put is `notifyInProgress` as soon as
`recDynLinkPutCallback` accepts it: the queue of recDynLink's task is not modelled.  A
link in `failing` may refuse any put.  `scanOnce` is a count of runs of `process` to
come; it is not under `src/`, and neither is the delayed callback (`dly`), which may
have expired but not run.  `zeros` counts the writes of 0 since the scan was started,
which the properties speak of.  `Setups` names records with different links, fields and
users; `setup` is chosen at the start and stays, so that one run has them all, and
`Record` is what it stands for.  `readArrays` counts a read after it has asked for it,
and `userGetCallback` needs no lock: `Process` chooses the reads that are answered in
between (`early`), with the calls of `scanOnce` and the wrong counts that come of it,
and `rushed` is a ghost that remembers it.  A property about scans that nobody disturbs
holds trivially where an operator does, and says so (`Undisturbed`, which excepts
`rushed` too, and `Unheld`).  `waived` is a ghost: a kill has reset `AWAIT` (946-953,
968-975), and saveData has not caught up with the scans it has been told of since.

Definitions marked `(mutant)` are errors that could be made in the code.  They are
used in no specification: exchanging one of them for the definition it resembles
has to break the property that `PROJECT.json` names, which shows that the property
depends on this piece of the code.  Those of `SeqPvRequest` were bugs of releases
2.1.5, 2.1.12 and 2.1.13.

## 4 The runs

| run | shows | bounds |
|---|---|---|
| `queue_blocking` | blocking serves the holder, the port keeps the promise of `AsynPort`, requests are served | 2 asynUsers of a device without time-outs, 3 requests, blocks of port and device nested twice |
| `queue_cancel` | cancelling against callbacks, time-outs, reuse and connection changes; no lost wake-up | 2 asynUsers, 2 requests, 1 change, 1 free |
| `queue_lock` | exclusive access, everybody gets the port | 2 threads for each way to lock, nesting 2, 2 other requests, 1 refused |
| `exception` | walks are safe, nobody is forgotten | 3 asynUsers, 1 announcer |
| `interrupt` | the list does not change under a walk although nodes are reused, nobody is forgotten | 3 nodes, 1 driver thread |
| `seq_queue` | the ring implements `SeqFifo` | 3 slots, 2 values |
| `seq_request` | semaphores, truth and liveness of completion, a request finds at most one that nobody asked about | 1 state set, 1 channel, gets and puts, 2 calls, 2 requests, 1 lost connection |
| `seq_program` | no state set sleeps through an event, the flag of a queue is right, the entry code has its connections and, but for channels that were lost, its monitors, an exit ends the program | 2 state sets, 2 and 1 states, 2 channels of which 1 queued, 2 flags, 1 delay, queue of 1, 2 first monitors |
| `autosave_files` | a reboot restores what was reported as saved, or newer, or `.sav` is empty and `.savB` has it | 2 changes, 2 crashes, 2 failures, 1 manual save, 2 sequenced copies |
| `autosave_requests` | what changed is saved in the end, failed saves are made good | 3 bits of `save_method`, 1 change, 1 trigger, 1 failure |
| `stream` | replies reach who asked, the bus is released, each protocol completes once and ends | 2 records with protocols of 5 and 4 commands, 2 handlers each |
| `scan_record` | points, arrays and scans are complete before the next step, clients are waited for, saveData's buffers are kept unless a kill has taken `AWAIT` back, every scan ends, and the fourth zero ends it whoever answers | eight setups of `MCScanRecord`: `points` (2 positioners and 2 triggers, one of each may refuse, 3 points, 3 scans, delays, retrace, after-scan link), `clients` (the same with `AWCT` = 2, no delays), `held` (2 points, 1 client), `arrays` (2 positioners, 1 trigger, 1 array trigger, 1 array and 1 scalar detector, 2 points, 2 scans), `reads` (2 array detectors and nothing else, 1 point, 2 scans), `kills` (1 positioner, 1 point, 2 scans, 4 zeros in each, nothing need answer), `rekills` (no positioner, the same with 3 scans), `paused` (no positioner, 2 scans, 1 pause) |

Why the bounds are enough.  *Queues:* the hazards are between one request and its
own cancellation, time-out and next use, and between a holder and one other user;
two asynUsers of the same device and a third request (the one queued from a
callback) give all of them, and the theorems of section 6 hold for any number.
*Locks:* two threads of each kind contend with each other and with another request.
*Lists:* with three nodes one can be under the cursor, one before it and one behind.
*Ring:* with three slots the ring can be empty, partly filled, full and overflowing,
and wraps; values are copied and never looked at, so two are enough to see
one lost or repeated.  *Requests:* a late answer needs two requests of one slot;
two calls, one of which times out, give it.  Two state sets do not fit
(more than a million states); they share nothing but the pool, and the theorems
hold for any number of state sets, channels and requests.

*Program:* two state sets are needed for a wake-up that reaches one and not the other, a
queued and a plain channel for the two kinds of handler, and a queue of one element for
a get, a flush and a put that meet.  Two first monitors are those of two channels, or of
one that was lost in between, which starts the program early; more were checked with one
state set and three channels, and the theorems hold for any number.  *Files:* two
crashes are a crash and one while recovering from it; two failures hit `.sav` and then
`.savB`; two changes and the two new starts tell the files apart.  *Requests to save:*
one change and one trigger are enough for a bit to be lost under each callback, since
the failure and the re-arming recur for ever.  *Protocols:* two records contend for the
bus; a asks twice with a pause between, b hands the bus back in the middle, and their
handlers begin with each kind of command. *Scans:* one answer can come before and one
after the second link is written, so two links of each kind are enough; the second point
starts with whatever the first left behind, and the second scan with what the first did;
a third can begin while saveData still reads the first, and after kills it is the third
that could switch the buffers while saveData reads the second (`rekills`).

`CHECK_DEADLOCK FALSE` appears where a run really ends: in the two queue runs when
the bounded requests are used up, in the runs of `SeqProgram`, where the program
ends, and in those of `ScanRecord`, where all scans have been made.

## 5 Fairness

* Threads inside a library call, the port thread and the timer thread go on (weak
  fairness): they are threads of the IOC and run.
* Callbacks return.  A callback that never returns stops its port in the code too.
* Somebody who holds a lock releases it in the end (`UnlockPort`, ...): the interface
  asks for it (`asynDriver.html`).  Somebody who blocks a port or a device unblocks it
  as often as it blocked it: a client that nests and unnests for ever without ever
  reaching zero keeps the others out for ever, so the last `UnblockPort` and
  `UnblockDevice` are strongly fair.
* A thread that waits for a mutex that is free again and again gets it
  (`PortSync`), and a thread woken between two walks is not always too late
  (the SF conditions of `AsynException` and `AsynInterrupt`, and of
  `QueueUnlockPort` against nested calls): strong fairness.
* Every accepted request of a PV is answered in the end (`Answer`, see above).
* The threads of a state program and of channel access go on (`SeqProgram`); time,
  values and connections need not.
* The `save_restore` task and the threads of callbacks run, and the times of the retry
  and of the callback timeout come (`AutosaveRequests`): the task looks at the clock in
  every pass.
* A record's commands and callbacks run, and the time-out of a queued request
  comes (`Stream`).  The port may serve no request at all and the device never answer:
  a protocol ends all the same.  Time-outs and the return of callbacks are strongly
  fair because a scan thread may be inside `StreamCore` again and again.
* `FairSpec` of `ScanRecord`: the threads of the IOC run and delays expire; in a setup
  with `answers`, every put and read that was accepted is answered, a paused scan is
  continued, and clients and saveData finish in the end.  The setups `kills`, `rekills`
  and `paused` are without: only the record's own threads and timers are fair there,
  because a kill is for links and clients that never answer.
* Nothing is assumed of clients that may stop calling, of connections, or of
  cancellations: `RequestsServed` is stated for a port that from some time on stays
  enabled and connected, `TimedRequestEnds` without any such condition.

## 6 The proofs

`tlapm` proves these for every value of the constants that satisfies the ASSUME of
the module, without the bounds being small.

| module | theorems | condition |
|---|---|---|
| `AsynQueueProofs` | `TypeCorrect`, `QueuesAgree`, `ScanSafe`, `HoldersBlock`, `BlockingWorks`, `NoWakeupLost`, `PromiseKept` (refinement of `AsynPort`) | |
| | `CallbacksApart`, `FreedIsQuiet` | `NoOverlap`: no asynUser with a time-out is queued again while its callback runs |
| | `CancelIsSafe` | `~QueueWhileActive`: nor is one without |
| `AsynManagerProofs`, the lock | `TypeCorrect`, `ExclusiveAccess`, `EventUnambiguous`, `LowerPortLocked` | |
| `AsynManagerProofs`, exceptions | `ExcTypeCorrect`, `ExcListKnown`, `ExcNobodyForgotten` | |
| | `CallbacksSafe`, `ExcListFrozen` | one announcer |
| `AsynManagerProofs`, interrupts | `IntTypeCorrect` | |
| | `FreeNodesUnused`, `NobodyForgotten`, `ListFrozen` | one driver thread |
| `SeqPvRequestProofs` | `TypeCorrect`, `RequestsKeptApart`, `NothingElseFound` | |
| | `NoSemaphoreLost`, `CompletionTrue` | polls of one element |
| `SeqProgramProofs` | `TypeCorrect`, `NoWakeupLost`, `FlagIsKept`, `EntryInTime` | |
| `SeqProgramProofs`, the queue | `QueueTypeCorrect`, `SlotsNotShared`, `QueueIsFifo` (refinement of `SeqFifo`) | |
| `AutosaveFilesProofs` | `TypeCorrect`, `RestoredInTime` | |
| | `BackupFirst` | `Faultless`: no manual save, no `fclose` that fails |
| `StreamProofs` | `TypeCorrect` | |
| | `BusIsReleased`, `CompletedOnce` | `NoEarlyError`: the first `out` can be formatted |
| | `ReplyReachesWriter` | `NoEarlyError`, and `HandlersWrite`: a handler of a write time-out writes before it reads |
| `ScanRecordProofs` | `PointsAreComplete`, `ArraysAreComplete`, `ScanIsComplete` | `Apart`: in records that nobody aborts or pauses nothing overlaps |
| | `ClientsAreWaitedFor` | `Apart`, and `HoldsSomewhere`: a record with `AWCT` has triggers or `DDLY` |
| | `BuffersAreKept` | `Guarded`: each record is one that nobody aborts or pauses and in which nothing overlaps, or one with neither array triggers nor detectors, whoever aborts, pauses and kills it |

The conditions are needed: the instances of section 7 violate the properties without
them, and each is one that clients or records can keep.  What no client can keep is not
a condition: where the code breaks what is said of it by itself, section 7 names the
property that fails, and the theorem states what is left, with the exception in the
property: `OnlyLeftFound`, `EntryWithMonitors`, `RestoreNotOlder` and, by `rushed`, the
five of `ScanRecord`.  Some of these theorems state invariants that no run checks by
itself, because others that are checked follow from them or rest on them: `TypeOK`,
`QueueConsistent`, `HolderBlocks`, `EventMeansWhatIsAwaited`, `LowerLocked`,
`ListMatches`, `WaiterKnown`, `InterruptWaiterKnown`, `FreeNodeUnused`, `NoSlotShared`,
`RequestsApart`, `BackupBeforeOverwrite`.

An invariant that is not inductive was strengthened, and the strengthening checked with
TLC on the instance of the run before it was proved.

The arguments:

* *Queues.*  `QueueConsistent` speaks of positions in sequences.  The inductive form
  `Queues` says that each sequence has no duplicates, that the sequences are disjoint
  and that together they hold those with `isQueued`; `ListLemmas` says what
  appending, prepending and removing do to it.  `BlockedServesHolder` needs that
  only the callback's end makes a holder (`HolderBlocks`), and that an asynUser that
  was freed is not queued (`FreeMarked`).
  The refinement maps the request in `stopTimer` or `callback` to the one being
  served; most steps stutter.
* *Wake-ups of the port thread.*  Either a signal is there or on its way (`Coming`: an
  event that is set, a canceller before its signal, a timer callback, an announcement),
  or nothing was missed (`NothingMissed`).  What a scan has passed it could not take: that
  changes only by steps that signal, so it is enough that the scan's own steps keep it.
  An attempt to connect is the hard one: it gives up the lock, and the place of the
  scan is worth something afterwards only if `queueStateChange` is still clear.
* *Cancelling.*  `Busy` says that `state` is not idle exactly while one of the two
  threads has the asynUser, and not both; `FreedUnused` what a freed one has left;
  `Cancelling` that the callbacks a canceller has seen are struck off before
  `callbackDone` is set for it.  With `NoOverlap` the timer is not armed for a user that
  is already served, which is where a second callback would begin.
* *Locks.*  For each thread the invariant lists the phases of one `queueLockPort`
  (idle, asking, queued, taken, parked, leaving, left) with the value of its
  mutex, its event and the port thread in each; exclusive access follows because the
  port thread can be parked for one thread only and holds `synchronousLock` then.
* *Lists.*  `CallMatches` ties what a thread waits for to whether it is on the list;
  with one walker the busy flag is set exactly while it walks (`Marked`), so the
  node under the cursor stays on the list (`WalkSafe`).
* *Ring.*  `WriterInv` and `ReaderInv` say which of the positions a thread has read is
  still true: a writer that copies without the mutex has seen a free slot, and the
  reader can only add more.  For the refinement, `Ring` is the list of the elements from
  `rd` to `wr`, and one lemma for each way in which a position moves says what that does
  to the list; a put or get takes place when its thread moves its position (or, in a
  full ring, sets `overflow` or overwrites the last slot), and `CopiesMade` says that
  the element copied before is still the one in the slot.
* *Requests.*  `TInv` adds to the types where a call may be in which phase.
  `NoSemaphoreLost` needs that the request about to be issued is the one in the
  pointer (`IssueAt`), since the answer is compared with that.  `NothingElseFound`
  needs `Fresh`: a pointer that is set belongs to the call under way (`Own`) or was left by
  an ASYNC one, and an ASYNC call past its clearing finds none.
  `CompletionTrue` needs four more facts: a request that must be answered keeps its
  semaphore empty and its pointer set (`Pending`), one about to be issued cannot be
  confused with an older one (`Early`), whoever got the semaphore waits for nothing
  (`Done`), and so do the elements a poll has passed (`Seen`).
* *State programs.*  A state set that found nothing to do and whose semaphore is empty
  holds nothing of what it waits for, except what the handler that now runs has brought
  and has not told it yet (`HeldInv`); the handler keeps `programLock` from the flag to
  the last state set, and goes through them in order, so `waking["ca"]` says who has
  still to be told.  `MaskInv` is needed since `seqWakeup` looks at the mask and not at
  the state, `DelayInv` since a state set that waits without a limit must have no delay,
  and `DieInv` is the same as `HeldInv` for an exit.  `ReaderInv` is about a `pvFlushQ`
  between its two steps.  `EntryInTime` rests on counting: `firstMonitorCount` is the
  number of channels with `gotOneMonitor`, all of them connected, and of the losses of
  such channels (`FirstInv`).
* *Save files.*  Of the two files `.sav` and `.savB` one is good and as recent as the
  last save reported, and it is the other one while one is written (`SafeInv`); while
  `.sav` is empty that is `.savB`, which is the exception of `RestoreNotOlder`;
  `PlaceInv` says what the place of the task tells of the files, and holds after manual
  saves and failures too, so that the next save that succeeds makes `SafeInv` true
  again; `BoundInv` says that what was fetched is not newer than the values.  A crash
  keeps all of them because each step does.
* *Protocols.*  A protocol goes on in one place at a time (`OnePlace`), so a request, a
  timer, a command and the processCallback exclude each other; `OwnerInv` ties
  `BusOwner` to the port that is blocked, with a timed-out lock as the one exception.
  For the reply, a record that has the bus either has written since, reads nothing but
  its own (`OwnInput`) and keeps the others out, as the holder of the port or the one
  whose callback runs (`Holder`), or has not written and is on a path on which no
  command reads before one writes (`Unwritten`).  Only the former excludes others: of
  the latter there may be several, since a lock at connect priority is served in spite
  of a holder.
* *Scans.*  No lock says whose turn it is to carry a scan on: `process`, `doPuts`, the
  callbacks, the delays, clients and saveData all may.  `OneMover` says that at most one
  of them is about to, `CountInv` why: a count is preset before the first put of its
  group, and after that it is the puts in progress plus the preset plus the callback
  that is being counted, so it becomes 0 once.  All of it is stated for scans without
  `rushed`: a read that overtakes `readArrays` leaves a count or a run of `process` too
  many.  `process` therefore finds no put in progress (`ProcessFacts`), and it does one
  of five things, which `Outcome` lists: the scan begins, goes on, is followed by the
  retrace or the after-scan link, waits for its data, or is over.  `PointInv` says which
  moves and triggers of the present point have been made in which `faze`, `DataInv` what
  is known of the arrays and of saveData in which `dstate`, and `ClientInv` that a
  client that is waited for still has the triggers' count or the hold before it.  The
  properties follow since only `process` counts points, switches buffers and ends scans
  (`OthersKeep`). `Apart` asks of each record that is not aborted or paused that its
  before-scan link is not waited for (`BeforeLink` of section 7), that it has at most
  one array trigger (`TwoArrays`), and that its data are packed at once, or nothing but
  its data is left after the last point: neither a retrace nor an after-scan link
  (`SavedEarly`).  All setups that `ScanRecord.cfg` checks satisfy `Apart` and
  `HoldsSomewhere`.
* *Killed scans.*  A kill or a pause leaves callbacks behind that are counted for the
  next scan (section 7), and nothing like `CountInv` or `OneMover` holds.
  `BuffersAreKept` needs neither where nothing is read: then `packData` goes from
  `UNPACKED` to `SAVE_DATA_WAIT` or `PACKED` within one run of `process`, whoever called
  it.  `HandInv` says that the scans that saveData has or will hear of are one while
  `AWAIT` is 1 and none while it is 0, as long as no kill has reset it (`waived`) and no
  answer has overtaken `readArrays`, and that `userSetAWAIT` was set before saveData has
  the first.  `Turns` carries this through what `process` calls, `Steps` through its end
  with the monitors, and `KillStep` through a kill: the one before `userSetAWAIT` finds
  saveData with nothing, and the third does not pack but abandons.  All setups of the
  run are `Guarded`; `KillBuffers`, which has a detector, is not, and breaks the
  property.

Only model-checked: what holds under fairness (`RequestsServed`, `TimedRequestEnds`,
`CancelReturns`, `QueueLockGranted`, `IOServed`, `CallsReturn`, `InterruptCallsReturn`,
`CompletionNoticed`, `ExitEnds`, `ProtocolEnds`, `ScanEnds`, `KillEnds`, and
`ChangeSaved` and `FailureRetried`, the two properties of `AutosaveRequests`), which is
out of the prover's reach.

## 7 Disagreements with the documentation

Met while modelling.  No run ends in a violation; where a property is named below, TLC
shows a behaviour that violates it when it is checked in place of those of the run, with
the constants of the run, or with the constants that are named.  The first five need no
other constants.

* `AssertHolds` of `SeqPvRequest`: `pvPut(var,SYNC)` after a `pvPut(var,ASYNC)` that
  nobody has asked about waits for its answer and then fails the assertion of
  `seq_if.c:461`, `pvGet` that of line 159, although further SYNC calls "are *delayed*
  until the previous operation completes" (`Reference.txt:1152-1165`).
* `EntryAfterMonitors` of `SeqProgram`: `firstMonitorCount` counts first monitors of
  connections, not channels (`seq_ca.c:208`, 376): one channel that comes back stands
  for another that has had none, although "the entry code is executed only after all
  channels are connected and monitored channels have received their first monitor event"
  (`Reference.txt:162-164`). When the count passes `monitorCount`, the program never
  starts at all; no property is about that.
* `OnlyCompleteUsed` of `AutosaveFiles`: `checkFile` takes a file in which it finds no
  version for good ("Assume file is ok") without a look at its end.  In an empty file,
  which `.sav` is from `open(O_TRUNC)` to the first flush, it mostly finds none, so that
  a crash then restores nothing although `.savB` is good (`dbrestore.c:1174-1183`).  Of
  a file that does not end with the marker the document says that `reboot_restore()`
  "will not use the file" (`autoSaveRestore.html:746-750`).
* `AllReadsSeen` of `ScanRecord`: `readArrays` asks an array detector for its data and
  then counts it, with no preset (`sscanRecord.c:3358-3361`).  The first answer may find
  the count 0, or bring it there before the second detector is counted, and the record
  is processed; `packData` has no case for `ARRAY_GET_CALLBACK_WAIT` (3566) and packs
  before the second has answered.  The comment says "Either we had no remote reads, or
  we've seen callbacks for all of them" (3375).
* `AwaitProtects` of `ScanRecord`: for the same reason a record with array detectors
  switches its buffers without a look at `AWAIT`, while saveData reads those of the last
  scan, although the handshake "protects scan data no matter how the sscan record gets
  executed" (html 544-545).  The call of `scanOnce` that is left over may also come in
  the next scan, where `PointsComplete` and `ScanComplete` fail and a wrong count may
  leave the record busy for ever.

Of `ScanRecord` (lines of `sscanRecord.c` and of `sscanRecord.html`).  The setup named is
a definition of `MCScanRecord`; with `MCSetups == "x" :> BeforeLink`, say, TLC
violates the property.

* `BeforeLink`, `PointsComplete`: the before-scan link has no preset of the count as the
  other groups have (3912-3917, 3893); when it answers at once, `doPuts` and `process`
  both go on with the scan, and a point is read before its triggers.  The document has
  "Trigger detectors and wait for completion." before "Read positioners and detectors."
  (html 824-826).
* `TwoArrays`, `ArraysComplete`: neither have the array triggers (3837); the first answer
  has the arrays read.  "Execute the array-trigger link, and wait for completion."
  (html 837).  The record may also be processed for another reason, the end of the
  retrace for one, while a single array trigger is in progress.
* `SavedEarly`, `ScanComplete`: after `xsc` has become 0, `process` does not look at the
  counts (1153), and saveData's `AWAIT` = 0 ends the scan before its retrace and its
  after-scan link have completed (html 841-847).
* `NoHold`, `ClientsWaited`: a record with `AWCT` and neither triggers nor `DDLY` sets
  `WCNT` and has itself processed (3963, 3986); only the last callback of the triggers and
  that of the delay look at `WCNT`.  The document has the outer scan write a 1 to `WAIT`
  by itself, and "When WCNT reaches zero, the scan continues." (html 572-573, 577-580).
* `PauseLost`, `GoContinues`: `doPuts` looks at `PAUS` once, when it begins, and drops
  its step (3814); `contScan` has no case for it, although "A paused scan is continued
  by writing "GO"" (html 412-413).  `GO` while `AWAIT` is set does nothing either (1433).
* `ReleaseLost`, `ReleasedScanEnds`: `WCNT` is tested and `WTNG` set in two steps (2373):
  a last release in between does nothing.  "When WCNT reaches zero, the scan continues."
  (html 572-573).
* `Kills`, `ThirdZeroEnds`: the first 0 is no kill, so the third makes `kill` = 2 and the
  data are abandoned at 3 (968), although "Three successive writes of 0 to EXSC demand
  an immediate scan abort" (html 389-390).
* `KillBuffers`, `BuffersKept`: an abort while a scalar is read leaves `dstate` in
  `ARRAY_GET_CALLBACK_WAIT`, which `packData` does not know (3561); the kill that follows
  switches the buffers, although "we can't pull data buffers (last scan's data) out
  from under data-storage client" (956-958).
* `Rekills`, `BuffersKept` without `rec.waived`: a kill before saveData has first written
  `AWAIT` resets it (946-953), and so does the third (968-975).  The next scan is handed
  over then although saveData has the last; its `AWAIT` = 0 for the first of the two lets a
  third scan switch the buffers while it reads the second, although "this AWAIT
  handshake protects scan data no matter how the sscan record gets executed" (html 544-545).
* `NoArrays`, `ScanEnds`: if every array trigger is refused nobody processes the record,
  and the scan hangs (3860).
* `Kills`, `PointsComplete` without its condition `Undisturbed`: `doPuts` of a killed scan
  goes on in the next one, and the callbacks of its puts are counted for it.

Of the other modules:

* `queueLockPort` on a port whose driver registers `asynLockPortNotify` (as drvLove
  does, `drvLove.c:701`) takes the lower port a second time from another thread and
  stops the port (`asynManager.c:1789` and 866-872): `QueueLockGranted` with
  `NotifiedQueueLocks = TRUE`.  `asynDriver.html:1860` excludes nothing of the kind.
* `interruptStart` clears `listModified` although a thread waits on it, and forgets it
  when two drivers' threads overlap (`asynManager.c:2348`, `asynDriver.html:1680`):
  `InterruptCallsReturn` with two `Drivers`.
* `seqQueueGet` may return "empty" for a queue that was never empty (`seq_queue.c:89`):
  `EmptyMeansEmpty`.  It is harmless if the caller tries again at the next wake-up.
* `pvPutComplete` of an array looks at the request of its first element only
  (`seq_if.c:545`): `CompleteMeansAnswered` with two `Channels` and `Polled = {2}`.
* A manual save overwrites `.sav` without a look at `.savB` (`save_restore.c:1821`; the
  shell command passes an empty file name, which is not NULL, line 635), although
  `autoSaveRestore.html:751` says that the backup is verified before: the action
  property `BackupBeforeOverwrite` of `AutosaveFiles` with `MaxManual = 1`,
  `MaxCrash = 1` and `Faults = {}`.
* A record whose first `out` cannot be formatted is told to end although its
  protocol was never started: the processCallback, requested while `pact` was still
  set (`StreamCore.cc:596`, `StreamEpics.cc:715-722`), processes the record once
  more, and so on for ever.  `CompletesOnce` with `FormatErrors = {"first out"}`.
* `evalIn` ignores that `busReadRequest` is refused (`StreamCore.cc:912-917`), and the
  callbacks that call `evalCommand` ignore that `evalOut` is: when the port
  disconnects between two commands, the record stays `pact` for ever, and with it
  the bus blocked.  `processing.html:52` says that any error aborts the protocol.
  `ProtocolEnds` with `Refusals <- Unnoticed`.
* A record that blocks the port for a write that then times out, and whose
  `@writetimeout` handler begins with `in`, may be given the late answer to the record
  that had the bus before it: the input is cleared by `writeHandler`
  (`AsynDriverInterface.cc:624-634`), and there was none.  `ReplyToWriter` with the
  handler `<<"in">>` for `WriteTimeout`.
* `cancelRequest` returns early for a request that was queued again from its own
  callback (`CancelWaits` with `QueueWhileActive = TRUE`): it takes the new request
  off the queue and does not look at the callback that still runs
  (`asynManager.c:1549-1554`; `asynDriver.html` says it waits for the callback, as does
  `KnownProblems.html:393`).  `CancelReturns` and `TimedRequestEnds` fail there too:
  one `callbackDone` and one timer serve two requests.
* A scan passes a request of a device that is down, sets `callTimeoutUser`, and the
  next request it takes is given its timeout callback although its own device is up
  (`asynManager.c:842-873`; `asynDriver.html:773`).  No property here distinguishes
  which of the two callbacks the port thread calls.
* Two announcers of exceptions of one port clear each other's `exceptionActive`, and
  a node can be freed under a walk (`asynManager.c:570-592`, `WalkSafe` with two
  `Announcers`); likewise `CallbackListFrozen` with two `Drivers`.
* `seq_get_handler` and `seq_put_handler` free the request and then compare its
  address with the pending one (`seq_ca.c:166-169`): an address given out again makes
  a late answer look like the current one.  `CompleteMeansAnswered` excuses calls
  made while an older answer is missing, and fails without the excuse.
* With arrays of channels `SemaphoreKept` fails as well: clearing the first element's
  pointer makes its answer unexpected, and its semaphore stays empty.
* `ASYN_REASON_QUEUE_EVEN_IF_NOT_CONNECTED` is honoured only at connect priority
  (`asynManager.c:1439-1442`).
* Nested `queueLockPort` calls do not notify the lower port, nested unlocks do
  (1752-1755 against 1809-1812).

## 8 What is not modelled, and why

Of asynManager: ports that cannot block (their callback runs inside
`queueRequest`), shutdown, reports; `waitConnect` and the connect timer.
Of the sequencer: the values of PVs and the safe-mode buffers, anonymous PVs, the
DEFAULT put (it makes no request), the forms of `pvPutComplete` that return single
answers; the old event flag mode, whose loss of flags is part of its definition;
`pvMonitor`, `pvStopMonitor`, `pvSync` and `pvAssign` from a program; the release of a
program's memory, which a late caller of `seqWakeup` may still use
(`seq_if.c:1187`); that `seq_disconnect` holds `programLock` while it destroys
channels (`seq_ca.c:337`).
Of autosave: removing and reloading sets, NFS, restores at run time, values of single
channels and their connection, request files.
Of StreamDevice: I/O Intr records, `@init`, event, connect and disconnect, early and
multi-line input, reloading; the loop of `writeHandler` over old input, which a driver
that fails at once never leaves (`AsynDriverInterface.cc:624-634`).
Of sscan: the values of positions and detectors, limits, fly and array mode, PVs that are
connected or lost during a scan (`SCAN_PENDING`), the retry of `userGetCallback` when the
status of a read is an error (2443-2450), previews, the message queue and task
of recDynLink, the files saveData writes and its order of nested scans.
Of memory models: nothing weaker than sequential consistency.
Of the other components: see section 1 and the notes in `PROJECT.json`.  Most of the
repository's lines are there: drivers that translate the commands of one instrument
or the registers of one board, records whose processing is arithmetic under the lock
of the record, a compiler, and third-party code.  They have no state shared between
threads beyond that of asynManager, and a model of them would repeat the code line by
line; the models here cover the parts whose steps interleave.
