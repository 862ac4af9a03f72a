-------------------------- MODULE AutosaveRequests --------------------------
(***************************************************************************)
(* The requests to save a list of autosave (save_restore.c): the timers    *)
(* and Channel Access events that set bits of save_state without a lock,   *)
(* and the save_restore task that serves and clears them.  Writing the     *)
(* file, the subject of AutosaveFiles, is one step here.                   *)
(*                                                                         *)
(* The values of the PVs are a number that no two states of the database   *)
(* share.                                                                  *)
(***************************************************************************)
EXTENDS Naturals, FiniteSets

CONSTANTS
  Methods,          \* the save methods that create_xxx_set may be called for
  CallbackTimeout,  \* is save_restoreCallbackTimeout positive?
  MaxBits,          \* bound on the bits of save_method
  MaxValue, MaxTrigger, MaxFailures \* bounds on changes, triggers, failing saves

PERIODIC == {"PERIODIC"}
TRIGGERED == {"TRIGGERED"}
MONITORED == {"TIMER", "CHANGE"}
SingleEvents == PERIODIC \cup TRIGGERED
TimerBits == {"PERIODIC", "TIMER"}
EventBits == {"TRIGGERED", "CHANGE"}
Bits == TimerBits \cup EventBits

ASSUME RequestsAssumption ==
  /\ Methods \subseteq {PERIODIC, TRIGGERED, MONITORED} /\ Methods # {}
  /\ CallbackTimeout \in BOOLEAN
  /\ {MaxBits, MaxValue, MaxTrigger, MaxFailures} \subseteq Nat

VARIABLES
  value,    \* the present values of the PVs
  triggers, \* the times the trigger was processed
  pending,  \* the timers and events whose callbacks have yet to run, by thread
  loaded,   \* what each of these threads is about to store in save_state
  saveState, saveMethod, enabledMethod, \* struct chlist
  failing,  \* status <= SR_STATUS_FAIL
  fetched,  \* the values in the list of channels
  sav,      \* the values in the .sav file
  overdue, retryDue, \* what the clock says of callback_time and save_attempt_time
  pc,       \* where the save_restore task is
  kept,     \* the bits of save_state that the task is about to keep
  failures  \* the saves that have failed

requestVars == <<pending, loaded, saveState>>
methodVars == <<saveMethod, enabledMethod>>
clockVars == <<overdue, retryDue>>
taskVars == <<failing, fetched, sav, pc, kept, failures>>
vars == <<value, triggers, requestVars, methodVars, clockVars, taskVars>>

Threads == {"callback", "ca"}
NoRequests == [t \in Threads |-> {}]

Init ==
  /\ value = 0 /\ triggers = 0
  /\ pending = NoRequests /\ loaded = NoRequests /\ saveState = {}
  /\ saveMethod \in Methods /\ enabledMethod = {}
  /\ failing = TRUE /\ fetched = 0 /\ sav = 0
  /\ overdue = FALSE /\ retryDue = FALSE
  /\ pc = "sleep" /\ kept = {} /\ failures = 0

----------------------------------------------------------------------------
(* The database, the clock, and the callbacks of timers and events: each    *)
(* loads save_state, sets its bit and stores it.                            *)

ValueChanges ==
  /\ value < MaxValue
  /\ value' = value + 1
  /\ pending' = [pending EXCEPT !["ca"] = @ \cup (enabledMethod \cap {"CHANGE"})]
  /\ UNCHANGED <<triggers, loaded, saveState, methodVars, clockVars, taskVars>>

TriggerProcessed ==
  /\ "TRIGGERED" \in enabledMethod /\ triggers < MaxTrigger
  /\ triggers' = triggers + 1
  /\ pending' = [pending EXCEPT !["ca"] = @ \cup TRIGGERED]
  /\ UNCHANGED <<value, loaded, saveState, methodVars, clockVars, taskVars>>

CallbackLoads(t) ==
  /\ loaded[t] = {}
  /\ \E b \in pending[t] : /\ pending' = [pending EXCEPT ![t] = @ \ {b}]
                           /\ loaded' = [loaded EXCEPT ![t] = saveState \cup {b}]
  /\ UNCHANGED <<value, triggers, saveState, methodVars, clockVars, taskVars>>

CallbackStores(t) ==
  /\ loaded[t] # {}
  /\ saveState' = loaded[t]
  /\ loaded' = [loaded EXCEPT ![t] = {}]
  /\ UNCHANGED <<value, triggers, pending, methodVars, clockVars, taskVars>>

CallbackOverdue ==
  /\ CallbackTimeout /\ enabledMethod \cap (PERIODIC \cup MONITORED) # {} /\ ~overdue
  /\ overdue' = TRUE
  /\ UNCHANGED <<value, triggers, requestVars, methodVars, retryDue, taskVars>>

RetryIsDue ==
  /\ failing /\ ~retryDue
  /\ retryDue' = TRUE
  /\ UNCHANGED <<value, triggers, requestVars, methodVars, overdue, taskVars>>

\* create_xxx_set adds a method to the existing list.
CreateDataSet ==
  /\ \E m \in Methods : m \cap saveMethod = {} /\ saveMethod' = saveMethod \cup m
  /\ Cardinality(saveMethod') <= MaxBits
  /\ UNCHANGED <<value, triggers, requestVars, enabledMethod, clockVars, taskVars>>

----------------------------------------------------------------------------
(* The pass of the task over the list: what makes a save necessary.         *)

Enabling == saveMethod \ enabledMethod

\* (mutant) Every pass restarts the callback timeout.
TimeoutRestarted ==
  /\ pc = "sleep" /\ loaded = NoRequests
  /\ pc' = "check"
  /\ pending' = [callback |-> pending["callback"] \cup (Enabling \cap TimerBits),
                 ca |-> pending["ca"] \cup (Enabling \cap EventBits)]
  /\ enabledMethod' = saveMethod
  /\ overdue' = FALSE
  /\ UNCHANGED <<value, triggers, loaded, saveState, saveMethod, retryDue, failing,
                 fetched, sav, kept, failures>>

\* A pass begins after MIN_DELAY, which is longer than the three instructions of
\* a callback.
EnableList ==
  /\ pc = "sleep" /\ loaded = NoRequests
  /\ pc' = "check"
  /\ pending' = [callback |-> pending["callback"] \cup (Enabling \cap TimerBits),
                 ca |-> pending["ca"] \cup (Enabling \cap EventBits)]
  /\ enabledMethod' = saveMethod
  /\ overdue' = (overdue /\ Enabling \subseteq TRIGGERED)
  /\ UNCHANGED <<value, triggers, loaded, saveState, saveMethod, retryDue, failing,
                 fetched, sav, kept, failures>>

\* (mutant) A failed save waits for the next request.
RequestedOnly == saveState \cap SingleEvents # {} \/ MONITORED \subseteq saveState

SaveNeeded ==
  \/ saveState \cap SingleEvents # {}
  \/ MONITORED \subseteq saveState
  \/ failing /\ retryDue

CheckList ==
  /\ pc = "check"
  /\ IF overdue THEN saveState' = saveMethod /\ pc' = "fetch"
     ELSE pc' = (IF SaveNeeded THEN "fetch" ELSE "rearm") /\ UNCHANGED saveState
  /\ UNCHANGED <<value, triggers, pending, loaded, methodVars, clockVars, failing,
                 fetched, sav, kept, failures>>

GetChannelValues ==
  /\ pc = "fetch"
  /\ fetched' = value /\ pc' = "write"
  /\ UNCHANGED <<value, triggers, requestVars, methodVars, clockVars, failing, sav,
                 kept, failures>>

\* write_save_file: its status tells whether the .sav file has the values.
WriteSaveFile ==
  /\ pc = "write"
  /\ retryDue' = FALSE
  /\ \/ sav' = fetched /\ failing' = FALSE /\ UNCHANGED failures
     \/ /\ failures < MaxFailures /\ failures' = failures + 1
        /\ failing' = TRUE /\ UNCHANGED sav
  /\ pc' = "rearm"
  /\ UNCHANGED <<value, triggers, requestVars, methodVars, overdue, fetched, kept>>

----------------------------------------------------------------------------
(* The end of the pass: timers are started again and requests are cleared,  *)
(* those too that came while the file was written.                          *)

RearmPeriodic ==
  /\ pc = "rearm"
  /\ pc' = "clear single events"
  /\ IF "PERIODIC" \in saveState
     THEN /\ pending' = [pending EXCEPT !["callback"] = @ \cup PERIODIC]
          /\ overdue' = FALSE
     ELSE UNCHANGED <<pending, overdue>>
  /\ UNCHANGED <<value, triggers, loaded, saveState, methodVars, retryDue, failing,
                 fetched, sav, kept, failures>>

ClearSingleEvents ==
  /\ pc = "clear single events"
  /\ IF saveState \cap SingleEvents # {}
     THEN kept' = saveState \ SingleEvents /\ pc' = "store single events"
     ELSE pc' = "rearm monitored" /\ UNCHANGED kept
  /\ UNCHANGED <<value, triggers, requestVars, methodVars, clockVars, failing,
                 fetched, sav, failures>>

RearmMonitored ==
  /\ pc = "rearm monitored"
  /\ IF MONITORED \subseteq saveState
     THEN /\ pending' = [pending EXCEPT !["callback"] = @ \cup {"TIMER"}]
          /\ pc' = "clear monitored" /\ overdue' = FALSE
     ELSE pc' = "sleep" /\ UNCHANGED <<pending, overdue>>
  /\ UNCHANGED <<value, triggers, loaded, saveState, methodVars, retryDue, failing,
                 fetched, sav, kept, failures>>

ClearMonitored ==
  /\ pc = "clear monitored"
  /\ kept' = saveState \ MONITORED /\ pc' = "store monitored"
  /\ UNCHANGED <<value, triggers, requestVars, methodVars, clockVars, failing,
                 fetched, sav, failures>>

StoreKept(here, next) ==
  /\ pc = here
  /\ saveState' = kept /\ kept' = {} /\ pc' = next
  /\ UNCHANGED <<value, triggers, pending, loaded, methodVars, clockVars, failing, fetched,
                 sav, failures>>

----------------------------------------------------------------------------

CallbackStep(t) == CallbackLoads(t) \/ CallbackStores(t)

TaskStep ==
  \/ EnableList \/ CheckList \/ GetChannelValues \/ WriteSaveFile
  \/ RearmPeriodic \/ ClearSingleEvents
  \/ StoreKept("store single events", "rearm monitored")
  \/ RearmMonitored \/ ClearMonitored \/ StoreKept("store monitored", "sleep")

Next ==
  \/ ValueChanges \/ TriggerProcessed \/ CreateDataSet
  \/ \E t \in Threads : CallbackStep(t)
  \/ CallbackOverdue \/ RetryIsDue
  \/ TaskStep

Spec == Init /\ [][Next]_vars

\* The task and the threads run, and the times of the retry and of the
\* callback timeout come.
FairSpec ==
  /\ Spec
  /\ WF_vars(TaskStep)
  /\ \A t \in Threads : WF_vars(CallbackStep(t))
  /\ WF_vars(CallbackOverdue) /\ WF_vars(RetryIsDue)

----------------------------------------------------------------------------
(* Properties.                                                              *)

Pcs == {"sleep", "check", "fetch", "write", "rearm", "clear single events",
        "store single events", "rearm monitored", "clear monitored", "store monitored"}

\* Every variable has its type.
TypeOK ==
  /\ value \in Nat /\ triggers \in Nat /\ fetched \in Nat /\ sav \in Nat /\ failures \in Nat
  /\ pending \in [Threads -> SUBSET Bits] /\ loaded \in [Threads -> SUBSET Bits]
  /\ {saveState, saveMethod, enabledMethod, kept} \subseteq SUBSET Bits
  /\ {failing, overdue, retryDue} \subseteq BOOLEAN
  /\ pc \in Pcs

\* When the values stop changing and no more triggers come, the .sav file of a
\* monitored set comes to hold the values, although the request to save them may
\* be cleared unserved and the timer lost.
ChangeSaved ==
  <>[](MONITORED \subseteq saveMethod /\ PERIODIC \cap saveMethod = {})
    => <>[](sav = value)

\* A list whose save has failed, or that was never saved, is saved some time.
FailureRetried == failing ~> ~failing
=============================================================================
