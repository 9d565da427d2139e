------------------------------ MODULE C4Device ------------------------------
(***************************************************************************)
(* HeliotisC4Device (src/C++/HeliotisC4System.cpp): one device facade      *)
(* called by several threads, whose acquisition worker owns every SDK call *)
(* from C4Dev_startAcquisition to C4Dev_stopAcquisition.                   *)
(*                                                                         *)
(* A thread is a client, calling the public operations one after another,  *)
(* or the worker of one arm.  pc[t] is the next step of thread t and       *)
(* stack[t] the steps it returns to, innermost call first.  A step is one  *)
(* critical section of the code, or one SDK call or callback between two   *)
(* of them:                                                                *)
(*   - a section of _stateMutex, _triggerMutex or _acquisitionStartMutex   *)
(*     never blocks inside, so it is one step and needs no lock owner;     *)
(*   - std::scoped_lock(_stateMutex, _sdkMutex) holds neither mutex while  *)
(*     it waits, so it is one step, enabled while _sdkMutex is free;       *)
(*   - _connectionLifecycleMutex, _acquisitionArmMutex,                    *)
(*     _acquisitionStopMutex and the worker's own _sdkMutex sections last  *)
(*     several steps: lock holds their owners.                             *)
(* Every notify of _acquisitionWorkerCondition, _initializationCondition   *)
(* and _acquisitionStartCondition follows the change it announces, so a    *)
(* wait on them is a guard.  The wait on _triggerCondition, whose          *)
(* predicate reads a flag written under another mutex, is modelled with    *)
(* its blocked state.                                                      *)
(*                                                                         *)
(* Log, error texts and frame contents are left out.                       *)
(***************************************************************************)
EXTENDS Integers, Sequences

CONSTANTS Clients,       \* threads that call the public operations
          ClientOps,     \* operations the clients call
          CallbackOps,   \* operations a frame or acquisition callback calls, one per callback
          ConnectionOps, \* operations a connection status callback calls
          Faults,        \* failures of the SDK, the host or a callback that can happen
          Software,      \* trigger routes of an arm: TRUE is FrameStart=On/Software
          Connected,     \* whether the first state is the one after a successful open
          MaxArms,       \* bound: acquisition identifiers handed out
          NoThread

Ops == {"open", "close", "init", "cancel", "feature", "trigger", "start", "request", "stop"}

FaultKinds == {"open", "validate", "spawn", "setup", "restore", "buffer", "stop", "throw"}

Workers == 1..MaxArms
Threads == Clients \cup Workers

ASSUME MaxArmsAssumption == MaxArms \in Nat
ASSUME ThreadsAssumption == Clients \cap Workers = {} /\ NoThread \notin Threads
ASSUME OpsAssumption == ClientOps \cup CallbackOps \cup ConnectionOps \subseteq Ops
ASSUME FaultsAssumption == Faults \subseteq FaultKinds
ASSUME SoftwareAssumption == Software \subseteq BOOLEAN
ASSUME ConnectedAssumption == Connected \in BOOLEAN

VARIABLES
  st,              \* fields guarded by _stateMutex
  trig,            \* fields guarded by _triggerMutex
  hs,              \* fields guarded by _acquisitionStartMutex: the start handshake
  stopRequested,   \* _stopAcquisitionRequested (atomic)
  cancelRequested, \* _cancelInitializationRequested (atomic)
  lock,            \* owners of the mutexes held across steps
  dev,             \* the device behind the SDK handle (external)
  preset,          \* history: the configuration last written by a user or left by a reported failure
  told,            \* history: status callbacks, active ones minus inactive ones
  worker,          \* what the worker of each arm was given, and its loop locals
  loc,             \* locals of the operation each thread runs
  pc, stack

vars == <<st, trig, hs, stopRequested, cancelRequested, lock, dev, preset, told,
          worker, loc, pc, stack>>

------------------------------------------------------------------------------
(* Types *)

ClientSteps ==
  {"idle", "callback", "callback_return",
   "open_lock", "open_handles", "open_publish", "open_read", "open_check",
   "close_lock", "close_cancel", "close_claim", "close_wait", "close_take",
   "close_release", "close_end", "lifecycle_unlock",
   "init_admit", "init_command", "init_poll", "init_end", "cancel",
   "feature", "trigger_check", "trigger_queue",
   "start_lock", "start_check", "start_prearm", "start_reset", "start_spawn",
   "start_publish", "start_await", "start_fail", "start_join", "start_commit",
   "start_tell", "start_told", "start_release", "start_unlock",
   "request_flag", "request_notify",
   "stop_check", "stop_lock", "stop_wait", "stop_signal", "stop_join", "stop_unlock",
   "finish_state", "finish_trigger", "finish_tell", "finish_end"}

WorkerSteps ==
  {"none", "enter", "setup", "configure", "report", "quit", "hold", "loop", "take",
   "blocked", "receive", "sdk", "buffer", "diagnose", "after", "deliver", "delivered",
   "sdk_stop", "stopping", "failed", "exited"}

Steps == ClientSteps \cup WorkerSteps

(* The steps a call or a callback can return to. *)
Returns ==
  {"callback_return", "open_handles", "open_check", "close_take", "close_end",
   "lifecycle_unlock", "start_check", "start_told", "stop_wait", "stop_unlock",
   "finish_end", "delivered"}

AcquisitionModes == {"Continuous", "Other"}   \* Other: any device mode but Continuous
Selectors == {"FrameStart", "Other"}          \* Other: any TriggerSelector but FrameStart

StateFields ==
  [device       : BOOLEAN,                      \* _device # nullptr (and _interface)
   closing      : BOOLEAN,
   initializing : Threads \cup {NoThread},      \* _initializing and _initializationThreadId
   reconnect    : BOOLEAN,                      \* _requiresReconnect
   acquiring    : BOOLEAN,
   installing   : BOOLEAN,                      \* _acquisitionWorkerInstalling
   thread       : Workers \cup {NoThread},      \* _acquisitionThread, NoThread if not joinable
   workerId     : Workers \cup {NoThread},      \* _acquisitionWorkerThreadId
   dispatching  : Threads \cup {NoThread},      \* _activeStatusDispatching and its thread id
   available    : BOOLEAN,                      \* _softwareTriggerAvailable
   activeId     : 0..MaxArms,
   nextId       : 1..(MaxArms + 1)]

TriggerFields == [pending : Nat, inFlight : BOOLEAN]
HandshakeFields == [completed : BOOLEAN, succeeded : BOOLEAN, released : BOOLEAN]

LockFields ==
  [lifecycle : Threads \cup {NoThread}, depth : Int,     \* recursive
   arm : Threads \cup {NoThread}, stop : Threads \cup {NoThread}, sdk : Threads \cup {NoThread}]

DeviceFields ==
  [open : BOOLEAN, streaming : BOOLEAN, mode : AcquisitionModes, selector : Selectors]

PresetFields == [mode : AcquisitionModes, selector : Selectors]

WorkerFields ==
  [software : BOOLEAN, single : BOOLEAN, mode : AcquisitionModes, selector : Selectors,
   issued : BOOLEAN, received : BOOLEAN]

LocalFields ==
  [joinee : Workers \cup {NoThread},   \* the std::thread moved out to be joined
   was    : BOOLEAN,                   \* finishAcquisition: wasAcquiring; close: wasOpen
   recover: BOOLEAN,                   \* close: recoveryStopRequired
   id     : 0..MaxArms]                \* acquisitionId of a start or a trigger request

NoLocals == [joinee |-> NoThread, was |-> FALSE, recover |-> FALSE, id |-> 0]
NoWorker == [software |-> FALSE, single |-> FALSE, mode |-> "Continuous",
             selector |-> "FrameStart", issued |-> FALSE, received |-> FALSE]

TypeOK ==
  /\ st \in StateFields
  /\ trig \in TriggerFields
  /\ hs \in HandshakeFields
  /\ stopRequested \in BOOLEAN
  /\ cancelRequested \in BOOLEAN
  /\ lock \in LockFields
  /\ dev \in DeviceFields
  /\ preset \in PresetFields
  /\ told \in [connection : Int, acquisition : Int]
  /\ worker \in [Workers -> WorkerFields]
  /\ loc \in [Threads -> LocalFields]
  /\ pc \in [Threads -> Steps]
  /\ stack \in [Threads -> Seq(Returns)]

Init ==
  /\ st = [device |-> Connected, closing |-> FALSE, initializing |-> NoThread, reconnect |-> FALSE,
           acquiring |-> FALSE, installing |-> FALSE, thread |-> NoThread,
           workerId |-> NoThread, dispatching |-> NoThread, available |-> FALSE,
           activeId |-> 0, nextId |-> 1]
  /\ trig = [pending |-> 0, inFlight |-> FALSE]
  /\ hs = [completed |-> FALSE, succeeded |-> FALSE, released |-> FALSE]
  /\ stopRequested = FALSE
  /\ cancelRequested = FALSE
  /\ lock = [lifecycle |-> NoThread, depth |-> 0, arm |-> NoThread, stop |-> NoThread,
             sdk |-> NoThread]
  /\ preset \in PresetFields
  /\ dev = [open |-> Connected, streaming |-> FALSE, mode |-> preset.mode,
            selector |-> preset.selector]
  /\ told = [connection |-> IF Connected THEN 1 ELSE 0, acquisition |-> 0]
  /\ worker = [w \in Workers |-> NoWorker]
  /\ loc = [t \in Threads |-> NoLocals]
  /\ pc = [t \in Threads |-> IF t \in Clients THEN "idle" ELSE "none"]
  /\ stack = [t \in Threads |-> <<>>]

------------------------------------------------------------------------------
(* Control flow: calls, returns, callbacks *)

Goto(t, step) == pc' = [pc EXCEPT ![t] = step] /\ stack' = stack

Call(t, step, next) ==
  /\ pc' = [pc EXCEPT ![t] = step]
  /\ stack' = [stack EXCEPT ![t] = <<next>> \o @]

Caller(t) ==
  IF stack[t] # <<>> THEN Head(stack[t]) ELSE IF t \in Workers THEN "exited" ELSE "idle"

Callers(t) == IF stack[t] # <<>> THEN Tail(stack[t]) ELSE <<>>

Return(t) ==
  /\ pc' = [pc EXCEPT ![t] = Caller(t)]
  /\ stack' = [stack EXCEPT ![t] = Callers(t)]

(* A signal that also wakes the worker blocked on _triggerCondition. *)
NotifyAndGoto(t, step) ==
  pc' = [u \in Threads |-> IF u = t THEN step
                           ELSE IF pc[u] = "blocked" THEN "take" ELSE pc[u]]

NotifyAndReturn(t) ==
  /\ NotifyAndGoto(t, Caller(t))
  /\ stack' = [stack EXCEPT ![t] = Callers(t)]

InCallback(t) == \E i \in DOMAIN stack[t] : stack[t][i] = "callback_return"

Entry ==
  [open |-> "open_lock", close |-> "close_lock", init |-> "init_admit", cancel |-> "cancel",
   feature |-> "feature", trigger |-> "trigger_check", start |-> "start_lock",
   request |-> "request_flag", stop |-> "stop_check"]

(* The bound on arms: a start is called only while an identifier is left. *)
Callable(op) == op = "start" => st.nextId <= MaxArms

ClientCall(t) ==
  /\ t \in Clients
  /\ pc[t] = "idle"
  /\ \E op \in ClientOps : Callable(op) /\ Goto(t, Entry[op])
  /\ UNCHANGED <<st, trig, hs, stopRequested, cancelRequested, lock, dev, preset, told, worker, loc>>

(* The callback reports a connection or a disconnection, from open or close. *)
OfConnection(t) == stack[t] # <<>> /\ Head(stack[t]) \in {"open_check", "close_end"}

(* A callback calls one operation or none, and callbacks do not nest. *)
CallbackCall(t) ==
  /\ pc[t] = "callback"
  /\ ~InCallback(t)
  /\ \E op \in CallbackOps \cup ConnectionOps :
       /\ op \in IF OfConnection(t) THEN ConnectionOps ELSE CallbackOps
       /\ Callable(op)
       /\ Call(t, Entry[op], "callback_return")
  /\ UNCHANGED <<st, trig, hs, stopRequested, cancelRequested, lock, dev, preset, told, worker, loc>>

CallbackReturn(t) ==
  /\ pc[t] \in {"callback", "callback_return"}
  /\ Return(t)
  /\ UNCHANGED <<st, trig, hs, stopRequested, cancelRequested, lock, dev, preset, told, worker, loc>>

(* Mutant: the worker is not recognised as a callback thread. *)
OnlyDispatcherIsCallbackThread(t) == st.dispatching = t

(* The thread delivers callbacks of the running acquisition or its active status. *)
IsCallbackThread(t) == st.dispatching = t \/ st.workerId = t

------------------------------------------------------------------------------
(* requestStopAcquisition *)

RequestFlag(t) ==
  /\ pc[t] = "request_flag"
  /\ IF st.acquiring \/ st.thread # NoThread
       THEN stopRequested' = TRUE /\ Goto(t, "request_notify")
       ELSE stopRequested' = stopRequested /\ Return(t)
  /\ UNCHANGED <<st, trig, hs, cancelRequested, lock, dev, preset, told, worker, loc>>

(* Mutant: the worker blocked on _triggerCondition is not notified. *)
RequestWithoutNotify(t) ==
  /\ pc[t] = "request_notify"
  /\ trig' = [trig EXCEPT !.pending = 0]
  /\ Return(t)
  /\ UNCHANGED <<st, hs, stopRequested, cancelRequested, lock, dev, preset, told, worker, loc>>

(* The section of _triggerMutex, then the notifications. *)
RequestNotify(t) ==
  /\ pc[t] = "request_notify"
  /\ trig' = [trig EXCEPT !.pending = 0]
  /\ NotifyAndReturn(t)
  /\ UNCHANGED <<st, hs, stopRequested, cancelRequested, lock, dev, preset, told, worker, loc>>

------------------------------------------------------------------------------
(* stopAcquisition *)

StopCheck(t) ==
  /\ pc[t] = "stop_check"
  /\ Goto(t, IF IsCallbackThread(t) THEN "request_flag" ELSE "stop_lock")
  /\ UNCHANGED <<st, trig, hs, stopRequested, cancelRequested, lock, dev, preset, told, worker, loc>>

(* Mutant: no fence between teardown owners. *)
NoTeardownFence == TRUE

(* _acquisitionStopMutex admits one teardown owner. *)
TeardownFree == lock.stop = NoThread

StopLock(t) ==
  /\ pc[t] = "stop_lock"
  /\ TeardownFree
  /\ lock' = [lock EXCEPT !.stop = t]
  /\ Call(t, "request_flag", "stop_wait")
  /\ UNCHANGED <<st, trig, hs, stopRequested, cancelRequested, dev, preset, told, worker, loc>>

(* The stop flag after the worker is known: set, whatever became of the request. *)
Reasserted == TRUE

(* Waits for an arm to be installed or abandoned, then takes its thread. *)
StopWait(t) ==
  /\ pc[t] = "stop_wait"
  /\ ~st.installing
  /\ IF st.thread = NoThread /\ ~st.acquiring
       THEN /\ Goto(t, "stop_unlock")
            /\ UNCHANGED <<st, stopRequested, loc>>
       ELSE /\ stopRequested' = Reasserted
            /\ loc' = [loc EXCEPT ![t].joinee = st.thread]
            /\ st' = [st EXCEPT !.thread = NoThread]
            /\ Goto(t, "stop_signal")
  /\ UNCHANGED <<trig, hs, cancelRequested, lock, dev, preset, told, worker>>

StopSignal(t) ==
  /\ pc[t] = "stop_signal"
  /\ trig' = [trig EXCEPT !.pending = 0]
  /\ NotifyAndGoto(t, "stop_join") /\ stack' = stack
  /\ UNCHANGED <<st, hs, stopRequested, cancelRequested, lock, dev, preset, told, worker, loc>>

(* The joined thread has ended.  The branch for a thread that holds its own     *)
(* std::thread is left out: NoSelfJoin shows that it is never taken.            *)
Joinable(t) == loc[t].joinee # NoThread => pc[loc[t].joinee] = "exited"

StopJoin(t) ==
  /\ pc[t] = "stop_join"
  /\ Joinable(t)
  /\ loc' = [loc EXCEPT ![t].joinee = NoThread]
  /\ Call(t, "finish_state", "stop_unlock")
  /\ UNCHANGED <<st, trig, hs, stopRequested, cancelRequested, lock, dev, preset, told, worker>>

StopUnlock(t) ==
  /\ pc[t] = "stop_unlock"
  /\ lock' = [lock EXCEPT !.stop = NoThread]
  /\ Return(t)
  /\ UNCHANGED <<st, trig, hs, stopRequested, cancelRequested, dev, preset, told, worker, loc>>

------------------------------------------------------------------------------
(* finishAcquisition, run by the worker and by the thread that joined it *)

(* wasAcquiring: only the finisher that clears the state reports the end. *)
Ends == st.acquiring

FinishState(t) ==
  /\ pc[t] = "finish_state"
  /\ loc' = [loc EXCEPT ![t].was = Ends]
  /\ st' = [st EXCEPT !.acquiring = FALSE, !.installing = FALSE, !.available = FALSE,
                      !.activeId = 0]
  /\ Goto(t, "finish_trigger")
  /\ UNCHANGED <<trig, hs, stopRequested, cancelRequested, lock, dev, preset, told, worker>>

FinishTrigger(t) ==
  /\ pc[t] = "finish_trigger"
  /\ trig' = [pending |-> 0, inFlight |-> FALSE]
  /\ Goto(t, "finish_tell")
  /\ UNCHANGED <<st, hs, stopRequested, cancelRequested, lock, dev, preset, told, worker, loc>>

(* Clears the stop flag and reports inactive if this thread ended the acquisition. *)
FinishTell(t) ==
  /\ pc[t] = "finish_tell"
  /\ stopRequested' = FALSE
  /\ loc' = [loc EXCEPT ![t].was = FALSE]
  /\ IF loc[t].was
       THEN /\ told' = [told EXCEPT !.acquisition = @ - 1]
            /\ Call(t, "callback", "finish_end")
       ELSE told' = told /\ Goto(t, "finish_end")
  /\ UNCHANGED <<st, trig, hs, cancelRequested, lock, dev, preset, worker>>

FinishEnd(t) ==
  /\ pc[t] = "finish_end"
  /\ st' = IF st.workerId = t THEN [st EXCEPT !.workerId = NoThread] ELSE st
  /\ Return(t)
  /\ UNCHANGED <<trig, hs, stopRequested, cancelRequested, lock, dev, preset, told, worker, loc>>

------------------------------------------------------------------------------
(* triggerSoftware *)

TriggerCheck(t) ==
  /\ pc[t] = "trigger_check"
  /\ IF st.device /\ ~st.closing /\ ~st.reconnect /\ st.acquiring /\ ~stopRequested
          /\ st.available
       THEN /\ loc' = [loc EXCEPT ![t].id = st.activeId]
            /\ Goto(t, "trigger_queue")
       ELSE loc' = loc /\ Return(t)
  /\ UNCHANGED <<st, trig, hs, stopRequested, cancelRequested, lock, dev, preset, told, worker>>

(* Mutant: a request that waits for its frame is not counted. *)
QueuedIfNonePending(t) == pc[t] = "trigger_queue" /\ ~stopRequested /\ trig.pending = 0

(* The request is counted only while none is queued or waiting for its frame. *)
TriggerQueued(t) ==
  pc[t] = "trigger_queue" /\ ~stopRequested /\ trig.pending = 0 /\ ~trig.inFlight

TriggerQueue(t) ==
  /\ pc[t] = "trigger_queue"
  /\ loc' = [loc EXCEPT ![t].id = 0]
  /\ IF TriggerQueued(t)
       THEN trig' = [trig EXCEPT !.pending = @ + 1] /\ NotifyAndReturn(t)
       ELSE trig' = trig /\ Return(t)
  /\ UNCHANGED <<st, hs, stopRequested, cancelRequested, lock, dev, preset, told, worker>>

------------------------------------------------------------------------------
(* readFeatures, writeFeature, executeCommand *)

(* Mutant: a feature call is admitted while an arm is being installed. *)
AdmittedWhileArming(t) ==
  /\ st.device /\ ~st.closing /\ ~st.reconnect
  /\ st.initializing \in {NoThread, t}
  /\ ~st.acquiring

FeatureAdmitted(t) ==
  /\ st.device /\ ~st.closing /\ ~st.reconnect
  /\ st.initializing \in {NoThread, t}
  /\ ~st.acquiring /\ ~st.installing

(* An admitted call, loading a user set included, may write AcquisitionMode and *)
(* TriggerSelector: what it leaves is the new preset.                           *)
Feature(t) ==
  /\ pc[t] = "feature"
  /\ lock.sdk = NoThread
  /\ IF FeatureAdmitted(t)
       THEN \E mode \in AcquisitionModes, selector \in Selectors :
              /\ dev' = [dev EXCEPT !.mode = mode, !.selector = selector]
              /\ preset' = [preset EXCEPT
                   !.mode = IF mode # dev.mode THEN mode ELSE @,
                   !.selector = IF selector # dev.selector THEN selector ELSE @]
       ELSE UNCHANGED <<dev, preset>>
  /\ Return(t)
  /\ UNCHANGED <<st, trig, hs, stopRequested, cancelRequested, lock, told, worker, loc>>

------------------------------------------------------------------------------
(* initializeMotion; configureH8SurfaceExample claims and ends the same way *)

Cancel(t) ==
  /\ pc[t] = "cancel"
  /\ cancelRequested' = TRUE
  /\ Return(t)
  /\ UNCHANGED <<st, trig, hs, stopRequested, lock, dev, preset, told, worker, loc>>

InitAdmitted ==
  /\ st.device /\ ~st.closing /\ ~st.reconnect
  /\ ~st.acquiring /\ ~st.installing /\ st.initializing = NoThread

(* Mutant: a rejected request clears the cancellation too. *)
ClearedByAnyRequest == FALSE

(* A rejected request does not clear the cancellation of the running operation. *)
CancellationAfterRequest == IF InitAdmitted THEN FALSE ELSE cancelRequested

InitAdmit(t) ==
  /\ pc[t] = "init_admit"
  /\ cancelRequested' = CancellationAfterRequest
  /\ IF InitAdmitted
       THEN /\ st' = [st EXCEPT !.initializing = t]
            /\ Goto(t, "init_command")
       ELSE st' = st /\ Return(t)
  /\ UNCHANGED <<trig, hs, stopRequested, lock, dev, preset, told, worker, loc>>

(* The stage moves from this step on, unless the command is not issued. *)
StageInit(t) ==
  pc[t] = "init_command" /\ lock.sdk = NoThread /\ st.device /\ ~cancelRequested

InitCommand(t) ==
  /\ pc[t] = "init_command"
  /\ lock.sdk = NoThread
  /\ Goto(t, IF StageInit(t) THEN "init_poll" ELSE "init_end")
  /\ UNCHANGED <<st, trig, hs, stopRequested, cancelRequested, lock, dev, preset, told, worker, loc>>

(* Completion, failure, cancellation or the deadline of thirty seconds. *)
InitPoll(t) ==
  /\ pc[t] = "init_poll"
  /\ cancelRequested \/ lock.sdk = NoThread
  /\ Goto(t, "init_end")
  /\ UNCHANGED <<st, trig, hs, stopRequested, cancelRequested, lock, dev, preset, told, worker, loc>>

(* Mutant: a cancelled operation does not give up its claim. *)
EndUnlessCancelled(t) ==
  /\ pc[t] = "init_end"
  /\ st' = IF cancelRequested THEN st ELSE [st EXCEPT !.initializing = NoThread]
  /\ cancelRequested' = FALSE
  /\ Return(t)
  /\ UNCHANGED <<trig, hs, stopRequested, lock, dev, preset, told, worker, loc>>

InitEnd(t) ==
  /\ pc[t] = "init_end"
  /\ st' = [st EXCEPT !.initializing = NoThread]
  /\ cancelRequested' = FALSE
  /\ Return(t)
  /\ UNCHANGED <<trig, hs, stopRequested, lock, dev, preset, told, worker, loc>>

------------------------------------------------------------------------------
(* close *)

LifecycleAcquired(t) ==
  /\ lock.lifecycle \in {NoThread, t}
  /\ lock' = [lock EXCEPT !.lifecycle = t, !.depth = @ + 1]

CloseLock(t) ==
  /\ pc[t] = "close_lock"
  /\ LifecycleAcquired(t)
  /\ Goto(t, "close_cancel")
  /\ UNCHANGED <<st, trig, hs, stopRequested, cancelRequested, dev, preset, told, worker, loc>>

CloseCancel(t) ==
  /\ pc[t] = "close_cancel"
  /\ cancelRequested' = TRUE
  /\ Goto(t, "close_claim")
  /\ UNCHANGED <<st, trig, hs, stopRequested, lock, dev, preset, told, worker, loc>>

(* Mutant: a close from a callback goes on. *)
DefersOwnInitialization(t) == st.initializing = t

(* A callback or initialization thread only requests a stop. *)
DefersClose(t) == IsCallbackThread(t) \/ st.initializing = t

CloseClaim(t) ==
  /\ pc[t] = "close_claim"
  /\ IF DefersClose(t)
       THEN st' = st /\ Call(t, "request_flag", "lifecycle_unlock")
       ELSE st' = [st EXCEPT !.closing = TRUE] /\ Goto(t, "close_wait")
  /\ UNCHANGED <<trig, hs, stopRequested, cancelRequested, lock, dev, preset, told, worker, loc>>

(* Mutant: close does not wait. *)
InitializationIgnored == TRUE

(* The predicate close waits for. *)
InitializationOver == st.initializing = NoThread

CloseWait(t) ==
  /\ pc[t] = "close_wait"
  /\ InitializationOver
  /\ Call(t, "stop_check", "close_take")
  /\ UNCHANGED <<st, trig, hs, stopRequested, cancelRequested, lock, dev, preset, told, worker, loc>>

(* Mutant: the handles are copied but not cleared. *)
CopyHandles(t) ==
  /\ pc[t] = "close_take"
  /\ lock.sdk = NoThread
  /\ loc' = [loc EXCEPT ![t].was = st.device, ![t].recover = st.reconnect]
  /\ st' = [st EXCEPT !.available = FALSE, !.reconnect = FALSE, !.activeId = 0]
  /\ Goto(t, "close_release")
  /\ UNCHANGED <<trig, hs, stopRequested, cancelRequested, lock, dev, preset, told, worker>>

CloseTake(t) ==
  /\ pc[t] = "close_take"
  /\ lock.sdk = NoThread
  /\ loc' = [loc EXCEPT ![t].was = st.device, ![t].recover = st.reconnect]
  /\ st' = [st EXCEPT !.device = FALSE, !.available = FALSE, !.reconnect = FALSE, !.activeId = 0]
  /\ Goto(t, "close_release")
  /\ UNCHANGED <<trig, hs, stopRequested, cancelRequested, lock, dev, preset, told, worker>>

(* A recovery stop after a failed one, the release of the handles, the status. *)
CloseRelease(t) ==
  /\ pc[t] = "close_release"
  /\ loc' = [loc EXCEPT ![t].was = FALSE, ![t].recover = FALSE]
  /\ IF loc[t].was
       THEN /\ dev' = [dev EXCEPT !.open = FALSE, !.streaming = FALSE]
            /\ told' = [told EXCEPT !.connection = @ - 1]
            /\ Call(t, "callback", "close_end")
       ELSE UNCHANGED <<dev, told>> /\ Goto(t, "close_end")
  /\ UNCHANGED <<st, trig, hs, stopRequested, cancelRequested, lock, preset, worker>>

CloseEnd(t) ==
  /\ pc[t] = "close_end"
  /\ st' = [st EXCEPT !.closing = FALSE]
  /\ Goto(t, "lifecycle_unlock")
  /\ UNCHANGED <<trig, hs, stopRequested, cancelRequested, lock, dev, preset, told, worker, loc>>

LifecycleUnlock(t) ==
  /\ pc[t] = "lifecycle_unlock"
  /\ lock' = [lock EXCEPT !.depth = @ - 1,
                          !.lifecycle = IF lock.depth = 1 THEN NoThread ELSE @]
  /\ Return(t)
  /\ UNCHANGED <<st, trig, hs, stopRequested, cancelRequested, dev, preset, told, worker, loc>>

------------------------------------------------------------------------------
(* open *)

OpenLock(t) ==
  /\ pc[t] = "open_lock"
  /\ LifecycleAcquired(t)
  /\ Call(t, "close_lock", "open_handles")
  /\ UNCHANGED <<st, trig, hs, stopRequested, cancelRequested, dev, preset, told, worker, loc>>

(* Fails while a deferred close still holds the old handle, or in the SDK. *)
OpenHandles(t) ==
  /\ pc[t] = "open_handles"
  /\ \/ /\ st.device \/ "open" \in Faults
        /\ dev' = dev /\ Goto(t, "lifecycle_unlock")
     \/ /\ ~st.device
        /\ dev' = [dev EXCEPT !.open = TRUE]
        /\ Goto(t, "open_publish")
  /\ UNCHANGED <<st, trig, hs, stopRequested, cancelRequested, lock, preset, told, worker, loc>>

OpenPublish(t) ==
  /\ pc[t] = "open_publish"
  /\ st' = [st EXCEPT !.device = TRUE, !.reconnect = FALSE]
  /\ Goto(t, "open_read")
  /\ UNCHANGED <<trig, hs, stopRequested, cancelRequested, lock, dev, preset, told, worker, loc>>

(* Reads identity and configuration through the handle, outside _sdkMutex. *)
OpenRead(t) ==
  /\ pc[t] = "open_read"
  /\ told' = [told EXCEPT !.connection = @ + 1]
  /\ Call(t, "callback", "open_check")
  /\ UNCHANGED <<st, trig, hs, stopRequested, cancelRequested, lock, dev, preset, worker, loc>>

(* isOpened, after the callbacks: only the result of open depends on it. *)
OpenCheck(t) ==
  /\ pc[t] = "open_check"
  /\ Goto(t, "lifecycle_unlock")
  /\ UNCHANGED <<st, trig, hs, stopRequested, cancelRequested, lock, dev, preset, told, worker, loc>>

------------------------------------------------------------------------------
(* startAcquisition *)

StartLock(t) ==
  /\ pc[t] = "start_lock"
  /\ IF lock.arm = NoThread
       THEN lock' = [lock EXCEPT !.arm = t] /\ Call(t, "stop_check", "start_check")
       ELSE lock' = lock /\ Return(t)
  /\ UNCHANGED <<st, trig, hs, stopRequested, cancelRequested, dev, preset, told, worker, loc>>

StartCheck(t) ==
  /\ pc[t] = "start_check"
  /\ Goto(t, IF st.acquiring \/ st.installing \/ st.thread # NoThread
               THEN "start_unlock" ELSE "start_prearm")
  /\ UNCHANGED <<st, trig, hs, stopRequested, cancelRequested, lock, dev, preset, told, worker, loc>>

(* Mutant: an arm does not look for a running initialization. *)
AdmittedWhileInitializing == st.device /\ ~st.closing /\ ~st.reconnect /\ st.nextId <= MaxArms

(* The bound on arms is the last conjunct. *)
StartAdmitted ==
  /\ st.device /\ ~st.closing /\ st.initializing = NoThread /\ ~st.reconnect
  /\ st.nextId <= MaxArms

StartRejected(t) ==
  /\ pc[t] = "start_prearm"
  /\ lock.sdk = NoThread
  /\ ~StartAdmitted
  /\ Goto(t, "start_unlock")
  /\ UNCHANGED <<st, trig, hs, stopRequested, cancelRequested, lock, dev, preset, told, worker, loc>>

(* A snapshot of the trigger selectors moves the cursor and restores it. *)
SelectorsAfterSnapshot == {dev.selector} \cup (IF "restore" \in Faults THEN {"Other"} ELSE {})

(* The trigger configuration cannot be read, restored or accepted. *)
StartInvalid(t) ==
  /\ pc[t] = "start_prearm"
  /\ lock.sdk = NoThread
  /\ StartAdmitted
  /\ "validate" \in Faults
  /\ st' = [st EXCEPT !.nextId = @ + 1]
  /\ \E selector \in SelectorsAfterSnapshot :
       /\ dev' = [dev EXCEPT !.selector = selector]
       /\ preset' = [preset EXCEPT !.selector = IF selector # dev.selector THEN selector ELSE @]
  /\ Goto(t, "start_unlock")
  /\ UNCHANGED <<trig, hs, stopRequested, cancelRequested, lock, told, worker, loc>>

(* One section claims the arm: from here to its end no other operation is admitted. *)
StartPrearm(t) ==
  /\ pc[t] = "start_prearm"
  /\ lock.sdk = NoThread
  /\ StartAdmitted
  /\ st' = [st EXCEPT !.nextId = @ + 1, !.available = FALSE, !.acquiring = FALSE,
                      !.installing = TRUE, !.activeId = 0]
  /\ stopRequested' = FALSE
  /\ trig' = [pending |-> 0, inFlight |-> FALSE]
  /\ \E software \in Software, single \in BOOLEAN :
       worker' = [worker EXCEPT ![st.nextId] =
                    [software |-> software, single |-> single, mode |-> dev.mode,
                     selector |-> dev.selector, issued |-> FALSE, received |-> FALSE]]
  /\ loc' = [loc EXCEPT ![t].id = st.nextId]
  /\ Goto(t, "start_reset")
  /\ UNCHANGED <<hs, cancelRequested, lock, dev, preset, told>>

StartReset(t) ==
  /\ pc[t] = "start_reset"
  /\ hs' = [completed |-> FALSE, succeeded |-> FALSE, released |-> FALSE]
  /\ Goto(t, "start_spawn")
  /\ UNCHANGED <<st, trig, stopRequested, cancelRequested, lock, dev, preset, told, worker, loc>>

(* The worker runs before its std::thread is published. *)
StartSpawn(t) ==
  /\ pc[t] = "start_spawn"
  /\ pc' = [pc EXCEPT ![t] = "start_publish", ![loc[t].id] = "enter"]
  /\ UNCHANGED <<st, trig, hs, stopRequested, cancelRequested, lock, dev, preset, told, worker,
                 loc, stack>>

StartSpawnFailed(t) ==
  /\ pc[t] = "start_spawn"
  /\ "spawn" \in Faults
  /\ st' = [st EXCEPT !.acquiring = FALSE, !.installing = FALSE, !.available = FALSE,
                      !.activeId = 0]
  /\ loc' = [loc EXCEPT ![t].id = 0]
  /\ Goto(t, "start_unlock")
  /\ UNCHANGED <<trig, hs, stopRequested, cancelRequested, lock, dev, preset, told, worker>>

StartPublish(t) ==
  /\ pc[t] = "start_publish"
  /\ st' = [st EXCEPT !.thread = loc[t].id]
  /\ Goto(t, "start_await")
  /\ UNCHANGED <<trig, hs, stopRequested, cancelRequested, lock, dev, preset, told, worker, loc>>

StartAwait(t) ==
  /\ pc[t] = "start_await"
  /\ hs.completed
  /\ Goto(t, IF hs.succeeded THEN "start_commit" ELSE "start_fail")
  /\ UNCHANGED <<st, trig, hs, stopRequested, cancelRequested, lock, dev, preset, told, worker, loc>>

StartFail(t) ==
  /\ pc[t] = "start_fail"
  /\ st' = [st EXCEPT !.acquiring = FALSE, !.installing = FALSE, !.available = FALSE,
                      !.activeId = 0, !.thread = NoThread]
  /\ loc' = [loc EXCEPT ![t].joinee = st.thread, ![t].id = 0]
  /\ Goto(t, "start_join")
  /\ UNCHANGED <<trig, hs, stopRequested, cancelRequested, lock, dev, preset, told, worker>>

StartJoin(t) ==
  /\ pc[t] = "start_join"
  /\ Joinable(t)
  /\ loc' = [loc EXCEPT ![t].joinee = NoThread]
  /\ Goto(t, "start_unlock")
  /\ UNCHANGED <<st, trig, hs, stopRequested, cancelRequested, lock, dev, preset, told, worker>>

StartCommit(t) ==
  /\ pc[t] = "start_commit"
  /\ st' = [st EXCEPT !.acquiring = TRUE, !.installing = FALSE, !.activeId = loc[t].id,
                      !.available = worker[loc[t].id].software]
  /\ loc' = [loc EXCEPT ![t].id = 0]
  /\ Goto(t, "start_tell")
  /\ UNCHANGED <<trig, hs, stopRequested, cancelRequested, lock, dev, preset, told, worker>>

StartTell(t) ==
  /\ pc[t] = "start_tell"
  /\ st' = [st EXCEPT !.dispatching = t]
  /\ told' = [told EXCEPT !.acquisition = @ + 1]
  /\ Call(t, "callback", "start_told")
  /\ UNCHANGED <<trig, hs, stopRequested, cancelRequested, lock, dev, preset, worker, loc>>

StartTold(t) ==
  /\ pc[t] = "start_told"
  /\ st' = [st EXCEPT !.dispatching = NoThread]
  /\ Goto(t, "start_release")
  /\ UNCHANGED <<trig, hs, stopRequested, cancelRequested, lock, dev, preset, told, worker, loc>>

StartRelease(t) ==
  /\ pc[t] = "start_release"
  /\ hs' = [hs EXCEPT !.released = TRUE]
  /\ Goto(t, "start_unlock")
  /\ UNCHANGED <<st, trig, stopRequested, cancelRequested, lock, dev, preset, told, worker, loc>>

StartUnlock(t) ==
  /\ pc[t] = "start_unlock"
  /\ lock' = [lock EXCEPT !.arm = NoThread]
  /\ Return(t)
  /\ UNCHANGED <<st, trig, hs, stopRequested, cancelRequested, dev, preset, told, worker, loc>>

------------------------------------------------------------------------------
(* acquisitionLoop *)

RestoreMode(w) == worker[w].mode # "Continuous"

(* Mutant: the selector is never restored. *)
SelectorLeft(w) == FALSE

RestoreSelector(w) == worker[w].software /\ worker[w].selector # "FrameStart"

(* A failed restoration of a feature leaves it as it is or as it was applied. *)
LeftMode(w) == IF RestoreMode(w) /\ "restore" \in Faults THEN {dev.mode, "Continuous"} ELSE {}
LeftSelector(w) ==
  IF RestoreSelector(w) /\ "restore" \in Faults THEN {dev.selector, "FrameStart"} ELSE {}

(* Roll-back or restoration of what the arm changed, in a device that is not streaming. *)
Restore(w) ==
  \E mode \in {IF RestoreMode(w) THEN worker[w].mode ELSE dev.mode} \cup LeftMode(w),
     selector \in {IF RestoreSelector(w) THEN worker[w].selector ELSE dev.selector}
                    \cup LeftSelector(w) :
    /\ dev' = [dev EXCEPT !.streaming = FALSE, !.mode = mode, !.selector = selector]
    /\ preset' = [mode |-> IF RestoreMode(w) /\ mode # worker[w].mode THEN mode ELSE preset.mode,
                  selector |-> IF RestoreSelector(w) /\ selector # worker[w].selector
                                 THEN selector ELSE preset.selector]

WorkerEnter(w) ==
  /\ pc[w] = "enter"
  /\ st' = [st EXCEPT !.workerId = w]
  /\ Goto(w, "setup")
  /\ UNCHANGED <<trig, hs, stopRequested, cancelRequested, lock, dev, preset, told, worker, loc>>

WorkerSetup(w) ==
  /\ pc[w] = "setup"
  /\ lock.sdk = NoThread
  /\ lock' = [lock EXCEPT !.sdk = w]
  /\ Goto(w, "configure")
  /\ UNCHANGED <<st, trig, hs, stopRequested, cancelRequested, dev, preset, told, worker, loc>>

(* Applies AcquisitionMode and TriggerSelector, then C4Dev_startAcquisition. *)
WorkerConfigured(w) ==
  /\ pc[w] = "configure"
  /\ lock' = [lock EXCEPT !.sdk = NoThread]
  /\ dev' = [dev EXCEPT !.streaming = TRUE,
                        !.mode = IF RestoreMode(w) THEN "Continuous" ELSE @,
                        !.selector = IF worker[w].software THEN "FrameStart" ELSE @]
  /\ worker' = [worker EXCEPT ![w].received = TRUE]
  /\ Goto(w, "report")
  /\ UNCHANGED <<st, trig, hs, stopRequested, cancelRequested, preset, told, loc>>

(* One of the three fails, and what was applied is rolled back. *)
WorkerConfigureFailed(w) ==
  /\ pc[w] = "configure"
  /\ "setup" \in Faults
  /\ lock' = [lock EXCEPT !.sdk = NoThread]
  /\ Restore(w)
  /\ worker' = [worker EXCEPT ![w].received = FALSE]
  /\ Goto(w, "report")
  /\ UNCHANGED <<st, trig, hs, stopRequested, cancelRequested, told, loc>>

(* received holds the result of the SDK start until it is reported. *)
CompletedStart(w) == [hs EXCEPT !.completed = TRUE, !.succeeded = worker[w].received]

WorkerReport(w) ==
  /\ pc[w] = "report"
  /\ hs' = CompletedStart(w)
  /\ worker' = [worker EXCEPT ![w].received = FALSE]
  /\ Goto(w, IF worker[w].received THEN "hold" ELSE "quit")
  /\ UNCHANGED <<st, trig, stopRequested, cancelRequested, lock, dev, preset, told, loc>>

WorkerQuit(w) ==
  /\ pc[w] = "quit"
  /\ st' = [st EXCEPT !.workerId = NoThread]
  /\ Goto(w, "exited")
  /\ UNCHANGED <<trig, hs, stopRequested, cancelRequested, lock, dev, preset, told, worker, loc>>

(* Mutant: the worker goes on at once. *)
NotHeld == TRUE

(* Held until the active status callbacks have returned. *)
Released == hs.released

WorkerHold(w) ==
  /\ pc[w] = "hold"
  /\ Released
  /\ Goto(w, "loop")
  /\ UNCHANGED <<st, trig, hs, stopRequested, cancelRequested, lock, dev, preset, told, worker, loc>>

WorkerLoop(w) ==
  /\ pc[w] = "loop"
  /\ worker' = [worker EXCEPT ![w].issued = FALSE, ![w].received = FALSE]
  /\ Goto(w, IF stopRequested THEN "sdk_stop"
             ELSE IF worker[w].software THEN "take" ELSE "receive")
  /\ UNCHANGED <<st, trig, hs, stopRequested, cancelRequested, lock, dev, preset, told, loc>>

(* Mutant: the request is taken off the queue before the stop flag is read. *)
DecrementedOnStop == [trig EXCEPT !.pending = @ - 1]

(* The worker leaves the queue alone when it is woken to stop. *)
QueueOnStop == trig

(* The predicate of the wait on _triggerCondition, and what follows it. *)
WorkerTake(w) ==
  /\ pc[w] = "take"
  /\ \/ /\ stopRequested
        /\ trig' = QueueOnStop /\ Goto(w, "sdk_stop")
     \/ /\ ~stopRequested /\ trig.pending # 0
        /\ trig' = [pending |-> trig.pending - 1, inFlight |-> TRUE]
        /\ Goto(w, "receive")
     \/ /\ ~stopRequested /\ trig.pending = 0
        /\ trig' = trig /\ Goto(w, "blocked")
  /\ UNCHANGED <<st, hs, stopRequested, cancelRequested, lock, dev, preset, told, worker, loc>>

WorkerReceive(w) ==
  /\ pc[w] = "receive"
  /\ Goto(w, IF stopRequested THEN "after" ELSE "sdk")
  /\ UNCHANGED <<st, trig, hs, stopRequested, cancelRequested, lock, dev, preset, told, worker, loc>>

(* Takes _sdkMutex, reads the stop flag again and issues TriggerSoftware. *)
WorkerSdk(w) ==
  /\ pc[w] = "sdk"
  /\ lock.sdk = NoThread
  /\ IF stopRequested
       THEN UNCHANGED <<lock, worker>> /\ Goto(w, "after")
       ELSE /\ lock' = [lock EXCEPT !.sdk = w]
            /\ worker' = [worker EXCEPT ![w].issued = worker[w].software]
            /\ Goto(w, "buffer")
  /\ UNCHANGED <<st, trig, hs, stopRequested, cancelRequested, dev, preset, told, loc>>

(* C4Dev_getBuffer ends with a frame that is copied and released. *)
WorkerFrame(w) ==
  /\ pc[w] = "buffer"
  /\ lock' = [lock EXCEPT !.sdk = NoThread]
  /\ worker' = [worker EXCEPT ![w].received = TRUE]
  /\ Goto(w, "after")
  /\ UNCHANGED <<st, trig, hs, stopRequested, cancelRequested, dev, preset, told, loc>>

(* The trigger command, the wait, the copy or the release fails. *)
WorkerBufferError(w) ==
  /\ pc[w] = "buffer"
  /\ "buffer" \in Faults
  /\ lock' = [lock EXCEPT !.sdk = NoThread]
  /\ Goto(w, "after")
  /\ UNCHANGED <<st, trig, hs, stopRequested, cancelRequested, dev, preset, told, worker, loc>>

(* Mutant: a software request is polled again like any other wait. *)
PolledAgain(w) == "receive"

(* The wait times out: terminal for a software request, otherwise polled again. *)
AfterTimeout(w) == IF worker[w].software THEN "diagnose" ELSE "receive"

WorkerTimeout(w) ==
  /\ pc[w] = "buffer"
  /\ lock' = [lock EXCEPT !.sdk = NoThread]
  /\ Goto(w, IF stopRequested THEN "after" ELSE AfterTimeout(w))
  /\ UNCHANGED <<st, trig, hs, stopRequested, cancelRequested, dev, preset, told, worker, loc>>

(* The state of a timed-out request is logged: a new snapshot. *)
WorkerDiagnose(w) ==
  /\ pc[w] = "diagnose"
  /\ lock.sdk = NoThread
  /\ \E selector \in SelectorsAfterSnapshot :
       /\ dev' = [dev EXCEPT !.selector = selector]
       /\ preset' = [preset EXCEPT !.selector =
                       IF selector # dev.selector /\ ~RestoreSelector(w) THEN selector ELSE @]
  /\ Goto(w, "after")
  /\ UNCHANGED <<st, trig, hs, stopRequested, cancelRequested, lock, told, worker, loc>>

(* A Live request is over; a Single one stays in flight until the disarm. *)
WorkerAfter(w) ==
  /\ pc[w] = "after"
  /\ trig' = IF worker[w].software /\ ~worker[w].single
               THEN [trig EXCEPT !.inFlight = FALSE] ELSE trig
  /\ Goto(w, IF worker[w].received THEN "deliver" ELSE "sdk_stop")
  /\ UNCHANGED <<st, hs, stopRequested, cancelRequested, lock, dev, preset, told, worker, loc>>

WorkerDeliver(w) ==
  /\ pc[w] = "deliver"
  /\ Call(w, "callback", "delivered")
  /\ UNCHANGED <<st, trig, hs, stopRequested, cancelRequested, lock, dev, preset, told, worker, loc>>

WorkerDelivered(w) ==
  /\ pc[w] = "delivered"
  /\ \/ (worker[w].single \/ "throw" \in Faults) /\ Goto(w, "sdk_stop")
     \/ ~worker[w].single /\ Goto(w, "loop")
  /\ UNCHANGED <<st, trig, hs, stopRequested, cancelRequested, lock, dev, preset, told, worker, loc>>

WorkerStop(w) ==
  /\ pc[w] = "sdk_stop"
  /\ lock.sdk = NoThread
  /\ lock' = [lock EXCEPT !.sdk = w]
  /\ Goto(w, "stopping")
  /\ UNCHANGED <<st, trig, hs, stopRequested, cancelRequested, dev, preset, told, worker, loc>>

(* C4Dev_stopAcquisition, then the prior selector and mode. *)
WorkerStopped(w) ==
  /\ pc[w] = "stopping"
  /\ lock' = [lock EXCEPT !.sdk = NoThread]
  /\ Restore(w)
  /\ Goto(w, "finish_state")
  /\ UNCHANGED <<st, trig, hs, stopRequested, cancelRequested, told, worker, loc>>

WorkerStopFailed(w) ==
  /\ pc[w] = "stopping"
  /\ "stop" \in Faults
  /\ lock' = [lock EXCEPT !.sdk = NoThread]
  /\ preset' = [mode |-> dev.mode, selector |-> dev.selector]
  /\ Goto(w, "failed")
  /\ UNCHANGED <<st, trig, hs, stopRequested, cancelRequested, dev, told, worker, loc>>

(* Mutant: a failed stop is not recorded. *)
FailureForgotten(w) ==
  /\ pc[w] = "failed"
  /\ Goto(w, "finish_state")
  /\ UNCHANGED <<st, trig, hs, stopRequested, cancelRequested, lock, dev, preset, told, worker, loc>>

WorkerReconnect(w) ==
  /\ pc[w] = "failed"
  /\ st' = [st EXCEPT !.reconnect = TRUE]
  /\ Goto(w, "finish_state")
  /\ UNCHANGED <<trig, hs, stopRequested, cancelRequested, lock, dev, preset, told, worker, loc>>

------------------------------------------------------------------------------

Operation(t) ==
  \/ CallbackCall(t) \/ CallbackReturn(t)
  \/ RequestFlag(t) \/ RequestNotify(t)
  \/ StopCheck(t) \/ StopLock(t) \/ StopWait(t) \/ StopSignal(t) \/ StopJoin(t) \/ StopUnlock(t)
  \/ FinishState(t) \/ FinishTrigger(t) \/ FinishTell(t) \/ FinishEnd(t)
  \/ TriggerCheck(t) \/ TriggerQueue(t)
  \/ Feature(t)
  \/ Cancel(t) \/ InitAdmit(t) \/ InitCommand(t) \/ InitPoll(t) \/ InitEnd(t)
  \/ CloseLock(t) \/ CloseCancel(t) \/ CloseClaim(t) \/ CloseWait(t) \/ CloseTake(t)
  \/ CloseRelease(t) \/ CloseEnd(t) \/ LifecycleUnlock(t)
  \/ OpenLock(t) \/ OpenHandles(t) \/ OpenPublish(t) \/ OpenRead(t) \/ OpenCheck(t)
  \/ StartLock(t) \/ StartCheck(t) \/ StartRejected(t) \/ StartInvalid(t) \/ StartPrearm(t)
  \/ StartReset(t) \/ StartSpawn(t) \/ StartSpawnFailed(t) \/ StartPublish(t) \/ StartAwait(t)
  \/ StartFail(t) \/ StartJoin(t) \/ StartCommit(t) \/ StartTell(t) \/ StartTold(t)
  \/ StartRelease(t) \/ StartUnlock(t)

WorkerStep(w) ==
  \/ WorkerEnter(w) \/ WorkerSetup(w) \/ WorkerConfigured(w) \/ WorkerConfigureFailed(w)
  \/ WorkerReport(w) \/ WorkerQuit(w) \/ WorkerHold(w) \/ WorkerLoop(w) \/ WorkerTake(w)
  \/ WorkerReceive(w) \/ WorkerSdk(w) \/ WorkerFrame(w) \/ WorkerBufferError(w)
  \/ WorkerTimeout(w) \/ WorkerDiagnose(w) \/ WorkerAfter(w) \/ WorkerDeliver(w)
  \/ WorkerDelivered(w) \/ WorkerStop(w) \/ WorkerStopped(w) \/ WorkerStopFailed(w)
  \/ WorkerReconnect(w)

Next ==
  \/ \E t \in Threads : ClientCall(t) \/ Operation(t)
  \/ \E w \in Workers : WorkerStep(w)

Spec == Init /\ [][Next]_vars

(***************************************************************************)
(* Every thread that can take its next step eventually does.  This covers  *)
(* SDK calls, which are bounded waits, the deadline of StageInit and the   *)
(* callbacks, which consumers must keep bounded.  Clients need not call    *)
(* anything, and nothing is assumed about who gets a contended mutex.      *)
(***************************************************************************)
Fairness ==
  /\ \A t \in Threads : WF_vars(Operation(t))
  /\ \A w \in Workers : WF_vars(WorkerStep(w))

FairSpec == Spec /\ Fairness

------------------------------------------------------------------------------
(* Properties *)

(* The thread is at one of the steps, or in a callback or call made from it. *)
Within(t, steps) ==
  pc[t] \in steps \/ \E i \in DOMAIN stack[t] : stack[t][i] \in steps

(* The worker calls the SDK with its copy of the device handle in these steps. *)
UsesHandle(w) ==
  Within(w, {"enter", "setup", "configure", "report", "hold", "loop", "take", "blocked",
             "receive", "sdk", "buffer", "diagnose", "after", "deliver", "delivered",
             "sdk_stop", "stopping"})

NoWorkerRuns == \A w \in Workers : ~UsesHandle(w)

(***************************************************************************)
(* The handle a worker copied when it was armed, the one open reads the    *)
(* identity through, and the one a motion initialization polls stay valid  *)
(* until that thread is done with them: close releases nothing before it   *)
(* has joined the worker and waited for the initialization.                *)
(***************************************************************************)
HandleOutlivesUse ==
  \A t \in Threads :
    pc[t] \in {"open_read", "init_poll"} \/ (t \in Workers /\ UsesHandle(t))
      => st.device /\ dev.open

(***************************************************************************)
(* One worker at a time owns the SDK acquisition, and the facade reports   *)
(* it as arming or acquiring for as long as it runs.                       *)
(***************************************************************************)
OneReportedWorker ==
  \A w \in Workers : UsesHandle(w) =>
    /\ st.acquiring \/ st.installing \/ pc[w] = "report"
    /\ \A v \in Workers : UsesHandle(v) => v = w

(***************************************************************************)
(* Initialization and acquisition exclude each other from admission to     *)
(* completion, whatever threads ask for them.                              *)
(***************************************************************************)
InitExcludesAcquisition ==
  st.initializing # NoThread => ~st.acquiring /\ ~st.installing /\ NoWorkerRuns

(***************************************************************************)
(* A cancellation stays requested until the initialization it was meant    *)
(* for ends: a rejected concurrent request does not clear it.              *)
(***************************************************************************)
CancellationKept ==
  [][cancelRequested /\ st.initializing # NoThread /\ st'.initializing = st.initializing
       => cancelRequested']_vars

(***************************************************************************)
(* Ordinary feature reads, writes and commands reach the device only while *)
(* it does not stream and no worker owns the SDK.                          *)
(***************************************************************************)
FeatureNeedsIdleDevice ==
  \A t \in Threads :
    pc[t] = "feature" /\ FeatureAdmitted(t) => ~dev.streaming /\ NoWorkerRuns

(***************************************************************************)
(* The device streams only under a worker, or after a failed stop that     *)
(* either is reported as requiring a reconnect or is being reported.       *)
(***************************************************************************)
StreamingIsOwned ==
  dev.streaming =>
    \/ \E w \in Workers : UsesHandle(w) \/ pc[w] = "failed"
    \/ st.reconnect
    \/ \E t \in Threads : pc[t] = "close_release"

(***************************************************************************)
(* After a failed SDK stop nothing touches the SDK acquisition again until *)
(* the handle was released and a new one opened.                           *)
(***************************************************************************)
ReconnectBlocksArming == st.reconnect => ~st.installing /\ NoWorkerRuns

(***************************************************************************)
(* From SDK start through the last buffer wait AcquisitionMode stays       *)
(* Continuous and, on a software route, TriggerSelector stays pinned to    *)
(* FrameStart: no other thread moves them.                                 *)
(***************************************************************************)
PinnedWhileReceiving ==
  \A w \in Workers :
    Within(w, {"hold", "loop", "take", "blocked", "receive", "sdk", "buffer", "delivered"}) =>
      /\ dev.streaming
      /\ dev.mode = "Continuous"
      /\ worker[w].software => dev.selector = "FrameStart"

(***************************************************************************)
(* What a failed SDK stop leaves running stays known to be running, and    *)
(* nothing arms the device before it is opened again.                      *)
(***************************************************************************)
FailedStopIsFinal == StreamingIsOwned /\ ReconnectBlocksArming

(***************************************************************************)
(* Feature access and acquisition keep out of each other's way: neither    *)
(* finds what it relies on moved by the other.                             *)
(***************************************************************************)
FeaturesAndAcquisitionExclude == FeatureNeedsIdleDevice /\ PinnedWhileReceiving

(***************************************************************************)
(* Whenever no worker owns the device, its mode and trigger selector are   *)
(* those the user last wrote, or those a reported failure left behind.     *)
(***************************************************************************)
PresetRestored ==
  NoWorkerRuns => dev.mode = preset.mode /\ dev.selector = preset.selector

(***************************************************************************)
(* Listeners hear active and inactive, and connected and disconnected,     *)
(* strictly in turn.                                                       *)
(***************************************************************************)
StatusAlternates == told.connection \in 0..1 /\ told.acquisition \in 0..1

(***************************************************************************)
(* Inactive is reported only after every active callback has returned, so  *)
(* that a fast Single frame cannot report inactive before active.          *)
(***************************************************************************)
InactiveAfterActive ==
  [][told'.acquisition < told.acquisition => st.dispatching = NoThread]_vars

(***************************************************************************)
(* Software requests are serialized: one is queued or in flight, never two.*)
(***************************************************************************)
OneRequestInFlight == trig.pending + (IF trig.inFlight THEN 1 ELSE 0) <= 1

(***************************************************************************)
(* A TriggerSoftware command answers a request, and a request is answered  *)
(* by one command at most: while the worker is at the command and its wait *)
(* a request it took is in flight, and having issued the command it is     *)
(* never back before it.  This does not say that every accepted request    *)
(* gets its command, see AcceptedRequestIsCommanded.                       *)
(***************************************************************************)
CommandAnswersRequest ==
  \A w \in Workers :
    worker[w].software /\ pc[w] \in {"receive", "sdk", "buffer", "diagnose"} =>
      /\ trig.inFlight
      /\ worker[w].issued => pc[w] \in {"buffer", "diagnose"}

(***************************************************************************)
(* The thread that joined a worker publishes the end of that acquisition   *)
(* before any other arm begins: its finishAcquisition clears no flag of    *)
(* another worker.                                                         *)
(***************************************************************************)
TeardownTouchesNoOtherArm ==
  \A t \in Threads :
    (\E i \in DOMAIN stack[t] : stack[t][i] = "stop_unlock")
      /\ pc[t] \in {"finish_state", "finish_trigger", "finish_tell"}
      => ~st.acquiring /\ ~st.installing /\ NoWorkerRuns

(***************************************************************************)
(* Two arms never overlap: one worker is between its reports at a time,    *)
(* and the teardown of one is over before the next begins.                 *)
(***************************************************************************)
ArmsDoNotOverlap == OneReportedWorker /\ TeardownTouchesNoOtherArm

(***************************************************************************)
(* A thread never joins itself: the branch of stopAcquisition that gives   *)
(* its own std::thread back is never needed.                               *)
(***************************************************************************)
NoSelfJoin ==
  \A t \in Threads : pc[t] \in {"stop_join", "start_join"} => loc[t].joinee # t

(***************************************************************************)
(* A stop requested of a running acquisition ends it, and inactive is      *)
(* reported, whatever the worker waits for.                                *)
(***************************************************************************)
RequestedStopIsReported ==
  (st.acquiring /\ stopRequested) ~> (told.acquisition = 0)

(***************************************************************************)
(* A client that owns the teardown joins the worker and gets out of        *)
(* stopAcquisition.                                                        *)
(***************************************************************************)
StopReturns == \A t \in Clients : (pc[t] = "stop_wait") ~> (pc[t] = "stop_unlock")

(***************************************************************************)
(* An arm that a client claimed is committed, or rolled back and reported. *)
(***************************************************************************)
StartReturns == \A t \in Clients : (pc[t] = "start_reset") ~> (pc[t] = "start_unlock")

(***************************************************************************)
(* A client whose close waits for an initialization sees it end.           *)
(***************************************************************************)
CloseSeesInitializationEnd ==
  \A t \in Clients : (pc[t] = "close_wait") ~> (pc[t] # "close_wait")

(***************************************************************************)
(* Every wait of a lifecycle call ends: a stop joins its worker, an arm is *)
(* committed or rolled back, a close sees the initialization it cancelled  *)
(* come to its end.                                                        *)
(***************************************************************************)
LifecycleCallsReturn == StopReturns /\ StartReturns /\ CloseSeesInitializationEnd

------------------------------------------------------------------------------
(* Refinement *)

(* The mode a caller of the facade can observe. *)
DeviceModeOf ==
  IF ~st.device THEN "closed"
  ELSE IF st.initializing # NoThread THEN "initializing"
  ELSE IF st.installing THEN "arming"
  ELSE IF st.acquiring THEN "armed"
  ELSE IF st.reconnect THEN "fault" ELSE "ready"

Abstract == INSTANCE DeviceMode WITH mode <- DeviceModeOf, streaming <- dev.streaming

(***************************************************************************)
(* Every step of every thread is a step of the abstract device or leaves   *)
(* its mode and streaming unchanged.                                       *)
(***************************************************************************)
ImplementsDeviceMode == Abstract!Spec

------------------------------------------------------------------------------
(* Violated: what the documentation states and the code does not keep *)

(***************************************************************************)
(* close called from a callback is deferred: it never waits for the        *)
(* lifecycle lock of a thread that in turn waits for the running worker.   *)
(***************************************************************************)
CallbackCloseIsDeferred ==
  \A u, t \in Threads :
    ~ (/\ pc[u] = "close_lock" /\ IsCallbackThread(u)
       /\ lock.lifecycle = t /\ t # u
       /\ pc[t] = "stop_join" /\ ~Joinable(t))

(***************************************************************************)
(* close cancels initialization and waits for the operation to end         *)
(* (docs/ARCHITECTURE.md:34): no StageInit is issued while it waits.  An   *)
(* initialization admitted between the cancellation of close and its claim *)
(* clears the cancellation.                                                *)
(***************************************************************************)
NoStageInitWhileClosing == \A t \in Threads : StageInit(t) => ~st.closing

(***************************************************************************)
(* An accepted software request issues its command (HeliotisC4System.h:121)*)
(* in the acquisition it was made for: it is queued while that one is      *)
(* armed (HeliotisC4System.h:117), and leaves the queue for the worker, or *)
(* with an acquisition that is asked to stop or has ended.                 *)
(* triggerSoftware finds the acquisition armed under one mutex and counts  *)
(* the request under another, when it may have ended.                      *)
(* requestStopAcquisition clears the queue after it gave the stop flag to  *)
(* an acquisition that may have ended since, and so erases a request that  *)
(* the next one accepted.                                                  *)
(***************************************************************************)
AcceptedRequestIsCommanded ==
  [][/\ \A t \in Threads :
          TriggerQueued(t) /\ trig'.pending > trig.pending /\ pc'[t] # pc[t] =>
            st.acquiring /\ st.activeId = loc[t].id
     /\ trig'.pending < trig.pending =>
          trig'.inFlight \/ stopRequested \/ ~st.acquiring]_vars
=============================================================================
