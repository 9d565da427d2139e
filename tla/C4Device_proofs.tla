--------------------------- MODULE C4Device_proofs ---------------------------
(***************************************************************************)
(* Theorems about HeliotisC4Device for every set of clients, operations,   *)
(* callbacks, faults and trigger routes, and every number of arms.         *)
(*                                                                         *)
(* Typing is not inductive by itself: the identifier an arm was given must *)
(* be known to name a worker until the arm is committed, and a thread only *)
(* returns to steps that follow a call.  TypeOK says the second,           *)
(* ArmIdentified the first.  One lemma per form of control transfer        *)
(* reduces every action to what it does to the data.                       *)
(***************************************************************************)
EXTENDS C4Device, FiniteSetTheorems, TLAPS

(* The steps of startAcquisition that use the identifier of the arm. *)
Arming == {"start_reset", "start_spawn", "start_publish", "start_await", "start_commit"}

ArmIdentified == \A t \in Threads : pc[t] \in Arming => loc[t].id \in Workers

DataOK ==
  /\ st \in StateFields
  /\ trig \in TriggerFields
  /\ hs \in HandshakeFields
  /\ stopRequested \in BOOLEAN
  /\ cancelRequested \in BOOLEAN
  /\ lock \in LockFields
  /\ dev \in DeviceFields
  /\ preset \in PresetFields
  /\ told \in [connection : Int, acquisition : Int]
  /\ worker \in [Workers -> WorkerFields]
  /\ loc \in [Threads -> LocalFields]

ControlOK == pc \in [Threads -> Steps] /\ stack \in [Threads -> Seq(Returns)]

TypeInv == DataOK /\ ControlOK /\ ArmIdentified

(* No identifier of another thread changes. *)
OwnIds(t) == \A u \in Threads : u # t => loc'[u].id = loc[u].id

------------------------------------------------------------------------------
(* Control transfers *)

LEMMA IdZero == 0 \in 0..MaxArms
BY MaxArmsAssumption

LEMMA WorkerIds == Workers \subseteq 0..MaxArms /\ Workers \subseteq Threads
BY MaxArmsAssumption DEF Workers, Threads

(* A thread moves to a step outside Arming, or keeps an identified arm. *)
LEMMA MoveKeeps ==
  ASSUME TypeInv, NEW t \in Threads, NEW step \in Steps, DataOK', ControlOK', OwnIds(t),
         pc' = [pc EXCEPT ![t] = step], step \in Arming => loc'[t].id \in Workers
  PROVE  TypeInv'
<1>1. ArmIdentified'
  BY DEF TypeInv, ControlOK, ArmIdentified, OwnIds
<1>2. QED
  BY <1>1 DEF TypeInv

LEMMA GotoTyped ==
  ASSUME ControlOK, NEW t \in Threads, NEW step \in Steps, Goto(t, step)
  PROVE  ControlOK' /\ pc' = [pc EXCEPT ![t] = step]
BY DEF ControlOK, Goto

(* Goto to a step outside Arming. *)
LEMMA GotoKeeps ==
  ASSUME TypeInv, NEW t \in Threads, NEW step \in Steps, step \notin Arming, Goto(t, step),
         DataOK', OwnIds(t)
  PROVE  TypeInv'
<1>1. ControlOK' /\ pc' = [pc EXCEPT ![t] = step]
  BY GotoTyped DEF TypeInv
<1>2. QED
  BY <1>1, MoveKeeps

(* Goto from one step of an identified arm to another. *)
LEMMA ArmingKeeps ==
  ASSUME TypeInv, NEW t \in Threads, NEW step \in Steps, pc[t] \in Arming, Goto(t, step),
         DataOK', loc' = loc
  PROVE  TypeInv'
<1>1. ControlOK' /\ pc' = [pc EXCEPT ![t] = step]
  BY GotoTyped DEF TypeInv
<1>2. OwnIds(t) /\ loc'[t].id \in Workers
  BY DEF OwnIds, TypeInv, ArmIdentified
<1>3. QED
  BY <1>1, <1>2, MoveKeeps

LEMMA CallKeeps ==
  ASSUME TypeInv, NEW t \in Threads, NEW step \in Steps, step \notin Arming,
         NEW next \in Returns, Call(t, step, next), DataOK', OwnIds(t)
  PROVE  TypeInv'
<1>1. <<next>> \o stack[t] \in Seq(Returns)
  BY DEF TypeInv, ControlOK
<1>2. ControlOK' /\ pc' = [pc EXCEPT ![t] = step]
  BY <1>1 DEF TypeInv, ControlOK, Call
<1>3. QED
  BY <1>2, MoveKeeps

LEMMA CallerTyped ==
  ASSUME TypeInv, NEW t \in Threads
  PROVE  /\ Caller(t) \in Steps /\ Caller(t) \notin Arming /\ Caller(t) # "blocked"
         /\ Callers(t) \in Seq(Returns)
<1>1. Caller(t) \in Returns \cup {"idle", "exited"} /\ Callers(t) \in Seq(Returns)
  <2>1. stack[t] \in Seq(Returns)
    BY DEF TypeInv, ControlOK
  <2>2. CASE stack[t] = <<>>
    BY <2>1, <2>2 DEF Caller, Callers
  <2>3. CASE stack[t] # <<>>
    <3>1. Head(stack[t]) \in Returns /\ Tail(stack[t]) \in Seq(Returns)
      BY <2>1, <2>3
    <3>2. QED
      BY <2>3, <3>1 DEF Caller, Callers
  <2>4. QED
    BY <2>2, <2>3
<1>2. QED
  BY <1>1 DEF Returns, Arming, Steps, ClientSteps, WorkerSteps

LEMMA ReturnKeeps ==
  ASSUME TypeInv, NEW t \in Threads, Return(t), DataOK', OwnIds(t)
  PROVE  TypeInv'
<1>1. ControlOK' /\ pc' = [pc EXCEPT ![t] = Caller(t)]
  BY CallerTyped DEF TypeInv, ControlOK, Return
<1>2. QED
  BY <1>1, CallerTyped, MoveKeeps

(* A notification moves blocked workers, which are not in Arming, to "take". *)
LEMMA NotifyKeeps ==
  ASSUME TypeInv, NEW t \in Threads, NEW step \in Steps, step \notin Arming,
         NotifyAndGoto(t, step), stack' \in [Threads -> Seq(Returns)], DataOK', OwnIds(t)
  PROVE  TypeInv'
<1>1. "take" \in Steps /\ "take" \notin Arming
  BY DEF Steps, WorkerSteps, Arming
<1>2. ControlOK'
  BY <1>1 DEF TypeInv, ControlOK, NotifyAndGoto
<1>3. ArmIdentified'
  BY <1>1 DEF TypeInv, ControlOK, ArmIdentified, NotifyAndGoto, OwnIds
<1>4. QED
  BY <1>2, <1>3 DEF TypeInv

LEMMA NotifyReturnKeeps ==
  ASSUME TypeInv, NEW t \in Threads, NotifyAndReturn(t), DataOK', OwnIds(t)
  PROVE  TypeInv'
<1>1. stack' \in [Threads -> Seq(Returns)]
  BY CallerTyped DEF TypeInv, ControlOK, NotifyAndReturn
<1>2. NotifyAndGoto(t, Caller(t))
  BY DEF NotifyAndReturn
<1>3. QED
  BY <1>1, <1>2, CallerTyped, NotifyKeeps

------------------------------------------------------------------------------
(* Updates of one variable *)

LEMMA LifecycleTyped ==
  ASSUME lock \in LockFields, NEW t \in Threads, LifecycleAcquired(t)
  PROVE  lock' \in LockFields
<1>1. lock.depth + 1 \in Int
  BY DEF LockFields
<1>2. lock' = [lock EXCEPT !.lifecycle = t, !.depth = lock.depth + 1]
  BY DEF LifecycleAcquired
<1>3. QED
  BY <1>1, <1>2 DEF LockFields

LEMMA LifecycleReleased ==
  ASSUME lock \in LockFields, NEW t \in Threads, LifecycleUnlock(t)
  PROVE  lock' \in LockFields
<1> DEFINE owner == IF lock.depth = 1 THEN NoThread ELSE lock.lifecycle
<1>1. lock.depth - 1 \in Int /\ owner \in Threads \cup {NoThread}
  BY DEF LockFields
<1>2. lock' = [lock EXCEPT !.depth = lock.depth - 1, !.lifecycle = owner]
  BY DEF LifecycleUnlock
<1> HIDE DEF owner
<1>3. QED
  BY <1>1, <1>2 DEF LockFields

LEMMA SnapshotTyped ==
  ASSUME dev \in DeviceFields
  PROVE  SelectorsAfterSnapshot \subseteq Selectors
BY DEF DeviceFields, SelectorsAfterSnapshot, Selectors

(* A restoration writes values the worker recorded or the device has. *)
LEMMA RestoreTyped ==
  ASSUME dev \in DeviceFields, preset \in PresetFields, worker \in [Workers -> WorkerFields],
         NEW w \in Workers, Restore(w)
  PROVE  dev' \in DeviceFields /\ preset' \in PresetFields
<1>1. /\ dev.mode \in AcquisitionModes /\ worker[w].mode \in AcquisitionModes
      /\ dev.selector \in Selectors /\ worker[w].selector \in Selectors
      /\ preset.mode \in AcquisitionModes /\ preset.selector \in Selectors
  BY DEF DeviceFields, PresetFields, WorkerFields
<1>2. LeftMode(w) \subseteq AcquisitionModes /\ LeftSelector(w) \subseteq Selectors
  BY <1>1 DEF LeftMode, LeftSelector, AcquisitionModes, Selectors
<1>3. PICK mode \in AcquisitionModes, selector \in Selectors :
        /\ dev' = [dev EXCEPT !.streaming = FALSE, !.mode = mode, !.selector = selector]
        /\ preset' = [mode |-> IF RestoreMode(w) /\ mode # worker[w].mode THEN mode ELSE preset.mode,
                      selector |-> IF RestoreSelector(w) /\ selector # worker[w].selector
                                     THEN selector ELSE preset.selector]
  BY <1>1, <1>2 DEF Restore
<1>4. dev' \in DeviceFields
  BY <1>3 DEF DeviceFields
<1>5. preset' \in PresetFields
  BY <1>1, <1>3 DEF PresetFields
<1>6. QED
  BY <1>4, <1>5

(* The worker takes a request off the queue only if there is one. *)
LEMMA QueueTyped ==
  ASSUME trig \in TriggerFields, NEW w \in Workers, WorkerTake(w)
  PROVE  trig' \in TriggerFields
<1>1. CASE trig' = trig
  BY <1>1
<1>2. CASE trig.pending # 0 /\ trig' = [pending |-> trig.pending - 1, inFlight |-> TRUE]
  <2>1. trig.pending - 1 \in Nat
    BY <1>2 DEF TriggerFields
  <2>2. QED
    BY <1>2, <2>1 DEF TriggerFields
<1>3. QED
  BY <1>1, <1>2 DEF WorkerTake, QueueOnStop

------------------------------------------------------------------------------
(* Operations *)

(* Calls and callbacks. *)
LEMMA CallsTyped ==
  ASSUME TypeInv, NEW t \in Threads,
         ClientCall(t) \/ CallbackCall(t) \/ CallbackReturn(t)
  PROVE  TypeInv'
<1>1. CASE ClientCall(t)
  <2>1. DataOK' /\ OwnIds(t)
    BY <1>1 DEF TypeInv, DataOK, ClientCall, OwnIds
  <2>2. QED
    BY <1>1, <2>1, GotoKeeps, OpsAssumption DEF ClientCall, Entry, Ops, Steps, ClientSteps,
       WorkerSteps, Arming
<1>2. CASE CallbackCall(t)
  <2>1. DataOK' /\ OwnIds(t)
    BY <1>2 DEF TypeInv, DataOK, CallbackCall, OwnIds
  <2>2. QED
    BY <1>2, <2>1, CallKeeps, OpsAssumption DEF CallbackCall, Entry, Ops, Steps, ClientSteps,
       WorkerSteps, Arming, Returns
<1>3. CASE CallbackReturn(t)
  <2>1. DataOK' /\ OwnIds(t)
    BY <1>3 DEF TypeInv, DataOK, CallbackReturn, OwnIds
  <2>2. QED
    BY <1>3, <2>1, ReturnKeeps DEF CallbackReturn
<1>4. QED
  BY <1>1, <1>2, <1>3

(* requestStopAcquisition. *)
LEMMA RequestTyped ==
  ASSUME TypeInv, NEW t \in Threads,
         RequestFlag(t) \/ RequestNotify(t)
  PROVE  TypeInv'
<1>1. CASE RequestFlag(t)
  <2>1. DataOK' /\ OwnIds(t)
    BY <1>1 DEF TypeInv, DataOK, RequestFlag, OwnIds
  <2>2. QED
    BY <1>1, <2>1, GotoKeeps, ReturnKeeps DEF RequestFlag, Steps, ClientSteps, WorkerSteps,
       Arming
<1>2. CASE RequestNotify(t)
  <2>1. DataOK' /\ OwnIds(t)
    BY <1>2 DEF TypeInv, DataOK, RequestNotify, OwnIds, TriggerFields
  <2>2. QED
    BY <1>2, <2>1, NotifyReturnKeeps DEF RequestNotify
<1>3. QED
  BY <1>1, <1>2

(* stopAcquisition. *)
LEMMA StopTyped ==
  ASSUME TypeInv, NEW t \in Threads,
         StopCheck(t) \/ StopLock(t) \/ StopWait(t) \/ StopSignal(t) \/
         StopJoin(t) \/ StopUnlock(t)
  PROVE  TypeInv'
<1>1. CASE StopCheck(t)
  <2>1. DataOK' /\ OwnIds(t)
    BY <1>1 DEF TypeInv, DataOK, StopCheck, OwnIds
  <2>2. QED
    BY <1>1, <2>1, GotoKeeps DEF StopCheck, Steps, ClientSteps, WorkerSteps, Arming
<1>2. CASE StopLock(t)
  <2>1. DataOK' /\ OwnIds(t)
    BY <1>2 DEF TypeInv, DataOK, StopLock, OwnIds, LockFields
  <2>2. QED
    BY <1>2, <2>1, CallKeeps DEF StopLock, Steps, ClientSteps, WorkerSteps, Arming, Returns
<1>3. CASE StopWait(t)
  <2>1. DataOK' /\ OwnIds(t)
    <3>1. st' \in StateFields
      BY <1>3 DEF TypeInv, DataOK, StopWait, StateFields
    <3>2. loc' \in [Threads -> LocalFields] /\ OwnIds(t)
      BY <1>3 DEF TypeInv, DataOK, StopWait, StateFields, LocalFields, OwnIds
    <3>3. stopRequested' \in BOOLEAN
      BY <1>3 DEF TypeInv, DataOK, StopWait, Reasserted
    <3>4. QED
      BY <1>3, <3>1, <3>2, <3>3 DEF TypeInv, DataOK, StopWait
  <2>2. QED
    BY <1>3, <2>1, GotoKeeps DEF StopWait, Steps, ClientSteps, WorkerSteps, Arming
<1>4. CASE StopSignal(t)
  <2>1. DataOK' /\ OwnIds(t)
    BY <1>4 DEF TypeInv, DataOK, StopSignal, OwnIds, TriggerFields
  <2>2. QED
    BY <1>4, <2>1, NotifyKeeps DEF StopSignal, TypeInv, ControlOK, Steps, ClientSteps,
       WorkerSteps, Arming
<1>5. CASE StopJoin(t)
  <2>1. DataOK' /\ OwnIds(t)
    BY <1>5 DEF TypeInv, DataOK, StopJoin, OwnIds, LocalFields
  <2>2. QED
    BY <1>5, <2>1, CallKeeps DEF StopJoin, Steps, ClientSteps, WorkerSteps, Arming, Returns
<1>6. CASE StopUnlock(t)
  <2>1. DataOK' /\ OwnIds(t)
    BY <1>6 DEF TypeInv, DataOK, StopUnlock, OwnIds, LockFields
  <2>2. QED
    BY <1>6, <2>1, ReturnKeeps DEF StopUnlock
<1>7. QED
  BY <1>1, <1>2, <1>3, <1>4, <1>5, <1>6

(* finishAcquisition. *)
LEMMA FinishTyped ==
  ASSUME TypeInv, NEW t \in Threads,
         FinishState(t) \/ FinishTrigger(t) \/ FinishTell(t) \/ FinishEnd(t)
  PROVE  TypeInv'
<1>1. CASE FinishState(t)
  <2>1. DataOK' /\ OwnIds(t)
    <3>1. st' \in StateFields
      BY <1>1, IdZero DEF TypeInv, DataOK, FinishState, StateFields
    <3>2. loc' \in [Threads -> LocalFields] /\ OwnIds(t)
      BY <1>1, IdZero DEF TypeInv, DataOK, FinishState, LocalFields, OwnIds, Ends, StateFields
    <3>3. UNCHANGED <<trig, hs, stopRequested, cancelRequested, lock, dev, preset, told, worker>>
      BY <1>1 DEF FinishState
    <3>4. QED
      BY <3>1, <3>2, <3>3 DEF TypeInv, DataOK
  <2>2. QED
    BY <1>1, <2>1, GotoKeeps DEF FinishState, Steps, ClientSteps, WorkerSteps, Arming
<1>2. CASE FinishTrigger(t)
  <2>1. DataOK' /\ OwnIds(t)
    BY <1>2 DEF TypeInv, DataOK, FinishTrigger, OwnIds, TriggerFields
  <2>2. QED
    BY <1>2, <2>1, GotoKeeps DEF FinishTrigger, Steps, ClientSteps, WorkerSteps, Arming
<1>3. CASE FinishTell(t)
  <2>1. DataOK' /\ OwnIds(t)
    <3>1. loc' \in [Threads -> LocalFields] /\ OwnIds(t)
      BY <1>3 DEF TypeInv, DataOK, FinishTell, LocalFields, OwnIds
    <3>2. told' \in [connection : Int, acquisition : Int]
      BY <1>3 DEF TypeInv, DataOK, FinishTell
    <3>3. QED
      BY <1>3, <3>1, <3>2 DEF TypeInv, DataOK, FinishTell
  <2>2. QED
    BY <1>3, <2>1, GotoKeeps, CallKeeps DEF FinishTell, Steps, ClientSteps, WorkerSteps,
       Arming, Returns
<1>4. CASE FinishEnd(t)
  <2>1. DataOK' /\ OwnIds(t)
    BY <1>4 DEF TypeInv, DataOK, FinishEnd, OwnIds, StateFields
  <2>2. QED
    BY <1>4, <2>1, ReturnKeeps DEF FinishEnd
<1>5. QED
  BY <1>1, <1>2, <1>3, <1>4

(* triggerSoftware, the feature calls and requestCancelInitialization. *)
LEMMA TriggerTyped ==
  ASSUME TypeInv, NEW t \in Threads,
         TriggerCheck(t) \/ TriggerQueue(t) \/ Feature(t) \/ Cancel(t)
  PROVE  TypeInv'
<1>1. CASE TriggerCheck(t)
  <2>1. DataOK' /\ OwnIds(t)
    BY <1>1 DEF TypeInv, DataOK, TriggerCheck, OwnIds, StateFields, LocalFields
  <2>2. QED
    BY <1>1, <2>1, GotoKeeps, ReturnKeeps DEF TriggerCheck, Steps, ClientSteps, WorkerSteps,
       Arming
<1>2. CASE TriggerQueue(t)
  <2>1. DataOK' /\ OwnIds(t)
    BY <1>2, IdZero DEF TypeInv, DataOK, TriggerQueue, OwnIds, TriggerFields, LocalFields
  <2>2. QED
    BY <1>2, <2>1, NotifyReturnKeeps, ReturnKeeps DEF TriggerQueue, Steps, ClientSteps,
       WorkerSteps, Arming
<1>3. CASE Feature(t)
  <2>1. DataOK' /\ OwnIds(t)
    <3>1. dev' \in DeviceFields
      BY <1>3 DEF TypeInv, DataOK, Feature, DeviceFields, AcquisitionModes, Selectors
    <3>2. preset' \in PresetFields
      BY <1>3 DEF TypeInv, DataOK, Feature, PresetFields, DeviceFields, AcquisitionModes, Selectors
    <3>3. UNCHANGED <<st, trig, hs, stopRequested, cancelRequested, lock, told, worker, loc>>
      BY <1>3 DEF Feature
    <3>4. QED
      BY <3>1, <3>2, <3>3 DEF TypeInv, DataOK, OwnIds
  <2>2. QED
    BY <1>3, <2>1, ReturnKeeps DEF Feature
<1>4. CASE Cancel(t)
  <2>1. DataOK' /\ OwnIds(t)
    BY <1>4 DEF TypeInv, DataOK, Cancel, OwnIds
  <2>2. QED
    BY <1>4, <2>1, ReturnKeeps DEF Cancel
<1>5. QED
  BY <1>1, <1>2, <1>3, <1>4

(* initializeMotion. *)
LEMMA InitTyped ==
  ASSUME TypeInv, NEW t \in Threads,
         InitAdmit(t) \/ InitCommand(t) \/ InitPoll(t) \/ InitEnd(t)
  PROVE  TypeInv'
<1>1. CASE InitAdmit(t)
  <2>1. DataOK' /\ OwnIds(t)
    <3>1. st' \in StateFields
      BY <1>1 DEF TypeInv, DataOK, InitAdmit, StateFields
    <3>2. cancelRequested' \in BOOLEAN
      BY <1>1 DEF TypeInv, DataOK, InitAdmit, CancellationAfterRequest
    <3>3. UNCHANGED <<trig, hs, stopRequested, lock, dev, preset, told, worker, loc>>
      BY <1>1 DEF InitAdmit
    <3>4. QED
      BY <3>1, <3>2, <3>3 DEF TypeInv, DataOK, OwnIds
  <2>2. QED
    BY <1>1, <2>1, GotoKeeps, ReturnKeeps DEF InitAdmit, Steps, ClientSteps, WorkerSteps, Arming
<1>2. CASE InitCommand(t)
  <2>1. DataOK' /\ OwnIds(t)
    BY <1>2 DEF TypeInv, DataOK, InitCommand, OwnIds
  <2>2. QED
    BY <1>2, <2>1, GotoKeeps DEF InitCommand, Steps, ClientSteps, WorkerSteps, Arming
<1>3. CASE InitPoll(t)
  <2>1. DataOK' /\ OwnIds(t)
    BY <1>3 DEF TypeInv, DataOK, InitPoll, OwnIds
  <2>2. QED
    BY <1>3, <2>1, GotoKeeps DEF InitPoll, Steps, ClientSteps, WorkerSteps, Arming
<1>4. CASE InitEnd(t)
  <2>1. DataOK' /\ OwnIds(t)
    BY <1>4 DEF TypeInv, DataOK, InitEnd, OwnIds, StateFields
  <2>2. QED
    BY <1>4, <2>1, ReturnKeeps DEF InitEnd
<1>5. QED
  BY <1>1, <1>2, <1>3, <1>4

(* close. *)
LEMMA CloseTyped ==
  ASSUME TypeInv, NEW t \in Threads,
         CloseLock(t) \/ CloseCancel(t) \/ CloseClaim(t) \/ CloseWait(t) \/
         CloseTake(t) \/ CloseRelease(t) \/ CloseEnd(t) \/ LifecycleUnlock(t)
  PROVE  TypeInv'
<1>1. CASE CloseLock(t)
  <2>1. DataOK' /\ OwnIds(t)
    <3>1. lock' \in LockFields
      BY <1>1, LifecycleTyped DEF TypeInv, DataOK, CloseLock
    <3>2. QED
      BY <1>1, <3>1 DEF TypeInv, DataOK, CloseLock, OwnIds
  <2>2. QED
    BY <1>1, <2>1, GotoKeeps DEF CloseLock, Steps, ClientSteps, WorkerSteps, Arming
<1>2. CASE CloseCancel(t)
  <2>1. DataOK' /\ OwnIds(t)
    <3>1. cancelRequested' \in BOOLEAN
      BY <1>2 DEF TypeInv, DataOK, CloseCancel
    <3>2. UNCHANGED <<st, trig, hs, stopRequested, lock, dev, preset, told, worker, loc>>
      BY <1>2 DEF CloseCancel
    <3>3. QED
      BY <3>1, <3>2 DEF TypeInv, DataOK, OwnIds
  <2>2. QED
    BY <1>2, <2>1, GotoKeeps DEF CloseCancel, Steps, ClientSteps, WorkerSteps, Arming
<1>3. CASE CloseClaim(t)
  <2>1. DataOK' /\ OwnIds(t)
    <3>1. st' \in StateFields
      <4>1. st' = st \/ st' = [st EXCEPT !.closing = TRUE]
        BY <1>3 DEF CloseClaim
      <4>2. QED
        BY <4>1 DEF TypeInv, DataOK, StateFields
    <3>2. UNCHANGED <<trig, hs, stopRequested, cancelRequested, lock, dev, preset, told, worker, loc>>
      BY <1>3 DEF CloseClaim
    <3>3. QED
      BY <3>1, <3>2 DEF TypeInv, DataOK, OwnIds
  <2>2. QED
    BY <1>3, <2>1, GotoKeeps, CallKeeps DEF CloseClaim, Steps, ClientSteps, WorkerSteps,
       Arming, Returns
<1>4. CASE CloseWait(t)
  <2>1. DataOK' /\ OwnIds(t)
    BY <1>4 DEF TypeInv, DataOK, CloseWait, OwnIds
  <2>2. QED
    BY <1>4, <2>1, CallKeeps DEF CloseWait, Steps, ClientSteps, WorkerSteps, Arming, Returns
<1>5. CASE CloseTake(t)
  <2>1. DataOK' /\ OwnIds(t)
    <3>1. st.device \in BOOLEAN /\ st.reconnect \in BOOLEAN
      BY DEF TypeInv, DataOK, StateFields
    <3>2. st' \in StateFields
      BY <1>5, IdZero DEF TypeInv, DataOK, CloseTake, StateFields
    <3>3. /\ loc \in [Threads -> LocalFields]
          /\ loc' = [loc EXCEPT ![t].was = st.device, ![t].recover = st.reconnect]
      BY <1>5 DEF TypeInv, DataOK, CloseTake
    <3>4. loc' \in [Threads -> LocalFields]
      BY <3>1, <3>3 DEF LocalFields
    <3>5. OwnIds(t)
      BY <3>3 DEF OwnIds
    <3>6. UNCHANGED <<trig, hs, stopRequested, cancelRequested, lock, dev, preset, told, worker>>
      BY <1>5 DEF CloseTake
    <3>7. QED
      BY <3>2, <3>4, <3>5, <3>6 DEF TypeInv, DataOK
  <2>2. QED
    BY <1>5, <2>1, GotoKeeps DEF CloseTake, Steps, ClientSteps, WorkerSteps, Arming
<1>6. CASE CloseRelease(t)
  <2>1. DataOK' /\ OwnIds(t)
    <3>1. loc' \in [Threads -> LocalFields] /\ OwnIds(t)
      BY <1>6 DEF TypeInv, DataOK, CloseRelease, LocalFields, OwnIds
    <3>2. dev' \in DeviceFields
      BY <1>6 DEF TypeInv, DataOK, CloseRelease, DeviceFields
    <3>3. told' \in [connection : Int, acquisition : Int]
      BY <1>6 DEF TypeInv, DataOK, CloseRelease
    <3>4. QED
      BY <1>6, <3>1, <3>2, <3>3 DEF TypeInv, DataOK, CloseRelease
  <2>2. QED
    BY <1>6, <2>1, GotoKeeps, CallKeeps DEF CloseRelease, Steps, ClientSteps, WorkerSteps,
       Arming, Returns
<1>7. CASE CloseEnd(t)
  <2>1. DataOK' /\ OwnIds(t)
    BY <1>7 DEF TypeInv, DataOK, CloseEnd, OwnIds, StateFields
  <2>2. QED
    BY <1>7, <2>1, GotoKeeps DEF CloseEnd, Steps, ClientSteps, WorkerSteps, Arming
<1>8. CASE LifecycleUnlock(t)
  <2>1. DataOK' /\ OwnIds(t)
    <3>1. lock' \in LockFields
      BY <1>8, LifecycleReleased DEF TypeInv, DataOK, LifecycleUnlock
    <3>2. QED
      BY <1>8, <3>1 DEF TypeInv, DataOK, LifecycleUnlock, OwnIds
  <2>2. QED
    BY <1>8, <2>1, ReturnKeeps DEF LifecycleUnlock
<1>9. QED
  BY <1>1, <1>2, <1>3, <1>4, <1>5, <1>6, <1>7, <1>8

(* open. *)
LEMMA OpenTyped ==
  ASSUME TypeInv, NEW t \in Threads,
         OpenLock(t) \/ OpenHandles(t) \/ OpenPublish(t) \/ OpenRead(t) \/
         OpenCheck(t)
  PROVE  TypeInv'
<1>1. CASE OpenLock(t)
  <2>1. DataOK' /\ OwnIds(t)
    <3>1. lock' \in LockFields
      BY <1>1, LifecycleTyped DEF TypeInv, DataOK, OpenLock
    <3>2. QED
      BY <1>1, <3>1 DEF TypeInv, DataOK, OpenLock, OwnIds
  <2>2. QED
    BY <1>1, <2>1, CallKeeps DEF OpenLock, Steps, ClientSteps, WorkerSteps, Arming, Returns
<1>2. CASE OpenHandles(t)
  <2>1. DataOK' /\ OwnIds(t)
    BY <1>2 DEF TypeInv, DataOK, OpenHandles, OwnIds, DeviceFields
  <2>2. QED
    BY <1>2, <2>1, GotoKeeps DEF OpenHandles, Steps, ClientSteps, WorkerSteps, Arming
<1>3. CASE OpenPublish(t)
  <2>1. DataOK' /\ OwnIds(t)
    BY <1>3 DEF TypeInv, DataOK, OpenPublish, OwnIds, StateFields
  <2>2. QED
    BY <1>3, <2>1, GotoKeeps DEF OpenPublish, Steps, ClientSteps, WorkerSteps, Arming
<1>4. CASE OpenRead(t)
  <2>1. DataOK' /\ OwnIds(t)
    BY <1>4 DEF TypeInv, DataOK, OpenRead, OwnIds
  <2>2. QED
    BY <1>4, <2>1, CallKeeps DEF OpenRead, Steps, ClientSteps, WorkerSteps, Arming, Returns
<1>5. CASE OpenCheck(t)
  <2>1. DataOK' /\ OwnIds(t)
    BY <1>5 DEF TypeInv, DataOK, OpenCheck, OwnIds
  <2>2. QED
    BY <1>5, <2>1, GotoKeeps DEF OpenCheck, Steps, ClientSteps, WorkerSteps, Arming
<1>6. QED
  BY <1>1, <1>2, <1>3, <1>4, <1>5

(* startAcquisition, up to the claim of the arm. *)
LEMMA ClaimTyped ==
  ASSUME TypeInv, NEW t \in Threads,
         StartLock(t) \/ StartCheck(t) \/ StartRejected(t) \/ StartInvalid(t) \/
         StartPrearm(t)
  PROVE  TypeInv'
<1>1. CASE StartLock(t)
  <2>1. DataOK' /\ OwnIds(t)
    BY <1>1 DEF TypeInv, DataOK, StartLock, OwnIds, LockFields
  <2>2. QED
    BY <1>1, <2>1, CallKeeps, ReturnKeeps DEF StartLock, Steps, ClientSteps, WorkerSteps,
       Arming, Returns
<1>2. CASE StartCheck(t)
  <2>1. DataOK' /\ OwnIds(t)
    BY <1>2 DEF TypeInv, DataOK, StartCheck, OwnIds
  <2>2. QED
    BY <1>2, <2>1, GotoKeeps DEF StartCheck, Steps, ClientSteps, WorkerSteps, Arming
<1>3. CASE StartRejected(t)
  <2>1. DataOK' /\ OwnIds(t)
    BY <1>3 DEF TypeInv, DataOK, StartRejected, OwnIds
  <2>2. QED
    BY <1>3, <2>1, GotoKeeps DEF StartRejected, Steps, ClientSteps, WorkerSteps, Arming
<1>4. CASE StartInvalid(t)
  <2>1. DataOK' /\ OwnIds(t)
    <3>1. st.nextId + 1 \in 1..(MaxArms + 1)
      BY <1>4, MaxArmsAssumption DEF TypeInv, DataOK, StartInvalid, StateFields, StartAdmitted
    <3>2. st' \in StateFields
      BY <1>4, <3>1 DEF TypeInv, DataOK, StartInvalid, StateFields
    <3>3. dev' \in DeviceFields
      BY <1>4, SnapshotTyped DEF TypeInv, DataOK, StartInvalid, DeviceFields
    <3>4. preset' \in PresetFields
      BY <1>4, SnapshotTyped DEF TypeInv, DataOK, StartInvalid, PresetFields
    <3>5. QED
      BY <1>4, <3>1, <3>2, <3>3, <3>4 DEF TypeInv, DataOK, StartInvalid, OwnIds
  <2>2. QED
    BY <1>4, <2>1, GotoKeeps DEF StartInvalid, Steps, ClientSteps, WorkerSteps, Arming
<1>5. CASE StartPrearm(t)
  <2>1. st.nextId \in Workers /\ st.nextId + 1 \in 1..(MaxArms + 1)
    BY <1>5, MaxArmsAssumption DEF StartPrearm, StartAdmitted, TypeInv, DataOK, StateFields,
       Workers
  <2>2. st' \in StateFields
    <3> DEFINE next == st.nextId + 1
    <3>1. next \in 1..(MaxArms + 1)
      BY <2>1
    <3>2. st' = [st EXCEPT !.nextId = next, !.available = FALSE, !.acquiring = FALSE,
                           !.installing = TRUE, !.activeId = 0]
      BY <1>5 DEF StartPrearm
    <3> HIDE DEF next
    <3>3. QED
      BY <3>1, <3>2, IdZero DEF TypeInv, DataOK, StateFields
  <2>3. worker' \in [Workers -> WorkerFields]
    <3>1. PICK software \in Software, single \in BOOLEAN :
            worker' = [worker EXCEPT ![st.nextId] =
                         [software |-> software, single |-> single, mode |-> dev.mode,
                          selector |-> dev.selector, issued |-> FALSE, received |-> FALSE]]
      BY <1>5 DEF StartPrearm
    <3>2. software \in BOOLEAN
      BY SoftwareAssumption
    <3>3. dev.mode \in AcquisitionModes /\ dev.selector \in Selectors
      BY DEF TypeInv, DataOK, DeviceFields
    <3>4. QED
      BY <2>1, <3>1, <3>2, <3>3 DEF TypeInv, DataOK, WorkerFields
  <2>4. trig' \in TriggerFields /\ stopRequested' \in BOOLEAN
    BY <1>5 DEF StartPrearm, TriggerFields
  <2>5. loc' \in [Threads -> LocalFields] /\ OwnIds(t) /\ loc'[t].id \in Workers
    <3>1. loc' = [loc EXCEPT ![t].id = st.nextId]
      BY <1>5 DEF StartPrearm
    <3>2. loc \in [Threads -> LocalFields]
      BY DEF TypeInv, DataOK
    <3>3. QED
      BY <2>1, <3>1, <3>2, WorkerIds DEF LocalFields, OwnIds
  <2>6. DataOK'
    <3>1. UNCHANGED <<hs, cancelRequested, lock, dev, preset, told>>
      BY <1>5 DEF StartPrearm
    <3>2. QED
      BY <2>2, <2>3, <2>4, <2>5, <3>1 DEF TypeInv, DataOK
  <2>7. "start_reset" \in Steps /\ Goto(t, "start_reset")
    BY <1>5 DEF StartPrearm, Steps, ClientSteps
  <2>8. QED
    BY <2>5, <2>6, <2>7, GotoTyped, MoveKeeps DEF TypeInv
<1>6. QED
  BY <1>1, <1>2, <1>3, <1>4, <1>5

(* startAcquisition, once the arm has an identifier. *)
LEMMA ArmTyped ==
  ASSUME TypeInv, NEW t \in Threads,
         StartReset(t) \/ StartSpawn(t) \/ StartSpawnFailed(t) \/
         StartPublish(t) \/ StartAwait(t) \/ StartFail(t) \/ StartJoin(t) \/
         StartCommit(t) \/ StartTell(t) \/ StartTold(t) \/ StartRelease(t) \/
         StartUnlock(t)
  PROVE  TypeInv'
<1>1. CASE StartReset(t)
  <2>1. DataOK' /\ OwnIds(t)
    BY <1>1 DEF TypeInv, DataOK, StartReset, OwnIds, HandshakeFields
  <2>2. QED
    BY <1>1, <2>1, ArmingKeeps DEF StartReset, Steps, ClientSteps, WorkerSteps, Arming
<1>2. CASE StartSpawn(t)
  <2>1. DataOK' /\ OwnIds(t)
    BY <1>2 DEF TypeInv, DataOK, StartSpawn, OwnIds
  <2>2. "enter" \in Steps /\ "enter" \notin Arming /\ "start_publish" \in Steps
    BY DEF Steps, ClientSteps, WorkerSteps, Arming
  <2>3. pc[t] \in Arming
    BY <1>2 DEF StartSpawn, Arming
  <2>4. loc[t].id \in Workers
    BY <2>3 DEF TypeInv, ArmIdentified
  <2>5. ControlOK'
    BY <1>2, <2>2 DEF StartSpawn, TypeInv, ControlOK
  <2>6. ArmIdentified'
    BY <1>2, <2>2, <2>4 DEF StartSpawn, TypeInv, ControlOK, ArmIdentified
  <2>7. QED
    BY <2>1, <2>5, <2>6 DEF TypeInv
<1>3. CASE StartSpawnFailed(t)
  <2>1. DataOK' /\ OwnIds(t)
    <3>1. st' \in StateFields
      BY <1>3, IdZero DEF TypeInv, DataOK, StartSpawnFailed, StateFields
    <3>2. loc' \in [Threads -> LocalFields] /\ OwnIds(t)
      BY <1>3, IdZero DEF TypeInv, DataOK, StartSpawnFailed, LocalFields, OwnIds
    <3>3. UNCHANGED <<trig, hs, stopRequested, cancelRequested, lock, dev, preset, told, worker>>
      BY <1>3 DEF StartSpawnFailed
    <3>4. QED
      BY <3>1, <3>2, <3>3 DEF TypeInv, DataOK
  <2>2. QED
    BY <1>3, <2>1, GotoKeeps DEF StartSpawnFailed, Steps, ClientSteps, WorkerSteps, Arming
<1>4. CASE StartPublish(t)
  <2>1. DataOK' /\ OwnIds(t)
    BY <1>4 DEF TypeInv, DataOK, StartPublish, OwnIds, StateFields, ArmIdentified, Arming
  <2>2. QED
    BY <1>4, <2>1, ArmingKeeps DEF StartPublish, Steps, ClientSteps, WorkerSteps, Arming
<1>5. CASE StartAwait(t)
  <2>1. DataOK' /\ OwnIds(t)
    BY <1>5 DEF TypeInv, DataOK, StartAwait, OwnIds
  <2>2. QED
    BY <1>5, <2>1, GotoKeeps, ArmingKeeps DEF StartAwait, Steps, ClientSteps, WorkerSteps,
       Arming
<1>6. CASE StartFail(t)
  <2>1. DataOK' /\ OwnIds(t)
    <3>1. st' \in StateFields
      BY <1>6, IdZero DEF TypeInv, DataOK, StartFail, StateFields
    <3>2. st.thread \in Workers \cup {NoThread}
      BY DEF TypeInv, DataOK, StateFields
    <3>3. loc' \in [Threads -> LocalFields] /\ OwnIds(t)
      <4> DEFINE joined == [loc EXCEPT ![t].joinee = st.thread]
      <4>1. joined \in [Threads -> LocalFields]
        BY <3>2 DEF TypeInv, DataOK, LocalFields
      <4>2. \A u \in Threads : u # t => joined[u] = loc[u]
        BY DEF TypeInv, DataOK
      <4>3. loc' = [joined EXCEPT ![t].id = 0]
        BY <1>6 DEF StartFail, TypeInv, DataOK
      <4> HIDE DEF joined
      <4>4. QED
        BY <4>1, <4>2, <4>3, IdZero DEF LocalFields, OwnIds
    <3>4. QED
      BY <1>6, <3>1, <3>3 DEF TypeInv, DataOK, StartFail
  <2>2. QED
    BY <1>6, <2>1, GotoKeeps DEF StartFail, Steps, ClientSteps, WorkerSteps, Arming
<1>7. CASE StartJoin(t)
  <2>1. DataOK' /\ OwnIds(t)
    BY <1>7 DEF TypeInv, DataOK, StartJoin, OwnIds, LocalFields
  <2>2. QED
    BY <1>7, <2>1, GotoKeeps DEF StartJoin, Steps, ClientSteps, WorkerSteps, Arming
<1>8. CASE StartCommit(t)
  <2>1. DataOK' /\ OwnIds(t)
    <3>1. loc[t].id \in Workers /\ loc[t].id \in 0..MaxArms
      BY <1>8, WorkerIds DEF TypeInv, DataOK, StartCommit, ArmIdentified, Arming
    <3>2. worker[loc[t].id].software \in BOOLEAN
      BY <1>8, <3>1 DEF TypeInv, DataOK, StartCommit, WorkerFields
    <3>3. st' \in StateFields
      BY <1>8, <3>1, <3>2 DEF TypeInv, DataOK, StartCommit, StateFields
    <3>4. loc' \in [Threads -> LocalFields] /\ OwnIds(t)
      BY <1>8, IdZero DEF TypeInv, DataOK, StartCommit, LocalFields, OwnIds
    <3>5. QED
      BY <1>8, <3>1, <3>2, <3>3, <3>4 DEF TypeInv, DataOK, StartCommit
  <2>2. QED
    BY <1>8, <2>1, GotoKeeps DEF StartCommit, Steps, ClientSteps, WorkerSteps, Arming
<1>9. CASE StartTell(t)
  <2>1. DataOK' /\ OwnIds(t)
    BY <1>9 DEF TypeInv, DataOK, StartTell, OwnIds, StateFields
  <2>2. QED
    BY <1>9, <2>1, CallKeeps DEF StartTell, Steps, ClientSteps, WorkerSteps, Arming, Returns
<1>10. CASE StartTold(t)
  <2>1. DataOK' /\ OwnIds(t)
    BY <1>10 DEF TypeInv, DataOK, StartTold, OwnIds, StateFields
  <2>2. QED
    BY <1>10, <2>1, GotoKeeps DEF StartTold, Steps, ClientSteps, WorkerSteps, Arming
<1>11. CASE StartRelease(t)
  <2>1. DataOK' /\ OwnIds(t)
    BY <1>11 DEF TypeInv, DataOK, StartRelease, OwnIds, HandshakeFields
  <2>2. QED
    BY <1>11, <2>1, GotoKeeps DEF StartRelease, Steps, ClientSteps, WorkerSteps, Arming
<1>12. CASE StartUnlock(t)
  <2>1. DataOK' /\ OwnIds(t)
    BY <1>12 DEF TypeInv, DataOK, StartUnlock, OwnIds, LockFields
  <2>2. QED
    BY <1>12, <2>1, ReturnKeeps DEF StartUnlock
<1>13. QED
  BY <1>1, <1>2, <1>3, <1>4, <1>5, <1>6, <1>7, <1>8, <1>9, <1>10, <1>11, <1>12

(* The worker, up to its first wait. *)
LEMMA EnterTyped ==
  ASSUME TypeInv, NEW t \in Workers,
         WorkerEnter(t) \/ WorkerSetup(t) \/ WorkerConfigured(t) \/
         WorkerConfigureFailed(t) \/ WorkerReport(t) \/ WorkerQuit(t) \/
         WorkerHold(t) \/ WorkerLoop(t)
  PROVE  TypeInv'
<1> t \in Threads
  BY WorkerIds
<1>1. CASE WorkerEnter(t)
  <2>1. DataOK' /\ OwnIds(t)
    BY <1>1 DEF TypeInv, DataOK, WorkerEnter, OwnIds, StateFields
  <2>2. QED
    BY <1>1, <2>1, GotoKeeps DEF WorkerEnter, Steps, ClientSteps, WorkerSteps, Arming
<1>2. CASE WorkerSetup(t)
  <2>1. DataOK' /\ OwnIds(t)
    <3>1. lock' \in LockFields
      BY <1>2 DEF TypeInv, DataOK, WorkerSetup, LockFields
    <3>2. UNCHANGED <<st, trig, hs, stopRequested, cancelRequested, dev, preset, told, worker, loc>>
      BY <1>2 DEF WorkerSetup
    <3>3. QED
      BY <3>1, <3>2 DEF TypeInv, DataOK, OwnIds
  <2>2. QED
    BY <1>2, <2>1, GotoKeeps DEF WorkerSetup, Steps, ClientSteps, WorkerSteps, Arming
<1>3. CASE WorkerConfigured(t)
  <2>1. DataOK' /\ OwnIds(t)
    <3>1. lock' \in LockFields
      BY <1>3 DEF TypeInv, DataOK, WorkerConfigured, LockFields
    <3>2. dev' \in DeviceFields
      BY <1>3 DEF TypeInv, DataOK, WorkerConfigured, DeviceFields, AcquisitionModes, Selectors
    <3>3. worker' \in [Workers -> WorkerFields]
      BY <1>3 DEF TypeInv, DataOK, WorkerConfigured, WorkerFields
    <3>4. UNCHANGED <<st, trig, hs, stopRequested, cancelRequested, preset, told, loc>>
      BY <1>3 DEF WorkerConfigured
    <3>5. QED
      BY <3>1, <3>2, <3>3, <3>4 DEF TypeInv, DataOK, OwnIds
  <2>2. QED
    BY <1>3, <2>1, GotoKeeps DEF WorkerConfigured, Steps, ClientSteps, WorkerSteps, Arming
<1>4. CASE WorkerConfigureFailed(t)
  <2>1. DataOK' /\ OwnIds(t)
    <3>1. lock' \in LockFields
      BY <1>4 DEF TypeInv, DataOK, WorkerConfigureFailed, LockFields
    <3>2. dev' \in DeviceFields /\ preset' \in PresetFields
      BY <1>4, RestoreTyped DEF TypeInv, DataOK, WorkerConfigureFailed
    <3>3. worker' \in [Workers -> WorkerFields]
      BY <1>4 DEF TypeInv, DataOK, WorkerConfigureFailed, WorkerFields
    <3>4. QED
      BY <1>4, <3>1, <3>2, <3>3 DEF TypeInv, DataOK, WorkerConfigureFailed, OwnIds
  <2>2. QED
    BY <1>4, <2>1, GotoKeeps DEF WorkerConfigureFailed, Steps, ClientSteps, WorkerSteps, Arming
<1>5. CASE WorkerReport(t)
  <2>1. DataOK' /\ OwnIds(t)
    BY <1>5 DEF TypeInv, DataOK, WorkerReport, OwnIds, HandshakeFields, WorkerFields,
       CompletedStart
  <2>2. QED
    BY <1>5, <2>1, GotoKeeps DEF WorkerReport, Steps, ClientSteps, WorkerSteps, Arming
<1>6. CASE WorkerQuit(t)
  <2>1. DataOK' /\ OwnIds(t)
    BY <1>6 DEF TypeInv, DataOK, WorkerQuit, OwnIds, StateFields
  <2>2. QED
    BY <1>6, <2>1, GotoKeeps DEF WorkerQuit, Steps, ClientSteps, WorkerSteps, Arming
<1>7. CASE WorkerHold(t)
  <2>1. DataOK' /\ OwnIds(t)
    BY <1>7 DEF TypeInv, DataOK, WorkerHold, OwnIds
  <2>2. QED
    BY <1>7, <2>1, GotoKeeps DEF WorkerHold, Steps, ClientSteps, WorkerSteps, Arming
<1>8. CASE WorkerLoop(t)
  <2>1. DataOK' /\ OwnIds(t)
    <3>1. worker' \in [Workers -> WorkerFields]
      <4>1. worker' = [worker EXCEPT ![t].issued = FALSE, ![t].received = FALSE]
        BY <1>8 DEF WorkerLoop
      <4>2. worker \in [Workers -> WorkerFields]
        BY DEF TypeInv, DataOK
      <4>3. QED
        BY <4>1, <4>2 DEF WorkerFields
    <3>2. UNCHANGED <<st, trig, hs, stopRequested, cancelRequested, lock, dev, preset, told, loc>>
      BY <1>8 DEF WorkerLoop
    <3>3. QED
      BY <3>1, <3>2 DEF TypeInv, DataOK, OwnIds
  <2>2. QED
    BY <1>8, <2>1, GotoKeeps DEF WorkerLoop, Steps, ClientSteps, WorkerSteps, Arming
<1>9. QED
  BY <1>1, <1>2, <1>3, <1>4, <1>5, <1>6, <1>7, <1>8

(* The worker, receiving. *)
LEMMA ReceiveTyped ==
  ASSUME TypeInv, NEW t \in Workers,
         WorkerTake(t) \/ WorkerReceive(t) \/ WorkerSdk(t) \/ WorkerFrame(t) \/
         WorkerBufferError(t) \/ WorkerTimeout(t) \/ WorkerDiagnose(t) \/
         WorkerAfter(t) \/ WorkerDeliver(t) \/ WorkerDelivered(t)
  PROVE  TypeInv'
<1> t \in Threads
  BY WorkerIds
<1>1. CASE WorkerTake(t)
  <2>1. DataOK' /\ OwnIds(t)
    <3>1. trig' \in TriggerFields
      BY <1>1, QueueTyped DEF TypeInv, DataOK, WorkerTake
    <3>2. QED
      BY <1>1, <3>1 DEF TypeInv, DataOK, WorkerTake, OwnIds
  <2>2. QED
    BY <1>1, <2>1, GotoKeeps DEF WorkerTake, Steps, ClientSteps, WorkerSteps, Arming
<1>2. CASE WorkerReceive(t)
  <2>1. DataOK' /\ OwnIds(t)
    BY <1>2 DEF TypeInv, DataOK, WorkerReceive, OwnIds
  <2>2. QED
    BY <1>2, <2>1, GotoKeeps DEF WorkerReceive, Steps, ClientSteps, WorkerSteps, Arming
<1>3. CASE WorkerSdk(t)
  <2>1. DataOK' /\ OwnIds(t)
    BY <1>3 DEF TypeInv, DataOK, WorkerSdk, OwnIds, LockFields, WorkerFields
  <2>2. QED
    BY <1>3, <2>1, GotoKeeps DEF WorkerSdk, Steps, ClientSteps, WorkerSteps, Arming
<1>4. CASE WorkerFrame(t)
  <2>1. DataOK' /\ OwnIds(t)
    BY <1>4 DEF TypeInv, DataOK, WorkerFrame, OwnIds, LockFields, WorkerFields
  <2>2. QED
    BY <1>4, <2>1, GotoKeeps DEF WorkerFrame, Steps, ClientSteps, WorkerSteps, Arming
<1>5. CASE WorkerBufferError(t)
  <2>1. DataOK' /\ OwnIds(t)
    BY <1>5 DEF TypeInv, DataOK, WorkerBufferError, OwnIds, LockFields
  <2>2. QED
    BY <1>5, <2>1, GotoKeeps DEF WorkerBufferError, Steps, ClientSteps, WorkerSteps, Arming
<1>6. CASE WorkerTimeout(t)
  <2>1. DataOK' /\ OwnIds(t)
    BY <1>6 DEF TypeInv, DataOK, WorkerTimeout, OwnIds, LockFields
  <2>2. QED
    BY <1>6, <2>1, GotoKeeps DEF WorkerTimeout, AfterTimeout, Steps, ClientSteps,
       WorkerSteps, Arming
<1>7. CASE WorkerDiagnose(t)
  <2>1. DataOK' /\ OwnIds(t)
    BY <1>7 DEF TypeInv, DataOK, WorkerDiagnose, OwnIds, DeviceFields, PresetFields,
       SelectorsAfterSnapshot, Selectors
  <2>2. QED
    BY <1>7, <2>1, GotoKeeps DEF WorkerDiagnose, Steps, ClientSteps, WorkerSteps, Arming
<1>8. CASE WorkerAfter(t)
  <2>1. DataOK' /\ OwnIds(t)
    BY <1>8 DEF TypeInv, DataOK, WorkerAfter, OwnIds, TriggerFields
  <2>2. QED
    BY <1>8, <2>1, GotoKeeps DEF WorkerAfter, Steps, ClientSteps, WorkerSteps, Arming
<1>9. CASE WorkerDeliver(t)
  <2>1. DataOK' /\ OwnIds(t)
    BY <1>9 DEF TypeInv, DataOK, WorkerDeliver, OwnIds
  <2>2. QED
    BY <1>9, <2>1, CallKeeps DEF WorkerDeliver, Steps, ClientSteps, WorkerSteps, Arming, Returns
<1>10. CASE WorkerDelivered(t)
  <2>1. DataOK' /\ OwnIds(t)
    BY <1>10 DEF TypeInv, DataOK, WorkerDelivered, OwnIds
  <2>2. QED
    BY <1>10, <2>1, GotoKeeps DEF WorkerDelivered, Steps, ClientSteps, WorkerSteps, Arming
<1>11. QED
  BY <1>1, <1>2, <1>3, <1>4, <1>5, <1>6, <1>7, <1>8, <1>9, <1>10

(* The worker, disarming. *)
LEMMA DisarmTyped ==
  ASSUME TypeInv, NEW t \in Workers,
         WorkerStop(t) \/ WorkerStopped(t) \/ WorkerStopFailed(t) \/
         WorkerReconnect(t)
  PROVE  TypeInv'
<1> t \in Threads
  BY WorkerIds
<1>1. CASE WorkerStop(t)
  <2>1. DataOK' /\ OwnIds(t)
    BY <1>1 DEF TypeInv, DataOK, WorkerStop, OwnIds, LockFields
  <2>2. QED
    BY <1>1, <2>1, GotoKeeps DEF WorkerStop, Steps, ClientSteps, WorkerSteps, Arming
<1>2. CASE WorkerStopped(t)
  <2>1. DataOK' /\ OwnIds(t)
    <3>1. lock' \in LockFields
      BY <1>2 DEF TypeInv, DataOK, WorkerStopped, LockFields
    <3>2. dev' \in DeviceFields /\ preset' \in PresetFields
      BY <1>2, RestoreTyped DEF TypeInv, DataOK, WorkerStopped
    <3>3. QED
      BY <1>2, <3>1, <3>2 DEF TypeInv, DataOK, WorkerStopped, OwnIds
  <2>2. QED
    BY <1>2, <2>1, GotoKeeps DEF WorkerStopped, Steps, ClientSteps, WorkerSteps, Arming
<1>3. CASE WorkerStopFailed(t)
  <2>1. DataOK' /\ OwnIds(t)
    BY <1>3 DEF TypeInv, DataOK, WorkerStopFailed, OwnIds, LockFields, DeviceFields,
       PresetFields
  <2>2. QED
    BY <1>3, <2>1, GotoKeeps DEF WorkerStopFailed, Steps, ClientSteps, WorkerSteps, Arming
<1>4. CASE WorkerReconnect(t)
  <2>1. DataOK' /\ OwnIds(t)
    BY <1>4 DEF TypeInv, DataOK, WorkerReconnect, OwnIds, StateFields
  <2>2. QED
    BY <1>4, <2>1, GotoKeeps DEF WorkerReconnect, Steps, ClientSteps, WorkerSteps, Arming
<1>5. QED
  BY <1>1, <1>2, <1>3, <1>4

------------------------------------------------------------------------------
(* Theorems *)

LEMMA InitTypeInv == Init => TypeInv
<1> SUFFICES ASSUME Init PROVE TypeInv
  OBVIOUS
<1>1. st \in StateFields
  BY IdZero, MaxArmsAssumption, ConnectedAssumption DEF Init, StateFields
<1>2. /\ trig \in TriggerFields /\ hs \in HandshakeFields
      /\ stopRequested \in BOOLEAN /\ cancelRequested \in BOOLEAN
  BY DEF Init, TriggerFields, HandshakeFields
<1> lock \in LockFields
  BY DEF Init, LockFields
<1>3. preset \in PresetFields /\ dev \in DeviceFields
  BY ConnectedAssumption DEF Init, PresetFields, DeviceFields
<1>4. told \in [connection : Int, acquisition : Int] /\ worker \in [Workers -> WorkerFields]
  BY DEF Init, NoWorker, WorkerFields, AcquisitionModes, Selectors
<1>5. loc \in [Threads -> LocalFields]
  BY IdZero DEF Init, NoLocals, LocalFields
<1>6. ControlOK
  BY DEF Init, ControlOK, Steps, ClientSteps, WorkerSteps
<1>7. ArmIdentified
  BY DEF Init, ArmIdentified, Arming
<1>8. QED
  BY <1>1, <1>2, <1>3, <1>4, <1>5, <1>6, <1>7 DEF TypeInv, DataOK

LEMMA NextTypeInv == TypeInv /\ [Next]_vars => TypeInv'
<1> SUFFICES ASSUME TypeInv, [Next]_vars PROVE TypeInv'
  OBVIOUS
<1>1. CASE UNCHANGED vars
  BY <1>1 DEF vars, TypeInv, DataOK, ControlOK, ArmIdentified
<1>2. ASSUME NEW t \in Threads, ClientCall(t) \/ Operation(t) PROVE TypeInv'
  BY <1>2, CallsTyped, RequestTyped, StopTyped, FinishTyped, TriggerTyped, InitTyped,
     CloseTyped, OpenTyped, ClaimTyped, ArmTyped DEF Operation
<1>3. ASSUME NEW w \in Workers, WorkerStep(w) PROVE TypeInv'
  BY <1>3, EnterTyped, ReceiveTyped, DisarmTyped DEF WorkerStep
<1>4. QED
  BY <1>1, <1>2, <1>3 DEF Next

LEMMA TypeInvariant == Spec => []TypeInv
BY InitTypeInv, NextTypeInv, PTL DEF Spec

(***************************************************************************)
(* Every field keeps its type: in particular the request queue of the      *)
(* worker, an unsigned counter, never wraps below zero, and a call only    *)
(* ever returns to a step that follows one.                                *)
(***************************************************************************)
THEOREM TypeCorrect == Spec => []TypeOK
<1>1. TypeInv => TypeOK
  BY DEF TypeInv, DataOK, ControlOK, TypeOK
<1>2. QED
  BY <1>1, TypeInvariant, PTL

------------------------------------------------------------------------------
(* The request queue *)

(* The actions that change the queue or the request in flight. *)
ChangesQueue(t) ==
  \/ RequestNotify(t) \/ StopSignal(t) \/ FinishTrigger(t) \/ TriggerQueue(t) \/ StartPrearm(t)
  \/ t \in Workers /\ (WorkerTake(t) \/ WorkerAfter(t))

(* The actions that change the cancellation flag. *)
ChangesCancellation(t) == Cancel(t) \/ CloseCancel(t) \/ InitAdmit(t) \/ InitEnd(t)

Framed(t) ==
  /\ ChangesQueue(t) \/ trig' = trig
  /\ ChangesCancellation(t) \/ cancelRequested' = cancelRequested

LEMMA Frame ==
  ASSUME NEW t \in Threads, ClientCall(t) \/ Operation(t) \/ (t \in Workers /\ WorkerStep(t))
  PROVE  Framed(t)
<1> USE DEF Framed, ChangesQueue, ChangesCancellation
<1>1. CASE ClientCall(t) \/ CallbackCall(t) \/ CallbackReturn(t) \/ RequestFlag(t) \/ RequestNotify(t)
  BY <1>1 DEF ClientCall, CallbackCall, CallbackReturn, RequestFlag, RequestNotify
<1>2. CASE \/ StopCheck(t) \/ StopLock(t) \/ StopWait(t) \/ StopSignal(t) \/ StopJoin(t)
           \/ StopUnlock(t)
  BY <1>2 DEF StopCheck, StopLock, StopWait, StopSignal, StopJoin, StopUnlock
<1>3. CASE \/ FinishState(t) \/ FinishTrigger(t) \/ FinishTell(t) \/ FinishEnd(t)
           \/ TriggerCheck(t) \/ TriggerQueue(t) \/ Feature(t)
  BY <1>3 DEF FinishState, FinishTrigger, FinishTell, FinishEnd, TriggerCheck, TriggerQueue, Feature
<1>4. CASE \/ Cancel(t) \/ InitAdmit(t) \/ InitCommand(t) \/ InitPoll(t) \/ InitEnd(t)
  BY <1>4 DEF Cancel, InitAdmit, InitCommand, InitPoll, InitEnd
<1>5. CASE \/ CloseLock(t) \/ CloseCancel(t) \/ CloseClaim(t) \/ CloseWait(t) \/ CloseTake(t)
           \/ CloseRelease(t) \/ CloseEnd(t) \/ LifecycleUnlock(t)
  BY <1>5 DEF CloseLock, CloseCancel, CloseClaim, CloseWait, CloseTake, CloseRelease, CloseEnd,
     LifecycleUnlock
<1>6. CASE OpenLock(t) \/ OpenHandles(t) \/ OpenPublish(t) \/ OpenRead(t) \/ OpenCheck(t)
  BY <1>6 DEF OpenLock, OpenHandles, OpenPublish, OpenRead, OpenCheck
<1>7. CASE \/ StartLock(t) \/ StartCheck(t) \/ StartRejected(t) \/ StartInvalid(t)
           \/ StartPrearm(t) \/ StartReset(t) \/ StartSpawn(t) \/ StartSpawnFailed(t)
  BY <1>7 DEF StartLock, StartCheck, StartRejected, StartInvalid, StartPrearm, StartReset,
     StartSpawn, StartSpawnFailed
<1>8. CASE \/ StartPublish(t) \/ StartAwait(t) \/ StartFail(t) \/ StartJoin(t) \/ StartCommit(t)
           \/ StartTell(t) \/ StartTold(t) \/ StartRelease(t) \/ StartUnlock(t)
  BY <1>8 DEF StartPublish, StartAwait, StartFail, StartJoin, StartCommit, StartTell, StartTold,
     StartRelease, StartUnlock
<1>9. CASE t \in Workers /\ WorkerStep(t)
  <2>1. CASE \/ WorkerEnter(t) \/ WorkerSetup(t) \/ WorkerConfigured(t) \/ WorkerConfigureFailed(t)
             \/ WorkerReport(t) \/ WorkerQuit(t) \/ WorkerHold(t) \/ WorkerLoop(t)
    BY <2>1 DEF WorkerEnter, WorkerSetup, WorkerConfigured, WorkerConfigureFailed, WorkerReport,
       WorkerQuit, WorkerHold, WorkerLoop
  <2>2. CASE \/ WorkerTake(t) \/ WorkerReceive(t) \/ WorkerSdk(t) \/ WorkerFrame(t)
             \/ WorkerBufferError(t) \/ WorkerTimeout(t) \/ WorkerDiagnose(t)
    BY <1>9, <2>2 DEF WorkerTake, WorkerReceive, WorkerSdk, WorkerFrame, WorkerBufferError,
       WorkerTimeout, WorkerDiagnose
  <2>3. CASE \/ WorkerAfter(t) \/ WorkerDeliver(t) \/ WorkerDelivered(t) \/ WorkerStop(t)
             \/ WorkerStopped(t) \/ WorkerStopFailed(t) \/ WorkerReconnect(t)
    BY <1>9, <2>3 DEF WorkerAfter, WorkerDeliver, WorkerDelivered, WorkerStop, WorkerStopped,
       WorkerStopFailed, WorkerReconnect
  <2>4. QED
    BY <1>9, <2>1, <2>2, <2>3 DEF WorkerStep
<1>10. QED
  BY <1>1, <1>2, <1>3, <1>4, <1>5, <1>6, <1>7, <1>8, <1>9 DEF Operation

(* A step is framed by the thread that takes it, or changes nothing. *)
LEMMA StepFramed ==
  ASSUME [Next]_vars
  PROVE  (\E t \in Threads : Framed(t)) \/ UNCHANGED vars
BY Frame, WorkerIds DEF Next

(* The queue is emptied, filled when it is free, or moved to the request in flight. *)
LEMMA QueueStep ==
  ASSUME trig \in TriggerFields, OneRequestInFlight, NEW t \in Threads, ChangesQueue(t)
  PROVE  OneRequestInFlight'
<1>1. CASE RequestNotify(t) \/ StopSignal(t)
  BY <1>1 DEF RequestNotify, StopSignal, OneRequestInFlight, TriggerFields
<1>2. CASE FinishTrigger(t) \/ StartPrearm(t)
  BY <1>2 DEF FinishTrigger, StartPrearm, OneRequestInFlight
<1>3. CASE TriggerQueue(t)
  BY <1>3 DEF TriggerQueue, TriggerQueued, OneRequestInFlight, TriggerFields
<1>4. CASE t \in Workers /\ WorkerTake(t)
  BY <1>4 DEF WorkerTake, QueueOnStop, OneRequestInFlight, TriggerFields
<1>5. CASE t \in Workers /\ WorkerAfter(t)
  BY <1>5 DEF WorkerAfter, OneRequestInFlight, TriggerFields
<1>6. QED
  BY <1>1, <1>2, <1>3, <1>4, <1>5 DEF ChangesQueue

(***************************************************************************)
(* However many threads and callbacks call triggerSoftware, one request at *)
(* most is queued or waits for its frame.                                  *)
(***************************************************************************)
THEOREM RequestsSerialized == Spec => []OneRequestInFlight
<1>1. Init => OneRequestInFlight
  BY DEF Init, OneRequestInFlight
<1>2. TypeInv /\ OneRequestInFlight /\ [Next]_vars => OneRequestInFlight'
  <2> SUFFICES ASSUME TypeInv, OneRequestInFlight, [Next]_vars PROVE OneRequestInFlight'
    OBVIOUS
  <2>1. CASE trig' = trig
    BY <2>1 DEF OneRequestInFlight
  <2>2. ASSUME NEW t \in Threads, ChangesQueue(t) PROVE OneRequestInFlight'
    BY <2>2, QueueStep DEF TypeInv, DataOK
  <2>3. CASE UNCHANGED vars
    BY <2>1, <2>3 DEF vars
  <2>4. QED
    BY <2>1, <2>2, <2>3, StepFramed DEF Framed
<1>3. QED
  BY <1>1, <1>2, TypeInvariant, PTL DEF Spec

------------------------------------------------------------------------------
(* Cancellation *)

(***************************************************************************)
(* A requested cancellation of a running initialization is cleared only by *)
(* the end of that initialization, never by another request.               *)
(***************************************************************************)
THEOREM CancellationIsKept == Spec => CancellationKept
<1> DEFINE Kept == cancelRequested /\ st.initializing # NoThread
                     /\ st'.initializing = st.initializing => cancelRequested'
<1>1. TypeInv /\ [Next]_vars => [Kept]_vars
  <2> SUFFICES ASSUME TypeInv, [Next]_vars PROVE Kept \/ UNCHANGED vars
    OBVIOUS
  <2>1. ASSUME NEW t \in Threads, ChangesCancellation(t) PROVE Kept
    <3>1. CASE Cancel(t) \/ CloseCancel(t)
      BY <3>1 DEF Cancel, CloseCancel
    <3>2. CASE InitAdmit(t)
      BY <3>2 DEF InitAdmit, InitAdmitted, CancellationAfterRequest
    <3>3. CASE InitEnd(t)
      BY <3>3 DEF InitEnd, TypeInv, DataOK, StateFields
    <3>4. QED
      BY <2>1, <3>1, <3>2, <3>3 DEF ChangesCancellation
  <2>2. CASE cancelRequested' = cancelRequested
    BY <2>2
  <2>3. QED
    BY <2>1, <2>2, StepFramed DEF Framed
<1>2. QED
  BY <1>1, TypeInvariant, PTL DEF Spec, CancellationKept

------------------------------------------------------------------------------
(***************************************************************************)
(* Where a thread of C4Device can be, and which mutexes it then holds.     *)
(*                                                                         *)
(* Chained says that every step of a thread runs inside the call it will   *)
(* return to, down to the step its thread was created with.  LocksHeld     *)
(* says that a thread owns a mutex exactly while it is between the lock    *)
(* and the unlock of it, however deep in calls and callbacks, and that the *)
(* recursive connection mutex counts these sections.  Together they are    *)
(* inductive, and every proof about two threads starts from them: a thread *)
(* at a step of a locked section is the only one there.                    *)
(***************************************************************************)

(* The steps each call can be at before it returns. *)
RequestSteps == {"request_flag", "request_notify"}
FinishSteps == {"finish_state", "finish_trigger", "finish_tell", "finish_end"}
StopSteps == RequestSteps \cup
  {"stop_check", "stop_lock", "stop_wait", "stop_signal", "stop_join", "stop_unlock"}
CloseSteps ==
  {"close_lock", "close_cancel", "close_claim", "close_wait", "close_take", "close_release",
   "close_end", "lifecycle_unlock"}
CallbackSteps == {"callback", "callback_return"}

(* The steps a thread is at when nothing called it. *)
ClientBase == ClientSteps \ (FinishSteps \cup CallbackSteps)
WorkerBase == WorkerSteps \cup FinishSteps

Base(t) == IF t \in Workers THEN WorkerBase ELSE ClientBase

(* The steps of what was called with a return to r. *)
Body(r) ==
  CASE r = "callback_return" -> ClientBase \ {"idle"}
    [] r = "open_handles" -> CloseSteps
    [] r \in {"close_take", "start_check"} -> StopSteps
    [] r \in {"lifecycle_unlock", "stop_wait"} -> RequestSteps
    [] r = "stop_unlock" -> FinishSteps
    [] r \in {"open_check", "close_end", "start_told", "finish_end", "delivered"} -> CallbackSteps

Inside(t, i) == IF i \in DOMAIN stack[t] THEN Body(stack[t][i]) ELSE Base(t)

Chained(t) ==
  /\ pc[t] \in Inside(t, 1)
  /\ \A i \in DOMAIN stack[t] : stack[t][i] \in Inside(t, i + 1)

(* From the lock to the unlock of _acquisitionArmMutex, _acquisitionStopMutex *)
(* and _connectionLifecycleMutex.                                             *)
ArmSteps ==
  {"start_check", "start_prearm", "start_reset", "start_spawn", "start_publish", "start_await",
   "start_fail", "start_join", "start_commit", "start_tell", "start_told", "start_release",
   "start_unlock"}
TearSteps == {"stop_wait", "stop_signal", "stop_join", "stop_unlock"}
LifeSteps ==
  {"close_cancel", "close_claim", "close_wait", "close_take", "close_release", "close_end",
   "lifecycle_unlock", "open_handles", "open_publish", "open_read", "open_check"}

One(b) == IF b THEN 1 ELSE 0

(* How many of the returns of s, and of the positions of t, are in S. *)
Frames(s, S) == Cardinality({i \in DOMAIN s : s[i] \in S})
Count(t, S) == Frames(stack[t], S) + One(pc[t] \in S)

LocksHeld ==
  /\ \A t \in Threads : Count(t, ArmSteps) = One(lock.arm = t)
  /\ \A t \in Threads : Count(t, TearSteps) = One(lock.stop = t)
  /\ \A t \in Threads : Count(t, LifeSteps) = IF lock.lifecycle = t THEN lock.depth ELSE 0
  /\ lock.lifecycle = NoThread <=> lock.depth = 0

(* A worker that was not spawned has taken no step. *)
NewWorkers ==
  /\ \A w \in Workers : w >= st.nextId => pc[w] = "none"
  /\ \A t \in Threads : pc[t] \in {"start_reset", "start_spawn"} =>
       loc[t].id < st.nextId /\ pc[loc[t].id] = "none"

Control == (\A t \in Threads : Chained(t)) /\ LocksHeld /\ NewWorkers

------------------------------------------------------------------------------
(* Counting returns *)

LEMMA FramesFinite ==
  ASSUME NEW R, NEW s \in Seq(R), NEW S
  PROVE  /\ IsFiniteSet({i \in DOMAIN s : s[i] \in S})
         /\ Frames(s, S) \in Nat
<1>1. Len(s) \in Nat /\ DOMAIN s = 1..Len(s)
  OBVIOUS
<1>2. IsFiniteSet(DOMAIN s)
  BY <1>1, FS_Interval
<1>3. {i \in DOMAIN s : s[i] \in S} \in SUBSET DOMAIN s
  OBVIOUS
<1>4. IsFiniteSet({i \in DOMAIN s : s[i] \in S})
  BY <1>2, <1>3, FS_Subset
<1>5. QED
  BY <1>4, FS_CardinalityType DEF Frames

LEMMA FramesEmpty ==
  ASSUME NEW S
  PROVE  Frames(<<>>, S) = 0
<1>1. {i \in DOMAIN <<>> : <<>>[i] \in S} = {}
  OBVIOUS
<1>2. QED
  BY <1>1, FS_EmptySet DEF Frames

LEMMA FramesNone ==
  ASSUME NEW R, NEW s \in Seq(R), NEW S
  PROVE  Frames(s, S) = 0 <=> \A i \in DOMAIN s : s[i] \notin S
<1> DEFINE A == {i \in DOMAIN s : s[i] \in S}
<1>1. IsFiniteSet(A)
  BY FramesFinite
<1>2. Cardinality(A) = 0 <=> A = {}
  BY <1>1, FS_EmptySet
<1>3. QED
  BY <1>2 DEF Frames

(* A pushed return counts if it is in the set. *)
LEMMA FramesPush ==
  ASSUME NEW R, NEW s \in Seq(R), NEW x \in R, NEW S
  PROVE  Frames(<<x>> \o s, S) = Frames(s, S) + One(x \in S)
<1> DEFINE r == <<x>> \o s
           A == {i \in DOMAIN s : s[i] \in S}
           B == {i \in DOMAIN r : r[i] \in S}
           C == B \ {1}
           f == [i \in A |-> i + 1]
<1>1. /\ r \in Seq(R) /\ Len(r) = Len(s) + 1 /\ Len(s) \in Nat /\ r[1] = x
      /\ DOMAIN s = 1..Len(s) /\ DOMAIN r = 1..(Len(s) + 1)
      /\ \A i \in 1..Len(s) : r[i + 1] = s[i]
  OBVIOUS
<1>2. IsFiniteSet(A) /\ IsFiniteSet(B)
  BY <1>1, FramesFinite
<1> HIDE DEF r
<1>3. f \in Bijection(A, C)
  <2>1. f \in [A -> C]
    BY <1>1
  <2>2. \A i, j \in A : f[i] = f[j] => i = j
    BY <1>1
  <2>3. \A j \in C : \E i \in A : f[i] = j
    <3> SUFFICES ASSUME NEW j \in C PROVE \E i \in A : f[i] = j
      OBVIOUS
    <3>1. j - 1 \in A
      BY <1>1
    <3>2. QED
      BY <1>1, <3>1
  <2> HIDE DEF A, C, f
  <2>4. QED
    BY <2>1, <2>2, <2>3 DEF Bijection, Injection, IsInjective, Surjection
<1>4. Cardinality(C) = Cardinality(A)
  BY <1>2, <1>3, FS_Bijection DEF ExistsBijection
<1>5. Cardinality(C) = IF 1 \in B THEN Cardinality(B) - 1 ELSE Cardinality(B)
  BY <1>2, FS_RemoveElement
<1>6. 1 \in B <=> x \in S
  <2>1. 1 \in 1..(Len(s) + 1)
    BY <1>1
  <2>2. QED
    BY <1>1, <2>1
<1>7. Cardinality(A) \in Nat /\ Cardinality(B) \in Nat
  BY <1>2, FS_CardinalityType
<1>8. Cardinality(B) = Cardinality(A) + One(x \in S)
  BY <1>4, <1>5, <1>6, <1>7 DEF One
<1>9. QED
  BY <1>8 DEF Frames, r

LEMMA FramesPop ==
  ASSUME NEW R, NEW s \in Seq(R), s # <<>>, NEW S
  PROVE  Frames(s, S) = Frames(Tail(s), S) + One(Head(s) \in S)
<1>1. s = <<Head(s)>> \o Tail(s) /\ Tail(s) \in Seq(R) /\ Head(s) \in R
  OBVIOUS
<1>2. QED
  BY <1>1, FramesPush

------------------------------------------------------------------------------
(* Counting the positions of a thread *)

LEMMA CountTyped ==
  ASSUME ControlOK, NEW t \in Threads, NEW S
  PROVE  /\ stack[t] \in Seq(Returns) /\ Frames(stack[t], S) \in Nat /\ Count(t, S) \in Nat
         /\ Count(t, S) = 0 <=> pc[t] \notin S /\ \A i \in DOMAIN stack[t] : stack[t][i] \notin S
<1>1. stack[t] \in Seq(Returns)
  BY DEF ControlOK
<1>2. Frames(stack[t], S) \in Nat
  BY <1>1, FramesFinite
<1>3. Frames(stack[t], S) = 0 <=> \A i \in DOMAIN stack[t] : stack[t][i] \notin S
  BY <1>1, FramesNone
<1>4. QED
  BY <1>1, <1>2, <1>3 DEF Count, One

LEMMA GotoCount ==
  ASSUME ControlOK, NEW t \in Threads, stack'[t] = stack[t], NEW S
  PROVE  Count(t, S)' = Count(t, S) - One(pc[t] \in S) + One(pc'[t] \in S)
BY CountTyped DEF Count, One

LEMMA CallCount ==
  ASSUME ControlOK, NEW t \in Threads, NEW next \in Returns,
         stack'[t] = <<next>> \o stack[t], NEW S
  PROVE  Count(t, S)' = Count(t, S) - One(pc[t] \in S) + One(pc'[t] \in S) + One(next \in S)
<1>1. stack[t] \in Seq(Returns) /\ Frames(stack[t], S) \in Nat
  BY CountTyped
<1>2. Frames(stack[t], S)' = Frames(stack[t], S) + One(next \in S)
  BY <1>1, FramesPush
<1>3. QED
  BY <1>1, <1>2 DEF Count, One

(* What a thread returns to was counted, unless it is where its thread began. *)
LEMMA ReturnCount ==
  ASSUME ControlOK, NEW t \in Threads, pc'[t] = Caller(t), stack'[t] = Callers(t), NEW S,
         "idle" \notin S, "exited" \notin S
  PROVE  Count(t, S)' = Count(t, S) - One(pc[t] \in S)
<1>1. stack[t] \in Seq(Returns) /\ Frames(stack[t], S) \in Nat
  BY CountTyped
<1>2. CASE stack[t] = <<>>
  <2>1. stack'[t] = <<>> /\ pc'[t] \in {"idle", "exited"}
    BY <1>2 DEF Caller, Callers
  <2>2. QED
    BY <1>1, <1>2, <2>1 DEF Count, One
<1>3. CASE stack[t] # <<>>
  <2>1. stack'[t] = Tail(stack[t]) /\ pc'[t] = Head(stack[t])
    BY <1>3 DEF Caller, Callers
  <2>2. Frames(stack[t], S) = Frames(Tail(stack[t]), S) + One(Head(stack[t]) \in S)
    BY <1>1, <1>3, FramesPop
  <2>3. Tail(stack[t]) \in Seq(Returns)
    BY <1>1, <1>3
  <2>4. Frames(Tail(stack[t]), S) \in Nat
    BY <2>3, FramesFinite
  <2>5. QED
    BY <1>1, <2>1, <2>2, <2>4 DEF Count, One
<1>4. QED
  BY <1>2, <1>3

------------------------------------------------------------------------------
(* Moves of one thread *)

(* A thread that runs inside a call at p still does at q. *)
Follows(p, q) ==
  /\ \A r \in Returns : p \in Body(r) => q \in Body(r)
  /\ p \in ClientBase => q \in ClientBase
  /\ p \in WorkerBase => q \in WorkerBase

SameSections(p, q) ==
  /\ p \in ArmSteps <=> q \in ArmSteps
  /\ p \in TearSteps <=> q \in TearSteps
  /\ p \in LifeSteps <=> q \in LifeSteps

Unlocked(p) == p \notin ArmSteps \cup TearSteps \cup LifeSteps

NewSteps == {"start_reset", "start_spawn"}

(* The other threads: a notification may wake a blocked worker. *)
Bystander(u) ==
  /\ stack'[u] = stack[u]
  /\ pc'[u] = pc[u] \/ (pc[u] = "blocked" /\ pc'[u] = "take")

Aside(t) ==
  /\ \A u \in Threads : u # t => Bystander(u)
  /\ OwnIds(t)
  /\ st'.nextId = st.nextId

SameOwners ==
  /\ lock'.arm = lock.arm /\ lock'.stop = lock.stop
  /\ lock'.lifecycle = lock.lifecycle /\ lock'.depth = lock.depth

LEMMA BystanderChained ==
  ASSUME ControlOK, NEW u \in Threads, Chained(u), Bystander(u)
  PROVE  Chained(u)' /\ \A S \in {ArmSteps, TearSteps, LifeSteps} : Count(u, S)' = Count(u, S)
<1>1. /\ \A r \in Returns : "blocked" \notin Body(r)
      /\ "blocked" \notin ClientBase /\ "take" \in WorkerBase
  BY DEF Body, ClientBase, WorkerBase, ClientSteps, WorkerSteps, StopSteps, RequestSteps,
     CloseSteps, FinishSteps, CallbackSteps, Returns
<1>2. Chained(u)'
  <2>1. pc[u] = "blocked" => 1 \notin DOMAIN stack[u]
    BY <1>1 DEF ControlOK, Chained, Inside
  <2>2. pc'[u] \in Inside(u, 1)
    BY <1>1, <2>1 DEF Bystander, Chained, Inside, Base
  <2>3. \A i : Inside(u, i)' = Inside(u, i)
    BY DEF Bystander, Inside, Base
  <2>4. QED
    BY <2>2, <2>3 DEF Bystander, Chained
<1>3. ASSUME NEW S \in {ArmSteps, TearSteps, LifeSteps} PROVE Count(u, S)' = Count(u, S)
  <2>1. "blocked" \notin S /\ "take" \notin S
    BY DEF ArmSteps, TearSteps, LifeSteps
  <2>2. Count(u, S) \in Nat
    BY CountTyped
  <2>3. QED
    BY <2>1, <2>2, GotoCount DEF Bystander, One
<1>4. QED
  BY <1>2, <1>3

LEMMA GotoChained ==
  ASSUME NEW t \in Threads, Chained(t), ControlOK,
         stack'[t] = stack[t], Follows(pc[t], pc'[t])
  PROVE  Chained(t)'
<1>1. \A i : Inside(t, i)' = Inside(t, i)
  BY DEF Inside, Base
<1>2. pc'[t] \in Inside(t, 1)
  BY DEF Chained, Inside, Base, Follows, ControlOK
<1>3. QED
  BY <1>1, <1>2 DEF Chained

LEMMA CallChained ==
  ASSUME NEW t \in Threads, Chained(t), ControlOK, NEW next \in Returns,
         stack'[t] = <<next>> \o stack[t], Follows(pc[t], next), pc'[t] \in Body(next)
  PROVE  Chained(t)'
<1> DEFINE s == stack[t]
           r == <<next>> \o s
<1>1. /\ s \in Seq(Returns) /\ Len(s) \in Nat /\ DOMAIN s = 1..Len(s)
  BY DEF ControlOK
<1>2. /\ DOMAIN r = 1..(Len(s) + 1) /\ r[1] = next
      /\ \A i \in 1..Len(s) : r[i + 1] = s[i]
  BY <1>1
<1> HIDE DEF r
<1>3. \A i \in Nat \ {0} : Inside(t, i + 1)' = Inside(t, i)
  <2> SUFFICES ASSUME NEW i \in Nat \ {0} PROVE Inside(t, i + 1)' = Inside(t, i)
    OBVIOUS
  <2>1. i \in DOMAIN s <=> i + 1 \in DOMAIN r
    BY <1>1, <1>2
  <2>2. i \in DOMAIN s => r[i + 1] = s[i]
    BY <1>1, <1>2
  <2>3. stack'[t] = r
    BY DEF r
  <2>4. QED
    BY <2>1, <2>2, <2>3 DEF Inside, Base
<1>4. Inside(t, 1)' = Body(next)
  <2>1. stack'[t] = r /\ 1 \in DOMAIN r
    BY <1>1, <1>2 DEF r
  <2>2. QED
    BY <1>2, <2>1 DEF Inside
<1>5. next \in Inside(t, 1)
  BY DEF Chained, Inside, Base, Follows, ControlOK
<1>6. ASSUME NEW i \in DOMAIN r PROVE r[i] \in Inside(t, i + 1)'
  <2>1. i \in Nat \ {0}
    BY <1>1, <1>2
  <2>0. Inside(t, i + 1)' = Inside(t, i)
    BY <1>3, <2>1
  <2>2. CASE i = 1
    BY <1>2, <1>5, <2>0, <2>2
  <2>3. CASE i # 1
    <3>1. i - 1 \in DOMAIN s /\ r[i] = s[i - 1] /\ (i - 1) + 1 = i
      BY <1>1, <1>2, <2>3
    <3>2. s[i - 1] \in Inside(t, i)
      BY <3>1 DEF Chained
    <3>3. QED
      BY <2>0, <3>1, <3>2
  <2>4. QED
    BY <2>2, <2>3
<1>7. stack'[t] = r
  BY DEF r
<1>8. QED
  BY <1>4, <1>6, <1>7 DEF Chained

(* What is left of a chain after a return is a chain. *)
LEMMA ReturnChained ==
  ASSUME NEW t \in Threads, Chained(t), ControlOK,
         pc'[t] = Caller(t), stack'[t] = Callers(t)
  PROVE  Chained(t)'
<1> DEFINE s == stack[t]
           r == Tail(s)
<1>1. s \in Seq(Returns) /\ Len(s) \in Nat /\ DOMAIN s = 1..Len(s)
  BY DEF ControlOK
<1>2. CASE s = <<>>
  <2>1. stack'[t] = <<>> /\ pc'[t] \in Base(t)
    BY <1>2 DEF Caller, Callers, Base, WorkerBase, ClientBase, WorkerSteps, ClientSteps,
       FinishSteps, CallbackSteps
  <2>2. QED
    BY <2>1 DEF Chained, Inside, Base
<1>3. CASE s # <<>>
  <2>1. /\ DOMAIN r = 1..(Len(s) - 1) /\ 1 \in DOMAIN s /\ Head(s) = s[1]
        /\ \A i \in DOMAIN r : r[i] = s[i + 1]
    BY <1>1, <1>3
  <2>2. stack'[t] = r /\ pc'[t] = s[1]
    BY <1>3, <2>1 DEF Caller, Callers
  <2> HIDE DEF r
  <2>3. \A i \in Nat \ {0} : Inside(t, i)' = Inside(t, i + 1)
    <3> SUFFICES ASSUME NEW i \in Nat \ {0} PROVE Inside(t, i)' = Inside(t, i + 1)
      OBVIOUS
    <3>1. i \in DOMAIN r <=> i + 1 \in DOMAIN s
      BY <1>1, <2>1
    <3>2. QED
      BY <2>1, <2>2, <3>1 DEF Inside, Base
  <2>4. s[1] \in Inside(t, 1)'
    BY <2>1, <2>3 DEF Chained
  <2>5. ASSUME NEW i \in DOMAIN r PROVE r[i] \in Inside(t, i + 1)'
    <3>1. i + 1 \in DOMAIN s /\ r[i] = s[i + 1] /\ i + 1 \in Nat \ {0}
      BY <1>1, <2>1
    <3>2. s[i + 1] \in Inside(t, (i + 1) + 1)
      BY <3>1 DEF Chained
    <3>3. QED
      BY <2>3, <3>1, <3>2
  <2>6. QED
    BY <2>2, <2>4, <2>5 DEF Chained
<1>4. QED
  BY <1>2, <1>3

(* The sections of no thread change hands. *)
LEMMA SameLocks ==
  ASSUME LocksHeld, NEW t \in Threads, ControlOK, SameOwners, Aside(t),
         \A u \in Threads : Chained(u),
         \A S \in {ArmSteps, TearSteps, LifeSteps} : Count(t, S)' = Count(t, S)
  PROVE  LocksHeld'
<1>1. \A u \in Threads : u # t =>
        \A S \in {ArmSteps, TearSteps, LifeSteps} : Count(u, S)' = Count(u, S)
  BY BystanderChained DEF Aside
<1>2. \A u \in Threads : \A S \in {ArmSteps, TearSteps, LifeSteps} : Count(u, S)' = Count(u, S)
  BY <1>1
<1>3. \A u \in Threads : /\ Count(u, ArmSteps)' = Count(u, ArmSteps)
                          /\ Count(u, TearSteps)' = Count(u, TearSteps)
                          /\ Count(u, LifeSteps)' = Count(u, LifeSteps)
  BY <1>2
<1>4. QED
  BY <1>3 DEF LocksHeld, SameOwners

LEMMA SameNewWorkers ==
  ASSUME NewWorkers, TypeInv, NEW t \in Threads, Aside(t), pc[t] # "none",
         pc'[t] \notin NewSteps
  PROVE  NewWorkers'
<1>1. \A u \in Threads : pc[u] = "none" => pc'[u] = "none"
  BY DEF Aside, Bystander
<1>2. ASSUME NEW w \in Workers, w >= st'.nextId PROVE pc'[w] = "none"
  <2>1. w \in Threads /\ w >= st.nextId
    BY <1>2, WorkerIds DEF Aside
  <2>2. QED
    BY <1>1, <2>1 DEF NewWorkers
<1>3. ASSUME NEW u \in Threads, pc'[u] \in NewSteps
      PROVE  loc'[u].id < st'.nextId /\ pc'[loc'[u].id] = "none"
  <2>1. u # t /\ pc[u] \in NewSteps /\ loc'[u].id = loc[u].id
    BY <1>3 DEF Aside, Bystander, OwnIds, NewSteps
  <2>2. loc[u].id < st.nextId /\ pc[loc[u].id] = "none" /\ loc[u].id \in Workers
    BY <2>1 DEF NewWorkers, NewSteps, TypeInv, ArmIdentified, Arming
  <2>3. QED
    BY <1>1, <2>1, <2>2, WorkerIds DEF Aside
<1>4. QED
  BY <1>2, <1>3 DEF NewWorkers, NewSteps

LEMMA ChainsKept ==
  ASSUME TypeInv, NEW t \in Threads, \A u \in Threads : Chained(u), Aside(t), Chained(t)'
  PROVE  \A u \in Threads : Chained(u)'
<1>1. \A u \in Threads : u # t => Chained(u)'
  BY BystanderChained DEF Aside, TypeInv
<1>2. QED
  BY <1>1

(* A move within the same locked sections. *)
LEMMA GotoControl ==
  ASSUME TypeInv, Control, NEW t \in Threads, NEW q, pc'[t] = q, stack'[t] = stack[t],
         Follows(pc[t], q), SameSections(pc[t], q), Aside(t), SameOwners,
         pc[t] # "none", q \notin NewSteps
  PROVE  Control'
<1>1. Chained(t)'
  BY GotoChained DEF Control, TypeInv
<1>2. ASSUME NEW S \in {ArmSteps, TearSteps, LifeSteps} PROVE Count(t, S)' = Count(t, S)
  <2>1. pc[t] \in S <=> pc'[t] \in S
    BY DEF SameSections
  <2>2. Count(t, S) \in Nat
    BY CountTyped DEF TypeInv
  <2>3. QED
    BY <2>1, <2>2, GotoCount DEF TypeInv, One
<1>3. LocksHeld'
  BY <1>2, SameLocks DEF Control, TypeInv
<1>4. QED
  BY <1>1, <1>3, ChainsKept, SameNewWorkers DEF Control

(* A call inside the sections of its caller. *)
LEMMA CallControl ==
  ASSUME TypeInv, Control, NEW t \in Threads, NEW q, NEW r \in Returns,
         pc'[t] = q, stack'[t] = <<r>> \o stack[t], q \in Body(r), Unlocked(q),
         Follows(pc[t], r), SameSections(pc[t], r), Aside(t), SameOwners, pc[t] # "none"
  PROVE  Control'
<1>1. Chained(t)'
  BY CallChained DEF Control, TypeInv
<1>2. ASSUME NEW S \in {ArmSteps, TearSteps, LifeSteps} PROVE Count(t, S)' = Count(t, S)
  <2>1. (pc[t] \in S <=> r \in S) /\ q \notin S
    BY DEF SameSections, Unlocked
  <2>2. Count(t, S) \in Nat
    BY CountTyped DEF TypeInv
  <2>3. QED
    BY <2>1, <2>2, CallCount DEF TypeInv, One
<1>3. LocksHeld'
  BY <1>2, SameLocks DEF Control, TypeInv
<1>4. q \notin NewSteps
  BY DEF Unlocked, NewSteps, ArmSteps
<1>5. QED
  BY <1>1, <1>3, <1>4, ChainsKept, SameNewWorkers DEF Control

LEMMA CallersStep ==
  ASSUME ControlOK, NEW t \in Threads
  PROVE  Caller(t) \in Returns \cup {"idle", "exited"}
<1>1. stack[t] \in Seq(Returns)
  BY DEF ControlOK
<1>2. CASE stack[t] = <<>>
  BY <1>2 DEF Caller
<1>3. CASE stack[t] # <<>>
  BY <1>1, <1>3 DEF Caller
<1>4. QED
  BY <1>2, <1>3

(* A return from a step outside the locked sections. *)
LEMMA ReturnControl ==
  ASSUME TypeInv, Control, NEW t \in Threads, pc'[t] = Caller(t), stack'[t] = Callers(t),
         Unlocked(pc[t]), Aside(t), SameOwners, pc[t] # "none"
  PROVE  Control'
<1>1. Chained(t)'
  BY ReturnChained DEF Control, TypeInv
<1>2. ASSUME NEW S \in {ArmSteps, TearSteps, LifeSteps} PROVE Count(t, S)' = Count(t, S)
  <2>1. "idle" \notin S /\ "exited" \notin S
    BY DEF ArmSteps, TearSteps, LifeSteps
  <2>2. Count(t, S) \in Nat /\ pc[t] \notin S
    BY CountTyped DEF TypeInv, Unlocked
  <2>3. QED
    BY <2>1, <2>2, ReturnCount DEF TypeInv, One
<1>3. LocksHeld'
  BY <1>2, SameLocks DEF Control, TypeInv
<1>4. Caller(t) \notin NewSteps
  BY CallersStep DEF TypeInv, Returns, NewSteps
<1>5. QED
  BY <1>1, <1>3, <1>4, ChainsKept, SameNewWorkers DEF Control

------------------------------------------------------------------------------
(* The moves of the code *)

Moves(p, q) == Follows(p, q) /\ SameSections(p, q)

(* Steps outside the locked sections that only a thread's own base or callback runs. *)
FreeSteps ==
  {"idle", "open_lock", "close_lock", "init_admit", "init_command", "init_poll", "init_end",
   "cancel", "feature", "trigger_check", "trigger_queue", "start_lock"}

OpenSteps == {"open_handles", "open_publish", "open_read", "open_check"}

LEMMA WorkerMoves == \A p, q \in WorkerSteps : Moves(p, q)
BY DEF Moves, Follows, SameSections, Body, ClientBase, WorkerBase, ClientSteps, WorkerSteps,
   StopSteps, RequestSteps, CloseSteps, FinishSteps, CallbackSteps, Returns, ArmSteps,
   TearSteps, LifeSteps

LEMMA FinishMoves == \A p \in WorkerSteps \cup FinishSteps, q \in FinishSteps : Moves(p, q)
BY DEF Moves, Follows, SameSections, Body, ClientBase, WorkerBase, ClientSteps, WorkerSteps,
   StopSteps, RequestSteps, CloseSteps, FinishSteps, CallbackSteps, Returns, ArmSteps,
   TearSteps, LifeSteps

LEMMA ArmMoves == \A p, q \in ArmSteps : Moves(p, q)
BY DEF Moves, Follows, SameSections, Body, ClientBase, WorkerBase, ClientSteps, WorkerSteps,
   StopSteps, RequestSteps, CloseSteps, FinishSteps, CallbackSteps, Returns, ArmSteps,
   TearSteps, LifeSteps

LEMMA TearMoves == \A p, q \in TearSteps : Moves(p, q)
BY DEF Moves, Follows, SameSections, Body, ClientBase, WorkerBase, ClientSteps, WorkerSteps,
   StopSteps, RequestSteps, CloseSteps, FinishSteps, CallbackSteps, Returns, ArmSteps,
   TearSteps, LifeSteps

(* A request runs wherever a stop does. *)
LEMMA RequestMoves ==
  /\ \A q \in RequestSteps : Moves("request_flag", q) /\ Moves("stop_check", q)
  /\ Moves("stop_check", "stop_lock") /\ Follows("stop_lock", "stop_wait")
BY DEF Moves, Follows, SameSections, Body, ClientBase, WorkerBase, ClientSteps, WorkerSteps,
   StopSteps, RequestSteps, CloseSteps, FinishSteps, CallbackSteps, Returns, ArmSteps,
   TearSteps, LifeSteps

LEMMA LifeMoves ==
  /\ \A p, q \in CloseSteps \ {"close_lock"} : Moves(p, q)
  /\ \A p \in OpenSteps, q \in OpenSteps \cup {"lifecycle_unlock"} : Moves(p, q)
  /\ Follows("close_lock", "close_cancel") /\ Follows("open_lock", "open_handles")
BY DEF Moves, Follows, SameSections, Body, ClientBase, WorkerBase, ClientSteps, WorkerSteps,
   StopSteps, RequestSteps, CloseSteps, FinishSteps, CallbackSteps, Returns, ArmSteps,
   TearSteps, LifeSteps, OpenSteps

LEMMA FreeMoves ==
  /\ \A p \in FreeSteps \ {"close_lock"}, q \in FreeSteps \ {"idle"} : Moves(p, q)
  /\ Moves("callback", "callback_return") /\ Follows("start_lock", "start_check")
BY DEF Moves, Follows, SameSections, Body, ClientBase, WorkerBase, ClientSteps, WorkerSteps,
   StopSteps, RequestSteps, CloseSteps, FinishSteps, CallbackSteps, Returns, ArmSteps,
   TearSteps, LifeSteps, FreeSteps

(* An operation can be called by a client and by a callback. *)
LEMMA EntryMoves ==
  ASSUME NEW op \in Ops
  PROVE  /\ Moves("idle", Entry[op]) /\ Entry[op] \in Body("callback_return")
         /\ Unlocked(Entry[op]) /\ Entry[op] \notin NewSteps
<1>1. Entry[op] \in (FreeSteps \ {"idle"}) \cup {"request_flag", "stop_check"}
  BY DEF Ops, Entry, FreeSteps
<1>2. ASSUME NEW q \in (FreeSteps \ {"idle"}) \cup {"request_flag", "stop_check"}
      PROVE  Moves("idle", q) /\ q \in Body("callback_return") /\ Unlocked(q) /\ q \notin NewSteps
  <2>1. Unlocked(q) /\ q \notin NewSteps
    BY DEF FreeSteps, Unlocked, NewSteps, ArmSteps, TearSteps, LifeSteps
  <2>2. q \in Body("callback_return")
    BY DEF FreeSteps, Body, ClientBase, ClientSteps, FinishSteps, CallbackSteps
  <2>3. Moves("idle", q)
    BY DEF Moves, Follows, SameSections, Body, ClientBase, WorkerBase, ClientSteps, WorkerSteps,
       StopSteps, RequestSteps, CloseSteps, FinishSteps, CallbackSteps, Returns, ArmSteps,
       TearSteps, LifeSteps, FreeSteps
  <2>4. QED
    BY <2>1, <2>2, <2>3
<1>3. QED
  BY <1>1, <1>2

------------------------------------------------------------------------------
(* The forms of control transfer *)

Bystanders(t) == \A u \in Threads : u # t => Bystander(u)

(* No mutex changes hands and no arm gets an identifier. *)
Untouched(t) == OwnIds(t) /\ st'.nextId = st.nextId /\ SameOwners

LEMMA GotoForm ==
  ASSUME ControlOK, NEW t \in Threads, NEW q, Goto(t, q)
  PROVE  pc'[t] = q /\ stack'[t] = stack[t] /\ Bystanders(t)
BY DEF ControlOK, Goto, Bystanders, Bystander

LEMMA CallForm ==
  ASSUME ControlOK, NEW t \in Threads, NEW q, NEW r, Call(t, q, r)
  PROVE  pc'[t] = q /\ stack'[t] = <<r>> \o stack[t] /\ Bystanders(t)
BY DEF ControlOK, Call, Bystanders, Bystander

LEMMA ReturnForm ==
  ASSUME ControlOK, NEW t \in Threads, Return(t)
  PROVE  pc'[t] = Caller(t) /\ stack'[t] = Callers(t) /\ Bystanders(t)
BY DEF ControlOK, Return, Bystanders, Bystander

LEMMA NotifyForm ==
  ASSUME ControlOK, NEW t \in Threads, NEW q, NotifyAndGoto(t, q), stack' = stack
  PROVE  pc'[t] = q /\ stack'[t] = stack[t] /\ Bystanders(t)
BY DEF ControlOK, NotifyAndGoto, Bystanders, Bystander

LEMMA NotifyReturnForm ==
  ASSUME ControlOK, NEW t \in Threads, NotifyAndReturn(t)
  PROVE  pc'[t] = Caller(t) /\ stack'[t] = Callers(t) /\ Bystanders(t)
BY DEF ControlOK, NotifyAndGoto, NotifyAndReturn, Bystanders, Bystander

LEMMA GotoStep ==
  ASSUME TypeInv, Control, NEW t \in Threads, NEW q,
         Goto(t, q) \/ (NotifyAndGoto(t, q) /\ stack' = stack),
         Moves(pc[t], q), Untouched(t), pc[t] # "none", q \notin NewSteps
  PROVE  Control'
<1>1. pc'[t] = q /\ stack'[t] = stack[t] /\ Bystanders(t)
  BY GotoForm, NotifyForm DEF TypeInv
<1>2. QED
  BY <1>1, GotoControl DEF Moves, Untouched, Aside, Bystanders

LEMMA CallStep ==
  ASSUME TypeInv, Control, NEW t \in Threads, NEW q, NEW r \in Returns, Call(t, q, r),
         q \in Body(r), Unlocked(q), Moves(pc[t], r), Untouched(t), pc[t] # "none"
  PROVE  Control'
<1>1. pc'[t] = q /\ stack'[t] = <<r>> \o stack[t] /\ Bystanders(t)
  BY CallForm DEF TypeInv
<1>2. QED
  BY <1>1, CallControl DEF Moves, Untouched, Aside, Bystanders

LEMMA ReturnStep ==
  ASSUME TypeInv, Control, NEW t \in Threads, Return(t) \/ NotifyAndReturn(t),
         Unlocked(pc[t]), Untouched(t), pc[t] # "none"
  PROVE  Control'
<1>1. pc'[t] = Caller(t) /\ stack'[t] = Callers(t) /\ Bystanders(t)
  BY ReturnForm, NotifyReturnForm DEF TypeInv
<1>2. QED
  BY <1>1, ReturnControl DEF Untouched, Aside, Bystanders

LEMMA CallsUntouched ==
  ASSUME TypeInv, NEW t \in Threads,
         ClientCall(t) \/ CallbackCall(t) \/ CallbackReturn(t) \/ RequestFlag(t) \/
         RequestNotify(t) \/ StopCheck(t) \/ StopWait(t) \/ StopSignal(t) \/ StopJoin(t)
  PROVE  Untouched(t)
BY DEF ClientCall, CallbackCall, CallbackReturn, RequestFlag, RequestNotify, StopCheck,
   StopWait, StopSignal, StopJoin, TypeInv, DataOK, StateFields, LockFields, Untouched, OwnIds,
   SameOwners

LEMMA FinishUntouched ==
  ASSUME TypeInv, NEW t \in Threads,
         FinishState(t) \/ FinishTrigger(t) \/ FinishTell(t) \/ FinishEnd(t) \/ TriggerCheck(t) \/
         TriggerQueue(t) \/ Feature(t) \/ Cancel(t) \/ InitAdmit(t) \/ InitCommand(t) \/
         InitPoll(t) \/ InitEnd(t)
  PROVE  Untouched(t)
BY DEF FinishState, FinishTrigger, FinishTell, FinishEnd, TriggerCheck, TriggerQueue, Feature,
   Cancel, InitAdmit, InitCommand, InitPoll, InitEnd, TypeInv, DataOK, StateFields, LockFields,
   Untouched, OwnIds, SameOwners

LEMMA CloseUntouched ==
  ASSUME TypeInv, NEW t \in Threads,
         CloseCancel(t) \/ CloseClaim(t) \/ CloseWait(t) \/ CloseTake(t) \/ CloseRelease(t) \/
         CloseEnd(t) \/ OpenHandles(t) \/ OpenPublish(t) \/ OpenRead(t) \/ OpenCheck(t)
  PROVE  Untouched(t)
BY DEF CloseCancel, CloseClaim, CloseWait, CloseTake, CloseRelease, CloseEnd, OpenHandles,
   OpenPublish, OpenRead, OpenCheck, TypeInv, DataOK, StateFields, LockFields, Untouched,
   OwnIds, SameOwners

LEMMA StartUntouched ==
  ASSUME TypeInv, NEW t \in Threads,
         StartCheck(t) \/ StartRejected(t) \/ StartReset(t) \/ StartSpawn(t) \/
         StartSpawnFailed(t) \/ StartPublish(t) \/ StartAwait(t) \/ StartFail(t) \/
         StartJoin(t) \/ StartCommit(t) \/ StartTell(t) \/ StartTold(t) \/ StartRelease(t)
  PROVE  Untouched(t)
BY DEF StartCheck, StartRejected, StartReset, StartSpawn, StartSpawnFailed, StartPublish,
   StartAwait, StartFail, StartJoin, StartCommit, StartTell, StartTold, StartRelease, TypeInv,
   DataOK, StateFields, LockFields, Untouched, OwnIds, SameOwners

LEMMA EnterUntouched ==
  ASSUME TypeInv, NEW t \in Workers,
         WorkerEnter(t) \/ WorkerSetup(t) \/ WorkerConfigured(t) \/ WorkerConfigureFailed(t) \/
         WorkerReport(t) \/ WorkerQuit(t) \/ WorkerHold(t) \/ WorkerLoop(t) \/ WorkerTake(t) \/
         WorkerReceive(t) \/ WorkerSdk(t)
  PROVE  Untouched(t)
BY DEF WorkerEnter, WorkerSetup, WorkerConfigured, WorkerConfigureFailed, WorkerReport,
   WorkerQuit, WorkerHold, WorkerLoop, WorkerTake, WorkerReceive, WorkerSdk, TypeInv, DataOK,
   StateFields, LockFields, Untouched, OwnIds, SameOwners

LEMMA ReceiveUntouched ==
  ASSUME TypeInv, NEW t \in Workers,
         WorkerFrame(t) \/ WorkerBufferError(t) \/ WorkerTimeout(t) \/ WorkerDiagnose(t) \/
         WorkerAfter(t) \/ WorkerDeliver(t) \/ WorkerDelivered(t) \/ WorkerStop(t) \/
         WorkerStopped(t) \/ WorkerStopFailed(t) \/ WorkerReconnect(t)
  PROVE  Untouched(t)
BY DEF WorkerFrame, WorkerBufferError, WorkerTimeout, WorkerDiagnose, WorkerAfter,
   WorkerDeliver, WorkerDelivered, WorkerStop, WorkerStopped, WorkerStopFailed,
   WorkerReconnect, TypeInv, DataOK, StateFields, LockFields, Untouched, OwnIds, SameOwners

LEMMA CallsControl ==
  ASSUME TypeInv, Control, NEW t \in Threads,
         ClientCall(t) \/ CallbackCall(t) \/ CallbackReturn(t) \/ RequestFlag(t) \/
         RequestNotify(t) \/ StopCheck(t) \/ StopWait(t) \/ StopSignal(t) \/ StopJoin(t)
  PROVE  Control'
<1> Untouched(t)
  BY CallsUntouched
<1>1. CASE ClientCall(t)
  BY <1>1, GotoStep, EntryMoves, OpsAssumption DEF ClientCall
<1>2. CASE CallbackCall(t)
  BY <1>2, CallStep, EntryMoves, FreeMoves, OpsAssumption DEF CallbackCall, Returns
<1>3. CASE CallbackReturn(t)
  BY <1>3, ReturnStep DEF CallbackReturn, Unlocked, ArmSteps, TearSteps, LifeSteps
<1>4. CASE RequestFlag(t)
  BY <1>4, GotoStep, ReturnStep, RequestMoves
     DEF RequestFlag, RequestSteps, NewSteps, Unlocked, ArmSteps, TearSteps, LifeSteps
<1>5. CASE RequestNotify(t)
  BY <1>5, ReturnStep DEF RequestNotify, Unlocked, ArmSteps, TearSteps, LifeSteps
<1>6. CASE StopCheck(t)
  BY <1>6, GotoStep, RequestMoves DEF StopCheck, RequestSteps, NewSteps
<1>7. CASE StopWait(t)
  BY <1>7, GotoStep, TearMoves DEF StopWait, TearSteps, NewSteps
<1>8. CASE StopSignal(t)
  BY <1>8, GotoStep, TearMoves DEF StopSignal, TearSteps, NewSteps
<1>9. CASE StopJoin(t)
  BY <1>9, CallStep, TearMoves
     DEF StopJoin, TearSteps, Returns, Body, FinishSteps, Unlocked, ArmSteps, LifeSteps
<1>10. QED
  BY <1>1, <1>2, <1>3, <1>4, <1>5, <1>6, <1>7, <1>8, <1>9

LEMMA FinishControl ==
  ASSUME TypeInv, Control, NEW t \in Threads,
         FinishState(t) \/ FinishTrigger(t) \/ FinishTell(t) \/ FinishEnd(t) \/ TriggerCheck(t) \/
         TriggerQueue(t) \/ Feature(t) \/ Cancel(t) \/ InitAdmit(t) \/ InitCommand(t) \/
         InitPoll(t) \/ InitEnd(t)
  PROVE  Control'
<1> Untouched(t)
  BY FinishUntouched
<1>1. CASE FinishState(t)
  BY <1>1, GotoStep, FinishMoves DEF FinishState, FinishSteps, NewSteps
<1>2. CASE FinishTrigger(t)
  BY <1>2, GotoStep, FinishMoves DEF FinishTrigger, FinishSteps, NewSteps
<1>3. CASE FinishTell(t)
  BY <1>3, GotoStep, CallStep, FinishMoves
     DEF FinishTell, FinishSteps, NewSteps, Returns, Body, CallbackSteps, Unlocked, ArmSteps,
       TearSteps, LifeSteps
<1>4. CASE FinishEnd(t)
  BY <1>4, ReturnStep DEF FinishEnd, Unlocked, ArmSteps, TearSteps, LifeSteps
<1>5. CASE TriggerCheck(t)
  BY <1>5, GotoStep, ReturnStep, FreeMoves
     DEF TriggerCheck, FreeSteps, NewSteps, Unlocked, ArmSteps, TearSteps, LifeSteps
<1>6. CASE TriggerQueue(t)
  BY <1>6, ReturnStep DEF TriggerQueue, Unlocked, ArmSteps, TearSteps, LifeSteps
<1>7. CASE Feature(t)
  BY <1>7, ReturnStep DEF Feature, Unlocked, ArmSteps, TearSteps, LifeSteps
<1>8. CASE Cancel(t)
  BY <1>8, ReturnStep DEF Cancel, Unlocked, ArmSteps, TearSteps, LifeSteps
<1>9. CASE InitAdmit(t)
  BY <1>9, GotoStep, ReturnStep, FreeMoves
     DEF InitAdmit, FreeSteps, NewSteps, Unlocked, ArmSteps, TearSteps, LifeSteps
<1>10. CASE InitCommand(t)
  BY <1>10, GotoStep, FreeMoves DEF InitCommand, FreeSteps, NewSteps
<1>11. CASE InitPoll(t)
  BY <1>11, GotoStep, FreeMoves DEF InitPoll, FreeSteps, NewSteps
<1>12. CASE InitEnd(t)
  BY <1>12, ReturnStep DEF InitEnd, Unlocked, ArmSteps, TearSteps, LifeSteps
<1>13. QED
  BY <1>1, <1>2, <1>3, <1>4, <1>5, <1>6, <1>7, <1>8, <1>9, <1>10, <1>11, <1>12

LEMMA CloseControl ==
  ASSUME TypeInv, Control, NEW t \in Threads,
         CloseCancel(t) \/ CloseClaim(t) \/ CloseWait(t) \/ CloseTake(t) \/ CloseRelease(t) \/
         CloseEnd(t) \/ OpenHandles(t) \/ OpenPublish(t) \/ OpenRead(t) \/ OpenCheck(t)
  PROVE  Control'
<1> Untouched(t)
  BY CloseUntouched
<1>1. CASE CloseCancel(t)
  BY <1>1, GotoStep, LifeMoves DEF CloseCancel, CloseSteps, NewSteps
<1>2. CASE CloseClaim(t)
  BY <1>2, GotoStep, CallStep, LifeMoves
     DEF CloseClaim, CloseSteps, NewSteps, Returns, Body, RequestSteps, Unlocked, ArmSteps,
       TearSteps, LifeSteps
<1>3. CASE CloseWait(t)
  BY <1>3, CallStep, LifeMoves
     DEF CloseWait, CloseSteps, Returns, Body, StopSteps, Unlocked, ArmSteps, TearSteps, LifeSteps
<1>4. CASE CloseTake(t)
  BY <1>4, GotoStep, LifeMoves DEF CloseTake, CloseSteps, NewSteps
<1>5. CASE CloseRelease(t)
  BY <1>5, GotoStep, CallStep, LifeMoves
     DEF CloseRelease, CloseSteps, NewSteps, Returns, Body, CallbackSteps, Unlocked, ArmSteps,
       TearSteps, LifeSteps
<1>6. CASE CloseEnd(t)
  BY <1>6, GotoStep, LifeMoves DEF CloseEnd, CloseSteps, NewSteps
<1>7. CASE OpenHandles(t)
  BY <1>7, GotoStep, LifeMoves DEF OpenHandles, OpenSteps, NewSteps
<1>8. CASE OpenPublish(t)
  BY <1>8, GotoStep, LifeMoves DEF OpenPublish, OpenSteps, NewSteps
<1>9. CASE OpenRead(t)
  BY <1>9, CallStep, LifeMoves
     DEF OpenRead, OpenSteps, Returns, Body, CallbackSteps, Unlocked, ArmSteps, TearSteps, LifeSteps
<1>10. CASE OpenCheck(t)
  BY <1>10, GotoStep, LifeMoves DEF OpenCheck, OpenSteps, NewSteps
<1>11. QED
  BY <1>1, <1>2, <1>3, <1>4, <1>5, <1>6, <1>7, <1>8, <1>9, <1>10

LEMMA StartControl ==
  ASSUME TypeInv, Control, NEW t \in Threads,
         StartCheck(t) \/ StartRejected(t) \/ StartSpawnFailed(t) \/ StartPublish(t) \/
         StartAwait(t) \/ StartFail(t) \/ StartJoin(t) \/ StartCommit(t) \/ StartTold(t) \/
         StartRelease(t) \/ StartTell(t)
  PROVE  Control'
<1> Untouched(t)
  BY StartUntouched
<1>1. CASE StartCheck(t)
  BY <1>1, GotoStep, ArmMoves DEF StartCheck, ArmSteps, NewSteps
<1>2. CASE StartRejected(t)
  BY <1>2, GotoStep, ArmMoves DEF StartRejected, ArmSteps, NewSteps
<1>3. CASE StartSpawnFailed(t)
  BY <1>3, GotoStep, ArmMoves DEF StartSpawnFailed, ArmSteps, NewSteps
<1>4. CASE StartPublish(t)
  BY <1>4, GotoStep, ArmMoves DEF StartPublish, ArmSteps, NewSteps
<1>5. CASE StartAwait(t)
  BY <1>5, GotoStep, ArmMoves DEF StartAwait, ArmSteps, NewSteps
<1>6. CASE StartFail(t)
  BY <1>6, GotoStep, ArmMoves DEF StartFail, ArmSteps, NewSteps
<1>7. CASE StartJoin(t)
  BY <1>7, GotoStep, ArmMoves DEF StartJoin, ArmSteps, NewSteps
<1>8. CASE StartCommit(t)
  BY <1>8, GotoStep, ArmMoves DEF StartCommit, ArmSteps, NewSteps
<1>9. CASE StartTold(t)
  BY <1>9, GotoStep, ArmMoves DEF StartTold, ArmSteps, NewSteps
<1>10. CASE StartRelease(t)
  BY <1>10, GotoStep, ArmMoves DEF StartRelease, ArmSteps, NewSteps
<1>11. CASE StartTell(t)
  BY <1>11, CallStep, ArmMoves
     DEF StartTell, ArmSteps, Returns, Body, CallbackSteps, Unlocked, TearSteps, LifeSteps
<1>12. QED
  BY <1>1, <1>2, <1>3, <1>4, <1>5, <1>6, <1>7, <1>8, <1>9, <1>10, <1>11

LEMMA EnterControl ==
  ASSUME TypeInv, Control, NEW t \in Workers,
         WorkerEnter(t) \/ WorkerSetup(t) \/ WorkerConfigured(t) \/ WorkerConfigureFailed(t) \/
         WorkerReport(t) \/ WorkerQuit(t) \/ WorkerHold(t) \/ WorkerLoop(t) \/ WorkerTake(t) \/
         WorkerReceive(t) \/ WorkerSdk(t)
  PROVE  Control'
<1> t \in Threads
  BY WorkerIds
<1> Untouched(t)
  BY EnterUntouched
<1>1. CASE WorkerEnter(t)
  BY <1>1, GotoStep, WorkerMoves DEF WorkerEnter, WorkerSteps, NewSteps
<1>2. CASE WorkerSetup(t)
  BY <1>2, GotoStep, WorkerMoves DEF WorkerSetup, WorkerSteps, NewSteps
<1>3. CASE WorkerConfigured(t)
  BY <1>3, GotoStep, WorkerMoves DEF WorkerConfigured, WorkerSteps, NewSteps
<1>4. CASE WorkerConfigureFailed(t)
  BY <1>4, GotoStep, WorkerMoves DEF WorkerConfigureFailed, WorkerSteps, NewSteps
<1>5. CASE WorkerReport(t)
  BY <1>5, GotoStep, WorkerMoves DEF WorkerReport, WorkerSteps, NewSteps
<1>6. CASE WorkerQuit(t)
  BY <1>6, GotoStep, WorkerMoves DEF WorkerQuit, WorkerSteps, NewSteps
<1>7. CASE WorkerHold(t)
  BY <1>7, GotoStep, WorkerMoves DEF WorkerHold, WorkerSteps, NewSteps
<1>8. CASE WorkerLoop(t)
  BY <1>8, GotoStep, WorkerMoves DEF WorkerLoop, WorkerSteps, NewSteps
<1>9. CASE WorkerTake(t)
  BY <1>9, GotoStep, WorkerMoves DEF WorkerTake, WorkerSteps, NewSteps
<1>10. CASE WorkerReceive(t)
  BY <1>10, GotoStep, WorkerMoves DEF WorkerReceive, WorkerSteps, NewSteps
<1>11. CASE WorkerSdk(t)
  BY <1>11, GotoStep, WorkerMoves DEF WorkerSdk, WorkerSteps, NewSteps
<1>12. QED
  BY <1>1, <1>2, <1>3, <1>4, <1>5, <1>6, <1>7, <1>8, <1>9, <1>10, <1>11

LEMMA ReceiveControl ==
  ASSUME TypeInv, Control, NEW t \in Workers,
         WorkerFrame(t) \/ WorkerBufferError(t) \/ WorkerTimeout(t) \/ WorkerDiagnose(t) \/
         WorkerAfter(t) \/ WorkerDelivered(t) \/ WorkerStop(t) \/ WorkerStopFailed(t) \/
         WorkerDeliver(t) \/ WorkerStopped(t) \/ WorkerReconnect(t)
  PROVE  Control'
<1> t \in Threads
  BY WorkerIds
<1> Untouched(t)
  BY ReceiveUntouched
<1>1. CASE WorkerFrame(t)
  BY <1>1, GotoStep, WorkerMoves DEF WorkerFrame, WorkerSteps, NewSteps
<1>2. CASE WorkerBufferError(t)
  BY <1>2, GotoStep, WorkerMoves DEF WorkerBufferError, WorkerSteps, NewSteps
<1>3. CASE WorkerTimeout(t)
  BY <1>3, GotoStep, WorkerMoves DEF WorkerTimeout, AfterTimeout, WorkerSteps, NewSteps
<1>4. CASE WorkerDiagnose(t)
  BY <1>4, GotoStep, WorkerMoves DEF WorkerDiagnose, WorkerSteps, NewSteps
<1>5. CASE WorkerAfter(t)
  BY <1>5, GotoStep, WorkerMoves DEF WorkerAfter, WorkerSteps, NewSteps
<1>6. CASE WorkerDelivered(t)
  BY <1>6, GotoStep, WorkerMoves DEF WorkerDelivered, WorkerSteps, NewSteps
<1>7. CASE WorkerStop(t)
  BY <1>7, GotoStep, WorkerMoves DEF WorkerStop, WorkerSteps, NewSteps
<1>8. CASE WorkerStopFailed(t)
  BY <1>8, GotoStep, WorkerMoves DEF WorkerStopFailed, WorkerSteps, NewSteps
<1>9. CASE WorkerDeliver(t)
  BY <1>9, CallStep, WorkerMoves
     DEF WorkerDeliver, WorkerSteps, Returns, Body, CallbackSteps, Unlocked, ArmSteps, TearSteps,
       LifeSteps
<1>10. CASE WorkerStopped(t)
  BY <1>10, GotoStep, FinishMoves DEF WorkerStopped, WorkerSteps, FinishSteps, NewSteps
<1>11. CASE WorkerReconnect(t)
  BY <1>11, GotoStep, FinishMoves DEF WorkerReconnect, WorkerSteps, FinishSteps, NewSteps
<1>12. QED
  BY <1>1, <1>2, <1>3, <1>4, <1>5, <1>6, <1>7, <1>8, <1>9, <1>10, <1>11

------------------------------------------------------------------------------
(* Locking *)

LEMMA OthersCount ==
  ASSUME TypeInv, Control, NEW t \in Threads, Bystanders(t)
  PROVE  \A u \in Threads : u # t =>
           /\ Count(u, ArmSteps)' = Count(u, ArmSteps)
           /\ Count(u, TearSteps)' = Count(u, TearSteps)
           /\ Count(u, LifeSteps)' = Count(u, LifeSteps)
BY BystanderChained DEF Bystanders, Control, TypeInv

(* A step in a section of a mutex is a step of its owner. *)
LEMMA OwnerAt ==
  ASSUME TypeInv, LocksHeld, NEW t \in Threads
  PROVE  /\ pc[t] \in ArmSteps => lock.arm = t
         /\ pc[t] \in TearSteps => lock.stop = t
         /\ pc[t] \in LifeSteps => lock.lifecycle = t
<1>1. ASSUME NEW S, pc[t] \in S PROVE Count(t, S) # 0
  BY <1>1, CountTyped DEF TypeInv
<1>2. QED
  BY <1>1 DEF LocksHeld, One

(* The connection mutex is taken once more by the thread that may take it. *)
LEMMA LifecycleLocked ==
  ASSUME TypeInv, Control, NEW t \in Threads, Bystanders(t), LifecycleAcquired(t),
         Count(t, ArmSteps)' = Count(t, ArmSteps), Count(t, TearSteps)' = Count(t, TearSteps),
         Count(t, LifeSteps)' = Count(t, LifeSteps) + 1
  PROVE  LocksHeld'
<1>1. /\ lock.depth \in Int /\ lock'.lifecycle = t /\ lock'.depth = lock.depth + 1
      /\ lock'.arm = lock.arm /\ lock'.stop = lock.stop /\ lock.lifecycle \in {NoThread, t}
  BY DEF TypeInv, DataOK, LockFields, LifecycleAcquired
<1>2. t # NoThread
  BY ThreadsAssumption
<1>3. Count(t, LifeSteps) = lock.depth
  BY <1>1, <1>2 DEF Control, LocksHeld
<1>4. Count(t, LifeSteps) \in Nat
  BY CountTyped DEF TypeInv
<1>5. ASSUME NEW u \in Threads, u # t PROVE Count(u, LifeSteps)' = 0
  BY <1>1, <1>5, OthersCount, ThreadsAssumption DEF Control, LocksHeld
<1>6. QED
  BY <1>1, <1>2, <1>3, <1>4, <1>5, OthersCount DEF Control, LocksHeld

LEMMA LifecycleControl ==
  ASSUME TypeInv, Control, NEW t \in Threads, CloseLock(t) \/ OpenLock(t)
  PROVE  Control'
<1>1. Bystanders(t) /\ Aside(t) /\ pc[t] # "none" /\ LifecycleAcquired(t)
  BY GotoForm, CallForm DEF CloseLock, OpenLock, Bystanders, Aside, OwnIds, TypeInv
<1>2. \A S \in {ArmSteps, TearSteps, LifeSteps} : Count(t, S) \in Nat
  BY CountTyped DEF TypeInv
<1>3. CASE CloseLock(t)
  <2>1. pc[t] = "close_lock" /\ pc'[t] = "close_cancel" /\ stack'[t] = stack[t]
    BY <1>3, GotoForm DEF CloseLock, TypeInv
  <2>2. Chained(t)'
    BY <2>1, GotoChained, LifeMoves DEF Control, TypeInv
  <2>3. \A S \in {ArmSteps, TearSteps, LifeSteps} :
          Count(t, S)' = Count(t, S) + One("close_cancel" \in S)
    <3>1. \A S \in {ArmSteps, TearSteps, LifeSteps} : "close_lock" \notin S
      BY DEF ArmSteps, TearSteps, LifeSteps
    <3>2. QED
      BY <1>2, <2>1, <3>1, GotoCount DEF TypeInv, One
  <2>4. "close_cancel" \notin ArmSteps /\ "close_cancel" \notin TearSteps
        /\ "close_cancel" \in LifeSteps /\ "close_cancel" \notin NewSteps
    BY DEF ArmSteps, TearSteps, LifeSteps, NewSteps
  <2>5. /\ Count(t, ArmSteps)' = Count(t, ArmSteps) /\ Count(t, TearSteps)' = Count(t, TearSteps)
        /\ Count(t, LifeSteps)' = Count(t, LifeSteps) + 1
    <3>1. /\ Count(t, ArmSteps)' = Count(t, ArmSteps) + One("close_cancel" \in ArmSteps)
          /\ Count(t, TearSteps)' = Count(t, TearSteps) + One("close_cancel" \in TearSteps)
          /\ Count(t, LifeSteps)' = Count(t, LifeSteps) + One("close_cancel" \in LifeSteps)
          /\ Count(t, ArmSteps) \in Nat /\ Count(t, TearSteps) \in Nat
          /\ Count(t, LifeSteps) \in Nat
      BY <1>2, <2>3
    <3>2. QED
      BY <2>4, <3>1 DEF One
  <2>6. LocksHeld'
    BY <1>1, <2>5, LifecycleLocked
  <2>7. QED
    BY <1>1, <2>1, <2>2, <2>4, <2>6, ChainsKept, SameNewWorkers DEF Control
<1>4. CASE OpenLock(t)
  <2>1. /\ pc[t] = "open_lock" /\ pc'[t] = "close_lock"
        /\ stack'[t] = <<"open_handles">> \o stack[t] /\ "open_handles" \in Returns
    BY <1>4, CallForm DEF OpenLock, TypeInv, Returns
  <2>2. Chained(t)'
    BY <2>1, CallChained, LifeMoves DEF Control, TypeInv, Body, CloseSteps
  <2>3. \A S \in {ArmSteps, TearSteps, LifeSteps} :
          Count(t, S)' = Count(t, S) + One("open_handles" \in S)
    <3>1. \A S \in {ArmSteps, TearSteps, LifeSteps} : "close_lock" \notin S /\ "open_lock" \notin S
      BY DEF ArmSteps, TearSteps, LifeSteps
    <3>2. QED
      BY <1>2, <2>1, <3>1, CallCount DEF TypeInv, One
  <2>4. "open_handles" \notin ArmSteps /\ "open_handles" \notin TearSteps
        /\ "open_handles" \in LifeSteps /\ "close_lock" \notin NewSteps
    BY DEF ArmSteps, TearSteps, LifeSteps, NewSteps
  <2>5. /\ Count(t, ArmSteps)' = Count(t, ArmSteps) /\ Count(t, TearSteps)' = Count(t, TearSteps)
        /\ Count(t, LifeSteps)' = Count(t, LifeSteps) + 1
    <3>1. /\ Count(t, ArmSteps)' = Count(t, ArmSteps) + One("open_handles" \in ArmSteps)
          /\ Count(t, TearSteps)' = Count(t, TearSteps) + One("open_handles" \in TearSteps)
          /\ Count(t, LifeSteps)' = Count(t, LifeSteps) + One("open_handles" \in LifeSteps)
          /\ Count(t, ArmSteps) \in Nat /\ Count(t, TearSteps) \in Nat
          /\ Count(t, LifeSteps) \in Nat
      BY <1>2, <2>3
    <3>2. QED
      BY <2>4, <3>1 DEF One
  <2>6. LocksHeld'
    BY <1>1, <2>5, LifecycleLocked
  <2>7. QED
    BY <1>1, <2>1, <2>2, <2>4, <2>6, ChainsKept, SameNewWorkers DEF Control
<1>5. QED
  BY <1>3, <1>4

(* The other locks and unlocks. *)
LEMMA UnlockControl ==
  ASSUME TypeInv, Control, NEW t \in Threads, StopUnlock(t) \/ StartUnlock(t) \/ LifecycleUnlock(t)
  PROVE  Control'
<1>1. /\ pc'[t] = Caller(t) /\ stack'[t] = Callers(t) /\ Bystanders(t) /\ Aside(t)
      /\ pc[t] # "none" /\ Caller(t) \notin NewSteps
  BY ReturnForm, CallersStep
     DEF StopUnlock, StartUnlock, LifecycleUnlock, Bystanders, Aside, OwnIds, TypeInv, Returns,
       NewSteps
<1>2. \A S \in {ArmSteps, TearSteps, LifeSteps} : Count(t, S)' = Count(t, S) - One(pc[t] \in S)
  <2>1. \A S \in {ArmSteps, TearSteps, LifeSteps} : "idle" \notin S /\ "exited" \notin S
    BY DEF ArmSteps, TearSteps, LifeSteps
  <2>2. QED
    BY <1>1, <2>1, ReturnCount DEF TypeInv
<1>3. Chained(t)'
  BY <1>1, ReturnChained DEF Control, TypeInv
<1>4. /\ Count(t, ArmSteps) \in Nat /\ Count(t, TearSteps) \in Nat /\ Count(t, LifeSteps) \in Nat
      /\ t # NoThread
  BY CountTyped, ThreadsAssumption DEF TypeInv
<1>5. LocksHeld'
  <2>1. CASE StopUnlock(t)
    <3>1. /\ lock'.stop = NoThread /\ lock'.arm = lock.arm /\ lock'.lifecycle = lock.lifecycle
          /\ lock'.depth = lock.depth
          /\ pc[t] \in TearSteps /\ pc[t] \notin ArmSteps /\ pc[t] \notin LifeSteps
      BY <2>1 DEF StopUnlock, TypeInv, DataOK, LockFields, TearSteps, ArmSteps, LifeSteps
    <3>2. lock.stop = t
      BY <3>1, OwnerAt DEF Control
    <3>3. QED
      BY <1>1, <1>2, <1>4, <3>1, <3>2, OthersCount, ThreadsAssumption DEF Control, LocksHeld, One
  <2>2. CASE StartUnlock(t)
    <3>1. /\ lock'.arm = NoThread /\ lock'.stop = lock.stop /\ lock'.lifecycle = lock.lifecycle
          /\ lock'.depth = lock.depth
          /\ pc[t] \in ArmSteps /\ pc[t] \notin TearSteps /\ pc[t] \notin LifeSteps
      BY <2>2 DEF StartUnlock, TypeInv, DataOK, LockFields, TearSteps, ArmSteps, LifeSteps
    <3>2. lock.arm = t
      BY <3>1, OwnerAt DEF Control
    <3>3. QED
      BY <1>1, <1>2, <1>4, <3>1, <3>2, OthersCount, ThreadsAssumption DEF Control, LocksHeld, One
  <2>3. CASE LifecycleUnlock(t)
    <3>1. /\ lock'.arm = lock.arm /\ lock'.stop = lock.stop /\ lock'.depth = lock.depth - 1
          /\ lock'.lifecycle = (IF lock.depth = 1 THEN NoThread ELSE lock.lifecycle)
          /\ pc[t] \in LifeSteps /\ pc[t] \notin TearSteps /\ pc[t] \notin ArmSteps
      BY <2>3 DEF LifecycleUnlock, TypeInv, DataOK, LockFields, TearSteps, ArmSteps, LifeSteps
    <3>2. lock.lifecycle = t
      BY <3>1, OwnerAt DEF Control
    <3>3. Count(t, LifeSteps) = lock.depth /\ Count(t, LifeSteps)' = lock.depth - 1
      BY <1>2, <3>1, <3>2 DEF Control, LocksHeld, One
    <3>4. lock'.depth = 0 <=> lock.depth = 1
      BY <1>4, <3>1, <3>3
    <3>5. Count(t, ArmSteps)' = Count(t, ArmSteps) /\ Count(t, TearSteps)' = Count(t, TearSteps)
      BY <1>2, <1>4, <3>1 DEF One
    <3>6. \A u \in Threads : u # t => Count(u, LifeSteps)' = 0
      BY <1>1, <3>2, OthersCount DEF Control, LocksHeld
    <3>7. QED
      BY <1>1, <1>4, <3>1, <3>2, <3>3, <3>4, <3>5, <3>6, OthersCount, ThreadsAssumption
         DEF Control, LocksHeld
  <2>4. QED
    BY <2>1, <2>2, <2>3
<1>6. QED
  BY <1>1, <1>3, <1>5, ChainsKept, SameNewWorkers DEF Control

LEMMA LockControl ==
  ASSUME TypeInv, Control, NEW t \in Threads, StopLock(t) \/ StartLock(t)
  PROVE  Control'
<1>1. CASE StartLock(t) /\ lock.arm # NoThread
  <2>1. Return(t) /\ Untouched(t) /\ pc[t] = "start_lock"
    BY <1>1 DEF StartLock, Untouched, OwnIds, SameOwners
  <2>2. QED
    BY <2>1, ReturnStep DEF Unlocked, ArmSteps, TearSteps, LifeSteps
<1>2. CASE StartLock(t) /\ lock.arm = NoThread
  <2>1. /\ pc[t] = "start_lock" /\ pc'[t] = "stop_check" /\ Bystanders(t)
        /\ stack'[t] = <<"start_check">> \o stack[t] /\ "start_check" \in Returns
    BY <1>2, CallForm DEF StartLock, TypeInv, Returns
  <2>2. /\ Aside(t) /\ lock'.arm = t /\ lock'.stop = lock.stop /\ lock'.lifecycle = lock.lifecycle
        /\ lock'.depth = lock.depth
    BY <1>2, <2>1 DEF StartLock, TypeInv, DataOK, LockFields, Aside, OwnIds, Bystanders
  <2>3. Chained(t)'
    BY <2>1, CallChained, FreeMoves DEF Control, TypeInv, Body, StopSteps
  <2>4. \A S \in {ArmSteps, TearSteps, LifeSteps} :
          Count(t, S) \in Nat /\ Count(t, S)' = Count(t, S) + One("start_check" \in S)
    <3>1. \A S \in {ArmSteps, TearSteps, LifeSteps} : "start_lock" \notin S /\ "stop_check" \notin S
      BY DEF ArmSteps, TearSteps, LifeSteps
    <3>2. QED
      BY <2>1, <3>1, CallCount, CountTyped DEF TypeInv, One
  <2>5. "start_check" \in ArmSteps /\ "start_check" \notin TearSteps
        /\ "start_check" \notin LifeSteps /\ "stop_check" \notin NewSteps
    BY DEF ArmSteps, TearSteps, LifeSteps, NewSteps
  <2>6. LocksHeld'
    BY <1>2, <2>1, <2>2, <2>4, <2>5, OthersCount, ThreadsAssumption DEF Control, LocksHeld, One
  <2>7. QED
    BY <2>1, <2>2, <2>3, <2>5, <2>6, ChainsKept, SameNewWorkers DEF Control
<1>3. CASE StopLock(t)
  <2>1. /\ pc[t] = "stop_lock" /\ pc'[t] = "request_flag" /\ Bystanders(t)
        /\ stack'[t] = <<"stop_wait">> \o stack[t] /\ "stop_wait" \in Returns
    BY <1>3, CallForm DEF StopLock, TypeInv, Returns
  <2>2. /\ Aside(t) /\ lock'.stop = t /\ lock'.arm = lock.arm /\ lock'.lifecycle = lock.lifecycle
        /\ lock'.depth = lock.depth /\ lock.stop = NoThread
    BY <1>3, <2>1 DEF StopLock, TeardownFree, TypeInv, DataOK, LockFields, Aside, OwnIds, Bystanders
  <2>3. Chained(t)'
    BY <2>1, CallChained, RequestMoves DEF Control, TypeInv, Body, RequestSteps
  <2>4. \A S \in {ArmSteps, TearSteps, LifeSteps} :
          Count(t, S) \in Nat /\ Count(t, S)' = Count(t, S) + One("stop_wait" \in S)
    <3>1. \A S \in {ArmSteps, TearSteps, LifeSteps} : "stop_lock" \notin S /\ "request_flag" \notin S
      BY DEF ArmSteps, TearSteps, LifeSteps
    <3>2. QED
      BY <2>1, <3>1, CallCount, CountTyped DEF TypeInv, One
  <2>5. "stop_wait" \in TearSteps /\ "stop_wait" \notin ArmSteps
        /\ "stop_wait" \notin LifeSteps /\ "request_flag" \notin NewSteps
    BY DEF ArmSteps, TearSteps, LifeSteps, NewSteps
  <2>6. LocksHeld'
    <3>1. /\ Count(t, TearSteps)' = Count(t, TearSteps) + 1
          /\ Count(t, ArmSteps)' = Count(t, ArmSteps) /\ Count(t, LifeSteps)' = Count(t, LifeSteps)
      <4>1. /\ Count(t, ArmSteps)' = Count(t, ArmSteps) + One("stop_wait" \in ArmSteps)
            /\ Count(t, TearSteps)' = Count(t, TearSteps) + One("stop_wait" \in TearSteps)
            /\ Count(t, LifeSteps)' = Count(t, LifeSteps) + One("stop_wait" \in LifeSteps)
            /\ Count(t, ArmSteps) \in Nat /\ Count(t, TearSteps) \in Nat
            /\ Count(t, LifeSteps) \in Nat
        BY <2>4
      <4>2. QED
        BY <2>5, <4>1 DEF One
    <3>2. Count(t, TearSteps) = 0 /\ \A u \in Threads : Count(u, TearSteps) = 0
      BY <2>2, ThreadsAssumption DEF Control, LocksHeld, One
    <3>3. QED
      BY <2>1, <2>2, <3>1, <3>2, OthersCount, ThreadsAssumption DEF Control, LocksHeld, One
  <2>7. QED
    BY <2>1, <2>2, <2>3, <2>5, <2>6, ChainsKept, SameNewWorkers DEF Control
<1>4. QED
  BY <1>1, <1>2, <1>3

------------------------------------------------------------------------------
(* A new worker *)

(* Everything but the identifiers, as in GotoControl. *)
LEMMA ArmGoto ==
  ASSUME TypeInv, Control, NEW t \in Threads, NEW q \in ArmSteps, Goto(t, q), SameOwners,
         pc[t] \in ArmSteps
  PROVE  (\A u \in Threads : Chained(u)') /\ LocksHeld'
<1>1. pc'[t] = q /\ stack'[t] = stack[t] /\ Bystanders(t)
  BY GotoForm DEF TypeInv
<1>2. Follows(pc[t], q) /\ SameSections(pc[t], q)
  BY ArmMoves DEF Moves
<1>3. Chained(t)' /\ \A u \in Threads : u # t => Chained(u)'
  BY <1>1, <1>2, GotoChained, BystanderChained DEF Control, TypeInv, Bystanders
<1>4. ASSUME NEW S \in {ArmSteps, TearSteps, LifeSteps} PROVE Count(t, S)' = Count(t, S)
  <2>1. pc[t] \in S <=> pc'[t] \in S
    BY <1>1, <1>2 DEF SameSections
  <2>2. Count(t, S) \in Nat
    BY CountTyped DEF TypeInv
  <2>3. QED
    BY <1>1, <2>1, <2>2, GotoCount DEF TypeInv, One
<1>5. \A u \in Threads : /\ Count(u, ArmSteps)' = Count(u, ArmSteps)
                          /\ Count(u, TearSteps)' = Count(u, TearSteps)
                          /\ Count(u, LifeSteps)' = Count(u, LifeSteps)
  BY <1>1, <1>4, OthersCount
<1>6. QED
  BY <1>3, <1>5 DEF Control, LocksHeld, SameOwners

(* The next identifier names a worker that was not spawned. *)
LEMMA NumberControl ==
  ASSUME TypeInv, Control, NEW t \in Threads,
         StartInvalid(t) \/ StartPrearm(t) \/ StartReset(t)
  PROVE  Control'
<1>1. st.nextId \in Nat
  BY MaxArmsAssumption DEF TypeInv, DataOK, StateFields
<1>2. PICK q \in {"start_unlock", "start_reset", "start_spawn"} : Goto(t, q)
  BY DEF StartInvalid, StartPrearm, StartReset
<1>3. q \in ArmSteps /\ pc[t] \in ArmSteps /\ SameOwners /\ OwnIds(t)
  BY <1>2 DEF StartInvalid, StartPrearm, StartReset, ArmSteps, SameOwners, OwnIds, TypeInv, DataOK
<1>4. (\A u \in Threads : Chained(u)') /\ LocksHeld'
  BY <1>2, <1>3, ArmGoto
<1>5. /\ pc'[t] = q /\ pc[t] \in {"start_prearm", "start_reset"}
      /\ \A u \in Threads : u # t => pc'[u] = pc[u]
  BY <1>2 DEF StartInvalid, StartPrearm, StartReset, Goto, TypeInv, ControlOK
<1>6. st'.nextId \in {st.nextId, st.nextId + 1}
  BY DEF StartInvalid, StartPrearm, StartReset, TypeInv, DataOK, StateFields
<1>7. \A w \in Workers : w \in Nat /\ w \in Threads
  BY DEF Workers, Threads
<1>8. ASSUME NEW w \in Workers, w >= st'.nextId PROVE pc'[w] = "none"
  <2>1. w >= st.nextId
    BY <1>1, <1>6, <1>7, <1>8
  <2>2. pc[w] = "none" /\ w # t
    BY <1>5, <2>1 DEF Control, NewWorkers
  <2>3. QED
    BY <1>5, <1>7, <2>2
<1>9. ASSUME NEW u \in Threads, pc'[u] \in NewSteps
      PROVE  loc'[u].id < st'.nextId /\ pc'[loc'[u].id] = "none"
  <2>1. CASE u # t
    <3>1. pc[u] \in NewSteps /\ loc'[u].id = loc[u].id
      BY <1>3, <1>5, <1>9, <2>1 DEF OwnIds
    <3>2. loc[u].id \in Workers /\ loc[u].id < st.nextId /\ pc[loc[u].id] = "none"
      BY <3>1 DEF NewSteps, TypeInv, ArmIdentified, Arming, Control, NewWorkers
    <3>3. QED
      BY <1>1, <1>5, <1>6, <1>7, <3>1, <3>2
  <2>2. CASE u = t /\ StartReset(t)
    <3>1. loc[t].id \in Workers /\ loc[t].id < st.nextId /\ pc[loc[t].id] = "none"
          /\ loc' = loc /\ st' = st
      BY <2>2 DEF StartReset, TypeInv, ArmIdentified, Arming, Control, NewWorkers
    <3>2. QED
      BY <1>5, <1>7, <2>2, <3>1
  <2>3. CASE u = t /\ StartPrearm(t)
    <3>1. loc'[t].id = st.nextId /\ st'.nextId = st.nextId + 1 /\ st.nextId <= MaxArms
      BY <2>3 DEF StartPrearm, StartAdmitted, TypeInv, DataOK, LocalFields, StateFields
    <3>2. st.nextId \in Workers
      BY <1>1, <3>1, MaxArmsAssumption DEF Workers, TypeInv, DataOK, StateFields
    <3>3. pc[st.nextId] = "none"
      BY <1>1, <3>2 DEF Control, NewWorkers
    <3>4. QED
      BY <1>1, <1>5, <1>7, <2>3, <3>1, <3>2, <3>3
  <2>4. CASE u = t /\ StartInvalid(t)
    BY <1>9, <2>4 DEF StartInvalid, Goto, TypeInv, ControlOK, NewSteps
  <2>5. QED
    BY <2>1, <2>2, <2>3, <2>4
<1>10. QED
  BY <1>4, <1>8, <1>9 DEF Control, NewWorkers, NewSteps

(* A worker that was not spawned holds nothing and is in no call. *)
LEMMA SpawnControl ==
  ASSUME TypeInv, Control, NEW t \in Threads, StartSpawn(t)
  PROVE  Control'
<1>1. pc[t] = "start_spawn" /\ loc[t].id \in Workers
  BY DEF StartSpawn, TypeInv, ArmIdentified, Arming
<1>2. PICK w \in Workers : w = loc[t].id /\ w \in Threads /\ pc[t] = "start_spawn"
  BY <1>1, WorkerIds
<1>3. w < st.nextId /\ pc[w] = "none" /\ w # t
  BY <1>2 DEF Control, NewWorkers
<1>4. pc' = [pc EXCEPT ![t] = "start_publish", ![w] = "enter"]
  BY <1>2 DEF StartSpawn
<1>5. SameOwners /\ loc' = loc /\ st' = st /\ stack' = stack
  BY DEF StartSpawn, SameOwners
<1>6. /\ pc'[t] = "start_publish" /\ pc'[w] = "enter"
      /\ \A u \in Threads : u # t /\ u # w => pc'[u] = pc[u]
  BY <1>2, <1>3, <1>4 DEF TypeInv, ControlOK
<1>7. Chained(t)'
  <2>1. Follows("start_spawn", "start_publish")
    BY ArmMoves DEF Moves, ArmSteps
  <2>2. QED
    BY <1>2, <1>5, <1>6, <2>1, GotoChained DEF Control, TypeInv
<1>8. Chained(w)'
  <2>1. "none" \notin ClientBase /\ \A r \in Returns : "none" \notin Body(r)
    BY DEF Returns, Body, ClientBase, ClientSteps, CallbackSteps, CloseSteps, StopSteps,
       RequestSteps, FinishSteps
  <2>2. 1 \notin DOMAIN stack[w]
    BY <1>2, <1>3, <2>1 DEF Control, Chained, Inside, TypeInv, ControlOK
  <2>3. pc'[w] \in Inside(w, 1)'
    BY <1>2, <1>5, <1>6, <2>2 DEF Inside, Base, WorkerBase, WorkerSteps
  <2>4. \A i : Inside(w, i)' = Inside(w, i)
    BY <1>5 DEF Inside, Base
  <2>5. QED
    BY <1>2, <1>5, <2>3, <2>4 DEF Control, Chained
<1>9. \A u \in Threads : u # t /\ u # w => Chained(u)'
  BY <1>5, <1>6, BystanderChained DEF Bystander, Control, TypeInv
<1>10. ASSUME NEW u \in Threads, NEW S \in {ArmSteps, TearSteps, LifeSteps}
      PROVE  Count(u, S)' = Count(u, S)
  <2>1. pc'[u] \in S <=> pc[u] \in S
    BY <1>2, <1>3, <1>6 DEF ArmSteps, TearSteps, LifeSteps
  <2>2. Count(u, S) \in Nat
    BY CountTyped DEF TypeInv
  <2>3. QED
    BY <1>5, <2>1, <2>2, GotoCount DEF TypeInv, One
<1>11. \A u \in Threads : /\ Count(u, ArmSteps)' = Count(u, ArmSteps)
                           /\ Count(u, TearSteps)' = Count(u, TearSteps)
                           /\ Count(u, LifeSteps)' = Count(u, LifeSteps)
  BY <1>10
<1>12. LocksHeld'
  BY <1>5, <1>11 DEF Control, LocksHeld, SameOwners
<1>13. NewWorkers'
  <2>1. ASSUME NEW v \in Workers, v >= st.nextId PROVE pc'[v] = "none"
    <3>1. pc[v] = "none" /\ v \in Threads
      BY <2>1, WorkerIds DEF Control, NewWorkers
    <3>2. v # w /\ v # t
      BY <1>2, <1>3, <2>1, <3>1 DEF Workers, TypeInv, DataOK, StateFields
    <3>3. QED
      BY <1>6, <3>1, <3>2
  <2>2. ASSUME NEW u \in Threads, pc'[u] \in NewSteps PROVE FALSE
    <3>1. u # t /\ u # w /\ pc[u] \in NewSteps
      BY <1>6, <2>2 DEF NewSteps
    <3>2. lock.arm = u /\ lock.arm = t
      BY <1>2, <3>1, OwnerAt DEF Control, NewSteps, ArmSteps
    <3>3. QED
      BY <3>1, <3>2
  <2>3. QED
    BY <1>5, <2>1, <2>2 DEF NewWorkers, NewSteps
<1>14. QED
  BY <1>7, <1>8, <1>9, <1>12, <1>13 DEF Control

------------------------------------------------------------------------------
(* Theorem *)

LEMMA InitControl == Init => Control
<1> SUFFICES ASSUME Init PROVE Control
  OBVIOUS
<1>1. \A t \in Threads : pc[t] \in {"idle", "none"} /\ pc[t] \in Base(t) /\ stack[t] = <<>>
  BY ThreadsAssumption DEF Init, Threads, Base, ClientBase, WorkerBase, ClientSteps, WorkerSteps,
     FinishSteps, CallbackSteps
<1>2. \A t \in Threads : Chained(t)
  BY <1>1 DEF Chained, Inside
<1>3. ASSUME NEW t \in Threads, NEW S \in {ArmSteps, TearSteps, LifeSteps} PROVE Count(t, S) = 0
  <2>1. pc[t] \notin S
    BY <1>1 DEF ArmSteps, TearSteps, LifeSteps
  <2>2. QED
    BY <1>1, <2>1, FramesEmpty DEF Count, One
<1>4. /\ lock.arm = NoThread /\ lock.stop = NoThread /\ lock.lifecycle = NoThread
      /\ lock.depth = 0 /\ NoThread \notin Threads
  BY ThreadsAssumption DEF Init
<1>5. LocksHeld
  BY <1>3, <1>4 DEF LocksHeld, One
<1>6. NewWorkers
  BY <1>1, ThreadsAssumption, WorkerIds DEF Init, NewWorkers, Threads
<1>7. QED
  BY <1>2, <1>5, <1>6 DEF Control

LEMMA NextControl == TypeInv /\ Control /\ [Next]_vars => Control'
<1> SUFFICES ASSUME TypeInv, Control, [Next]_vars PROVE Control'
  OBVIOUS
<1>1. CASE UNCHANGED vars
  BY <1>1 DEF vars, Control, Chained, Inside, Base, LocksHeld, Count, Frames, NewWorkers
<1>2. ASSUME NEW t \in Threads, ClientCall(t) \/ Operation(t) PROVE Control'
  BY <1>2, CallsControl, FinishControl, CloseControl, StartControl, LifecycleControl,
     UnlockControl, LockControl, NumberControl, SpawnControl DEF Operation
<1>3. ASSUME NEW w \in Workers, WorkerStep(w) PROVE Control'
  BY <1>3, EnterControl, ReceiveControl DEF WorkerStep
<1>4. QED
  BY <1>1, <1>2, <1>3 DEF Next

LEMMA ControlInvariant == Spec => []Control
BY InitControl, NextControl, TypeInvariant, PTL DEF Spec

(* What a mutex protects: two threads are never in a section of it. *)
MutualExclusion ==
  \A t, u \in Threads : \A S \in {ArmSteps, TearSteps, LifeSteps} :
    Within(t, S) /\ Within(u, S) => t = u

(***************************************************************************)
(* However deep the threads are in calls and callbacks, at most one is in  *)
(* a startAcquisition that has the arm mutex, in a stopAcquisition that    *)
(* has the stop mutex, and in an open or close: every lock is released on  *)
(* every path, and no path runs a locked section without its lock.         *)
(***************************************************************************)
THEOREM SectionsExclude == Spec => []MutualExclusion
<1>1. TypeInv /\ Control => MutualExclusion
  <2> SUFFICES ASSUME TypeInv, Control, NEW t \in Threads, NEW u \in Threads,
                      NEW S \in {ArmSteps, TearSteps, LifeSteps}, Within(t, S), Within(u, S)
               PROVE  t = u
    BY DEF MutualExclusion
  <2>1. Count(t, S) # 0 /\ Count(u, S) # 0
    BY CountTyped DEF TypeInv, Within
  <2>2. QED
    BY <2>1 DEF Control, LocksHeld, One
<1>2. QED
  BY <1>1, TypeInvariant, ControlInvariant, PTL

=============================================================================
