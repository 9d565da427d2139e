------------------------- MODULE C4DeviceSdk_proofs --------------------------
(***************************************************************************)
(* What the arms of C4DeviceArms_proofs do to the device: when it streams, *)
(* which mode and selector it has, what listeners were told, and how the   *)
(* facade implements DeviceMode.                                           *)
(*                                                                         *)
(* A worker is seen here by the step it is At in acquisitionLoop, whatever *)
(* its callbacks call.                                                     *)
(***************************************************************************)
EXTENDS C4DeviceArms_proofs

(* The steps in which a worker uses the SDK with its handle. *)
HandleSteps ==
  {"enter", "setup", "configure", "report", "hold", "loop", "take", "blocked", "receive", "sdk",
   "buffer", "diagnose", "after", "deliver", "delivered", "sdk_stop", "stopping"}

(* From before the arm takes effect to the report of its outcome. *)
Arriving == {"enter", "setup", "configure"}
Waiting == {"take", "blocked", "receive", "sdk", "buffer", "diagnose"}
Fixed == {"hold", "loop", "take", "blocked", "receive", "sdk", "buffer", "deliver", "delivered"}

(* The SDK acquisition of the worker runs. *)
InUse(w) ==
  \/ At(w) \in HandleSteps \ (Arriving \cup {"report"})
  \/ At(w) = "report" /\ worker[w].received

(* The worker still has the frame, or the result of its SDK start. *)
Holds(w) == At(w) \in {"report", "after"} /\ worker[w].received

Snapshot(w) == worker[w].mode = dev.mode /\ worker[w].selector = dev.selector
Settled == dev.mode = preset.mode /\ dev.selector = preset.selector

(* The preset is what the worker will restore or, where it restores nothing, the device. *)
Owes(w) ==
  /\ preset.mode = IF RestoreMode(w) THEN worker[w].mode ELSE dev.mode
  /\ preset.selector = IF RestoreSelector(w) THEN worker[w].selector ELSE dev.selector

Pinned(w) ==
  dev.mode = "Continuous" /\ (worker[w].software => dev.selector = "FrameStart")

Configuration ==
  /\ \A t \in Threads : pc[t] \in {"start_reset", "start_spawn"} => Snapshot(loc[t].id)
  /\ \A w \in Workers : At(w) \in Arriving => Snapshot(w)
  /\ \A w \in Workers : At(w) \in Fixed \/ Holds(w) => Pinned(w)
  /\ \A w \in Workers : At(w) \in Waiting => ~worker[w].received
  /\ \A w \in Workers : InUse(w) => Owes(w)
  /\ (\A w \in Workers : ~InUse(w)) => Settled

Stream ==
  /\ dev.streaming =>
       \/ \E w \in Workers : At(w) \in HandleSteps \cup {"failed"}
       \/ st.reconnect
       \/ \E t \in Threads : pc[t] = "close_release" /\ loc[t].was
  /\ dev.streaming => st.device \/ \E t \in Threads : pc[t] = "close_release" /\ loc[t].was
  /\ \A w \in Workers : At(w) \in Arriving => ~dev.streaming
  /\ \A w \in Workers : At(w) = "report" /\ ~worker[w].received => ~dev.streaming
  /\ \A w \in Workers : InUse(w) \/ At(w) = "failed" => dev.streaming
  /\ st.reconnect => /\ dev.streaming /\ ~st.installing /\ st.initializing = NoThread
                     /\ \A w \in Workers : At(w) \notin HandleSteps \cup {"failed"}
  /\ \A t \in Threads : pc[t] = "close_release" => ~st.reconnect
  /\ st.installing => st.device

Requests ==
  \A w \in Workers : worker[w].software =>
    /\ At(w) \in {"take", "blocked"} => ~worker[w].issued
    /\ At(w) \in {"receive", "sdk", "buffer", "diagnose"} =>
         trig.inFlight /\ (worker[w].issued => At(w) \in {"buffer", "diagnose"})

AcquisitionTold ==
  /\ \A t \in Threads : pc[t] = "start_tell" => told.acquisition = 0
  /\ \A w \in Workers : At(w) \in {"finish_trigger", "finish_tell"} =>
       loc[w].was /\ told.acquisition = 1
  /\ st.acquiring /\ (\A t \in Threads : pc[t] # "start_tell") => told.acquisition = 1
  /\ ~st.acquiring /\ (\A w \in Workers : At(w) \notin {"finish_trigger", "finish_tell"})
       => told.acquisition = 0

ConnectionTold ==
  /\ \A t \in Threads : pc[t] = "open_publish" => ~st.device
  /\ \A t \in Threads : pc[t] = "open_read" => told.connection = 0
  /\ \A t \in Threads : pc[t] = "close_release" => told.connection = IF loc[t].was THEN 1 ELSE 0
  /\ (\A t \in Threads : pc[t] \notin {"open_read", "close_release"}) =>
       told.connection = IF st.device THEN 1 ELSE 0

------------------------------------------------------------------------------
(* The worker as its SDK calls show it *)

LEMMA HandleAt ==
  ASSUME TypeInv, Control, Arms, NEW w \in Workers
  PROVE  UsesHandle(w) <=> At(w) \in HandleSteps
<1>1. w \in Threads
  BY WorkerIds
<1>2. ASSUME UsesHandle(w) PROVE At(w) \in HandleSteps
  <2>1. Phase(w) \in {"enter", "setup", "hold", "running"}
    BY <1>2, HandlePhase
  <2>2. CASE pc[w] \in HandleSteps
    BY <2>2, AtBase DEF Arms, HandleSteps, WorkerBase, WorkerSteps
  <2>3. CASE pc[w] \notin HandleSteps
    <3>1. stack[w] # <<>>
      BY <1>2, <2>3 DEF UsesHandle, Within, HandleSteps
    <3>2. At(w) \in {"finish_end", "delivered"}
      BY <3>1, AtCallback
    <3>3. QED
      BY <2>1, <3>2 DEF Phase, PhaseOf, Ended, HandleSteps
  <2>4. QED
    BY <2>2, <2>3
<1>3. ASSUME At(w) \in HandleSteps PROVE UsesHandle(w)
  <2>1. CASE stack[w] = <<>>
    BY <1>3, <2>1 DEF At, UsesHandle, Within, HandleSteps
  <2>2. CASE stack[w] # <<>>
    <3>1. Len(stack[w]) \in DOMAIN stack[w] /\ At(w) = stack[w][Len(stack[w])]
      BY <1>1, <2>2 DEF At, TypeInv, ControlOK
    <3>2. QED
      BY <1>3, <3>1 DEF UsesHandle, Within, HandleSteps
  <2>3. QED
    BY <2>1, <2>2
<1>4. QED
  BY <1>2, <1>3

(* Of the worker, the step leaves what concerns the device as it is. *)
AtQuiet(w) ==
  \/ At(w)' = At(w)
  \/ At(w) = "blocked" /\ At(w)' = "take"
  \/ At(w) \notin HandleSteps \cup {"failed"} /\ At(w)' \notin HandleSteps \cup {"failed"}

(* The three forms of a step of t, to q. *)
Form(t, q) ==
  \/ Goto(t, q) \/ (NotifyAndGoto(t, q) /\ stack' = stack)
  \/ \E r \in Returns \ {"delivered"} : Call(t, q, r)
  \/ (Return(t) \/ NotifyAndReturn(t)) /\ q = Caller(t)

LEMMA BystanderAt ==
  ASSUME NEW u \in Threads, Bystander(u)
  PROVE  At(u)' = At(u) \/ (At(u) = "blocked" /\ At(u)' = "take")
BY DEF Bystander, At

LEMMA FormAt ==
  ASSUME TypeInv, Control, Arms, NEW t \in Threads, NEW q, Form(t, q),
         pc[t] \notin WorkerSteps, t \in Workers /\ pc[t] \in FinishSteps => q \in FinishSteps \cup {"exited", "callback"}
  PROVE  pc'[t] = q /\ Bystanders(t) /\ \A w \in Workers : AtQuiet(w)
<1>1. /\ pc'[t] = q /\ Bystanders(t)
      /\ \/ stack'[t] = stack[t]
         \/ \E r \in Returns \ {"delivered"} : stack'[t] = <<r>> \o stack[t]
         \/ stack'[t] = Callers(t) /\ q = Caller(t)
  BY GotoForm, NotifyForm, CallForm, ReturnForm, NotifyReturnForm DEF Form, TypeInv
<1>2. ASSUME NEW w \in Workers, w # t PROVE AtQuiet(w)
  BY <1>1, <1>2, WorkerIds, BystanderAt DEF AtQuiet, Bystanders
<1>3. ASSUME t \in Workers, stack[t] # <<>> PROVE At(t)' = At(t)
  <2>1. CASE stack'[t] = stack[t]
    BY <1>1, <1>3, <2>1, AtGoto
  <2>2. CASE \E r \in Returns \ {"delivered"} : stack'[t] = <<r>> \o stack[t]
    BY <1>3, <2>2, AtCall DEF TypeInv
  <2>3. CASE stack'[t] = Callers(t) /\ q = Caller(t)
    BY <1>1, <1>3, <2>3, AtReturn DEF TypeInv
  <2>4. QED
    BY <1>1, <2>1, <2>2, <2>3
<1>4. ASSUME t \in Workers, stack[t] = <<>> PROVE AtQuiet(t)
  <2>1. pc[t] \in FinishSteps /\ At(t) = pc[t]
    BY <1>4, CallerRuns DEF Base, WorkerBase, At
  <2>2. q \in FinishSteps \cup {"exited", "callback"}
    BY <1>4, <2>1
  <2>3. At(t)' \in {q} \cup (Returns \ {"delivered"})
    <3>1. CASE stack'[t] = stack[t]
      BY <1>1, <1>4, <3>1, AtGoto
    <3>2. CASE \E r \in Returns \ {"delivered"} : stack'[t] = <<r>> \o stack[t]
      BY <1>4, <3>2, AtCall DEF TypeInv
    <3>3. CASE stack'[t] = Callers(t) /\ q = Caller(t)
      BY <1>1, <1>4, <3>3, AtReturn DEF TypeInv
    <3>4. QED
      BY <1>1, <3>1, <3>2, <3>3
  <2>4. QED
    BY <2>1, <2>2, <2>3 DEF AtQuiet, FinishSteps, HandleSteps, Returns
<1>5. QED
  BY <1>1, <1>2, <1>3, <1>4 DEF AtQuiet

(* Steps that say more than where a thread is. *)
Claimed == {"start_reset", "start_spawn"}
Special == Claimed \cup {"close_release", "open_publish", "open_read", "start_tell"}
Plain == Steps \ (Special \cup {"finish_trigger", "finish_tell"})

LEMMA CallsForm ==
  ASSUME TypeInv, NEW t \in Threads,
         ClientCall(t) \/ CallbackCall(t) \/ CallbackReturn(t) \/ RequestFlag(t) \/ RequestNotify(t) \/
         StopCheck(t) \/ StopLock(t) \/ StopWait(t) \/ StopSignal(t) \/ StopJoin(t) \/ StopUnlock(t)
  PROVE  pc[t] \notin Special \cup WorkerSteps \cup FinishSteps /\ \E q \in Plain : Form(t, q)
<1>1. \A op \in Ops : Entry[op] \in Plain
  BY DEF Ops, Entry, Plain, Steps, ClientSteps, Special, Claimed
<1>2. Caller(t) \in Plain
  BY CallersStep DEF TypeInv, Returns, Plain, Steps, ClientSteps, WorkerSteps, Special, Claimed
<1>3. pc[t] \notin Special \cup WorkerSteps \cup FinishSteps
  BY DEF ClientCall, CallbackCall, CallbackReturn, RequestFlag, RequestNotify, StopCheck, StopLock,
     StopWait, StopSignal, StopJoin, StopUnlock, Special, Claimed, WorkerSteps, FinishSteps
<1>4. CASE ClientCall(t) \/ CallbackCall(t)
  <2>1. PICK op \in Ops : Goto(t, Entry[op]) \/ Call(t, Entry[op], "callback_return")
    BY <1>4, OpsAssumption DEF ClientCall, CallbackCall
  <2>2. "callback_return" \in Returns \ {"delivered"}
    BY DEF Returns
  <2>3. Form(t, Entry[op])
    BY <2>1, <2>2 DEF Form
  <2>4. QED
    BY <1>1, <1>3, <2>3
<1>5. CASE CallbackReturn(t) \/ RequestFlag(t) \/ RequestNotify(t) \/ StopUnlock(t)
  <2>1. CASE Goto(t, "request_notify")
    <3>1. Form(t, "request_notify") /\ "request_notify" \in Plain
      BY <2>1 DEF Form, Plain, Steps, ClientSteps, Special, Claimed
    <3>2. QED
      BY <1>3, <3>1
  <2>2. CASE Return(t) \/ NotifyAndReturn(t)
    BY <1>2, <1>3, <2>2 DEF Form
  <2>3. QED
    BY <1>5, <2>1, <2>2 DEF CallbackReturn, RequestFlag, RequestNotify, StopUnlock
<1>6. CASE StopCheck(t) \/ StopWait(t) \/ StopSignal(t)
  <2>1. PICK q \in {"request_flag", "stop_lock", "stop_unlock", "stop_signal", "stop_join"} :
          Goto(t, q) \/ (NotifyAndGoto(t, q) /\ stack' = stack)
    BY <1>6 DEF StopCheck, StopWait, StopSignal
  <2>2. Form(t, q) /\ q \in Plain
    BY <2>1 DEF Form, Plain, Steps, ClientSteps, Special, Claimed
  <2>3. QED
    BY <1>3, <2>2
<1>7. CASE StopLock(t) \/ StopJoin(t)
  <2>1. PICK q \in {"request_flag", "finish_state"}, r \in {"stop_wait", "stop_unlock"} : Call(t, q, r)
    BY <1>7 DEF StopLock, StopJoin
  <2>2. Form(t, q) /\ q \in Plain
    BY <2>1 DEF Form, Returns, Plain, Steps, ClientSteps, Special, Claimed
  <2>3. QED
    BY <1>3, <2>2
<1>8. QED
  BY <1>4, <1>5, <1>6, <1>7

LEMMA AccessForm ==
  ASSUME TypeInv, NEW t \in Threads,
         TriggerCheck(t) \/ TriggerQueue(t) \/ Feature(t) \/ Cancel(t) \/ InitAdmit(t) \/
         InitCommand(t) \/ InitPoll(t) \/ InitEnd(t)
  PROVE  pc[t] \notin Special \cup WorkerSteps \cup FinishSteps /\ \E q \in Plain : Form(t, q)
<1>2. Caller(t) \in Plain
  BY CallersStep DEF TypeInv, Returns, Plain, Steps, ClientSteps, WorkerSteps, Special, Claimed
<1>3. pc[t] \notin Special \cup WorkerSteps \cup FinishSteps
  BY DEF TriggerCheck, TriggerQueue, Feature, Cancel, InitAdmit, InitCommand, InitPoll, InitEnd,
     Special, Claimed, WorkerSteps, FinishSteps
<1>4. CASE \E q \in {"trigger_queue", "init_command", "init_poll", "init_end"} : Goto(t, q)
  <2>1. PICK q \in {"trigger_queue", "init_command", "init_poll", "init_end"} : Goto(t, q)
    BY <1>4
  <2>2. Form(t, q) /\ q \in Plain
    BY <2>1 DEF Form, Plain, Steps, ClientSteps, Special, Claimed
  <2>3. QED
    BY <1>3, <2>2
<1>5. CASE Return(t) \/ NotifyAndReturn(t)
  BY <1>2, <1>3, <1>5 DEF Form
<1>6. QED
  BY <1>4, <1>5 DEF TriggerCheck, TriggerQueue, Feature, Cancel, InitAdmit, InitCommand, InitPoll,
     InitEnd

LEMMA FinishForm ==
  ASSUME TypeInv, NEW t \in Threads,
         FinishState(t) \/ FinishTrigger(t) \/ FinishTell(t) \/ FinishEnd(t)
  PROVE  /\ pc[t] \in FinishSteps /\ pc[t] \notin Special \cup WorkerSteps
         /\ FinishState(t) => Form(t, "finish_trigger")
         /\ FinishTrigger(t) => Form(t, "finish_tell")
         /\ FinishTell(t) => \E q \in {"callback", "finish_end"} : Form(t, q)
         /\ FinishEnd(t) => Form(t, Caller(t))
<1>1. pc[t] \in FinishSteps /\ pc[t] \notin Special \cup WorkerSteps
  BY DEF FinishState, FinishTrigger, FinishTell, FinishEnd, FinishSteps, Special, Claimed, WorkerSteps
<1>2. FinishState(t) => Form(t, "finish_trigger")
  BY DEF FinishState, Form
<1>3. FinishTrigger(t) => Form(t, "finish_tell")
  BY DEF FinishTrigger, Form
<1>4. FinishTell(t) => \E q \in {"callback", "finish_end"} : Form(t, q)
  <2>1. "finish_end" \in Returns \ {"delivered"}
    BY DEF Returns
  <2>2. QED
    BY <2>1 DEF FinishTell, Form
<1>5. FinishEnd(t) => Form(t, Caller(t))
  BY DEF FinishEnd, Form
<1>6. QED
  BY <1>1, <1>2, <1>3, <1>4, <1>5

LEMMA CloseForm ==
  ASSUME TypeInv, NEW t \in Threads,
         CloseLock(t) \/ CloseCancel(t) \/ CloseClaim(t) \/ CloseWait(t) \/ CloseTake(t) \/
         CloseRelease(t) \/ CloseEnd(t) \/ LifecycleUnlock(t)
  PROVE  /\ pc[t] \notin WorkerSteps \cup FinishSteps
         /\ pc[t] \in Special => CloseRelease(t)
         /\ ~CloseTake(t) => \E q \in Plain : Form(t, q)
         /\ CloseTake(t) => Form(t, "close_release")
<1>1. pc[t] \notin WorkerSteps \cup FinishSteps /\ (pc[t] \in Special => CloseRelease(t))
  BY DEF CloseLock, CloseCancel, CloseClaim, CloseWait, CloseTake, CloseRelease, CloseEnd,
     LifecycleUnlock, Special, Claimed, WorkerSteps, FinishSteps
<1>2. CloseTake(t) => Form(t, "close_release")
  BY DEF CloseTake, Form
<1>3. CASE \E q \in {"close_cancel", "close_claim", "close_wait", "close_end", "lifecycle_unlock"} : Goto(t, q)
  <2>1. PICK q \in {"close_cancel", "close_claim", "close_wait", "close_end", "lifecycle_unlock"} : Goto(t, q)
    BY <1>3
  <2>2. Form(t, q) /\ q \in Plain
    BY <2>1 DEF Form, Plain, Steps, ClientSteps, Special, Claimed
  <2>3. QED
    BY <1>1, <1>2, <2>2
<1>4. CASE \E q \in {"request_flag", "stop_check", "callback"}, r \in {"lifecycle_unlock", "close_take", "close_end"} :
             Call(t, q, r)
  <2>1. PICK q \in {"request_flag", "stop_check", "callback"}, r \in {"lifecycle_unlock", "close_take", "close_end"} :
          Call(t, q, r)
    BY <1>4
  <2>2. Form(t, q) /\ q \in Plain
    BY <2>1 DEF Form, Returns, Plain, Steps, ClientSteps, Special, Claimed
  <2>3. QED
    BY <1>1, <1>2, <2>2
<1>5. CASE LifecycleUnlock(t)
  <2>1. Caller(t) \in Plain
    BY CallersStep DEF TypeInv, Returns, Plain, Steps, ClientSteps, WorkerSteps, Special, Claimed
  <2>2. Form(t, Caller(t)) /\ ~CloseTake(t)
    BY <1>5 DEF Form, LifecycleUnlock, CloseTake
  <2>3. QED
    BY <1>1, <2>1, <2>2
<1>6. QED
  BY <1>1, <1>2, <1>3, <1>4, <1>5 DEF CloseLock, CloseCancel, CloseClaim, CloseWait, CloseTake, CloseRelease, CloseEnd

LEMMA OpenForm ==
  ASSUME TypeInv, NEW t \in Threads,
         OpenLock(t) \/ OpenHandles(t) \/ OpenPublish(t) \/ OpenRead(t) \/ OpenCheck(t)
  PROVE  /\ pc[t] \notin WorkerSteps \cup FinishSteps
         /\ pc[t] \in Special => (OpenPublish(t) /\ pc[t] = "open_publish") \/ (OpenRead(t) /\ pc[t] = "open_read")
         /\ OpenLock(t) \/ OpenRead(t) \/ OpenCheck(t) => \E q \in Plain : Form(t, q)
         /\ OpenHandles(t) => \E q \in {"lifecycle_unlock", "open_publish"} : Form(t, q)
         /\ OpenPublish(t) => Form(t, "open_read")
<1>1. pc[t] \notin WorkerSteps \cup FinishSteps
  BY DEF OpenLock, OpenHandles, OpenPublish, OpenRead, OpenCheck, WorkerSteps, FinishSteps
<1>2. pc[t] \in Special => (OpenPublish(t) /\ pc[t] = "open_publish") \/ (OpenRead(t) /\ pc[t] = "open_read")
  BY DEF OpenLock, OpenHandles, OpenPublish, OpenRead, OpenCheck, Special, Claimed
<1>3. OpenHandles(t) => \E q \in {"lifecycle_unlock", "open_publish"} : Form(t, q)
  BY DEF OpenHandles, Form
<1>4. OpenPublish(t) => Form(t, "open_read")
  BY DEF OpenPublish, Form
<1>5. ASSUME OpenLock(t) \/ OpenRead(t) \/ OpenCheck(t) PROVE \E q \in Plain : Form(t, q)
  <2>1. /\ {"close_lock", "callback", "lifecycle_unlock"} \subseteq Plain
        /\ {"open_handles", "open_check"} \subseteq Returns \ {"delivered"}
    BY DEF Plain, Steps, ClientSteps, Special, Claimed, Returns
  <2>2. Form(t, "close_lock") \/ Form(t, "callback") \/ Form(t, "lifecycle_unlock")
    BY <1>5, <2>1 DEF OpenLock, OpenRead, OpenCheck, Form
  <2>3. QED
    BY <2>1, <2>2
<1>6. QED
  BY <1>1, <1>2, <1>3, <1>4, <1>5

LEMMA StartForm ==
  ASSUME TypeInv, NEW t \in Threads,
         StartLock(t) \/ StartCheck(t) \/ StartRejected(t) \/ StartInvalid(t) \/ StartSpawnFailed(t) \/
         StartPublish(t) \/ StartAwait(t) \/ StartFail(t) \/ StartJoin(t) \/ StartTell(t) \/
         StartTold(t) \/ StartRelease(t) \/ StartUnlock(t)
  PROVE  /\ pc[t] \notin WorkerSteps \cup FinishSteps
         /\ pc[t] \in Special => StartSpawnFailed(t) \/ StartTell(t)
         /\ \E q \in Plain : Form(t, q)
<1>1. pc[t] \notin WorkerSteps \cup FinishSteps /\ (pc[t] \in Special => StartSpawnFailed(t) \/ StartTell(t))
  BY DEF StartLock, StartCheck, StartRejected, StartInvalid, StartSpawnFailed, StartPublish, StartAwait,
     StartFail, StartJoin, StartTell, StartTold, StartRelease, StartUnlock, WorkerSteps, FinishSteps,
     Special, Claimed
<1>2. CASE \E q \in {"start_unlock", "start_prearm", "start_await", "start_commit", "start_fail", "start_join",
                     "start_release"} : Goto(t, q)
  <2>1. PICK q \in {"start_unlock", "start_prearm", "start_await", "start_commit", "start_fail", "start_join",
                    "start_release"} : Goto(t, q)
    BY <1>2
  <2>2. Form(t, q) /\ q \in Plain
    BY <2>1 DEF Form, Plain, Steps, ClientSteps, Special, Claimed
  <2>3. QED
    BY <1>1, <2>2
<1>3. CASE \E q \in {"stop_check", "callback"}, r \in {"start_check", "start_told"} : Call(t, q, r)
  <2>1. PICK q \in {"stop_check", "callback"}, r \in {"start_check", "start_told"} : Call(t, q, r)
    BY <1>3
  <2>2. Form(t, q) /\ q \in Plain
    BY <2>1 DEF Form, Returns, Plain, Steps, ClientSteps, Special, Claimed
  <2>3. QED
    BY <1>1, <2>2
<1>4. CASE Return(t)
  <2>1. Caller(t) \in Plain
    BY CallersStep DEF TypeInv, Returns, Plain, Steps, ClientSteps, WorkerSteps, Special, Claimed
  <2>2. QED
    BY <1>1, <1>4, <2>1 DEF Form
<1>5. QED
  BY <1>2, <1>3, <1>4 DEF StartLock, StartCheck, StartRejected, StartInvalid, StartSpawnFailed,
     StartPublish, StartAwait, StartFail, StartJoin, StartTell, StartTold, StartRelease, StartUnlock

LEMMA ClaimForm ==
  ASSUME NEW t \in Threads
  PROVE  /\ StartPrearm(t) => Form(t, "start_reset") /\ pc[t] = "start_prearm"
         /\ StartReset(t) => Form(t, "start_spawn") /\ pc[t] = "start_reset"
         /\ StartCommit(t) => Form(t, "start_tell") /\ pc[t] = "start_commit"
BY DEF StartPrearm, StartReset, StartCommit, Form

------------------------------------------------------------------------------
(* What listeners were told of the connection *)

Connecting == {"open_publish", "open_read", "close_release"}

LEMMA ConnectionToldKept ==
  ASSUME ConnectionTold, NEW t \in Threads, Bystanders(t), OwnLocals(t),
         pc[t] \notin Connecting, pc'[t] \notin Connecting,
         st'.device = st.device, told'.connection = told.connection
  PROVE  ConnectionTold'
<1>1. \A u \in Threads :
        /\ pc'[u] \in Connecting => pc'[u] = pc[u] /\ u # t
        /\ pc[u] \in Connecting => pc'[u] = pc[u]
  BY DEF Bystanders, Bystander, Connecting
<1>2. \A u \in Threads : u # t => loc'[u] = loc[u]
  BY DEF OwnLocals
<1>3. ASSUME \A u \in Threads : pc'[u] \notin {"open_read", "close_release"}
      PROVE  told'.connection = IF st'.device THEN 1 ELSE 0
  BY <1>1, <1>3 DEF ConnectionTold, Connecting
<1>4. QED
  BY <1>1, <1>2, <1>3 DEF ConnectionTold, Connecting

LEMMA ConnectingAlone ==
  ASSUME TypeInv, Control, NEW t \in Threads, pc[t] \in LifeSteps, Bystanders(t)
  PROVE  \A u \in Threads : u # t => pc[u] \notin Connecting /\ pc'[u] \notin Connecting
<1>1. \A u \in Threads : pc[u] \in LifeSteps => lock.lifecycle = u
  BY OwnerAt DEF Control
<1>2. \A u \in Threads : u # t => pc[u] \notin LifeSteps
  BY <1>1
<1>3. QED
  BY <1>2 DEF Connecting, LifeSteps, Bystanders, Bystander

LEMMA ConnectionMoves ==
  ASSUME TypeInv, Control, Arms, Connection, ConnectionTold, NEW t \in Threads,
         OpenHandles(t) \/ OpenPublish(t) \/ OpenRead(t) \/ CloseTake(t) \/ CloseRelease(t)
  PROVE  ConnectionTold'
<1>1. PICK q : Form(t, q) /\ pc'[t] = q /\ Bystanders(t)
  BY OpenForm, CloseForm, FormAt
<1>2. \A u \in Threads : u # t => pc[u] \notin Connecting /\ pc'[u] \notin Connecting
  <2>1. pc[t] \in LifeSteps
    BY DEF OpenHandles, OpenPublish, OpenRead, CloseTake, CloseRelease, LifeSteps
  <2>2. QED
    BY <1>1, <2>1, ConnectingAlone
<1>3. Linked(t) /\ told.connection \in Int
  BY DEF Connection, TypeInv, DataOK
<1>4. CASE OpenHandles(t)
  <2>1. /\ pc[t] = "open_handles" /\ st' = st /\ told' = told
        /\ pc'[t] = "lifecycle_unlock" \/ (pc'[t] = "open_publish" /\ ~st.device)
    BY <1>4, GotoForm DEF OpenHandles, TypeInv
  <2>2. QED
    BY <1>2, <2>1 DEF ConnectionTold, Connecting
<1>5. CASE OpenPublish(t)
  <2>1. /\ pc[t] = "open_publish" /\ st'.device /\ told' = told /\ pc'[t] = "open_read"
    BY <1>5, GotoForm DEF OpenPublish, TypeInv, DataOK, StateFields
  <2>2. told.connection = 0
    BY <1>2, <2>1 DEF ConnectionTold, Connecting
  <2>3. QED
    BY <1>2, <2>1, <2>2 DEF ConnectionTold, Connecting
<1>6. CASE OpenRead(t)
  <2>1. /\ pc[t] = "open_read" /\ st' = st /\ told'.connection = told.connection + 1
        /\ pc'[t] = "callback"
    BY <1>6, CallForm DEF OpenRead, TypeInv, DataOK
  <2>2. told.connection = 0 /\ st.device
    BY <1>3, <2>1 DEF ConnectionTold, Linked
  <2>3. QED
    BY <1>2, <2>1, <2>2 DEF ConnectionTold, Connecting
<1>7. CASE CloseTake(t)
  <2>1. /\ pc[t] = "close_take" /\ ~st'.device /\ told' = told /\ loc'[t].was = st.device
        /\ pc'[t] = "close_release"
    BY <1>7, GotoForm DEF CloseTake, TypeInv, DataOK, StateFields, LocalFields
  <2>2. told.connection = IF st.device THEN 1 ELSE 0
    BY <1>2, <2>1 DEF ConnectionTold, Connecting
  <2>3. QED
    BY <1>2, <2>1, <2>2 DEF ConnectionTold, Connecting
<1>8. CASE CloseRelease(t)
  <2>1. /\ pc[t] = "close_release" /\ st' = st /\ pc'[t] \in {"callback", "close_end"}
        /\ told'.connection = IF loc[t].was THEN told.connection - 1 ELSE told.connection
    BY <1>8, CallForm, GotoForm DEF CloseRelease, TypeInv, DataOK
  <2>2. told'.connection = 0 /\ ~st.device
    BY <1>3, <2>1 DEF ConnectionTold, Linked
  <2>3. QED
    BY <1>2, <2>1, <2>2 DEF ConnectionTold, Connecting
<1>9. QED
  BY <1>4, <1>5, <1>6, <1>7, <1>8

(* The operations that leave the connection as it is. *)
LEMMA CallsApart ==
  ASSUME TypeInv, NEW t \in Threads,
         ClientCall(t) \/ CallbackCall(t) \/ CallbackReturn(t) \/ RequestFlag(t) \/ RequestNotify(t) \/
         StopCheck(t) \/ StopLock(t) \/ StopWait(t) \/ StopSignal(t) \/ StopJoin(t) \/ StopUnlock(t) \/
         FinishState(t) \/ FinishTrigger(t) \/ FinishTell(t) \/ FinishEnd(t) \/ TriggerCheck(t) \/
         TriggerQueue(t) \/ Feature(t) \/ Cancel(t) \/ InitAdmit(t) \/ InitCommand(t) \/ InitPoll(t) \/
         InitEnd(t)
  PROVE  OwnLocals(t) /\ st'.device = st.device /\ told'.connection = told.connection
BY DEF TypeInv, DataOK, StateFields, OwnLocals, ClientCall, CallbackCall, CallbackReturn, RequestFlag,
   RequestNotify, StopCheck, StopLock, StopWait, StopSignal, StopJoin, StopUnlock, FinishState,
   FinishTrigger, FinishTell, FinishEnd, TriggerCheck, TriggerQueue, Feature, Cancel, InitAdmit,
   InitCommand, InitPoll, InitEnd

LEMMA StartApart ==
  ASSUME TypeInv, NEW t \in Threads,
         CloseLock(t) \/ CloseCancel(t) \/ CloseClaim(t) \/ CloseWait(t) \/ CloseEnd(t) \/
         LifecycleUnlock(t) \/ OpenLock(t) \/ OpenCheck(t) \/
         StartLock(t) \/ StartCheck(t) \/ StartRejected(t) \/ StartInvalid(t) \/ StartPrearm(t) \/
         StartReset(t) \/ StartSpawn(t) \/ StartSpawnFailed(t) \/ StartPublish(t) \/ StartAwait(t) \/
         StartFail(t) \/ StartJoin(t) \/ StartCommit(t) \/ StartTell(t) \/ StartTold(t) \/
         StartRelease(t) \/ StartUnlock(t)
  PROVE  OwnLocals(t) /\ st'.device = st.device /\ told'.connection = told.connection
BY DEF TypeInv, DataOK, StateFields, OwnLocals, CloseLock, CloseCancel, CloseClaim, CloseWait, CloseEnd,
   LifecycleUnlock, OpenLock, OpenCheck, StartLock, StartCheck, StartRejected, StartInvalid,
   StartPrearm, StartReset, StartSpawn, StartSpawnFailed, StartPublish, StartAwait, StartFail,
   StartJoin, StartCommit, StartTell, StartTold, StartRelease, StartUnlock

LEMMA WorkerApart ==
  ASSUME TypeInv, NEW w \in Workers, WorkerStep(w)
  PROVE  /\ loc' = loc /\ st'.device = st.device /\ told' = told
         /\ \E q \in WorkerSteps \cup {"finish_state"} :
              Goto(w, q) \/ (pc[w] = "deliver" /\ q = "delivered" /\ Call(w, "callback", "delivered"))
         /\ pc[w] \in WorkerSteps
BY DEF TypeInv, DataOK, StateFields, WorkerStep, WorkerEnter, WorkerSetup, WorkerConfigured,
   WorkerConfigureFailed, WorkerReport, WorkerQuit, WorkerHold, WorkerLoop, WorkerTake, WorkerReceive,
   WorkerSdk, WorkerFrame, WorkerBufferError, WorkerTimeout, AfterTimeout, WorkerDiagnose, WorkerAfter,
   WorkerDeliver, WorkerDelivered, WorkerStop, WorkerStopped, WorkerStopFailed, WorkerReconnect,
   WorkerSteps

LEMMA OperationConnection ==
  ASSUME TypeInv, Control, Arms, ConnectionTold, NEW t \in Threads, NEW q, Form(t, q),
         pc[t] \notin Connecting \cup WorkerSteps, q \notin Connecting,
         pc[t] \in FinishSteps => q \in FinishSteps \cup {"callback", "idle", "exited", Caller(t)},
         OwnLocals(t), st'.device = st.device, told'.connection = told.connection
  PROVE  ConnectionTold'
<1>1. pc'[t] = q /\ Bystanders(t)
  BY GotoForm, NotifyForm, CallForm, ReturnForm, NotifyReturnForm DEF Form, TypeInv
<1>2. QED
  BY <1>1, ConnectionToldKept

LEMMA SpawnConnection ==
  ASSUME TypeInv, Control, ConnectionTold, NEW t \in Threads, StartSpawn(t)
  PROVE  ConnectionTold'
<1>1. PICK w \in Workers : w = loc[t].id
  <2>1. loc[t].id \in Workers
    BY DEF TypeInv, ArmIdentified, Arming, StartSpawn
  <2>2. QED
    BY <2>1
<1>2. /\ pc[t] = "start_spawn" /\ pc[w] = "none" /\ st' = st /\ told' = told /\ loc' = loc
      /\ pc' = [pc EXCEPT ![t] = "start_publish", ![w] = "enter"]
  BY <1>1 DEF StartSpawn, Control, NewWorkers
<1>3. \A u \in Threads : pc'[u] = pc[u] \/ {pc[u], pc'[u]} \cap Connecting = {}
  BY <1>2 DEF TypeInv, ControlOK, Connecting
<1>4. \A u \in Threads : \A p \in Connecting : pc'[u] = p <=> pc[u] = p
  BY <1>3
<1>5. QED
  BY <1>2, <1>4 DEF ConnectionTold, Connecting

LEMMA NextConnectionTold ==
  ASSUME TypeInv, Control, Arms, Connection, ConnectionTold, [Next]_vars
  PROVE  ConnectionTold'
<1>1. /\ Connecting \subseteq Special /\ Connecting \cap (FinishSteps \cup Claimed \cup {"start_tell"}) = {}
      /\ Plain \cap Connecting = {}
  BY DEF Connecting, Special, Plain, Claimed, FinishSteps
<1>2. ASSUME NEW t \in Threads,
             ClientCall(t) \/ CallbackCall(t) \/ CallbackReturn(t) \/ RequestFlag(t) \/ RequestNotify(t) \/
             StopCheck(t) \/ StopLock(t) \/ StopWait(t) \/ StopSignal(t) \/ StopJoin(t) \/ StopUnlock(t)
      PROVE  ConnectionTold'
  <2>1. PICK q \in Plain : Form(t, q)
    BY <1>2, CallsForm
  <2>2. pc[t] \notin Special \cup WorkerSteps \cup FinishSteps
    BY <1>2, CallsForm
  <2>3. OwnLocals(t) /\ st'.device = st.device /\ told'.connection = told.connection
    BY <1>2, CallsApart
  <2>4. QED
    BY <1>1, <2>1, <2>2, <2>3, OperationConnection
<1>3. ASSUME NEW t \in Threads,
             TriggerCheck(t) \/ TriggerQueue(t) \/ Feature(t) \/ Cancel(t) \/ InitAdmit(t) \/
             InitCommand(t) \/ InitPoll(t) \/ InitEnd(t)
      PROVE  ConnectionTold'
  <2>1. PICK q \in Plain : Form(t, q)
    BY <1>3, AccessForm
  <2>2. pc[t] \notin Special \cup WorkerSteps \cup FinishSteps
    BY <1>3, AccessForm
  <2>3. OwnLocals(t) /\ st'.device = st.device /\ told'.connection = told.connection
    BY <1>3, CallsApart
  <2>4. QED
    BY <1>1, <2>1, <2>2, <2>3, OperationConnection
<1>4. ASSUME NEW t \in Threads, FinishState(t) \/ FinishTrigger(t) \/ FinishTell(t) \/ FinishEnd(t)
      PROVE  ConnectionTold'
  <2>1. Caller(t) \notin Connecting
    BY CallersStep DEF TypeInv, Returns, Connecting
  <2>2. PICK q \in {"finish_trigger", "finish_tell", "callback", "finish_end", Caller(t)} : Form(t, q)
    BY <1>4, FinishForm
  <2>3. q \notin Connecting /\ q \in FinishSteps \cup {"callback", "idle", "exited", Caller(t)}
    BY <2>1, <2>2 DEF Connecting, FinishSteps
  <2>4. pc[t] \notin Special \cup WorkerSteps
    BY <1>4, FinishForm
  <2>5. OwnLocals(t) /\ st'.device = st.device /\ told'.connection = told.connection
    BY <1>4, CallsApart
  <2>6. QED
    BY <1>1, <2>2, <2>3, <2>4, <2>5, OperationConnection
<1>5. ASSUME NEW t \in Threads,
             CloseLock(t) \/ CloseCancel(t) \/ CloseClaim(t) \/ CloseWait(t) \/ CloseEnd(t) \/ LifecycleUnlock(t)
      PROVE  ConnectionTold'
  <2>1. ~CloseTake(t) /\ ~CloseRelease(t)
    BY <1>5 DEF CloseTake, CloseRelease, CloseLock, CloseCancel, CloseClaim, CloseWait, CloseEnd, LifecycleUnlock
  <2>2. PICK q \in Plain : Form(t, q)
    BY <1>5, <2>1, CloseForm
  <2>3. pc[t] \notin Special \cup WorkerSteps \cup FinishSteps
    BY <1>5, <2>1, CloseForm
  <2>4. OwnLocals(t) /\ st'.device = st.device /\ told'.connection = told.connection
    BY <1>5, StartApart
  <2>5. QED
    BY <1>1, <2>2, <2>3, <2>4, OperationConnection
<1>6. ASSUME NEW t \in Threads, OpenLock(t) \/ OpenCheck(t) PROVE ConnectionTold'
  <2>1. PICK q \in Plain : Form(t, q)
    BY <1>6, OpenForm
  <2>2. pc[t] \notin Special \cup WorkerSteps \cup FinishSteps
    BY <1>6 DEF OpenLock, OpenCheck, Special, Claimed, WorkerSteps, FinishSteps
  <2>3. OwnLocals(t) /\ st'.device = st.device /\ told'.connection = told.connection
    BY <1>6, StartApart
  <2>4. QED
    BY <1>1, <2>1, <2>2, <2>3, OperationConnection
<1>7. ASSUME NEW t \in Threads,
             StartLock(t) \/ StartCheck(t) \/ StartRejected(t) \/ StartInvalid(t) \/ StartSpawnFailed(t) \/
             StartPublish(t) \/ StartAwait(t) \/ StartFail(t) \/ StartJoin(t) \/ StartTell(t) \/
             StartTold(t) \/ StartRelease(t) \/ StartUnlock(t)
      PROVE  ConnectionTold'
  <2>1. PICK q \in Plain : Form(t, q)
    BY <1>7, StartForm
  <2>2. pc[t] \notin Connecting \cup WorkerSteps \cup FinishSteps
    BY <1>7, StartForm DEF StartSpawnFailed, StartTell, Special, Connecting
  <2>3. OwnLocals(t) /\ st'.device = st.device /\ told'.connection = told.connection
    BY <1>7, StartApart
  <2>4. QED
    BY <1>1, <2>1, <2>2, <2>3, OperationConnection
<1>8. ASSUME NEW t \in Threads, StartPrearm(t) \/ StartReset(t) \/ StartCommit(t) PROVE ConnectionTold'
  <2>1. PICK q \in Claimed \cup {"start_tell"} : Form(t, q)
    BY <1>8, ClaimForm DEF Claimed
  <2>2. pc[t] \in {"start_prearm", "start_reset", "start_commit"}
    BY <1>8, ClaimForm
  <2>3. OwnLocals(t) /\ st'.device = st.device /\ told'.connection = told.connection
    BY <1>8, StartApart
  <2>4. pc[t] \notin Connecting \cup WorkerSteps \cup FinishSteps
    BY <2>2 DEF Connecting, WorkerSteps, FinishSteps
  <2>5. QED
    BY <1>1, <2>1, <2>3, <2>4, OperationConnection
<1>9. ASSUME NEW t \in Threads, ClientCall(t) \/ Operation(t) PROVE ConnectionTold'
  BY <1>2, <1>3, <1>4, <1>5, <1>6, <1>7, <1>8, <1>9, SpawnConnection, ConnectionMoves DEF Operation
<1>10. ASSUME NEW w \in Workers, WorkerStep(w) PROVE ConnectionTold'
  <2>1. PICK q \in WorkerSteps \cup {"finish_state"} :
          Goto(w, q) \/ (pc[w] = "deliver" /\ q = "delivered" /\ Call(w, "callback", "delivered"))
    BY <1>10, WorkerApart
  <2>2. w \in Threads /\ pc[w] \in WorkerSteps
    BY <1>10, WorkerIds, WorkerApart
  <2>3. Bystanders(w) /\ pc'[w] \in WorkerSteps \cup {"finish_state", "callback"}
    BY <2>1, <2>2, GotoForm, CallForm DEF TypeInv
  <2>4. pc[w] \notin Connecting /\ pc'[w] \notin Connecting
    BY <2>2, <2>3 DEF Connecting, WorkerSteps
  <2>5. OwnLocals(w) /\ st'.device = st.device /\ told'.connection = told.connection
    BY <1>10, WorkerApart DEF OwnLocals
  <2>6. QED
    BY <2>2, <2>3, <2>4, <2>5, ConnectionToldKept
<1>11. CASE UNCHANGED vars
  BY <1>11 DEF vars, ConnectionTold
<1>12. QED
  BY <1>9, <1>10, <1>11 DEF Next

LEMMA ConnectionToldInvariant ==
  ASSUME CallbacksDoNotArm
  PROVE  Spec => []ConnectionTold
<1>1. Init => ConnectionTold
  BY ThreadsAssumption DEF Init, ConnectionTold
<1>2. TypeInv /\ Control /\ (Arms /\ Connection) /\ ConnectionTold /\ [Next]_vars => ConnectionTold'
  BY NextConnectionTold
<1>3. QED
  BY <1>1, <1>2, ArmsInvariant, TypeInvariant, ControlInvariant, PTL DEF Spec

------------------------------------------------------------------------------
(* What listeners were told of the acquisition *)

Finishing == {"finish_trigger", "finish_tell"}

(* The finish of a worker is its own step, outside any call. *)
LEMMA FinishingAt ==
  ASSUME TypeInv, Control, Arms, NEW w \in Workers
  PROVE  /\ At(w) \in Finishing => pc[w] = At(w)
         /\ pc[w] \in FinishSteps => At(w) = pc[w] /\ stack[w] = <<>>
<1>1. At(w) \in Finishing => pc[w] = At(w)
  BY AtCallback DEF At, Finishing
<1>2. pc[w] \in FinishSteps => At(w) = pc[w] /\ stack[w] = <<>>
  BY AtBase DEF Arms, WorkerBase
<1>3. QED
  BY <1>1, <1>2

LEMMA FormFinishing ==
  ASSUME TypeInv, Control, Arms, NEW t \in Threads, NEW q, Form(t, q),
         pc[t] \notin Finishing, q \notin Finishing
  PROVE  /\ pc'[t] = q /\ Bystanders(t)
         /\ \A w \in Workers : /\ At(w)' \in Finishing <=> At(w) \in Finishing
                               /\ At(w) \in Finishing => w # t /\ At(w)' = At(w)
<1>1. /\ pc'[t] = q /\ Bystanders(t)
      /\ \/ stack'[t] = stack[t]
         \/ \E r \in Returns \ {"delivered"} : stack'[t] = <<r>> \o stack[t]
         \/ stack'[t] = Callers(t) /\ q = Caller(t)
  BY GotoForm, NotifyForm, CallForm, ReturnForm, NotifyReturnForm DEF Form, TypeInv
<1>2. ASSUME NEW w \in Workers, w # t
      PROVE  (At(w)' \in Finishing <=> At(w) \in Finishing) /\ (At(w) \in Finishing => At(w)' = At(w))
  BY <1>1, <1>2, WorkerIds, BystanderAt DEF Bystanders, Finishing
<1>3. ASSUME t \in Workers PROVE At(t) \notin Finishing /\ At(t)' \notin Finishing
  <2>1. At(t) \notin Finishing
    BY <1>3, FinishingAt
  <2>2. Returns \cap Finishing = {}
    BY DEF Returns, Finishing
  <2>3. CASE stack'[t] = stack[t]
    BY <1>1, <2>1, <2>3, AtGoto
  <2>4. CASE \E r \in Returns \ {"delivered"} : stack'[t] = <<r>> \o stack[t]
    BY <2>1, <2>2, <2>4, AtCall DEF TypeInv
  <2>5. CASE stack'[t] = Callers(t) /\ q = Caller(t)
    BY <1>1, <2>1, <2>5, AtReturn DEF TypeInv
  <2>6. QED
    BY <1>1, <2>1, <2>3, <2>4, <2>5
<1>4. QED
  BY <1>1, <1>2, <1>3

LEMMA AcquisitionToldKept ==
  ASSUME AcquisitionTold, NEW t \in Threads, Bystanders(t), OwnLocals(t),
         pc[t] # "start_tell", pc'[t] # "start_tell",
         \A w \in Workers : /\ At(w)' \in Finishing <=> At(w) \in Finishing
                            /\ At(w) \in Finishing => w # t,
         st'.acquiring <=> st.acquiring, told'.acquisition = told.acquisition
  PROVE  AcquisitionTold'
<1>1. \A u \in Threads : pc'[u] = "start_tell" <=> pc[u] = "start_tell"
  BY DEF Bystanders, Bystander
<1>2. \A w \in Workers : At(w)' \in Finishing => At(w) \in Finishing /\ loc'[w] = loc[w]
  BY WorkerIds DEF OwnLocals
<1>3. st'.acquiring /\ (\A u \in Threads : pc'[u] # "start_tell") => told'.acquisition = 1
  BY <1>1 DEF AcquisitionTold
<1>4. ~st'.acquiring /\ (\A w \in Workers : At(w)' \notin Finishing) => told'.acquisition = 0
  BY DEF AcquisitionTold, Finishing
<1>5. QED
  BY <1>1, <1>2, <1>3, <1>4 DEF AcquisitionTold, Finishing

LEMMA OperationTold ==
  ASSUME TypeInv, Control, Arms, AcquisitionTold, NEW t \in Threads, NEW q, Form(t, q),
         pc[t] \notin Finishing \cup {"start_tell"}, q \notin Finishing \cup {"start_tell"},
         OwnLocals(t), st'.acquiring <=> st.acquiring, told'.acquisition = told.acquisition
  PROVE  AcquisitionTold'
BY FormFinishing, AcquisitionToldKept

LEMMA CallsTold ==
  ASSUME TypeInv, NEW t \in Threads,
         ClientCall(t) \/ CallbackCall(t) \/ CallbackReturn(t) \/ RequestFlag(t) \/ RequestNotify(t) \/
         StopCheck(t) \/ StopLock(t) \/ StopWait(t) \/ StopSignal(t) \/ StopJoin(t) \/ StopUnlock(t) \/
         FinishEnd(t) \/ TriggerCheck(t) \/
         TriggerQueue(t) \/ Feature(t) \/ Cancel(t) \/ InitAdmit(t) \/ InitCommand(t) \/ InitPoll(t) \/
         InitEnd(t)
  PROVE  OwnLocals(t) /\ st'.acquiring = st.acquiring /\ told'.acquisition = told.acquisition
BY DEF TypeInv, DataOK, StateFields, OwnLocals, ClientCall, CallbackCall, CallbackReturn, RequestFlag,
   RequestNotify, StopCheck, StopLock, StopWait, StopSignal, StopJoin, StopUnlock,
   FinishEnd, TriggerCheck, TriggerQueue, Feature, Cancel, InitAdmit,
   InitCommand, InitPoll, InitEnd

LEMMA LifecycleTold ==
  ASSUME TypeInv, NEW t \in Threads,
         CloseLock(t) \/ CloseCancel(t) \/ CloseClaim(t) \/ CloseWait(t) \/ CloseTake(t) \/
         CloseRelease(t) \/ CloseEnd(t) \/ LifecycleUnlock(t) \/ OpenLock(t) \/ OpenHandles(t) \/
         OpenPublish(t) \/ OpenRead(t) \/ OpenCheck(t)
  PROVE  OwnLocals(t) /\ st'.acquiring = st.acquiring /\ told'.acquisition = told.acquisition
BY DEF TypeInv, DataOK, StateFields, OwnLocals, CloseLock, CloseCancel, CloseClaim, CloseWait,
   CloseTake, CloseRelease, CloseEnd, LifecycleUnlock, OpenLock, OpenHandles, OpenPublish, OpenRead,
   OpenCheck

LEMMA StartTells ==
  ASSUME TypeInv, NEW t \in Threads,
         StartLock(t) \/ StartCheck(t) \/ StartRejected(t) \/ StartInvalid(t) \/ StartReset(t) \/
         StartPublish(t) \/ StartAwait(t) \/ StartJoin(t) \/ StartTold(t) \/ StartRelease(t) \/
         StartUnlock(t)
  PROVE  OwnLocals(t) /\ st'.acquiring = st.acquiring /\ told'.acquisition = told.acquisition
BY DEF TypeInv, DataOK, StateFields, OwnLocals, StartLock, StartCheck, StartRejected, StartInvalid,
   StartReset, StartPublish, StartAwait, StartJoin, StartTold, StartRelease, StartUnlock

(* A claim begins and is given up while nothing is acquired. *)
LEMMA ClaimTells ==
  ASSUME TypeInv, Arms, NEW t \in Threads, StartPrearm(t) \/ StartSpawnFailed(t) \/ StartFail(t)
  PROVE  OwnLocals(t) /\ ~st'.acquiring /\ ~st.acquiring /\ told'.acquisition = told.acquisition
<1>1. OwnLocals(t) /\ ~st'.acquiring /\ told'.acquisition = told.acquisition
  BY DEF TypeInv, DataOK, StateFields, OwnLocals, StartPrearm, StartSpawnFailed, StartFail
<1>2. Stage(t) \in {"start_prearm", "start_spawn", "start_fail"}
  BY DEF Stage, StartPrearm, StartSpawnFailed, StartFail
<1>3. Stage(t) # "start_fail" => NoneLive
  BY <1>2 DEF Arms, ClaimOK
<1>4. ~st.acquiring
  BY <1>2, <1>3 DEF Arms, InstallOK, AcquiringOK, NoneLive, Live
<1>5. QED
  BY <1>1, <1>4

LEMMA FinishStateTold ==
  ASSUME TypeInv, Control, Arms, AcquisitionTold, NEW t \in Threads, FinishState(t)
  PROVE  AcquisitionTold'
<1>1. /\ pc[t] = "finish_state" /\ pc'[t] = "finish_trigger" /\ stack'[t] = stack[t] /\ Bystanders(t)
      /\ ~st'.acquiring /\ told' = told /\ loc'[t].was = st.acquiring /\ OwnLocals(t)
  BY GotoForm DEF FinishState, Ends, TypeInv, DataOK, StateFields, LocalFields, OwnLocals
<1>2. \A u \in Threads : pc'[u] = "start_tell" <=> pc[u] = "start_tell"
  BY <1>1 DEF Bystanders, Bystander
<1>3. CASE t \in Workers
  <2>1. At(t) = "finish_state" /\ At(t)' = "finish_trigger" /\ Phase(t) = "running"
    BY <1>1, <1>3, FinishingAt, AtGoto DEF FinishSteps, Phase, PhaseOf, Ended
  <2>2. st.acquiring /\ st.activeId = t /\ \A w \in Workers : Phase(w) = "ended" => w = t
    BY <1>3, <2>1 DEF Arms, AcquiringOK
  <2>3. \A u \in Threads : pc[u] # "start_tell"
    BY <2>1, <2>2 DEF Arms, InstallOK, Stage
  <2>4. ASSUME NEW w \in Workers, w # t PROVE At(w)' \notin Finishing
    <3>1. At(w)' = At(w) \/ (At(w) = "blocked" /\ At(w)' = "take")
      BY <1>1, <2>4, WorkerIds, BystanderAt DEF Bystanders
    <3>2. At(w) \notin Finishing
      BY <2>1, <2>2, <2>4 DEF Phase, PhaseOf, Ended, Finishing
    <3>3. QED
      BY <3>1, <3>2 DEF Finishing
  <2>5. told.acquisition = 1
    BY <2>2, <2>3 DEF AcquisitionTold
  <2>6. At(t)' \in Finishing
    BY <2>1 DEF Finishing
  <2>7. QED
    BY <1>1, <1>2, <1>3, <2>2, <2>3, <2>4, <2>5, <2>6 DEF AcquisitionTold, Finishing
<1>4. CASE t \in Clients
  <2>1. Stage(t) \in FinishSteps
    BY <1>1 DEF Stage, FinishSteps
  <2>2. NoneLive /\ ~st.acquiring
    BY <1>4, <2>1 DEF Arms, TeardownOK, AcquiringOK, NoneLive, Live
  <2>3. \A w \in Workers : w # t
    BY <1>4, ClientNoWorker
  <2>4. ASSUME NEW w \in Workers PROVE At(w) \notin Finishing /\ At(w)' \notin Finishing
    <3>1. At(w)' = At(w) \/ (At(w) = "blocked" /\ At(w)' = "take")
      BY <1>1, <2>3, WorkerIds, BystanderAt DEF Bystanders
    <3>2. At(w) \notin Finishing
      BY <2>2 DEF NoneLive, Live, Phase, PhaseOf, Ended, Finishing
    <3>3. QED
      BY <3>1, <3>2 DEF Finishing
  <2>5. told.acquisition = 0
    BY <2>2, <2>4 DEF AcquisitionTold, Finishing
  <2>6. QED
    BY <1>1, <1>2, <2>4, <2>5 DEF AcquisitionTold, Finishing
<1>5. QED
  BY <1>3, <1>4, WorkerClient

(* Of the finishers, the worker alone has something to report. *)
LEMMA FinishTeller ==
  ASSUME TypeInv, Control, Arms, AcquisitionTold, NEW t \in Threads, pc[t] \in Finishing
  PROVE  /\ t \in Workers => /\ loc[t].was /\ told.acquisition = 1 /\ At(t) = pc[t] /\ stack[t] = <<>>
                             /\ ~st.acquiring /\ \A w \in Workers : At(w) \in Finishing => w = t
         /\ t \in Clients => ~loc[t].was
<1>1. ASSUME t \in Workers
      PROVE  /\ loc[t].was /\ told.acquisition = 1 /\ At(t) = pc[t] /\ stack[t] = <<>>
             /\ ~st.acquiring /\ \A w \in Workers : At(w) \in Finishing => w = t
  <2>1. At(t) = pc[t] /\ stack[t] = <<>>
    BY <1>1, FinishingAt DEF FinishSteps, Finishing
  <2>2. \A w \in Workers : At(w) \in Finishing => Phase(w) = "ended" /\ Live(w)
    BY DEF Finishing, Phase, PhaseOf, Ended, Live
  <2>3. Phase(t) = "ended" /\ \A w \in Workers : At(w) \in Finishing => w = t
    BY <1>1, <2>1, <2>2 DEF Arms, WorkersOK
  <2>4. QED
    BY <1>1, <2>1, <2>3 DEF AcquisitionTold, Finishing, Arms, AcquiringOK
<1>2. ASSUME t \in Clients PROVE ~loc[t].was
  <2>1. Stage(t) = pc[t]
    BY DEF Stage, Finishing
  <2>2. QED
    BY <1>2, <2>1 DEF Arms, TeardownOK, Finishing
<1>3. QED
  BY <1>1, <1>2

LEMMA FinishTellTold ==
  ASSUME TypeInv, Control, Arms, AcquisitionTold, NEW t \in Threads, FinishTrigger(t) \/ FinishTell(t)
  PROVE  AcquisitionTold'
<1>1. /\ pc[t] \in Finishing /\ Bystanders(t) /\ OwnLocals(t) /\ st' = st
      /\ FinishTrigger(t) => pc'[t] = "finish_tell" /\ loc' = loc /\ told' = told
      /\ FinishTell(t) => pc'[t] \in {"callback", "finish_end"}
      /\ FinishTell(t) => told'.acquisition = IF loc[t].was THEN told.acquisition - 1 ELSE told.acquisition
  BY GotoForm, CallForm DEF FinishTrigger, FinishTell, Finishing, TypeInv, DataOK, LocalFields, OwnLocals
<1>2. \A u \in Threads : pc'[u] = "start_tell" <=> pc[u] = "start_tell"
  BY <1>1 DEF Bystanders, Bystander, Finishing
<1>3. ASSUME NEW w \in Workers, w # t
      PROVE  (At(w)' \in Finishing <=> At(w) \in Finishing) /\ loc'[w] = loc[w]
  BY <1>1, <1>3, WorkerIds, BystanderAt DEF Bystanders, Finishing, OwnLocals
<1>4. CASE t \in Workers
  <2>1. /\ loc[t].was /\ told.acquisition = 1 /\ At(t) = pc[t] /\ stack[t] = <<>>
        /\ ~st.acquiring /\ \A w \in Workers : At(w) \in Finishing => w = t
    BY <1>1, <1>4, FinishTeller
  <2>2. CASE FinishTrigger(t)
    <3>1. At(t)' = "finish_tell"
      BY <2>1, <2>2, GotoForm, AtGoto DEF FinishTrigger, TypeInv
    <3>2. At(t)' \in Finishing
      BY <3>1 DEF Finishing
    <3>3. QED
      BY <1>1, <1>2, <1>3, <1>4, <2>1, <2>2, <3>2 DEF AcquisitionTold, Finishing
  <2>3. CASE FinishTell(t)
    <3>1. Call(t, "callback", "finish_end")
      BY <2>1, <2>3 DEF FinishTell
    <3>2. At(t)' = "finish_end"
      BY <2>1, <3>1, CallForm, AtCall DEF TypeInv, Returns
    <3>3. told'.acquisition = 0 /\ \A w \in Workers : At(w)' \notin Finishing
      BY <1>1, <1>3, <2>1, <2>3, <3>2 DEF Finishing
    <3>4. \A u \in Threads : pc'[u] = "start_tell" => told'.acquisition = 0
      BY <3>3
    <3>5. QED
      BY <1>1, <2>1, <3>3, <3>4 DEF AcquisitionTold, Finishing
  <2>4. QED
    BY <2>2, <2>3
<1>5. CASE t \in Clients
  <2>1. \A w \in Workers : w # t
    BY <1>5, ClientNoWorker
  <2>2. told'.acquisition = told.acquisition
    BY <1>1, <1>5, FinishTeller
  <2>3. pc[t] # "start_tell" /\ pc'[t] # "start_tell"
    BY <1>1 DEF Finishing
  <2>4. QED
    BY <1>1, <1>3, <2>1, <2>2, <2>3, AcquisitionToldKept
<1>6. QED
  BY <1>4, <1>5, WorkerClient

(* While an arm is committed and reported, no worker ends. *)
LEMMA ReportingFacts ==
  ASSUME TypeInv, Control, Arms, NEW t \in Threads, pc[t] \in {"start_commit", "start_tell"}
  PROVE  /\ \A w \in Workers : At(w) \notin Finishing
         /\ \A u \in Threads : pc[u] = "start_tell" => u = t
         /\ pc[t] = "start_commit" => ~st.acquiring
         /\ pc[t] = "start_tell" => st.acquiring
<1>1. Stage(t) = pc[t]
  BY DEF Stage
<1>2. ASSUME NEW w \in Workers PROVE At(w) \notin Finishing
  <2>1. ASSUME At(w) \in Finishing PROVE FALSE
    <3>1. Phase(w) = "ended"
      BY <2>1 DEF Finishing, Phase, PhaseOf, Ended
    <3>2. st.acquiring \/ st.installing
      BY <1>1 DEF Arms, InstallOK
    <3>3. QED
      BY <1>2, <3>1, <3>2 DEF Arms, AcquiringOK
  <2>2. QED
    BY <2>1
<1>3. \A u \in Threads : pc[u] \in {"start_commit", "start_tell"} => lock.arm = u
  BY OwnerAt DEF Control, ArmSteps
<1>4. QED
  BY <1>1, <1>2, <1>3 DEF Arms, InstallOK

LEMMA ReportTold ==
  ASSUME TypeInv, Control, Arms, AcquisitionTold, NEW t \in Threads, StartCommit(t) \/ StartTell(t)
  PROVE  AcquisitionTold'
<1>1. /\ pc[t] \in {"start_commit", "start_tell"} /\ Bystanders(t) /\ st'.acquiring
      /\ StartCommit(t) => pc[t] = "start_commit" /\ pc'[t] = "start_tell" /\ told' = told /\ stack'[t] = stack[t]
      /\ StartTell(t) => /\ pc[t] = "start_tell" /\ pc'[t] = "callback" /\ stack'[t] = <<"start_told">> \o stack[t]
                         /\ told'.acquisition = told.acquisition + 1
  <2>1. CASE StartCommit(t)
    BY <2>1, GotoForm DEF StartCommit, StartTell, TypeInv, DataOK, StateFields
  <2>2. CASE StartTell(t)
    <3>1. pc[t] = "start_tell" /\ st'.acquiring = st.acquiring /\ told'.acquisition = told.acquisition + 1
      BY <2>2 DEF StartTell, TypeInv, DataOK, StateFields
    <3>2. st.acquiring
      BY <3>1, ReportingFacts
    <3>3. QED
      BY <2>2, <3>1, <3>2, CallForm DEF StartTell, StartCommit, TypeInv
  <2>3. QED
    BY <2>1, <2>2
<1>2. /\ \A w \in Workers : At(w) \notin Finishing
      /\ \A u \in Threads : pc[u] = "start_tell" => u = t
      /\ pc[t] = "start_commit" => ~st.acquiring
  BY <1>1, ReportingFacts
<1>3. t \notin Workers
  BY <1>1, NotForeign DEF Arms, Foreign, ArmSteps
<1>4. \A w \in Workers : At(w)' \notin Finishing
  BY <1>1, <1>2, <1>3, WorkerIds, BystanderAt DEF Bystanders, Finishing
<1>5. told.acquisition = 0
  BY <1>1, <1>2 DEF AcquisitionTold, Finishing
<1>6. \A u \in Threads : u # t => pc'[u] # "start_tell"
  BY <1>1, <1>2 DEF Bystanders, Bystander
<1>7. QED
  BY <1>1, <1>4, <1>5, <1>6 DEF AcquisitionTold, Finishing

LEMMA SpawnTold ==
  ASSUME TypeInv, Control, Arms, AcquisitionTold, NEW t \in Threads, StartSpawn(t)
  PROVE  AcquisitionTold'
<1>1. PICK w \in Workers : w = loc[t].id
  <2>1. loc[t].id \in Workers
    BY DEF TypeInv, ArmIdentified, Arming, StartSpawn
  <2>2. QED
    BY <2>1
<1>2. /\ pc[t] = "start_spawn" /\ pc[w] = "none" /\ st' = st /\ told' = told /\ loc' = loc /\ stack' = stack
      /\ pc' = [pc EXCEPT ![t] = "start_publish", ![w] = "enter"]
  BY <1>1 DEF StartSpawn, Control, NewWorkers
<1>3. \A u \in Threads : pc'[u] = pc[u] \/ {pc[u], pc'[u]} \cap (Finishing \cup {"start_tell"}) = {}
  BY <1>2 DEF TypeInv, ControlOK, Finishing
<1>4. \A u \in Threads : pc'[u] = "start_tell" <=> pc[u] = "start_tell"
  BY <1>3
<1>5. \A v \in Workers : At(v)' \in Finishing <=> At(v) \in Finishing
  BY <1>2, <1>3, WorkerIds DEF At
<1>6. QED
  BY <1>2, <1>4, <1>5 DEF AcquisitionTold, Finishing

LEMMA WorkerTold ==
  ASSUME TypeInv, Control, Arms, AcquisitionTold, NEW w \in Workers, WorkerStep(w)
  PROVE  AcquisitionTold'
<1>1. PICK q \in WorkerSteps \cup {"finish_state"} :
        Goto(w, q) \/ (pc[w] = "deliver" /\ q = "delivered" /\ Call(w, "callback", "delivered"))
  BY WorkerApart
<1>2. w \in Threads /\ pc[w] \in WorkerSteps /\ stack[w] = <<>> /\ At(w) = pc[w]
  BY WorkerIds, WorkerApart, AtBase DEF Arms, WorkerBase
<1>3. Bystanders(w) /\ pc'[w] \in WorkerSteps \cup {"finish_state", "callback"} /\ At(w)' = q
  BY <1>1, <1>2, GotoForm, CallForm, AtGoto, AtCall DEF TypeInv, Returns
<1>4. pc[w] # "start_tell" /\ pc'[w] # "start_tell" /\ At(w) \notin Finishing /\ At(w)' \notin Finishing
  BY <1>1, <1>2, <1>3 DEF WorkerSteps, Finishing
<1>5. \A v \in Workers : /\ At(v)' \in Finishing <=> At(v) \in Finishing
                         /\ At(v) \in Finishing => v # w
  BY <1>3, <1>4, WorkerIds, BystanderAt DEF Bystanders, Finishing
<1>6. OwnLocals(w) /\ told'.acquisition = told.acquisition
  BY WorkerApart DEF OwnLocals
<1>7. st'.acquiring <=> st.acquiring
  BY DEF TypeInv, DataOK, StateFields, WorkerStep, WorkerEnter, WorkerSetup, WorkerConfigured,
     WorkerConfigureFailed, WorkerReport, WorkerQuit, WorkerHold, WorkerLoop, WorkerTake, WorkerReceive,
     WorkerSdk, WorkerFrame, WorkerBufferError, WorkerTimeout, WorkerDiagnose, WorkerAfter,
     WorkerDeliver, WorkerDelivered, WorkerStop, WorkerStopped, WorkerStopFailed, WorkerReconnect
<1>8. QED
  BY <1>2, <1>3, <1>4, <1>5, <1>6, <1>7, AcquisitionToldKept

LEMMA NextAcquisitionTold ==
  ASSUME TypeInv, Control, Arms, AcquisitionTold, [Next]_vars
  PROVE  AcquisitionTold'
<1>1. (Plain \cup {"close_release", "open_publish", "open_read"} \cup Claimed) \cap (Finishing \cup {"start_tell"}) = {}
  BY DEF Plain, Special, Claimed, Finishing
<1>2. ASSUME NEW p, p \notin Special \cup FinishSteps \/ p \in {"close_release", "open_publish", "open_read"} \cup Claimed
      PROVE  p \notin Finishing \cup {"start_tell"}
  BY <1>2 DEF Special, Claimed, Finishing, FinishSteps
<1>3. ASSUME NEW t \in Threads,
             ClientCall(t) \/ CallbackCall(t) \/ CallbackReturn(t) \/ RequestFlag(t) \/ RequestNotify(t) \/
             StopCheck(t) \/ StopLock(t) \/ StopWait(t) \/ StopSignal(t) \/ StopJoin(t) \/ StopUnlock(t)
      PROVE  AcquisitionTold'
  <2>1. PICK q \in Plain : Form(t, q)
    BY <1>3, CallsForm
  <2>2. pc[t] \notin Special \cup WorkerSteps \cup FinishSteps
    BY <1>3, CallsForm
  <2>3. OwnLocals(t) /\ st'.acquiring = st.acquiring /\ told'.acquisition = told.acquisition
    BY <1>3, CallsTold
  <2>4. QED
    BY <1>1, <1>2, <2>1, <2>2, <2>3, OperationTold
<1>4. ASSUME NEW t \in Threads,
             TriggerCheck(t) \/ TriggerQueue(t) \/ Feature(t) \/ Cancel(t) \/ InitAdmit(t) \/
             InitCommand(t) \/ InitPoll(t) \/ InitEnd(t)
      PROVE  AcquisitionTold'
  <2>1. PICK q \in Plain : Form(t, q)
    BY <1>4, AccessForm
  <2>2. pc[t] \notin Special \cup WorkerSteps \cup FinishSteps
    BY <1>4, AccessForm
  <2>3. OwnLocals(t) /\ st'.acquiring = st.acquiring /\ told'.acquisition = told.acquisition
    BY <1>4, CallsTold
  <2>4. QED
    BY <1>1, <1>2, <2>1, <2>2, <2>3, OperationTold
<1>5. ASSUME NEW t \in Threads, FinishEnd(t) PROVE AcquisitionTold'
  <2>1. Form(t, Caller(t)) /\ pc[t] = "finish_end"
    BY <1>5, FinishForm DEF FinishEnd
  <2>2. Caller(t) \notin Finishing \cup {"start_tell"} /\ pc[t] \notin Finishing \cup {"start_tell"}
    BY <2>1, CallersStep DEF TypeInv, Returns, Finishing
  <2>3. OwnLocals(t) /\ st'.acquiring = st.acquiring /\ told'.acquisition = told.acquisition
    BY <1>5, CallsTold
  <2>4. QED
    BY <2>1, <2>2, <2>3, OperationTold
<1>6. ASSUME NEW t \in Threads,
             CloseLock(t) \/ CloseCancel(t) \/ CloseClaim(t) \/ CloseWait(t) \/ CloseTake(t) \/
             CloseRelease(t) \/ CloseEnd(t) \/ LifecycleUnlock(t)
      PROVE  AcquisitionTold'
  <2>1. PICK q \in Plain \cup {"close_release"} : Form(t, q)
    BY <1>6, CloseForm
  <2>2. pc[t] \notin FinishSteps /\ (pc[t] \in Special => pc[t] = "close_release")
    BY <1>6, CloseForm DEF CloseRelease
  <2>3. OwnLocals(t) /\ st'.acquiring = st.acquiring /\ told'.acquisition = told.acquisition
    BY <1>6, LifecycleTold
  <2>4. QED
    BY <1>1, <1>2, <2>1, <2>2, <2>3, OperationTold
<1>7. ASSUME NEW t \in Threads,
             OpenLock(t) \/ OpenHandles(t) \/ OpenPublish(t) \/ OpenRead(t) \/ OpenCheck(t)
      PROVE  AcquisitionTold'
  <2>1. PICK q \in Plain \cup {"lifecycle_unlock", "open_publish", "open_read"} : Form(t, q)
    BY <1>7, OpenForm
  <2>2. pc[t] \notin FinishSteps /\ (pc[t] \in Special => pc[t] \in {"open_publish", "open_read"})
    BY <1>7, OpenForm
  <2>3. OwnLocals(t) /\ st'.acquiring = st.acquiring /\ told'.acquisition = told.acquisition
    BY <1>7, LifecycleTold
  <2>4. "lifecycle_unlock" \notin Finishing \cup {"start_tell"}
    BY DEF Finishing
  <2>5. QED
    BY <1>1, <1>2, <2>1, <2>2, <2>3, <2>4, OperationTold
<1>8. ASSUME NEW t \in Threads,
             StartLock(t) \/ StartCheck(t) \/ StartRejected(t) \/ StartInvalid(t) \/ StartReset(t) \/
             StartPublish(t) \/ StartAwait(t) \/ StartJoin(t) \/ StartTold(t) \/ StartRelease(t) \/
             StartUnlock(t) \/ StartPrearm(t) \/ StartSpawnFailed(t) \/ StartFail(t)
      PROVE  AcquisitionTold'
  <2>1. PICK q \in Plain \cup Claimed : Form(t, q)
    BY <1>8, StartForm, ClaimForm DEF Claimed
  <2>2. pc[t] \notin Finishing \cup {"start_tell"}
    BY <1>8 DEF StartLock, StartCheck, StartRejected, StartInvalid, StartReset, StartPublish, StartAwait,
       StartJoin, StartTold, StartRelease, StartUnlock, StartPrearm, StartSpawnFailed, StartFail, Finishing
  <2>3. OwnLocals(t) /\ (st'.acquiring <=> st.acquiring) /\ told'.acquisition = told.acquisition
    BY <1>8, StartTells, ClaimTells
  <2>4. QED
    BY <1>1, <2>1, <2>2, <2>3, OperationTold
<1>9. ASSUME NEW t \in Threads, ClientCall(t) \/ Operation(t) PROVE AcquisitionTold'
  BY <1>3, <1>4, <1>5, <1>6, <1>7, <1>8, <1>9, FinishStateTold, FinishTellTold, ReportTold, SpawnTold
     DEF Operation
<1>10. ASSUME NEW w \in Workers, WorkerStep(w) PROVE AcquisitionTold'
  BY <1>10, WorkerTold
<1>11. CASE UNCHANGED vars
  BY <1>11 DEF vars, AcquisitionTold, At
<1>12. QED
  BY <1>9, <1>10, <1>11 DEF Next

LEMMA AcquisitionToldInvariant ==
  ASSUME CallbacksDoNotArm
  PROVE  Spec => []AcquisitionTold
<1>1. Init => AcquisitionTold
  <2> SUFFICES ASSUME Init PROVE AcquisitionTold
    OBVIOUS
  <2>1. \A t \in Threads : stack[t] = <<>> /\ pc[t] \in {"idle", "none"}
    BY DEF Init
  <2>2. \A w \in Workers : At(w) \in {"idle", "none"}
    BY <2>1, WorkerIds DEF At
  <2>3. ~st.acquiring /\ told.acquisition = 0
    BY DEF Init
  <2>4. QED
    BY <2>1, <2>2, <2>3 DEF AcquisitionTold
<1>2. TypeInv /\ Control /\ (Arms /\ Connection) /\ AcquisitionTold /\ [Next]_vars => AcquisitionTold'
  BY NextAcquisitionTold
<1>3. QED
  BY <1>1, <1>2, ArmsInvariant, TypeInvariant, ControlInvariant, PTL DEF Spec

(***************************************************************************)
(* Listeners hear active and inactive, connected and disconnected strictly *)
(* in turn, however the threads that report them interleave: each report   *)
(* is the turn of what was reported last.                                  *)
(***************************************************************************)
THEOREM StatusesAlternate == ASSUME CallbacksDoNotArm PROVE Spec => []StatusAlternates
<1>1. TypeInv /\ Control /\ (Arms /\ Connection) /\ ConnectionTold /\ AcquisitionTold => StatusAlternates
  <2> SUFFICES ASSUME TypeInv, Control, Arms, ConnectionTold, AcquisitionTold PROVE StatusAlternates
    OBVIOUS
  <2>1. told.connection \in 0..1
    BY DEF ConnectionTold
  <2>2. told.acquisition \in 0..1
    <3>1. CASE st.acquiring
      BY <3>1 DEF AcquisitionTold
    <3>2. CASE ~st.acquiring
      BY <3>2 DEF AcquisitionTold
    <3>3. QED
      BY <3>1, <3>2
  <2>3. QED
    BY <2>1, <2>2 DEF StatusAlternates
<1>2. QED
  BY <1>1, ArmsInvariant, ConnectionToldInvariant, AcquisitionToldInvariant, TypeInvariant,
     ControlInvariant, PTL

(***************************************************************************)
(* No listener hears inactive while the active callbacks of that           *)
(* acquisition still run: the worker is held until the last has returned,  *)
(* and the thread that joined it has nothing left to report.               *)
(***************************************************************************)
THEOREM InactiveComesLast == ASSUME CallbacksDoNotArm PROVE Spec => InactiveAfterActive
<1>1. ASSUME TypeInv, Control, Arms, Connection, AcquisitionTold, [Next]_vars,
             told'.acquisition < told.acquisition
      PROVE  st.dispatching = NoThread
  <2>1. told.acquisition \in Int
    BY <1>1 DEF TypeInv, DataOK
  <2>2. told'.acquisition # told.acquisition
    BY <1>1, <2>1
  <2>3. PICK t \in Threads : FinishTell(t) \/ StartTell(t)
    <3>1. ASSUME NEW t \in Threads, ClientCall(t) \/ Operation(t), ~FinishTell(t), ~StartTell(t) PROVE FALSE
      <4>1. FinishState(t) \/ FinishTrigger(t) \/ StartSpawn(t) \/ StartCommit(t)
        BY <1>1, <2>2, <3>1, CallsTold, LifecycleTold, StartTells, ClaimTells DEF Operation
      <4>2. told' = told
        BY <4>1 DEF FinishState, FinishTrigger, StartSpawn, StartCommit
      <4>3. QED
        BY <2>2, <4>2
    <3>2. ASSUME NEW w \in Workers, WorkerStep(w) PROVE FALSE
      BY <1>1, <2>2, <3>2, WorkerApart
    <3>3. ~UNCHANGED vars
      BY <2>2 DEF vars
    <3>4. QED
      BY <1>1, <3>1, <3>2, <3>3 DEF Next
  <2>4. FinishTell(t) /\ loc[t].was
    BY <1>1, <2>1, <2>3 DEF StartTell, FinishTell, TypeInv, DataOK
  <2>5. pc[t] \in Finishing /\ t \in Workers /\ ~st.acquiring
    BY <1>1, <2>4, FinishTeller, WorkerClient DEF FinishTell, Finishing
  <2>6. ASSUME NEW u \in Threads, st.dispatching = u PROVE FALSE
    <3>1. Telling(u)
      BY <1>1, <2>6 DEF Connection, Linked
    <3>2. st.acquiring
      BY <1>1, <3>1 DEF Arms, InstallOK
    <3>3. QED
      BY <2>5, <3>2
  <2>7. QED
    BY <1>1, <2>6 DEF TypeInv, DataOK, StateFields
<1>2. TypeInv /\ Control /\ (Arms /\ Connection) /\ AcquisitionTold /\ [Next]_vars
        => [told'.acquisition < told.acquisition => st.dispatching = NoThread]_vars
  BY <1>1
<1>3. QED
  BY <1>2, ArmsInvariant, AcquisitionToldInvariant, TypeInvariant, ControlInvariant, PTL
     DEF Spec, InactiveAfterActive

------------------------------------------------------------------------------
(* What the operations leave of the workers *)

LEMMA OperationAt ==
  ASSUME TypeInv, Control, Arms, NEW t \in Threads, ClientCall(t) \/ Operation(t), ~StartSpawn(t)
  PROVE  /\ Bystanders(t) /\ (\A w \in Workers : AtQuiet(w)) /\ pc[t] \notin WorkerSteps
         /\ pc'[t] \in Claimed => StartPrearm(t) \/ StartReset(t)
         /\ pc'[t] = "close_release" => CloseTake(t)
<1> DEFINE Result == /\ Bystanders(t) /\ (\A w \in Workers : AtQuiet(w)) /\ pc[t] \notin WorkerSteps
                     /\ pc'[t] \in Claimed => StartPrearm(t) \/ StartReset(t)
                     /\ pc'[t] = "close_release" => CloseTake(t)
<1>1. Plain \cap (Claimed \cup {"close_release"}) = {}
  BY DEF Plain, Special
<1>2. CASE ClientCall(t) \/ CallbackCall(t) \/ CallbackReturn(t) \/ RequestFlag(t) \/ RequestNotify(t) \/
           StopCheck(t) \/ StopLock(t) \/ StopWait(t) \/ StopSignal(t) \/ StopJoin(t) \/ StopUnlock(t)
  <2>1. PICK q \in Plain : Form(t, q)
    BY <1>2, CallsForm
  <2>2. pc[t] \notin Special \cup WorkerSteps \cup FinishSteps
    BY <1>2, CallsForm
  <2>3. QED
    BY <1>1, <2>1, <2>2, FormAt
<1>3. CASE TriggerCheck(t) \/ TriggerQueue(t) \/ Feature(t) \/ Cancel(t) \/ InitAdmit(t) \/
           InitCommand(t) \/ InitPoll(t) \/ InitEnd(t)
  <2>1. PICK q \in Plain : Form(t, q)
    BY <1>3, AccessForm
  <2>2. pc[t] \notin Special \cup WorkerSteps \cup FinishSteps
    BY <1>3, AccessForm
  <2>3. QED
    BY <1>1, <2>1, <2>2, FormAt
<1>4. CASE FinishState(t) \/ FinishTrigger(t) \/ FinishTell(t) \/ FinishEnd(t)
  <2>1. PICK q \in {"finish_trigger", "finish_tell", "callback", "finish_end", Caller(t)} : Form(t, q)
    BY <1>4, FinishForm
  <2>2. pc[t] \in FinishSteps /\ pc[t] \notin Special \cup WorkerSteps
    BY <1>4, FinishForm
  <2>3. Caller(t) \notin Claimed \cup {"close_release"}
    BY CallersStep DEF TypeInv, Returns, Claimed
  <2>4. t \in Workers => Caller(t) = "exited"
    BY <2>2, AtBase DEF Arms, WorkerBase, Caller
  <2>5. t \in Workers => q \in FinishSteps \cup {"exited", "callback"}
    BY <2>1, <2>4 DEF FinishSteps
  <2>6. q \notin Claimed \cup {"close_release"}
    BY <2>1, <2>3 DEF Claimed
  <2>7. QED
    BY <2>1, <2>2, <2>5, <2>6, FormAt
<1>5. CASE CloseLock(t) \/ CloseCancel(t) \/ CloseClaim(t) \/ CloseWait(t) \/ CloseTake(t) \/
           CloseRelease(t) \/ CloseEnd(t) \/ LifecycleUnlock(t)
  <2>1. PICK q \in Plain \cup {"close_release"} : Form(t, q) /\ (q = "close_release" => CloseTake(t))
    BY <1>1, <1>5, CloseForm
  <2>2. pc[t] \notin WorkerSteps \cup FinishSteps /\ "close_release" \notin Claimed
    BY <1>5, CloseForm DEF Claimed
  <2>3. QED
    BY <1>1, <2>1, <2>2, FormAt
<1>6. CASE OpenLock(t) \/ OpenHandles(t) \/ OpenPublish(t) \/ OpenRead(t) \/ OpenCheck(t)
  <2>1. PICK q \in Plain \cup {"lifecycle_unlock", "open_publish", "open_read"} : Form(t, q)
    BY <1>6, OpenForm
  <2>2. pc[t] \notin WorkerSteps \cup FinishSteps
    BY <1>6, OpenForm
  <2>3. q \notin Claimed \cup {"close_release"}
    BY <1>1, <2>1 DEF Claimed
  <2>4. QED
    BY <2>1, <2>2, <2>3, FormAt
<1>7. CASE StartLock(t) \/ StartCheck(t) \/ StartRejected(t) \/ StartInvalid(t) \/ StartSpawnFailed(t) \/
           StartPublish(t) \/ StartAwait(t) \/ StartFail(t) \/ StartJoin(t) \/ StartTell(t) \/
           StartTold(t) \/ StartRelease(t) \/ StartUnlock(t)
  <2>1. PICK q \in Plain : Form(t, q)
    BY <1>7, StartForm
  <2>2. pc[t] \notin WorkerSteps \cup FinishSteps
    BY <1>7, StartForm
  <2>3. QED
    BY <1>1, <2>1, <2>2, FormAt
<1>8. CASE StartPrearm(t) \/ StartReset(t) \/ StartCommit(t)
  <2>1. PICK q \in Claimed \cup {"start_tell"} : Form(t, q) /\ (q \in Claimed => StartPrearm(t) \/ StartReset(t))
    BY <1>8, ClaimForm DEF Claimed
  <2>2. pc[t] \notin WorkerSteps \cup FinishSteps
    BY <1>8, ClaimForm DEF WorkerSteps, FinishSteps
  <2>3. q # "close_release"
    BY <2>1 DEF Claimed
  <2>4. QED
    BY <2>1, <2>2, <2>3, FormAt
<1>9. QED
  BY <1>2, <1>3, <1>4, <1>5, <1>6, <1>7, <1>8 DEF Operation

(* A worker that has the device, or has just lost it, is alive. *)
LEMMA LiveAt ==
  ASSUME NEW w \in Workers, At(w) \in HandleSteps \cup {"failed"}
  PROVE  Live(w)
BY DEF Live, Phase, PhaseOf, Ended, HandleSteps

(* What a spawn changes at the bottom of the workers. *)
LEMMA SpawnAt ==
  ASSUME TypeInv, Control, Arms, NEW t \in Threads, StartSpawn(t)
  PROVE  \E w \in Workers :
           /\ w = loc[t].id /\ At(w) = "none" /\ At(w)' = "enter" /\ t \notin Workers
           /\ \A u \in Threads \ {t, w} : pc'[u] = pc[u]
           /\ pc'[t] = "start_publish" /\ pc'[w] = "enter"
           /\ \A v \in Workers : v # w => At(v)' = At(v) /\ ~Live(v)
<1>1. PICK w \in Workers : w = loc[t].id
  <2>1. loc[t].id \in Workers
    BY DEF TypeInv, ArmIdentified, Arming, StartSpawn
  <2>2. QED
    BY <2>1
<1>2. /\ pc[t] = "start_spawn" /\ pc[w] = "none" /\ stack' = stack
      /\ pc' = [pc EXCEPT ![t] = "start_publish", ![w] = "enter"]
  BY <1>1 DEF StartSpawn, Control, NewWorkers
<1>3. w \in Threads /\ stack[w] = <<>>
  BY <1>2, WorkerIds, AtBase DEF Arms, WorkerBase, WorkerSteps
<1>4. t \notin Workers
  BY <1>2, NotForeign DEF Arms, Foreign, ArmSteps
<1>5. NoneLive
  BY <1>2 DEF Arms, ClaimOK, Stage
<1>6. pc'[t] = "start_publish" /\ pc'[w] = "enter" /\ \A u \in Threads \ {t, w} : pc'[u] = pc[u]
  BY <1>2, <1>3 DEF TypeInv, ControlOK
<1>7. QED
  BY <1>1, <1>2, <1>3, <1>4, <1>5, <1>6, WorkerIds DEF At, NoneLive

------------------------------------------------------------------------------
(* Commands and requests *)

Requesting == {"receive", "sdk", "buffer", "diagnose"}
Queueing == {"take", "blocked"}

(* Where the worker now waits for a request or its frame, it did before. *)
Requested(w) ==
  /\ At(w)' \in Requesting \cup Queueing => worker'[w] = worker[w]
  /\ At(w)' \in Requesting => At(w)' = At(w)
  /\ At(w)' \in Queueing => At(w) \in Queueing

LEMMA RequestsKept ==
  ASSUME Requests, trig'.inFlight <=> trig.inFlight,
         \A w \in Workers : Requested(w)
  PROVE  Requests'
BY DEF Requests, Requesting, Queueing, Requested

LEMMA IdleRequests ==
  ASSUME \A w \in Workers : At(w)' \notin Requesting \cup Queueing
  PROVE  Requests'
BY DEF Requests, Requesting, Queueing

LEMMA QuietRequests ==
  ASSUME NEW w \in Workers, AtQuiet(w), worker'[w] = worker[w]
  PROVE  Requested(w)
BY DEF AtQuiet, Requested, Requesting, Queueing, HandleSteps

LEMMA DeadRequests ==
  ASSUME NEW w \in Workers, AtQuiet(w), ~Live(w) \/ At(w) = "finish_trigger"
  PROVE  At(w)' \notin Requesting \cup Queueing
BY LiveAt DEF AtQuiet, Requesting, Queueing, HandleSteps

LEMMA OperationRequests ==
  ASSUME TypeInv, Control, Arms, Requests, NEW t \in Threads, ClientCall(t) \/ Operation(t)
  PROVE  Requests'
<1>1. CASE StartSpawn(t)
  <2>1. PICK w \in Workers : At(w)' = "enter" /\ \A v \in Workers : v # w => At(v)' = At(v) /\ ~Live(v)
    BY <1>1, SpawnAt
  <2>2. \A v \in Workers : At(v)' \notin Requesting \cup Queueing
    BY <2>1, LiveAt DEF Requesting, Queueing, HandleSteps
  <2>3. QED
    BY <2>2, IdleRequests
<1>2. CASE StartPrearm(t) \/ FinishTrigger(t)
  <2>1. \A w \in Workers : AtQuiet(w)
    BY <1>2, OperationAt DEF Operation, StartSpawn, StartPrearm, FinishTrigger
  <2>2. NoneLive \/ (t \in Workers /\ At(t) = "finish_trigger")
    <3>1. Stage(t) = pc[t] /\ pc[t] \in {"start_prearm", "finish_trigger"}
      BY <1>2 DEF Stage, StartPrearm, FinishTrigger
    <3>2. pc[t] = "start_prearm" \/ t \in Clients => NoneLive
      BY <3>1 DEF Arms, ClaimOK, TeardownOK, FinishSteps
    <3>3. QED
      BY <3>1, <3>2, WorkerClient, FinishingAt DEF FinishSteps
  <2>3. ASSUME NEW w \in Workers PROVE At(w)' \notin Requesting \cup Queueing
    <3>1. CASE ~Live(w)
      BY <2>1, <3>1, DeadRequests
    <3>2. CASE w = t /\ At(t) = "finish_trigger"
      BY <2>1, <2>3, <3>2, DeadRequests
    <3>3. ASSUME w # t, Live(w), t \in Workers, At(t) = "finish_trigger" PROVE FALSE
      <4>1. Live(t)
        BY <3>3 DEF Live, Phase, PhaseOf, Ended
      <4>2. QED
        BY <3>3, <4>1 DEF Arms, WorkersOK
    <3>4. QED
      BY <2>2, <2>3, <3>1, <3>2, <3>3 DEF NoneLive
  <2>4. QED
    BY <2>3, IdleRequests
<1>3. CASE ~StartSpawn(t) /\ ~StartPrearm(t) /\ ~FinishTrigger(t)
  <2>1. \A w \in Workers : AtQuiet(w)
    BY <1>3, OperationAt
  <2>2. worker' = worker /\ trig'.inFlight = trig.inFlight
    BY <1>3 DEF TypeInv, DataOK, TriggerFields, ClientCall, Operation, CallbackCall, CallbackReturn,
       RequestFlag, RequestNotify, StopCheck, StopLock, StopWait, StopSignal, StopJoin, StopUnlock,
       FinishState, FinishTell, FinishEnd, TriggerCheck, TriggerQueue, Feature, Cancel, InitAdmit,
       InitCommand, InitPoll, InitEnd, CloseLock, CloseCancel, CloseClaim, CloseWait, CloseTake,
       CloseRelease, CloseEnd, LifecycleUnlock, OpenLock, OpenHandles, OpenPublish, OpenRead,
       OpenCheck, StartLock, StartCheck, StartRejected, StartInvalid, StartReset, StartSpawnFailed,
       StartPublish, StartAwait, StartFail, StartJoin, StartCommit, StartTell, StartTold,
       StartRelease, StartUnlock
  <2>3. QED
    BY <2>1, <2>2, QuietRequests, RequestsKept
<1>4. QED
  BY <1>1, <1>2, <1>3

(* The step of a worker moves no other worker. *)
LEMMA WorkerOthers ==
  ASSUME TypeInv, Control, Arms, NEW w \in Workers, WorkerStep(w)
  PROVE  /\ w \in Threads /\ pc[w] \in WorkerSteps /\ stack[w] = <<>> /\ At(w) = pc[w] /\ loc' = loc
         /\ Bystanders(w) /\ (\A v \in Workers : v # w => At(v)' = At(v) \/ (At(v) = "blocked" /\ At(v)' = "take"))
         /\ \A q : Goto(w, q) => At(w)' = q
         /\ pc[w] # "deliver" => \E q \in WorkerSteps \cup {"finish_state"} : Goto(w, q)
         /\ pc[w] = "deliver" => At(w)' = "delivered"
<1>1. PICK q \in WorkerSteps \cup {"finish_state"} :
        Goto(w, q) \/ (pc[w] = "deliver" /\ q = "delivered" /\ Call(w, "callback", "delivered"))
  BY WorkerApart
<1>2. w \in Threads /\ pc[w] \in WorkerSteps /\ stack[w] = <<>> /\ At(w) = pc[w] /\ loc' = loc
  BY WorkerIds, WorkerApart, AtBase DEF Arms, WorkerBase
<1>3. Bystanders(w)
  BY <1>1, <1>2, GotoForm, CallForm DEF TypeInv
<1>4. \A p : Goto(w, p) => At(w)' = p
  BY <1>2, GotoForm, AtGoto DEF TypeInv
<1>5. pc[w] = "deliver" => At(w)' = "delivered"
  <2>1. pc[w] = "deliver" => Call(w, "callback", "delivered")
    BY DEF WorkerStep, WorkerEnter, WorkerSetup, WorkerConfigured, WorkerConfigureFailed, WorkerReport,
       WorkerQuit, WorkerHold, WorkerLoop, WorkerTake, WorkerReceive, WorkerSdk, WorkerFrame,
       WorkerBufferError, WorkerTimeout, WorkerDiagnose, WorkerAfter, WorkerDeliver, WorkerDelivered,
       WorkerStop, WorkerStopped, WorkerStopFailed, WorkerReconnect
  <2>2. QED
    BY <1>2, <2>1, CallForm, AtCall DEF TypeInv, Returns
<1>6. QED
  BY <1>1, <1>2, <1>3, <1>4, <1>5, WorkerIds, BystanderAt DEF Bystanders

(* The worker that issues commands is the only one alive. *)
LEMMA WorkerRequests ==
  ASSUME TypeInv, Control, Arms, Requests, NEW w \in Workers, WorkerStep(w)
  PROVE  Requests'
<1>1. /\ At(w) = pc[w] /\ w \in Threads
      /\ \A v \in Workers : v # w => At(v)' = At(v) \/ (At(v) = "blocked" /\ At(v)' = "take")
      /\ \A q : Goto(w, q) => At(w)' = q
      /\ pc[w] = "deliver" => At(w)' = "delivered"
  BY WorkerOthers
<1>2. \A v \in Workers : v # w => Requested(v) /\ worker'[v] = worker[v]
  <2>1. \A v \in Workers : v # w => worker'[v] = worker[v]
    BY DEF TypeInv, DataOK, WorkerStep, WorkerEnter, WorkerSetup, WorkerConfigured,
       WorkerConfigureFailed, WorkerReport, WorkerQuit, WorkerHold, WorkerLoop, WorkerTake,
       WorkerReceive, WorkerSdk, WorkerFrame, WorkerBufferError, WorkerTimeout, WorkerDiagnose,
       WorkerAfter, WorkerDeliver, WorkerDelivered, WorkerStop, WorkerStopped, WorkerStopFailed,
       WorkerReconnect
  <2>2. QED
    BY <1>1, <2>1 DEF Requested, Requesting, Queueing
<1>3. CASE WorkerEnter(w) \/ WorkerSetup(w) \/ WorkerConfigured(w) \/ WorkerConfigureFailed(w) \/
           WorkerReport(w) \/ WorkerQuit(w) \/ WorkerHold(w) \/ WorkerFrame(w) \/ WorkerBufferError(w) \/
           WorkerDiagnose(w) \/ WorkerDeliver(w) \/ WorkerDelivered(w) \/ WorkerStop(w) \/
           WorkerStopped(w) \/ WorkerStopFailed(w) \/ WorkerReconnect(w)
  <2>1. trig' = trig
    BY <1>3 DEF WorkerEnter, WorkerSetup, WorkerConfigured, WorkerConfigureFailed, WorkerReport,
       WorkerQuit, WorkerHold, WorkerFrame, WorkerBufferError, WorkerDiagnose, WorkerDeliver,
       WorkerDelivered, WorkerStop, WorkerStopped, WorkerStopFailed, WorkerReconnect
  <2>2. At(w)' \notin Requesting \cup Queueing
    <3>1. CASE WorkerDeliver(w)
      BY <1>1, <3>1 DEF WorkerDeliver, Requesting, Queueing
    <3>2. CASE ~WorkerDeliver(w)
      <4>1. PICK q \in {"setup", "configure", "report", "hold", "quit", "exited", "loop", "after", "sdk_stop",
                        "stopping", "finish_state", "failed"} : Goto(w, q)
        BY <1>3, <3>2 DEF WorkerEnter, WorkerSetup, WorkerConfigured, WorkerConfigureFailed,
           WorkerReport, WorkerQuit, WorkerHold, WorkerFrame, WorkerBufferError, WorkerDiagnose,
           WorkerDelivered, WorkerStop, WorkerStopped, WorkerStopFailed, WorkerReconnect
      <4>2. QED
        BY <1>1, <4>1 DEF Requesting, Queueing
    <3>3. QED
      BY <3>1, <3>2
  <2>3. QED
    BY <1>2, <2>1, <2>2, RequestsKept DEF Requested
<1>4. CASE WorkerLoop(w)
  <2>1. /\ trig' = trig /\ ~worker'[w].issued /\ worker'[w].software = worker[w].software
        /\ worker[w].software => At(w)' \in {"sdk_stop", "take"}
    BY <1>1, <1>4 DEF WorkerLoop, TypeInv, DataOK, WorkerFields
  <2>2. \A v \in Workers : worker'[v].software /\ At(v)' \in Requesting =>
          v # w /\ worker[v].software /\ At(v)' = At(v) /\ worker'[v] = worker[v]
    BY <1>2, <2>1 DEF Requested, Requesting
  <2>3. \A v \in Workers : worker'[v].software /\ At(v)' \in Queueing => ~worker'[v].issued
    BY <1>2, <2>1 DEF Requests, Requested, Queueing
  <2>4. QED
    BY <2>1, <2>2, <2>3 DEF Requests, Requesting, Queueing
<1>5. CASE WorkerTake(w)
  <2>1. /\ worker' = worker /\ pc[w] = "take"
        /\ \/ trig' = trig /\ At(w)' \in {"sdk_stop", "blocked"}
           \/ trig'.inFlight /\ At(w)' = "receive"
    BY <1>1, <1>5 DEF WorkerTake, QueueOnStop
  <2>2. CASE trig' = trig /\ At(w)' \in {"sdk_stop", "blocked"}
    BY <1>1, <1>2, <2>1, <2>2, RequestsKept DEF Requested, Requesting, Queueing
  <2>3. CASE trig'.inFlight /\ At(w)' = "receive"
    <3>1. \A v \in Workers : v # w => At(v)' \notin Requesting
      <4> SUFFICES ASSUME NEW v \in Workers, v # w, At(v)' \in Requesting PROVE FALSE
        OBVIOUS
      <4>1. At(v) \in Requesting
        BY <1>2 DEF Requested
      <4>2. Live(v) /\ Live(w)
        BY <1>1, <2>1, <4>1, LiveAt DEF Requesting, HandleSteps
      <4>3. QED
        BY <4>2 DEF Arms, WorkersOK
    <3>2. worker[w].software => ~worker[w].issued
      BY <1>1, <2>1 DEF Requests
    <3>3. \A v \in Workers : worker[v].software /\ At(v)' \in Queueing => ~worker[v].issued
      BY <1>2, <2>3 DEF Requests, Requested, Queueing
    <3>4. QED
      BY <2>1, <2>3, <3>1, <3>2, <3>3 DEF Requests, Requesting, Queueing
  <2>4. QED
    BY <2>1, <2>2, <2>3
<1>6. CASE WorkerReceive(w) \/ WorkerSdk(w)
  <2>1. /\ trig' = trig /\ pc[w] \in {"receive", "sdk"} /\ At(w)' \in {"after", "sdk", "buffer"}
        /\ worker'[w].software = worker[w].software
        /\ worker'[w].issued => At(w)' = "buffer" \/ worker[w].issued
    BY <1>1, <1>6 DEF WorkerReceive, WorkerSdk, TypeInv, DataOK, WorkerFields
  <2>2. worker[w].software => trig.inFlight /\ ~worker[w].issued
    BY <1>1, <2>1 DEF Requests
  <2>3. ASSUME NEW v \in Workers, worker'[v].software, At(v)' \in Requesting
        PROVE  trig'.inFlight /\ (worker'[v].issued => At(v)' \in {"buffer", "diagnose"})
    <3>1. CASE v = w
      BY <2>1, <2>2, <2>3, <3>1
    <3>2. CASE v # w
      BY <1>2, <2>1, <2>3, <3>2 DEF Requests, Requested, Requesting
    <3>3. QED
      BY <3>1, <3>2
  <2>4. \A v \in Workers : worker'[v].software /\ At(v)' \in Queueing => ~worker'[v].issued
    BY <1>2, <2>1 DEF Requests, Requested, Queueing
  <2>5. QED
    BY <2>3, <2>4 DEF Requests, Requesting, Queueing
<1>7. CASE WorkerTimeout(w)
  <2>1. /\ trig' = trig /\ pc[w] = "buffer" /\ worker' = worker
        /\ worker[w].software => At(w)' \in {"after", "diagnose"}
    BY <1>1, <1>7 DEF WorkerTimeout, AfterTimeout, TypeInv, DataOK
  <2>2. worker[w].software => trig.inFlight
    BY <1>1, <2>1 DEF Requests
  <2>3. ASSUME NEW v \in Workers, worker'[v].software, At(v)' \in Requesting
        PROVE  trig'.inFlight /\ (worker'[v].issued => At(v)' \in {"buffer", "diagnose"})
    <3>1. CASE v = w
      BY <2>1, <2>2, <2>3, <3>1 DEF Requesting
    <3>2. CASE v # w
      BY <1>2, <2>1, <2>3, <3>2 DEF Requests, Requested, Requesting
    <3>3. QED
      BY <3>1, <3>2
  <2>4. \A v \in Workers : worker'[v].software /\ At(v)' \in Queueing => ~worker'[v].issued
    BY <1>2, <2>1 DEF Requests, Requested, Queueing
  <2>5. QED
    BY <2>3, <2>4 DEF Requests, Requesting, Queueing
<1>8. CASE WorkerAfter(w)
  <2>1. At(w)' \in {"deliver", "sdk_stop"} /\ pc[w] = "after"
    BY <1>1, <1>8 DEF WorkerAfter
  <2>2. \A v \in Workers : At(v)' \notin Requesting \cup Queueing
    <3> SUFFICES ASSUME NEW v \in Workers, v # w, At(v)' \in Requesting \cup Queueing PROVE FALSE
      BY <2>1 DEF Requesting, Queueing
    <3>1. At(v) \in Requesting \cup Queueing
      BY <1>2 DEF Requested
    <3>2. Live(v) /\ Live(w)
      BY <1>1, <2>1, <3>1, LiveAt DEF Requesting, Queueing, HandleSteps
    <3>3. QED
      BY <3>2 DEF Arms, WorkersOK
  <2>3. QED
    BY <2>2, IdleRequests
<1>9. QED
  BY <1>3, <1>4, <1>5, <1>6, <1>7, <1>8 DEF WorkerStep

LEMMA RequestsInvariant ==
  ASSUME CallbacksDoNotArm
  PROVE  Spec => []Requests
<1>1. Init => Requests
  <2> SUFFICES ASSUME Init PROVE Requests
    OBVIOUS
  <2>1. \A w \in Workers : At(w) \in {"idle", "none"}
    BY WorkerIds DEF Init, At
  <2>2. QED
    BY <2>1 DEF Requests
<1>2. TypeInv /\ Control /\ (Arms /\ Connection) /\ Requests /\ [Next]_vars => Requests'
  <2> SUFFICES ASSUME TypeInv, Control, Arms, Requests, [Next]_vars PROVE Requests'
    OBVIOUS
  <2>1. CASE UNCHANGED vars
    BY <2>1 DEF vars, Requests, At
  <2>2. QED
    BY <2>1, OperationRequests, WorkerRequests DEF Next
<1>3. QED
  BY <1>1, <1>2, ArmsInvariant, TypeInvariant, ControlInvariant, PTL DEF Spec

(***************************************************************************)
(* Every TriggerSoftware command answers one accepted request: the request *)
(* is in flight for as long as the worker waits for its frame, and no      *)
(* second command is issued for it.                                        *)
(***************************************************************************)
THEOREM CommandsAnswerRequests == ASSUME CallbacksDoNotArm PROVE Spec => []CommandAnswersRequest
<1>1. TypeInv /\ Control /\ (Arms /\ Connection) /\ Requests => CommandAnswersRequest
  <2> SUFFICES ASSUME TypeInv, Control, Arms, Requests PROVE CommandAnswersRequest
    OBVIOUS
  <2>1. \A w \in Workers : pc[w] \in Requesting => At(w) = pc[w]
    BY AtBase DEF Arms, WorkerBase, WorkerSteps, Requesting
  <2>2. QED
    BY <2>1 DEF CommandAnswersRequest, Requests, Requesting
<1>2. QED
  BY <1>1, ArmsInvariant, RequestsInvariant, TypeInvariant, ControlInvariant, PTL

------------------------------------------------------------------------------
(* The configuration of the device, and its stream *)

(* Nothing that the device or its configuration depends on moves. *)
SdkQuiet ==
  /\ worker' = worker /\ preset' = preset
  /\ dev'.mode = dev.mode /\ dev'.selector = dev.selector /\ (dev'.streaming <=> dev.streaming)
  /\ (st'.reconnect <=> st.reconnect) /\ (st'.device <=> st.device) /\ (st'.installing => st.installing)
  /\ st'.initializing \in {st.initializing, NoThread} \/ ~st.reconnect

(* Nobody claims an arm or takes the handles to release them. *)
ClaimsQuiet ==
  /\ \A u \in Threads : pc'[u] \in Claimed => pc[u] \in Claimed /\ loc'[u].id = loc[u].id
  /\ \A u \in Threads : /\ pc'[u] = "close_release" <=> pc[u] = "close_release"
                        /\ pc[u] = "close_release" => (loc'[u].was <=> loc[u].was)

LEMMA QuietWorker ==
  ASSUME NEW w \in Workers, AtQuiet(w), SdkQuiet
  PROVE  /\ At(w)' \in HandleSteps <=> At(w) \in HandleSteps
         /\ At(w)' \in Arriving <=> At(w) \in Arriving
         /\ At(w)' \in Fixed <=> At(w) \in Fixed
         /\ At(w)' \in Waiting <=> At(w) \in Waiting
         /\ At(w)' = "report" <=> At(w) = "report"
         /\ At(w)' = "failed" <=> At(w) = "failed"
         /\ InUse(w)' <=> InUse(w)
         /\ Holds(w)' <=> Holds(w)
         /\ Owes(w)' <=> Owes(w)
         /\ Pinned(w)' <=> Pinned(w)
         /\ Snapshot(w)' <=> Snapshot(w)
<1>1. /\ At(w)' \in HandleSteps <=> At(w) \in HandleSteps
      /\ At(w)' \in Arriving <=> At(w) \in Arriving
      /\ At(w)' \in Fixed <=> At(w) \in Fixed
      /\ At(w)' \in Waiting <=> At(w) \in Waiting
      /\ At(w)' = "report" <=> At(w) = "report"
      /\ At(w)' = "failed" <=> At(w) = "failed"
      /\ At(w)' = "after" <=> At(w) = "after"
  BY DEF AtQuiet, HandleSteps, Arriving, Fixed, Waiting
<1>2. worker'[w] = worker[w]
  BY DEF SdkQuiet
<1>3. (InUse(w)' <=> InUse(w)) /\ (Holds(w)' <=> Holds(w))
  BY <1>1, <1>2 DEF InUse, Holds
<1>4. /\ Owes(w)' <=> Owes(w)
      /\ Pinned(w)' <=> Pinned(w)
      /\ Snapshot(w)' <=> Snapshot(w)
  BY <1>2 DEF SdkQuiet, Owes, Pinned, Snapshot, RestoreMode, RestoreSelector
<1>5. QED
  BY <1>1, <1>3, <1>4

LEMMA QuietConfiguration ==
  ASSUME Configuration, \A w \in Workers : AtQuiet(w), SdkQuiet, ClaimsQuiet
  PROVE  Configuration'
<1>1. ASSUME NEW t \in Threads, pc'[t] \in {"start_reset", "start_spawn"} PROVE Snapshot(loc[t].id)' /\ loc'[t].id = loc[t].id
  <2>1. Snapshot(loc[t].id) /\ loc'[t].id = loc[t].id
    BY <1>1 DEF ClaimsQuiet, Claimed, Configuration
  <2>2. QED
    BY <2>1 DEF Snapshot, SdkQuiet
<1>2. \A t \in Threads : (pc[t] \in {"start_reset", "start_spawn"} => Snapshot(loc[t].id))'
  BY <1>1 DEF Snapshot
<1>3. Settled' <=> Settled
  BY DEF Settled, SdkQuiet
<1>4. \A w \in Workers : (At(w)' \in Waiting => ~worker'[w].received)
  BY QuietWorker DEF Configuration, SdkQuiet
<1>5. \A w \in Workers : /\ At(w)' \in Arriving => Snapshot(w)'
                         /\ At(w)' \in Fixed \/ Holds(w)' => Pinned(w)'
                         /\ InUse(w)' => Owes(w)'
  BY QuietWorker DEF Configuration
<1>6. (\A w \in Workers : ~InUse(w)') => Settled'
  BY <1>3, QuietWorker DEF Configuration
<1>7. QED
  BY <1>2, <1>4, <1>5, <1>6 DEF Configuration

LEMMA QuietStream ==
  ASSUME Stream, \A w \in Workers : AtQuiet(w), SdkQuiet, ClaimsQuiet
  PROVE  Stream'
<1>1. \A t \in Threads : pc'[t] = "close_release" /\ loc'[t].was <=> pc[t] = "close_release" /\ loc[t].was
  BY DEF ClaimsQuiet
<1>2. \A w \in Workers : /\ At(w)' \in HandleSteps \cup {"failed"} <=> At(w) \in HandleSteps \cup {"failed"}
                         /\ At(w)' \in Arriving <=> At(w) \in Arriving
                         /\ At(w)' = "report" <=> At(w) = "report"
                         /\ At(w)' = "failed" <=> At(w) = "failed"
                         /\ InUse(w)' <=> InUse(w)
                         /\ worker'[w] = worker[w]
  BY QuietWorker DEF SdkQuiet
<1>3. dev'.streaming =>
       \/ \E w \in Workers : At(w)' \in HandleSteps \cup {"failed"}
       \/ st'.reconnect
       \/ \E t \in Threads : pc'[t] = "close_release" /\ loc'[t].was
  BY <1>1, <1>2 DEF Stream, SdkQuiet
<1>4. dev'.streaming => st'.device \/ \E t \in Threads : pc'[t] = "close_release" /\ loc'[t].was
  BY <1>1 DEF Stream, SdkQuiet
<1>5. \A w \in Workers : /\ At(w)' \in Arriving => ~dev'.streaming
                         /\ At(w)' = "report" /\ ~worker'[w].received => ~dev'.streaming
                         /\ InUse(w)' \/ At(w)' = "failed" => dev'.streaming
  BY <1>2 DEF Stream, SdkQuiet
<1>6. st'.reconnect => /\ dev'.streaming /\ ~st'.installing /\ st'.initializing = NoThread
                       /\ \A w \in Workers : At(w)' \notin HandleSteps \cup {"failed"}
  BY <1>2 DEF Stream, SdkQuiet
<1>7. (\A t \in Threads : pc'[t] = "close_release" => ~st'.reconnect) /\ (st'.installing => st'.device)
  BY DEF Stream, SdkQuiet, ClaimsQuiet
<1>8. QED
  BY <1>3, <1>4, <1>5, <1>6, <1>7 DEF Stream

LEMMA QuietSdk ==
  ASSUME Configuration, Stream, \A w \in Workers : AtQuiet(w), SdkQuiet, ClaimsQuiet
  PROVE  Configuration' /\ Stream'
BY QuietConfiguration, QuietStream

LEMMA ClaimsKept ==
  ASSUME NEW t \in Threads, Bystanders(t), OwnLocals(t), pc[t] # "close_release", pc'[t] # "close_release",
         pc'[t] \in Claimed => pc[t] \in Claimed /\ loc' = loc
  PROVE  ClaimsQuiet
<1>1. \A u \in Threads : u # t => /\ pc'[u] \in Claimed => pc[u] \in Claimed
                                  /\ pc'[u] = "close_release" <=> pc[u] = "close_release"
                                  /\ loc'[u] = loc[u]
  BY DEF Bystanders, Bystander, OwnLocals, Claimed
<1>2. QED
  BY <1>1 DEF ClaimsQuiet

LEMMA CallsSdk ==
  ASSUME TypeInv, NEW t \in Threads,
         ClientCall(t) \/ CallbackCall(t) \/ CallbackReturn(t) \/ RequestFlag(t) \/ RequestNotify(t) \/
         StopCheck(t) \/ StopLock(t) \/ StopWait(t) \/ StopSignal(t) \/ StopJoin(t) \/ StopUnlock(t) \/
         FinishState(t) \/ FinishTrigger(t) \/ FinishTell(t) \/ FinishEnd(t) \/ TriggerCheck(t) \/
         TriggerQueue(t) \/ Cancel(t) \/ InitAdmit(t) \/ InitCommand(t) \/ InitPoll(t) \/ InitEnd(t) \/
         (Feature(t) /\ ~FeatureAdmitted(t))
  PROVE  OwnLocals(t) /\ SdkQuiet /\ pc[t] # "close_release"
<1>1. OwnLocals(t)
  BY CallsApart
<1>2. worker' = worker /\ preset' = preset /\ dev' = dev /\ pc[t] # "close_release"
  BY DEF ClientCall, CallbackCall, CallbackReturn, RequestFlag, RequestNotify, StopCheck, StopLock,
     StopWait, StopSignal, StopJoin, StopUnlock, FinishState, FinishTrigger, FinishTell, FinishEnd,
     TriggerCheck, TriggerQueue, Feature, Cancel, InitAdmit, InitCommand, InitPoll, InitEnd
<1>3. (st'.reconnect <=> st.reconnect) /\ (st'.device <=> st.device)
  BY DEF TypeInv, DataOK, StateFields, ClientCall, CallbackCall, CallbackReturn, RequestFlag,
     RequestNotify, StopCheck, StopLock, StopWait, StopSignal, StopJoin, StopUnlock, FinishState,
     FinishTrigger, FinishTell, FinishEnd, TriggerCheck, TriggerQueue, Feature, Cancel, InitAdmit,
     InitAdmitted, InitCommand, InitPoll, InitEnd
<1>4. st'.installing => st.installing
  BY DEF TypeInv, DataOK, StateFields, ClientCall, CallbackCall, CallbackReturn, RequestFlag,
     RequestNotify, StopCheck, StopLock, StopWait, StopSignal, StopJoin, StopUnlock, FinishState,
     FinishTrigger, FinishTell, FinishEnd, TriggerCheck, TriggerQueue, Feature, Cancel, InitAdmit,
     InitAdmitted, InitCommand, InitPoll, InitEnd
<1>5. st'.initializing \in {st.initializing, NoThread} \/ ~st.reconnect
  BY DEF TypeInv, DataOK, StateFields, ClientCall, CallbackCall, CallbackReturn, RequestFlag,
     RequestNotify, StopCheck, StopLock, StopWait, StopSignal, StopJoin, StopUnlock, FinishState,
     FinishTrigger, FinishTell, FinishEnd, TriggerCheck, TriggerQueue, Feature, Cancel, InitAdmit,
     InitAdmitted, InitCommand, InitPoll, InitEnd
<1>6. QED
  BY <1>1, <1>2, <1>3, <1>4, <1>5 DEF SdkQuiet

LEMMA LifecycleSdk ==
  ASSUME TypeInv, NEW t \in Threads,
         CloseLock(t) \/ CloseCancel(t) \/ CloseClaim(t) \/ CloseWait(t) \/
         CloseEnd(t) \/ LifecycleUnlock(t) \/ OpenLock(t) \/ OpenHandles(t) \/ OpenRead(t) \/ OpenCheck(t)
  PROVE  OwnLocals(t) /\ SdkQuiet /\ pc[t] # "close_release"
BY DEF TypeInv, DataOK, StateFields, DeviceFields, OwnLocals, SdkQuiet, CloseLock, CloseCancel, CloseClaim,
   CloseWait, CloseEnd, LifecycleUnlock, OpenLock, OpenHandles, OpenRead, OpenCheck

LEMMA StartSdk ==
  ASSUME TypeInv, NEW t \in Threads,
         StartLock(t) \/ StartCheck(t) \/ StartRejected(t) \/ StartReset(t) \/
         StartSpawnFailed(t) \/ StartPublish(t) \/ StartAwait(t) \/ StartFail(t) \/
         StartJoin(t) \/ StartCommit(t) \/ StartTell(t) \/ StartTold(t) \/ StartRelease(t) \/
         StartUnlock(t)
  PROVE  OwnLocals(t) /\ SdkQuiet /\ pc[t] # "close_release"
<1>1. OwnLocals(t)
  BY StartApart
<1>2. worker' = worker /\ preset' = preset /\ dev' = dev /\ pc[t] # "close_release"
  BY DEF StartLock, StartCheck, StartRejected, StartReset, StartSpawnFailed, StartPublish, StartAwait,
     StartFail, StartJoin, StartCommit, StartTell, StartTold, StartRelease, StartUnlock
<1>3. st'.reconnect = st.reconnect /\ st'.device = st.device
  BY DEF TypeInv, DataOK, StateFields, StartLock, StartCheck, StartRejected, StartReset,
     StartSpawnFailed, StartPublish, StartAwait, StartFail, StartJoin, StartCommit, StartTell, StartTold,
     StartRelease, StartUnlock
<1>4. st'.installing => st.installing
  BY DEF TypeInv, DataOK, StateFields, StartLock, StartCheck, StartRejected, StartReset,
     StartSpawnFailed, StartPublish, StartAwait, StartFail, StartJoin, StartCommit, StartTell, StartTold,
     StartRelease, StartUnlock
<1>5. st'.initializing \in {st.initializing, NoThread} \/ ~st.reconnect
  BY DEF TypeInv, DataOK, StateFields, StartLock, StartCheck, StartRejected, StartReset,
     StartSpawnFailed, StartPublish, StartAwait, StartFail, StartJoin, StartCommit, StartTell, StartTold,
     StartRelease, StartUnlock
<1>6. QED
  BY <1>1, <1>2, <1>3, <1>4, <1>5 DEF SdkQuiet

(* The operations that move neither the device nor a claim on it. *)
LEMMA OperationSdk ==
  ASSUME TypeInv, Control, Arms, Configuration, Stream, NEW t \in Threads, ClientCall(t) \/ Operation(t),
         ~(Feature(t) /\ FeatureAdmitted(t)), ~CloseTake(t), ~CloseRelease(t), ~OpenPublish(t),
         ~StartInvalid(t), ~StartPrearm(t), ~StartSpawn(t)
  PROVE  Configuration' /\ Stream'
<1>1. OwnLocals(t) /\ SdkQuiet /\ pc[t] # "close_release"
  BY CallsSdk, LifecycleSdk, StartSdk DEF Operation
<1>2. /\ Bystanders(t) /\ (\A w \in Workers : AtQuiet(w))
      /\ pc'[t] \in Claimed => StartReset(t)
      /\ pc'[t] # "close_release"
  BY OperationAt
<1>3. StartReset(t) => pc[t] \in Claimed /\ loc' = loc
  BY DEF StartReset, Claimed
<1>4. ClaimsQuiet
  BY <1>1, <1>2, <1>3, ClaimsKept
<1>5. QED
  BY <1>1, <1>2, <1>4, QuietSdk

(* While no worker has the device, its configuration is the preset. *)
Idle == \A w \in Workers : At(w) \notin HandleSteps \cup {"failed"}

LEMMA NoneLiveIdle ==
  ASSUME NoneLive
  PROVE  Idle
BY LiveAt DEF NoneLive, Idle

LEMMA IdleKept ==
  ASSUME Idle, \A w \in Workers : AtQuiet(w)
  PROVE  \A w \in Workers : At(w)' \notin HandleSteps \cup {"failed"}
BY DEF Idle, AtQuiet, HandleSteps

LEMMA IdleSettled ==
  ASSUME Idle, Configuration
  PROVE  Settled
BY DEF Idle, Configuration, InUse, HandleSteps

LEMMA IdleConfiguration ==
  ASSUME \A w \in Workers : At(w)' \notin HandleSteps \cup {"failed"}, Settled',
         \A t \in Threads : (pc[t] \in {"start_reset", "start_spawn"} => Snapshot(loc[t].id))'
  PROVE  Configuration'
<1>1. \A w \in Workers : /\ At(w)' \notin Arriving \cup Fixed \cup Waiting
                         /\ ~Holds(w)' /\ ~InUse(w)'
  BY DEF HandleSteps, Arriving, Fixed, Waiting, Holds, InUse
<1>2. QED
  BY <1>1 DEF Configuration

LEMMA IdleStream ==
  ASSUME \A w \in Workers : At(w)' \notin HandleSteps \cup {"failed"},
         dev'.streaming => \/ st'.reconnect /\ st'.device
                           \/ \E t \in Threads : pc'[t] = "close_release" /\ loc'[t].was,
         st'.reconnect => dev'.streaming /\ ~st'.installing /\ st'.initializing = NoThread,
         \A t \in Threads : pc'[t] = "close_release" => ~st'.reconnect,
         st'.installing => st'.device
  PROVE  Stream'
<1>1. \A w \in Workers : At(w)' \notin Arriving \cup {"report"} /\ ~InUse(w)'
  BY DEF HandleSteps, Arriving, InUse
<1>2. QED
  BY <1>1 DEF Stream

LEMMA FeatureSdk ==
  ASSUME TypeInv, Control, Arms, Configuration, Stream, NEW t \in Threads, Feature(t), FeatureAdmitted(t)
  PROVE  Configuration' /\ Stream'
<1>1. (\A w \in Workers : AtQuiet(w)) /\ Bystanders(t) /\ pc'[t] \notin Claimed /\ pc'[t] # "close_release"
  BY OperationAt DEF Operation, Feature, StartSpawn, StartPrearm, StartReset, CloseTake
<1>2. Idle
  <2>1. \A w \in Workers : At(w) \notin HandleSteps
    BY HandleAt, HandlePhase DEF FeatureAdmitted
  <2>2. \A w \in Workers : At(w) # "failed"
    BY DEF FeatureAdmitted, Phase, PhaseOf, Ended, Arms, AcquiringOK
  <2>3. QED
    BY <2>1, <2>2 DEF Idle
<1>3. \A w \in Workers : At(w)' \notin HandleSteps \cup {"failed"}
  BY <1>1, <1>2, IdleKept
<1>4. Settled
  BY <1>2, IdleSettled
<1>5. PICK mode \in AcquisitionModes, selector \in Selectors :
        /\ dev' = [dev EXCEPT !.mode = mode, !.selector = selector]
        /\ preset' = [preset EXCEPT !.mode = IF mode # dev.mode THEN mode ELSE @,
                                    !.selector = IF selector # dev.selector THEN selector ELSE @]
  BY DEF Feature
<1>6. Settled' /\ dev'.streaming = dev.streaming
  BY <1>4, <1>5 DEF Settled, TypeInv, DataOK, DeviceFields, PresetFields
<1>7. st' = st /\ loc' = loc /\ pc[t] = "feature"
  BY DEF Feature
<1>8. \A u \in Threads : pc'[u] \notin {"start_reset", "start_spawn"}
  <2>1. \A u \in Threads : pc[u] \notin {"start_reset", "start_spawn"}
    BY DEF FeatureAdmitted, Arms, ClaimOK, Stage
  <2>2. QED
    BY <1>1, <2>1 DEF Bystanders, Bystander, Claimed
<1>9. \A u \in Threads : pc'[u] = "close_release" <=> pc[u] = "close_release"
  BY <1>1, <1>7 DEF Bystanders, Bystander
<1>10. Configuration'
  BY <1>3, <1>6, <1>8, IdleConfiguration
<1>11. Stream'
  BY <1>2, <1>3, <1>6, <1>7, <1>9, IdleStream DEF Stream, Idle
<1>12. QED
  BY <1>10, <1>11

LEMMA InvalidSdk ==
  ASSUME TypeInv, Control, Arms, Configuration, Stream, NEW t \in Threads, StartInvalid(t)
  PROVE  Configuration' /\ Stream'
<1>1. /\ (\A w \in Workers : AtQuiet(w)) /\ Bystanders(t)
      /\ pc'[t] = "start_unlock"
  BY OperationAt, GotoForm DEF Operation, StartInvalid, StartSpawn, TypeInv
<1>2. Stage(t) = "start_prearm"
  BY DEF StartInvalid, Stage
<1>3. Idle /\ ~st.installing
  BY <1>2, NoneLiveIdle DEF Arms, ClaimOK
<1>4. \A w \in Workers : At(w)' \notin HandleSteps \cup {"failed"}
  BY <1>1, <1>3, IdleKept
<1>5. Settled
  BY <1>3, IdleSettled
<1>6. PICK selector \in SelectorsAfterSnapshot :
        /\ dev' = [dev EXCEPT !.selector = selector]
        /\ preset' = [preset EXCEPT !.selector = IF selector # dev.selector THEN selector ELSE @]
  BY DEF StartInvalid
<1>7. Settled' /\ dev'.streaming = dev.streaming
  BY <1>5, <1>6 DEF Settled, TypeInv, DataOK, DeviceFields, PresetFields
<1>8. /\ st'.device = st.device /\ st'.reconnect = st.reconnect /\ ~st'.installing /\ ~st.reconnect
      /\ loc' = loc /\ pc[t] = "start_prearm"
  BY <1>3 DEF StartInvalid, StartAdmitted, TypeInv, DataOK, StateFields
<1>9. \A u \in Threads : pc'[u] \notin {"start_reset", "start_spawn"}
  <2>1. \A u \in Threads : pc[u] \notin {"start_reset", "start_spawn"}
    BY <1>3 DEF Arms, ClaimOK, Stage
  <2>2. QED
    BY <1>1, <2>1 DEF Bystanders, Bystander, Claimed
<1>10. \A u \in Threads : pc'[u] = "close_release" <=> pc[u] = "close_release"
  BY <1>1, <1>8 DEF Bystanders, Bystander
<1>11. Configuration'
  BY <1>4, <1>7, <1>9, IdleConfiguration
<1>12. Stream'
  BY <1>3, <1>4, <1>7, <1>8, <1>10, IdleStream DEF Stream, Idle
<1>13. QED
  BY <1>11, <1>12

LEMMA PrearmSdk ==
  ASSUME TypeInv, Control, Arms, Connection, Configuration, Stream, NEW t \in Threads, StartPrearm(t)
  PROVE  Configuration' /\ Stream'
<1>1. /\ (\A w \in Workers : AtQuiet(w)) /\ Bystanders(t) /\ pc'[t] = "start_reset"
  BY OperationAt, GotoForm DEF Operation, StartPrearm, StartSpawn, TypeInv
<1>2. Stage(t) = "start_prearm"
  BY DEF StartPrearm, Stage
<1>3. Idle /\ ~st.installing
  BY <1>2, NoneLiveIdle DEF Arms, ClaimOK
<1>4. \A w \in Workers : At(w)' \notin HandleSteps \cup {"failed"}
  BY <1>1, <1>3, IdleKept
<1>5. dev' = dev /\ preset' = preset /\ Settled
  BY <1>3, IdleSettled DEF StartPrearm
<1>6. Settled'
  BY <1>5 DEF Settled
<1>7. /\ st'.device /\ st.device /\ ~st'.reconnect /\ ~st.reconnect
      /\ pc[t] = "start_prearm" /\ OwnLocals(t)
  BY DEF StartPrearm, StartAdmitted, OwnLocals, TypeInv, DataOK, StateFields
<1>8. st.nextId \in Workers
  BY DEF StartPrearm, StartAdmitted, Workers, TypeInv, DataOK, StateFields
<1>9. PICK software \in Software, single \in BOOLEAN :
        worker' = [worker EXCEPT ![st.nextId] =
                     [software |-> software, single |-> single, mode |-> dev.mode,
                      selector |-> dev.selector, issued |-> FALSE, received |-> FALSE]]
  BY DEF StartPrearm
<1>10. loc'[t].id = st.nextId
  BY DEF StartPrearm, TypeInv, DataOK, LocalFields
<1>11. worker'[loc'[t].id].mode = dev'.mode /\ worker'[loc'[t].id].selector = dev'.selector
  BY <1>5, <1>8, <1>9, <1>10 DEF TypeInv, DataOK
<1>12. \A u \in Threads : pc'[u] \in {"start_reset", "start_spawn"} => u = t
  <2>1. \A u \in Threads : pc[u] \notin {"start_reset", "start_spawn"}
    BY <1>3 DEF Arms, ClaimOK, Stage
  <2>2. QED
    BY <1>1, <2>1 DEF Bystanders, Bystander
<1>13. \A u \in Threads : pc'[u] = "close_release" => pc[u] = "close_release"
  BY <1>1 DEF Bystanders, Bystander
<1>14. Configuration'
  <2>1. \A u \in Threads : (pc[u] \in {"start_reset", "start_spawn"} => Snapshot(loc[u].id))'
    BY <1>11, <1>12 DEF Snapshot
  <2>2. QED
    BY <1>4, <1>6, <2>1, IdleConfiguration
<1>15. ~dev.streaming
  <2>1. \A u \in Threads : ~(pc[u] = "close_release" /\ loc[u].was)
    BY <1>7 DEF Connection, Linked, Stream
  <2>2. QED
    BY <1>3, <1>7, <2>1 DEF Stream, Idle
<1>16. Stream'
  BY <1>4, <1>5, <1>7, <1>13, <1>15, IdleStream
<1>17. QED
  BY <1>14, <1>16

LEMMA SpawnSdk ==
  ASSUME TypeInv, Control, Arms, Configuration, Stream, NEW t \in Threads, StartSpawn(t)
  PROVE  Configuration' /\ Stream'
<1>1. PICK w \in Workers :
        /\ w = loc[t].id /\ At(w) = "none" /\ At(w)' = "enter" /\ t \notin Workers
        /\ \A u \in Threads \ {t, w} : pc'[u] = pc[u]
        /\ pc'[t] = "start_publish" /\ pc'[w] = "enter"
        /\ \A v \in Workers : v # w => At(v)' = At(v) /\ ~Live(v)
  BY SpawnAt
<1>2. st' = st /\ dev' = dev /\ preset' = preset /\ worker' = worker /\ loc' = loc /\ pc[t] = "start_spawn"
  BY DEF StartSpawn
<1>3. Idle /\ st.installing /\ st.device
  BY <1>2, NoneLiveIdle DEF Arms, ClaimOK, Stage
<1>4. \A u \in Threads : pc[u] # "close_release"
  BY <1>3 DEF Arms, TeardownOK, Stage
<1>5. ~dev.streaming /\ ~st.reconnect
  BY <1>3, <1>4 DEF Stream, Idle
<1>6. Settled /\ Snapshot(w)
  BY <1>1, <1>2, <1>3, IdleSettled DEF Configuration
<1>7. \A v \in Workers : /\ At(v)' \in HandleSteps \cup {"failed"} => v = w
                         /\ At(v)' \notin Fixed \cup Waiting \cup {"report", "failed"}
                         /\ ~Holds(v)' /\ ~InUse(v)'
  <2>1. \A v \in Workers : At(v)' \in HandleSteps \cup {"failed"} => v = w /\ At(v)' = "enter"
    BY <1>1, LiveAt
  <2>2. QED
    BY <2>1 DEF HandleSteps, Fixed, Waiting, Holds, InUse, Arriving
<1>8. \A u \in Threads : pc'[u] \in {"start_reset", "start_spawn", "close_release"} => pc'[u] = pc[u]
  BY <1>1
<1>9. Configuration'
  <2>1. \A u \in Threads : (pc[u] \in {"start_reset", "start_spawn"} => Snapshot(loc[u].id))'
    BY <1>2, <1>8 DEF Configuration, Snapshot
  <2>2. Settled' /\ Snapshot(w)'
    BY <1>2, <1>6 DEF Settled, Snapshot
  <2>3. \A v \in Workers : At(v)' \in Arriving => Snapshot(v)'
    BY <1>7, <2>2 DEF Arriving, HandleSteps
  <2>4. QED
    BY <1>7, <2>1, <2>2, <2>3 DEF Configuration
<1>10. Stream'
  BY <1>2, <1>3, <1>4, <1>5, <1>7, <1>8 DEF Stream
<1>11. QED
  BY <1>9, <1>10

LEMMA CloseSdk ==
  ASSUME TypeInv, Control, Arms, Connection, Configuration, Stream, NEW t \in Threads,
         CloseTake(t) \/ CloseRelease(t)
  PROVE  Configuration' /\ Stream'
<1>1. /\ (\A w \in Workers : AtQuiet(w)) /\ Bystanders(t) /\ pc'[t] \notin Claimed
      /\ pc[t] \in {"close_take", "close_release"} /\ OwnLocals(t)
  <2>1. pc[t] \in {"close_take", "close_release"} /\ ~StartSpawn(t) /\ ~StartPrearm(t) /\ ~StartReset(t)
    BY DEF CloseTake, CloseRelease, StartSpawn, StartPrearm, StartReset
  <2>2. OwnLocals(t)
    BY DEF CloseTake, CloseRelease, OwnLocals, TypeInv, DataOK
  <2>3. Operation(t)
    BY DEF Operation
  <2>4. QED
    BY <2>1, <2>2, <2>3, OperationAt
<1>2. Idle /\ ~st.installing
  <2>1. ~st.installing /\ \A w \in Workers : Phase(w) \in {"none", "exited", "quit"}
    BY <1>1 DEF Arms, TeardownOK, Stage
  <2>2. QED
    BY <2>1 DEF Idle, Phase, PhaseOf, Ended, HandleSteps
<1>3. \A w \in Workers : At(w)' \notin HandleSteps \cup {"failed"}
  BY <1>1, <1>2, IdleKept
<1>4. \A u \in Threads : u # t => pc[u] # "close_release" /\ pc'[u] # "close_release"
  BY <1>1, ConnectingAlone DEF LifeSteps, Connecting
<1>5. \A u \in Threads : pc'[u] \notin {"start_reset", "start_spawn"}
  <2>1. \A u \in Threads : pc[u] \notin {"start_reset", "start_spawn"}
    BY <1>2 DEF Arms, ClaimOK, Stage
  <2>2. QED
    BY <1>1, <2>1 DEF Bystanders, Bystander, Claimed
<1>6. preset' = preset /\ dev'.mode = dev.mode /\ dev'.selector = dev.selector
  BY DEF CloseTake, CloseRelease, TypeInv, DataOK, DeviceFields
<1>7. Settled'
  BY <1>2, <1>6, IdleSettled DEF Settled
<1>8. Configuration'
  BY <1>3, <1>5, <1>7, IdleConfiguration
<1>9. CASE CloseTake(t)
  <2>1. /\ pc[t] = "close_take" /\ pc'[t] = "close_release" /\ loc'[t].was = st.device /\ dev' = dev
        /\ ~st'.reconnect /\ ~st'.installing
    BY <1>2, <1>9, GotoForm DEF CloseTake, TypeInv, DataOK, StateFields, LocalFields
  <2>2. dev.streaming => st.device
    BY <1>4, <2>1 DEF Stream
  <2>3. Stream'
    BY <1>3, <2>1, <2>2, IdleStream
  <2>4. QED
    BY <1>8, <2>3
<1>10. CASE CloseRelease(t)
  <2>1. /\ pc[t] = "close_release" /\ st' = st /\ ~st.reconnect
        /\ pc'[t] \in {"callback", "close_end"}
        /\ dev'.streaming => dev.streaming /\ ~loc[t].was
    BY <1>10, GotoForm, CallForm DEF CloseRelease, TypeInv, DataOK, DeviceFields, Stream
  <2>2. ~dev'.streaming
    BY <1>2, <1>4, <2>1 DEF Stream, Idle
  <2>3. Stream'
    BY <1>2, <1>3, <1>4, <2>1, <2>2, IdleStream
  <2>4. QED
    BY <1>8, <2>3
<1>11. QED
  BY <1>9, <1>10

LEMMA PublishSdk ==
  ASSUME TypeInv, Control, Arms, Connection, ConnectionTold, Configuration, Stream, NEW t \in Threads,
         OpenPublish(t)
  PROVE  Configuration' /\ Stream'
<1>1. /\ (\A w \in Workers : AtQuiet(w)) /\ Bystanders(t) /\ pc[t] = "open_publish" /\ pc'[t] = "open_read"
      /\ loc' = loc /\ dev' = dev /\ preset' = preset /\ worker' = worker
  BY OperationAt, GotoForm DEF Operation, OpenPublish, StartSpawn, TypeInv
<1>2. \A u \in Threads : u # t => pc[u] # "close_release" /\ pc'[u] # "close_release"
  BY <1>1, ConnectingAlone DEF LifeSteps, Connecting
<1>3. ~st.device
  BY <1>1 DEF ConnectionTold
<1>4. ~dev.streaming /\ ~st.reconnect /\ ~st.installing
  BY <1>1, <1>2, <1>3 DEF Stream
<1>5. st'.device /\ ~st'.reconnect /\ ~st'.installing
  BY <1>4 DEF OpenPublish, TypeInv, DataOK, StateFields
<1>6. Idle
  <2>1. \A w \in Workers : At(w) \in HandleSteps \cup {"failed"} => st.device
    <3>1. \A w \in Workers : At(w) \in HandleSteps => st.device
      BY HandleAt, HandlePhase
    <3>2. \A w \in Workers : At(w) = "failed" => st.device
      BY DEF Phase, PhaseOf, Ended, Arms, WorkersOK
    <3>3. QED
      BY <3>1, <3>2
  <2>2. QED
    BY <1>3, <2>1 DEF Idle
<1>7. \A w \in Workers : At(w)' \notin HandleSteps \cup {"failed"}
  BY <1>1, <1>6, IdleKept
<1>8. \A u \in Threads : pc'[u] \notin {"start_reset", "start_spawn"}
  <2>1. \A u \in Threads : pc[u] \notin {"start_reset", "start_spawn"}
    BY <1>4 DEF Arms, ClaimOK, Stage
  <2>2. QED
    BY <1>1, <2>1 DEF Bystanders, Bystander
<1>9. Settled'
  BY <1>1, <1>6, IdleSettled DEF Settled
<1>10. Configuration'
  BY <1>7, <1>8, <1>9, IdleConfiguration
<1>11. Stream'
  BY <1>1, <1>4, <1>5, <1>7, IdleStream
<1>12. QED
  BY <1>10, <1>11

LEMMA OperationsSdk ==
  ASSUME TypeInv, Control, Arms, Connection, ConnectionTold, Configuration, Stream,
         NEW t \in Threads, ClientCall(t) \/ Operation(t)
  PROVE  Configuration' /\ Stream'
BY OperationSdk, FeatureSdk, InvalidSdk, PrearmSdk, SpawnSdk, CloseSdk, PublishSdk

------------------------------------------------------------------------------
(* What the worker does to the device *)

(* While one worker is alive, Configuration and Stream speak of it alone. *)
Sole(w) ==
  /\ At(w) \in Arriving => Snapshot(w) /\ ~dev.streaming
  /\ At(w) = "report" /\ ~worker[w].received => ~dev.streaming
  /\ At(w) \in Fixed \/ Holds(w) => Pinned(w)
  /\ At(w) \in Waiting => ~worker[w].received
  /\ IF InUse(w) THEN Owes(w) /\ dev.streaming ELSE Settled
  /\ At(w) = "failed" => dev.streaming
  /\ dev.streaming => st.device /\ (At(w) \in HandleSteps \cup {"failed"} \/ st.reconnect)
  /\ st.reconnect => /\ dev.streaming /\ ~st.installing /\ st.initializing = NoThread
                     /\ At(w) \notin HandleSteps \cup {"failed"}
  /\ st.installing => st.device

(* No other worker has the device, and nobody claims or releases it. *)
Alone(w) ==
  /\ \A v \in Workers : v # w => At(v) \notin HandleSteps \cup {"failed"}
  /\ \A u \in Threads : pc[u] \notin {"start_reset", "start_spawn", "close_release"}

LEMMA SoleHolds ==
  ASSUME Configuration, Stream, NEW w \in Workers, Alone(w)
  PROVE  Sole(w)
<1>1. \A v \in Workers : v # w => ~InUse(v)
  BY DEF Alone, InUse, HandleSteps
<1>2. ~InUse(w) => Settled
  BY <1>1 DEF Configuration
<1>3. dev.streaming => st.device /\ (At(w) \in HandleSteps \cup {"failed"} \/ st.reconnect)
  BY DEF Alone, Stream
<1>4. QED
  BY <1>2, <1>3 DEF Sole, Configuration, Stream

LEMMA SoleKeeps ==
  ASSUME NEW w \in Workers, Alone(w)', Sole(w)'
  PROVE  Configuration' /\ Stream'
<1>1. \A v \in Workers : v # w => /\ At(v)' \notin HandleSteps \cup {"failed"} /\ ~InUse(v)' /\ ~Holds(v)'
                                  /\ At(v)' \notin Arriving \cup Fixed \cup Waiting \cup {"report", "failed"}
  BY DEF Alone, InUse, Holds, HandleSteps, Arriving, Fixed, Waiting
<1>2. Configuration'
  BY <1>1 DEF Configuration, Alone, Sole
<1>3. Stream'
  <2>1. dev'.streaming => (\E v \in Workers : At(v)' \in HandleSteps \cup {"failed"}) \/ st'.reconnect
    BY DEF Sole
  <2>2. \A v \in Workers : /\ At(v)' \in Arriving => ~dev'.streaming
                           /\ At(v)' = "report" /\ ~worker'[v].received => ~dev'.streaming
                           /\ InUse(v)' \/ At(v)' = "failed" => dev'.streaming
    BY <1>1 DEF Sole
  <2>3. st'.reconnect => \A v \in Workers : At(v)' \notin HandleSteps \cup {"failed"}
    BY <1>1 DEF Sole
  <2>4. QED
    BY <2>1, <2>2, <2>3 DEF Stream, Sole, Alone
<1>4. QED
  BY <1>2, <1>3

(* A live worker that has not quit is alone with the device. *)
LEMMA WorkerAlone ==
  ASSUME TypeInv, Control, Arms, NEW w \in Workers, WorkerStep(w), pc[w] # "quit"
  PROVE  Alone(w) /\ Alone(w)'
<1>1. /\ w \in Threads /\ pc[w] \in WorkerSteps /\ At(w) = pc[w] /\ Bystanders(w)
      /\ \A v \in Workers : v # w => At(v)' = At(v) \/ (At(v) = "blocked" /\ At(v)' = "take")
  BY WorkerOthers
<1>2. pc[w] \notin {"none", "exited"}
  BY DEF WorkerStep, WorkerEnter, WorkerSetup, WorkerConfigured,
     WorkerConfigureFailed, WorkerReport, WorkerQuit, WorkerHold, WorkerLoop, WorkerTake, WorkerReceive,
     WorkerSdk, WorkerFrame, WorkerBufferError, WorkerTimeout, WorkerDiagnose, WorkerAfter,
     WorkerDeliver, WorkerDelivered, WorkerStop, WorkerStopped, WorkerStopFailed, WorkerReconnect
<1>3. Live(w) /\ Phase(w) \notin {"none", "exited", "quit"}
  BY <1>1, <1>2 DEF Live, Phase, PhaseOf, Ended
<1>4. \A v \in Workers : v # w => At(v) \notin HandleSteps \cup {"failed"}
  BY <1>3, LiveAt DEF Arms, WorkersOK
<1>5. \A v \in Workers : v # w => At(v)' \notin HandleSteps \cup {"failed"}
  BY <1>1, <1>4 DEF HandleSteps
<1>6. \A u \in Threads : pc[u] \notin {"start_reset", "start_spawn", "close_release"}
  BY <1>3 DEF Arms, ClaimOK, TeardownOK, NoneLive, Stage
<1>7. pc'[w] \notin {"start_reset", "start_spawn", "close_release"}
  <2>1. PICK q \in WorkerSteps \cup {"finish_state"} :
          Goto(w, q) \/ (pc[w] = "deliver" /\ q = "delivered" /\ Call(w, "callback", "delivered"))
    BY WorkerApart
  <2>2. pc'[w] \in {q, "callback"}
    BY <1>1, <2>1, GotoForm, CallForm DEF TypeInv
  <2>3. QED
    BY <2>2 DEF WorkerSteps
<1>8. \A u \in Threads : pc'[u] \notin {"start_reset", "start_spawn", "close_release"}
  BY <1>1, <1>6, <1>7 DEF Bystanders, Bystander
<1>9. QED
  BY <1>4, <1>5, <1>6, <1>8 DEF Alone


(* Of the fields, a worker moves only what marks it and a failed stop. *)
LEMMA WorkerState ==
  ASSUME TypeInv, NEW w \in Workers, WorkerStep(w)
  PROVE  /\ st'.device = st.device /\ st'.installing = st.installing
         /\ st'.initializing = st.initializing /\ st'.acquiring = st.acquiring
         /\ st'.reconnect = (st.reconnect \/ WorkerReconnect(w))
         /\ \A v \in Workers : v # w => worker'[v] = worker[v]
<1>1. /\ st'.device = st.device /\ st'.installing = st.installing
      /\ st'.initializing = st.initializing /\ st'.acquiring = st.acquiring
  BY DEF TypeInv, DataOK, StateFields, WorkerStep, WorkerEnter, WorkerSetup, WorkerConfigured,
     WorkerConfigureFailed, WorkerReport, WorkerQuit, WorkerHold, WorkerLoop, WorkerTake,
     WorkerReceive, WorkerSdk, WorkerFrame, WorkerBufferError, WorkerTimeout, WorkerDiagnose,
     WorkerAfter, WorkerDeliver, WorkerDelivered, WorkerStop, WorkerStopped, WorkerStopFailed,
     WorkerReconnect
<1>2. WorkerReconnect(w) => st'.reconnect = TRUE
  BY DEF TypeInv, DataOK, StateFields, WorkerReconnect
<1>3. ~WorkerReconnect(w) => st'.reconnect = st.reconnect
  BY DEF TypeInv, DataOK, StateFields, WorkerStep, WorkerEnter, WorkerSetup, WorkerConfigured,
     WorkerConfigureFailed, WorkerReport, WorkerQuit, WorkerHold, WorkerLoop, WorkerTake,
     WorkerReceive, WorkerSdk, WorkerFrame, WorkerBufferError, WorkerTimeout, WorkerDiagnose,
     WorkerAfter, WorkerDeliver, WorkerDelivered, WorkerStop, WorkerStopped, WorkerStopFailed
<1>4. \A v \in Workers : v # w => worker'[v] = worker[v]
  BY DEF TypeInv, DataOK, WorkerStep, WorkerEnter, WorkerSetup, WorkerConfigured,
     WorkerConfigureFailed, WorkerReport, WorkerQuit, WorkerHold, WorkerLoop, WorkerTake,
     WorkerReceive, WorkerSdk, WorkerFrame, WorkerBufferError, WorkerTimeout, WorkerDiagnose,
     WorkerAfter, WorkerDeliver, WorkerDelivered, WorkerStop, WorkerStopped, WorkerStopFailed,
     WorkerReconnect
<1>5. st.reconnect \in BOOLEAN /\ st'.reconnect \in BOOLEAN
  BY <1>2, <1>3 DEF TypeInv, DataOK, StateFields
<1>6. QED
  BY <1>1, <1>2, <1>3, <1>4, <1>5

(* The worker goes on without touching the device or its claim on it. *)
GoesOn(w) ==
  /\ dev' = dev /\ preset' = preset
  /\ worker'[w].software = worker[w].software /\ worker'[w].mode = worker[w].mode
  /\ worker'[w].selector = worker[w].selector /\ worker'[w].received = worker[w].received
  /\ At(w)' \in Fixed \/ (At(w)' = "after" /\ worker[w].received) => At(w) \in Fixed \/ Holds(w)
  /\ At(w)' \in Waiting => ~worker[w].received
  /\ At(w) \in Arriving <=> At(w)' \in Arriving
  /\ At(w) \in HandleSteps /\ At(w)' \in HandleSteps
  /\ At(w) # "report" /\ At(w)' # "report"

LEMMA GoesOnSole ==
  ASSUME NEW w \in Workers, Sole(w), GoesOn(w), st'.device = st.device,
         st'.installing = st.installing, st'.initializing = st.initializing,
         st'.reconnect = st.reconnect
  PROVE  Sole(w)'
<1>1. InUse(w)' <=> InUse(w)
  BY DEF GoesOn, InUse
<1>2. /\ Snapshot(w)' <=> Snapshot(w)
      /\ Pinned(w)' <=> Pinned(w)
      /\ Owes(w)' <=> Owes(w)
      /\ Settled' <=> Settled
  BY DEF GoesOn, Snapshot, Pinned, Owes, Settled, RestoreMode, RestoreSelector
<1>3. At(w)' \in Fixed \/ Holds(w)' => At(w) \in Fixed \/ Holds(w)
  BY DEF GoesOn, Holds
<1>4. At(w)' # "failed"
  BY DEF GoesOn, HandleSteps
<1>5. QED
  BY <1>1, <1>2, <1>3, <1>4 DEF Sole, GoesOn

LEMMA SteadySdk ==
  ASSUME TypeInv, Control, Arms, NEW w \in Workers, Sole(w),
         WorkerEnter(w) \/ WorkerSetup(w) \/ WorkerHold(w) \/ WorkerTake(w) \/ WorkerReceive(w) \/
         WorkerSdk(w) \/ WorkerBufferError(w) \/ WorkerTimeout(w) \/ WorkerAfter(w) \/
         WorkerDeliver(w) \/ WorkerDelivered(w) \/ WorkerStop(w)
  PROVE  GoesOn(w) /\ ~WorkerReconnect(w)
<1>1. WorkerStep(w)
  BY DEF WorkerStep
<1>2. At(w) = pc[w] /\ (\A q : Goto(w, q) => At(w)' = q) /\ (pc[w] = "deliver" => At(w)' = "delivered")
  BY <1>1, WorkerOthers
<1>3. /\ dev' = dev /\ preset' = preset /\ ~WorkerReconnect(w)
      /\ worker'[w].software = worker[w].software /\ worker'[w].mode = worker[w].mode
      /\ worker'[w].selector = worker[w].selector /\ worker'[w].received = worker[w].received
  BY DEF TypeInv, DataOK, WorkerFields, WorkerEnter, WorkerSetup, WorkerHold, WorkerTake, WorkerReceive,
     WorkerSdk, WorkerBufferError, WorkerTimeout, WorkerAfter, WorkerDeliver, WorkerDelivered, WorkerStop,
     WorkerReconnect
<1>4. /\ At(w) \in Waiting => ~worker[w].received
      /\ At(w) \in HandleSteps /\ At(w) # "report"
  BY <1>2 DEF Sole, HandleSteps, WorkerEnter, WorkerSetup, WorkerHold, WorkerTake, WorkerReceive,
     WorkerSdk, WorkerBufferError, WorkerTimeout, WorkerAfter, WorkerDeliver, WorkerDelivered, WorkerStop
<1>5. \/ At(w) = "enter" /\ At(w)' = "setup"
      \/ At(w) = "setup" /\ At(w)' = "configure"
      \/ At(w) = "hold" /\ At(w)' = "loop"
      \/ At(w) = "take" /\ At(w)' \in {"sdk_stop", "receive", "blocked"}
      \/ At(w) = "receive" /\ At(w)' \in {"after", "sdk"}
      \/ At(w) = "sdk" /\ At(w)' \in {"after", "buffer"}
      \/ At(w) = "buffer" /\ At(w)' \in {"after", "diagnose", "receive"}
      \/ At(w) = "after" /\ At(w)' = (IF worker[w].received THEN "deliver" ELSE "sdk_stop")
      \/ At(w) = "deliver" /\ At(w)' = "delivered"
      \/ At(w) = "delivered" /\ At(w)' \in {"sdk_stop", "loop"}
      \/ At(w) = "sdk_stop" /\ At(w)' = "stopping"
  BY <1>2 DEF WorkerEnter, WorkerSetup, WorkerHold, WorkerTake, WorkerReceive, WorkerSdk,
     WorkerBufferError, WorkerTimeout, AfterTimeout, WorkerAfter, WorkerDeliver, WorkerDelivered,
     WorkerStop
<1>6. /\ At(w)' \in Fixed \/ (At(w)' = "after" /\ worker[w].received) => At(w) \in Fixed \/ Holds(w)
      /\ At(w)' \in Waiting => ~worker[w].received
  BY <1>4, <1>5 DEF Fixed, Holds, Waiting
<1>7. /\ At(w) \in Arriving <=> At(w)' \in Arriving
      /\ At(w) \in HandleSteps /\ At(w)' \in HandleSteps
      /\ At(w) # "report" /\ At(w)' # "report"
  BY <1>4, <1>5 DEF Arriving, HandleSteps
<1>8. QED
  BY <1>3, <1>6, <1>7 DEF GoesOn


(* What a roll-back or a restoration leaves is the preset. *)
LEMMA RestoreSettles ==
  ASSUME TypeInv, NEW w \in Workers, Restore(w),
         Owes(w) \/ (Snapshot(w) /\ Settled)
  PROVE  Settled' /\ ~dev'.streaming
<1>1. PICK mode \in {IF RestoreMode(w) THEN worker[w].mode ELSE dev.mode} \cup LeftMode(w),
           selector \in {IF RestoreSelector(w) THEN worker[w].selector ELSE dev.selector}
                          \cup LeftSelector(w) :
        /\ dev' = [dev EXCEPT !.streaming = FALSE, !.mode = mode, !.selector = selector]
        /\ preset' = [mode |-> IF RestoreMode(w) /\ mode # worker[w].mode THEN mode ELSE preset.mode,
                      selector |-> IF RestoreSelector(w) /\ selector # worker[w].selector
                                     THEN selector ELSE preset.selector]
  BY DEF Restore
<1>2. /\ preset.mode = IF RestoreMode(w) THEN worker[w].mode ELSE dev.mode
      /\ preset.selector = IF RestoreSelector(w) THEN worker[w].selector ELSE dev.selector
  BY DEF Owes, Snapshot, Settled
<1>3. ~RestoreMode(w) => mode = dev.mode
  BY DEF LeftMode
<1>4. ~RestoreSelector(w) => selector = dev.selector
  BY DEF LeftSelector
<1>5. dev'.mode = mode /\ dev'.selector = selector /\ dev'.streaming = FALSE
  BY <1>1 DEF TypeInv, DataOK, DeviceFields
<1>6. preset'.mode = mode /\ preset'.selector = selector
  BY <1>1, <1>2, <1>3, <1>4
<1>7. QED
  BY <1>5, <1>6 DEF Settled

LEMMA ConfiguredSole ==
  ASSUME TypeInv, Control, Arms, NEW w \in Workers, Sole(w), WorkerConfigured(w)
  PROVE  Sole(w)'
<1>1. /\ At(w) = "configure" /\ At(w)' = "report"
  BY WorkerOthers DEF WorkerConfigured, WorkerStep
<1>2. /\ worker'[w].received /\ worker'[w].software = worker[w].software
      /\ worker'[w].mode = worker[w].mode /\ worker'[w].selector = worker[w].selector
  BY DEF WorkerConfigured, TypeInv, DataOK, WorkerFields
<1>3. /\ dev'.streaming = TRUE /\ preset' = preset /\ st' = st
      /\ dev'.mode = IF RestoreMode(w) THEN "Continuous" ELSE dev.mode
      /\ dev'.selector = IF worker[w].software THEN "FrameStart" ELSE dev.selector
  BY DEF WorkerConfigured, TypeInv, DataOK, DeviceFields
<1>4. Snapshot(w) /\ ~dev.streaming /\ ~InUse(w) /\ Settled
  BY <1>1 DEF Sole, Arriving, InUse, HandleSteps
<1>5. st.device
  BY <1>1 DEF Arms, WorkersOK, Phase, PhaseOf, Ended
<1>6. Pinned(w)'
  BY <1>2, <1>3, <1>4 DEF Pinned, Snapshot, RestoreMode
<1>7. Owes(w)'
  BY <1>2, <1>3, <1>4 DEF Owes, Settled, Snapshot, RestoreMode, RestoreSelector
<1>8. ~st.reconnect
  BY <1>4 DEF Sole
<1>9. InUse(w)'
  BY <1>1, <1>2 DEF InUse
<1>10. st.installing => st.device
  BY DEF Sole
<1>11. QED
  BY <1>1, <1>2, <1>3, <1>5, <1>6, <1>7, <1>8, <1>9, <1>10
     DEF Sole, Arriving, Fixed, Waiting, HandleSteps

(* A device that no worker uses and that does not stream. *)
LEMMA AtRestSole ==
  ASSUME NEW w \in Workers, Sole(w), Settled', ~dev'.streaming, ~st'.reconnect,
         st'.installing = st.installing, st'.device = st.device,
         At(w)' \in {"quit", "finish_state"} \/ (At(w)' = "report" /\ ~worker'[w].received)
  PROVE  Sole(w)'
<1>1. /\ ~InUse(w)' /\ ~Holds(w)'
      /\ At(w)' \notin Arriving \cup Fixed \cup Waiting \cup {"failed"}
  BY DEF InUse, Holds, HandleSteps, Arriving, Fixed, Waiting
<1>2. QED
  BY <1>1 DEF Sole

LEMMA RestoredSole ==
  ASSUME TypeInv, Control, Arms, NEW w \in Workers, Sole(w),
         WorkerConfigureFailed(w) \/ WorkerStopped(w)
  PROVE  Sole(w)'
<1>1. /\ At(w) = pc[w] /\ pc[w] \in {"configure", "stopping"}
      /\ \/ At(w)' = "report" /\ ~worker'[w].received
         \/ At(w)' = "finish_state"
  <2>1. WorkerStep(w)
    BY DEF WorkerStep
  <2>2. At(w) = pc[w] /\ \A q : Goto(w, q) => At(w)' = q
    BY <2>1, WorkerOthers
  <2>3. WorkerConfigureFailed(w) => ~worker'[w].received
    BY DEF WorkerConfigureFailed, TypeInv, DataOK, WorkerFields
  <2>4. QED
    BY <2>2, <2>3 DEF WorkerConfigureFailed, WorkerStopped
<1>2. Restore(w) /\ st' = st
  BY DEF WorkerConfigureFailed, WorkerStopped
<1>3. Owes(w) \/ (Snapshot(w) /\ Settled)
  BY <1>1 DEF Sole, InUse, Arriving, HandleSteps
<1>4. Settled' /\ ~dev'.streaming
  BY <1>2, <1>3, RestoreSettles
<1>5. ~st.reconnect
  BY <1>1 DEF Sole, HandleSteps
<1>6. QED
  BY <1>1, <1>2, <1>4, <1>5, AtRestSole

LEMMA ReportSole ==
  ASSUME TypeInv, Control, Arms, NEW w \in Workers, Sole(w), WorkerReport(w)
  PROVE  Sole(w)'
<1>1. /\ At(w) = "report" /\ At(w)' = IF worker[w].received THEN "hold" ELSE "quit"
  BY WorkerOthers DEF WorkerReport, WorkerStep
<1>2. dev' = dev /\ preset' = preset /\ st' = st
  BY DEF WorkerReport
<1>3. ~st.reconnect
  BY <1>1 DEF Sole, HandleSteps
<1>4. CASE ~worker[w].received
  <2>1. Settled /\ ~dev.streaming
    BY <1>1, <1>4 DEF Sole, InUse, Arriving, HandleSteps
  <2>2. Settled' /\ ~dev'.streaming /\ ~st'.reconnect
    BY <1>2, <1>3, <2>1 DEF Settled
  <2>3. QED
    BY <1>1, <1>2, <1>4, <2>2, AtRestSole
<1>5. CASE worker[w].received
  <2>1. /\ worker'[w].software = worker[w].software
        /\ worker'[w].mode = worker[w].mode /\ worker'[w].selector = worker[w].selector
    BY DEF WorkerReport, TypeInv, DataOK, WorkerFields
  <2>2. InUse(w) /\ Holds(w) /\ InUse(w)' /\ At(w)' = "hold"
    BY <1>1, <1>5 DEF InUse, Holds, HandleSteps, Arriving
  <2>3. Pinned(w)' /\ Owes(w)'
    BY <1>2, <2>1, <2>2 DEF Sole, Pinned, Owes, RestoreMode, RestoreSelector
  <2>4. QED
    BY <1>2, <1>3, <2>2, <2>3 DEF Sole, Arriving, Fixed, Waiting, Holds, HandleSteps
<1>6. QED
  BY <1>4, <1>5

(* A frame comes, or the loop waits for the next one. *)
LEMMA FrameSole ==
  ASSUME TypeInv, Control, Arms, NEW w \in Workers, Sole(w), WorkerFrame(w) \/ WorkerLoop(w)
  PROVE  Sole(w)'
<1>1. \/ At(w) = "buffer" /\ At(w)' = "after"
      \/ At(w) = "loop" /\ At(w)' \in {"sdk_stop", "take", "receive"} /\ ~worker'[w].received
  <2>1. WorkerStep(w)
    BY DEF WorkerStep
  <2>2. At(w) = pc[w] /\ \A q : Goto(w, q) => At(w)' = q
    BY <2>1, WorkerOthers
  <2>3. WorkerLoop(w) => ~worker'[w].received
    BY DEF WorkerLoop, TypeInv, DataOK, WorkerFields
  <2>4. QED
    BY <2>2, <2>3 DEF WorkerFrame, WorkerLoop
<1>2. dev' = dev /\ preset' = preset /\ st' = st
  BY DEF WorkerFrame, WorkerLoop
<1>3. /\ worker'[w].software = worker[w].software
      /\ worker'[w].mode = worker[w].mode /\ worker'[w].selector = worker[w].selector
  BY DEF WorkerFrame, WorkerLoop, TypeInv, DataOK, WorkerFields
<1>4. InUse(w) /\ InUse(w)' /\ At(w) \in Fixed
  BY <1>1 DEF InUse, HandleSteps, Arriving, Fixed
<1>5. Pinned(w)' /\ Owes(w)'
  BY <1>2, <1>3, <1>4 DEF Sole, Pinned, Owes, RestoreMode, RestoreSelector
<1>6. ~st.reconnect
  BY <1>4 DEF Sole, Fixed, HandleSteps
<1>7. At(w)' \in HandleSteps \ (Arriving \cup {"report", "failed"}) /\ (At(w)' \in Waiting => ~worker'[w].received)
  BY <1>1 DEF HandleSteps, Arriving, Waiting
<1>8. QED
  BY <1>2, <1>4, <1>5, <1>6, <1>7 DEF Sole

LEMMA DiagnoseSole ==
  ASSUME TypeInv, Control, Arms, NEW w \in Workers, Sole(w), WorkerDiagnose(w)
  PROVE  Sole(w)'
<1>1. /\ At(w) = "diagnose" /\ At(w)' = "after"
  BY WorkerOthers DEF WorkerDiagnose, WorkerStep
<1>2. worker' = worker /\ st' = st
  BY DEF WorkerDiagnose
<1>3. ~worker[w].received /\ InUse(w) /\ InUse(w)' /\ ~Holds(w)'
  BY <1>1, <1>2 DEF Sole, InUse, Holds, HandleSteps, Arriving, Waiting
<1>4. PICK selector \in SelectorsAfterSnapshot :
        /\ dev' = [dev EXCEPT !.selector = selector]
        /\ preset' = [preset EXCEPT !.selector =
                        IF selector # dev.selector /\ ~RestoreSelector(w) THEN selector ELSE @]
  BY DEF WorkerDiagnose
<1>5. /\ dev'.selector = selector /\ dev'.mode = dev.mode /\ dev'.streaming = dev.streaming
      /\ preset'.mode = preset.mode
      /\ preset'.selector = IF selector # dev.selector /\ ~RestoreSelector(w) THEN selector ELSE preset.selector
  BY <1>4 DEF TypeInv, DataOK, DeviceFields, PresetFields
<1>6. Owes(w)
  BY <1>3 DEF Sole
<1>7. Owes(w)'
  BY <1>2, <1>5, <1>6 DEF Owes, RestoreMode, RestoreSelector
<1>8. ~st.reconnect
  BY <1>1 DEF Sole, HandleSteps
<1>9. QED
  BY <1>1, <1>2, <1>3, <1>5, <1>7, <1>8 DEF Sole, Arriving, Fixed, Waiting, HandleSteps

(* A failed stop makes what it leaves the preset, then asks for a reconnection. *)
LEMMA FailedSole ==
  ASSUME TypeInv, Control, Arms, Exclusion, NEW w \in Workers, Sole(w),
         WorkerStopFailed(w) \/ WorkerReconnect(w)
  PROVE  Sole(w)'
<1>1. \/ At(w) = "stopping" /\ At(w)' = "failed" /\ WorkerStopFailed(w)
      \/ At(w) = "failed" /\ At(w)' = "finish_state" /\ WorkerReconnect(w)
  <2>1. WorkerStep(w)
    BY DEF WorkerStep
  <2>2. At(w) = pc[w] /\ \A q : Goto(w, q) => At(w)' = q
    BY <2>1, WorkerOthers
  <2>3. QED
    BY <2>2 DEF WorkerStopFailed, WorkerReconnect
<1>2. /\ At(w)' \notin Arriving \cup Fixed \cup Waiting \cup {"report"} /\ ~InUse(w)' /\ ~Holds(w)'
  BY <1>1 DEF InUse, Holds, HandleSteps, Arriving, Fixed, Waiting
<1>3. dev.streaming /\ st.device
  BY <1>1 DEF Sole, InUse, HandleSteps, Arriving
<1>4. dev' = dev /\ worker' = worker
  BY DEF WorkerStopFailed, WorkerReconnect
<1>5. ~st.installing /\ st.initializing = NoThread
  <2>1. Phase(w) = "running"
    BY <1>1 DEF Phase, PhaseOf, Ended
  <2>2. QED
    BY <2>1 DEF Arms, AcquiringOK, Exclusion
<1>6. CASE WorkerStopFailed(w)
  <2>1. At(w)' = "failed" /\ ~st.reconnect /\ st' = st
    BY <1>1, <1>6 DEF Sole, HandleSteps, WorkerStopFailed, WorkerReconnect
  <2>2. Settled'
    BY <1>6 DEF WorkerStopFailed, Settled
  <2>3. QED
    BY <1>2, <1>3, <1>4, <1>5, <2>1, <2>2 DEF Sole
<1>7. CASE WorkerReconnect(w)
  <2>1. At(w)' = "finish_state" /\ ~InUse(w)
    BY <1>1, <1>7 DEF WorkerStopFailed, WorkerReconnect, InUse, HandleSteps
  <2>2. preset' = preset
    BY <1>7 DEF WorkerReconnect
  <2>3. Settled'
    BY <1>4, <2>1, <2>2 DEF Sole, Settled
  <2>4. /\ st'.reconnect = TRUE /\ st'.installing = st.installing /\ st'.device = st.device
        /\ st'.initializing = st.initializing
    BY <1>7 DEF WorkerReconnect, TypeInv, DataOK, StateFields
  <2>5. QED
    BY <1>2, <1>3, <1>4, <1>5, <2>1, <2>3, <2>4 DEF Sole, HandleSteps
<1>8. QED
  BY <1>6, <1>7

LEMMA WorkerSdkKept ==
  ASSUME TypeInv, Control, Arms, Exclusion, Configuration, Stream, NEW w \in Workers, WorkerStep(w)
  PROVE  Configuration' /\ Stream'
<1>1. CASE pc[w] = "quit"
  <2>1. WorkerQuit(w)
    BY <1>1 DEF WorkerStep, WorkerEnter, WorkerSetup, WorkerConfigured,
       WorkerConfigureFailed, WorkerReport, WorkerQuit, WorkerHold, WorkerLoop, WorkerTake, WorkerReceive,
       WorkerSdk, WorkerFrame, WorkerBufferError, WorkerTimeout, WorkerDiagnose, WorkerAfter,
       WorkerDeliver, WorkerDelivered, WorkerStop, WorkerStopped, WorkerStopFailed, WorkerReconnect
  <2>2. /\ Bystanders(w) /\ loc' = loc /\ w \in Threads
        /\ (\A v \in Workers : v # w => At(v)' = At(v) \/ (At(v) = "blocked" /\ At(v)' = "take"))
        /\ At(w) = "quit" /\ At(w)' = "exited"
    BY <1>1, <2>1, WorkerOthers DEF WorkerQuit
  <2>3. \A v \in Workers : AtQuiet(v)
    BY <2>2 DEF AtQuiet, HandleSteps
  <2>4. SdkQuiet
    BY <2>1 DEF WorkerQuit, SdkQuiet, TypeInv, DataOK, StateFields
  <2>5. pc'[w] = "exited"
    BY <2>1, <2>2, GotoForm DEF WorkerQuit, TypeInv
  <2>6. ClaimsQuiet
    <3>1. OwnLocals(w)
      BY <2>2 DEF OwnLocals
    <3>2. pc'[w] \notin Claimed
      BY <2>5 DEF Claimed
    <3>3. QED
      BY <1>1, <2>2, <2>5, <3>1, <3>2, ClaimsKept
  <2>7. QED
    BY <2>3, <2>4, <2>6, QuietSdk
<1>2. CASE pc[w] # "quit"
  <2>1. Alone(w) /\ Alone(w)'
    BY <1>2, WorkerAlone
  <2>2. Sole(w)
    BY <2>1, SoleHolds
  <2>3. ASSUME WorkerEnter(w) \/ WorkerSetup(w) \/ WorkerHold(w) \/ WorkerTake(w) \/ WorkerReceive(w) \/
               WorkerSdk(w) \/ WorkerBufferError(w) \/ WorkerTimeout(w) \/ WorkerAfter(w) \/
               WorkerDeliver(w) \/ WorkerDelivered(w) \/ WorkerStop(w)
        PROVE  Sole(w)'
    <3>1. GoesOn(w) /\ ~WorkerReconnect(w)
      BY <2>2, <2>3, SteadySdk
    <3>2. /\ st'.device = st.device /\ st'.installing = st.installing
          /\ st'.initializing = st.initializing /\ st'.reconnect = (st.reconnect \/ WorkerReconnect(w))
          /\ st.reconnect \in BOOLEAN
      BY WorkerState DEF TypeInv, DataOK, StateFields
    <3>3. st'.reconnect = st.reconnect
      BY <3>1, <3>2
    <3>4. QED
      BY <2>2, <3>1, <3>2, <3>3, GoesOnSole
  <2>4. Sole(w)'
    BY <1>2, <2>2, <2>3, ConfiguredSole, RestoredSole, ReportSole, FrameSole, DiagnoseSole, FailedSole
       DEF WorkerStep, WorkerQuit
  <2>5. QED
    BY <2>1, <2>4, SoleKeeps
<1>3. QED
  BY <1>1, <1>2


LEMMA InitSdk == Init => Configuration /\ Stream
<1> SUFFICES ASSUME Init PROVE Configuration /\ Stream
  OBVIOUS
<1>1. \A w \in Workers : At(w) = "none"
  BY ThreadsAssumption, WorkerIds DEF Init, At
<1>2. \A w \in Workers : /\ At(w) \notin HandleSteps \cup Arriving \cup Fixed \cup Waiting \cup {"report", "failed"}
                         /\ ~InUse(w) /\ ~Holds(w)
  BY <1>1 DEF InUse, Holds, HandleSteps, Arriving, Fixed, Waiting
<1>3. \A t \in Threads : pc[t] \in {"idle", "none"}
  BY DEF Init
<1>4. Settled /\ ~dev.streaming /\ ~st.reconnect /\ ~st.installing
  BY DEF Init, Settled
<1>5. Configuration
  BY <1>2, <1>3, <1>4 DEF Configuration
<1>6. Stream
  <2>1. \A t \in Threads : pc[t] # "close_release"
    BY <1>3
  <2>2. \A w \in Workers : At(w) \notin Arriving \cup {"report", "failed"} /\ ~InUse(w)
    BY <1>2
  <2>3. QED
    BY <1>4, <2>1, <2>2 DEF Stream
<1>7. QED
  BY <1>5, <1>6

LEMMA NextSdk ==
  ASSUME TypeInv, Control, Arms, Connection, Exclusion, ConnectionTold, Configuration, Stream, [Next]_vars
  PROVE  Configuration' /\ Stream'
<1>1. ASSUME NEW t \in Threads, ClientCall(t) \/ Operation(t) PROVE Configuration' /\ Stream'
  BY <1>1, OperationsSdk
<1>2. ASSUME NEW w \in Workers, WorkerStep(w) PROVE Configuration' /\ Stream'
  BY <1>2, WorkerSdkKept
<1>3. ASSUME UNCHANGED vars PROVE Configuration' /\ Stream'
  <2>1. /\ pc' = pc /\ loc' = loc /\ stack' = stack /\ worker' = worker /\ st' = st /\ dev' = dev
        /\ preset' = preset
    BY <1>3 DEF vars
  <2>2. \A w \in Workers : AtQuiet(w)
    BY <2>1 DEF AtQuiet, At
  <2>3. SdkQuiet /\ ClaimsQuiet
    BY <2>1 DEF SdkQuiet, ClaimsQuiet
  <2>4. QED
    BY <2>2, <2>3, QuietSdk
<1>4. QED
  BY <1>1, <1>2, <1>3 DEF Next

LEMMA SdkInvariant ==
  ASSUME CallbacksDoNotArm
  PROVE  Spec => [](Configuration /\ Stream)
<1>1. TypeInv /\ Control /\ (Arms /\ Connection) /\ Exclusion /\ ConnectionTold
        /\ (Configuration /\ Stream) /\ [Next]_vars => (Configuration /\ Stream)'
  BY NextSdk
<1>2. QED
  BY <1>1, InitSdk, ArmsInvariant, ExclusionInvariant, TypeInvariant, ControlInvariant,
     ConnectionToldInvariant, PTL DEF Spec

------------------------------------------------------------------------------
(* What follows for the device *)

(***************************************************************************)
(* What a failed SDK stop leaves streaming is known to stream until the    *)
(* handle is released, and no arm touches it meanwhile.                    *)
(***************************************************************************)
THEOREM FailedStopsAreFinal == ASSUME CallbacksDoNotArm PROVE Spec => []FailedStopIsFinal
<1>1. TypeInv /\ Control /\ (Arms /\ Connection) /\ (Configuration /\ Stream) => FailedStopIsFinal
  <2> SUFFICES ASSUME TypeInv, Control, Arms, Configuration, Stream PROVE FailedStopIsFinal
    OBVIOUS
  <2>1. \A w \in Workers : At(w) = "failed" => pc[w] = "failed"
    BY AtCallback DEF At
  <2>2. StreamingIsOwned
    BY <2>1, HandleAt DEF StreamingIsOwned, Stream
  <2>3. ReconnectBlocksArming
    BY HandleAt DEF ReconnectBlocksArming, NoWorkerRuns, Stream
  <2>4. QED
    BY <2>2, <2>3 DEF FailedStopIsFinal
<1>2. QED
  BY <1>1, ArmsInvariant, SdkInvariant, TypeInvariant, ControlInvariant, PTL

(***************************************************************************)
(* A feature call that is admitted finds a device at rest, and from the    *)
(* SDK start to the last buffer wait AcquisitionMode and, on a software    *)
(* route, TriggerSelector stay where the arm put them.                     *)
(***************************************************************************)
THEOREM FeaturesKeepOut == ASSUME CallbacksDoNotArm PROVE Spec => []FeaturesAndAcquisitionExclude
<1>1. TypeInv /\ Control /\ (Arms /\ Connection) /\ (Configuration /\ Stream) => FeaturesAndAcquisitionExclude
  <2> SUFFICES ASSUME TypeInv, Control, Arms, Connection, Configuration, Stream
               PROVE  FeaturesAndAcquisitionExclude
    OBVIOUS
  <2>1. FeatureNeedsIdleDevice
    <3> SUFFICES ASSUME NEW t \in Threads, FeatureAdmitted(t) PROVE ~dev.streaming /\ NoWorkerRuns
      BY DEF FeatureNeedsIdleDevice
    <3>1. NoWorkerRuns
      BY HandlePhase DEF FeatureAdmitted, NoWorkerRuns
    <3>2. \A w \in Workers : At(w) \notin HandleSteps \cup {"failed"}
      <4>1. \A w \in Workers : At(w) # "failed"
        BY DEF FeatureAdmitted, Phase, PhaseOf, Ended, Arms, AcquiringOK
      <4>2. QED
        BY <3>1, <4>1, HandleAt DEF NoWorkerRuns
    <3>3. \A u \in Threads : pc[u] # "close_release"
      BY DEF FeatureAdmitted, Connection, Linked
    <3>4. QED
      BY <3>1, <3>2, <3>3 DEF Stream, FeatureAdmitted
  <2>2. PinnedWhileReceiving
    <3> DEFINE S == {"hold", "loop", "take", "blocked", "receive", "sdk", "buffer", "delivered"}
    <3> SUFFICES ASSUME NEW w \in Workers, Within(w, S)
                 PROVE  dev.streaming /\ dev.mode = "Continuous" /\ (worker[w].software => dev.selector = "FrameStart")
      BY DEF PinnedWhileReceiving
    <3>1. At(w) \in Fixed
      <4>1. CASE pc[w] \in S
        <5>1. At(w) = pc[w]
          BY <4>1, AtBase DEF Arms, WorkerBase, WorkerSteps
        <5>2. QED
          BY <4>1, <5>1 DEF Fixed
      <4>2. CASE pc[w] \notin S
        <5>1. PICK i \in DOMAIN stack[w] : stack[w][i] \in S
          BY <4>2 DEF Within
        <5>2. stack[w][i] = "delivered"
          BY <5>1, WorkerIds DEF TypeInv, ControlOK, Returns
        <5>3. At(w) = "delivered"
          BY <5>1, <5>2, DeliveredLast
        <5>4. QED
          BY <5>3 DEF Fixed
      <4>3. QED
        BY <4>1, <4>2
    <3>2. Pinned(w) /\ dev.streaming
      BY <3>1 DEF Configuration, Stream, InUse, Fixed, HandleSteps, Arriving
    <3>3. QED
      BY <3>2 DEF Pinned
  <2>3. QED
    BY <2>1, <2>2 DEF FeaturesAndAcquisitionExclude
<1>2. QED
  BY <1>1, ArmsInvariant, SdkInvariant, TypeInvariant, ControlInvariant, PTL

(***************************************************************************)
(* Whatever was armed, failed to arm or was stopped: a device no worker    *)
(* uses has the mode and the trigger selector the user left, or those a    *)
(* reported failure left behind.                                           *)
(***************************************************************************)
THEOREM PresetIsRestored == ASSUME CallbacksDoNotArm PROVE Spec => []PresetRestored
<1>1. TypeInv /\ Control /\ (Arms /\ Connection) /\ (Configuration /\ Stream) => PresetRestored
  <2> SUFFICES ASSUME TypeInv, Control, Arms, Configuration, NoWorkerRuns PROVE Settled
    BY DEF PresetRestored, Settled
  <2>1. \A w \in Workers : ~InUse(w)
    BY HandleAt DEF NoWorkerRuns, InUse, HandleSteps
  <2>2. QED
    BY <2>1 DEF Configuration
<1>2. QED
  BY <1>1, ArmsInvariant, SdkInvariant, TypeInvariant, ControlInvariant, PTL


------------------------------------------------------------------------------
(* The facade implements DeviceMode *)

(* Neither what the facade admits nor the stream changes. *)
ModeStays ==
  /\ st'.device = st.device /\ st'.initializing = st.initializing /\ st'.installing = st.installing
  /\ st'.acquiring = st.acquiring /\ st'.reconnect = st.reconnect
  /\ dev'.streaming = dev.streaming

AbstractStep == [Abstract!Next]_(Abstract!vars)

LEMMA SameMode ==
  ASSUME DeviceModeOf' = DeviceModeOf, dev'.streaming = dev.streaming
  PROVE  AbstractStep
BY DEF AbstractStep, Abstract!vars

LEMMA ModeStaysAbstract ==
  ASSUME ModeStays
  PROVE  AbstractStep
<1>1. DeviceModeOf' = DeviceModeOf /\ dev'.streaming = dev.streaming
  BY DEF ModeStays, DeviceModeOf
<1>2. QED
  BY <1>1, SameMode

(* The steps of DeviceMode, by the modes they lead from and to. *)
LEMMA ModeChanges ==
  ASSUME NEW from, NEW to, DeviceModeOf = from, DeviceModeOf' = to,
         dev.streaming \in BOOLEAN, dev'.streaming = dev.streaming,
         \/ from = "closed" /\ to = "ready" /\ ~dev.streaming
         \/ from \in {"ready", "fault"} /\ to = "closed"
         \/ from = "ready" /\ to \in {"initializing", "arming"}
         \/ from = "initializing" /\ to = "ready"
         \/ from \in {"arming", "armed"} /\ to = "ready" /\ ~dev.streaming
         \/ from = "arming" /\ to = "armed" /\ dev.streaming
         \/ from = "armed" /\ to = "fault" /\ dev.streaming
  PROVE  AbstractStep
<1>1. ASSUME from = "closed", to = "ready", ~dev.streaming PROVE Abstract!Open
  BY <1>1 DEF Abstract!Open, Abstract!Become
<1>2. ASSUME from \in {"ready", "fault"}, to = "closed" PROVE Abstract!Close
  BY <1>2 DEF Abstract!Close, Abstract!Become
<1>3. ASSUME from = "ready", to = "initializing" PROVE Abstract!BeginInitialization
  BY <1>3 DEF Abstract!BeginInitialization, Abstract!Become
<1>4. ASSUME from = "ready", to = "arming" PROVE Abstract!BeginArming
  BY <1>4 DEF Abstract!BeginArming, Abstract!Become
<1>5. ASSUME from = "initializing", to = "ready" PROVE Abstract!EndInitialization
  BY <1>5 DEF Abstract!EndInitialization, Abstract!Become
<1>6. ASSUME from = "arming", to = "ready", ~dev.streaming PROVE Abstract!AbandonArming
  BY <1>6 DEF Abstract!AbandonArming, Abstract!Become
<1>7. ASSUME from = "armed", to = "ready", ~dev.streaming PROVE Abstract!Disarm
  BY <1>7 DEF Abstract!Disarm, Abstract!Become
<1>8. ASSUME from = "arming", to = "armed", dev.streaming PROVE Abstract!Arm
  BY <1>8 DEF Abstract!Arm, Abstract!Become
<1>9. ASSUME from = "armed", to = "fault", dev.streaming PROVE Abstract!Fail
  BY <1>9 DEF Abstract!Fail, Abstract!Become
<1>10. QED
  BY <1>1, <1>2, <1>3, <1>4, <1>5, <1>6, <1>7, <1>8, <1>9 DEF AbstractStep, Abstract!Next

LEMMA StreamChanges ==
  ASSUME DeviceModeOf' = DeviceModeOf,
         \/ DeviceModeOf = "arming" /\ ~dev.streaming /\ dev'.streaming = TRUE
         \/ DeviceModeOf \in {"armed", "closed"} /\ dev'.streaming = FALSE
  PROVE  AbstractStep
<1>1. ASSUME DeviceModeOf = "arming", ~dev.streaming, dev'.streaming = TRUE PROVE Abstract!StartStreaming
  BY <1>1 DEF Abstract!StartStreaming
<1>2. ASSUME DeviceModeOf = "armed", dev'.streaming = FALSE PROVE Abstract!StopStreaming
  BY <1>2 DEF Abstract!StopStreaming
<1>3. ASSUME DeviceModeOf = "closed", dev'.streaming = FALSE PROVE Abstract!Release
  BY <1>3 DEF Abstract!Release
<1>4. QED
  BY <1>1, <1>2, <1>3 DEF AbstractStep, Abstract!Next

(* The mode of the facade while an arm is set up, runs, or none is alive. *)
LEMMA SetupMode ==
  ASSUME TypeInv, Control, Arms, Exclusion, NEW w \in Workers, Phase(w) \in {"enter", "setup"}
  PROVE  st.device /\ st.installing /\ ~st.acquiring /\ st.initializing = NoThread
<1>1. st.device /\ Live(w)
  BY DEF Arms, WorkersOK, Live
<1>2. ~st.acquiring
  <2>1. ASSUME st.acquiring PROVE FALSE
    <3>1. st.activeId \in Workers /\ Phase(st.activeId) \in {"hold", "running"}
      BY <2>1 DEF Arms, AcquiringOK
    <3>2. Live(st.activeId)
      BY <3>1 DEF Live
    <3>3. QED
      BY <1>1, <3>1, <3>2 DEF Arms, WorkersOK
  <2>2. QED
    BY <2>1
<1>3. st.installing
  <2>1. PICK a \in Threads : InstallsBy(a, w)
    BY DEF Arms, WorkersOK, Installs
  <2>2. Stage(a) # "start_join" /\ (Stage(a) = "start_fail" => st.installing)
    BY <2>1 DEF InstallsBy, Arms, InstallOK
  <2>3. QED
    BY <2>1, <2>2 DEF InstallsBy, Arms, InstallOK
<1>4. QED
  BY <1>1, <1>2, <1>3 DEF Exclusion

LEMMA RunningMode ==
  ASSUME Arms, Exclusion, NEW w \in Workers, Phase(w) = "running"
  PROVE  st.device /\ st.acquiring /\ ~st.installing /\ st.initializing = NoThread
BY DEF Arms, WorkersOK, AcquiringOK, Exclusion

LEMMA AcquiringLive ==
  ASSUME Arms, st.acquiring
  PROVE  st.device /\ ~NoneLive
<1>1. st.activeId \in Workers /\ Phase(st.activeId) \in {"hold", "running"}
  BY DEF Arms, AcquiringOK
<1>2. QED
  BY <1>1 DEF Live, NoneLive, Arms, WorkersOK

LEMMA IdleStill ==
  ASSUME Connection, Stream, st.device, ~st.reconnect, Idle
  PROVE  ~dev.streaming
<1>1. \A u \in Threads : pc[u] # "close_release"
  BY DEF Connection, Linked
<1>2. QED
  BY <1>1 DEF Stream, Idle

------------------------------------------------------------------------------
(* Each step maps to a step or a stutter *)

Mapped == TypeInv /\ Control /\ Arms /\ Connection /\ Exclusion /\ ConnectionTold /\ Configuration /\ Stream

LEMMA StillOperations ==
  ASSUME Mapped, NEW t \in Threads,
         ClientCall(t) \/ CallbackCall(t) \/ CallbackReturn(t) \/ RequestFlag(t) \/ RequestNotify(t) \/
         StopCheck(t) \/ StopLock(t) \/ StopWait(t) \/ StopSignal(t) \/ StopJoin(t) \/ StopUnlock(t) \/
         FinishTrigger(t) \/ FinishTell(t) \/ FinishEnd(t) \/ TriggerCheck(t) \/ TriggerQueue(t) \/
         Feature(t) \/ Cancel(t) \/ InitCommand(t) \/ InitPoll(t) \/
         CloseLock(t) \/ CloseCancel(t) \/ CloseClaim(t) \/ CloseWait(t) \/ CloseEnd(t) \/
         LifecycleUnlock(t) \/ OpenLock(t) \/ OpenHandles(t) \/ OpenRead(t) \/ OpenCheck(t)
  PROVE  ModeStays
<1>1. /\ st'.device = st.device /\ st'.initializing = st.initializing /\ st'.installing = st.installing
      /\ st'.acquiring = st.acquiring /\ st'.reconnect = st.reconnect
  BY DEF Mapped, TypeInv, DataOK, StateFields, ClientCall, CallbackCall, CallbackReturn, RequestFlag,
     RequestNotify, StopCheck, StopLock, StopWait, StopSignal, StopJoin, StopUnlock, FinishTrigger,
     FinishTell, FinishEnd, TriggerCheck, TriggerQueue, Feature, Cancel, InitCommand, InitPoll,
     CloseLock, CloseCancel, CloseClaim, CloseWait, CloseEnd, LifecycleUnlock, OpenLock, OpenHandles,
     OpenRead, OpenCheck
<1>2. dev'.streaming = dev.streaming
  BY DEF Mapped, TypeInv, DataOK, DeviceFields, ClientCall, CallbackCall, CallbackReturn, RequestFlag,
     RequestNotify, StopCheck, StopLock, StopWait, StopSignal, StopJoin, StopUnlock, FinishTrigger,
     FinishTell, FinishEnd, TriggerCheck, TriggerQueue, Feature, Cancel, InitCommand, InitPoll,
     CloseLock, CloseCancel, CloseClaim, CloseWait, CloseEnd, LifecycleUnlock, OpenLock, OpenHandles,
     OpenRead, OpenCheck
<1>3. QED
  BY <1>1, <1>2 DEF ModeStays

LEMMA StillStart ==
  ASSUME Mapped, NEW t \in Threads,
         StartLock(t) \/ StartCheck(t) \/ StartRejected(t) \/ StartInvalid(t) \/ StartReset(t) \/
         StartSpawn(t) \/ StartPublish(t) \/ StartAwait(t) \/ StartJoin(t) \/ StartTell(t) \/
         StartTold(t) \/ StartRelease(t) \/ StartUnlock(t)
  PROVE  ModeStays
<1>1. /\ st'.device = st.device /\ st'.initializing = st.initializing /\ st'.installing = st.installing
      /\ st'.acquiring = st.acquiring /\ st'.reconnect = st.reconnect
  BY DEF Mapped, TypeInv, DataOK, StateFields, StartLock, StartCheck, StartRejected, StartInvalid,
     StartReset, StartSpawn, StartPublish, StartAwait, StartJoin, StartTell, StartTold, StartRelease,
     StartUnlock
<1>2. dev'.streaming = dev.streaming
  BY DEF Mapped, TypeInv, DataOK, DeviceFields, StartLock, StartCheck, StartRejected, StartInvalid,
     StartReset, StartSpawn, StartPublish, StartAwait, StartJoin, StartTell, StartTold, StartRelease,
     StartUnlock
<1>3. QED
  BY <1>1, <1>2 DEF ModeStays

LEMMA StillWorker ==
  ASSUME Mapped, NEW w \in Workers, WorkerStep(w),
         ~WorkerConfigured(w), ~WorkerConfigureFailed(w), ~WorkerStopped(w), ~WorkerReconnect(w)
  PROVE  ModeStays
<1>1. /\ st'.device = st.device /\ st'.initializing = st.initializing /\ st'.installing = st.installing
      /\ st'.acquiring = st.acquiring /\ st'.reconnect = (st.reconnect \/ WorkerReconnect(w))
      /\ st.reconnect \in BOOLEAN
  BY WorkerState DEF Mapped, TypeInv, DataOK, StateFields
<1>2. st'.reconnect = st.reconnect
  BY <1>1
<1>3. dev'.streaming = dev.streaming
  BY DEF Mapped, TypeInv, DataOK, DeviceFields, WorkerStep, WorkerEnter, WorkerSetup, WorkerReport,
     WorkerQuit, WorkerHold, WorkerLoop, WorkerTake, WorkerReceive, WorkerSdk, WorkerFrame,
     WorkerBufferError, WorkerTimeout, WorkerDiagnose, WorkerAfter, WorkerDeliver, WorkerDelivered,
     WorkerStop, WorkerStopFailed
<1>4. QED
  BY <1>1, <1>2, <1>3 DEF ModeStays


(* Configuring starts the stream of an arm; stopping it ends that of an acquisition. *)
LEMMA WorkerMapped ==
  ASSUME Mapped, NEW w \in Workers,
         WorkerConfigured(w) \/ WorkerConfigureFailed(w) \/ WorkerStopped(w) \/ WorkerReconnect(w)
  PROVE  AbstractStep
<1>1. At(w) = pc[w]
  BY WorkerOthers DEF Mapped, WorkerStep
<1>2. CASE WorkerConfigured(w) \/ WorkerConfigureFailed(w)
  <2>1. At(w) = "configure" /\ Phase(w) = "setup" /\ st' = st
    BY <1>1, <1>2 DEF WorkerConfigured, WorkerConfigureFailed, Phase, PhaseOf, Ended
  <2>2. ~dev.streaming
    BY <2>1 DEF Mapped, Stream, Arriving
  <2>3. st.device /\ st.installing /\ ~st.acquiring /\ st.initializing = NoThread
    BY <2>1, SetupMode DEF Mapped
  <2>4. DeviceModeOf = "arming" /\ DeviceModeOf' = DeviceModeOf
    BY <2>1, <2>3 DEF DeviceModeOf
  <2>5. CASE WorkerConfigured(w)
    <3>1. dev'.streaming = TRUE
      BY <2>5 DEF WorkerConfigured, Mapped, TypeInv, DataOK, DeviceFields
    <3>2. QED
      BY <2>2, <2>4, <3>1, StreamChanges
  <2>6. CASE WorkerConfigureFailed(w)
    <3>1. dev'.streaming = FALSE /\ dev.streaming \in BOOLEAN
      BY <2>6 DEF WorkerConfigureFailed, Restore, Mapped, TypeInv, DataOK, DeviceFields
    <3>2. dev'.streaming = dev.streaming
      BY <2>2, <3>1
    <3>3. QED
      BY <2>4, <3>2, SameMode
  <2>7. QED
    BY <1>2, <2>5, <2>6
<1>3. CASE WorkerStopped(w) \/ WorkerReconnect(w)
  <2>1. At(w) \in {"stopping", "failed"} /\ Phase(w) = "running"
    BY <1>1, <1>3 DEF WorkerStopped, WorkerReconnect, Phase, PhaseOf, Ended
  <2>2. st.device /\ st.acquiring /\ ~st.installing /\ st.initializing = NoThread
    BY <2>1, RunningMode DEF Mapped
  <2>3. /\ st'.device = st.device /\ st'.acquiring = st.acquiring
        /\ st'.installing = st.installing /\ st'.initializing = st.initializing
    BY <1>3 DEF WorkerStopped, WorkerReconnect, Mapped, TypeInv, DataOK, StateFields
  <2>4. DeviceModeOf = "armed" /\ DeviceModeOf' = "armed"
    BY <2>2, <2>3 DEF DeviceModeOf
  <2>5. CASE WorkerStopped(w)
    <3>1. dev'.streaming = FALSE
      BY <2>5 DEF WorkerStopped, Restore, Mapped, TypeInv, DataOK, DeviceFields
    <3>2. QED
      BY <2>4, <3>1, StreamChanges
  <2>6. CASE WorkerReconnect(w)
    <3>1. dev' = dev
      BY <2>6 DEF WorkerReconnect
    <3>2. QED
      BY <2>4, <3>1, SameMode
  <2>7. QED
    BY <1>3, <2>5, <2>6
<1>4. QED
  BY <1>2, <1>3

(* The worker disarms, or leaves a fault; the thread that joined it finds nothing to clear. *)
LEMMA FinishMapped ==
  ASSUME Mapped, NEW t \in Threads, FinishState(t)
  PROVE  AbstractStep
<1>1. /\ st'.device = st.device /\ st'.initializing = st.initializing /\ st'.reconnect = st.reconnect
      /\ st'.acquiring = FALSE /\ st'.installing = FALSE /\ dev' = dev
      /\ dev.streaming \in BOOLEAN /\ st.acquiring \in BOOLEAN /\ st.installing \in BOOLEAN
  BY DEF FinishState, Mapped, TypeInv, DataOK, StateFields, DeviceFields
<1>2. pc[t] = "finish_state" /\ Stage(t) = "finish_state"
  BY DEF FinishState, Stage
<1>3. CASE t \in Clients
  <2>1. NoneLive /\ ~st.installing
    BY <1>2, <1>3 DEF Mapped, Arms, TeardownOK, FinishSteps
  <2>2. ~st.acquiring
    BY <2>1, AcquiringLive DEF Mapped
  <2>3. ModeStays
    BY <1>1, <2>1, <2>2 DEF ModeStays
  <2>4. QED
    BY <2>3, ModeStaysAbstract
<1>4. CASE t \in Workers
  <2>1. At(t) = "finish_state"
    BY <1>2, <1>4, AtBase DEF Mapped, Arms, WorkerBase, FinishSteps
  <2>2. Phase(t) = "running" /\ Live(t)
    BY <2>1 DEF Phase, PhaseOf, Ended, Live
  <2>3. st.device /\ st.acquiring /\ ~st.installing /\ st.initializing = NoThread
    BY <1>4, <2>2, RunningMode DEF Mapped
  <2>4. DeviceModeOf = "armed" /\ DeviceModeOf' = IF st.reconnect THEN "fault" ELSE "ready"
    BY <1>1, <2>3 DEF DeviceModeOf
  <2>5. Idle
    <3>1. \A v \in Workers : v # t => ~Live(v)
      BY <1>4, <2>2 DEF Mapped, Arms, WorkersOK
    <3>2. \A v \in Workers : v # t => At(v) \notin HandleSteps \cup {"failed"}
      BY <3>1, LiveAt
    <3>3. QED
      BY <2>1, <3>2 DEF Idle, HandleSteps
  <2>6. st.reconnect \/ ~dev.streaming
    BY <2>3, <2>5, IdleStill DEF Mapped
  <2>7. st.reconnect => dev.streaming
    BY DEF Mapped, Stream
  <2>8. CASE st.reconnect
    BY <1>1, <2>4, <2>7, <2>8, ModeChanges
  <2>9. CASE ~st.reconnect
    BY <1>1, <2>4, <2>6, <2>9, ModeChanges
  <2>10. QED
    BY <2>8, <2>9
<1>5. QED
  BY <1>3, <1>4 DEF Threads

LEMMA InitMapped ==
  ASSUME Mapped, NEW t \in Threads, InitAdmit(t) \/ InitEnd(t)
  PROVE  AbstractStep
<1>1. dev' = dev /\ dev.streaming \in BOOLEAN /\ t # NoThread
  BY ThreadsAssumption DEF InitAdmit, InitEnd, Mapped, TypeInv, DataOK, DeviceFields
<1>2. CASE InitAdmit(t) /\ ~InitAdmitted
  <2>1. ModeStays
    BY <1>1, <1>2 DEF InitAdmit, ModeStays
  <2>2. QED
    BY <2>1, ModeStaysAbstract
<1>3. CASE InitAdmit(t) /\ InitAdmitted
  <2>1. /\ st'.device = st.device /\ st'.installing = st.installing /\ st'.acquiring = st.acquiring
        /\ st'.initializing = t
    BY <1>3 DEF InitAdmit, Mapped, TypeInv, DataOK, StateFields
  <2>2. DeviceModeOf = "ready" /\ DeviceModeOf' = "initializing"
    BY <1>1, <1>3, <2>1 DEF DeviceModeOf, InitAdmitted
  <2>3. QED
    BY <1>1, <2>2, ModeChanges
<1>4. CASE InitEnd(t)
  <2>1. /\ st'.device = st.device /\ st'.installing = st.installing /\ st'.acquiring = st.acquiring
        /\ st'.initializing = NoThread /\ st'.reconnect = st.reconnect
    BY <1>4 DEF InitEnd, Mapped, TypeInv, DataOK, StateFields
  <2>2. st.initializing = t
    BY <1>4 DEF InitEnd, Mapped, Connection, Linked, InitSteps
  <2>3. st.device /\ ~st.installing /\ ~st.acquiring /\ ~st.reconnect
    BY <1>1, <2>2 DEF Mapped, Connection, Exclusion, Stream
  <2>4. DeviceModeOf = "initializing" /\ DeviceModeOf' = "ready"
    BY <1>1, <2>1, <2>2, <2>3 DEF DeviceModeOf
  <2>5. QED
    BY <1>1, <2>4, ModeChanges
<1>5. QED
  BY <1>2, <1>3, <1>4

LEMMA CloseMapped ==
  ASSUME Mapped, NEW t \in Threads, CloseTake(t) \/ CloseRelease(t)
  PROVE  AbstractStep
<1>1. CASE CloseTake(t)
  <2>1. dev' = dev /\ dev.streaming \in BOOLEAN /\ st'.device = FALSE
    BY <1>1 DEF CloseTake, Mapped, TypeInv, DataOK, DeviceFields, StateFields
  <2>2. Stage(t) = "close_take" /\ Resume(t) = "close_take"
    BY <1>1 DEF CloseTake, Stage, Resume, TearSteps, RequestSteps, FinishSteps
  <2>3. ~st.installing /\ ~st.acquiring /\ st.initializing = NoThread
    <3>1. ~st.installing /\ \A w \in Workers : Phase(w) \in {"none", "exited", "quit"}
      BY <2>2 DEF Mapped, Arms, TeardownOK
    <3>2. st.initializing = NoThread
      BY <2>2 DEF Mapped, Connection, Linked
    <3>3. QED
      BY <3>1, <3>2 DEF Mapped, Arms, AcquiringOK
  <2>4. DeviceModeOf \in {"closed", "ready", "fault"} /\ DeviceModeOf' = "closed"
    BY <2>1, <2>3 DEF DeviceModeOf
  <2>5. CASE DeviceModeOf = "closed"
    BY <2>1, <2>4, <2>5, SameMode
  <2>6. CASE DeviceModeOf \in {"ready", "fault"}
    BY <2>1, <2>4, <2>6, ModeChanges
  <2>7. QED
    BY <2>4, <2>5, <2>6
<1>2. CASE CloseRelease(t)
  <2>1. st' = st /\ ~st.device
    BY <1>2 DEF CloseRelease, Mapped, Connection, Linked
  <2>2. DeviceModeOf = "closed" /\ DeviceModeOf' = DeviceModeOf
    BY <2>1 DEF DeviceModeOf
  <2>3. dev'.streaming = dev.streaming \/ dev'.streaming = FALSE
    BY <1>2 DEF CloseRelease, Mapped, TypeInv, DataOK, DeviceFields
  <2>4. QED
    BY <2>2, <2>3, SameMode, StreamChanges
<1>3. QED
  BY <1>1, <1>2

LEMMA PublishMapped ==
  ASSUME Mapped, NEW t \in Threads, OpenPublish(t)
  PROVE  AbstractStep
<1>1. /\ dev' = dev /\ dev.streaming \in BOOLEAN /\ st'.device = TRUE /\ st'.reconnect = FALSE
      /\ st'.installing = st.installing /\ st'.acquiring = st.acquiring
      /\ st'.initializing = st.initializing /\ pc[t] = "open_publish"
  BY DEF OpenPublish, Mapped, TypeInv, DataOK, DeviceFields, StateFields
<1>2. ~st.device
  BY <1>1 DEF Mapped, ConnectionTold
<1>3. ~st.installing /\ ~st.acquiring /\ st.initializing = NoThread
  BY <1>2, AcquiringLive DEF Mapped, Stream, Connection
<1>4. \A u \in Threads : pc[u] # "close_release"
  <2>1. Bystanders(t)
    BY GotoForm DEF OpenPublish, Mapped, TypeInv
  <2>2. QED
    BY <1>1, <2>1, ConnectingAlone DEF Mapped, LifeSteps, Connecting
<1>5. ~dev.streaming
  BY <1>2, <1>4 DEF Mapped, Stream
<1>6. DeviceModeOf = "closed" /\ DeviceModeOf' = "ready"
  BY <1>1, <1>2, <1>3 DEF DeviceModeOf
<1>7. QED
  BY <1>1, <1>5, <1>6, ModeChanges

LEMMA PrearmMapped ==
  ASSUME Mapped, NEW t \in Threads, StartPrearm(t)
  PROVE  AbstractStep
<1>1. /\ dev' = dev /\ dev.streaming \in BOOLEAN /\ st'.device = st.device
      /\ st'.installing = TRUE /\ st'.initializing = st.initializing
  BY DEF StartPrearm, Mapped, TypeInv, DataOK, DeviceFields, StateFields
<1>2. Stage(t) = "start_prearm" /\ st.device /\ st.initializing = NoThread /\ ~st.reconnect
  BY DEF StartPrearm, StartAdmitted, Stage
<1>3. NoneLive /\ ~st.installing
  BY <1>2 DEF Mapped, Arms, ClaimOK
<1>4. ~st.acquiring
  BY <1>3, AcquiringLive DEF Mapped
<1>5. DeviceModeOf = "ready" /\ DeviceModeOf' = "arming"
  BY <1>1, <1>2, <1>3, <1>4 DEF DeviceModeOf
<1>6. QED
  BY <1>1, <1>5, ModeChanges

(* An arm is given up only while nothing streams. *)
LEMMA AbandonMapped ==
  ASSUME Mapped, NEW t \in Threads, StartSpawnFailed(t) \/ StartFail(t)
  PROVE  AbstractStep
<1>1. /\ dev' = dev /\ dev.streaming \in BOOLEAN /\ st'.device = st.device
      /\ st'.installing = FALSE /\ st'.acquiring = FALSE /\ st'.initializing = st.initializing
      /\ st'.reconnect = st.reconnect
  BY DEF StartSpawnFailed, StartFail, Mapped, TypeInv, DataOK, DeviceFields, StateFields
<1>2. Stage(t) = pc[t] /\ pc[t] \in {"start_spawn", "start_fail"}
  BY DEF StartSpawnFailed, StartFail, Stage
<1>3. st.installing /\ ~st.acquiring
  <2>1. st.installing
    BY <1>2 DEF Mapped, Arms, ClaimOK, InstallOK
  <2>2. QED
    BY <2>1 DEF Mapped, Arms, AcquiringOK
<1>4. st.device /\ ~st.reconnect /\ st.initializing = NoThread
  BY <1>3 DEF Mapped, Stream, Exclusion
<1>5. Idle
  <2>1. CASE pc[t] = "start_spawn"
    BY <1>2, <2>1, NoneLiveIdle DEF Mapped, Arms, ClaimOK
  <2>2. CASE pc[t] = "start_fail"
    <3>1. st.thread \in Workers /\ Phase(st.thread) \in {"quit", "exited"}
      BY <1>2, <2>2 DEF Mapped, Arms, InstallOK
    <3>2. ASSUME NEW w \in Workers, At(w) \in HandleSteps \cup {"failed"} PROVE FALSE
      <4>1. w # st.thread
        BY <3>1, <3>2 DEF Phase, PhaseOf, Ended, HandleSteps
      <4>2. Phase(w) \notin {"none", "exited", "quit", "ended"}
        BY <3>2 DEF Phase, PhaseOf, Ended, HandleSteps
      <4>3. Phase(w) \in {"enter", "setup", "hold", "running"}
        BY <4>2 DEF Phase, PhaseOf
      <4>4. Phase(w) # "running"
        BY <1>3 DEF Mapped, Arms, AcquiringOK
      <4>5. PICK a \in Threads : InstallsBy(a, w)
        BY <1>3, <4>3, <4>4 DEF Mapped, Arms, WorkersOK, Installs
      <4>6. Stage(a) \in ArmSteps
        BY <4>5 DEF InstallsBy, ArmSteps
      <4>7. a = t
        <5>1. Count(t, ArmSteps) # 0
          BY <1>2, CountTyped DEF Mapped, TypeInv, ArmSteps
        <5>2. QED
          BY <4>6, <5>1, ArmAlone DEF Mapped
      <4>8. QED
        BY <1>2, <2>2, <4>1, <4>5, <4>7 DEF InstallsBy
    <3>3. QED
      BY <3>2 DEF Idle
  <2>3. QED
    BY <1>2, <2>1, <2>2
<1>6. ~dev.streaming
  BY <1>4, <1>5, IdleStill DEF Mapped
<1>7. DeviceModeOf = "arming" /\ DeviceModeOf' = "ready"
  BY <1>1, <1>3, <1>4 DEF DeviceModeOf
<1>8. QED
  BY <1>1, <1>6, <1>7, ModeChanges

(* Active is reported of an acquisition that streams. *)
LEMMA CommitMapped ==
  ASSUME Mapped, NEW t \in Threads, StartCommit(t)
  PROVE  AbstractStep
<1>1. /\ dev' = dev /\ dev.streaming \in BOOLEAN /\ st'.device = st.device
      /\ st'.installing = FALSE /\ st'.acquiring = TRUE /\ st'.initializing = st.initializing
  BY DEF StartCommit, Mapped, TypeInv, DataOK, DeviceFields, StateFields
<1>2. Stage(t) = "start_commit" /\ pc[t] = "start_commit"
  BY DEF StartCommit, Stage
<1>3. st.installing /\ ~st.acquiring /\ Phase(loc[t].id) = "hold"
  BY <1>2 DEF Mapped, Arms, InstallOK
<1>4. loc[t].id \in Workers
  BY <1>2 DEF Mapped, TypeInv, ArmIdentified, Arming
<1>5. At(loc[t].id) = "hold"
  BY <1>3 DEF Phase, PhaseOf, Ended
<1>6. InUse(loc[t].id)
  BY <1>5 DEF InUse, HandleSteps, Arriving
<1>7. dev.streaming /\ st.device /\ st.initializing = NoThread
  BY <1>3, <1>4, <1>6 DEF Mapped, Stream, Exclusion
<1>8. DeviceModeOf = "arming" /\ DeviceModeOf' = "armed"
  BY <1>1, <1>3, <1>7 DEF DeviceModeOf
<1>9. QED
  BY <1>1, <1>7, <1>8, ModeChanges

LEMMA NextMapped ==
  ASSUME Mapped, [Next]_vars
  PROVE  AbstractStep
<1>1. ASSUME NEW t \in Threads, ClientCall(t) \/ Operation(t) PROVE AbstractStep
  BY <1>1, StillOperations, StillStart, ModeStaysAbstract, FinishMapped, InitMapped, CloseMapped,
     PublishMapped, PrearmMapped, AbandonMapped, CommitMapped DEF Operation
<1>2. ASSUME NEW w \in Workers, WorkerStep(w) PROVE AbstractStep
  BY <1>2, StillWorker, ModeStaysAbstract, WorkerMapped
<1>3. ASSUME UNCHANGED vars PROVE AbstractStep
  BY <1>3, ModeStaysAbstract DEF vars, ModeStays
<1>4. QED
  BY <1>1, <1>2, <1>3 DEF Next

(***************************************************************************)
(* The facade, whatever threads call it, is the device DeviceMode          *)
(* describes: one mode at a time, streaming only between arming and        *)
(* disarming, and a fault that only a close leaves.                        *)
(***************************************************************************)
THEOREM FacadeImplementsDeviceMode == ASSUME CallbacksDoNotArm PROVE Spec => ImplementsDeviceMode
<1>1. Init => Abstract!Init
  BY DEF Init, Abstract!Init, DeviceModeOf
<1>2. Mapped /\ [Next]_vars => [Abstract!Next]_(Abstract!vars)
  BY NextMapped DEF AbstractStep
<1>3. Spec => []Mapped
  BY ArmsInvariant, SdkInvariant, ExclusionInvariant, TypeInvariant, ControlInvariant,
     ConnectionToldInvariant, PTL DEF Mapped
<1>4. QED
  BY <1>1, <1>2, <1>3, PTL DEF Spec, ImplementsDeviceMode, Abstract!Spec

=============================================================================
