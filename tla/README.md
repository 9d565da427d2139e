# HeliotisC4: specifications, model checking and proofs

TLA+ specifications of HeliotisC4, the C++ facade over the vendor's C4Utility
SDK for Heliotis H8 devices, and of the plugin that puts it into a host
application, with the TLC runs that check them and the proofs TLAPS checks.
Files are named without their directories: `System.cpp` is
`src/C++/HeliotisC4System.cpp`, `Plugin.cpp`, `Controller.cpp`, `Stream.cpp` and
`Adapter.cpp` are the `HeliotisC4Plugin`, `HeliotisC4SourceController`,
`HeliotisGraphicsFrameStream` and `HeliotisC4GraphicsFrameAdapter` below
`Utility/PlaygroundAdapter`, and `Widget.cpp` is `Utility/Qt/QHeliotisC4Widget.cpp`.

## The system

| Component | State | Operations | Correct when |
|---|---|---|---|
| `HeliotisC4Device` (System.cpp) | handles, connection, initialization and acquisition flags under `_stateMutex`; trigger queue under `_triggerMutex`; start handshake under `_acquisitionStartMutex`; two atomics; the worker thread | open, close, initialize, features, arm, stop, trigger, status callbacks | one owner of the SDK acquisition; initialization, features and acquisition exclude each other; handles outlive their users; requests are serialized; every stop ends; failures are rolled back or reported |
| H8 profile (`configureH8SurfaceExample`) | the device's registers and selectors | groups of writes, `StageInit`, polling | a failed selector write misdirects nothing; independent groups go on; success is real; cancellation is prompt; it ends |
| Trigger policy (Internal/HeliotisAcquisitionPolicy) | none | `evaluateAcquisitionTriggerPlan`, plan queries | a plan is accepted exactly when it can be read and triggered; free-running means no gate is left |
| Frame copy (`copyFrame` and helpers) | none | size probe, read, walk over the parts | what is delivered is what the SDK wrote; one bad part discards no other |
| GraphicsFrame adapter | none | choose the range, its grid and channels; images | a range is labelled calibrated only if the device typed and scaled it; sizes agree; no part hides another |
| Source controller | five atomics, the admission of parameter work, one tool call | status callbacks, tool calls, parameter requests, arming | each tool call is answered once and truthfully; stale statuses are dropped, needed ones are not |
| Plugin session (Plugin.cpp) | one watcher per background operation, stored completions, the disconnect that waits for an acquisition | discover, connect, disconnect, arm, stop, initialize, features, destruction | SDK operations exclude each other; operations complete; nothing uses a released device |
| GraphicsFrame stream | callback gate | start, stop, destruction | no callback and no worker after destruction |
| Qt control widget | fifteen flags, the enablement of ten controls | one setter per flag | it shows the device, and each flag a flow sets some end of it clears |
| `HeliotisC4System` | SDK handler, device list | discover | not modelled |
| SDK and plugin runtime selection, core contracts, tests, build | | | not modelled, or plain data |

The GUI thread runs the session, the controller's admissions and the widget; pool
threads run one task per watcher and one per parameter request, and call the
device; the device's acquisition worker calls back from its own thread.  Status
callbacks change the controller's atomics at once and tell the GUI thread by a
queued event.

What is hard in it: in the device, seven mutexes, four condition variables,
callbacks that may call the facade again, a worker that any thread may join, an
SDK whose stop can fail, and checks made under one mutex whose consequences
happen under another.  In the session, a GUI thread that acts on atomics which
change while it runs, on events about a state that has passed, and on stored
completions that may re-enter it.  In the profile, registers that mean something
else after a failed selector.  In the frame path, an SDK whose every size may
contradict the previous one.

## Modules

| Module | Models | Role |
|---|---|---|
| `DeviceMode` | what the facade promises | abstract specification of the device |
| `C4Device` | `HeliotisC4Device` | the facade, step by step; implements `DeviceMode` |
| `MCC4Device` | | its instance: symmetry of the client threads |
| `AcquisitionPolicy` | the trigger policy | operators, and a machine that applies them once |
| `ReferenceProfile` | `configureH8SurfaceExample` | the profile against a failing device, a cancellation and a close |
| `FrameAdapter` | `Adapter.cpp`, the frame structures of `HeliotisC4.h` | operators |
| `FrameDelivery` | `copyFrame` and its helpers | the way of one frame; uses `FrameAdapter` |
| `MCFrameDelivery` | | its instance: dimensions and caller-built frames |
| `ControlWidget` | `Widget.cpp` | operators on the record of the widget's flags |
| `PluginSession` | `Plugin.cpp`, `Controller.cpp`, `Stream.cpp` | the session, composed with `ControlWidget` and `DeviceMode` |
| `C4Device_proofs`, `C4DeviceArms_proofs`, `C4DeviceSdk_proofs` | | theorems about `C4Device`, each on the one before |
| `PluginSession_proofs`, `PluginWidget_proofs` | | theorems about `PluginSession` and the widget it shows, likewise |
| `AcquisitionPolicy_proofs`, `ReferenceProfile_proofs`, `FrameDelivery_proofs` | | theorems about these modules |

`DeviceMode` is the joint of the project: `C4Device` is shown to implement it, and
`PluginSession` uses it as the device, so what holds of the session rests on what
was checked of the facade.

### C4Device

A *thread* is a client, which calls public operations one after another, or the
worker of one arm (`Workers == 1..MaxArms`, the acquisition identifiers).
`pc[t]` is the thread's next step and `stack[t]` its return steps, so that an
operation called by another (`open` calls `close`, `close` and
`startAcquisition` call `stopAcquisition`, a callback calls anything in
`CallbackOps`) is the same actions, run at another depth.

| Specification | Code |
|---|---|
| `st` | the members guarded by `_stateMutex`; `st.device` stands for `_device` and `_interface`, `st.thread` for a joinable `_acquisitionThread`, `st.initializing` for `_initializing` with its thread id |
| `trig`, `hs` | the members guarded by `_triggerMutex` and by `_acquisitionStartMutex` |
| `stopRequested`, `cancelRequested` | the two atomics |
| `lock` | owners of the mutexes held over several steps: the recursive lifecycle mutex with its depth, the arm and teardown mutexes, the worker's `_sdkMutex` |
| `worker[w]`, `loc[t]` | what the worker was given and its loop locals; locals of the operation of a thread |
| `dev` | the device behind the handle: open, streaming, `AcquisitionMode`, `TriggerSelector` (external: inferred from the calls the code makes) |
| `preset`, `told` | history: the configuration users last wrote or a reported failure left; status callbacks delivered |

A step is one critical section, or one SDK call or callback between two.  The
sections of `_stateMutex`, `_triggerMutex` and `_acquisitionStartMutex` never
wait inside, so each is one step and needs no owner.
`std::scoped_lock(_stateMutex, _sdkMutex)` holds neither while it waits, so it is
one step enabled while `lock.sdk` is free.  Waits on
`_initializationCondition`, `_acquisitionWorkerCondition` and
`_acquisitionStartCondition` are guards, since each notification follows its
change under the waiter's mutex.  The wait on `_triggerCondition` reads an atomic
that is written under another mutex, so its blocked state is explicit: a worker
at `"blocked"` runs again only if `NotifyAndGoto` wakes it.

| Actions | Operation (System.cpp) |
|---|---|
| `OpenLock` … `OpenCheck` | `open` 1192-1310 |
| `CloseLock` … `CloseEnd`, `LifecycleUnlock` | `close` 1312-1408 |
| `Cancel`, `InitAdmit` … `InitEnd` | `requestCancelInitialization`, `initializeMotion` 1763-1945 |
| `Feature` | `readFeatures`, `writeFeature`, `executeCommand` 1954-2195 |
| `TriggerCheck`, `TriggerQueue` | `triggerSoftware` 2197-2257 |
| `StartLock` … `StartUnlock` | `startAcquisition` 2259-2548 |
| `RequestFlag`, `RequestNotify` | `requestStopAcquisition` 2550-2566 |
| `StopCheck` … `StopUnlock` | `stopAcquisition` 2568-2624 |
| `Worker…` | `acquisitionLoop` 2976-3466 |
| `FinishState` … `FinishEnd` | `finishAcquisition` 3468-3499 |
| `CallbackCall`, `CallbackReturn` | a frame or status callback, `dispatchStatus` 3528-3547 |

`Faults` names what can fail in a run: opening (`open`), reading or accepting
the trigger configuration (`validate`), restoring a mode or a selector
(`restore`), creating the thread (`spawn`), the SDK start (`setup`), a trigger,
a buffer or a copy (`buffer`), the SDK stop (`stop`), a frame callback
(`throw`).  Timeouts of a buffer wait are always possible.

### DeviceMode

Six modes (closed, ready, initializing, arming, armed, fault) and whether the SDK
acquisition streams.  It has no threads and no locks: it says that a facade used
from any number of them looks like one device that is in one mode at a time,
arms only from ready, reports active only while streaming, leaves armed only
after streaming ended or failed, and leaves fault only by closing.
`C4Device!ImplementsDeviceMode` maps `st` to the mode (`DeviceModeOf`).

### AcquisitionPolicy

One operator per decision of the policy: `ModeError`, `SourceUnreadable`, the two
routes, `PlanError` in the order of the code's checks, and
`EvaluateAcquisitionTriggerPlan` with what a rejected plan keeps.  The machine
starts with any three selector states and evaluates once.  Texts are names.

### ReferenceProfile

`Profile` is the sequence of groups with their writes, in the order of the code
(1478-1551, 1619-1735): whether a group is required, and whether a failed write
ends it.  A register is a feature and, for a feature that depends on a selector,
the entry that selector points at (`cursor`), so a failed selector write really
leaves the next write aimed elsewhere.  The three variables of the run are `at`
(the step, the group and the write), `failed` (`requiredFailures`) and `result`.

| Actions | Code (System.cpp) |
|---|---|
| `Begin`, `End` | winning the initialization, the scope guard 1424-1464 |
| `CheckCancelled`, `WriteFeature`, `WriteFails`, `WriteRefusedWhileClosing` | `writeRequired`, `writeOptional` with `writeFeature` 1469-1606, 2063-2147 |
| `SkipStage`, `CommandStage`, `StageCommandFails` | `StageInit` 1646-1660 |
| `PollCancelled`, `PollInitialized`, `PollUnreadable`, `PollAgain` | the polling loop 1661-1690 |
| `RequestCancel`, `RequestClose`, `ClaimClose`, `TakeHandles` | `requestCancelInitialization` 1763; `close` as far as the profile sees it |
| `StageArrives` | external: the stage |

The check of the cancellation and the command after it are two steps, so a
cancellation may fall between them.  A failed write may or may not have taken
effect.  What the profile excludes (features, arms, another initialization) is
`C4Device`'s matter and does not occur here.

### FrameDelivery and FrameAdapter

`FrameDelivery` reads a buffer part by part.  Each helper is an operator of the
answers the SDK gives it (a code and a byte count per call, each chosen freely):
`ReadDimensions` (149-207), `SampleCount` (115-146), `CopySamples` (56-112),
`Product` (2787-2804) and `ReadScan3dGeometry` (973-1021).  Numbers are a uint32
of five bits (`Word` = 31), whose int is 15, so overflow and the bound of the
host's int are met by small sizes; a sample is two or eight bytes as in the code.
The steps are those of `copyFrame` (2656-2974): `ReceiveBuffer`, `SelectorFails`,
and for each part `DescribePart`, `MeasurePart`, `CopyPart`, then `FinishCopy`.
`ForeignFrame` replaces them by a frame a caller of the adapter built itself, as
the adapter's tests do.  `Convert` applies `FrameAdapter`, one operator per
decision of `Adapter.cpp`: which part is the range, whether it is a raw preview,
its grid and pitch, the auxiliary channels, the images.

### ControlWidget and PluginSession

`ControlWidget` is one operator per setter of `Widget.cpp`, from the record of its
flags and controls to the next one; `Can…` are the guards of the user's controls.

`PluginSession` has these actors: the GUI thread, one pool task per watcher, one
per parameter request, and the acquisition worker.

| Specification | Code |
|---|---|
| `mode`, `streaming`, `worker`, `stopAsked`, `software` | the device facade as `DeviceMode` promises it, and its worker |
| `isGrabbing`, `isContinuous`, `statusGeneration`, `deliveredFrames`, `connected`, `parameterBusy` | the controller's members other threads write (`connected`: the connection id is not empty) |
| `task`, `succeeded` | how far the pool task of each watcher is, and the result it left |
| `parameterTask`, `parameterWork` | the phase of each parameter task, and the one `_parameterWork` refers to |
| `session` | the session's members (Plugin.cpp 1110-1129) and the widget record |
| `queue`, `gui`, `asked` | the GUI thread's events; what it is doing; a tool call between its checks and its admission |
| `calls` … `frameArm` | counters and history |

| Actions | Code |
|---|---|
| `Click…`, `ToggleLive`, `EditFeature`, `DestroyWidget` | the widget's signals and the session's handlers, Plugin.cpp 428-483 |
| `AskTool`, `StopNothing`, `AdmitTool`, `RefuseTool` | `requestTool`, Controller.cpp 427-526, with the session's operations |
| `RequestParameter`, `RunParameter` … `ReturnParameter` | parameter requests, Controller.cpp 530-756 |
| `RunDiscovery`, `OpenDevice`, `ReportConnection`, `StopForDisconnect` … `ReleaseDevice`, `BeginProfile`, `EndProfile`, `RunFeature`, `ReadFeatures` | the pool tasks, Plugin.cpp 603-1103 |
| `StartArm` … `ReturnArmed` | the arm task: `startAcquisition` of the controller 144-174 and the stream |
| `ReceiveFrame` … `ReportInactive` | the worker and the callbacks it makes, Controller.cpp 42-80 |
| `Handle…`, `Finish…` | the queued events: signals of the controller, Plugin.cpp 484-532, and the finished handler of each watcher |
| `DestroySession`, `AwaitWatchers` … `ReleaseForDestruction` | the session's destructor, Plugin.cpp 390-414, and the controller's, Controller.cpp 83-93 |

An admission is two steps: the checks `requestTool` makes, then those of the
session operation, since `isGrabbing` may change in between.  The status callback
is two steps as well (`ReportGrabbing`/`ReportActive`, `ReportIdle`/
`ReportInactive`): it stores `isGrabbing` first, and the generation and the event
later.  When the end of an acquisition answers a stored call, the host may make
its next request from within the completion: `HandleEnd` stops at `gui = "rest"`,
where a tool or a parameter request is possible, and `HandleRest` goes on.

## Runs

| Run | Question | States |
|---|---|---|
| `acquisition_policy` | every configuration: 2 readable flags, 3 modes, 5 sources (one unknown) per selector | 432 000 |
| `acquisition` | software arms, stops, requests and triggers from two threads and from callbacks, which also close, two arms | 2 386 684 |
| `lifecycle` | open, close, init, cancel, features and an arm from two threads; callbacks initialize, use features, close and request a stop; starts and stops may fail; `DeviceMode` is implemented | 2 419 684 |
| `faults` | one client, all eight faults, free-running and software arms, two of them | 1 264 366 |
| `progress` | under `FairSpec`: software arms, requests, close and init from two threads | 108 116 |
| `reference_profile` | one profile; one device failure, a cancellation and a close at any step | 225 515 |
| `frames` | buffers of up to two parts whose sizes lie or fail, and caller-built frames | 480 629 |
| `session` | two clicks, one tool call and one parameter request of every kind, one arm, one frame | 297 213 |
| `session_progress` | under `FairSpec`: two clicks, two tool calls, two arms | 87 888 |
| `deadlock_close` | expects a violation, see below | |
| `session_release` | expects a violation, see below | |
| `requests` | expects a violation, see below | |

Why the bounds are enough:

- The device runs but `faults` have two interchangeable clients, which is what the
  races of the code need (an owner and a competitor), each with unboundedly many
  calls; callbacks add a third actor, and the workers a fourth.  `MaxArms` bounds
  the arms: 2 where the state left by one can disturb the next, else 1.
- `reference_profile` fails one command, so that each property meets every single
  failure at every write; a second failure or run multiplies states and adds no
  new kind of continuation, because a run clears what it reads.  Two polls are
  the fewest with a poll that is not the last.
- `frames` has two parts, which one needs for "another part"; three add no case
  to `First` or to the channels.  Counts reach both limits of the small word.
- `session` lets a user, a host, a parameter request and an arm meet, each once or
  twice; `session_progress` leaves out parameters and keeps the operations that
  wait for an acquisition's end, with two arms, so that the end of one is stale
  for the other.

Deadlock is checked in every `C4Device` run and in `session`: a client is never
forced to call, so a state without a step would be a real one; a destroyed
session has a step that changes nothing.  `AcquisitionPolicy`, `ReferenceProfile`
and `FrameDelivery` end.

What the passing runs show:

- `ArmsDoNotOverlap`, `NoSelfJoin`: two threads and the callbacks tearing down at
  once leave one worker, join it once and never from itself, and touch no state of
  another arm.  The branch of `stopAcquisition` for a thread that holds its own
  `std::thread` (2613) is never reached, so it has no action.
- `StatusAlternates`, `InactiveAfterActive`: the listeners' view is a strict
  alternation even if the first frame ends a Single acquisition at once.
- `OneRequestInFlight`, `CommandAnswersRequest`, `TypeOK` (the queue is a
  natural number): software requests are serialized, and a command is issued only
  for a request the worker took, once at most.  That every accepted request gets its
  command is not so, see `requests` below.
- `HandleOutlivesUse`, `InitExcludesAcquisition`, `CancellationKept`: `close`
  waits for the initialization and joins the worker before it releases.
- `FeaturesAndAcquisitionExclude`: nobody moves the trigger selector or the mode
  under a streaming worker.
- `FailedStopIsFinal`, `PresetRestored`: after failures the device is recovered,
  or the failure is what is reported and blocks later arms.
- `RequestedStopIsReported`, `LifecycleCallsReturn`: no wake-up is lost.
- `OnlyMeantRegisters`: whichever write fails, the profile never changes a register
  it does not mean; `AcquisitionStart` in particular is preserved.
  `SuccessIsReal`, `IndependentGroupsContinue`, `StageMovesWhenConfigured`: what
  the result says is what is on the device.  After a success the arm policy
  refuses the device only for what the profile does not decide: a gate or an
  `AcquisitionStart` mode that cannot be read, or one that is neither On nor Off.  The
  code then reports the success with a warning (System.cpp 1726-1735).
  `CancelIsPrompt`: two more commands at most.  `ProfileEnds`.
- `CopyIsSound`, `NoPartDiscardsOthers`, `CalibrationIsDeclared`, `ConvertedDataFit`,
  `NoPartHidesOthers`: see the statements in `FrameDelivery`.  `CalibrationIsDeclared`
  is about what the device typed and scaled, not about the shape of the copy, see
  `ReshapedRangeIsPreview` below.
- `SdkWorkExclusive`: one watcher at most, and none beside a parameter request.
  `OneAnswerPerCall`, `AnswersAreTrue`, `OperationsComplete`: a call has one place
  that will answer it, its answer is true in the step that gives it, and it comes.
  A Single call is left out of the last: its acquisition may wait for a trigger.
  `WidgetShowsSession`: a quiet session shows the device.  Quiet means no event, no
  watcher, no parameter work, and a worker, if any, that nobody asked to stop; so it
  includes the idle states after a stop, a live-stop or a disconnect, when `stopAsked`
  is still set.  Six pending flags are then clear (discovery, connection,
  disconnection, initialization, arm, refresh), and `triggerPending` is set only
  while the device acquires.  `NoStopLeftPending` is the same for `stopPending`;
  `operationPending` is not so, see `NoShownStateLeftBehind` below.
  `ReleasedDeviceUnused`, `DestructionEnds`: the destructor; the first is about the
  worker and the tasks of the watchers, parameter work is `session_release` below.

### Where the code and its documents differ

Three runs expect a violation; each checks what a document or a comment says.

| Run | What happens |
|---|---|
| `deadlock_close` | `close` in a callback takes the lifecycle mutex (System.cpp 1314) before it recognises the callback thread (1321).  If another thread is closing, it waits for the join of the very worker that runs the callback. |
| `requests` | `triggerSoftware` finds the acquisition armed under one mutex and counts the request under another (2199, 2239), rechecking the stop flag only.  The acquisition ends in between, and the request is queued and reported accepted for none, although `HeliotisC4System.h` 117-122 says that it is for an armed acquisition and that its command is issued.  With the first conjunct of `AcceptedRequestIsCommanded` left out, the same run finds the other way to lose a request: `requestStopAcquisition` sets the stop flag under one mutex (2552) and clears the queue later under another (2561), and a requester delayed in between erases a request that the next acquisition accepted. |
| `session_release` | A parameter task clears `_parameterBusy` before its signals (Controller.cpp 750).  A second request admitted in between overwrites `_parameterWork`, and the destructor waits for that one only, although the comment at line 86 says that accepted work completes first. |

Further differences have a definition, which TLC finds violated where the table
says, and no run of their own:

| Definition | What happens |
|---|---|
| `NoStageInitWhileClosing` in `C4Device`, as an invariant of `lifecycle` | `close` requests the cancellation (1315) before it claims `_closing` (1327).  An initialization admitted in between clears the cancellation (1796) and issues `StageInit`; `close`, which cancels first and then waits (ARCHITECTURE.md:34), waits for the whole motion. |
| `NoShownStateLeftBehind` in `PluginSession`, as an invariant of `session_release` with `Parameters = {"read", "write"}` | A busy state is recorded as shown even when a feature watcher keeps it from the widget (Plugin.cpp 489-496), and nothing mirrors it later.  A write is followed at once by a read, whose busy state is shown; the refresh after the write has its watcher when the read ends, so the widget is never told, and the tree stays disabled in a quiet session, although the comment says no shown state can be left behind. |
| `ReshapedRangeIsPreview` in `FrameDelivery`, as an invariant of `frames` | A copy that contradicts its metadata becomes one row, which the log line at System.cpp 2945 and ARCHITECTURE.md:83 call a raw preview.  The part keeps its kind and scale, so the adapter presents it as calibrated. |
| `C4Device` with `start` in `CallbackOps` | An arm made from the inactive callback of a worker that another thread joins: that thread's `finishAcquisition` (3468) then clears the flags of the new arm. |

The runs that hold leave out what some of these need: none that expects a pass has
`close` both in `ClientOps` and in the callbacks of a worker, and none has
`start` in `CallbackOps`; `session` makes one parameter request, and the two
differences of the session need two.  The others occur in runs that pass and break
none of their properties.  `open` also publishes the handle and then reads the
identity through it without `_sdkMutex` (1297), while another thread may already
have armed; `HandleOutlivesUse` shows that the handle stays valid meanwhile.

### Fairness

`C4Device!FairSpec` asks that every thread that can take its next step eventually
does.  The code justifies it: SDK calls are bounded waits (short polls, or ten
seconds for a software request), initialization polls have a deadline of thirty
seconds, and the documents require callbacks to be bounded.  A client that is
idle need not call anything.  Contended mutexes have weak fairness only, so no
property depends on who is granted a mutex; `StopReturns` therefore starts at
`stop_wait`, after the teardown mutex is taken, and `StartReturns` after the arm
is claimed.  The liveness runs have no symmetry.

`ReferenceProfile!FairSpec` asks it of the thread that runs the profile, not of
the stage, of cancellations or of close.  `PluginSession!FairSpec` asks it of the
GUI thread's events, of the pool, of parameter work and of the worker's own
steps (`WorkerStep`: leaving, stopping, reporting); users, the host and the sensor
(`SensorStep`: frames and receive errors) owe nothing.  The pool runs a queued
task because a session has at most one watcher beside one parameter task.

## Proofs

TLAPS proves, for every value of the constants:

| Theorem | States |
|---|---|
| `C4Device_proofs!TypeCorrect` | `Spec => []TypeOK` |
| `C4Device_proofs!RequestsSerialized` | `Spec => []OneRequestInFlight` |
| `C4Device_proofs!CancellationIsKept` | `Spec => CancellationKept` |
| `C4Device_proofs!SectionsExclude` | at most one thread is in the arm section, in the teardown section, in the connection lifecycle section |
| `C4DeviceArms_proofs!OneArmAtATime` † | `Spec => []ArmsDoNotOverlap` |
| `C4DeviceArms_proofs!NoThreadJoinsItself` † | `Spec => []NoSelfJoin` |
| `C4DeviceArms_proofs!HandlesOutliveTheirUse` † | `Spec => []HandleOutlivesUse` |
| `C4DeviceArms_proofs!InitializationRunsAlone` † | `Spec => []InitExcludesAcquisition` |
| `C4DeviceSdk_proofs!StatusesAlternate` † | `Spec => []StatusAlternates` |
| `C4DeviceSdk_proofs!InactiveComesLast` † | `Spec => InactiveAfterActive` |
| `C4DeviceSdk_proofs!CommandsAnswerRequests` † | `Spec => []CommandAnswersRequest` |
| `C4DeviceSdk_proofs!FailedStopsAreFinal` † | `Spec => []FailedStopIsFinal` |
| `C4DeviceSdk_proofs!FeaturesKeepOut` † | `Spec => []FeaturesAndAcquisitionExclude` |
| `C4DeviceSdk_proofs!PresetIsRestored` † | `Spec => []PresetRestored` |
| `C4DeviceSdk_proofs!FacadeImplementsDeviceMode` † | `Spec => ImplementsDeviceMode`: the refinement of `DeviceMode` |
| `AcquisitionPolicy_proofs!RoutesSafe`, `PlanRestsSafe` | `Spec => []PlanTellsRoutes` and `Spec => []PlanRestsOnOpenGates`, for every set of sources and modes |
| `ReferenceProfile_proofs!CancellationIsPrompt` | `Spec => []CancelIsPrompt`, for every number of runs, failures and polls |
| `ReferenceProfile_proofs!RegistersAreMeant` | `Spec => []OnlyMeantRegisters`, likewise |
| `ReferenceProfile_proofs!GroupsContinue` | `Spec => []IndependentGroupsContinue`, likewise |
| `ReferenceProfile_proofs!StageIsConfigured` | `Spec => StageMovesWhenConfigured`, likewise |
| `ReferenceProfile_proofs!ProfileSuccessIsReal` | `Spec => []SuccessIsReal`, likewise |
| `FrameDelivery_proofs!FramesTyped` | `Spec => []TypeOK`, for every word, number of parts, dimension and size the SDK may answer |
| `FrameDelivery_proofs!CopiesAreSound` | `Spec => []CopyIsSound`, likewise |
| `FrameDelivery_proofs!PartsAreKept` | `Spec => []NoPartDiscardsOthers`, likewise |
| `FrameDelivery_proofs!CalibrationsAreDeclared` | `Spec => []CalibrationIsDeclared`, likewise and for caller-built frames |
| `FrameDelivery_proofs!ConversionsFit` | `Spec => []ConvertedDataFit`, likewise |
| `FrameDelivery_proofs!PartsAreShown` | `Spec => []NoPartHidesOthers`, likewise |
| `PluginSession_proofs!WorkIsExclusive` | `Spec => []SdkWorkExclusive`, for all clicks, tools, parameters and bounds |
| `PluginSession_proofs!CallsAnsweredOnce` | `Spec => []OneAnswerPerCall`, likewise |
| `PluginSession_proofs!AnswersTrue` | `Spec => AnswersAreTrue`, likewise |
| `PluginSession_proofs!DestroyedSessionIsQuiet` | `Spec => []ReleasedDeviceUnused`, likewise |
| `PluginWidget_proofs!WidgetShown` | `Spec => []WidgetShowsSession`, likewise |
| `PluginWidget_proofs!TypeCorrect` | `Spec => []TypeOK`, likewise |

They rest on the assumptions that the modules name: bounds are natural numbers,
clients are not workers, `NoThread` is no thread, and the sets of operations and
faults are subsets of those the specification has (`ExternalSources` and
`OtherModes` are arbitrary).  Those of `FrameDelivery` are the members of a
caller's `FramePart` (sizes of a uint32, any number of samples) and int64
dimensions.  The theorems marked † have one hypothesis more,
`CallbacksDoNotArm`: neither a frame callback nor an acquisition status callback
calls `startAcquisition`.  It cannot be dropped, see the last of the further
differences above; every `.cfg` of `C4Device` satisfies it.  All other operations
may be called from callbacks, `close` included: where that deadlocks, a safety
property still holds.

**C4Device.** `TypeOK` alone is not inductive.  The inductive invariant is
`TypeInv == DataOK /\ ControlOK /\ ArmIdentified`: the first two are `TypeOK` in
the parts that a step changes separately, and `ArmIdentified` says that a thread
between claiming an arm and committing it holds a worker's identifier.
Without it `StartSpawn` could write the `pc` of no thread and `StartPublish`
publish identifier 0.  The control transfers (`Goto`, `Call`, `Return`,
the two notifications) are handled once, by the lemmas `GotoKeeps`, `CallKeeps`,
`ReturnKeeps`, `NotifyKeeps` and `NotifyReturnKeeps`; then each operation has a
lemma with one step per action.  `RequestsSerialized` needs that no action but
four touches the queue (`Frame`, `StepFramed`) and that those keep its sum
(`QueueStep`).  `CancellationIsKept` is proved from the action that clears the flag.

*Where the threads are.*  Each further invariant takes the ones before it for
granted, so that a lemma about one of them need not look into the others.
`Control` comes first: `Chained` says that what stands on a thread's stack was
called from where it returns to, `LocksHeld` that a thread owns a mutex exactly
while it is in a section of it at any depth, with the recursive mutex counting its
sections, and `NewWorkers` that the next identifier is that of a worker without a
step.  It yields `SectionsExclude`; the later layers use it as "whoever is at this
step is the only one there, and no worker is".

*Which arm.*  `ArmsDoNotOverlap` says nothing of the steps between taking the
`std::thread` and ending the acquisition, during which a second thread could begin
an arm.  `Arms` follows one worker from its creation to its end.  A worker is seen
by `Phase`, its step in `acquisitionLoop` whatever its callbacks call; a client by
`Stage`, the step it is at or, while it gives the stop mutex back, returns to.
`WorkersOK` has at most one live worker; `ClaimOK` and `InstallOK` say what a
thread between the claim and the commit of an arm may rely on (no teardown runs,
what the start handshake says of the worker); `TeardownOK` the same of a thread
that joins; `AcquiringOK` ties `_acquiring` to the running worker, which somebody
will join.  `Connection` adds who claimed `_closing` and `_initializing`, and
`Exclusion` that an initialization excludes an acquisition.  A step of one thread
leaves what is said of the others alone unless it writes a field they rely on; the
lemmas on `Alike`, `Others` and `Quiet` say this once, so that each action is left
with its own thread and the fields it writes.

*What the device does.*  `ConnectionTold` and `AcquisitionTold` add what listeners
were told at each step between a change and its report.  `Requests` fixes the
queue while a worker handles a request.  `Stream` says of every step whether the
SDK acquisition may or must run, and who is responsible for it: a worker, a
required reconnect, or a `close` about to release.  `Configuration` says what the
device's mode and selector are at every step of the worker, and that what it will
restore, or the device where it restores nothing, is the preset.  `Sole` and
`Alone` reduce a step of the worker to its own line of these invariants.

*The refinement.*  `DeviceModeOf` reads `st` only, so a step that leaves its mode
and `dev.streaming` alone is a stutter; the lemmas `Still…` collect those.  Every
other action has a lemma (`PublishMapped` … `WorkerMapped`) that names the step of
`DeviceMode` it is.  The guards of the abstract step come from the invariants:
that `closed` is left only while nothing streams from `Stream`, that an arm does not
begin over an initialization from `Exclusion`, that `armed` is left only with the
stream ended or the reconnect required from `Arms` and `Stream`.

**AcquisitionPolicy.** An evaluated plan is the operator's value on the unchanged
configuration (`PlanInvariant`), and an accepted configuration is automatic
exactly when its gates are open (`AutomaticIffOpen`).

**ReferenceProfile.** The invariant `PromptInv` bounds `sinceCancel` by where the
run is: while a write waits that was decided before the cancellation the count is
0, before `StageInit` it is at most 1, and while no cancellation is requested it
is 0.  `CancelIsPrompt` alone says nothing about the step that follows.

The four other theorems share `ProfileInv`.  That a failed write sends no other one
astray is a fact of the table of groups: a group that goes on after a failure sets
no selector, every other setting follows the write of its entry within its group, and
no register is meant for two values (`GroupFacts`, `Table`).  `Pointed` then says that
the cursor of the device is where the writes before this one put it, so an accepted
write reaches the register it is meant for (`WriteReachesMeant`).  `Tried` says of
every setting the run has passed that it is applied, was refused, or follows a refused
write of a group that stops; a later group cannot undo it, because the writes of all
groups agree on the value of a register.  `FailuresRecorded` says that a refused write
of a required group is recorded, and `StageDone` that the stage is initialized past
its group unless a failure is.  At the end these give the success; at `StageInit` they
give the encoder and motion defaults; and the two trigger groups, once applied, are
what `CanonicalRoute` needs of the policy, whatever it can read of `AcquisitionStart`;
`UnreadRefused` is the other half, that it refuses what it cannot read.

**FrameDelivery.** The invariant `FrameInv` says of every part copied from a buffer
what the properties need of it (`Copied`): its samples are its width times its
height, none of which exceeds the host's int, they are what the SDK wrote, and a
Range has a usable scale; of the part being measured, that its expected samples
are whole rows; and of the graphics frame, that it is the conversion of the frame.
`Copied` comes from three pieces of arithmetic.  A nonzero `Product` is a multiple
of the first dimension within a uint32 (`ProductOfDimensions`): `Product` folds
over the dimensions, and the induction is over a set of numbers, from the least
element of a nonempty one (`LeastNumber`, `Reaches`), which the library's theorem
on minimal elements of a well-founded relation gives.  A copy that was
accepted is whole samples within its allocation (`CopiesAreGood`).  And because a
sample has at least two bytes and a byte count is a uint32, a count of samples is an
int.  `FirstIs` is the same least element: a nonempty set of part
indices has a first one, so a displayable part is found (`IndexIs`).  A part with
representable samples has representable dimensions (`RepresentableShape`): the
adapter's one-row preview is never the range of a valid frame, and the grid, the
pitch and the shape of the channels follow from that (`Selected`).

**PluginSession.** `SdkWorkExclusive` is not inductive: a disconnect that waits for
an acquisition has no watcher yet, and would get one beside any other.  The
invariant `Good(session)`, together with `parameterBusy => no watcher and no
pending disconnect`, adds that a pending disconnect excludes every watcher but its
own.  The session's operators build records by many nested updates; the lemmas
`FieldSet` and `…Same` say once which of them leave the watchers alone, and
`…Good` which keep `Good`; then each handler is one step.  `AskedTool` is a second
invariant: a tool call is between its checks and its admission only if it was
asked.

`OneAnswerPerCall` says nothing of why a completion's slot is free when an
operation stores a call in it.  `CallInv` adds it: `Linked` names the watcher (or
the pending disconnect, or the refresh after a connection) that each stored
completion waits for, so no watcher means no stored completion but that of an
acquisition's end; `Held` says the pending call is the one some completion holds;
and a call that is asked but not yet admitted is held by none.  A handler that
drops its watcher breaks `Linked` for one completion until it calls it, hence the
parameter `x` of `CallGood`.  That a finished event finds its watcher (else the end
of an arm could hand its call to a slot in use) is `TaskInv`: tasks run for
watchers, and the queue holds one finished event of each task that is done.

What the session answers is tied to the device by two more invariants.
`DeviceInv` has three parts.  `Releasing` follows the destructor: past its first
wait every task is done, past the join there is no worker, past the close the device
is closed; and only who closed the device may leave its handle streaming.  `Working`
says that the worker is held back exactly until the arm task has reported the
acquisition, and `Opened` that a device a connection opened stays open as long as its
success is still to be told.  At `gui = "dead"` this is `ReleasedDeviceUnused`.
`AnswerInv` has what an answer rests on: a completion holds a call of a tool it can
answer (`ToolsKnown`); frames that arrived since a Single was accepted are frames of
a later arm (`Counted`: without it a late frame of the previous worker would count);
and a queued inactive status of the current generation is not contradicted by
`isGrabbing`, unless an arm has set it and not yet told (`Reported`).  In that last case
the arm still has its watcher, so no completion waits for an end.  `Follows` and
`After` say once what a handler may do with the calls and the refresh of a session,
so that `GuiDevice` and `GuiTools` cover every handler.

**The widget.** `WidgetShowsSession` is about a quiet session, and in most steps
nothing is quiet: the device has moved on and its statuses wait in the queue.  Three
invariants say how far the widget may be behind.  `ModeInv` gives the mode of the
device from who moves it: it is `arming` exactly during the setup of an arm task,
`armed` exactly while a worker is held, runs or leaves, `initializing` exactly during
a profile, and `closed` only without a worker.  `StatusInv` says of each queued status
of the current generation that the worker is still where it reported it (`Told`), and
that a failed start is queued before the end of its arm (`FailuresFirst`), so that
its handler runs while the arm is still shown as pending.  `WidgetInv` is what is shown:
a pending flag has a watcher that will clear it (`Pendings`); each watcher finds the
device where its task may work (`Works`); and unless a connection is being opened or
closed (`Moving`), connected and available are true, and an acquisition is shown exactly
if one runs, or the status that corrects it is still to come (`Shows`).  `Fit` joins
these; its parameter `x` stands for an initialization whose watcher is already gone and
whose flag its handler is about to clear.  In a quiet session there are no watchers
and no events left to wait for, so `Fit` is the property (`QuietAgrees`).  `Coherent`
is what every setter of `ControlWidget` keeps (an acquisition is shown only where
one is possible, a trigger pending only in one); `Same` and `Becomes` say once which
flags a setter and an operation of the session may change, and which watchers there
are then.

The types of the session need these as well: that the step of a task finds its
watcher (`TaskInv`), and that a setter gives a widget (`Sound`).  The one clause of
`TypeOK` that is no type, that the completion of a refresh is remembered only while the
features are read, is `Reading`; every operation but the end of the read keeps it
(`Gathers`), and that one forgets the completion before it runs it.

**Only model-checked.** `NoStopLeftPending` is the one safety invariant without a
theorem: `WidgetInv` follows the flags of `Main`, and `stopPending` is not one of
them, because the setter that asks for a stop sets it before any task or status
tells of it.  It was also checked with two arms, two calls and three clicks.
Liveness under fairness (`RequestedStopIsReported`, `LifecycleCallsReturn`, `ProfileEnds`,
`OperationsComplete`, `DestructionEnds`) is out of the prover's reach, and the three
runs that expect a violation show counterexamples.

## What is not modelled

- Log and error texts, sample values, sequence numbers, pixel-format codes.
- `HeliotisC4System` and the identity check of `open`: one query under one mutex,
  whose answer `PluginSession` takes as an input.
- The loaders and the search for a vendor runtime: file-system I/O.
- In `C4Device`: the destructor (a `close` without competitors), spurious wake-ups
  (the waits re-evaluate their predicates), exceptions of `std::thread` other than
  at its creation.  `Feature` abstracts the feature tree to the two features that
  acquisition depends on.  Memory-model effects: all shared members are guarded or
  atomic.
- In `ReferenceProfile`: the read-only snapshots that end a run.
- In `PluginSession`: the contents of replies, the revisions of parameter
  observations, the feature snapshot and the list of targets; a widget created
  again after its destruction; calls that re-enter the session during its
  destructor; functors queued by Plugin.cpp 484 and 501 to a session that is gone.
  The two signals of a failed start are handled as one event, and a handler of the
  GUI thread that reads `isGrabbing` several times reads it once.  The device is
  `DeviceMode`, so no deadlock of the facade appears here.
- The rows, texts, icons and layout of the widget.

## Plan

Done: the device facade, the policy, the profile, the frame path, and the session
with its widget, each with its runs and at least one theorem of every module that
has threads.

Left, in the order of what they would add:

1. Discovery: the list of `HeliotisC4System` against the identity check of `open`.
2. The revisions of parameter observations.
3. A theorem for `NoStopLeftPending`: an invariant that ties a pending stop to the
   worker that was asked, or to the status of its end in the queue.
