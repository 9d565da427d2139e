---------------------------- MODULE PluginSession ----------------------------
(***************************************************************************)
(* The plugin session and its source controller (src/C++/Utility/          *)
(* PlaygroundAdapter/Plugin/HeliotisC4Plugin.cpp and Source/               *)
(* HeliotisC4SourceController.cpp), composed with the control widget       *)
(* (ControlWidget) and with what the device facade promises (DeviceMode).  *)
(*                                                                         *)
(* Actors: the GUI thread, which runs user clicks, tool and parameter      *)
(* requests and queued events one at a time; one pool task per watcher;    *)
(* one pool task per parameter request; the acquisition worker.  The GUI   *)
(* thread reads the controller's atomics while the others change them.     *)
(***************************************************************************)
EXTENDS Naturals, Sequences, FiniteSets, ControlWidget

CONSTANTS Clicks,       \* user operations: controls, the end of the widget and of the session
          Tools,        \* tools the host requests
          Parameters,   \* kinds of parameter requests
          Software,     \* whether FrameStart may wait for software commands
          Diagnostics,  \* whether the operation diagnostic log is enabled
          MaxClicks, MaxCalls, MaxParameters, MaxArms, MaxFrames   \* bounds

AllClicks == {"refresh", "connect", "disconnect", "single", "live", "init",
              "edit", "trigger", "widget", "session"}
AllTools == {"discover", "connect", "disconnect", "single", "live-start", "live-stop"}
AllParameters == {"read", "write", "trigger"}

ASSUME OperationsAssumption ==
  /\ Clicks \subseteq AllClicks
  /\ Tools \subseteq AllTools
  /\ Parameters \subseteq AllParameters
  /\ Software \subseteq BOOLEAN /\ Software # {}
  /\ Diagnostics \in BOOLEAN

ASSUME BoundsAssumption ==
  /\ MaxClicks \in Nat /\ MaxCalls \in Nat /\ MaxParameters \in Nat
  /\ MaxArms \in Nat /\ MaxFrames \in Nat

VARIABLES
  (* The device facade, as DeviceMode promises it, and its worker. *)
  mode, streaming,
  worker,          \* [phase, continuous, error]
  stopAsked,       \* a stop was requested of the current acquisition
  software,        \* whether FrameStart waits for software commands

  (* Atomics of the controller, written by any thread. *)
  isGrabbing, isContinuous, statusGeneration, deliveredFrames,
  connected,       \* connectionId is not empty
  parameterBusy,

  (* Pool tasks. *)
  task,            \* phase of the task of each watcher
  succeeded,       \* the result it left for the watcher
  parameterTask,   \* phase of each parameter task
  parameterWork,   \* the task _parameterWork refers to

  (* State of the GUI thread. *)
  session,         \* session and widget fields
  queue,           \* events posted to the GUI thread
  gui,             \* what the GUI thread is doing
  asked,           \* a tool call between its checks and its admission

  (* What happened so far. *)
  calls,           \* tool calls accepted
  tool,            \* the tool of each call
  answer,          \* what each call was answered
  framesBefore,    \* frames delivered when the last call was accepted
  armOfCall,       \* arms begun when the last call was accepted
  clicks, parameters, arms, frames,
  frameArm         \* the arm that delivered the last frame

device     == <<mode, streaming, worker, stopAsked, software>>
controller == <<isGrabbing, isContinuous, statusGeneration, deliveredFrames, connected>>
pool       == <<task, succeeded>>
parameter  == <<parameterBusy, parameterTask, parameterWork, parameters>>
request    == <<calls, tool, framesBefore, armOfCall>>
history    == <<arms, frames, frameArm>>
guiThread  == <<session, gui, asked, answer, clicks, request>>

vars == <<device, controller, pool, parameter, guiThread, queue, history>>

D == INSTANCE DeviceMode

Watchers == {"discovery", "connection", "disconnection", "initialization",
             "feature", "featureRead", "arm"}
TaskPhases == {"idle", "opened", "stopping", "stopped", "closing", "profile",
               "arming", "setup", "armed", "grabbing", "told", "failed", "done"}
Completions == {"discovery", "connect", "disconnect", "arm", "acquisitionEnd"}
ParameterPhases == {"none", "read", "write", "trigger", "cleared", "applied",
                    "emit", "returning", "done"}
GuiPhases == {"idle", "rest", "wait", "parameters", "stop", "close", "release", "dead"}
WorkerPhases == {"none", "held", "running", "leaving", "ended", "telling"}

Calls == 1..MaxCalls
NoCall == 0
NoWork == 0

Event == [kind : {"refresh", "control", "applied", "frame"}]
           \cup [kind : {"finished"}, task : Watchers]
           \cup [kind : {"acquisition"}, active : BOOLEAN, continuous : BOOLEAN,
                 generation : Nat, error : BOOLEAN]
           \cup [kind : {"start failed"}]

Session == [widget : BOOLEAN,               \* the control widget exists
            ui : Widget,
            watchers : SUBSET Watchers,     \* watchers that exist
            completion : [Completions -> {NoCall} \cup Calls],
            refreshFor : {"nothing", "connect", "initialized", "profile failed", "feature"},
            featureOperation : {"write", "trigger"},
            armLive : BOOLEAN,
            disconnectPending : BOOLEAN,
            externalBusyShown : BOOLEAN,
            toolCall : {NoCall} \cup Calls]

(* Types, and that a task and a remembered completion have their watcher. *)
TypeOK ==
  /\ D!TypeOK
  /\ worker \in [phase : WorkerPhases, continuous : BOOLEAN, error : BOOLEAN]
  /\ stopAsked \in BOOLEAN /\ software \in Software
  /\ isGrabbing \in BOOLEAN /\ isContinuous \in BOOLEAN /\ connected \in BOOLEAN
  /\ statusGeneration \in Nat /\ deliveredFrames \in Nat
  /\ task \in [Watchers -> TaskPhases] /\ succeeded \in [Watchers -> BOOLEAN]
  /\ parameterBusy \in BOOLEAN
  /\ parameterTask \in [1..MaxParameters -> ParameterPhases]
  /\ parameterWork \in 0..MaxParameters /\ parameters \in 0..MaxParameters
  /\ session \in Session
  /\ \A w \in Watchers : task[w] # "idle" => w \in session.watchers
  /\ session.refreshFor # "nothing" => "featureRead" \in session.watchers
  /\ queue \in Seq(Event)
  /\ gui \in GuiPhases
  /\ asked \in AllTools \cup {"none"}
  /\ calls \in 0..MaxCalls
  /\ tool \in [Calls -> AllTools \cup {"none"}]
  /\ answer \in [Calls -> {"none", "pending", "ok", "failed", "refused"}]
  /\ framesBefore \in Nat /\ armOfCall \in Nat
  /\ clicks \in Nat /\ arms \in Nat /\ frames \in Nat /\ frameArm \in Nat

Init ==
  /\ D!Init /\ mode = "closed"
  /\ worker = [phase |-> "none", continuous |-> FALSE, error |-> FALSE]
  /\ stopAsked = FALSE /\ software \in Software
  /\ isGrabbing = FALSE /\ isContinuous = FALSE /\ connected = FALSE
  /\ statusGeneration = 0 /\ deliveredFrames = 0
  /\ task = [w \in Watchers |-> "idle"] /\ succeeded = [w \in Watchers |-> FALSE]
  /\ parameterBusy = FALSE /\ parameterWork = NoWork /\ parameters = 0
  /\ parameterTask = [p \in 1..MaxParameters |-> "none"]
  /\ session = [widget |-> TRUE, ui |-> NewWidget(TRUE), watchers |-> {},
                completion |-> [c \in Completions |-> NoCall],
                refreshFor |-> "nothing", featureOperation |-> "write", armLive |-> FALSE,
                disconnectPending |-> FALSE, externalBusyShown |-> FALSE, toolCall |-> NoCall]
  /\ queue = <<>> /\ gui = "idle" /\ asked = "none"
  /\ calls = 0 /\ tool = [c \in Calls |-> "none"] /\ answer = [c \in Calls |-> "none"]
  /\ framesBefore = 0 /\ armOfCall = 0
  /\ clicks = 0 /\ arms = 0 /\ frames = 0 /\ frameArm = 0

------------------------------------------------------------------------------
(* Reading the device and the session. *)

IsOpened == mode # "closed"
RequiresReconnect == mode = "fault"

ControlBusy(s) == s.watchers # {} \/ s.disconnectPending

(* Mutant: a session operation starts under a parameter request. *)
OnlySessionWork(s) == ControlBusy(s)

SdkOperationPending(s) == ControlBusy(s) \/ parameterBusy

(* A destroyed widget takes its events with it; the destructor handles none. *)
Posted(events) == IF session.widget /\ gui \in {"idle", "rest"} THEN queue \o events ELSE <<>>

Finished(w) == [kind |-> "finished", task |-> w]
Control == [kind |-> "control"]

------------------------------------------------------------------------------
(* What the GUI thread does with its state: functions of the session record. *)

Shown(s, busy) ==
  IF ~s.widget \/ busy = s.externalBusyShown THEN s
  ELSE [s EXCEPT !.externalBusyShown = busy,
          !.ui = IF s.watchers \cap {"feature", "featureRead", "initialization"} = {}
                   THEN SetFeatureOperationPending(@, busy) ELSE @]

(* controlChanged mirrors API work to the widget. *)
ControlChanged(s) == Shown(s, parameterBusy /\ ~isGrabbing)

(* Mutant: a Single that stopped is a success whether or not a frame came. *)
AnswerOfStop(call, ok) == IF ok THEN "ok" ELSE "failed"

(* finishTool: what the call is answered. *)
Answer(call, ok) ==
  IF ~ok \/ (tool[call] = "single" /\ deliveredFrames = framesBefore) THEN "failed" ELSE "ok"

ToolFinished(s, call) ==
  ControlChanged([s EXCEPT !.toolCall = IF @ = call THEN NoCall ELSE @])

(* Mutant: a completion that was called is stored still. *)
CompletionKept(s, c) ==
  IF s.completion[c] = NoCall THEN s ELSE ToolFinished(s, s.completion[c])

(* The session after it called a stored completion, and the answers then. *)
Completed(s, c) ==
  IF s.completion[c] = NoCall THEN s
  ELSE ToolFinished([s EXCEPT !.completion[c] = NoCall], s.completion[c])

Answered(s, c, ok) ==
  IF s.completion[c] = NoCall THEN answer
  ELSE [answer EXCEPT ![s.completion[c]] = Answer(s.completion[c], ok)]

Started(s, w) == [s EXCEPT !.watchers = @ \cup {w}]
Dropped(s, w) == [s EXCEPT !.watchers = @ \ {w}]

RefreshRefused(s) ==
  \/ ~s.widget \/ ~IsOpened \/ RequiresReconnect
  \/ SdkOperationPending(s)
  \/ isGrabbing

(* The completion refreshFeatureTree was given. *)
AfterRefresh(s, for) ==
  CASE for = "connect" -> Completed([s EXCEPT !.ui = SetAcquisitionAvailable(@, TRUE)], "connect")
    [] for = "initialized" ->
         [s EXCEPT !.ui = SetAcquisitionAvailable(InitializationEnded(@), TRUE)]
    [] for = "profile failed" -> [s EXCEPT !.ui = InitializationEnded(@)]
    [] for = "feature" -> [s EXCEPT !.ui = SetFeatureOperationPending(@, FALSE)]
    [] for = "nothing" -> s

(* Mutant: the completion is stored before the refresh is refused. *)
CompletionStoredFirst(s, for) ==
  LET v == [s EXCEPT !.refreshFor = for]
  IN IF RefreshRefused(s) THEN AfterRefresh(v, for)
     ELSE [Started(v, "featureRead") EXCEPT !.ui = SetFeatureRefreshPending(@, TRUE)]

RefreshFeatureTree(s, for) ==
  IF RefreshRefused(s) THEN AfterRefresh(s, for)
  ELSE [Started(s, "featureRead") EXCEPT !.ui = SetFeatureRefreshPending(@, TRUE),
                                         !.refreshFor = for]

(* Only a connection's refresh completes a tool call. *)
AnsweredByRefresh(s, for) ==
  IF RefreshRefused(s) /\ for = "connect" THEN Answered(s, "connect", TRUE) ELSE answer

CompleteDisconnect(s) ==
  IF ~s.widget \/ "disconnection" \in s.watchers THEN s
  ELSE [Started(s, "disconnection") EXCEPT !.disconnectPending = TRUE,
                                           !.ui = SetDisconnectionPending(@)]

------------------------------------------------------------------------------
(* Session operations: whether one is admitted, and the session afterwards. *)

DiscoverAdmitted(s) == s.widget /\ ~SdkOperationPending(s) /\ ~IsOpened /\ ~isGrabbing

Discover(s, call) ==
  [Started(s, "discovery") EXCEPT !.ui = SetDiscoveryPending(@, TRUE),
                                  !.completion["discovery"] = call]

ConnectAdmitted(s) == s.widget /\ ~SdkOperationPending(s) /\ ~IsOpened

Connect(s, call) == [Started(s, "connection") EXCEPT !.completion["connect"] = call]

DisconnectAdmitted(s) == s.widget /\ ~SdkOperationPending(s)

(* An armed acquisition is asked to stop first; its end completes the rest. *)
Disconnect(s, call) ==
  LET v == [s EXCEPT !.completion["disconnect"] = call]
  IN IF isGrabbing
       THEN [v EXCEPT !.disconnectPending = TRUE, !.ui = SetDisconnectionPending(@)]
       ELSE CompleteDisconnect(v)

ArmAdmitted(s) ==
  /\ s.widget /\ IsOpened /\ ~RequiresReconnect /\ ~isGrabbing
  /\ ~SdkOperationPending(s)
  /\ s.completion["acquisitionEnd"] = NoCall

Arm(s, live, call) ==
  [Started(s, "arm") EXCEPT !.completion["arm"] = call, !.armLive = live,
                            !.ui = ArmBegun(@, live)]

StopAdmitted(s) == isGrabbing /\ s.completion["acquisitionEnd"] = NoCall

StopShown(s) == IF s.widget THEN [s EXCEPT !.ui = SetAcquisitionStopPending(@)] ELSE s

(* requestStopAcquisition finds the acquisition that is armed or arming. *)
RequestStop == stopAsked' = (stopAsked \/ mode \in {"arming", "armed"})

FeatureAdmitted(s) ==
  s.widget /\ IsOpened /\ ~SdkOperationPending(s) /\ ~RequiresReconnect

RunFeatureOperation(s, operation) ==
  [Started(s, "feature") EXCEPT !.ui = SetFeatureOperationPending(@, TRUE),
                                !.featureOperation = operation]

InitializeAdmitted(s) ==
  s.widget /\ IsOpened /\ ~isGrabbing /\ ~SdkOperationPending(s)

Initialize(s) == [Started(s, "initialization") EXCEPT !.ui = InitializationBegun(@)]

------------------------------------------------------------------------------
(* The user operates an enabled control; the session may still refuse. *)

GuiFree == gui = "idle" /\ asked = "none"

Click(name) ==
  /\ GuiFree /\ session.widget
  /\ name \in Clicks /\ clicks < MaxClicks
  /\ clicks' = clicks + 1
  /\ UNCHANGED <<mode, streaming, worker, software, controller, pool, parameter, history,
                 gui, asked, answer, request>>

ClickRefresh ==
  /\ Click("refresh") /\ CanRefresh(session.ui)
  /\ session' = [session EXCEPT !.ui.refreshOn = FALSE]
  /\ queue' = Append(queue, [kind |-> "refresh"])
  /\ UNCHANGED stopAsked

ClickConnect ==
  /\ Click("connect") /\ CanConnect(session.ui)
  /\ LET s == [session EXCEPT !.ui = SetConnectionPending([@ EXCEPT !.connectChecked = TRUE], TRUE)]
     IN session' = IF ConnectAdmitted(s) THEN Connect(s, NoCall)
                   ELSE IF SdkOperationPending(s) THEN [s EXCEPT !.ui = SetConnectionError(@)]
                   ELSE [s EXCEPT !.ui = SetAcquisitionAvailable(SetConnectionState(@, TRUE),
                                                                 ~RequiresReconnect)]
  /\ UNCHANGED <<queue, stopAsked>>

ClickDisconnect ==
  /\ Click("disconnect") /\ CanDisconnect(session.ui)
  /\ LET s == [session EXCEPT !.ui.connectChecked = FALSE]
     IN IF DisconnectAdmitted(s)
          THEN /\ session' = Disconnect(s, NoCall)
               /\ IF isGrabbing THEN RequestStop ELSE UNCHANGED stopAsked
          ELSE /\ session' = [s EXCEPT !.ui = SetConnectionState(@, IsOpened)]
               /\ UNCHANGED stopAsked
  /\ UNCHANGED queue

ArmOrNothing(s, live) == IF ArmAdmitted(s) THEN Arm(s, live, NoCall) ELSE s

ClickSingle ==
  /\ Click("single") /\ CanSingle(session.ui)
  /\ IF session.ui.acquisitionActive
       THEN session' = StopShown(session) /\ RequestStop
       ELSE session' = ArmOrNothing(session, FALSE) /\ UNCHANGED stopAsked
  /\ UNCHANGED queue

ToggleLive ==
  /\ Click("live") /\ CanLive(session.ui)
  /\ LET s == [session EXCEPT !.ui.liveChecked = ~@]
     IN IF s.ui.liveChecked
          THEN session' = ArmOrNothing(s, TRUE) /\ UNCHANGED stopAsked
          ELSE session' = StopShown(s) /\ RequestStop
  /\ UNCHANGED queue

ClickInit ==
  /\ Click("init") /\ CanInit(session.ui)
  /\ session' = IF InitializeAdmitted(session) THEN Initialize(session) ELSE session
  /\ UNCHANGED <<queue, stopAsked>>

EditFeature ==
  /\ Click("edit") /\ CanEdit(session.ui)
  /\ session' = IF FeatureAdmitted(session) THEN RunFeatureOperation(session, "write") ELSE session
  /\ UNCHANGED <<queue, stopAsked>>

ClickTrigger ==
  /\ Click("trigger") /\ CanTrigger(session.ui)
  /\ LET s == [session EXCEPT !.ui = SetSoftwareTriggerPending(@, TRUE)]
     IN session' = IF FeatureAdmitted(s) THEN RunFeatureOperation(s, "trigger")
                   ELSE [s EXCEPT !.ui = SetSoftwareTriggerPending(@, FALSE)]
  /\ UNCHANGED <<queue, stopAsked>>

(* The host destroys the widget: its handlers are disconnected. *)
DestroyWidget ==
  /\ Click("widget")
  /\ session' = [session EXCEPT !.widget = FALSE]
  /\ queue' = <<>>
  /\ UNCHANGED stopAsked

------------------------------------------------------------------------------
(* requestTool: the checks, then the session operation, whose own guards see *)
(* what the worker changed in between.                                       *)

MayRequest == gui \in {"idle", "rest"} /\ asked = "none"

ExternalBusy == parameterBusy \/ session.toolCall # NoCall

ToolPossible(t) ==
  IF t \in {"discover", "connect"} THEN ~(IsOpened /\ connected)
  ELSE IsOpened /\ connected /\ (t \in {"single", "live-start"} => ~isGrabbing)

NewCall(t) ==
  /\ MayRequest /\ t \in Tools /\ calls < MaxCalls
  /\ ~ExternalBusy /\ ~ControlBusy(session) /\ ToolPossible(t)
  /\ calls' = calls + 1
  /\ tool' = [tool EXCEPT ![calls + 1] = t]
  /\ framesBefore' = deliveredFrames /\ armOfCall' = arms
  /\ UNCHANGED <<device, controller, pool, parameter, history, queue, gui, clicks>>

StopNothing ==
  /\ NewCall("live-stop") /\ ~isGrabbing
  /\ answer' = [answer EXCEPT ![calls + 1] = "ok"]
  /\ UNCHANGED <<session, asked>>

AskTool(t) ==
  /\ NewCall(t) /\ (t = "live-stop" => isGrabbing)
  /\ session' = ControlChanged([session EXCEPT !.toolCall = calls + 1])
  /\ answer' = [answer EXCEPT ![calls + 1] = "pending"]
  /\ asked' = t

ToolAdmitted(t, s) ==
  CASE t = "discover" -> DiscoverAdmitted(s)
    [] t = "connect" -> s.ui.found /\ ConnectAdmitted(s)
    [] t = "disconnect" -> DisconnectAdmitted(s)
    [] t \in {"single", "live-start"} -> ArmAdmitted(s)
    [] t = "live-stop" -> StopAdmitted(s)

ToolStarted(t, s, call) ==
  CASE t = "discover" -> Discover(s, call)
    [] t = "connect" -> Connect([s EXCEPT !.ui = SetConnectionPending(@, TRUE)], call)
    [] t = "disconnect" -> Disconnect(s, call)
    [] t \in {"single", "live-start"} -> Arm(s, t = "live-start", call)
    [] t = "live-stop" -> StopShown([s EXCEPT !.completion["acquisitionEnd"] = call])

AdmitTool ==
  /\ asked # "none" /\ ToolAdmitted(asked, session)
  /\ session' = ToolStarted(asked, session, session.toolCall)
  /\ IF asked = "live-stop" \/ (asked = "disconnect" /\ isGrabbing)
       THEN RequestStop ELSE UNCHANGED stopAsked
  /\ asked' = "none"
  /\ UNCHANGED <<mode, streaming, worker, software, controller, pool, parameter, history,
                 queue, gui, answer, clicks, request>>

RefuseTool ==
  /\ asked # "none" /\ ~ToolAdmitted(asked, session)
  /\ session' = ControlChanged([session EXCEPT !.toolCall = NoCall])
  /\ answer' = [answer EXCEPT ![session.toolCall] = "refused"]
  /\ asked' = "none"
  /\ UNCHANGED <<device, controller, pool, parameter, history, queue, gui, clicks, request>>

------------------------------------------------------------------------------
(* Parameter requests: admission on the GUI thread, work in the pool. *)

(* The command trigger is admitted during a pending Single and while armed. *)
ParameterAdmitted(kind) ==
  /\ ~parameterBusy /\ ~ControlBusy(session)
  /\ kind # "trigger" => session.toolCall = NoCall
  /\ IsOpened /\ connected /\ ~RequiresReconnect
  /\ (kind = "trigger") = isGrabbing

RequestParameter(kind) ==
  /\ MayRequest /\ kind \in Parameters /\ parameters < MaxParameters
  /\ ParameterAdmitted(kind)
  /\ parameterBusy' = TRUE
  /\ session' = Shown(session, ~isGrabbing)
  /\ parameters' = parameters + 1
  /\ parameterTask' = [parameterTask EXCEPT ![parameters + 1] = kind]
  /\ parameterWork' = parameters + 1
  /\ UNCHANGED <<device, controller, pool, history, queue, gui, asked, answer, clicks, request>>

ParameterStep(p, from, to) ==
  /\ parameterTask[p] \in from
  /\ parameterTask' = [parameterTask EXCEPT ![p] = to]
  /\ UNCHANGED <<device, controller, pool, guiThread, history, parameterWork, parameters>>

(* An applied write needs an idle device; the busy flag falls first. *)
RunParameter(p) ==
  /\ \/ ParameterStep(p, {"read", "write", "trigger"}, "cleared")
     \/ ParameterStep(p, {"write"}, "applied") /\ mode = "ready"
  /\ parameterBusy' = FALSE
  /\ UNCHANGED queue

ReportParameter(p) ==
  /\ \/ ParameterStep(p, {"cleared"}, "returning")
     \/ ParameterStep(p, {"applied"}, "emit")
  /\ queue' = Posted(<<Control>>)
  /\ UNCHANGED parameterBusy

ReportApplied(p) ==
  /\ ParameterStep(p, {"emit"}, "returning")
  /\ queue' = Posted(<<[kind |-> "applied"]>>)
  /\ UNCHANGED parameterBusy

ReturnParameter(p) ==
  /\ ParameterStep(p, {"returning"}, "done")
  /\ UNCHANGED <<queue, parameterBusy>>

------------------------------------------------------------------------------
(* Pool tasks of the watchers. *)

Queued(w) == w \in session.watchers /\ task[w] = "idle"

TaskAt(w, phase) == task[w] = phase

ToPhase(w, phase) ==
  /\ task' = [task EXCEPT ![w] = phase]
  /\ UNCHANGED <<succeeded, queue, parameter, guiThread>>

(* The task returns: whatever it posted, then the watcher's finished event. *)
Returns(w, ok, posts) ==
  /\ task' = [task EXCEPT ![w] = "done"]
  /\ succeeded' = [succeeded EXCEPT ![w] = ok]
  /\ queue' = Posted(Append(posts, Finished(w)))
  /\ UNCHANGED <<parameter, guiThread>>

DeviceIdle == UNCHANGED <<mode, streaming>>
SameAcquisition == UNCHANGED <<worker, stopAsked, software, history>>

RunDiscovery ==
  /\ Queued("discovery")
  /\ \E ok \in BOOLEAN : Returns("discovery", ok, <<>>)
  /\ DeviceIdle /\ SameAcquisition /\ UNCHANGED controller

OpenDevice ==
  /\ Queued("connection")
  /\ \/ D!Open /\ ToPhase("connection", "opened")
     \/ DeviceIdle /\ Returns("connection", FALSE, <<>>)
  /\ SameAcquisition /\ UNCHANGED controller

(* The connection status callback, and the end of the task. *)
ReportConnection ==
  /\ TaskAt("connection", "opened")
  /\ connected' = TRUE
  /\ Returns("connection", TRUE, <<Control>>)
  /\ DeviceIdle /\ SameAcquisition
  /\ UNCHANGED <<isGrabbing, isContinuous, statusGeneration, deliveredFrames>>

StopForDisconnect ==
  /\ Queued("disconnection") /\ ToPhase("disconnection", "stopping")
  /\ RequestStop
  /\ DeviceIdle /\ UNCHANGED <<worker, software, history, controller>>

ClearFlags ==
  /\ isGrabbing' = FALSE /\ isContinuous' = FALSE
  /\ UNCHANGED <<statusGeneration, deliveredFrames, connected>>

JoinForDisconnect ==
  /\ TaskAt("disconnection", "stopping") /\ worker.phase = "none"
  /\ ClearFlags
  /\ ToPhase("disconnection", "stopped")
  /\ DeviceIdle /\ SameAcquisition

CloseDevice ==
  /\ TaskAt("disconnection", "stopped")
  /\ \/ D!Close /\ ToPhase("disconnection", "closing")
     \/ ~IsOpened /\ DeviceIdle /\ Returns("disconnection", TRUE, <<>>)
  /\ SameAcquisition /\ UNCHANGED controller

ReleaseDevice ==
  /\ TaskAt("disconnection", "closing") /\ D!Release
  /\ connected' = FALSE
  /\ Returns("disconnection", TRUE, <<Control>>)
  /\ SameAcquisition
  /\ UNCHANGED <<isGrabbing, isContinuous, statusGeneration, deliveredFrames>>

BeginProfile ==
  /\ Queued("initialization")
  /\ \/ D!BeginInitialization /\ ToPhase("initialization", "profile")
     \/ mode # "ready" /\ DeviceIdle /\ Returns("initialization", FALSE, <<>>)
  /\ SameAcquisition /\ UNCHANGED controller

EndProfile ==
  /\ TaskAt("initialization", "profile") /\ D!EndInitialization
  /\ \E ok \in BOOLEAN : Returns("initialization", ok, <<>>)
  /\ SameAcquisition /\ UNCHANGED controller

(* Features are accessed on an idle device, the command trigger while armed. *)
RunFeature ==
  /\ Queued("feature")
  /\ \E ok \in BOOLEAN :
       /\ ok => \/ mode = "ready"
                \/ mode = "armed" /\ session.featureOperation = "trigger"
       /\ Returns("feature", ok, <<>>)
  /\ DeviceIdle /\ SameAcquisition /\ UNCHANGED controller

ReadFeatures ==
  /\ Queued("featureRead")
  /\ \E ok \in BOOLEAN : (ok => mode = "ready") /\ Returns("featureRead", ok, <<>>)
  /\ DeviceIdle /\ SameAcquisition /\ UNCHANGED controller

------------------------------------------------------------------------------
(* startAcquisition, in the arm task. *)

SetContinuous(value) ==
  /\ isContinuous' = value
  /\ UNCHANGED <<isGrabbing, statusGeneration, deliveredFrames, connected>>

StartArm ==
  /\ Queued("arm")
  /\ IF isGrabbing THEN Returns("arm", FALSE, <<>>) /\ UNCHANGED controller
     ELSE ToPhase("arm", "arming") /\ SetContinuous(session.armLive)
  /\ DeviceIdle /\ SameAcquisition

(* The facade joins the worker of the last acquisition before it arms. *)
BeginArming ==
  /\ TaskAt("arm", "arming") /\ worker.phase = "none"
  /\ \/ /\ D!BeginArming /\ arms < MaxArms
        /\ stopAsked' = FALSE /\ ToPhase("arm", "setup")
     \/ /\ DeviceIdle
        /\ UNCHANGED stopAsked /\ ToPhase("arm", "failed")
  /\ UNCHANGED <<worker, software, history, controller>>

SetUpArming ==
  /\ TaskAt("arm", "setup")
  /\ \/ D!StartStreaming /\ ToPhase("arm", "setup")
     \/ D!AbandonArming /\ ToPhase("arm", "failed")
  /\ SameAcquisition /\ UNCHANGED controller

CompleteArming ==
  /\ TaskAt("arm", "setup") /\ D!Arm /\ ToPhase("arm", "armed")
  /\ worker' = [phase |-> "held", continuous |-> session.armLive, error |-> FALSE]
  /\ arms' = arms + 1
  /\ UNCHANGED <<stopAsked, software, frames, frameArm, controller>>

FailArming ==
  /\ TaskAt("arm", "failed")
  /\ SetContinuous(FALSE)
  /\ Returns("arm", FALSE, <<[kind |-> "start failed"]>>)
  /\ DeviceIdle /\ SameAcquisition

(* The acquisition status callback stores isGrabbing first, the rest later. *)
Acquisition(active, error) ==
  [kind |-> "acquisition", active |-> active, continuous |-> isContinuous,
   generation |-> statusGeneration + 1, error |-> error]

ReportGrabbing ==
  /\ TaskAt("arm", "armed") /\ ToPhase("arm", "grabbing")
  /\ isGrabbing' = TRUE
  /\ DeviceIdle /\ SameAcquisition
  /\ UNCHANGED <<isContinuous, statusGeneration, deliveredFrames, connected>>

(* The worker polls once the active status was reported. *)
ReportActive ==
  /\ TaskAt("arm", "grabbing")
  /\ task' = [task EXCEPT !["arm"] = "told"]
  /\ statusGeneration' = statusGeneration + 1
  /\ queue' = Posted(<<Acquisition(TRUE, FALSE)>>)
  /\ worker' = [worker EXCEPT !.phase = "running"]
  /\ DeviceIdle
  /\ UNCHANGED <<succeeded, parameter, guiThread, stopAsked, software, history,
                 isGrabbing, isContinuous, deliveredFrames, connected>>

ReturnArmed ==
  /\ TaskAt("arm", "told") /\ Returns("arm", TRUE, <<>>)
  /\ DeviceIdle /\ SameAcquisition /\ UNCHANGED controller

------------------------------------------------------------------------------
(* The acquisition worker. *)

WorkerAt(phase) ==
  /\ worker.phase = phase
  /\ UNCHANGED <<pool, parameter, guiThread, stopAsked, software, arms>>

(* A receipt in Live with software triggers frees the next trigger; only a   *)
(* converted frame is delivered.  Single leaves after one frame; a frame may *)
(* still be under way when a stop is asked.                                  *)
ReceiveFrame ==
  /\ WorkerAt("running") /\ frames < MaxFrames
  /\ frames' = frames + 1
  /\ queue' = IF software /\ isContinuous THEN Posted(<<[kind |-> "frame"]>>) ELSE queue
  /\ \/ deliveredFrames' = deliveredFrames + 1 /\ frameArm' = arms
     \/ UNCHANGED <<deliveredFrames, frameArm>>
  /\ worker' = [worker EXCEPT !.phase = IF worker.continuous THEN "running" ELSE "leaving"]
  /\ DeviceIdle
  /\ UNCHANGED <<isGrabbing, isContinuous, statusGeneration, connected>>

LeavePolling ==
  /\ WorkerAt("running") /\ stopAsked
  /\ worker' = [worker EXCEPT !.phase = "leaving"]
  /\ DeviceIdle /\ UNCHANGED <<controller, queue, frames, frameArm>>

FailPolling ==
  /\ WorkerAt("running")
  /\ worker' = [worker EXCEPT !.phase = "leaving", !.error = TRUE]
  /\ DeviceIdle /\ UNCHANGED <<controller, queue, frames, frameArm>>

StopStreaming ==
  /\ WorkerAt("leaving") /\ streaming
  /\ \/ D!StopStreaming /\ UNCHANGED worker
     \/ D!Fail /\ worker' = [worker EXCEPT !.phase = "ended", !.error = TRUE]
  /\ UNCHANGED <<controller, queue, frames, frameArm>>

Disarm ==
  /\ WorkerAt("leaving") /\ D!Disarm
  /\ worker' = [worker EXCEPT !.phase = "ended"]
  /\ UNCHANGED <<controller, queue, frames, frameArm>>

ReportIdle ==
  /\ WorkerAt("ended")
  /\ isGrabbing' = FALSE
  /\ worker' = [worker EXCEPT !.phase = "telling"]
  /\ DeviceIdle
  /\ UNCHANGED <<isContinuous, statusGeneration, deliveredFrames, connected, queue, frames, frameArm>>

ReportInactive ==
  /\ WorkerAt("telling")
  /\ isContinuous' = FALSE /\ statusGeneration' = statusGeneration + 1
  /\ queue' = Posted(<<Acquisition(FALSE, worker.error)>>)
  /\ worker' = [phase |-> "none", continuous |-> FALSE, error |-> FALSE]
  /\ DeviceIdle
  /\ UNCHANGED <<isGrabbing, deliveredFrames, connected, frames, frameArm>>

------------------------------------------------------------------------------
(* The GUI thread handles the events posted to it, one at a time. *)

Handle(kind) ==
  /\ GuiFree /\ queue # <<>> /\ Head(queue).kind = kind
  /\ queue' = Tail(queue)
  /\ UNCHANGED <<device, controller, parameter, history, asked, clicks, request>>

Keep == UNCHANGED <<pool, gui, answer>>

HandleRefresh ==
  /\ Handle("refresh") /\ Keep
  /\ session' = IF DiscoverAdmitted(session) THEN Discover(session, NoCall) ELSE session

HandleControl ==
  /\ Handle("control") /\ Keep
  /\ session' = ControlChanged(session)

HandleApplied ==
  /\ Handle("applied") /\ Keep
  /\ session' = RefreshFeatureTree(session, "nothing")

HandleFrame ==
  /\ Handle("frame") /\ Keep
  /\ session' = [session EXCEPT !.ui = SetSoftwareTriggerPending(@, FALSE)]

(* The finished event of a watcher: the watcher goes before anything else. *)
Finish(w) ==
  /\ Handle("finished") /\ Head(queue).task = w
  /\ task' = [task EXCEPT ![w] = "idle"]
  /\ succeeded' = [succeeded EXCEPT ![w] = FALSE]
  /\ UNCHANGED gui

FinishDiscovery ==
  /\ Finish("discovery")
  /\ \E found \in BOOLEAN :
       LET s == [Dropped(session, "discovery") EXCEPT
                   !.ui = IF succeeded["discovery"]
                            THEN SetDiscoveredDevices(SetDiscoveryPending(@, FALSE), found)
                            ELSE SetDiscoveryPending(@, FALSE)]
       IN session' = Completed(s, "discovery")
  /\ answer' = Answered(session, "discovery", succeeded["discovery"])

FinishConnection ==
  /\ Finish("connection")
  /\ LET s == [Dropped(session, "connection") EXCEPT !.ui = SetConnectionPending(@, FALSE)]
         opened == [s EXCEPT !.ui = SetAcquisitionAvailable(SetConnectionState(@, TRUE), TRUE)]
         failed == [s EXCEPT !.ui = SetConnectionError(@)]
     IN IF succeeded["connection"]
          THEN /\ session' = RefreshFeatureTree(opened, "connect")
               /\ answer' = AnsweredByRefresh(opened, "connect")
          ELSE /\ session' = Completed(failed, "connect")
               /\ answer' = Answered(failed, "connect", FALSE)

FinishDisconnection ==
  /\ Finish("disconnection")
  /\ LET s == [Dropped(session, "disconnection") EXCEPT
                 !.disconnectPending = FALSE,
                 !.ui = SetConnectionState(SetFeatures(@, FALSE), FALSE)]
     IN session' = Completed(s, "disconnect")
  /\ answer' = Answered(session, "disconnect", TRUE)

FinishInitialization ==
  /\ Finish("initialization")
  /\ session' = RefreshFeatureTree(Dropped(session, "initialization"),
                  IF succeeded["initialization"] THEN "initialized" ELSE "profile failed")
  /\ UNCHANGED answer

FinishFeature ==
  /\ Finish("feature")
  /\ LET s == Dropped(session, "feature")
         freed == [s EXCEPT !.ui = SetFeatureOperationPending(@, FALSE)]
     IN session' =
          CASE succeeded["feature"] /\ s.featureOperation = "write" -> RefreshFeatureTree(s, "feature")
            [] succeeded["feature"] /\ s.featureOperation = "trigger" -> freed
            [] ~succeeded["feature"] /\ s.featureOperation = "write" -> freed
            [] ~succeeded["feature"] /\ s.featureOperation = "trigger" ->
                 [freed EXCEPT !.ui = SetSoftwareTriggerPending(@, FALSE)]
  /\ UNCHANGED answer

FinishFeatureRead ==
  /\ Finish("featureRead")
  /\ LET s == [Dropped(session, "featureRead") EXCEPT
                 !.refreshFor = "nothing",
                 !.ui = IF succeeded["featureRead"]
                          THEN SetFeatures(SetFeatureRefreshPending(@, FALSE), TRUE)
                          ELSE SetFeatureRefreshPending(@, FALSE)]
     IN /\ session' = AfterRefresh(s, session.refreshFor)
        /\ answer' = IF session.refreshFor = "connect" THEN Answered(s, "connect", TRUE) ELSE answer

(* Live is complete once armed; Single once the acquisition it armed ended. *)
FinishArm ==
  /\ Finish("arm")
  /\ LET s == [Dropped(session, "arm") EXCEPT !.ui = ArmEnded(@)]
     IN IF ~succeeded["arm"] \/ s.armLive \/ ~isGrabbing
          THEN /\ session' = Completed(s, "arm")
               /\ answer' = Answered(s, "arm", succeeded["arm"])
          ELSE /\ session' = [s EXCEPT !.completion["acquisitionEnd"] = s.completion["arm"],
                                       !.completion["arm"] = NoCall]
               /\ UNCHANGED answer

(* acquisitionError, after the state was shown. *)
ErrorShown(s) ==
  IF s.disconnectPending \/ "disconnection" \in s.watchers \/ ~IsOpened THEN s
  ELSE LET v == IF RequiresReconnect
                  THEN [s EXCEPT !.ui = SetAcquisitionAvailable(@, FALSE)] ELSE s
       IN [v EXCEPT !.ui = SetAcquisitionError(@)]

(* Mutant: an end that a disconnect waits for is only shown. *)
EndOnlyShown(s, error) == [s EXCEPT !.ui = SetAcquisitionState(@, FALSE, FALSE, FALSE)]

(* acquisitionStateChanged(false, ...) after the completion it finishes. *)
InactiveShown(s, error) ==
  IF s.disconnectPending THEN CompleteDisconnect(s)
  ELSE LET shown == [s EXCEPT !.ui = SetAcquisitionState(@, FALSE, FALSE, FALSE)]
           v == IF Diagnostics /\ IsOpened /\ ~RequiresReconnect
                  THEN RefreshFeatureTree(shown, "nothing") ELSE shown
       IN IF error THEN ErrorShown(v) ELSE v

(* A queued status is stale once a newer one was reported. *)
Stale(event) == event.generation # statusGeneration

HandleStale ==
  /\ Handle("acquisition") /\ Stale(Head(queue)) /\ Keep
  /\ UNCHANGED session

HandleActive ==
  /\ Handle("acquisition") /\ ~Stale(Head(queue)) /\ Head(queue).active /\ Keep
  /\ session' = [session EXCEPT
       !.ui = SetAcquisitionState(@, TRUE, Head(queue).continuous, software)]

HandleInactive ==
  /\ Handle("acquisition") /\ ~Stale(Head(queue)) /\ ~Head(queue).active /\ Keep
  /\ session.completion["acquisitionEnd"] = NoCall
  /\ session' = InactiveShown(session, Head(queue).error)

HandleStartFailed ==
  /\ Handle("start failed") /\ Keep
  /\ session' = InactiveShown(session, TRUE)

(* The call that waited for the end is answered first, and the host may make *)
(* its next request from within; then the handler goes on.                   *)
HandleEnd ==
  /\ GuiFree /\ queue # <<>> /\ Head(queue).kind = "acquisition"
  /\ ~Stale(Head(queue)) /\ ~Head(queue).active
  /\ session.completion["acquisitionEnd"] # NoCall
  /\ session' = Completed(session, "acquisitionEnd")
  /\ answer' = Answered(session, "acquisitionEnd", TRUE)
  /\ gui' = "rest"
  /\ UNCHANGED <<device, controller, pool, parameter, history, queue, asked, clicks, request>>

HandleRest ==
  /\ gui = "rest" /\ asked = "none"
  /\ session' = InactiveShown(session, Head(queue).error)
  /\ queue' = Tail(queue) /\ gui' = "idle"
  /\ UNCHANGED <<device, controller, pool, parameter, history, asked, answer, clicks, request>>

------------------------------------------------------------------------------
(* The destructor runs on the GUI thread, which handles no event meanwhile. *)

Destructor(from, to) ==
  /\ gui = from /\ gui' = to
  /\ UNCHANGED <<pool, parameter, queue, asked, clicks, request, worker, software, history>>

DestroySession ==
  /\ GuiFree /\ "session" \in Clicks
  /\ answer' = IF session.toolCall = NoCall THEN answer
               ELSE [answer EXCEPT ![session.toolCall] = "failed"]
  /\ session' = [session EXCEPT !.toolCall = NoCall]
  /\ gui' = "wait" /\ queue' = <<>>
  /\ UNCHANGED <<device, controller, pool, parameter, history, asked, clicks, request>>

(* Mutant: the destructor waits for no task of a watcher. *)
NoWatcherWait ==
  /\ Destructor("wait", "parameters")
  /\ UNCHANGED <<session, answer, mode, streaming, stopAsked, controller>>

AwaitWatchers ==
  /\ Destructor("wait", "parameters")
  /\ \A w \in session.watchers : task[w] = "done"
  /\ UNCHANGED <<session, answer, mode, streaming, stopAsked, controller>>

(* Mutant: the destructor joins the worker without asking it to stop. *)
NoStopBeforeJoin ==
  /\ Destructor("parameters", "stop")
  /\ \A p \in 1..MaxParameters : p = parameterWork => parameterTask[p] = "done"
  /\ UNCHANGED <<session, answer, mode, streaming, stopAsked, controller>>

(* The controller waits for the work it knows of, then stops acquisition. *)
AwaitParameters ==
  /\ Destructor("parameters", "stop")
  /\ \A p \in 1..MaxParameters : p = parameterWork => parameterTask[p] = "done"
  /\ RequestStop
  /\ UNCHANGED <<session, answer, mode, streaming, controller>>

JoinForDestruction ==
  /\ Destructor("stop", "close") /\ worker.phase = "none"
  /\ ClearFlags
  /\ UNCHANGED <<session, answer, mode, streaming, stopAsked>>

CloseForDestruction ==
  /\ IF IsOpened THEN Destructor("close", "release") /\ D!Close
     ELSE Destructor("close", "dead") /\ DeviceIdle
  /\ UNCHANGED <<session, answer, stopAsked, controller>>

ReleaseForDestruction ==
  /\ Destructor("release", "dead") /\ D!Release
  /\ UNCHANGED <<session, answer, stopAsked, controller>>

(* Nothing is left to do for a destroyed session. *)
Destroyed == gui = "dead" /\ UNCHANGED vars

------------------------------------------------------------------------------

UserStep ==
  \/ ClickRefresh \/ ClickConnect \/ ClickDisconnect \/ ClickSingle \/ ToggleLive
  \/ ClickInit \/ EditFeature \/ ClickTrigger \/ DestroyWidget \/ DestroySession

HostStep ==
  \/ StopNothing
  \/ \E t \in Tools : AskTool(t)
  \/ \E kind \in Parameters : RequestParameter(kind)

GuiStep ==
  \/ AdmitTool \/ RefuseTool
  \/ HandleRefresh \/ HandleControl \/ HandleApplied \/ HandleFrame
  \/ FinishDiscovery \/ FinishConnection \/ FinishDisconnection \/ FinishInitialization
  \/ FinishFeature \/ FinishFeatureRead \/ FinishArm
  \/ HandleStale \/ HandleActive \/ HandleInactive \/ HandleStartFailed
  \/ HandleEnd \/ HandleRest
  \/ AwaitWatchers \/ AwaitParameters \/ JoinForDestruction
  \/ CloseForDestruction \/ ReleaseForDestruction

PoolStep ==
  \/ RunDiscovery \/ OpenDevice \/ ReportConnection
  \/ StopForDisconnect \/ JoinForDisconnect \/ CloseDevice \/ ReleaseDevice
  \/ BeginProfile \/ EndProfile \/ RunFeature \/ ReadFeatures
  \/ StartArm \/ BeginArming \/ SetUpArming \/ CompleteArming \/ FailArming
  \/ ReportGrabbing \/ ReportActive \/ ReturnArmed

ParameterWork ==
  \E p \in 1..MaxParameters :
    RunParameter(p) \/ ReportParameter(p) \/ ReportApplied(p) \/ ReturnParameter(p)

(* What the worker does unless frames or errors come. *)
WorkerStep == LeavePolling \/ StopStreaming \/ Disarm \/ ReportIdle \/ ReportInactive

SensorStep == ReceiveFrame \/ FailPolling

Next ==
  \/ UserStep \/ HostStep \/ GuiStep \/ PoolStep \/ ParameterWork
  \/ WorkerStep \/ SensorStep \/ Destroyed

Spec == Init /\ [][Next]_vars

(* The scheduler runs every thread; users, hosts and sensors owe no step. *)
FairSpec ==
  /\ Spec
  /\ WF_vars(GuiStep) /\ WF_vars(PoolStep) /\ WF_vars(ParameterWork) /\ WF_vars(WorkerStep)

------------------------------------------------------------------------------
(* Session watchers and API parameter work exclude each other, and at most   *)
(* one watcher exists: every operation on the GUI thread checks the others   *)
(* before it starts, and nothing starts one elsewhere.                       *)
SdkWorkExclusive ==
  /\ Cardinality(session.watchers) <= 1
  /\ parameterBusy => session.watchers = {}

(* An admitted call is held by the one completion that will answer it, and   *)
(* no completion holds a call that was answered, until the session fails it. *)
HeldCalls == {session.completion[c] : c \in Completions} \ {NoCall}

OneAnswerPerCall ==
  /\ \A c, d \in Completions :
       c # d /\ session.completion[c] # NoCall => session.completion[c] # session.completion[d]
  /\ gui \in {"idle", "rest"} /\ asked = "none" =>
       {c \in Calls : answer[c] = "pending"} = HeldCalls

(* A call is answered "ok" only when what it asked for has come true, in the *)
(* step that answers it: a connect opened the device, a disconnect closed    *)
(* it, a stop finds no acquisition, a Single delivered a frame of its arm.   *)
AnswerTrue(c) ==
  CASE tool[c] = "connect" -> IsOpened
    [] tool[c] = "disconnect" -> ~IsOpened
    [] tool[c] = "live-stop" -> ~isGrabbing
    [] tool[c] = "single" -> frameArm > armOfCall
    [] OTHER -> TRUE

AnswersAreTrue ==
  [][\A c \in Calls : answer[c] = "pending" /\ answer'[c] = "ok" => AnswerTrue(c)]_vars

(* Nothing is under way: no event, no watcher, no parameter work, and a       *)
(* worker, if there is one, that nobody asked to stop.                       *)
Quiet ==
  /\ GuiFree /\ queue = <<>>
  /\ session.watchers = {} /\ ~session.disconnectPending
  /\ ~parameterBusy /\ \A p \in 1..MaxParameters : parameterTask[p] \in {"none", "returning", "done"}
  /\ worker.phase = "none" \/ (worker.phase = "running" /\ ~stopAsked)

(* When nothing is under way the widget shows the device as it is, after a   *)
(* requested stop too, and no discovery, connection, disconnection,          *)
(* initialization, arm or refresh is shown pending; a software trigger is    *)
(* only while the device acquires.  The two flags left are a stop's          *)
(* (NoStopLeftPending) and a parameter's (NoShownStateLeftBehind).           *)
WidgetAgrees ==
  Quiet /\ session.widget =>
    /\ session.ui.connected = IsOpened /\ session.ui.connectChecked = IsOpened
    /\ session.ui.acquisitionActive = isGrabbing
    /\ session.ui.acquisitionAvailable = (mode \in {"ready", "armed"})
    /\ \A f \in {"discoveryPending", "connectionPending", "disconnectionPending",
                 "initializationPending", "armPending", "refreshPending"} : ~session.ui[f]
    /\ session.ui.triggerPending => isGrabbing

(* A stop the user or the host asked for is not shown pending for ever: the  *)
(* status of its end, of the closed device or of the next arm clears it, in  *)
(* whatever order they arrive.                                               *)
NoStopLeftPending ==
  Quiet /\ session.widget => ~session.ui.stopPending

(* A closed session shows no acquisition, whatever status arrives late.      *)
ClosedShowsIdle ==
  session.widget /\ ~session.ui.connected =>
    ~session.ui.acquisitionActive /\ ~session.ui.liveChecked /\ ~session.ui.singleOn

(* What the user sees is what the device does, quiet or closed.              *)
WidgetShowsSession == WidgetAgrees /\ ClosedShowsIdle

(* When the destructor is done the device is closed, the worker has ended    *)
(* and no task of a watcher uses the facade; the tasks of parameter work are *)
(* ParameterWorkEndsBeforeRelease.                                           *)
ReleasedDeviceUnused ==
  gui = "dead" =>
    /\ worker.phase = "none"
    /\ \A w \in Watchers : task[w] \in {"idle", "done"}
    /\ mode = "closed" /\ ~streaming

(* Violated: "accepted parameter work completes before the device facade is  *)
(* released" (HeliotisC4SourceController.cpp:86, in the destructor), so that *)
(* no task of it uses the controller then.                                   *)
ParameterWorkEndsBeforeRelease ==
  gui = "dead" =>
    \A p \in 1..MaxParameters : parameterTask[p] \in {"none", "returning", "done"}

(* Violated: "arming is refused while parameter work runs, so no shown state *)
(* can be left behind" (HeliotisC4Plugin.cpp:489, on controlChanged): a      *)
(* quiet session would not show a parameter operation.                       *)
NoShownStateLeftBehind ==
  Quiet /\ session.widget => ~session.ui.operationPending

(* Every admitted call that waits for no frame is answered, as long as the   *)
(* widget that carries the completions lives.                                *)
CallsAreAnswered ==
  \A c \in Calls :
    (answer[c] = "pending" /\ tool[c] # "single") ~> (answer[c] # "pending" \/ ~session.widget)

(* A disconnect completes: the end it waits for is reported, never dropped.  *)
DisconnectCompletes ==
  session.disconnectPending ~> (~session.disconnectPending \/ ~session.widget \/ gui = "dead")

(* What was admitted comes to its end, for the host and for the user. *)
OperationsComplete == CallsAreAnswered /\ DisconnectCompletes

(* The destructor returns.                                                   *)
DestructionEnds == (gui = "wait") ~> (gui = "dead")
=============================================================================
