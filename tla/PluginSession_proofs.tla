------------------------- MODULE PluginSession_proofs -------------------------
(***************************************************************************)
(* Session watchers and parameter work exclude each other, a tool call is  *)
(* answered once, and only "ok" when it got what it asked for, and a       *)
(* destroyed session leaves a closed device that nothing uses, for all     *)
(* bounds, clicks, tools and parameter requests.                           *)
(***************************************************************************)
EXTENDS PluginSession, FiniteSetTheorems, SequenceTheorems, TLAPS

(* Of the session only its fields matter here, not what they hold. *)
Fields == {"widget", "ui", "watchers", "completion", "refreshFor", "featureOperation",
           "armLive", "disconnectPending", "externalBusyShown", "toolCall"}

Refreshes == {"nothing", "connect", "initialized", "profile failed", "feature"}

IsSession(s) ==
  /\ s = [f \in Fields |-> s[f]]
  /\ s.refreshFor \in Refreshes
  /\ s.featureOperation \in {"write", "trigger"}

(* t differs from s in neither the watchers nor the pending disconnect. *)
SameWork(s, t) ==
  /\ IsSession(t)
  /\ t.watchers = s.watchers
  /\ t.disconnectPending = s.disconnectPending

LEMMA FieldSet ==
  ASSUME NEW s, IsSession(s), NEW v
  PROVE  /\ SameWork(s, [s EXCEPT !.ui = v])
         /\ SameWork(s, [s EXCEPT !.ui.refreshOn = v])
         /\ SameWork(s, [s EXCEPT !.ui.connectChecked = v])
         /\ SameWork(s, [s EXCEPT !.ui.liveChecked = v])
         /\ SameWork(s, [s EXCEPT !.completion = v])
         /\ SameWork(s, [s EXCEPT !.toolCall = v])
         /\ SameWork(s, [s EXCEPT !.externalBusyShown = v])
         /\ SameWork(s, [s EXCEPT !.widget = v])
BY DEF IsSession, SameWork, Fields

LEMMA ShownSame ==
  ASSUME NEW s, IsSession(s), NEW busy
  PROVE  SameWork(s, Shown(s, busy))
<1> DEFINE u == IF s.watchers \cap {"feature", "featureRead", "initialization"} = {}
                  THEN SetFeatureOperationPending(s.ui, busy) ELSE s.ui
<1>1. SameWork(s, s)
  BY DEF SameWork
<1>2. Shown(s, busy) \in {s, [s EXCEPT !.externalBusyShown = busy, !.ui = u]}
  BY DEF Shown
<1> HIDE DEF u
<1>3. SameWork(s, [s EXCEPT !.externalBusyShown = busy, !.ui = u])
  BY DEF IsSession, SameWork, Fields
<1>4. QED
  BY <1>1, <1>2, <1>3

LEMMA ToolFinishedSame ==
  ASSUME NEW s, IsSession(s), NEW call
  PROVE  SameWork(s, ToolFinished(s, call))
<1> DEFINE t == [s EXCEPT !.toolCall = IF @ = call THEN NoCall ELSE @]
<1>1. SameWork(s, t)
  BY DEF IsSession, SameWork, Fields
<1>2. ToolFinished(s, call) = ControlChanged(t)
  BY DEF ToolFinished
<1> HIDE DEF t
<1>3. SameWork(t, ControlChanged(t))
  BY <1>1, ShownSame DEF ControlChanged, SameWork
<1>4. QED
  BY <1>1, <1>2, <1>3 DEF SameWork

LEMMA CompletedSame ==
  ASSUME NEW s, IsSession(s), NEW c
  PROVE  SameWork(s, Completed(s, c))
<1> DEFINE t == [s EXCEPT !.completion[c] = NoCall]
<1>1. SameWork(s, s)
  BY DEF SameWork
<1>2. SameWork(s, t)
  BY DEF IsSession, SameWork, Fields
<1>3. SameWork(t, ToolFinished(t, s.completion[c]))
  BY <1>2, ToolFinishedSame DEF SameWork
<1>4. QED
  BY <1>1, <1>2, <1>3 DEF SameWork, Completed

LEMMA AfterRefreshSame ==
  ASSUME NEW s, IsSession(s), NEW for \in Refreshes
  PROVE  SameWork(s, AfterRefresh(s, for))
<1>1. SameWork(s, s)
  BY DEF SameWork
<1>2. CASE for = "connect"
  <2> DEFINE t == [s EXCEPT !.ui = SetAcquisitionAvailable(@, TRUE)]
  <2>1. SameWork(s, t)
    BY FieldSet
  <2>2. SameWork(t, Completed(t, "connect"))
    BY <2>1, CompletedSame DEF SameWork
  <2>3. QED
    BY <1>2, <2>1, <2>2 DEF AfterRefresh, SameWork
<1>3. CASE for # "connect"
  BY <1>1, <1>3, FieldSet DEF AfterRefresh, Refreshes
<1>4. QED
  BY <1>2, <1>3

(* At most one watcher, none but the disconnection while one is pending, and *)
(* neither beside a parameter request.                                       *)
Exclusive(s, busy) ==
  /\ \A v, w \in s.watchers : v = w
  /\ s.disconnectPending => s.watchers \subseteq {"disconnection"}
  /\ busy => s.watchers = {} /\ ~s.disconnectPending

Good(s) == IsSession(s) /\ Exclusive(s, parameterBusy)

LEMMA SameWorkGood ==
  ASSUME NEW s, Good(s), NEW t, SameWork(s, t)
  PROVE  Good(t)
BY DEF Good, SameWork, Exclusive

LEMMA FieldSetGood ==
  ASSUME NEW s, Good(s), NEW v
  PROVE  /\ Good([s EXCEPT !.ui = v])
         /\ Good([s EXCEPT !.ui.refreshOn = v])
         /\ Good([s EXCEPT !.ui.connectChecked = v])
         /\ Good([s EXCEPT !.ui.liveChecked = v])
         /\ Good([s EXCEPT !.toolCall = v])
         /\ Good([s EXCEPT !.widget = v])
BY FieldSet, SameWorkGood DEF Good

(* A watcher that starts when nothing is pending is the only one. *)
LEMMA StartedGood ==
  ASSUME NEW s, IsSession(s), ~SdkOperationPending(s), NEW w
  PROVE  Good(Started(s, w))
BY DEF IsSession, Fields, Good, Exclusive, Started, SdkOperationPending, ControlBusy

LEMMA DroppedGood ==
  ASSUME NEW s, Good(s), NEW w
  PROVE  Good(Dropped(s, w))
BY DEF IsSession, Fields, Good, Exclusive, Dropped

LEMMA RefreshGood ==
  ASSUME NEW s, Good(s), NEW for \in Refreshes
  PROVE  Good(RefreshFeatureTree(s, for))
<1>1. CASE RefreshRefused(s)
  BY <1>1, AfterRefreshSame, SameWorkGood DEF RefreshFeatureTree, Good
<1>2. CASE ~RefreshRefused(s)
  <2> DEFINE t == Started(s, "featureRead")
             u == [t EXCEPT !.ui = SetFeatureRefreshPending(@, TRUE), !.refreshFor = for]
  <2>1. ~SdkOperationPending(s)
    BY <1>2 DEF RefreshRefused
  <2>2. Good(t)
    BY <2>1, StartedGood DEF Good
  <2>3. SameWork(t, u)
    <3> HIDE DEF t
    <3> QED
    BY <2>2 DEF Good, IsSession, SameWork, Fields
  <2>4. Good(u)
    BY <2>2, <2>3, SameWorkGood
  <2>5. QED
    BY <1>2, <2>4 DEF RefreshFeatureTree
<1>3. QED
  BY <1>1, <1>2

LEMMA CompleteDisconnectGood ==
  ASSUME NEW s, Good(s), ~parameterBusy, s.watchers \subseteq {"disconnection"}
  PROVE  Good(CompleteDisconnect(s))
BY DEF IsSession, Fields, Good, Exclusive, CompleteDisconnect, Started

LEMMA ErrorShownGood ==
  ASSUME NEW s, Good(s)
  PROVE  Good(ErrorShown(s))
BY FieldSetGood DEF ErrorShown

LEMMA InactiveShownGood ==
  ASSUME NEW s, Good(s), NEW error
  PROVE  Good(InactiveShown(s, error))
<1>1. CASE s.disconnectPending
  BY <1>1, CompleteDisconnectGood DEF InactiveShown, Good, Exclusive
<1>2. CASE ~s.disconnectPending
  <2> DEFINE shown == [s EXCEPT !.ui = SetAcquisitionState(@, FALSE, FALSE, FALSE)]
             v == IF Diagnostics /\ IsOpened /\ ~RequiresReconnect
                    THEN RefreshFeatureTree(shown, "nothing") ELSE shown
  <2>1. Good(shown)
    BY FieldSetGood
  <2>2. "nothing" \in Refreshes
    BY DEF Refreshes
  <2>3. Good(v)
    BY <2>1, <2>2, RefreshGood
  <2>4. Good(ErrorShown(v))
    BY <2>3, ErrorShownGood
  <2>5. QED
    BY <1>2, <2>3, <2>4 DEF InactiveShown
<1>3. QED
  BY <1>1, <1>2

LEMMA StopShownGood ==
  ASSUME NEW s, Good(s)
  PROVE  Good(StopShown(s))
BY FieldSetGood DEF StopShown

LEMMA OperationGood ==
  ASSUME NEW s, IsSession(s), NEW call, NEW live
  PROVE  /\ DiscoverAdmitted(s) => Good(Discover(s, call))
         /\ ConnectAdmitted(s) => Good(Connect(s, call))
         /\ ArmAdmitted(s) => Good(Arm(s, live, call))
         /\ FeatureAdmitted(s) => /\ Good(RunFeatureOperation(s, "write"))
                                  /\ Good(RunFeatureOperation(s, "trigger"))
         /\ InitializeAdmitted(s) => Good(Initialize(s))
         /\ DisconnectAdmitted(s) => Good(Disconnect(s, call))
<1>1. CASE SdkOperationPending(s)
  BY <1>1 DEF DiscoverAdmitted, ConnectAdmitted, ArmAdmitted, FeatureAdmitted,
     InitializeAdmitted, DisconnectAdmitted
<1>2. CASE ~SdkOperationPending(s)
  <2>1. s.watchers = {} /\ ~s.disconnectPending /\ ~parameterBusy
    BY <1>2 DEF SdkOperationPending, ControlBusy
  <2>2. Good(Discover(s, call)) /\ Good(Connect(s, call))
    BY <2>1 DEF Discover, Connect, Started, IsSession, Fields, Good, Exclusive
  <2>3. Good(Arm(s, live, call)) /\ Good(Initialize(s))
    BY <2>1 DEF Arm, Initialize, Started, IsSession, Fields, Good, Exclusive
  <2>4. Good(RunFeatureOperation(s, "write")) /\ Good(RunFeatureOperation(s, "trigger"))
    BY <2>1 DEF RunFeatureOperation, Started, IsSession, Fields, Good, Exclusive
  <2>5. Good(Disconnect(s, call))
    <3> DEFINE v == [s EXCEPT !.completion["disconnect"] = call]
    <3>1. Good(v) /\ v.watchers = {}
      BY <2>1 DEF IsSession, Fields, Good, Exclusive
    <3>2. CASE isGrabbing
      BY <2>1, <3>2 DEF Disconnect, IsSession, Fields, Good, Exclusive
    <3>3. CASE ~isGrabbing
      BY <2>1, <3>1, <3>3, CompleteDisconnectGood DEF Disconnect
    <3>4. QED
      BY <3>2, <3>3
  <2>6. QED
    BY <2>2, <2>3, <2>4, <2>5
<1>3. QED
  BY <1>1, <1>2

(* What an action does that only sets one field of the session. *)
LEMMA FinishedGood ==
  ASSUME NEW s, Good(s), NEW c
  PROVE  Good(Completed(s, c))
BY CompletedSame, SameWorkGood DEF Good

LEMMA ControlChangedGood ==
  ASSUME NEW s, Good(s), NEW busy
  PROVE  Good(ControlChanged(s)) /\ Good(Shown(s, busy))
BY ShownSame, SameWorkGood DEF Good, ControlChanged

Inv == Good(session)

LEMMA InvInit == Init => Inv
<1> SUFFICES ASSUME Init PROVE Inv
  OBVIOUS
<1>1. /\ session = [widget |-> TRUE, ui |-> NewWidget(TRUE), watchers |-> {},
                    completion |-> [c \in Completions |-> NoCall],
                    refreshFor |-> "nothing", featureOperation |-> "write",
                    armLive |-> FALSE, disconnectPending |-> FALSE,
                    externalBusyShown |-> FALSE, toolCall |-> NoCall]
      /\ parameterBusy = FALSE
  BY DEF Init
<1>2. IsSession(session)
  BY <1>1 DEF IsSession, Fields, Refreshes
<1>3. QED
  BY <1>1, <1>2 DEF Inv, Good, Exclusive

(* A step that leaves the parameter request alone keeps what it leaves Good. *)
LEMMA InvKept ==
  ASSUME Good(session'), parameterBusy' = parameterBusy \/ parameterBusy' = FALSE
  PROVE  Inv'
<1>1. IsSession(session')
  BY DEF Good
<1>2. Exclusive(session', parameterBusy')
  <2>1. CASE parameterBusy' = parameterBusy
    BY <2>1 DEF Good, Exclusive
  <2>2. CASE parameterBusy' = FALSE
    BY <2>2 DEF Good, Exclusive
  <2>3. QED
    BY <2>1, <2>2
<1>3. IsSession(session)'
  BY <1>1
<1>4. Exclusive(session, parameterBusy)'
  BY <1>2 DEF Exclusive
<1>5. QED
  BY <1>3, <1>4 DEF Inv, Good

LEMMA UserStepInv == Inv /\ UserStep => Inv'
<1> SUFFICES ASSUME Inv, UserStep PROVE Good(session') /\ parameterBusy' = parameterBusy
  BY InvKept
<1> USE DEF Inv
<1>1. ASSUME NEW name, Click(name) PROVE parameterBusy' = parameterBusy
  BY <1>1 DEF Click, parameter
<1>2. CASE ClickRefresh
  <2> DEFINE s == [session EXCEPT !.ui.refreshOn = FALSE]
  <2>1. Good(s)
    BY FieldSetGood
  <2>2. QED
    BY <1>1, <1>2, <2>1 DEF ClickRefresh
<1>3. CASE ClickConnect
  BY <1>1, <1>3, FieldSetGood, OperationGood DEF ClickConnect, Good
<1>4. CASE ClickDisconnect
  <2> DEFINE s == [session EXCEPT !.ui.connectChecked = FALSE]
  <2>1. Good(s)
    BY FieldSetGood
  <2>2. \/ DisconnectAdmitted(s) /\ session' = Disconnect(s, NoCall)
        \/ session' = [s EXCEPT !.ui = SetConnectionState(@, IsOpened)]
    BY <1>4 DEF ClickDisconnect
  <2>3. parameterBusy' = parameterBusy
    BY <1>1, <1>4 DEF ClickDisconnect
  <2> HIDE DEF s
  <2>4. CASE DisconnectAdmitted(s) /\ session' = Disconnect(s, NoCall)
    BY <2>1, <2>3, <2>4, OperationGood DEF Good
  <2>5. CASE session' = [s EXCEPT !.ui = SetConnectionState(@, IsOpened)]
    BY <2>1, <2>3, <2>5, FieldSetGood
  <2>6. QED
    BY <2>2, <2>4, <2>5
<1>5. ASSUME NEW s, Good(s), NEW live PROVE Good(ArmOrNothing(s, live))
  BY <1>5, OperationGood DEF ArmOrNothing, Good
<1>6. CASE ClickSingle
  BY <1>1, <1>5, <1>6, StopShownGood DEF ClickSingle
<1>7. CASE ToggleLive
  <2> DEFINE s == [session EXCEPT !.ui.liveChecked = ~@]
  <2>1. Good(s)
    BY FieldSetGood
  <2>2. session' \in {ArmOrNothing(s, TRUE), StopShown(s)}
    BY <1>7 DEF ToggleLive
  <2> HIDE DEF s
  <2>3. QED
    BY <1>1, <1>5, <1>7, <2>1, <2>2, StopShownGood DEF ToggleLive
<1>8. CASE ClickInit
  BY <1>1, <1>8, OperationGood DEF ClickInit, Good
<1>9. CASE EditFeature
  BY <1>1, <1>9, OperationGood DEF EditFeature, Good
<1>10. CASE ClickTrigger
  BY <1>1, <1>10, FieldSetGood, OperationGood DEF ClickTrigger, Good
<1>11. CASE DestroyWidget
  BY <1>1, <1>11, FieldSetGood DEF DestroyWidget
<1>12. CASE DestroySession
  BY <1>12, FieldSetGood DEF DestroySession, parameter
<1>13. QED
  BY <1>2, <1>3, <1>4, <1>6, <1>7, <1>8, <1>9, <1>10, <1>11, <1>12 DEF UserStep

LEMMA HostStepInv == Inv /\ HostStep => Inv'
<1> SUFFICES ASSUME Inv, HostStep PROVE Inv'
  OBVIOUS
<1>1. CASE StopNothing
  <2>1. session' = session /\ parameterBusy' = parameterBusy
    BY <1>1 DEF StopNothing, NewCall, parameter
  <2>2. QED
    BY <2>1, InvKept DEF Inv
<1>2. CASE \E t \in Tools : AskTool(t)
  <2> DEFINE s == [session EXCEPT !.toolCall = calls + 1]
  <2>1. session' = ControlChanged(s) /\ parameterBusy' = parameterBusy
    BY <1>2 DEF AskTool, NewCall, parameter
  <2>2. Good(s)
    BY FieldSetGood DEF Inv
  <2> HIDE DEF s
  <2>3. QED
    BY <2>1, <2>2, ControlChangedGood, InvKept
(* A parameter request starts beside no watcher and no pending disconnect. *)
<1>3. CASE \E kind \in Parameters : RequestParameter(kind)
  <2>1. /\ session.watchers = {} /\ ~session.disconnectPending
        /\ session' = Shown(session, ~isGrabbing)
    BY <1>3 DEF RequestParameter, ParameterAdmitted, ControlBusy
  <2>2. IsSession(session') /\ session'.watchers = {} /\ ~session'.disconnectPending
    BY <2>1, ShownSame DEF SameWork, Inv, Good
  <2>3. IsSession(session)'
    BY <2>2
  <2>4. Exclusive(session, parameterBusy)'
    BY <2>2 DEF Exclusive
  <2>5. QED
    BY <2>3, <2>4 DEF Inv, Good
<1>4. QED
  BY <1>1, <1>2, <1>3 DEF HostStep

(* Of the handlers on the GUI thread, those that end a watcher. *)
LEMMA FinishInv ==
  ASSUME Inv,
         FinishDiscovery \/ FinishConnection \/ FinishDisconnection \/ FinishInitialization
           \/ FinishFeature \/ FinishFeatureRead \/ FinishArm
  PROVE  Inv'
<1> SUFFICES Good(session') /\ parameterBusy' = parameterBusy
  BY InvKept
<1> USE DEF Inv
<1>1. ASSUME NEW w, Finish(w) PROVE parameterBusy' = parameterBusy
  BY <1>1 DEF Finish, Handle, parameter
<1>2. ASSUME NEW w, NEW u PROVE Good([Dropped(session, w) EXCEPT !.ui = u])
  BY DroppedGood, FieldSetGood
<1>3. CASE FinishDiscovery
  <2>1. PICK found \in BOOLEAN :
          session' = Completed(
            [Dropped(session, "discovery") EXCEPT
               !.ui = IF succeeded["discovery"]
                        THEN SetDiscoveredDevices(SetDiscoveryPending(@, FALSE), found)
                        ELSE SetDiscoveryPending(@, FALSE)], "discovery")
    BY <1>3 DEF FinishDiscovery
  <2>2. QED
    BY <1>1, <1>2, <1>3, <2>1, FinishedGood DEF FinishDiscovery
<1>4. CASE FinishConnection
  <2> DEFINE s == [Dropped(session, "connection") EXCEPT !.ui = SetConnectionPending(@, FALSE)]
             opened == [s EXCEPT !.ui = SetAcquisitionAvailable(SetConnectionState(@, TRUE), TRUE)]
             failed1 == [s EXCEPT !.ui = SetConnectionError(@)]
  <2>1. Good(s)
    BY <1>2
  <2>2. session' = RefreshFeatureTree(opened, "connect") \/ session' = Completed(failed1, "connect")
    BY <1>4 DEF FinishConnection
  <2> HIDE DEF s
  <2>3. Good(opened) /\ Good(failed1)
    BY <2>1, FieldSetGood
  <2> HIDE DEF opened, failed1
  <2>4. QED
    BY <1>1, <1>4, <2>2, <2>3, RefreshGood, FinishedGood DEF FinishConnection, Refreshes
<1>5. CASE FinishDisconnection
  <2> DEFINE t == Dropped(session, "disconnection")
             s == [t EXCEPT !.disconnectPending = FALSE,
                            !.ui = SetConnectionState(SetFeatures(@, FALSE), FALSE)]
  <2>1. Good(t)
    BY DroppedGood
  <2>2. session' = Completed(s, "disconnect")
    BY <1>5 DEF FinishDisconnection
  <2> HIDE DEF t
  <2>3. Good(s)
    BY <2>1 DEF Good, IsSession, Fields, Exclusive
  <2> HIDE DEF s
  <2>4. QED
    BY <1>1, <1>5, <2>2, <2>3, FinishedGood DEF FinishDisconnection
<1>6. CASE FinishInitialization
  BY <1>1, <1>6, DroppedGood, RefreshGood DEF FinishInitialization, Refreshes
<1>7. CASE FinishFeature
  <2> DEFINE s == Dropped(session, "feature")
             freed == [s EXCEPT !.ui = SetFeatureOperationPending(@, FALSE)]
  <2>1. Good(s)
    BY DroppedGood
  <2>2. s.featureOperation \in {"write", "trigger"}
    BY <2>1 DEF Good, IsSession
  <2>3. \/ session' = RefreshFeatureTree(s, "feature")
        \/ session' = freed
        \/ session' = [freed EXCEPT !.ui = SetSoftwareTriggerPending(@, FALSE)]
    <3> HIDE DEF s
    <3>1. session' =
            CASE succeeded["feature"] /\ s.featureOperation = "write" -> RefreshFeatureTree(s, "feature")
              [] succeeded["feature"] /\ s.featureOperation = "trigger" -> freed
              [] ~succeeded["feature"] /\ s.featureOperation = "write" -> freed
              [] ~succeeded["feature"] /\ s.featureOperation = "trigger" ->
                   [freed EXCEPT !.ui = SetSoftwareTriggerPending(@, FALSE)]
      BY <1>7 DEF FinishFeature, s
    <3> HIDE DEF freed
    <3>2. QED
      BY <2>2, <3>1
  <2> HIDE DEF s
  <2>4. Good(freed)
    BY <2>1, FieldSetGood
  <2> HIDE DEF freed
  <2>5. Good(RefreshFeatureTree(s, "feature"))
    BY <2>1, RefreshGood DEF Refreshes
  <2>6. Good([freed EXCEPT !.ui = SetSoftwareTriggerPending(@, FALSE)])
    BY <2>4, FieldSetGood
  <2>7. parameterBusy' = parameterBusy
    BY <1>1, <1>7 DEF FinishFeature
  <2>8. QED
    BY <2>3, <2>4, <2>5, <2>6, <2>7
<1>8. CASE FinishFeatureRead
  <2> DEFINE t == Dropped(session, "featureRead")
             s == [t EXCEPT !.refreshFor = "nothing",
                            !.ui = IF succeeded["featureRead"]
                                     THEN SetFeatures(SetFeatureRefreshPending(@, FALSE), TRUE)
                                     ELSE SetFeatureRefreshPending(@, FALSE)]
  <2>1. Good(t)
    BY DroppedGood
  <2>2. session' = AfterRefresh(s, session.refreshFor)
    BY <1>8 DEF FinishFeatureRead
  <2> HIDE DEF t
  <2>3. Good(s)
    BY <2>1 DEF Good, IsSession, Fields, Exclusive, Refreshes
  <2> HIDE DEF s
  <2>4. session.refreshFor \in Refreshes
    BY DEF Good, IsSession
  <2>5. QED
    BY <1>1, <1>8, <2>2, <2>3, <2>4, AfterRefreshSame, SameWorkGood DEF FinishFeatureRead, Good
<1>9. CASE FinishArm
  <2> DEFINE t == Dropped(session, "arm")
             s == [t EXCEPT !.ui = ArmEnded(@)]
  <2>1. Good(s)
    BY <1>2
  <2>2. \/ session' = Completed(s, "arm")
        \/ session' = [s EXCEPT !.completion["acquisitionEnd"] = s.completion["arm"],
                                !.completion["arm"] = NoCall]
    BY <1>9 DEF FinishArm
  <2> HIDE DEF s
  <2>3. SameWork(s, [s EXCEPT !.completion["acquisitionEnd"] = s.completion["arm"],
                              !.completion["arm"] = NoCall])
    BY <2>1 DEF Good, IsSession, Fields, SameWork
  <2>4. QED
    BY <1>1, <1>9, <2>1, <2>2, <2>3, FinishedGood, SameWorkGood DEF FinishArm
<1>10. QED
  BY <1>3, <1>4, <1>5, <1>6, <1>7, <1>8, <1>9

LEMMA ToolStartedGood ==
  ASSUME NEW s, Good(s), NEW t \in AllTools, ToolAdmitted(t, s), NEW call
  PROVE  Good(ToolStarted(t, s, call))
<1>1. CASE t = "discover"
  BY <1>1, OperationGood DEF ToolAdmitted, ToolStarted, Good
<1>2. CASE t = "connect"
  <2> DEFINE u == [s EXCEPT !.ui = SetConnectionPending(@, TRUE)]
  <2>1. SameWork(s, u)
    BY FieldSet DEF Good
  <2>2. ConnectAdmitted(s)
    BY <1>2 DEF ToolAdmitted
  <2>3. ~SdkOperationPending(s)
    BY <2>2 DEF ConnectAdmitted
  <2> HIDE DEF u
  <2>4. ~SdkOperationPending(u) /\ IsSession(u)
    BY <2>1, <2>3 DEF SameWork, SdkOperationPending, ControlBusy
  <2>5. Good(Connect(u, call))
    BY <2>4 DEF Connect, Started, IsSession, Fields, Good, Exclusive, SdkOperationPending,
       ControlBusy
  <2>6. ToolStarted(t, s, call) = Connect(u, call)
    BY <1>2 DEF ToolStarted, u
  <2>7. QED
    BY <2>5, <2>6
<1>3. CASE t = "disconnect"
  BY <1>3, OperationGood DEF ToolAdmitted, ToolStarted, Good
<1>4. CASE t \in {"single", "live-start"}
  BY <1>4, OperationGood DEF ToolAdmitted, ToolStarted, Good
<1>5. CASE t = "live-stop"
  <2> DEFINE u == [s EXCEPT !.completion["acquisitionEnd"] = call]
  <2>1. SameWork(s, u)
    BY DEF Good, IsSession, Fields, SameWork
  <2>2. ToolStarted(t, s, call) = StopShown(u)
    BY <1>5 DEF ToolStarted
  <2> HIDE DEF u
  <2>3. QED
    BY <2>1, <2>2, SameWorkGood, StopShownGood
<1>6. QED
  BY <1>1, <1>2, <1>3, <1>4, <1>5 DEF AllTools

(* The kind of tool a request asked for is one of the tools. *)
AskedTool == asked \in AllTools \cup {"none"}

(* The other handlers of the GUI thread. *)
LEMMA HandlerInv ==
  ASSUME Inv, AskedTool,
         \/ AdmitTool \/ RefuseTool
         \/ HandleRefresh \/ HandleControl \/ HandleApplied \/ HandleFrame
         \/ HandleStale \/ HandleActive \/ HandleInactive \/ HandleStartFailed
         \/ HandleEnd \/ HandleRest
  PROVE  Inv'
<1> SUFFICES Good(session') /\ parameterBusy' = parameterBusy
  BY InvKept
<1> USE DEF Inv
<1>1. ASSUME NEW kind, Handle(kind) PROVE parameterBusy' = parameterBusy
  BY <1>1 DEF Handle, parameter
<1>2. CASE AdmitTool
  <2>1. asked \in AllTools
    BY <1>2 DEF AskedTool, AdmitTool
  <2>2. QED
    BY <1>2, <2>1, ToolStartedGood DEF AdmitTool, parameter
<1>3. CASE RefuseTool
  <2> DEFINE s == [session EXCEPT !.toolCall = NoCall]
  <2>1. Good(s)
    BY FieldSetGood
  <2>2. session' = ControlChanged(s) /\ parameterBusy' = parameterBusy
    BY <1>3 DEF RefuseTool, parameter
  <2> HIDE DEF s
  <2>3. QED
    BY <2>1, <2>2, ControlChangedGood
<1>4. CASE HandleRefresh
  BY <1>1, <1>4, OperationGood DEF HandleRefresh, Good
<1>5. CASE HandleControl
  BY <1>1, <1>5, ControlChangedGood DEF HandleControl
<1>6. CASE HandleApplied
  BY <1>1, <1>6, RefreshGood DEF HandleApplied, Refreshes
<1>7. CASE HandleFrame
  BY <1>1, <1>7, FieldSetGood DEF HandleFrame
<1>8. CASE HandleStale
  BY <1>1, <1>8 DEF HandleStale
<1>9. CASE HandleActive
  BY <1>1, <1>9, FieldSetGood DEF HandleActive
<1>10. CASE HandleInactive
  BY <1>1, <1>10, InactiveShownGood DEF HandleInactive
<1>11. CASE HandleStartFailed
  BY <1>1, <1>11, InactiveShownGood DEF HandleStartFailed
<1>12. CASE HandleEnd
  BY <1>12, FinishedGood DEF HandleEnd, parameter
<1>13. CASE HandleRest
  BY <1>13, InactiveShownGood DEF HandleRest, parameter
<1>14. QED
  BY <1>2, <1>3, <1>4, <1>5, <1>6, <1>7, <1>8, <1>9, <1>10, <1>11, <1>12, <1>13

(* Everything else leaves the session alone and starts no parameter request. *)
LEMMA OtherInv ==
  ASSUME Inv,
         \/ AwaitWatchers \/ AwaitParameters \/ JoinForDestruction
         \/ CloseForDestruction \/ ReleaseForDestruction
         \/ PoolStep \/ ParameterWork \/ WorkerStep \/ SensorStep \/ Destroyed
         \/ UNCHANGED vars
  PROVE  Inv'
<1> SUFFICES session' = session /\ (parameterBusy' = parameterBusy \/ parameterBusy' = FALSE)
  BY InvKept DEF Inv
<1>1. CASE \/ AwaitWatchers \/ AwaitParameters \/ JoinForDestruction
           \/ CloseForDestruction \/ ReleaseForDestruction
  BY <1>1 DEF AwaitWatchers, AwaitParameters, JoinForDestruction, CloseForDestruction,
     ReleaseForDestruction, Destructor, parameter
<1>2. CASE ParameterWork
  <2>1. ASSUME NEW p, NEW from, NEW to, ParameterStep(p, from, to)
        PROVE  session' = session
    BY <2>1 DEF ParameterStep, guiThread
  <2>2. QED
    BY <1>2, <2>1 DEF ParameterWork, RunParameter, ReportParameter, ReportApplied,
       ReturnParameter
<1>3. CASE WorkerStep \/ SensorStep
  BY <1>3 DEF WorkerStep, SensorStep, ReceiveFrame, LeavePolling, FailPolling, StopStreaming,
     Disarm, ReportIdle, ReportInactive, WorkerAt, guiThread, parameter
<1>4. CASE PoolStep
  <2>1. ASSUME NEW w, NEW phase, ToPhase(w, phase)
        PROVE  session' = session /\ parameterBusy' = parameterBusy
    BY <2>1 DEF ToPhase, guiThread, parameter
  <2>2. ASSUME NEW w, NEW ok, NEW posts, Returns(w, ok, posts)
        PROVE  session' = session /\ parameterBusy' = parameterBusy
    BY <2>2 DEF Returns, guiThread, parameter
  <2>3. CASE \/ RunDiscovery \/ OpenDevice \/ ReportConnection
             \/ StopForDisconnect \/ JoinForDisconnect \/ CloseDevice \/ ReleaseDevice
    BY <2>1, <2>2, <2>3 DEF RunDiscovery, OpenDevice, ReportConnection, StopForDisconnect,
       JoinForDisconnect, CloseDevice, ReleaseDevice
  <2>4. CASE BeginProfile \/ EndProfile \/ RunFeature \/ ReadFeatures \/ StartArm
    BY <2>1, <2>2, <2>4 DEF BeginProfile, EndProfile, RunFeature, ReadFeatures, StartArm
  <2>5. CASE \/ BeginArming \/ SetUpArming \/ CompleteArming \/ FailArming
             \/ ReportGrabbing \/ ReportActive \/ ReturnArmed
    BY <2>1, <2>2, <2>5 DEF BeginArming, SetUpArming, CompleteArming, FailArming,
       ReportGrabbing, ReportActive, ReturnArmed, guiThread, parameter
  <2>6. QED
    BY <1>4, <2>3, <2>4, <2>5 DEF PoolStep
<1>5. CASE Destroyed \/ UNCHANGED vars
  BY <1>5 DEF Destroyed, vars, guiThread, parameter
<1>6. QED
  BY <1>1, <1>2, <1>3, <1>4, <1>5

LEMMA AskedNext == AskedTool /\ [Next]_vars => AskedTool'
<1> SUFFICES ASSUME AskedTool, [Next]_vars PROVE asked' = asked \/ asked' \in AllTools \cup {"none"}
  BY DEF AskedTool
<1>1. CASE UserStep
  BY <1>1 DEF UserStep, Click, ClickRefresh, ClickConnect, ClickDisconnect, ClickSingle,
     ToggleLive, ClickInit, EditFeature, ClickTrigger, DestroyWidget, DestroySession
<1>2. CASE HostStep
  BY <1>2, OperationsAssumption DEF HostStep, StopNothing, AskTool, RequestParameter
<1>3. CASE GuiStep
  BY <1>3 DEF GuiStep, AdmitTool, RefuseTool, Handle, HandleRefresh, HandleControl,
     HandleApplied, HandleFrame, HandleStale, HandleActive, HandleInactive,
     HandleStartFailed, HandleEnd, HandleRest, Finish, FinishDiscovery, FinishConnection,
     FinishDisconnection, FinishInitialization, FinishFeature, FinishFeatureRead, FinishArm,
     Destructor, AwaitWatchers, AwaitParameters, JoinForDestruction, CloseForDestruction,
     ReleaseForDestruction
<1>4. CASE PoolStep
  <2>1. ASSUME NEW w, NEW phase, ToPhase(w, phase) PROVE asked' = asked
    BY <2>1 DEF ToPhase, guiThread
  <2>2. ASSUME NEW w, NEW ok, NEW posts, Returns(w, ok, posts) PROVE asked' = asked
    BY <2>2 DEF Returns, guiThread
  <2>3. QED
    BY <1>4, <2>1, <2>2 DEF PoolStep, RunDiscovery, OpenDevice, ReportConnection,
       StopForDisconnect, JoinForDisconnect, CloseDevice, ReleaseDevice, BeginProfile,
       EndProfile, RunFeature, ReadFeatures, StartArm, BeginArming, SetUpArming,
       CompleteArming, FailArming, ReportGrabbing, ReportActive, ReturnArmed, guiThread
<1>5. CASE ParameterWork \/ WorkerStep \/ SensorStep
  BY <1>5 DEF ParameterWork, RunParameter, ReportParameter, ReportApplied, ReturnParameter,
     ParameterStep, WorkerStep, SensorStep, ReceiveFrame, LeavePolling, FailPolling,
     StopStreaming, Disarm, ReportIdle, ReportInactive, WorkerAt, guiThread
<1>6. CASE Destroyed \/ UNCHANGED vars
  BY <1>6 DEF Destroyed, vars, guiThread
<1>7. QED
  BY <1>1, <1>2, <1>3, <1>4, <1>5, <1>6 DEF Next

LEMMA InvNext == Inv /\ AskedTool /\ [Next]_vars => Inv'
BY UserStepInv, HostStepInv, FinishInv, HandlerInv, OtherInv DEF Next, GuiStep

(***************************************************************************)
(* At most one session watcher exists, and none beside a parameter request *)
(* of the host, however users, hosts, tasks and the worker interleave.     *)
(***************************************************************************)
THEOREM WorkIsExclusive == Spec => []SdkWorkExclusive
<1>1. Init => AskedTool
  BY DEF Init, AskedTool
<1>2. Inv => SdkWorkExclusive
  <2> SUFFICES ASSUME Inv PROVE SdkWorkExclusive
    OBVIOUS
  <2>1. \A v, w \in session.watchers : v = w
    BY DEF Inv, Good, Exclusive
  <2>2. CASE session.watchers = {}
    <3>1. Cardinality(session.watchers) = 0
      BY <2>2, FS_EmptySet
    <3>2. QED
      BY <2>2, <3>1 DEF SdkWorkExclusive
  <2>3. CASE session.watchers # {}
    <3>1. PICK w : session.watchers = {w}
      BY <2>1, <2>3
    <3>2. Cardinality({w}) = 1
      BY FS_Singleton
    <3>3. Cardinality(session.watchers) = 1
      BY <3>1, <3>2
    <3>4. ~parameterBusy
      BY <2>3 DEF Inv, Good, Exclusive
    <3>5. QED
      BY <3>3, <3>4 DEF SdkWorkExclusive
  <2>4. QED
    BY <2>2, <2>3
<1>3. QED
  BY InvInit, InvNext, AskedNext, <1>1, <1>2, PTL DEF Spec

------------------------------------------------------------------------------
(* What the session knows of a call. *)

(* t differs from s in nothing that concerns calls. *)
SameCalls(s, t) ==
  /\ SameWork(s, t)
  /\ t.completion = s.completion
  /\ t.toolCall = s.toolCall
  /\ t.refreshFor = s.refreshFor

(* At most one completion holds a call. *)
Single(s) ==
  \A c, d \in Completions : s.completion[c] # NoCall /\ s.completion[d] # NoCall => c = d

Shape(s) ==
  /\ IsSession(s)
  /\ s.completion \in [Completions -> Nat]
  /\ s.toolCall \in Nat
  /\ Single(s)

(* The watcher a stored completion waits for, but for the completion x that is *)
(* about to be called.  The end of an acquisition is stored when its arm ends. *)
Linked(s, x) ==
  /\ x # "discovery" /\ s.completion["discovery"] # NoCall => "discovery" \in s.watchers
  /\ x # "connect" /\ s.completion["connect"] # NoCall =>
       \/ "connection" \in s.watchers
       \/ "featureRead" \in s.watchers /\ s.refreshFor = "connect"
  /\ x # "disconnect" /\ s.completion["disconnect"] # NoCall =>
       s.disconnectPending \/ "disconnection" \in s.watchers
  /\ x # "arm" /\ s.completion["arm"] # NoCall => "arm" \in s.watchers
  /\ "arm" \in s.watchers => s.completion["acquisitionEnd"] = NoCall

(* The pending call is the one that a completion holds. *)
Held(s) ==
  \A k \in Nat \ {NoCall} : k = s.toolCall <=> \E c \in Completions : s.completion[c] = k

Unheld(s) == \A c \in Completions : s.completion[c] = NoCall

CallGood(s, x) == Shape(s) /\ Linked(s, x) /\ Held(s)

(* Exactly the pending call has no answer yet. *)
AnswerOK(a, call) ==
  /\ call # NoCall => call \in Calls
  /\ a = [k \in Calls |-> a[k]]
  /\ \A k \in Calls : a[k] = "pending" <=> k = call

(* t keeps the pending call and every watcher of s. *)
Grows(s, t) == t.toolCall = s.toolCall /\ s.watchers \subseteq t.watchers

LEMMA FieldSame ==
  ASSUME NEW s, IsSession(s), NEW v
  PROVE  /\ SameCalls(s, [s EXCEPT !.ui = v])
         /\ SameCalls(s, [s EXCEPT !.ui.refreshOn = v])
         /\ SameCalls(s, [s EXCEPT !.ui.connectChecked = v])
         /\ SameCalls(s, [s EXCEPT !.ui.liveChecked = v])
         /\ SameCalls(s, [s EXCEPT !.externalBusyShown = v])
         /\ SameCalls(s, [s EXCEPT !.widget = v])
BY FieldSet DEF IsSession, SameCalls, Fields

LEMMA ShownSameCalls ==
  ASSUME NEW s, IsSession(s), NEW busy
  PROVE  SameCalls(s, Shown(s, busy))
<1> DEFINE u == IF s.watchers \cap {"feature", "featureRead", "initialization"} = {}
                  THEN SetFeatureOperationPending(s.ui, busy) ELSE s.ui
<1>1. SameCalls(s, s)
  BY DEF SameCalls, SameWork
<1>2. Shown(s, busy) \in {s, [s EXCEPT !.externalBusyShown = busy, !.ui = u]}
  BY DEF Shown
<1> HIDE DEF u
<1>3. SameCalls(s, [s EXCEPT !.externalBusyShown = busy, !.ui = u])
  BY DEF IsSession, SameCalls, SameWork, Fields
<1>4. QED
  BY <1>1, <1>2, <1>3

LEMMA SameCallsShape ==
  ASSUME NEW s, Shape(s), NEW t, SameCalls(s, t)
  PROVE  Shape(t)
BY DEF Shape, SameCalls, SameWork, Single

LEMMA SameCallsGood ==
  ASSUME NEW s, NEW x, CallGood(s, x), NEW t, SameCalls(s, t)
  PROVE  CallGood(t, x)
<1>1. Shape(t)
  BY SameCallsShape DEF CallGood
<1>2. Linked(t, x)
  BY DEF CallGood, Linked, SameCalls, SameWork
<1>3. Held(t)
  BY DEF CallGood, Held, SameCalls
<1>4. QED
  BY <1>1, <1>2, <1>3 DEF CallGood

LEMMA ShowGood ==
  ASSUME NEW s, NEW x, CallGood(s, x), NEW u
  PROVE  CallGood([s EXCEPT !.ui = u], x) /\ Grows(s, [s EXCEPT !.ui = u])
<1> DEFINE t == [s EXCEPT !.ui = u]
<1>1. SameCalls(s, t)
  BY FieldSame DEF CallGood, Shape
<1> HIDE DEF t
<1>2. CallGood(t, x) /\ Grows(s, t)
  BY <1>1, SameCallsGood DEF SameCalls, SameWork, Grows
<1>3. QED
  BY <1>2 DEF t

LEMMA GoodForAny ==
  ASSUME NEW s, CallGood(s, "none"), NEW x
  PROVE  CallGood(s, x)
BY DEF CallGood, Linked

------------------------------------------------------------------------------
(* Calling a stored completion finishes the call it holds. *)

LEMMA CompletedGood ==
  ASSUME NEW s, NEW c \in Completions, CallGood(s, c), NEW t, t = Completed(s, c)
  PROVE  /\ CallGood(t, "none")
         /\ t.watchers = s.watchers
         /\ t.toolCall = IF s.completion[c] = NoCall THEN s.toolCall ELSE NoCall
<1>1. CASE s.completion[c] = NoCall
  BY <1>1 DEF Completed, CallGood, Linked, Completions
<1>2. CASE s.completion[c] # NoCall
  <2> DEFINE k == s.completion[c]
             u == [s EXCEPT !.completion[c] = NoCall]
             v == [u EXCEPT !.toolCall = NoCall]
  <2>1. s.toolCall = k
    BY <1>2 DEF CallGood, Shape, Held
  <2>2. u.toolCall = k
    BY <2>1 DEF CallGood, Shape, IsSession, Fields
  <2>3. t = ControlChanged(v)
    <3>1. t = ToolFinished(u, k)
      BY <1>2 DEF Completed
    <3> HIDE DEF u, k
    <3>2. ToolFinished(u, k) = ControlChanged(v)
      BY <2>2 DEF ToolFinished
    <3>3. QED
      BY <3>1, <3>2
  <2>4. /\ v.completion = [s.completion EXCEPT ![c] = NoCall]
        /\ v.toolCall = NoCall
        /\ v.watchers = s.watchers
        /\ v.refreshFor = s.refreshFor
        /\ v.disconnectPending = s.disconnectPending
        /\ IsSession(v)
    BY DEF CallGood, Shape, IsSession, Fields
  <2> HIDE DEF u, v, k
  <2>5. Unheld(v)
    BY <1>2, <2>4 DEF Unheld, CallGood, Shape, Single
  <2>6. Shape(v) /\ Held(v)
    BY <2>4, <2>5 DEF Shape, Single, Unheld, Held, NoCall, CallGood
  <2>7. Linked(v, "none")
    BY <2>5 DEF Linked, Unheld, Completions
  <2>8. SameCalls(v, t)
    BY <2>3, <2>4, ShownSameCalls DEF ControlChanged
  <2>9. QED
    BY <1>2, <2>4, <2>6, <2>7, <2>8, SameCallsGood DEF CallGood, SameCalls, SameWork
<1>3. QED
  BY <1>1, <1>2

(* The answer to the pending call is set, or to a call when none is pending. *)
LEMMA AnswerSet ==
  ASSUME NEW call, NEW k, NEW v, AnswerOK(answer, call), call \in {NoCall, k},
         v = "pending" => k \in Calls
  PROVE  AnswerOK([answer EXCEPT ![k] = v], IF v = "pending" THEN k ELSE NoCall)
<1>1. NoCall \notin Calls
  BY DEF NoCall, Calls
<1>2. QED
  BY <1>1 DEF AnswerOK

LEMMA AnsweredOK ==
  ASSUME NEW s, NEW c \in Completions, NEW x, CallGood(s, x), AnswerOK(answer, s.toolCall), NEW ok,
         NEW u, u.completion = s.completion
  PROVE  AnswerOK(Answered(u, c, ok),
                  IF s.completion[c] = NoCall THEN s.toolCall ELSE NoCall)
<1>1. CASE s.completion[c] = NoCall
  BY <1>1 DEF Answered
<1>2. CASE s.completion[c] # NoCall
  <2> DEFINE k == s.completion[c]
             r == Answer(k, ok)
  <2>1. s.toolCall = k
    BY <1>2 DEF CallGood, Shape, Held
  <2>2. r # "pending"
    BY DEF Answer
  <2>3. Answered(u, c, ok) = [answer EXCEPT ![k] = r]
    BY <1>2 DEF Answered
  <2> HIDE DEF k, r
  <2>4. NoCall \notin Calls
    BY DEF NoCall, Calls
  <2>5. AnswerOK([answer EXCEPT ![k] = r], NoCall)
    BY <2>1, <2>2, <2>4 DEF AnswerOK
  <2>6. QED
    BY <1>2, <2>3, <2>5
<1>3. QED
  BY <1>1, <1>2

------------------------------------------------------------------------------
(* What the session does after a watcher ended, or with a click or a call. *)

LEMMA AfterRefreshCalls ==
  ASSUME NEW s, NEW x, CallGood(s, x), NEW for \in Refreshes \ {"connect"}
  PROVE  CallGood(AfterRefresh(s, for), x) /\ Grows(s, AfterRefresh(s, for))
<1>1. SameCalls(s, s)
  BY DEF CallGood, Shape, SameCalls, SameWork
<1>2. IsSession(s)
  BY DEF CallGood, Shape
<1>3. SameCalls(s, AfterRefresh(s, for))
  BY <1>1, <1>2, FieldSame DEF AfterRefresh, Refreshes
<1>4. QED
  BY <1>3, SameCallsGood DEF SameCalls, SameWork, Grows

(* A refresh of the features starts when nothing else is under way. *)
LEMMA RefreshStarts ==
  ASSUME NEW s, NEW x \in {"none", "connect"}, CallGood(s, x), ~RefreshRefused(s),
         NEW for \in Refreshes, x = "connect" => for = "connect"
  PROVE  CallGood(RefreshFeatureTree(s, for), "none") /\ Grows(s, RefreshFeatureTree(s, for))
<1> DEFINE t == RefreshFeatureTree(s, for)
<1>1. s.watchers = {} /\ ~s.disconnectPending
  BY DEF RefreshRefused, SdkOperationPending, ControlBusy
<1>2. /\ t.watchers = {"featureRead"} /\ t.refreshFor = for
      /\ t.completion = s.completion /\ t.toolCall = s.toolCall
      /\ t.disconnectPending = s.disconnectPending
      /\ IsSession(t)
  BY <1>1 DEF RefreshFeatureTree, Started, CallGood, Shape, IsSession, Fields
<1> HIDE DEF t
<1>3. Shape(t) /\ Held(t)
  BY <1>2 DEF CallGood, Shape, Single, Held
<1>4. Linked(t, "none")
  BY <1>1, <1>2 DEF CallGood, Linked
<1>5. QED
  BY <1>1, <1>2, <1>3, <1>4 DEF CallGood, Grows, t

LEMMA RefreshCalls ==
  ASSUME NEW s, CallGood(s, "none"), NEW for \in Refreshes \ {"connect"}
  PROVE  CallGood(RefreshFeatureTree(s, for), "none") /\ Grows(s, RefreshFeatureTree(s, for))
BY AfterRefreshCalls, RefreshStarts DEF RefreshFeatureTree

(* The refresh after a connection takes over its completion, or calls it. *)
LEMMA ConnectRefreshCalls ==
  ASSUME NEW s, CallGood(s, "connect"), AnswerOK(answer, s.toolCall)
  PROVE  /\ CallGood(RefreshFeatureTree(s, "connect"), "none")
         /\ s.watchers \subseteq RefreshFeatureTree(s, "connect").watchers
         /\ AnswerOK(AnsweredByRefresh(s, "connect"), RefreshFeatureTree(s, "connect").toolCall)
<1>1. CASE ~RefreshRefused(s)
  BY <1>1, RefreshStarts DEF AnsweredByRefresh, Grows, Refreshes
<1>2. CASE RefreshRefused(s)
  <2> DEFINE u == [s EXCEPT !.ui = SetAcquisitionAvailable(@, TRUE)]
             t == Completed(u, "connect")
  <2>1. RefreshFeatureTree(s, "connect") = t
    BY <1>2 DEF RefreshFeatureTree, AfterRefresh
  <2>2. AnsweredByRefresh(s, "connect") = Answered(s, "connect", TRUE)
    BY <1>2 DEF AnsweredByRefresh
  <2>3. SameCalls(s, u)
    BY FieldSame DEF CallGood, Shape
  <2> HIDE DEF u
  <2>4. CallGood(u, "connect") /\ u.completion = s.completion /\ u.toolCall = s.toolCall
          /\ u.watchers = s.watchers
    BY <2>3, SameCallsGood DEF SameCalls, SameWork
  <2>5. "connect" \in Completions
    BY DEF Completions
  <2>6. /\ CallGood(t, "none") /\ t.watchers = s.watchers
        /\ t.toolCall = IF s.completion["connect"] = NoCall THEN s.toolCall ELSE NoCall
    BY <2>4, <2>5, CompletedGood
  <2>7. AnswerOK(Answered(s, "connect", TRUE), t.toolCall)
    BY <2>5, <2>6, AnsweredOK
  <2>8. QED
    BY <2>1, <2>2, <2>6, <2>7
<1>3. QED
  BY <1>1, <1>2

LEMMA CompleteDisconnectCalls ==
  ASSUME NEW s, CallGood(s, "none")
  PROVE  CallGood(CompleteDisconnect(s), "none") /\ Grows(s, CompleteDisconnect(s))
<1> DEFINE t == CompleteDisconnect(s)
<1>1. CASE ~s.widget \/ "disconnection" \in s.watchers
  BY <1>1 DEF CompleteDisconnect, Grows
<1>2. CASE ~(~s.widget \/ "disconnection" \in s.watchers)
  <2>1. /\ t.watchers = s.watchers \cup {"disconnection"} /\ t.disconnectPending = TRUE
        /\ t.completion = s.completion /\ t.toolCall = s.toolCall
        /\ t.refreshFor = s.refreshFor /\ IsSession(t)
    BY <1>2 DEF CompleteDisconnect, Started, CallGood, Shape, IsSession, Fields
  <2> HIDE DEF t
  <2>2. Shape(t) /\ Held(t)
    BY <2>1 DEF CallGood, Shape, Single, Held
  <2>3. Linked(t, "none")
    BY <2>1 DEF CallGood, Linked
  <2>4. QED
    BY <2>1, <2>2, <2>3 DEF CallGood, Grows, t
<1>3. QED
  BY <1>1, <1>2

LEMMA InactiveShownCalls ==
  ASSUME NEW s, CallGood(s, "none"), NEW error
  PROVE  CallGood(InactiveShown(s, error), "none") /\ Grows(s, InactiveShown(s, error))
<1>1. CASE s.disconnectPending
  BY <1>1, CompleteDisconnectCalls DEF InactiveShown
<1>2. CASE ~s.disconnectPending
  <2>0. ASSUME NEW u, CallGood(u, "none"), NEW w
        PROVE  CallGood([u EXCEPT !.ui = w], "none") /\ Grows(u, [u EXCEPT !.ui = w])
    BY <2>0, ShowGood
  <2> DEFINE shown == [s EXCEPT !.ui = SetAcquisitionState(@, FALSE, FALSE, FALSE)]
             v == IF Diagnostics /\ IsOpened /\ ~RequiresReconnect
                    THEN RefreshFeatureTree(shown, "nothing") ELSE shown
  <2>1. CallGood(shown, "none") /\ Grows(s, shown)
    BY <2>0
  <2>2. InactiveShown(s, error) = IF error THEN ErrorShown(v) ELSE v
    BY <1>2 DEF InactiveShown
  <2> HIDE DEF shown
  <2>3. CallGood(v, "none") /\ Grows(shown, v)
    BY <2>1, RefreshCalls DEF Refreshes, Grows
  <2> HIDE DEF v
  <2>4. CallGood(ErrorShown(v), "none") /\ Grows(v, ErrorShown(v))
    <3> DEFINE r == [v EXCEPT !.ui = SetAcquisitionAvailable(@, FALSE)]
    <3>1. CallGood(r, "none") /\ Grows(v, r)
      BY <2>0, <2>3
    <3>2. ErrorShown(v) \in {v, [v EXCEPT !.ui = SetAcquisitionError(@)],
                             [r EXCEPT !.ui = SetAcquisitionError(@)]}
      BY DEF ErrorShown
    <3> HIDE DEF r
    <3>3. /\ CallGood([r EXCEPT !.ui = SetAcquisitionError(@)], "none")
          /\ Grows(r, [r EXCEPT !.ui = SetAcquisitionError(@)])
          /\ CallGood([v EXCEPT !.ui = SetAcquisitionError(@)], "none")
          /\ Grows(v, [v EXCEPT !.ui = SetAcquisitionError(@)])
      BY <2>0, <2>3, <3>1
    <3>4. QED
      BY <2>3, <3>1, <3>2, <3>3 DEF Grows
  <2>5. QED
    BY <2>1, <2>2, <2>3, <2>4 DEF Grows
<1>3. QED
  BY <1>1, <1>2

(* The session when an operation is admitted, for a click (no call) or for a *)
(* tool call that no completion holds yet.                                   *)
Ready(s, call) ==
  /\ Shape(s) /\ Linked(s, "none")
  /\ s.watchers = {} /\ ~s.disconnectPending
  /\ \/ call = NoCall /\ Held(s)
     \/ call = s.toolCall /\ call # NoCall /\ Unheld(s)

(* An operation stores its call where its watcher, or the acquisition, will find it. *)
LEMMA StoredGood ==
  ASSUME NEW s, NEW call, Ready(s, call), NEW c \in Completions, s.completion[c] = NoCall,
         NEW t, IsSession(t),
         t.completion = [s.completion EXCEPT ![c] = call], t.toolCall = s.toolCall
  PROVE  Shape(t) /\ Held(t) /\ \A d \in Completions : d # c => t.completion[d] = s.completion[d]
<1>1. call \in Nat
  BY DEF Ready, Shape, NoCall
<1>2. CASE call = NoCall /\ Held(s)
  BY <1>1, <1>2 DEF Ready, Shape, Single, Held
<1>3. CASE call = s.toolCall /\ call # NoCall /\ Unheld(s)
  BY <1>1, <1>3 DEF Ready, Shape, Single, Held, Unheld
<1>4. QED
  BY <1>2, <1>3 DEF Ready

(* No completion but that of an acquisition's end is stored then. *)
LEMMA ReadyUnheld ==
  ASSUME NEW s, NEW call, Ready(s, call), NEW c \in Completions \ {"acquisitionEnd"}
  PROVE  s.completion[c] = NoCall
BY DEF Ready, Linked, Completions

LEMMA OperationCalls ==
  ASSUME NEW s, NEW call, Ready(s, call), NEW live
  PROVE  /\ CallGood(Discover(s, call), "none") /\ Grows(s, Discover(s, call))
         /\ CallGood(Connect(s, call), "none") /\ Grows(s, Connect(s, call))
         /\ ArmAdmitted(s) => CallGood(Arm(s, live, call), "none") /\ Grows(s, Arm(s, live, call))
         /\ s.widget => CallGood(Disconnect(s, call), "none") /\ Grows(s, Disconnect(s, call))
<1>1. CallGood(Discover(s, call), "none") /\ Grows(s, Discover(s, call))
  <2> DEFINE t == Discover(s, call)
  <2>1. /\ t.watchers = {"discovery"} /\ t.disconnectPending = s.disconnectPending
        /\ t.completion = [s.completion EXCEPT !["discovery"] = call]
        /\ t.toolCall = s.toolCall /\ t.refreshFor = s.refreshFor /\ IsSession(t)
    BY DEF Discover, Started, Ready, Shape, IsSession, Fields
  <2> HIDE DEF t
  <2>0. "discovery" \in Completions /\ s.completion["discovery"] = NoCall
    BY ReadyUnheld DEF Completions
  <2>2. Shape(t) /\ Held(t) /\ \A d \in Completions : d # "discovery" => t.completion[d] = s.completion[d]
    BY <2>0, <2>1, StoredGood
  <2>3. Linked(t, "none")
    BY <2>1, <2>2, ReadyUnheld DEF Linked, Completions
  <2>4. QED
    BY <2>1, <2>2, <2>3 DEF CallGood, Grows, Ready, t
<1>2. CallGood(Connect(s, call), "none") /\ Grows(s, Connect(s, call))
  <2> DEFINE t == Connect(s, call)
  <2>1. /\ t.watchers = {"connection"} /\ t.disconnectPending = s.disconnectPending
        /\ t.completion = [s.completion EXCEPT !["connect"] = call]
        /\ t.toolCall = s.toolCall /\ t.refreshFor = s.refreshFor /\ IsSession(t)
    BY DEF Connect, Started, Ready, Shape, IsSession, Fields
  <2> HIDE DEF t
  <2>0. "connect" \in Completions /\ s.completion["connect"] = NoCall
    BY ReadyUnheld DEF Completions
  <2>2. Shape(t) /\ Held(t) /\ \A d \in Completions : d # "connect" => t.completion[d] = s.completion[d]
    BY <2>0, <2>1, StoredGood
  <2>3. Linked(t, "none")
    BY <2>1, <2>2, ReadyUnheld DEF Linked, Completions
  <2>4. QED
    BY <2>1, <2>2, <2>3 DEF CallGood, Grows, Ready, t
<1>3. ASSUME ArmAdmitted(s) PROVE CallGood(Arm(s, live, call), "none") /\ Grows(s, Arm(s, live, call))
  <2> DEFINE t == Arm(s, live, call)
  <2>1. /\ t.watchers = {"arm"} /\ t.disconnectPending = s.disconnectPending
        /\ t.completion = [s.completion EXCEPT !["arm"] = call]
        /\ t.toolCall = s.toolCall /\ t.refreshFor = s.refreshFor /\ IsSession(t)
    BY DEF Arm, Started, Ready, Shape, IsSession, Fields
  <2> HIDE DEF t
  <2>0. "arm" \in Completions /\ s.completion["arm"] = NoCall
    BY ReadyUnheld DEF Completions
  <2>2. Shape(t) /\ Held(t) /\ \A d \in Completions : d # "arm" => t.completion[d] = s.completion[d]
    BY <2>0, <2>1, StoredGood
  <2>3. s.completion["acquisitionEnd"] = NoCall
    BY <1>3 DEF ArmAdmitted
  <2>4. Linked(t, "none")
    BY <2>1, <2>2, <2>3, ReadyUnheld DEF Linked, Completions
  <2>5. QED
    BY <2>1, <2>2, <2>4 DEF CallGood, Grows, Ready, t
<1>4. ASSUME s.widget PROVE CallGood(Disconnect(s, call), "none") /\ Grows(s, Disconnect(s, call))
  <2> DEFINE t == Disconnect(s, call)
  <2>1. /\ t.disconnectPending = TRUE
        /\ t.completion = [s.completion EXCEPT !["disconnect"] = call]
        /\ t.watchers \subseteq {"disconnection"}
        /\ t.toolCall = s.toolCall /\ t.refreshFor = s.refreshFor /\ IsSession(t)
    BY <1>4 DEF Disconnect, CompleteDisconnect, Started, Ready, Shape, IsSession, Fields
  <2> HIDE DEF t
  <2>0. "disconnect" \in Completions /\ s.completion["disconnect"] = NoCall
    BY ReadyUnheld DEF Completions
  <2>2. Shape(t) /\ Held(t) /\ \A d \in Completions : d # "disconnect" => t.completion[d] = s.completion[d]
    BY <2>0, <2>1, StoredGood
  <2>3. Linked(t, "none")
    BY <2>1, <2>2, ReadyUnheld DEF Linked, Completions
  <2>4. QED
    BY <2>1, <2>2, <2>3 DEF CallGood, Grows, Ready, t
<1>5. QED
  BY <1>1, <1>2, <1>3, <1>4

LEMMA ClickCalls ==
  ASSUME NEW s, CallGood(s, "none"), NEW live
  PROVE  /\ DiscoverAdmitted(s) => CallGood(Discover(s, NoCall), "none") /\ Grows(s, Discover(s, NoCall))
         /\ ConnectAdmitted(s) => CallGood(Connect(s, NoCall), "none") /\ Grows(s, Connect(s, NoCall))
         /\ ArmAdmitted(s) => CallGood(Arm(s, live, NoCall), "none") /\ Grows(s, Arm(s, live, NoCall))
         /\ DisconnectAdmitted(s) =>
              CallGood(Disconnect(s, NoCall), "none") /\ Grows(s, Disconnect(s, NoCall))
<1>1. ASSUME ~SdkOperationPending(s) PROVE Ready(s, NoCall)
  BY <1>1 DEF Ready, CallGood, SdkOperationPending, ControlBusy
<1>2. QED
  BY <1>1, OperationCalls DEF DiscoverAdmitted, ConnectAdmitted, ArmAdmitted, DisconnectAdmitted

LEMMA FeatureCalls ==
  ASSUME NEW s, CallGood(s, "none")
  PROVE  /\ FeatureAdmitted(s) =>
              \A operation \in {"write", "trigger"} :
                /\ CallGood(RunFeatureOperation(s, operation), "none")
                /\ Grows(s, RunFeatureOperation(s, operation))
         /\ InitializeAdmitted(s) => CallGood(Initialize(s), "none") /\ Grows(s, Initialize(s))
<1>1. ASSUME NEW t, NEW w \in {"feature", "initialization"}, IsSession(t), t.watchers = {w},
             t.disconnectPending = s.disconnectPending, t.completion = s.completion,
             t.toolCall = s.toolCall, ~SdkOperationPending(s)
      PROVE  CallGood(t, "none") /\ Grows(s, t)
  <2>1. s.watchers = {} /\ ~s.disconnectPending
    BY <1>1 DEF SdkOperationPending, ControlBusy
  <2>2. Shape(t) /\ Held(t)
    BY <1>1 DEF CallGood, Shape, Single, Held
  <2>3. Linked(t, "none")
    BY <1>1, <2>1 DEF CallGood, Linked
  <2>4. QED
    BY <1>1, <2>1, <2>2, <2>3 DEF CallGood, Grows
<1>2. ASSUME FeatureAdmitted(s), NEW operation \in {"write", "trigger"}
      PROVE  /\ CallGood(RunFeatureOperation(s, operation), "none")
             /\ Grows(s, RunFeatureOperation(s, operation))
  <2> DEFINE t == RunFeatureOperation(s, operation)
  <2>1. ~SdkOperationPending(s)
    BY <1>2 DEF FeatureAdmitted
  <2>2. /\ IsSession(t) /\ t.watchers = {"feature"}
        /\ t.disconnectPending = s.disconnectPending /\ t.completion = s.completion
        /\ t.toolCall = s.toolCall
    BY <1>2, <2>1 DEF RunFeatureOperation, Started, CallGood, Shape, IsSession, Fields,
       SdkOperationPending, ControlBusy
  <2> HIDE DEF t
  <2>3. QED
    BY <1>1, <2>1, <2>2 DEF t
<1>3. ASSUME InitializeAdmitted(s)
      PROVE  CallGood(Initialize(s), "none") /\ Grows(s, Initialize(s))
  <2> DEFINE t == Initialize(s)
  <2>1. ~SdkOperationPending(s)
    BY <1>3 DEF InitializeAdmitted
  <2>2. /\ IsSession(t) /\ t.watchers = {"initialization"}
        /\ t.disconnectPending = s.disconnectPending /\ t.completion = s.completion
        /\ t.toolCall = s.toolCall
    BY <1>3, <2>1 DEF Initialize, Started, CallGood, Shape, IsSession, Fields,
       SdkOperationPending, ControlBusy
  <2> HIDE DEF t
  <2>3. QED
    BY <1>1, <2>1, <2>2 DEF t
<1>4. QED
  BY <1>2, <1>3

------------------------------------------------------------------------------
(* The invariant.  A call that was accepted is held by a completion, or the  *)
(* session operation that will store it has not been tried yet.              *)

Alive == gui \in {"idle", "rest"}

CallInv ==
  /\ Shape(session)
  /\ calls \in Nat
  /\ asked # "none" => Alive
  /\ Alive =>
       /\ Linked(session, "none")
       /\ AnswerOK(answer, session.toolCall)
       /\ asked = "none" => Held(session)
       /\ asked # "none" => /\ session.toolCall # NoCall /\ Unheld(session)
                            /\ session.watchers = {} /\ ~session.disconnectPending

(* A task runs for a watcher, and posts one finished event when it is done. *)
QueueOK(q, t) ==
  /\ \E S : q \in Seq(S)
  /\ \A i \in 1..Len(q) : q[i].kind = "finished" => q[i].task \in Watchers /\ t[q[i].task] = "done"
  /\ \A i, j \in 1..Len(q) :
       q[i].kind = "finished" /\ q[j].kind = "finished" /\ q[i].task = q[j].task => i = j

TaskInv ==
  /\ task = [w \in Watchers |-> task[w]]
  /\ \A w \in Watchers : task[w] # "idle" => w \in session.watchers
  /\ QueueOK(queue, task)

(* What the user and the GUI thread do between two calls. *)
BetweenCalls == asked = "none" /\ CallGood(session, "none") /\ AnswerOK(answer, session.toolCall)

LEMMA SettledInv == BetweenCalls' /\ calls' \in Nat => CallInv'
BY DEF BetweenCalls, CallInv, CallGood, Alive

LEMMA SettledStep ==
  ASSUME CallGood(session', "none"), AnswerOK(answer', session'.toolCall), asked' = "none",
         calls' \in Nat
  PROVE  CallInv'
<1>1. CallGood(session, "none")'
  BY DEF CallGood, Shape, Single, Linked, Held
<1>2. AnswerOK(answer, session.toolCall)'
  BY DEF AnswerOK
<1>3. QED
  BY <1>1, <1>2, SettledInv DEF BetweenCalls

LEMMA InvSettled == CallInv /\ Alive /\ asked = "none" => BetweenCalls
BY DEF BetweenCalls, CallInv, CallGood

LEMMA UserStepCalls ==
  ASSUME CallInv, UserStep
  PROVE  CallInv' /\ session.watchers \subseteq session'.watchers
<1>1. GuiFree
  BY DEF UserStep, Click, ClickRefresh, ClickConnect, ClickDisconnect, ClickSingle,
     ToggleLive, ClickInit, EditFeature, ClickTrigger, DestroyWidget, DestroySession
<1>2. CallGood(session, "none") /\ AnswerOK(answer, session.toolCall)
  BY <1>1, InvSettled DEF GuiFree, Alive, BetweenCalls
<1>3. CASE DestroySession
  <2>1. IsSession(session)
    BY <1>2 DEF CallGood, Shape
  <2>2. /\ session'.completion = session.completion /\ session'.toolCall = NoCall
        /\ session'.watchers = session.watchers /\ IsSession(session')
    BY <1>3, <2>1 DEF DestroySession, IsSession, Fields
  <2>3. Shape(session')
    BY <1>2, <2>2 DEF CallGood, Shape, Single, NoCall
  <2>4. calls' = calls /\ asked' = "none" /\ gui' = "wait"
    BY <1>1, <1>3 DEF DestroySession, GuiFree, request
  <2>5. Shape(session)'
    BY <2>3 DEF Shape, Single
  <2>6. QED
    BY <2>2, <2>4, <2>5 DEF CallInv, Alive
<1>4. ASSUME NEW name, Click(name), CallGood(session', "none"), Grows(session, session')
      PROVE  CallInv' /\ session.watchers \subseteq session'.watchers
  <2>1. asked' = "none" /\ answer' = answer /\ calls' = calls
    BY <1>1, <1>4 DEF Click, GuiFree, request
  <2>2. CallGood(session, "none")'
    BY <1>4 DEF CallGood, Shape, Single, Linked, Held
  <2>3. AnswerOK(answer, session.toolCall)'
    BY <1>2, <1>4, <2>1 DEF AnswerOK, Grows
  <2>4. QED
    BY <1>4, <2>1, <2>2, <2>3, SettledInv DEF BetweenCalls, CallInv, Grows
(* A click shows itself before the session decides. *)
<1>5. ASSUME NEW v
      PROVE  /\ CallGood([session EXCEPT !.ui.refreshOn = v], "none")
             /\ Grows(session, [session EXCEPT !.ui.refreshOn = v])
             /\ CallGood([session EXCEPT !.ui.connectChecked = v], "none")
             /\ Grows(session, [session EXCEPT !.ui.connectChecked = v])
             /\ CallGood([session EXCEPT !.ui.liveChecked = v], "none")
             /\ Grows(session, [session EXCEPT !.ui.liveChecked = v])
             /\ CallGood([session EXCEPT !.widget = v], "none")
             /\ Grows(session, [session EXCEPT !.widget = v])
  <2>1. ASSUME NEW t, SameCalls(session, t) PROVE CallGood(t, "none") /\ Grows(session, t)
    BY <1>2, <2>1, SameCallsGood DEF SameCalls, SameWork, Grows
  <2>2. IsSession(session)
    BY <1>2 DEF CallGood, Shape
  <2>3. /\ SameCalls(session, [session EXCEPT !.ui.refreshOn = v])
        /\ SameCalls(session, [session EXCEPT !.ui.connectChecked = v])
        /\ SameCalls(session, [session EXCEPT !.ui.liveChecked = v])
        /\ SameCalls(session, [session EXCEPT !.widget = v])
    BY <2>2, FieldSame
  <2>4. QED
    BY <2>1, <2>3
<1>6. ASSUME NEW s, CallGood(s, "none"), NEW live
      PROVE  /\ CallGood(ArmOrNothing(s, live), "none") /\ Grows(s, ArmOrNothing(s, live))
             /\ CallGood(StopShown(s), "none") /\ Grows(s, StopShown(s))
  BY <1>6, ClickCalls, ShowGood DEF ArmOrNothing, StopShown, Grows
<1>7. CASE ClickRefresh
  BY <1>4, <1>5, <1>7 DEF ClickRefresh
<1>8. CASE ClickConnect
  <2> DEFINE s == [session EXCEPT !.ui = SetConnectionPending([@ EXCEPT !.connectChecked = TRUE], TRUE)]
  <2>1. CallGood(s, "none") /\ Grows(session, s)
    BY <1>2, ShowGood
  <2>2. \/ ConnectAdmitted(s) /\ session' = Connect(s, NoCall)
        \/ session' = [s EXCEPT !.ui = SetConnectionError(@)]
        \/ session' = [s EXCEPT !.ui = SetAcquisitionAvailable(SetConnectionState(@, TRUE),
                                                               ~RequiresReconnect)]
    BY <1>8 DEF ClickConnect
  <2> HIDE DEF s
  <2>3. CallGood(session', "none") /\ Grows(s, session')
    <3>1. CASE ConnectAdmitted(s) /\ session' = Connect(s, NoCall)
      BY <2>1, <3>1, ClickCalls
    <3>2. CASE session' = [s EXCEPT !.ui = SetConnectionError(@)]
      BY <2>1, <3>2, ShowGood
    <3>3. CASE session' = [s EXCEPT !.ui = SetAcquisitionAvailable(SetConnectionState(@, TRUE),
                                                                   ~RequiresReconnect)]
      BY <2>1, <3>3, ShowGood
    <3>4. QED
      BY <2>2, <3>1, <3>2, <3>3
  <2>4. QED
    BY <1>4, <1>8, <2>1, <2>3 DEF ClickConnect, Grows
<1>9. CASE ClickDisconnect
  <2> DEFINE s == [session EXCEPT !.ui.connectChecked = FALSE]
  <2>1. CallGood(s, "none") /\ Grows(session, s)
    BY <1>5
  <2>2. \/ DisconnectAdmitted(s) /\ session' = Disconnect(s, NoCall)
        \/ session' = [s EXCEPT !.ui = SetConnectionState(@, IsOpened)]
    BY <1>9 DEF ClickDisconnect
  <2> HIDE DEF s
  <2>3. CallGood(session', "none") /\ Grows(s, session')
    <3>1. CASE DisconnectAdmitted(s) /\ session' = Disconnect(s, NoCall)
      BY <2>1, <3>1, ClickCalls
    <3>2. CASE session' = [s EXCEPT !.ui = SetConnectionState(@, IsOpened)]
      BY <2>1, <3>2, ShowGood
    <3>3. QED
      BY <2>2, <3>1, <3>2
  <2>4. QED
    BY <1>4, <1>9, <2>1, <2>3 DEF ClickDisconnect, Grows
<1>10. CASE ClickSingle
  BY <1>2, <1>4, <1>6, <1>10 DEF ClickSingle
<1>11. CASE ToggleLive
  <2> DEFINE s == [session EXCEPT !.ui.liveChecked = ~@]
  <2>1. CallGood(s, "none") /\ Grows(session, s)
    BY <1>5
  <2>2. session' \in {ArmOrNothing(s, TRUE), StopShown(s)}
    BY <1>11 DEF ToggleLive
  <2> HIDE DEF s
  <2>3. CallGood(session', "none") /\ Grows(s, session')
    BY <1>6, <2>1, <2>2
  <2>4. QED
    BY <1>4, <1>11, <2>1, <2>3 DEF ToggleLive, Grows
<1>12. CASE ClickInit
  <2>1. session' \in {Initialize(session), session}
          /\ (session' # session => InitializeAdmitted(session))
    BY <1>12 DEF ClickInit
  <2>2. CallGood(session', "none") /\ Grows(session, session')
    BY <1>2, <2>1, FeatureCalls DEF Grows
  <2>3. QED
    BY <1>4, <1>12, <2>2 DEF ClickInit
<1>13. CASE EditFeature
  <2>1. session' \in {RunFeatureOperation(session, "write"), session}
          /\ (session' # session => FeatureAdmitted(session))
    BY <1>13 DEF EditFeature
  <2>2. CallGood(session', "none") /\ Grows(session, session')
    BY <1>2, <2>1, FeatureCalls DEF Grows
  <2>3. QED
    BY <1>4, <1>13, <2>2 DEF EditFeature
<1>14. CASE ClickTrigger
  <2> DEFINE s == [session EXCEPT !.ui = SetSoftwareTriggerPending(@, TRUE)]
  <2>1. CallGood(s, "none") /\ Grows(session, s)
    BY <1>2, ShowGood
  <2>2. \/ FeatureAdmitted(s) /\ session' = RunFeatureOperation(s, "trigger")
        \/ session' = [s EXCEPT !.ui = SetSoftwareTriggerPending(@, FALSE)]
    BY <1>14 DEF ClickTrigger
  <2> HIDE DEF s
  <2>3. CallGood(session', "none") /\ Grows(s, session')
    <3>1. CASE FeatureAdmitted(s) /\ session' = RunFeatureOperation(s, "trigger")
      BY <2>1, <3>1, FeatureCalls
    <3>2. CASE session' = [s EXCEPT !.ui = SetSoftwareTriggerPending(@, FALSE)]
      BY <2>1, <3>2, ShowGood
    <3>3. QED
      BY <2>2, <3>1, <3>2
  <2>4. QED
    BY <1>4, <1>14, <2>1, <2>3 DEF ClickTrigger, Grows
<1>15. CASE DestroyWidget
  BY <1>4, <1>5, <1>15 DEF DestroyWidget
<1>16. QED
  BY <1>3, <1>7, <1>8, <1>9, <1>10, <1>11, <1>12, <1>13, <1>14, <1>15 DEF UserStep

LEMMA HostStepCalls ==
  ASSUME CallInv, HostStep
  PROVE  CallInv' /\ session.watchers \subseteq session'.watchers
<1>1. Alive /\ asked = "none"
  BY DEF HostStep, StopNothing, AskTool, NewCall, RequestParameter, MayRequest, Alive
<1>2. CallGood(session, "none") /\ AnswerOK(answer, session.toolCall) /\ calls \in Nat
  BY <1>1, InvSettled DEF BetweenCalls, CallInv
<1>3. CASE StopNothing
  <2>1. /\ calls < MaxCalls /\ session.toolCall = NoCall
        /\ calls' = calls + 1 /\ answer' = [answer EXCEPT ![calls + 1] = "ok"]
        /\ session' = session /\ asked' = asked
    BY <1>3 DEF StopNothing, NewCall, ExternalBusy
  <2>2. AnswerOK(answer', session'.toolCall)
    BY <1>2, <2>1, AnswerSet
  <2>3. CallGood(session', "none")
    BY <1>2, <2>1
  <2>4. QED
    BY <1>1, <1>2, <2>1, <2>2, <2>3, SettledStep
<1>4. CASE \E t \in Tools : AskTool(t)
  <2> DEFINE k == calls + 1
             s == [session EXCEPT !.toolCall = k]
  <2>1. PICK t \in Tools : AskTool(t)
    BY <1>4
  <2>2. /\ calls < MaxCalls /\ session.toolCall = NoCall
        /\ session.watchers = {} /\ ~session.disconnectPending
        /\ calls' = k /\ answer' = [answer EXCEPT ![k] = "pending"]
        /\ asked' = t /\ t # "none" /\ gui' = gui
        /\ session' = ControlChanged(s)
    BY <2>1, OperationsAssumption DEF AskTool, NewCall, ExternalBusy, ControlBusy, AllTools
  <2>3. /\ s.completion = session.completion /\ s.toolCall = k
        /\ s.watchers = session.watchers /\ s.disconnectPending = session.disconnectPending
        /\ s.refreshFor = session.refreshFor /\ IsSession(s)
    BY <1>2 DEF CallGood, Shape, IsSession, Fields
  <2>4. k \in Nat /\ k # NoCall /\ k \in Calls
    BY <1>2, <2>2, BoundsAssumption DEF NoCall, Calls
  <2>5. AnswerOK(answer', k)
    BY <1>2, <2>2, <2>4, AnswerSet
  <2> HIDE DEF s, k
  <2>6. SameCalls(s, session')
    BY <2>2, <2>3, ShownSameCalls DEF ControlChanged
  <2>7. Unheld(session)
    BY <1>2, <2>2 DEF CallGood, Shape, Held, Unheld
  <2>8. Shape(s) /\ Unheld(s) /\ Linked(s, "none")
    BY <1>2, <2>3, <2>4, <2>7 DEF CallGood, Shape, Single, Unheld, Linked
  <2>9. Shape(session') /\ Linked(session', "none") /\ Unheld(session')
    BY <2>6, <2>8, SameCallsShape DEF SameCalls, SameWork, Linked, Unheld
  <2>10. Shape(session)' /\ Linked(session, "none")' /\ Unheld(session)'
    BY <2>9 DEF Shape, Single, Linked, Unheld
  <2>11. AnswerOK(answer, session.toolCall)'
    BY <2>3, <2>5, <2>6 DEF SameCalls, AnswerOK
  <2>12. session'.toolCall = k /\ session'.watchers = {} /\ ~session'.disconnectPending
    BY <2>2, <2>3, <2>6 DEF SameCalls, SameWork
  <2>13. QED
    BY <1>1, <2>2, <2>4, <2>10, <2>11, <2>12 DEF CallInv, Alive
<1>5. CASE \E kind \in Parameters : RequestParameter(kind)
  <2>1. /\ session' = Shown(session, ~isGrabbing)
        /\ asked' = asked /\ answer' = answer /\ calls' = calls
    BY <1>5 DEF RequestParameter, request
  <2>2. SameCalls(session, session')
    BY <1>2, <2>1, ShownSameCalls DEF CallGood, Shape
  <2>3. CallGood(session', "none")
    BY <1>2, <2>2, SameCallsGood
  <2>4. AnswerOK(answer', session'.toolCall)
    BY <1>2, <2>1, <2>2 DEF SameCalls
  <2>5. QED
    BY <1>1, <1>2, <2>1, <2>2, <2>3, <2>4, SettledStep DEF SameCalls, SameWork
<1>6. QED
  BY <1>3, <1>4, <1>5 DEF HostStep

(* A tool call that was asked for is stored by the operation, or refused. *)
LEMMA AdmissionCalls ==
  ASSUME CallInv, AskedTool, AdmitTool \/ RefuseTool
  PROVE  CallInv' /\ session.watchers \subseteq session'.watchers
<1>1. asked # "none" /\ asked' = "none" /\ Alive /\ calls' = calls /\ calls \in Nat
  BY DEF AdmitTool, RefuseTool, CallInv, request
<1>2. /\ Shape(session) /\ Linked(session, "none") /\ AnswerOK(answer, session.toolCall)
      /\ session.toolCall # NoCall /\ Unheld(session)
      /\ session.watchers = {} /\ ~session.disconnectPending
  BY <1>1 DEF CallInv
<1>3. CASE RefuseTool
  <2> DEFINE s == [session EXCEPT !.toolCall = NoCall]
  <2>1. session' = ControlChanged(s) /\ answer' = [answer EXCEPT ![session.toolCall] = "refused"]
    BY <1>3 DEF RefuseTool
  <2>2. /\ s.completion = session.completion /\ s.toolCall = NoCall
        /\ s.watchers = session.watchers /\ s.disconnectPending = session.disconnectPending
        /\ IsSession(s)
    BY <1>2 DEF Shape, IsSession, Fields
  <2> HIDE DEF s
  <2>3. CallGood(s, "none")
    BY <1>2, <2>2 DEF CallGood, Shape, Single, Linked, Held, Unheld, NoCall, Completions
  <2>4. SameCalls(s, session')
    BY <2>1, <2>2, ShownSameCalls DEF ControlChanged
  <2>5. CallGood(session', "none") /\ session'.toolCall = NoCall
    BY <2>2, <2>3, <2>4, SameCallsGood DEF SameCalls
  <2>6. AnswerOK(answer', NoCall)
    BY <1>2, <2>1, AnswerSet
  <2>7. QED
    BY <1>1, <1>2, <2>5, <2>6, SettledStep
<1>4. CASE AdmitTool
  <2> DEFINE call == session.toolCall
             t == ToolStarted(asked, session, call)
  <2>1. session' = t /\ answer' = answer /\ ToolAdmitted(asked, session)
    BY <1>4 DEF AdmitTool
  <2>2. Ready(session, call)
    BY <1>2 DEF Ready
  <2>3. asked \in AllTools
    BY <1>1 DEF AskedTool
  <2>4. CallGood(t, "none") /\ Grows(session, t)
    <3>1. CASE asked = "discover"
      BY <2>2, <3>1, OperationCalls DEF ToolStarted
    <3>2. CASE asked = "connect"
      <4> DEFINE s == [session EXCEPT !.ui = SetConnectionPending(@, TRUE)]
      <4>1. SameCalls(session, s)
        BY <1>2, FieldSame DEF Shape
      <4>2. t = Connect(s, call)
        BY <3>2 DEF ToolStarted
      <4> HIDE DEF s
      <4>3. Ready(s, call) /\ s.toolCall = session.toolCall
        BY <1>2, <2>2, <4>1, SameCallsShape
           DEF Ready, SameCalls, SameWork, Linked, Unheld
      <4>4. QED
        BY <1>2, <4>2, <4>3, OperationCalls DEF Grows
    <3>3. CASE asked = "disconnect"
      BY <2>1, <2>2, <3>3, OperationCalls DEF ToolStarted, ToolAdmitted, DisconnectAdmitted
    <3>4. CASE asked \in {"single", "live-start"}
      <4>1. ArmAdmitted(session)
        BY <2>1, <3>4 DEF ToolAdmitted
      <4>2. t = Arm(session, asked = "live-start", call)
        BY <3>4 DEF ToolStarted
      <4> HIDE DEF t
      <4>3. QED
        BY <2>2, <4>1, <4>2, OperationCalls
    <3>5. CASE asked = "live-stop"
      <4> DEFINE s == [session EXCEPT !.completion["acquisitionEnd"] = call]
      <4>1. t = StopShown(s)
        BY <3>5 DEF ToolStarted
      <4>2. /\ s.completion = [session.completion EXCEPT !["acquisitionEnd"] = call]
            /\ s.toolCall = session.toolCall /\ s.watchers = session.watchers
            /\ IsSession(s)
        BY <1>2 DEF Shape, IsSession, Fields
      <4>3. "acquisitionEnd" \in Completions
        BY DEF Completions
      <4> HIDE DEF s, call
      <4>4. Shape(s) /\ Held(s) /\ \A d \in Completions : d # "acquisitionEnd" =>
                                       s.completion[d] = session.completion[d]
        BY <1>2, <2>2, <4>2, <4>3, StoredGood DEF Unheld
      <4>5. Linked(s, "none")
        BY <1>2, <4>2, <4>4 DEF Linked, Unheld, Completions
      <4>6. CallGood(s, "none") /\ Grows(session, s)
        BY <4>2, <4>4, <4>5 DEF CallGood, Grows
      <4>7. QED
        BY <4>1, <4>6, ShowGood DEF StopShown, Grows
    <3>6. QED
      BY <2>3, <3>1, <3>2, <3>3, <3>4, <3>5 DEF AllTools
  <2> HIDE DEF t
  <2>5. AnswerOK(answer', session'.toolCall)
    BY <1>2, <2>1, <2>4 DEF Grows
  <2>6. QED
    BY <1>1, <2>1, <2>4, <2>5, SettledStep DEF Grows
<1>5. QED
  BY <1>3, <1>4

------------------------------------------------------------------------------
(* A watcher that ended is dropped; the completion x is called next. *)
LEMMA DroppedCalls ==
  ASSUME NEW s, CallGood(s, "none"), NEW w, NEW x, NEW t, IsSession(t),
         t.completion = s.completion, t.toolCall = s.toolCall,
         t.watchers = s.watchers \ {w},
         t.disconnectPending = s.disconnectPending \/ w = "disconnection",
         t.refreshFor = s.refreshFor \/ w = "featureRead",
         w = "discovery" => x = "discovery",
         w = "connection" => x = "connect",
         w = "disconnection" => x = "disconnect",
         w = "arm" => x = "arm",
         w = "featureRead" /\ s.refreshFor = "connect" => x = "connect"
  PROVE  CallGood(t, x)
<1>1. Shape(t) /\ Held(t)
  BY DEF CallGood, Shape, Single, Held
<1>2. Linked(t, x)
  <2>1. x # "discovery" /\ t.completion["discovery"] # NoCall => "discovery" \in t.watchers
    BY DEF CallGood, Linked
  <2>2. x # "connect" /\ t.completion["connect"] # NoCall =>
          \/ "connection" \in t.watchers
          \/ "featureRead" \in t.watchers /\ t.refreshFor = "connect"
    BY DEF CallGood, Linked
  <2>3. x # "disconnect" /\ t.completion["disconnect"] # NoCall =>
          t.disconnectPending \/ "disconnection" \in t.watchers
    BY DEF CallGood, Linked
  <2>4. x # "arm" /\ t.completion["arm"] # NoCall => "arm" \in t.watchers
    BY DEF CallGood, Linked
  <2>5. "arm" \in t.watchers => t.completion["acquisitionEnd"] = NoCall
    BY DEF CallGood, Linked
  <2>6. QED
    BY <2>1, <2>2, <2>3, <2>4, <2>5 DEF Linked
<1>3. QED
  BY <1>1, <1>2 DEF CallGood

(* The handlers that call the completion of the watcher that ended. *)
LEMMA EndedCalls ==
  ASSUME NEW s, NEW c \in Completions, CallGood(s, c), AnswerOK(answer, s.toolCall), NEW ok,
         NEW u, u.completion = s.completion
  PROVE  /\ CallGood(Completed(s, c), "none")
         /\ Completed(s, c).watchers = s.watchers
         /\ AnswerOK(Answered(u, c, ok), Completed(s, c).toolCall)
<1> DEFINE t == Completed(s, c)
<1>1. /\ CallGood(t, "none") /\ t.watchers = s.watchers
      /\ t.toolCall = IF s.completion[c] = NoCall THEN s.toolCall ELSE NoCall
  BY CompletedGood
<1>2. AnswerOK(Answered(u, c, ok), IF s.completion[c] = NoCall THEN s.toolCall ELSE NoCall)
  BY AnsweredOK
<1> HIDE DEF t
<1>3. AnswerOK(Answered(u, c, ok), t.toolCall)
  BY <1>1, <1>2
<1>4. QED
  BY <1>1, <1>3 DEF t

Ends == FinishDiscovery \/ FinishConnection \/ FinishDisconnection \/ FinishInitialization
          \/ FinishFeature \/ FinishFeatureRead \/ FinishArm

LEMMA FinishCalls ==
  ASSUME CallInv, TaskInv, Ends
  PROVE  CallInv' /\ \E w \in Watchers : Finish(w) /\ session.watchers \ {w} \subseteq session'.watchers
<1>1. GuiFree
  BY DEF Ends, FinishDiscovery, FinishConnection, FinishDisconnection, FinishInitialization,
     FinishFeature, FinishFeatureRead, FinishArm, Finish, Handle
<1>2. CallGood(session, "none") /\ AnswerOK(answer, session.toolCall)
  BY <1>1, InvSettled DEF GuiFree, Alive, BetweenCalls
<1>3. ASSUME NEW w \in Watchers, Finish(w), CallGood(session', "none"),
             AnswerOK(answer', session'.toolCall), session.watchers \ {w} \subseteq session'.watchers
      PROVE  CallInv' /\ \E v \in Watchers : Finish(v) /\ session.watchers \ {v} \subseteq session'.watchers
  <2>1. asked' = "none" /\ calls' = calls
    BY <1>1, <1>3 DEF Finish, Handle, GuiFree, request
  <2>2. QED
    BY <1>3, <2>1, SettledStep DEF CallInv
<1>4. IsSession(session)
  BY <1>2 DEF CallGood, Shape
<1>5. CASE FinishDiscovery
  <2>1. PICK found \in BOOLEAN :
          session' = Completed(
            [Dropped(session, "discovery") EXCEPT
               !.ui = IF succeeded["discovery"]
                        THEN SetDiscoveredDevices(SetDiscoveryPending(@, FALSE), found)
                        ELSE SetDiscoveryPending(@, FALSE)], "discovery")
    BY <1>5 DEF FinishDiscovery
  <2> DEFINE v == IF succeeded["discovery"]
                    THEN SetDiscoveredDevices(SetDiscoveryPending(Dropped(session, "discovery").ui, FALSE), found)
                    ELSE SetDiscoveryPending(Dropped(session, "discovery").ui, FALSE)
             s == [Dropped(session, "discovery") EXCEPT !.ui = v]
  <2>2. session' = Completed(s, "discovery")
    BY <2>1
  <2> HIDE DEF v
  <2>3. /\ s.completion = session.completion /\ s.toolCall = session.toolCall
        /\ s.watchers = session.watchers \ {"discovery"} /\ IsSession(s)
        /\ s.disconnectPending = session.disconnectPending /\ s.refreshFor = session.refreshFor
    BY <1>4 DEF Dropped, IsSession, Fields
  <2>4. answer' = Answered(session, "discovery", succeeded["discovery"]) /\ Finish("discovery")
    BY <1>5 DEF FinishDiscovery
  <2> HIDE DEF s
  <2>5. CallGood(s, "discovery")
    BY <1>2, <2>3, DroppedCalls
  <2>6. "discovery" \in Completions /\ "discovery" \in Watchers
    BY DEF Completions, Watchers
  <2>7. /\ CallGood(session', "none") /\ session'.watchers = s.watchers
        /\ AnswerOK(answer', session'.toolCall)
    BY <1>2, <2>2, <2>3, <2>4, <2>5, <2>6, EndedCalls
  <2>8. QED
    BY <1>3, <2>3, <2>4, <2>6, <2>7
<1>6. CASE FinishConnection
  <2> DEFINE t == Dropped(session, "connection")
             s == [t EXCEPT !.ui = SetConnectionPending(@, FALSE)]
             opened == [s EXCEPT !.ui = SetAcquisitionAvailable(SetConnectionState(@, TRUE), TRUE)]
             failed1 == [s EXCEPT !.ui = SetConnectionError(@)]
             Kept(u) == /\ u.completion = session.completion /\ u.toolCall = session.toolCall
                        /\ u.watchers = session.watchers \ {"connection"} /\ IsSession(u)
                        /\ u.disconnectPending = session.disconnectPending
                        /\ u.refreshFor = session.refreshFor
  <2>1. Finish("connection") /\ "connection" \in Watchers /\ "connect" \in Completions
    BY <1>6 DEF FinishConnection, Watchers, Completions
  <2>2. IF succeeded["connection"]
          THEN /\ session' = RefreshFeatureTree(opened, "connect")
               /\ answer' = AnsweredByRefresh(opened, "connect")
          ELSE /\ session' = Completed(failed1, "connect")
               /\ answer' = Answered(failed1, "connect", FALSE)
    BY <1>6 DEF FinishConnection
  <2>3. Kept(s)
    BY <1>4 DEF Dropped, IsSession, Fields
  <2> HIDE DEF s
  <2>4. Kept(opened) /\ Kept(failed1)
    BY <2>3 DEF IsSession, Fields
  <2> HIDE DEF opened, failed1
  <2>5. CallGood(opened, "connect") /\ CallGood(failed1, "connect")
    BY <1>2, <2>4, DroppedCalls
  <2>6. CASE succeeded["connection"]
    <3>1. /\ CallGood(RefreshFeatureTree(opened, "connect"), "none")
          /\ opened.watchers \subseteq RefreshFeatureTree(opened, "connect").watchers
          /\ AnswerOK(AnsweredByRefresh(opened, "connect"), RefreshFeatureTree(opened, "connect").toolCall)
      BY <1>2, <2>4, <2>5, ConnectRefreshCalls
    <3>2. session' = RefreshFeatureTree(opened, "connect") /\ answer' = AnsweredByRefresh(opened, "connect")
      BY <2>2, <2>6
    <3>3. QED
      BY <1>3, <2>1, <2>4, <3>1, <3>2
  <2>7. CASE ~succeeded["connection"]
    <3>1. session' = Completed(failed1, "connect") /\ answer' = Answered(failed1, "connect", FALSE)
      BY <2>2, <2>7
    <3>2. /\ CallGood(session', "none") /\ session'.watchers = failed1.watchers
          /\ AnswerOK(answer', session'.toolCall)
      BY <1>2, <2>1, <2>4, <2>5, <3>1, EndedCalls
    <3>3. QED
      BY <1>3, <2>1, <2>4, <3>2
  <2>8. QED
    BY <2>6, <2>7
<1>7. CASE FinishDisconnection
  <2> DEFINE t == Dropped(session, "disconnection")
             s == [t EXCEPT !.disconnectPending = FALSE,
                            !.ui = SetConnectionState(SetFeatures(@, FALSE), FALSE)]
  <2>1. Finish("disconnection") /\ "disconnection" \in Watchers /\ "disconnect" \in Completions
    BY <1>7 DEF FinishDisconnection, Watchers, Completions
  <2>2. session' = Completed(s, "disconnect") /\ answer' = Answered(session, "disconnect", TRUE)
    BY <1>7 DEF FinishDisconnection
  <2>3. /\ s.completion = session.completion /\ s.toolCall = session.toolCall
        /\ s.watchers = session.watchers \ {"disconnection"} /\ IsSession(s)
        /\ s.refreshFor = session.refreshFor
    BY <1>4 DEF Dropped, IsSession, Fields
  <2> HIDE DEF s
  <2>4. CallGood(s, "disconnect")
    BY <1>2, <2>3, DroppedCalls
  <2>5. /\ CallGood(session', "none") /\ session'.watchers = s.watchers
        /\ AnswerOK(answer', session'.toolCall)
    BY <1>2, <2>1, <2>2, <2>3, <2>4, EndedCalls
  <2>6. QED
    BY <1>3, <2>1, <2>3, <2>5
<1>8. ASSUME NEW w \in {"initialization", "feature"}
      PROVE  /\ CallGood(Dropped(session, w), "none")
             /\ Dropped(session, w).watchers = session.watchers \ {w}
             /\ Dropped(session, w).toolCall = session.toolCall
             /\ w \in Watchers
  <2> DEFINE s == Dropped(session, w)
  <2>1. /\ s.completion = session.completion /\ s.toolCall = session.toolCall
        /\ s.watchers = session.watchers \ {w} /\ IsSession(s)
        /\ s.disconnectPending = session.disconnectPending /\ s.refreshFor = session.refreshFor
    BY <1>4 DEF Dropped, IsSession, Fields
  <2> HIDE DEF s
  <2>2. CallGood(s, "none")
    BY <1>2, <2>1, DroppedCalls
  <2>3. QED
    BY <2>1, <2>2 DEF s, Watchers
<1>9. CASE FinishInitialization
  <2> DEFINE s == Dropped(session, "initialization")
             for == IF succeeded["initialization"] THEN "initialized" ELSE "profile failed"
  <2>1. session' = RefreshFeatureTree(s, for) /\ answer' = answer /\ Finish("initialization")
    BY <1>9 DEF FinishInitialization
  <2>2. CallGood(s, "none") /\ s.watchers = session.watchers \ {"initialization"}
          /\ s.toolCall = session.toolCall /\ "initialization" \in Watchers
    BY <1>8
  <2>3. for \in Refreshes \ {"connect"}
    BY DEF Refreshes
  <2> HIDE DEF s, for
  <2>4. CallGood(session', "none") /\ Grows(s, session')
    BY <2>1, <2>2, <2>3, RefreshCalls
  <2>5. AnswerOK(answer', session'.toolCall) /\ session.watchers \ {"initialization"} \subseteq session'.watchers
    BY <1>2, <2>1, <2>2, <2>4 DEF Grows
  <2>6. QED
    BY <1>3, <2>1, <2>2, <2>4, <2>5
<1>10. CASE FinishFeature
  <2> DEFINE s == Dropped(session, "feature")
             freed == [s EXCEPT !.ui = SetFeatureOperationPending(@, FALSE)]
             retry == [freed EXCEPT !.ui = SetSoftwareTriggerPending(@, FALSE)]
  <2>1. answer' = answer /\ Finish("feature")
    BY <1>10 DEF FinishFeature
  <2>2. CallGood(s, "none") /\ s.watchers = session.watchers \ {"feature"}
          /\ s.toolCall = session.toolCall /\ "feature" \in Watchers
    BY <1>8
  <2>3. session' =
          CASE succeeded["feature"] /\ s.featureOperation = "write" -> RefreshFeatureTree(s, "feature")
            [] succeeded["feature"] /\ s.featureOperation = "trigger" -> freed
            [] ~succeeded["feature"] /\ s.featureOperation = "write" -> freed
            [] ~succeeded["feature"] /\ s.featureOperation = "trigger" -> retry
    BY <1>10 DEF FinishFeature
  <2> HIDE DEF s
  <2>4. s.featureOperation \in {"write", "trigger"}
    BY <2>2 DEF CallGood, Shape, IsSession
  <2>5. CallGood(RefreshFeatureTree(s, "feature"), "none") /\ Grows(s, RefreshFeatureTree(s, "feature"))
    BY <2>2, RefreshCalls DEF Refreshes
  <2>6. CallGood(freed, "none") /\ Grows(s, freed)
    BY <2>2, ShowGood
  <2> HIDE DEF freed
  <2>7. CallGood(retry, "none") /\ Grows(s, retry)
    BY <2>6, ShowGood DEF Grows
  <2> HIDE DEF retry
  <2>8. CallGood(session', "none") /\ Grows(s, session')
    BY <2>3, <2>4, <2>5, <2>6, <2>7
  <2>9. AnswerOK(answer', session'.toolCall) /\ session.watchers \ {"feature"} \subseteq session'.watchers
    BY <1>2, <2>1, <2>2, <2>8 DEF Grows
  <2>10. QED
    BY <1>3, <2>1, <2>2, <2>8, <2>9
<1>11. CASE FinishFeatureRead
  <2> DEFINE t == Dropped(session, "featureRead")
             s == [t EXCEPT !.refreshFor = "nothing",
                            !.ui = IF succeeded["featureRead"]
                                     THEN SetFeatures(SetFeatureRefreshPending(@, FALSE), TRUE)
                                     ELSE SetFeatureRefreshPending(@, FALSE)]
             for == session.refreshFor
  <2>1. /\ Finish("featureRead") /\ session' = AfterRefresh(s, for)
        /\ answer' = IF for = "connect" THEN Answered(s, "connect", TRUE) ELSE answer
    BY <1>11 DEF FinishFeatureRead
  <2>2. /\ s.completion = session.completion /\ s.toolCall = session.toolCall
        /\ s.watchers = session.watchers \ {"featureRead"} /\ IsSession(s)
        /\ s.disconnectPending = session.disconnectPending
    BY <1>4 DEF Dropped, IsSession, Fields, Refreshes
  <2> HIDE DEF s
  <2>3. for \in Refreshes /\ "featureRead" \in Watchers /\ "connect" \in Completions
    BY <1>4 DEF IsSession, Watchers, Completions
  <2>4. CASE for = "connect"
    <3> DEFINE u == [s EXCEPT !.ui = SetAcquisitionAvailable(@, TRUE)]
    <3>1. CallGood(s, "connect")
      BY <1>2, <2>2, <2>4, DroppedCalls
    <3>2. session' = Completed(u, "connect") /\ answer' = Answered(s, "connect", TRUE)
      BY <2>1, <2>4 DEF AfterRefresh
    <3>3. SameCalls(s, u)
      BY <2>2, FieldSame
    <3> HIDE DEF u, for
    <3>4. CallGood(u, "connect") /\ u.toolCall = s.toolCall /\ u.watchers = s.watchers
            /\ u.completion = s.completion
      BY <3>1, <3>3, SameCallsGood DEF SameCalls, SameWork
    <3>5. /\ CallGood(session', "none") /\ session'.watchers = u.watchers
          /\ AnswerOK(answer', session'.toolCall)
      BY <1>2, <2>2, <2>3, <3>2, <3>4, EndedCalls
    <3>6. QED
      BY <1>3, <2>1, <2>2, <2>3, <3>4, <3>5
  <2>5. CASE for # "connect"
    <3>1. CallGood(s, "none")
      BY <1>2, <2>2, <2>5, DroppedCalls
    <3>2. CallGood(AfterRefresh(s, for), "none") /\ Grows(s, AfterRefresh(s, for))
      BY <2>3, <2>5, <3>1, AfterRefreshCalls
    <3>3. AnswerOK(answer', session'.toolCall) /\ session.watchers \ {"featureRead"} \subseteq session'.watchers
      BY <1>2, <2>1, <2>2, <2>5, <3>2 DEF Grows
    <3>4. QED
      BY <1>3, <2>1, <2>3, <3>2, <3>3
  <2>6. QED
    BY <2>4, <2>5
(* An arm ends while it is the only one to hold the call of a Single, and hands *)
(* it to the end of the acquisition, which no completion waits for meanwhile.   *)
<1>12. CASE FinishArm
  <2> DEFINE t == Dropped(session, "arm")
             s == [t EXCEPT !.ui = ArmEnded(@)]
             u == [s EXCEPT !.completion["acquisitionEnd"] = s.completion["arm"],
                            !.completion["arm"] = NoCall]
  <2>1. /\ Finish("arm")
        /\ \/ session' = Completed(s, "arm") /\ answer' = Answered(s, "arm", succeeded["arm"])
           \/ session' = u /\ answer' = answer
    BY <1>12 DEF FinishArm
  <2>2. /\ s.completion = session.completion /\ s.toolCall = session.toolCall
        /\ s.watchers = session.watchers \ {"arm"} /\ IsSession(s)
        /\ s.disconnectPending = session.disconnectPending /\ s.refreshFor = session.refreshFor
    BY <1>4 DEF Dropped, IsSession, Fields
  <2> HIDE DEF s
  <2>3. "arm" \in Watchers /\ "arm" \in Completions /\ "acquisitionEnd" \in Completions
    BY DEF Watchers, Completions
  <2>4. CallGood(s, "arm")
    BY <1>2, <2>2, DroppedCalls
  <2>5. CASE session' = Completed(s, "arm") /\ answer' = Answered(s, "arm", succeeded["arm"])
    <3>1. /\ CallGood(session', "none") /\ session'.watchers = s.watchers
          /\ AnswerOK(answer', session'.toolCall)
      BY <1>2, <2>2, <2>3, <2>4, <2>5, EndedCalls
    <3>2. QED
      BY <1>3, <2>1, <2>2, <2>3, <3>1
  <2>6. CASE session' = u /\ answer' = answer
    <3>1. session.completion["acquisitionEnd"] = NoCall
      <4>1. "arm" \in session.watchers
        BY <2>1 DEF TaskInv, QueueOK, Finish, Handle
      <4>2. QED
        BY <1>2, <4>1 DEF CallGood, Linked
    <3>2. /\ u.completion = [s.completion EXCEPT !["acquisitionEnd"] = s.completion["arm"],
                                                  !["arm"] = NoCall]
          /\ u.toolCall = s.toolCall /\ u.watchers = s.watchers /\ IsSession(u)
          /\ u.disconnectPending = s.disconnectPending /\ u.refreshFor = s.refreshFor
      BY <2>2 DEF IsSession, Fields
    <3> HIDE DEF u
    <3>3. s.completion \in [Completions -> Nat] /\ s.toolCall \in Nat /\ Single(s) /\ Held(s)
      BY <2>4 DEF CallGood, Shape
    <3>4. u.completion["arm"] = NoCall /\ u.completion["acquisitionEnd"] = s.completion["arm"]
            /\ \A c \in Completions \ {"arm", "acquisitionEnd"} : u.completion[c] = s.completion[c]
            /\ u.completion \in [Completions -> Nat]
      BY <2>3, <3>2, <3>3 DEF NoCall
    <3>5. Shape(u)
      BY <2>2, <2>3, <3>1, <3>2, <3>3, <3>4 DEF Shape, Single
    <3>6. Held(u)
      BY <2>2, <2>3, <3>1, <3>2, <3>3, <3>4 DEF Held
    <3>7. Linked(u, "none")
      BY <2>2, <2>4, <3>2, <3>4 DEF CallGood, Linked, Completions
    <3>8. AnswerOK(answer', u.toolCall)
      BY <1>2, <2>2, <2>6, <3>2
    <3>9. QED
      BY <1>3, <2>1, <2>2, <2>3, <2>6, <3>2, <3>5, <3>6, <3>7, <3>8 DEF CallGood
  <2>7. QED
    BY <2>1, <2>5, <2>6
<1>13. QED
  BY <1>5, <1>6, <1>7, <1>9, <1>10, <1>11, <1>12 DEF Ends

Handles == HandleRefresh \/ HandleControl \/ HandleApplied \/ HandleFrame
             \/ HandleStale \/ HandleActive \/ HandleInactive \/ HandleStartFailed
             \/ HandleEnd \/ HandleRest

LEMMA HandlerCalls ==
  ASSUME CallInv, Handles
  PROVE  CallInv' /\ session.watchers \subseteq session'.watchers
<1>1. Alive /\ asked = "none" /\ asked' = asked /\ calls' = calls
  BY DEF Handles, HandleRefresh, HandleControl, HandleApplied, HandleFrame, HandleStale,
     HandleActive, HandleInactive, HandleStartFailed, HandleEnd, HandleRest, Handle, GuiFree,
     Alive, request
<1>2. CallGood(session, "none") /\ AnswerOK(answer, session.toolCall) /\ calls \in Nat
  BY <1>1, InvSettled DEF BetweenCalls, CallInv
<1>3. ASSUME CallGood(session', "none"), Grows(session, session'), answer' = answer
      PROVE  CallInv' /\ session.watchers \subseteq session'.watchers
  <2>1. AnswerOK(answer', session'.toolCall)
    BY <1>2, <1>3 DEF Grows
  <2>2. QED
    BY <1>1, <1>2, <1>3, <2>1, SettledStep DEF Grows
<1>4. ASSUME NEW t, SameCalls(session, t) PROVE CallGood(t, "none") /\ Grows(session, t)
  BY <1>2, <1>4, SameCallsGood DEF SameCalls, SameWork, Grows
<1>5. SameCalls(session, session)
  BY <1>2 DEF CallGood, Shape, SameCalls, SameWork
<1>6. CASE HandleRefresh
  BY <1>2, <1>3, <1>4, <1>5, <1>6, ClickCalls DEF HandleRefresh, Keep
<1>7. CASE HandleControl
  <2>1. SameCalls(session, session') /\ answer' = answer
    BY <1>2, <1>7, ShownSameCalls DEF HandleControl, Keep, ControlChanged, CallGood, Shape
  <2>2. QED
    BY <1>3, <1>4, <2>1
<1>8. CASE HandleApplied
  BY <1>2, <1>3, <1>8, RefreshCalls DEF HandleApplied, Keep, Refreshes
<1>9. CASE HandleFrame
  BY <1>2, <1>3, <1>9, ShowGood DEF HandleFrame, Keep
<1>10. CASE HandleStale
  BY <1>3, <1>4, <1>5, <1>10 DEF HandleStale, Keep
<1>11. CASE HandleActive
  BY <1>2, <1>3, <1>11, ShowGood DEF HandleActive, Keep
<1>12. CASE HandleInactive
  BY <1>2, <1>3, <1>12, InactiveShownCalls DEF HandleInactive, Keep
<1>13. CASE HandleStartFailed
  BY <1>2, <1>3, <1>13, InactiveShownCalls DEF HandleStartFailed, Keep
<1>14. CASE HandleEnd
  <2>1. /\ session' = Completed(session, "acquisitionEnd")
        /\ answer' = Answered(session, "acquisitionEnd", TRUE)
        /\ "acquisitionEnd" \in Completions
    BY <1>14 DEF HandleEnd, Completions
  <2>2. CallGood(session, "acquisitionEnd")
    BY <1>2, GoodForAny
  <2>3. /\ CallGood(session', "none") /\ session'.watchers = session.watchers
        /\ AnswerOK(answer', session'.toolCall)
    BY <1>2, <2>1, <2>2, EndedCalls
  <2>4. QED
    BY <1>1, <1>2, <2>3, SettledStep
<1>15. CASE HandleRest
  BY <1>2, <1>3, <1>15, InactiveShownCalls DEF HandleRest
<1>16. QED
  BY <1>6, <1>7, <1>8, <1>9, <1>10, <1>11, <1>12, <1>13, <1>14, <1>15 DEF Handles

(* Every other step leaves the session and its answers alone. *)
LEMMA OtherCalls ==
  ASSUME CallInv,
         \/ AwaitWatchers \/ AwaitParameters \/ JoinForDestruction
         \/ CloseForDestruction \/ ReleaseForDestruction
         \/ PoolStep \/ ParameterWork \/ WorkerStep \/ SensorStep \/ Destroyed
         \/ UNCHANGED vars
  PROVE  CallInv' /\ session' = session
<1>1. ASSUME UNCHANGED guiThread PROVE CallInv' /\ session' = session
  BY <1>1 DEF guiThread, request, CallInv, Alive, Shape, Single, Linked, Held, Unheld, AnswerOK
<1>2. CASE \/ AwaitWatchers \/ AwaitParameters \/ JoinForDestruction
           \/ CloseForDestruction \/ ReleaseForDestruction
  <2>1. /\ session' = session /\ asked' = asked /\ calls' = calls
        /\ gui \notin {"idle", "rest"} /\ gui' \notin {"idle", "rest"}
    BY <1>2 DEF AwaitWatchers, AwaitParameters, JoinForDestruction, CloseForDestruction,
       ReleaseForDestruction, Destructor, request
  <2>2. QED
    BY <2>1 DEF CallInv, Alive, Shape, Single
<1>3. CASE ParameterWork
  <2>1. ASSUME NEW p, NEW from, NEW to, ParameterStep(p, from, to) PROVE UNCHANGED guiThread
    BY <2>1 DEF ParameterStep
  <2>2. QED
    BY <1>1, <1>3, <2>1 DEF ParameterWork, RunParameter, ReportParameter, ReportApplied,
       ReturnParameter
<1>4. CASE WorkerStep \/ SensorStep
  BY <1>1, <1>4 DEF WorkerStep, SensorStep, ReceiveFrame, LeavePolling, FailPolling,
     StopStreaming, Disarm, ReportIdle, ReportInactive, WorkerAt
<1>5. CASE PoolStep
  <2>1. ASSUME NEW w, NEW phase, ToPhase(w, phase) PROVE UNCHANGED guiThread
    BY <2>1 DEF ToPhase
  <2>2. ASSUME NEW w, NEW ok, NEW posts, Returns(w, ok, posts) PROVE UNCHANGED guiThread
    BY <2>2 DEF Returns
  <2>3. UNCHANGED guiThread
    BY <1>5, <2>1, <2>2 DEF PoolStep, RunDiscovery, OpenDevice, ReportConnection,
       StopForDisconnect, JoinForDisconnect, CloseDevice, ReleaseDevice, BeginProfile,
       EndProfile, RunFeature, ReadFeatures, StartArm, BeginArming, SetUpArming,
       CompleteArming, FailArming, ReportGrabbing, ReportActive, ReturnArmed
  <2>4. QED
    BY <1>1, <2>3
<1>6. CASE Destroyed \/ UNCHANGED vars
  BY <1>1, <1>6 DEF Destroyed, vars
<1>7. QED
  BY <1>2, <1>3, <1>4, <1>5, <1>6

------------------------------------------------------------------------------
(* The events that are queued. *)

Plain(e) == e.kind # "finished"

LEMMA QueueTask ==
  ASSUME NEW q, NEW t, t = [w \in Watchers |-> t[w]], QueueOK(q, t),
         NEW w \in Watchers, t[w] # "done", NEW phase
  PROVE  QueueOK(q, [t EXCEPT ![w] = phase])
BY DEF QueueOK

LEMMA QueueAppend ==
  ASSUME NEW q, NEW t, QueueOK(q, t), NEW e,
         \/ Plain(e)
         \/ /\ e.kind = "finished" /\ e.task \in Watchers /\ t[e.task] = "done"
            /\ \A i \in 1..Len(q) : Plain(q[i]) \/ q[i].task # e.task
  PROVE  QueueOK(Append(q, e), t)
<1>1. PICK S : q \in Seq(S)
  BY DEF QueueOK
<1> DEFINE T == S \cup {e}
           r == Append(q, e)
<1>2. q \in Seq(T) /\ e \in T
  BY <1>1
<1> HIDE DEF T
<1>3. r \in Seq(T) /\ Len(r) = Len(q) + 1 /\ r[Len(r)] = e
        /\ \A i \in 1..Len(q) : r[i] = q[i]
  BY <1>2
<1>4. \A i \in 1..Len(q) + 1 : i \in 1..Len(q) \/ i = Len(q) + 1
  BY <1>1
<1> HIDE DEF r
<1>5. \A i \in 1..Len(r) : (r[i] = e /\ i = Len(r)) \/ (i \in 1..Len(q) /\ r[i] = q[i])
  BY <1>3, <1>4
<1>6. QED
  BY <1>3, <1>5 DEF QueueOK, Plain, r

LEMMA QueueTail ==
  ASSUME NEW q, NEW t, QueueOK(q, t), q # <<>>
  PROVE  /\ QueueOK(Tail(q), t)
         /\ Head(q).kind = "finished" =>
              /\ Head(q).task \in Watchers /\ t[Head(q).task] = "done"
              /\ \A i \in 1..Len(Tail(q)) : Plain(Tail(q)[i]) \/ Tail(q)[i].task # Head(q).task
<1>1. PICK S : q \in Seq(S)
  BY DEF QueueOK
<1> DEFINE r == Tail(q)
<1>2. r \in Seq(S) /\ Len(r) = Len(q) - 1 /\ Len(q) \in Nat /\ Len(q) > 0
        /\ Head(q) = q[1] /\ \A i \in 1..Len(r) : r[i] = q[i + 1]
  BY <1>1
<1> HIDE DEF r
<1>3. \A i \in 1..Len(r) : i + 1 \in 1..Len(q) /\ i + 1 # 1
  BY <1>2
<1>4. QueueOK(r, t)
  <2>1. ASSUME NEW i \in 1..Len(r), NEW j \in 1..Len(r), r[i].kind = "finished",
               r[j].kind = "finished", r[i].task = r[j].task
        PROVE  i = j
    <3>1. i + 1 = j + 1
      BY <1>2, <1>3, <2>1 DEF QueueOK
    <3>2. QED
      BY <1>2, <3>1
  <2>2. QED
    BY <1>2, <1>3, <2>1 DEF QueueOK
<1>5. 1 \in 1..Len(q)
  BY <1>2
<1>6. QED
  BY <1>2, <1>3, <1>4, <1>5 DEF QueueOK, Plain, r

(* The event of a task that just finished; it posted at most one event before. *)
LEMMA QueueReturns ==
  ASSUME NEW q, NEW t, t = [w \in Watchers |-> t[w]], QueueOK(q, t), NEW w \in Watchers, t[w] # "done",
         NEW posts, posts = <<>> \/ \E e : posts = <<e>> /\ Plain(e)
  PROVE  QueueOK(q \o Append(posts, Finished(w)), [t EXCEPT ![w] = "done"])
<1> DEFINE u == [t EXCEPT ![w] = "done"]
           f == Finished(w)
<1>1. QueueOK(q, u) /\ u[w] = "done"
  BY QueueTask
<1>2. \A i \in 1..Len(q) : Plain(q[i]) \/ q[i].task # w
  BY DEF QueueOK, Plain
<1>3. f.kind = "finished" /\ f.task = w
  BY DEF Finished
<1> HIDE DEF u, f
<1>4. PICK S : q \in Seq(S)
  BY DEF QueueOK
<1>5. CASE posts = <<>>
  <2>1. q \o Append(posts, f) = Append(q, f)
    BY <1>4, <1>5
  <2>2. QED
    BY <1>1, <1>2, <1>3, <2>1, QueueAppend DEF u, f
<1>6. CASE \E e : posts = <<e>> /\ Plain(e)
  <2>1. PICK e : posts = <<e>> /\ Plain(e)
    BY <1>6
  <2> DEFINE r == Append(q, e)
  <2>2. QueueOK(r, u)
    BY <1>1, <2>1, QueueAppend
  <2>3. \A i \in 1..Len(r) : Plain(r[i]) \/ r[i].task # w
    <3>1. Len(r) = Len(q) + 1 /\ Len(q) \in Nat /\ r[Len(q) + 1] = e
            /\ \A i \in 1..Len(q) : r[i] = q[i]
      BY <1>4
    <3> HIDE DEF r
    <3>2. \A i \in 1..Len(r) : i \in 1..Len(q) \/ i = Len(q) + 1
      BY <3>1
    <3>3. QED
      BY <1>2, <2>1, <3>1, <3>2
  <2>4. q \o Append(posts, f) = Append(r, f)
    BY <1>4, <2>1
  <2> HIDE DEF r
  <2>5. QED
    BY <1>1, <1>3, <2>2, <2>3, <2>4, QueueAppend DEF u, f
<1>7. QED
  BY <1>5, <1>6

LEMMA QueueEmpty ==
  ASSUME NEW t
  PROVE  QueueOK(<<>>, t)
<1>1. Len(<<>>) = 0 /\ <<>> \in Seq({})
  OBVIOUS
<1>2. QED
  BY <1>1 DEF QueueOK

LEMMA PostedOK ==
  ASSUME NEW t, QueueOK(queue, t), NEW e, Plain(e)
  PROVE  QueueOK(Posted(<<e>>), t)
<1>1. queue \o <<e>> = Append(queue, e)
  BY DEF QueueOK
<1>2. QueueOK(Append(queue, e), t)
  BY QueueAppend
<1>3. QED
  BY <1>1, <1>2, QueueEmpty DEF Posted

LEMMA TaskKept ==
  ASSUME TaskInv, task' = task, QueueOK(queue', task), session.watchers \subseteq session'.watchers
  PROVE  TaskInv'
<1>1. QueueOK(queue, task)'
  BY DEF QueueOK
<1>2. QED
  BY <1>1 DEF TaskInv

LEMMA TaskRuns ==
  ASSUME TaskInv, session' = session, NEW w \in Watchers, w \in session.watchers,
         NEW phase, task' = [task EXCEPT ![w] = phase], QueueOK(queue', task')
  PROVE  TaskInv'
<1>1. QueueOK(queue, task)'
  BY DEF QueueOK
<1>2. QED
  BY <1>1 DEF TaskInv

LEMMA PoolTasks ==
  ASSUME TaskInv, PoolStep
  PROVE  TaskInv'
<1> DEFINE Runs(w) == Queued(w) \/ \E p \in TaskPhases \ {"idle", "done"} : TaskAt(w, p)
<1>1. ASSUME NEW w \in Watchers, Runs(w)
      PROVE  w \in session.watchers /\ task[w] # "done"
  BY <1>1 DEF TaskInv, Queued, TaskAt
<1>2. ASSUME NEW w \in Watchers, Runs(w), NEW phase, ToPhase(w, phase)
      PROVE  TaskInv'
  <2>1. task' = [task EXCEPT ![w] = phase] /\ queue' = queue /\ session' = session
    BY <1>2 DEF ToPhase, guiThread
  <2>2. QueueOK(queue, [task EXCEPT ![w] = phase])
    BY <1>1, <1>2, QueueTask DEF TaskInv
  <2>3. QED
    BY <1>1, <1>2, <2>1, <2>2, TaskRuns
<1>3. ASSUME NEW w \in Watchers, Runs(w), NEW ok, NEW posts, Returns(w, ok, posts),
             posts = <<>> \/ \E e : posts = <<e>> /\ Plain(e)
      PROVE  TaskInv'
  <2>1. task' = [task EXCEPT ![w] = "done"] /\ queue' = Posted(Append(posts, Finished(w)))
          /\ session' = session
    BY <1>3 DEF Returns, guiThread
  <2>2. QueueOK(queue \o Append(posts, Finished(w)), [task EXCEPT ![w] = "done"])
    BY <1>1, <1>3, QueueReturns DEF TaskInv
  <2>3. QueueOK(queue', task')
    BY <2>1, <2>2, QueueEmpty DEF Posted
  <2>4. QED
    BY <1>1, <1>3, <2>1, <2>3, TaskRuns
<1>4. Plain(Control) /\ Plain([kind |-> "start failed"]) /\ Plain(Acquisition(TRUE, FALSE))
  BY DEF Plain, Control, Acquisition
<1>5. ASSUME NEW e, Plain(e) PROVE \E d : <<e>> = <<d>> /\ Plain(d)
  BY <1>5
<1>6. /\ {"discovery", "connection", "disconnection", "initialization",
          "feature", "featureRead", "arm"} = Watchers
      /\ {"opened", "stopping", "stopped", "closing", "profile", "arming", "setup", "armed",
          "grabbing", "told", "failed"} = TaskPhases \ {"idle", "done"}
  BY DEF Watchers, TaskPhases
<1>7. ASSUME NEW w, NEW p, TaskAt(w, p), p \in TaskPhases \ {"idle", "done"} PROVE Runs(w)
  BY <1>7
<1>8. ASSUME NEW w, Queued(w) PROVE Runs(w)
  BY <1>8
<1> HIDE DEF Runs
<1>9. CASE RunDiscovery \/ OpenDevice \/ ReportConnection
  BY <1>2, <1>3, <1>4, <1>5, <1>6, <1>7, <1>8, <1>9 DEF RunDiscovery, OpenDevice, ReportConnection
<1>10. CASE StopForDisconnect \/ JoinForDisconnect \/ CloseDevice \/ ReleaseDevice
  BY <1>2, <1>3, <1>4, <1>5, <1>6, <1>7, <1>8, <1>10
     DEF StopForDisconnect, JoinForDisconnect, CloseDevice, ReleaseDevice
<1>11. CASE BeginProfile \/ EndProfile
  BY <1>2, <1>3, <1>6, <1>7, <1>8, <1>11 DEF BeginProfile, EndProfile
<1>12. CASE RunFeature \/ ReadFeatures
  BY <1>2, <1>3, <1>6, <1>7, <1>8, <1>12 DEF RunFeature, ReadFeatures
<1>13. CASE StartArm \/ BeginArming \/ SetUpArming
  BY <1>2, <1>3, <1>6, <1>7, <1>8, <1>13 DEF StartArm, BeginArming, SetUpArming
<1>14. CASE CompleteArming \/ ReportGrabbing \/ ReturnArmed
  BY <1>2, <1>3, <1>6, <1>7, <1>8, <1>14 DEF CompleteArming, ReportGrabbing, ReturnArmed
<1>15. CASE FailArming
  BY <1>3, <1>4, <1>5, <1>6, <1>7, <1>15 DEF FailArming
<1>16. CASE ReportActive
  <2>1. /\ TaskAt("arm", "grabbing") /\ task' = [task EXCEPT !["arm"] = "told"]
        /\ queue' = Posted(<<Acquisition(TRUE, FALSE)>>) /\ session' = session
    BY <1>16 DEF ReportActive, guiThread
  <2>2. "arm" \in Watchers /\ "arm" \in session.watchers /\ task["arm"] # "done"
    BY <1>1, <1>6, <1>7, <2>1
  <2>3. QueueOK(queue, [task EXCEPT !["arm"] = "told"])
    BY <2>2, QueueTask DEF TaskInv
  <2>4. QueueOK(queue', task')
    BY <1>4, <2>1, <2>3, PostedOK
  <2>5. QED
    BY <2>1, <2>2, <2>4, TaskRuns
<1>17. QED
  BY <1>9, <1>10, <1>11, <1>12, <1>13, <1>14, <1>15, <1>16 DEF PoolStep

(* Steps of the user and the host, and handlers that end no watcher. *)
LEMMA GuiTasks ==
  ASSUME TaskInv, session.watchers \subseteq session'.watchers,
         UserStep \/ HostStep \/ AdmitTool \/ RefuseTool \/ Handles
  PROVE  TaskInv'
<1>1. CASE UserStep
  <2>1. /\ task' = task
        /\ queue' \in {queue, Append(queue, [kind |-> "refresh"]), <<>>}
    BY <1>1 DEF UserStep, Click, ClickRefresh, ClickConnect, ClickDisconnect, ClickSingle,
       ToggleLive, ClickInit, EditFeature, ClickTrigger, DestroyWidget, DestroySession, pool
  <2>2. Plain([kind |-> "refresh"])
    BY DEF Plain
  <2>3. QueueOK(queue, task) /\ QueueOK(Append(queue, [kind |-> "refresh"]), task)
          /\ QueueOK(<<>>, task)
    BY <2>2, QueueAppend, QueueEmpty DEF TaskInv
  <2>4. QED
    BY <2>1, <2>3, TaskKept
<1>2. CASE HostStep \/ AdmitTool \/ RefuseTool
  <2>1. task' = task /\ queue' = queue
    BY <1>2 DEF HostStep, StopNothing, AskTool, NewCall, RequestParameter, AdmitTool,
       RefuseTool, pool
  <2>2. QED
    BY <2>1, TaskKept DEF TaskInv
<1>3. CASE Handles
  <2>1. task' = task /\ queue' \in {queue, Tail(queue)}
    BY <1>3 DEF Handles, HandleRefresh, HandleControl, HandleApplied, HandleFrame, HandleStale,
       HandleActive, HandleInactive, HandleStartFailed, HandleEnd, HandleRest, Handle, Keep, pool
  <2>2. QueueOK(Tail(queue), task)
    <3>1. CASE queue # <<>>
      BY <3>1, QueueTail DEF TaskInv
    <3>2. CASE queue = <<>>
      <4>1. Tail(<<>>) = <<>>
        OBVIOUS
      <4>2. QED
        BY <3>2, <4>1, QueueEmpty
    <3>3. QED
      BY <3>1, <3>2
  <2>3. QED
    BY <2>1, <2>2, TaskKept DEF TaskInv
<1>4. QED
  BY <1>1, <1>2, <1>3

LEMMA FinishTasks ==
  ASSUME TaskInv, NEW w \in Watchers, Finish(w), session.watchers \ {w} \subseteq session'.watchers
  PROVE  TaskInv'
<1> DEFINE t == [task EXCEPT ![w] = "idle"]
<1>1. /\ queue # <<>> /\ Head(queue).kind = "finished" /\ Head(queue).task = w
      /\ queue' = Tail(queue) /\ task' = t
  BY DEF Finish, Handle
<1>2. /\ QueueOK(Tail(queue), task)
      /\ \A i \in 1..Len(Tail(queue)) : Plain(Tail(queue)[i]) \/ Tail(queue)[i].task # w
  BY <1>1, QueueTail DEF TaskInv
<1>3. \A v \in Watchers : t[v] = IF v = w THEN "idle" ELSE task[v]
  BY DEF TaskInv
<1>4. t = [v \in Watchers |-> t[v]]
  BY DEF TaskInv
<1> HIDE DEF t
<1>5. QueueOK(queue', task')
  BY <1>1, <1>2, <1>3 DEF QueueOK, Plain
<1>6. QueueOK(queue, task)'
  BY <1>5 DEF QueueOK
<1>7. QED
  BY <1>1, <1>3, <1>4, <1>6 DEF TaskInv

(* Steps that run no watcher's task. *)
LEMMA OtherTasks ==
  ASSUME TaskInv, session' = session,
         \/ AwaitWatchers \/ AwaitParameters \/ JoinForDestruction
         \/ CloseForDestruction \/ ReleaseForDestruction
         \/ ParameterWork \/ WorkerStep \/ SensorStep \/ Destroyed
         \/ UNCHANGED vars
  PROVE  TaskInv'
<1>1. QueueOK(queue, task)
  BY DEF TaskInv
<1>2. ASSUME task' = task, queue' = queue \/ \E e : Plain(e) /\ queue' = Posted(<<e>>)
      PROVE  TaskInv'
  BY <1>1, <1>2, PostedOK, TaskKept
<1>3. Plain(Control) /\ Plain([kind |-> "applied"]) /\ Plain([kind |-> "frame"])
        /\ Plain(Acquisition(FALSE, worker.error))
  BY DEF Plain, Control, Acquisition
<1>4. CASE \/ AwaitWatchers \/ AwaitParameters \/ JoinForDestruction
           \/ CloseForDestruction \/ ReleaseForDestruction
  BY <1>2, <1>4 DEF AwaitWatchers, AwaitParameters, JoinForDestruction, CloseForDestruction,
     ReleaseForDestruction, Destructor, pool
<1>5. CASE ParameterWork
  <2>1. ASSUME NEW p, NEW from, NEW to, ParameterStep(p, from, to) PROVE task' = task
    BY <2>1 DEF ParameterStep, pool
  <2>2. QED
    BY <1>2, <1>3, <1>5, <2>1 DEF ParameterWork, RunParameter, ReportParameter, ReportApplied,
       ReturnParameter
<1>6. CASE WorkerStep
  BY <1>2, <1>3, <1>6 DEF WorkerStep, LeavePolling, StopStreaming, Disarm, ReportIdle,
     ReportInactive, WorkerAt, pool
<1>7. CASE SensorStep
  BY <1>2, <1>3, <1>7 DEF SensorStep, ReceiveFrame, FailPolling, WorkerAt, pool
<1>8. CASE Destroyed \/ UNCHANGED vars
  BY <1>2, <1>8 DEF Destroyed, vars, pool
<1>9. QED
  BY <1>4, <1>5, <1>6, <1>7, <1>8

------------------------------------------------------------------------------
LEMMA CallsInit == Init => CallInv /\ TaskInv
<1> SUFFICES ASSUME Init PROVE CallInv /\ TaskInv
  OBVIOUS
<1>1. /\ IsSession(session) /\ session.completion = [c \in Completions |-> NoCall]
      /\ session.toolCall = NoCall /\ session.watchers = {}
  BY DEF Init, IsSession, Fields, Refreshes
<1>2. Shape(session) /\ Held(session) /\ Linked(session, "none")
  BY <1>1 DEF Shape, Single, Held, Linked, NoCall, Completions
<1>3. AnswerOK(answer, NoCall)
  BY DEF Init, AnswerOK, NoCall, Calls
<1>4. CallInv
  BY <1>1, <1>2, <1>3 DEF Init, CallInv
<1>5. TaskInv
  BY <1>1, QueueEmpty DEF Init, TaskInv
<1>6. QED
  BY <1>4, <1>5

LEMMA CallsNext == CallInv /\ TaskInv /\ AskedTool /\ [Next]_vars => CallInv' /\ TaskInv'
<1> SUFFICES ASSUME CallInv, TaskInv, AskedTool, [Next]_vars PROVE CallInv' /\ TaskInv'
  OBVIOUS
<1>1. CASE UserStep
  BY <1>1, UserStepCalls, GuiTasks
<1>2. CASE HostStep
  BY <1>2, HostStepCalls, GuiTasks
<1>3. CASE AdmitTool \/ RefuseTool
  BY <1>3, AdmissionCalls, GuiTasks
<1>4. CASE Handles
  BY <1>4, HandlerCalls, GuiTasks
<1>5. CASE Ends
  BY <1>5, FinishCalls, FinishTasks
<1>6. CASE PoolStep
  BY <1>6, OtherCalls, PoolTasks
<1>7. CASE \/ AwaitWatchers \/ AwaitParameters \/ JoinForDestruction
           \/ CloseForDestruction \/ ReleaseForDestruction
           \/ ParameterWork \/ WorkerStep \/ SensorStep \/ Destroyed
           \/ UNCHANGED vars
  BY <1>7, OtherCalls, OtherTasks
<1>8. QED
  BY <1>1, <1>2, <1>3, <1>4, <1>5, <1>6, <1>7 DEF Next, GuiStep, Handles, Ends

(***************************************************************************)
(* A call that was accepted and not answered yet is held by one completion,*)
(* and no completion holds an answered call: nothing is answered twice or  *)
(* forgotten, whichever of the result, a refusal, a disconnect and the end *)
(* of the acquisition comes first.                                         *)
(***************************************************************************)
THEOREM CallsAnsweredOnce == Spec => []OneAnswerPerCall
<1>1. Init => AskedTool
  BY DEF Init, AskedTool
<1>2. CallInv => OneAnswerPerCall
  <2> SUFFICES ASSUME CallInv PROVE OneAnswerPerCall
    OBVIOUS
  <2>1. \A c, d \in Completions :
          c # d /\ session.completion[c] # NoCall => session.completion[c] # session.completion[d]
    BY DEF CallInv, Shape, Single
  <2>2. ASSUME gui \in {"idle", "rest"}, asked = "none"
        PROVE  {c \in Calls : answer[c] = "pending"} = HeldCalls
    <3>1. /\ \A k \in Calls : answer[k] = "pending" <=> k = session.toolCall
          /\ session.toolCall # NoCall => session.toolCall \in Calls
          /\ Held(session) /\ session.completion \in [Completions -> Nat]
      BY <2>2 DEF CallInv, Alive, AnswerOK, Shape
    <3>2. NoCall \notin Calls /\ Calls \subseteq Nat
      BY DEF NoCall, Calls
    <3>3. ASSUME NEW h \in HeldCalls PROVE h = session.toolCall /\ h # NoCall
      <4>1. PICK c \in Completions : h = session.completion[c]
        BY DEF HeldCalls
      <4>2. h \in Nat /\ h # NoCall
        BY <3>1, <4>1 DEF HeldCalls
      <4>3. QED
        BY <3>1, <4>1, <4>2 DEF Held
    <3>4. ASSUME NEW k \in Calls, k = session.toolCall PROVE k \in HeldCalls
      <4>1. k \in Nat \ {NoCall}
        BY <3>2
      <4>2. PICK c \in Completions : session.completion[c] = k
        BY <3>1, <3>4, <4>1 DEF Held
      <4>3. QED
        BY <4>1, <4>2 DEF HeldCalls
    <3>5. QED
      BY <3>1, <3>3, <3>4
  <2>3. QED
    BY <2>1, <2>2 DEF OneAnswerPerCall
<1>3. QED
  BY CallsInit, CallsNext, AskedNext, <1>1, <1>2, PTL DEF Spec

------------------------------------------------------------------------------
(* What the session answers is what the device does. *)

Late == gui \in {"parameters", "stop", "close", "release", "dead"}
Joined == gui \in {"close", "release", "dead"}

(* The destructor goes on when all tasks are done, then joins the worker,    *)
(* then closes the device; a handle is released by who closed the device.    *)
Releasing ==
  /\ Late => \A w \in Watchers : task[w] \in {"idle", "done"} /\ ~Queued(w)
  /\ Joined => worker.phase = "none"
  /\ gui \in {"release", "dead"} => mode = "closed"
  /\ task["disconnection"] \in {"closing", "done"} => mode = "closed"
  /\ streaming => \/ mode \in {"arming", "armed", "fault"}
                  \/ mode = "closed" /\ (task["disconnection"] = "closing" \/ gui = "release")

(* The arm task holds the worker back until it reported the acquisition.     *)
Working ==
  /\ worker = [f \in {"phase", "continuous", "error"} |-> worker[f]]
  /\ task["arm"] \in {"armed", "grabbing"} <=> worker.phase = "held"
  /\ task["arm"] = "grabbing" => isGrabbing
  /\ worker.phase \in {"running", "leaving", "ended"} => isGrabbing
  /\ worker.phase = "telling" => ~isGrabbing

(* The session reads the features of the device it connected to.             *)
Reads(s) == "featureRead" \in s.watchers /\ s.refreshFor = "connect"

(* A device that was opened stays open until a disconnection or destruction. *)
Opened ==
  /\ succeeded \in [Watchers -> BOOLEAN]
  /\ task["connection"] = "opened" /\ ~Joined => mode # "closed"
  /\ task["connection"] = "done" /\ succeeded["connection"] /\ ~Joined => mode # "closed"
  /\ Reads(session) /\ ~Joined => mode # "closed"

DeviceInv == Releasing /\ Working /\ Opened

(* A completion holds a call of a tool that it can answer.                   *)
Asks(c) ==
  CASE c = "discovery" -> {"discover"}
    [] c = "connect" -> {"connect"}
    [] c = "disconnect" -> {"disconnect"}
    [] c = "arm" -> {"single", "live-start"}
    [] c = "acquisitionEnd" -> {"single", "live-start", "live-stop"}

ToolsKnown ==
  /\ tool = [k \in Calls |-> tool[k]]
  /\ Alive =>
       /\ \A c \in Completions : session.completion[c] # NoCall => tool[session.completion[c]] \in Asks(c)
       /\ asked # "none" => tool[session.toolCall] = asked

(* A frame of an earlier arm cannot be taken for the frame of a Single.      *)
Counted ==
  /\ arms \in Nat /\ armOfCall \in Nat /\ frameArm \in Nat /\ armOfCall <= arms
  /\ Alive /\ session.toolCall # NoCall /\ tool[session.toolCall] = "single" =>
       /\ worker.phase \in {"held", "running"} => armOfCall < arms
       /\ armOfCall < frameArm \/ deliveredFrames = framesBefore

(* The status a queued event reports, unless a newer one was reported.       *)
Events(q) == {q[i] : i \in 1..Len(q)}

Reported ==
  /\ statusGeneration \in Nat
  /\ \A e \in Events(queue) : e.kind = "acquisition" =>
       /\ e.generation \in Nat /\ e.generation <= statusGeneration
       /\ e.generation = statusGeneration /\ ~e.active => ~isGrabbing \/ task["arm"] = "grabbing"

AnswerInv == ToolsKnown /\ Counted /\ Reported

------------------------------------------------------------------------------
(* Events of the queue. *)

LEMMA EventsAppend ==
  ASSUME NEW q, NEW S, q \in Seq(S), NEW e
  PROVE  Events(Append(q, e)) = Events(q) \cup {e}
<1> DEFINE r == Append(q, e)
<1>1. Len(r) = Len(q) + 1 /\ Len(q) \in Nat /\ r[Len(q) + 1] = e
        /\ \A i \in 1..Len(q) : r[i] = q[i]
  OBVIOUS
<1> HIDE DEF r
<1>2. \A i : i \in 1..Len(r) <=> i \in 1..Len(q) \/ i = Len(q) + 1
  BY <1>1
<1>3. Events(r) = Events(q) \cup {e}
  BY <1>1, <1>2 DEF Events
<1>4. QED
  BY <1>3 DEF r

LEMMA EventsTail ==
  ASSUME NEW q, NEW S, q \in Seq(S), q # <<>>
  PROVE  Events(Tail(q)) \subseteq Events(q) /\ Head(q) \in Events(q)
<1> DEFINE r == Tail(q)
<1>1. Len(r) = Len(q) - 1 /\ Len(q) \in Nat /\ Len(q) > 0 /\ Head(q) = q[1]
        /\ \A i \in 1..Len(r) : r[i] = q[i + 1]
  OBVIOUS
<1> HIDE DEF r
<1>2. \A i \in 1..Len(r) : i + 1 \in 1..Len(q)
  BY <1>1
<1>3. 1 \in 1..Len(q)
  BY <1>1
<1>4. QED
  BY <1>1, <1>2, <1>3 DEF Events, r

LEMMA EventsEmpty == Events(<<>>) = {}
<1>1. Len(<<>>) = 0
  OBVIOUS
<1>2. 1..0 = {}
  OBVIOUS
<1>3. QED
  BY <1>1, <1>2 DEF Events

LEMMA EventsPosted ==
  ASSUME QueueOK(queue, task), NEW e, NEW f
  PROVE  /\ Events(Posted(<<e>>)) \subseteq Events(queue) \cup {e}
         /\ Events(Posted(Append(<<>>, f))) \subseteq Events(queue) \cup {f}
         /\ Events(Posted(Append(<<e>>, f))) \subseteq Events(queue) \cup {e, f}
<1>1. PICK S : queue \in Seq(S)
  BY DEF QueueOK
<1> DEFINE q == Append(queue, e)
<1>2. queue \o <<e>> = q /\ queue \o Append(<<>>, f) = Append(queue, f)
        /\ queue \o Append(<<e>>, f) = Append(q, f) /\ q \in Seq(S \cup {e})
  BY <1>1
<1>3. Events(q) = Events(queue) \cup {e} /\ Events(Append(queue, f)) = Events(queue) \cup {f}
  BY <1>1, EventsAppend
<1> HIDE DEF q
<1>4. Events(Append(q, f)) = Events(q) \cup {f}
  BY <1>2, EventsAppend
<1>5. QED
  BY <1>2, <1>3, <1>4, EventsEmpty DEF Posted

(* A step that reports no status keeps what the events report.               *)
LEMMA ReportedKept ==
  ASSUME Reported, statusGeneration' = statusGeneration,
         \A e \in Events(queue') : e \in Events(queue) \/ e.kind # "acquisition",
         task["arm"] = "grabbing" => task'["arm"] = "grabbing",
         isGrabbing' => isGrabbing \/ task'["arm"] = "grabbing"
  PROVE  Reported'
<1>1. ASSUME NEW e \in Events(queue'), e.kind = "acquisition"
      PROVE  /\ e.generation \in Nat /\ e.generation <= statusGeneration'
             /\ e.generation = statusGeneration' /\ ~e.active =>
                  ~isGrabbing' \/ task'["arm"] = "grabbing"
  <2>1. e \in Events(queue)
    BY <1>1
  <2>2. QED
    BY <1>1, <2>1 DEF Reported
<1>2. Events(queue)' = Events(queue')
  BY DEF Events
<1>3. QED
  BY <1>1, <1>2 DEF Reported

------------------------------------------------------------------------------
(* Pool tasks. *)

Running(w) == Queued(w) \/ task[w] \in TaskPhases \ {"idle", "done"}

(* One task runs at a time, and none once the destructor stopped waiting.    *)
LEMMA Alone ==
  ASSUME Inv, TaskInv, Releasing, NEW w \in Watchers, Running(w)
  PROVE  /\ w \in session.watchers /\ task[w] # "done"
         /\ \A v \in Watchers : v # w => task[v] = "idle" /\ v \notin session.watchers
         /\ ~Late /\ ~Joined
<1>1. w \in session.watchers /\ task[w] # "done"
  BY DEF Running, Queued, TaskInv, TaskPhases
<1>2. \A v \in Watchers : v # w => task[v] = "idle" /\ v \notin session.watchers
  BY <1>1 DEF Inv, Good, Exclusive, TaskInv
<1>3. ~Late
  BY DEF Running, Releasing
<1>4. QED
  BY <1>1, <1>2, <1>3 DEF Late, Joined

(* What the steps of a task do with the task and the queue. *)
LEMMA TaskSteps ==
  ASSUME TaskInv, NEW w \in Watchers
  PROVE  /\ \A p : ToPhase(w, p) =>
              /\ task' = [task EXCEPT ![w] = p] /\ succeeded' = succeeded
              /\ queue' = queue /\ UNCHANGED guiThread
         /\ \A ok : Returns(w, ok, <<>>) =>
              /\ task' = [task EXCEPT ![w] = "done"] /\ succeeded' = [succeeded EXCEPT ![w] = ok]
              /\ \A e \in Events(queue') : e \in Events(queue) \/ e.kind # "acquisition"
              /\ UNCHANGED guiThread
         /\ \A ok, d : Returns(w, ok, <<d>>) /\ d.kind # "acquisition" =>
              /\ task' = [task EXCEPT ![w] = "done"] /\ succeeded' = [succeeded EXCEPT ![w] = ok]
              /\ \A e \in Events(queue') : e \in Events(queue) \/ e.kind # "acquisition"
              /\ UNCHANGED guiThread
<1>1. Finished(w).kind # "acquisition"
  BY DEF Finished
<1> DEFINE f == Finished(w)
<1>2. QueueOK(queue, task)
  BY DEF TaskInv
<1>3. Events(Posted(Append(<<>>, f))) \subseteq Events(queue) \cup {f}
  BY <1>2, EventsPosted
<1>4. \A d : Events(Posted(Append(<<d>>, f))) \subseteq Events(queue) \cup {d, f}
  BY <1>2, EventsPosted
<1>5. ASSUME NEW p, ToPhase(w, p)
      PROVE  /\ task' = [task EXCEPT ![w] = p] /\ succeeded' = succeeded
             /\ queue' = queue /\ UNCHANGED guiThread
  BY <1>5 DEF ToPhase
<1>6. ASSUME NEW ok, NEW posts, Returns(w, ok, posts)
      PROVE  /\ task' = [task EXCEPT ![w] = "done"] /\ succeeded' = [succeeded EXCEPT ![w] = ok]
             /\ queue' = Posted(Append(posts, f)) /\ UNCHANGED guiThread
  BY <1>6 DEF Returns
<1> HIDE DEF f
<1>7. f.kind # "acquisition"
  BY <1>1 DEF f
<1>8. ASSUME NEW ok, Returns(w, ok, <<>>)
      PROVE  \A e \in Events(queue') : e \in Events(queue) \/ e.kind # "acquisition"
  BY <1>3, <1>6, <1>7, <1>8
<1>9. ASSUME NEW ok, NEW d, Returns(w, ok, <<d>>), d.kind # "acquisition"
      PROVE  \A e \in Events(queue') : e \in Events(queue) \/ e.kind # "acquisition"
  BY <1>4, <1>6, <1>7, <1>9
<1>10. QED
  BY <1>5, <1>6, <1>8, <1>9


(* What no step outside the GUI thread changes. *)
LEMMA ToolsKept ==
  ASSUME ToolsKnown, UNCHANGED <<session, asked, tool>>, Alive' => Alive
  PROVE  ToolsKnown'
BY DEF ToolsKnown, Alive

LEMMA CountedKept ==
  ASSUME Counted, UNCHANGED <<session, tool, framesBefore, armOfCall, arms, frameArm, deliveredFrames>>,
         Alive' => Alive,
         worker'.phase \in {"held", "running"} => worker.phase \in {"held", "running"}
  PROVE  Counted'
BY DEF Counted, Alive

(* A task other than the arm's, which the worker does not notice. *)
LEMMA OtherTask ==
  ASSUME Inv, TaskInv, DeviceInv, AnswerInv, NEW w \in Watchers \ {"arm"}, Running(w),
         NEW p, task' = [task EXCEPT ![w] = p],
         UNCHANGED <<guiThread, worker, history, statusGeneration, deliveredFrames>>,
         isGrabbing' <=> isGrabbing /\ p # "stopped",
         p = "stopped" => worker.phase = "none",
         \A e \in Events(queue') : e \in Events(queue) \/ e.kind # "acquisition",
         succeeded' \in [Watchers -> BOOLEAN],
         mode' = "closed" => mode = "closed" \/ w = "disconnection",
         w = "connection" => (p = "opened" \/ (p = "done" /\ succeeded'["connection"]) => mode' # "closed"),
         w = "disconnection" => (p \in {"closing", "done"} => mode' = "closed"),
         streaming' => \/ mode' \in {"arming", "armed", "fault"}
                       \/ mode' = "closed" /\ w = "disconnection" /\ p = "closing"
  PROVE  DeviceInv' /\ AnswerInv'
<1> USE DEF DeviceInv, AnswerInv
<1>1. /\ w \in session.watchers
      /\ \A v \in Watchers : v # w => task[v] = "idle" /\ v \notin session.watchers
      /\ ~Late /\ ~Joined
  BY Alone
<1>2. /\ session' = session /\ gui' = gui /\ asked' = asked /\ tool' = tool
      /\ framesBefore' = framesBefore /\ armOfCall' = armOfCall
      /\ arms' = arms /\ frameArm' = frameArm
  BY DEF guiThread, request, history
<1>3. ~Late' /\ ~Joined' /\ gui' \notin {"release", "dead"}
  BY <1>1, <1>2 DEF Late, Joined
<1>4. /\ \A v \in Watchers : v # w => task'[v] = "idle"
      /\ task'[w] = p
  BY <1>1 DEF TaskInv
<1>5. {"connection", "disconnection", "arm", "featureRead"} \subseteq Watchers
  BY DEF Watchers
<1>6. task["arm"] = "idle" /\ task'["arm"] = "idle"
  BY <1>1, <1>4, <1>5
<1>7. Releasing'
  BY <1>3, <1>4, <1>5 DEF Releasing
<1>8. Working'
  BY <1>6 DEF Working
<1>9. Opened'
  <2>1. w = "disconnection" => ~Reads(session)
    BY <1>1, <1>5 DEF Reads
  <2>2. Reads(session)' => mode' # "closed"
    BY <1>1, <1>2, <2>1 DEF Opened, Reads
  <2>3. task'["connection"] = "opened" => mode' # "closed"
    BY <1>4, <1>5
  <2>4. task'["connection"] = "done" /\ succeeded'["connection"] => mode' # "closed"
    BY <1>4, <1>5
  <2>5. QED
    BY <2>2, <2>3, <2>4 DEF Opened
<1>10. ToolsKnown' /\ Counted'
  BY <1>2, ToolsKept, CountedKept DEF Alive
<1>11. Reported'
  BY <1>6, ReportedKept
<1>12. QED
  BY <1>7, <1>8, <1>9, <1>10, <1>11

LEMMA OtherReturn ==
  ASSUME Inv, TaskInv, DeviceInv, AnswerInv, NEW w \in Watchers \ {"arm"}, Running(w),
         NEW ok \in BOOLEAN, NEW posts \in {<<>>, <<Control>>}, Returns(w, ok, posts),
         UNCHANGED <<worker, history, isGrabbing, statusGeneration, deliveredFrames>>,
         mode' = "closed" => mode = "closed" \/ w = "disconnection",
         w = "connection" /\ ok => mode' # "closed",
         w = "disconnection" => mode' = "closed",
         streaming' => mode' \in {"arming", "armed", "fault"}
  PROVE  DeviceInv' /\ AnswerInv'
<1>1. Control.kind # "acquisition"
  BY DEF Control
<1>2. /\ task' = [task EXCEPT ![w] = "done"] /\ succeeded' = [succeeded EXCEPT ![w] = ok]
      /\ \A e \in Events(queue') : e \in Events(queue) \/ e.kind # "acquisition"
      /\ UNCHANGED guiThread
  BY <1>1, TaskSteps
<1>3. succeeded \in [Watchers -> BOOLEAN]
  BY DEF DeviceInv, Opened
<1>4. succeeded' \in [Watchers -> BOOLEAN]
  BY <1>2, <1>3
<1>5. succeeded'[w] = ok
  BY <1>2, <1>3
<1>6. w = "connection" =>
        ("done" = "opened" \/ ("done" = "done" /\ succeeded'["connection"]) => mode' # "closed")
  BY <1>5
<1>7. QED
  BY <1>2, <1>4, <1>6, OtherTask

LEMMA OtherTasksDevice ==
  ASSUME Inv, TaskInv, DeviceInv, AnswerInv,
         \/ RunDiscovery \/ OpenDevice \/ ReportConnection
         \/ StopForDisconnect \/ JoinForDisconnect \/ CloseDevice \/ ReleaseDevice
         \/ BeginProfile \/ EndProfile \/ RunFeature \/ ReadFeatures
  PROVE  DeviceInv' /\ AnswerInv'
<1>1. {"discovery", "connection", "disconnection", "initialization", "feature", "featureRead"}
        \subseteq Watchers \ {"arm"}
  BY DEF Watchers
<1>2. succeeded \in [Watchers -> BOOLEAN]
  BY DEF DeviceInv, Opened
<1>3. streaming => \/ mode \in {"arming", "armed", "fault"}
                   \/ mode = "closed" /\ (task["disconnection"] = "closing" \/ gui = "release")
  BY DEF DeviceInv, Releasing
<1>4. ASSUME NEW w \in Watchers, NEW p \in TaskPhases \ {"idle", "done"}, TaskAt(w, p)
      PROVE  Running(w)
  BY <1>4 DEF Running, TaskAt
<1>6. ASSUME NEW w \in Watchers, Running(w)
      PROVE  gui # "release" /\ (w # "disconnection" => task["disconnection"] = "idle")
  BY <1>1, <1>6, Alone DEF Late, DeviceInv
<1>7. CASE RunDiscovery
  <2>1. PICK ok \in BOOLEAN : Returns("discovery", ok, <<>>)
    BY <1>7 DEF RunDiscovery
  <2>2. Running("discovery")
    BY <1>7 DEF RunDiscovery, Running
  <2>3. UNCHANGED <<mode, streaming, worker, history, controller>>
    BY <1>7 DEF RunDiscovery, DeviceIdle, SameAcquisition
  <2>4. QED
    BY <1>1, <1>3, <1>6, <2>1, <2>2, <2>3, OtherReturn DEF controller
<1>8. CASE OpenDevice
  <2>1. Running("connection") /\ UNCHANGED <<worker, history, controller>>
    BY <1>8 DEF OpenDevice, Running, SameAcquisition
  <2>2. CASE D!Open /\ ToPhase("connection", "opened")
    <3>1. mode' = "ready" /\ ~streaming'
      BY <2>2 DEF D!Open, D!Become
    <3>2. /\ task' = [task EXCEPT !["connection"] = "opened"] /\ succeeded' = succeeded
          /\ queue' = queue /\ UNCHANGED guiThread
      BY <1>1, <2>2, TaskSteps
    <3>3. UNCHANGED <<worker, history, statusGeneration, deliveredFrames>> /\ isGrabbing' = isGrabbing
      BY <2>1 DEF controller
    <3>4. mode' # "closed" /\ (streaming' => mode' \in {"arming", "armed", "fault"})
      BY <3>1
    <3>5. succeeded' \in [Watchers -> BOOLEAN]
      BY <1>2, <3>2
    <3>6. QED
      BY <1>1, <2>1, <3>2, <3>3, <3>4, <3>5, OtherTask
  <2>3. CASE DeviceIdle /\ Returns("connection", FALSE, <<>>)
    BY <1>1, <1>3, <1>6, <2>1, <2>3, OtherReturn DEF controller, DeviceIdle
  <2>4. QED
    BY <1>8, <2>2, <2>3 DEF OpenDevice
<1>9. CASE ReportConnection
  <2>1. /\ TaskAt("connection", "opened") /\ Returns("connection", TRUE, <<Control>>)
        /\ UNCHANGED <<mode, streaming, worker, history, isGrabbing, statusGeneration, deliveredFrames>>
    BY <1>9 DEF ReportConnection, DeviceIdle, SameAcquisition
  <2>2. "opened" \in TaskPhases \ {"idle", "done"}
    BY DEF TaskPhases
  <2>3. Running("connection")
    BY <1>1, <1>4, <2>1, <2>2
  <2>4. mode # "closed"
    BY <1>1, <2>1, <2>3, Alone DEF TaskAt, DeviceInv, Opened
  <2>5. QED
    BY <1>1, <1>3, <1>6, <2>1, <2>3, <2>4, OtherReturn
<1>10. CASE StopForDisconnect
  <2>1. /\ Running("disconnection") /\ ToPhase("disconnection", "stopping")
        /\ UNCHANGED <<mode, streaming, worker, history, controller>>
    BY <1>10 DEF StopForDisconnect, Running, DeviceIdle
  <2>2. task["disconnection"] # "closing"
    BY <1>10 DEF StopForDisconnect, Queued
  <2>3. QED
    BY <1>1, <1>2, <1>3, <1>6, <2>1, <2>2, TaskSteps, OtherTask DEF controller
<1>11. CASE JoinForDisconnect
  <2>1. /\ TaskAt("disconnection", "stopping") /\ ToPhase("disconnection", "stopped")
        /\ worker.phase = "none" /\ isGrabbing' = FALSE
        /\ UNCHANGED <<mode, streaming, worker, history, statusGeneration, deliveredFrames>>
    BY <1>11 DEF JoinForDisconnect, ClearFlags, DeviceIdle, SameAcquisition
  <2>2. "stopping" \in TaskPhases \ {"idle", "done"}
    BY DEF TaskPhases
  <2>3. Running("disconnection") /\ task["disconnection"] # "closing"
    BY <1>1, <1>4, <2>1, <2>2 DEF TaskAt
  <2>4. QED
    BY <1>1, <1>2, <1>3, <1>6, <2>1, <2>3, TaskSteps, OtherTask
<1>12. CASE CloseDevice
  <2>1. TaskAt("disconnection", "stopped") /\ UNCHANGED <<worker, history, controller>>
    BY <1>12 DEF CloseDevice, SameAcquisition
  <2>2. "stopped" \in TaskPhases \ {"idle", "done"}
    BY DEF TaskPhases
  <2>3. Running("disconnection") /\ task["disconnection"] # "closing"
    BY <1>1, <1>4, <2>1, <2>2 DEF TaskAt
  <2>4. CASE D!Close /\ ToPhase("disconnection", "closing")
    <3>1. mode' = "closed"
      BY <2>4 DEF D!Close, D!Become
    <3>2. QED
      BY <1>1, <1>2, <2>1, <2>3, <2>4, <3>1, TaskSteps, OtherTask DEF controller
  <2>5. CASE ~IsOpened /\ DeviceIdle /\ Returns("disconnection", TRUE, <<>>)
    <3>1. mode' = "closed" /\ mode = "closed" /\ streaming' = streaming
      BY <2>5 DEF IsOpened, DeviceIdle
    <3>2. QED
      BY <1>1, <1>3, <1>6, <2>1, <2>3, <2>5, <3>1, OtherReturn DEF controller
  <2>6. QED
    BY <1>12, <2>4, <2>5 DEF CloseDevice
<1>13. CASE ReleaseDevice
  <2>1. /\ TaskAt("disconnection", "closing") /\ Returns("disconnection", TRUE, <<Control>>)
        /\ UNCHANGED <<worker, history, isGrabbing, statusGeneration, deliveredFrames>>
        /\ mode' = "closed" /\ mode = "closed" /\ streaming' = FALSE
    BY <1>13 DEF ReleaseDevice, SameAcquisition, D!Release
  <2>2. "closing" \in TaskPhases \ {"idle", "done"}
    BY DEF TaskPhases
  <2>3. Running("disconnection")
    BY <1>1, <1>4, <2>1, <2>2
  <2>4. QED
    BY <1>1, <2>1, <2>3, OtherReturn
<1>14. CASE BeginProfile
  <2>1. Running("initialization") /\ UNCHANGED <<worker, history, controller>>
    BY <1>14 DEF BeginProfile, Running, SameAcquisition
  <2>2. CASE D!BeginInitialization /\ ToPhase("initialization", "profile")
    <3>1. mode' = "initializing" /\ mode = "ready" /\ streaming' = streaming
      BY <2>2 DEF D!BeginInitialization, D!Become
    <3>2. QED
      BY <1>1, <1>2, <1>3, <2>1, <2>2, <3>1, TaskSteps, OtherTask DEF controller
  <2>3. CASE mode # "ready" /\ DeviceIdle /\ Returns("initialization", FALSE, <<>>)
    BY <1>1, <1>3, <1>6, <2>1, <2>3, OtherReturn DEF controller, DeviceIdle
  <2>4. QED
    BY <1>14, <2>2, <2>3 DEF BeginProfile
<1>15. CASE EndProfile
  <2>1. PICK ok \in BOOLEAN : Returns("initialization", ok, <<>>)
    BY <1>15 DEF EndProfile
  <2>2. /\ TaskAt("initialization", "profile") /\ UNCHANGED <<worker, history, controller>>
        /\ mode' = "ready" /\ mode = "initializing" /\ streaming' = streaming
    BY <1>15 DEF EndProfile, SameAcquisition, D!EndInitialization, D!Become
  <2>3. "profile" \in TaskPhases \ {"idle", "done"}
    BY DEF TaskPhases
  <2>4. Running("initialization")
    BY <1>1, <1>4, <2>2, <2>3
  <2>5. QED
    BY <1>1, <1>3, <2>1, <2>2, <2>4, OtherReturn DEF controller
<1>16. CASE RunFeature
  <2>1. PICK ok \in BOOLEAN : Returns("feature", ok, <<>>)
    BY <1>16 DEF RunFeature
  <2>2. Running("feature") /\ UNCHANGED <<mode, streaming, worker, history, controller>>
    BY <1>16 DEF RunFeature, Running, DeviceIdle, SameAcquisition
  <2>3. QED
    BY <1>1, <1>3, <1>6, <2>1, <2>2, OtherReturn DEF controller
<1>17. CASE ReadFeatures
  <2>1. PICK ok \in BOOLEAN : Returns("featureRead", ok, <<>>)
    BY <1>17 DEF ReadFeatures
  <2>2. Running("featureRead") /\ UNCHANGED <<mode, streaming, worker, history, controller>>
    BY <1>17 DEF ReadFeatures, Running, DeviceIdle, SameAcquisition
  <2>3. QED
    BY <1>1, <1>3, <1>6, <2>1, <2>2, OtherReturn DEF controller
<1>18. QED
  BY <1>7, <1>8, <1>9, <1>10, <1>11, <1>12, <1>13, <1>14, <1>15, <1>16, <1>17


(* The arm task, while the worker is none of its business. *)
LEMMA ArmTask ==
  ASSUME Inv, TaskInv, DeviceInv, AnswerInv, Running("arm"),
         NEW p, task' = [task EXCEPT !["arm"] = p],
         UNCHANGED <<guiThread, isGrabbing, statusGeneration, deliveredFrames, frameArm>>,
         succeeded' \in [Watchers -> BOOLEAN],
         task["arm"] # "grabbing", p # "grabbing",
         worker' = [f \in {"phase", "continuous", "error"} |-> worker'[f]],
         arms' \in Nat, arms <= arms',
         \/ worker' = worker /\ arms' = arms /\ (p = "armed" <=> task["arm"] = "armed")
         \/ worker'.phase = "held" /\ p = "armed" /\ arms' = arms + 1,
         \A e \in Events(queue') : e \in Events(queue) \/ e.kind # "acquisition",
         streaming' => mode' \in {"arming", "armed", "fault"}
  PROVE  DeviceInv' /\ AnswerInv'
<1> USE DEF DeviceInv, AnswerInv
<1>1. {"connection", "disconnection", "arm", "featureRead"} \subseteq Watchers
  BY DEF Watchers
<1>2. \A v \in Watchers : v # "arm" => task[v] = "idle" /\ task'[v] = "idle"
  BY <1>1, Alone DEF TaskInv
<1>3. ~Late /\ ~Joined /\ task'["arm"] = p
  BY <1>1, Alone DEF TaskInv
<1>4. /\ session' = session /\ gui' = gui /\ asked' = asked /\ tool' = tool
      /\ framesBefore' = framesBefore /\ armOfCall' = armOfCall
  BY DEF guiThread, request
<1>5. ~Late' /\ ~Joined' /\ gui' \notin {"release", "dead"}
  BY <1>3, <1>4 DEF Late, Joined
<1>6. Releasing'
  BY <1>1, <1>2, <1>5 DEF Releasing
<1>7. Working'
  BY <1>3 DEF Working
<1>8. Opened'
  <2>1. ~Reads(session)'
    BY <1>1, <1>4, Alone DEF Reads
  <2>2. QED
    BY <1>1, <1>2, <2>1 DEF Opened
<1>9. ToolsKnown'
  BY <1>4, ToolsKept DEF Alive
<1>10. Counted'
  BY <1>4 DEF Counted, Alive
<1>11. Reported'
  BY <1>3, ReportedKept
<1>12. QED
  BY <1>6, <1>7, <1>8, <1>9, <1>10, <1>11


LEMMA ArmStepsDevice ==
  ASSUME Inv, TaskInv, DeviceInv, AnswerInv,
         StartArm \/ BeginArming \/ SetUpArming \/ CompleteArming \/ FailArming \/ ReturnArmed
  PROVE  DeviceInv' /\ AnswerInv'
<1> DEFINE IsWorker(v) == v = [f \in {"phase", "continuous", "error"} |-> v[f]]
<1>1. /\ "arm" \in Watchers /\ "disconnection" \in Watchers
      /\ {"arming", "setup", "armed", "told", "failed"} \subseteq TaskPhases \ {"idle", "done"}
  BY DEF Watchers, TaskPhases
<1>2. succeeded \in [Watchers -> BOOLEAN] /\ arms \in Nat /\ IsWorker(worker)
  BY DEF DeviceInv, AnswerInv, Opened, Counted, Working
<1>3. Running("arm")
  BY <1>1 DEF StartArm, BeginArming, SetUpArming, CompleteArming, FailArming, ReturnArmed,
     Running, TaskAt
<1>4. streaming => mode \in {"arming", "armed", "fault"}
  BY <1>1, <1>3, Alone DEF DeviceInv, Releasing, Late
(* A step that keeps the worker, and leaves or enters neither of two phases. *)
<1>5. ASSUME NEW p, task' = [task EXCEPT !["arm"] = p],
             UNCHANGED <<guiThread, isGrabbing, statusGeneration, deliveredFrames, worker, history>>,
             succeeded' \in [Watchers -> BOOLEAN],
             task["arm"] \notin {"armed", "grabbing"}, p \notin {"armed", "grabbing"},
             \A e \in Events(queue') : e \in Events(queue) \/ e.kind # "acquisition",
             streaming' => mode' \in {"arming", "armed", "fault"}
      PROVE  DeviceInv' /\ AnswerInv'
  <2>1. frameArm' = frameArm /\ arms' = arms /\ arms' \in Nat /\ arms <= arms' /\ IsWorker(worker')
    BY <1>2, <1>5 DEF history
  <2>2. QED
    BY <1>3, <1>5, <2>1, ArmTask
<1>6. ASSUME NEW p, ToPhase("arm", p), p \notin {"armed", "grabbing"},
             task["arm"] \notin {"armed", "grabbing"},
             UNCHANGED <<isGrabbing, statusGeneration, deliveredFrames, worker, history>>,
             streaming' => mode' \in {"arming", "armed", "fault"}
      PROVE  DeviceInv' /\ AnswerInv'
  <2>1. /\ task' = [task EXCEPT !["arm"] = p] /\ succeeded' = succeeded
        /\ queue' = queue /\ UNCHANGED guiThread
    BY <1>1, <1>6, TaskSteps
  <2>2. QED
    BY <1>2, <1>5, <1>6, <2>1
<1>7. ASSUME NEW ok \in BOOLEAN, NEW posts \in {<<>>, <<[kind |-> "start failed"]>>},
             Returns("arm", ok, posts), task["arm"] \notin {"armed", "grabbing"},
             UNCHANGED <<isGrabbing, statusGeneration, deliveredFrames, worker, history>>,
             DeviceIdle
      PROVE  DeviceInv' /\ AnswerInv'
  <2>1. [kind |-> "start failed"].kind # "acquisition"
    OBVIOUS
  <2>2. /\ task' = [task EXCEPT !["arm"] = "done"] /\ succeeded' = [succeeded EXCEPT !["arm"] = ok]
        /\ \A e \in Events(queue') : e \in Events(queue) \/ e.kind # "acquisition"
        /\ UNCHANGED guiThread
    BY <1>1, <1>7, <2>1, TaskSteps
  <2>3. succeeded' \in [Watchers -> BOOLEAN]
    BY <1>2, <2>2
  <2>4. streaming' => mode' \in {"arming", "armed", "fault"}
    BY <1>4, <1>7 DEF DeviceIdle
  <2>5. /\ task' = [task EXCEPT !["arm"] = "done"] /\ UNCHANGED guiThread
        /\ \A e \in Events(queue') : e \in Events(queue) \/ e.kind # "acquisition"
    BY <2>2
  <2>6. "done" \notin {"armed", "grabbing"}
    OBVIOUS
  <2>7. QED
    BY <1>5, <1>7, <2>3, <2>4, <2>5, <2>6
<1>8. CASE StartArm
  <2>1. /\ UNCHANGED <<isGrabbing, statusGeneration, deliveredFrames, worker, history>>
        /\ DeviceIdle /\ task["arm"] = "idle"
        /\ Returns("arm", FALSE, <<>>) \/ ToPhase("arm", "arming")
    BY <1>8 DEF StartArm, Queued, SetContinuous, SameAcquisition, controller
  <2>2. QED
    BY <1>4, <1>6, <1>7, <2>1 DEF DeviceIdle
<1>9. CASE BeginArming
  <2>1. /\ UNCHANGED <<isGrabbing, statusGeneration, deliveredFrames, worker, history>>
        /\ task["arm"] = "arming"
        /\ \/ D!BeginArming /\ ToPhase("arm", "setup")
           \/ DeviceIdle /\ ToPhase("arm", "failed")
    BY <1>9 DEF BeginArming, TaskAt, controller
  <2>2. streaming' => mode' \in {"arming", "armed", "fault"}
    BY <1>4, <2>1 DEF DeviceIdle, D!BeginArming, D!Become
  <2>3. QED
    BY <1>6, <2>1, <2>2
<1>10. CASE SetUpArming
  <2>1. /\ UNCHANGED <<isGrabbing, statusGeneration, deliveredFrames, worker, history>>
        /\ task["arm"] = "setup"
        /\ \/ D!StartStreaming /\ ToPhase("arm", "setup")
           \/ D!AbandonArming /\ ToPhase("arm", "failed")
    BY <1>10 DEF SetUpArming, TaskAt, controller, SameAcquisition
  <2>2. streaming' => mode' \in {"arming", "armed", "fault"}
    BY <1>4, <2>1 DEF D!StartStreaming, D!AbandonArming, D!Become
  <2>3. QED
    BY <1>6, <2>1, <2>2
<1>11. CASE CompleteArming
  <2>1. /\ UNCHANGED <<isGrabbing, statusGeneration, deliveredFrames, frameArm>>
        /\ task["arm"] = "setup" /\ ToPhase("arm", "armed") /\ mode' = "armed"
        /\ worker' = [phase |-> "held", continuous |-> session.armLive, error |-> FALSE]
        /\ arms' = arms + 1
    BY <1>11 DEF CompleteArming, TaskAt, controller, D!Arm, D!Become
  <2>2. worker'.phase = "held" /\ IsWorker(worker')
    BY <2>1
  <2>3. arms' \in Nat /\ arms <= arms'
    BY <1>2, <2>1
  <2>4. /\ task' = [task EXCEPT !["arm"] = "armed"] /\ succeeded' = succeeded
        /\ queue' = queue /\ UNCHANGED guiThread
    BY <1>1, <2>1, TaskSteps
  <2>5. QED
    BY <1>2, <1>3, <2>1, <2>2, <2>3, <2>4, ArmTask
<1>12. CASE FailArming
  <2>1. /\ UNCHANGED <<isGrabbing, statusGeneration, deliveredFrames, worker, history>>
        /\ DeviceIdle /\ task["arm"] = "failed"
        /\ Returns("arm", FALSE, <<[kind |-> "start failed"]>>)
    BY <1>12 DEF FailArming, TaskAt, SetContinuous, SameAcquisition
  <2>2. QED
    BY <1>7, <2>1
<1>13. CASE ReturnArmed
  <2>1. /\ UNCHANGED <<isGrabbing, statusGeneration, deliveredFrames, worker, history>>
        /\ DeviceIdle /\ task["arm"] = "told" /\ Returns("arm", TRUE, <<>>)
    BY <1>13 DEF ReturnArmed, TaskAt, controller, SameAcquisition
  <2>2. QED
    BY <1>7, <2>1
<1>14. QED
  BY <1>8, <1>9, <1>10, <1>11, <1>12, <1>13

(* The status callback of an armed acquisition, in its two steps. *)
LEMMA ArmReportsDevice ==
  ASSUME Inv, TaskInv, DeviceInv, AnswerInv, ReportGrabbing \/ ReportActive
  PROVE  DeviceInv' /\ AnswerInv'
<1> USE DEF DeviceInv, AnswerInv
<1>1. {"connection", "disconnection", "arm", "featureRead"} \subseteq Watchers
  BY DEF Watchers
<1>2. task["arm"] \in {"armed", "grabbing"} /\ Running("arm")
  BY DEF ReportGrabbing, ReportActive, TaskAt, Running, TaskPhases
<1>3. \A v \in Watchers : v # "arm" => task[v] = "idle" /\ v \notin session.watchers
  BY <1>1, <1>2, Alone
<1>4. ~Late /\ ~Joined /\ worker.phase = "held"
  BY <1>1, <1>2, Alone DEF Working
<1>5. /\ UNCHANGED <<guiThread, mode, streaming, succeeded, arms, frameArm, deliveredFrames>>
      /\ \E p \in {"grabbing", "told"} : task' = [task EXCEPT !["arm"] = p]
  BY DEF ReportGrabbing, ReportActive, ToPhase, DeviceIdle, SameAcquisition, history
<1>6. /\ session' = session /\ gui' = gui /\ asked' = asked /\ tool' = tool
      /\ framesBefore' = framesBefore /\ armOfCall' = armOfCall
  BY <1>5 DEF guiThread, request
<1>7. \A v \in Watchers : v # "arm" => task'[v] = "idle"
  BY <1>3, <1>5 DEF TaskInv
<1>8. ~Late' /\ ~Joined' /\ gui' \notin {"release", "dead"}
  BY <1>4, <1>6 DEF Late, Joined
<1>9. Releasing'
  <2>1. task["disconnection"] = "idle" /\ task'["disconnection"] = "idle" /\ gui # "release"
    BY <1>1, <1>3, <1>4, <1>7 DEF Late
  <2>2. mode' = mode /\ streaming' = streaming
    BY <1>5
  <2>3. QED
    BY <1>8, <2>1, <2>2 DEF Releasing
<1>10. Opened'
  BY <1>1, <1>3, <1>5, <1>6, <1>7 DEF Opened, Reads
<1>11. ToolsKnown'
  BY <1>6, ToolsKept DEF Alive
<1>12. CASE ReportGrabbing
  <2>1. /\ task'["arm"] = "grabbing" /\ isGrabbing' = TRUE /\ task["arm"] = "armed"
        /\ worker' = worker /\ statusGeneration' = statusGeneration /\ queue' = queue
    BY <1>1, <1>12 DEF ReportGrabbing, ToPhase, TaskAt, TaskInv, SameAcquisition
  <2>2. Working'
    BY <1>4, <2>1 DEF Working
  <2>3. Counted'
    BY <1>5, <1>6, <2>1, CountedKept DEF Alive
  <2>4. Reported'
    BY <2>1, ReportedKept
  <2>5. QED
    BY <1>9, <1>10, <1>11, <2>2, <2>3, <2>4
<1>13. CASE ReportActive
  <2> DEFINE g == statusGeneration + 1
             e == [kind |-> "acquisition", active |-> TRUE, continuous |-> isContinuous,
                   generation |-> g, error |-> FALSE]
  <2>1. /\ task'["arm"] = "told" /\ isGrabbing' = isGrabbing /\ task["arm"] = "grabbing"
        /\ worker' = [worker EXCEPT !.phase = "running"] /\ statusGeneration' = g
        /\ queue' = Posted(<<e>>)
    BY <1>1, <1>13 DEF ReportActive, TaskAt, TaskInv, Acquisition
  <2>2. worker'.phase = "running" /\ worker' = [f \in {"phase", "continuous", "error"} |-> worker'[f]]
    BY <2>1 DEF Working
  <2>3. Working'
    BY <2>1, <2>2 DEF Working
  <2>4. Counted'
    BY <1>4, <1>5, <1>6, <2>2, CountedKept DEF Alive
  <2>5. Events(queue') \subseteq Events(queue) \cup {e}
    BY <2>1, EventsPosted DEF TaskInv
  <2>6. e.active = TRUE /\ e.generation = g
    OBVIOUS
  <2>7. g \in Nat /\ statusGeneration < g /\ statusGeneration \in Nat
    BY DEF Reported
  <2> HIDE DEF e, g
  <2>8. ASSUME NEW d \in Events(queue'), d.kind = "acquisition"
        PROVE  /\ d.generation \in Nat /\ d.generation <= g
               /\ ~(d.generation = g /\ ~d.active)
    <3>1. CASE d = e
      BY <2>6, <2>7, <3>1
    <3>2. CASE d \in Events(queue)
      BY <2>7, <2>8, <3>2 DEF Reported
    <3>3. QED
      BY <2>5, <2>8, <3>1, <3>2
  <2>9. Events(queue)' = Events(queue')
    BY DEF Events
  <2>10. Reported'
    BY <2>1, <2>7, <2>8, <2>9 DEF Reported
  <2>11. QED
    BY <1>9, <1>10, <1>11, <2>3, <2>4, <2>10
<1>14. QED
  BY <1>12, <1>13


------------------------------------------------------------------------------
(* The worker, and the steps that neither a task nor the session takes. *)

(* A polling worker moves on; the device it has armed stays open. *)
LEMMA WorkerMoves ==
  ASSUME DeviceInv, AnswerInv, worker.phase \notin {"none", "held"},
         NEW phase \in {"running", "leaving", "ended", "telling", "none"},
         worker'.phase = phase, worker' = [f \in {"phase", "continuous", "error"} |-> worker'[f]],
         UNCHANGED <<pool, guiThread>>,
         mode' = mode \/ (mode = "armed" /\ mode' \in {"ready", "fault"}),
         streaming' => streaming /\ mode' # "ready",
         phase \in {"running", "leaving", "ended"} => worker.phase \in {"running", "leaving"},
         IF phase = "telling" THEN ~isGrabbing' ELSE isGrabbing' <=> isGrabbing,
         phase = "telling" => worker.phase = "ended"
  PROVE  DeviceInv' /\ ToolsKnown'
<1> USE DEF DeviceInv, AnswerInv
<1>1. task' = task /\ succeeded' = succeeded
  BY DEF pool
<1>2. /\ session' = session /\ gui' = gui /\ asked' = asked /\ tool' = tool
  BY DEF guiThread, request
<1>3. ~Joined /\ ~Joined' /\ gui' \notin {"release", "dead"}
  BY <1>2 DEF Releasing, Joined
<1>4. Releasing'
  <2>1. Late' => \A w \in Watchers : task'[w] \in {"idle", "done"} /\ ~Queued(w)'
    BY <1>1, <1>2 DEF Releasing, Late, Queued
  <2>2. mode = "closed" => mode' = "closed"
    OBVIOUS
  <2>3. streaming' => \/ mode' \in {"arming", "armed", "fault"}
                      \/ mode' = "closed" /\ task["disconnection"] = "closing"
    BY <1>3 DEF Releasing, Joined
  <2>4. task["disconnection"] \in {"closing", "done"} => mode' = "closed"
    BY <2>2 DEF Releasing
  <2>5. QED
    BY <1>1, <1>3, <2>1, <2>3, <2>4 DEF Releasing
<1>5. task["arm"] \notin {"armed", "grabbing"}
  BY DEF Working
<1>6. Working'
  BY <1>1, <1>5 DEF Working
<1>7. Opened'
  <2>1. mode' = "closed" => mode = "closed"
    OBVIOUS
  <2>2. QED
    BY <1>1, <1>2, <1>3, <2>1 DEF Opened
<1>8. QED
  BY <1>2, <1>4, <1>6, <1>7, ToolsKept DEF Alive

LEMMA WorkerDevice ==
  ASSUME TaskInv, DeviceInv, AnswerInv, WorkerStep \/ SensorStep
  PROVE  DeviceInv' /\ AnswerInv'
<1> DEFINE IsWorker(v) == v = [f \in {"phase", "continuous", "error"} |-> v[f]]
<1>1. IsWorker(worker) /\ QueueOK(queue, task) /\ (streaming => mode # "ready")
  BY DEF DeviceInv, Working, TaskInv, Releasing
<1>2. UNCHANGED <<pool, guiThread, arms>>
  BY DEF WorkerStep, SensorStep, ReceiveFrame, FailPolling, LeavePolling, StopStreaming, Disarm,
     ReportIdle, ReportInactive, WorkerAt
<1>3. /\ session' = session /\ gui' = gui /\ tool' = tool /\ task' = task
      /\ framesBefore' = framesBefore /\ armOfCall' = armOfCall
  BY <1>2 DEF guiThread, request, pool
(* A step that delivers and reports nothing. *)
<1>4. ASSUME worker'.phase \in {"held", "running"} => worker.phase \in {"held", "running"},
             UNCHANGED <<frameArm, deliveredFrames, statusGeneration, queue>>,
             isGrabbing' => isGrabbing
      PROVE  Counted' /\ Reported'
  <2>1. Counted'
    BY <1>2, <1>3, <1>4, CountedKept DEF Alive, AnswerInv
  <2>2. Reported'
    BY <1>3, <1>4, ReportedKept DEF AnswerInv
  <2>3. QED
    BY <2>1, <2>2
<1>5. ASSUME worker.phase = "running", worker'.phase = "leaving", IsWorker(worker'),
             DeviceIdle, UNCHANGED <<controller, queue, frameArm>>
      PROVE  DeviceInv' /\ AnswerInv'
  <2>1. /\ UNCHANGED <<deliveredFrames, statusGeneration, queue, frameArm>>
        /\ isGrabbing' = isGrabbing /\ mode' = mode /\ streaming' = streaming
    BY <1>5 DEF DeviceIdle, controller
  <2>2. DeviceInv' /\ ToolsKnown'
    BY <1>1, <1>2, <1>5, <2>1, WorkerMoves
  <2>3. QED
    BY <1>4, <1>5, <2>1, <2>2 DEF AnswerInv
<1>6. CASE LeavePolling \/ FailPolling
  <2>1. /\ worker.phase = "running" /\ DeviceIdle /\ UNCHANGED <<controller, queue, frameArm>>
        /\ \/ worker' = [worker EXCEPT !.phase = "leaving"]
           \/ worker' = [worker EXCEPT !.phase = "leaving", !.error = TRUE]
    BY <1>6 DEF LeavePolling, FailPolling, WorkerAt
  <2>2. worker'.phase = "leaving" /\ IsWorker(worker')
    BY <1>1, <2>1
  <2>3. QED
    BY <1>5, <2>1, <2>2
<1>7. CASE ReceiveFrame
  <2> DEFINE b == worker.continuous
             c == software /\ isContinuous
             p == IF b THEN "running" ELSE "leaving"
  <2>1. /\ worker.phase = "running" /\ DeviceIdle
        /\ UNCHANGED <<isGrabbing, statusGeneration>>
        /\ frameArm' = arms \/ UNCHANGED <<deliveredFrames, frameArm>>
        /\ worker' = [worker EXCEPT !.phase = p]
        /\ queue' = IF c THEN Posted(<<[kind |-> "frame"]>>) ELSE queue
    BY <1>7 DEF ReceiveFrame, WorkerAt
  <2> HIDE DEF b, c
  <2>2. worker'.phase = p /\ IsWorker(worker') /\ p \in {"running", "leaving"}
    BY <1>1, <2>1
  <2>3. mode' = mode /\ streaming' = streaming /\ isGrabbing' = isGrabbing
    BY <2>1 DEF DeviceIdle
  <2> HIDE DEF p
  <2>4. DeviceInv' /\ ToolsKnown'
    BY <1>1, <1>2, <2>1, <2>2, <2>3, WorkerMoves
  <2>5. Counted'
    <3>1. arms' = arms
      BY <1>2
    <3>2. /\ arms \in Nat /\ armOfCall \in Nat /\ frameArm \in Nat /\ armOfCall <= arms
          /\ Alive /\ session.toolCall # NoCall /\ tool[session.toolCall] = "single" =>
               /\ armOfCall < arms
               /\ armOfCall < frameArm \/ deliveredFrames = framesBefore
      BY <2>1 DEF AnswerInv, Counted
    <3>3. frameArm' = arms \/ (deliveredFrames' = deliveredFrames /\ frameArm' = frameArm)
      BY <2>1
    <3>4. QED
      BY <1>3, <3>1, <3>2, <3>3 DEF Counted, Alive
  <2>6. Reported'
    <3>1. [kind |-> "frame"].kind # "acquisition"
      OBVIOUS
    <3>2. Events(Posted(<<[kind |-> "frame"]>>)) \subseteq Events(queue) \cup {[kind |-> "frame"]}
      BY <1>1, EventsPosted
    <3>3. \A e \in Events(queue') : e \in Events(queue) \/ e.kind # "acquisition"
      BY <2>1, <3>1, <3>2
    <3>4. QED
      BY <1>3, <2>1, <2>3, <3>3, ReportedKept DEF AnswerInv
  <2>7. QED
    BY <2>4, <2>5, <2>6 DEF AnswerInv
<1>8. CASE StopStreaming \/ Disarm
  <2>1. /\ worker.phase = "leaving" /\ UNCHANGED <<controller, queue, frameArm>>
        /\ \/ D!StopStreaming /\ worker' = worker
           \/ D!Fail /\ worker' = [worker EXCEPT !.phase = "ended", !.error = TRUE]
           \/ D!Disarm /\ worker' = [worker EXCEPT !.phase = "ended"]
    BY <1>8 DEF StopStreaming, Disarm, WorkerAt
  <2>2. worker'.phase \in {"leaving", "ended"} /\ IsWorker(worker')
    BY <1>1, <2>1
  <2>3. /\ mode = "armed" /\ mode' \in {"armed", "ready", "fault"}
        /\ streaming' => streaming /\ mode' # "ready"
    BY <2>1 DEF D!StopStreaming, D!Fail, D!Disarm, D!Become
  <2>4. /\ UNCHANGED <<deliveredFrames, statusGeneration, queue, frameArm>>
        /\ isGrabbing' = isGrabbing
    BY <2>1 DEF controller
  <2>5. DeviceInv' /\ ToolsKnown'
    BY <1>2, <2>1, <2>2, <2>3, <2>4, WorkerMoves
  <2>6. QED
    BY <1>4, <2>2, <2>4, <2>5 DEF AnswerInv
<1>9. CASE ReportIdle
  <2>1. /\ worker.phase = "ended" /\ isGrabbing' = FALSE
        /\ worker' = [worker EXCEPT !.phase = "telling"]
        /\ mode' = mode /\ streaming' = streaming
        /\ UNCHANGED <<deliveredFrames, statusGeneration, queue, frameArm>>
    BY <1>9 DEF ReportIdle, WorkerAt, DeviceIdle
  <2>2. worker'.phase = "telling" /\ IsWorker(worker')
    BY <1>1, <2>1
  <2>3. DeviceInv' /\ ToolsKnown'
    BY <1>1, <1>2, <2>1, <2>2, WorkerMoves
  <2>4. QED
    BY <1>4, <2>1, <2>2, <2>3 DEF AnswerInv
<1>10. CASE ReportInactive
  <2> DEFINE g == statusGeneration + 1
             e == Acquisition(FALSE, worker.error)
  <2>1. /\ worker.phase = "telling" /\ isGrabbing' = isGrabbing /\ statusGeneration' = g
        /\ worker' = [phase |-> "none", continuous |-> FALSE, error |-> FALSE]
        /\ mode' = mode /\ streaming' = streaming /\ queue' = Posted(<<e>>)
        /\ UNCHANGED <<deliveredFrames, frameArm>>
    BY <1>10 DEF ReportInactive, WorkerAt, DeviceIdle
  <2>2. worker'.phase = "none" /\ IsWorker(worker')
    BY <2>1
  <2>3. DeviceInv' /\ ToolsKnown'
    BY <1>1, <1>2, <2>1, <2>2, WorkerMoves
  <2>4. Counted'
    BY <1>2, <1>3, <2>1, <2>2, CountedKept DEF Alive, AnswerInv
  <2>5. e.generation = g
    BY DEF Acquisition
  <2>6. g \in Nat /\ statusGeneration < g /\ statusGeneration \in Nat
    BY DEF AnswerInv, Reported
  <2>7. ~isGrabbing'
    BY <2>1 DEF DeviceInv, Working
  <2> HIDE DEF e, g
  <2>8. Events(queue') \subseteq Events(queue) \cup {e}
    BY <1>1, <2>1, EventsPosted
  <2>9. ASSUME NEW d \in Events(queue'), d.kind = "acquisition"
        PROVE  d.generation \in Nat /\ d.generation <= g
    <3>1. CASE d = e
      BY <2>5, <2>6, <3>1
    <3>2. CASE d \in Events(queue)
      BY <2>6, <2>9, <3>2 DEF AnswerInv, Reported
    <3>3. QED
      BY <2>8, <2>9, <3>1, <3>2
  <2>10. Events(queue)' = Events(queue')
    BY DEF Events
  <2>11. Reported'
    BY <2>1, <2>6, <2>7, <2>9, <2>10 DEF Reported
  <2>12. QED
    BY <2>3, <2>4, <2>11 DEF AnswerInv
<1>11. QED
  BY <1>6, <1>7, <1>8, <1>9, <1>10 DEF WorkerStep, SensorStep


LEMMA DestructorDevice ==
  ASSUME TaskInv, DeviceInv, AnswerInv,
         \/ AwaitWatchers \/ AwaitParameters \/ JoinForDestruction
         \/ CloseForDestruction \/ ReleaseForDestruction
  PROVE  DeviceInv' /\ AnswerInv'
<1> USE DEF DeviceInv, AnswerInv
<1>1. /\ session' = session /\ asked' = asked /\ tool' = tool /\ framesBefore' = framesBefore
      /\ armOfCall' = armOfCall /\ task' = task /\ succeeded' = succeeded /\ queue' = queue
      /\ worker' = worker /\ arms' = arms /\ frameArm' = frameArm
      /\ statusGeneration' = statusGeneration /\ deliveredFrames' = deliveredFrames
      /\ ~Alive'
  BY DEF AwaitWatchers, AwaitParameters, JoinForDestruction, CloseForDestruction,
     ReleaseForDestruction, Destructor, pool, request, history, controller, ClearFlags, Alive
<1>2. ToolsKnown' /\ Counted'
  BY <1>1, ToolsKept, CountedKept
<1>3. {"connection", "disconnection", "arm"} \subseteq Watchers
  BY DEF Watchers
<1>4. ASSUME Late' => \A w \in Watchers : task[w] \in {"idle", "done"} /\ ~Queued(w),
             isGrabbing' => isGrabbing, isGrabbing => isGrabbing' \/ (worker.phase = "none" /\ Late),
             Joined' => worker.phase = "none", Joined => Joined',
             gui' \in {"release", "dead"} => mode' = "closed",
             mode' = "closed" => mode = "closed" \/ Joined,
             mode = "closed" => mode' = "closed",
             streaming' => \/ mode' \in {"arming", "armed", "fault"}
                           \/ mode' = "closed" /\ (task["disconnection"] = "closing" \/ gui' = "release")
      PROVE  DeviceInv' /\ Reported'
  <2>1. Late => task["arm"] # "grabbing"
    BY <1>3 DEF Releasing
  <2>2. Reported'
    BY <1>1, <1>4, ReportedKept
  <2>3. Working'
    BY <1>1, <1>4, <2>1 DEF Working
  <2>4. Opened'
    BY <1>1, <1>4 DEF Opened, Reads
  <2>5. Late' => \A w \in Watchers : task'[w] \in {"idle", "done"} /\ ~Queued(w)'
    BY <1>1, <1>4 DEF Queued
  <2>6. Releasing'
    BY <1>1, <1>4, <2>5 DEF Releasing
  <2>7. QED
    BY <2>2, <2>3, <2>4, <2>6
<1>5. CASE AwaitWatchers
  <2>1. /\ gui = "wait" /\ gui' = "parameters" /\ mode' = mode /\ streaming' = streaming
        /\ isGrabbing' = isGrabbing
        /\ \A w \in session.watchers : task[w] = "done"
    BY <1>5 DEF AwaitWatchers, Destructor, controller
  <2>2. \A w \in Watchers : task[w] \in {"idle", "done"} /\ ~Queued(w)
    BY <2>1 DEF TaskInv, Queued
  <2>3. streaming' => \/ mode' \in {"arming", "armed", "fault"}
                      \/ mode' = "closed" /\ (task["disconnection"] = "closing" \/ gui' = "release")
    BY <2>1 DEF Releasing
  <2>4. QED
    BY <1>2, <1>4, <2>1, <2>2, <2>3 DEF Joined
<1>6. CASE AwaitParameters \/ JoinForDestruction
  <2>1. /\ \/ gui = "parameters" /\ gui' = "stop" /\ isGrabbing' = isGrabbing
           \/ gui = "stop" /\ gui' = "close" /\ worker.phase = "none" /\ isGrabbing' = FALSE
        /\ mode' = mode /\ streaming' = streaming
    BY <1>6 DEF AwaitParameters, JoinForDestruction, Destructor, controller, ClearFlags
  <2>2. Late /\ \A w \in Watchers : task[w] \in {"idle", "done"} /\ ~Queued(w)
    BY <2>1 DEF Releasing, Late
  <2>3. streaming' => \/ mode' \in {"arming", "armed", "fault"}
                      \/ mode' = "closed" /\ (task["disconnection"] = "closing" \/ gui' = "release")
    BY <2>1 DEF Releasing
  <2>4. QED
    BY <1>2, <1>4, <2>1, <2>2, <2>3 DEF Joined
<1>7. CASE CloseForDestruction \/ ReleaseForDestruction
  <2>1. /\ isGrabbing' = isGrabbing
        /\ \/ gui = "close" /\ gui' = "release" /\ D!Close
           \/ gui = "close" /\ gui' = "dead" /\ mode = "closed" /\ mode' = mode /\ streaming' = streaming
           \/ gui = "release" /\ gui' = "dead" /\ D!Release
    BY <1>7 DEF CloseForDestruction, ReleaseForDestruction, Destructor, controller, IsOpened, DeviceIdle
  <2>2. Late /\ Joined /\ Joined' /\ \A w \in Watchers : task[w] \in {"idle", "done"} /\ ~Queued(w)
    BY <2>1 DEF Releasing, Late, Joined
  <2>3. mode' = "closed" /\ worker.phase = "none"
    BY <2>1, <2>2 DEF D!Close, D!Become, D!Release, Releasing
  <2>4. task["disconnection"] # "closing"
    BY <1>3, <2>2
  <2>5. streaming' => gui' = "release"
    BY <2>1, <2>4 DEF Releasing, D!Release
  <2>6. QED
    BY <1>2, <1>4, <2>1, <2>2, <2>3, <2>5
<1>8. QED
  BY <1>5, <1>6, <1>7

(* Parameter work, the steps of a destroyed session, and stuttering. *)
LEMMA IdleDevice ==
  ASSUME TaskInv, DeviceInv, AnswerInv, ParameterWork \/ Destroyed \/ UNCHANGED vars
  PROVE  DeviceInv' /\ AnswerInv'
<1> USE DEF DeviceInv, AnswerInv
<1>1. Control.kind # "acquisition" /\ [kind |-> "applied"].kind # "acquisition"
  BY DEF Control
<1>2. /\ UNCHANGED <<mode, streaming, worker, controller, pool, guiThread, history>>
      /\ queue' \in {queue, Posted(<<Control>>), Posted(<<[kind |-> "applied"]>>)}
  <2>1. CASE ParameterWork
    <3>1. ASSUME NEW p, NEW from, NEW to, ParameterStep(p, from, to)
          PROVE  UNCHANGED <<mode, streaming, worker, controller, pool, guiThread, history>>
      BY <3>1 DEF ParameterStep, device
    <3>2. PICK p : RunParameter(p) \/ ReportParameter(p) \/ ReportApplied(p) \/ ReturnParameter(p)
      BY <2>1 DEF ParameterWork
    <3>3. QED
      BY <3>1, <3>2 DEF RunParameter, ReportParameter, ReportApplied, ReturnParameter
  <2>2. CASE Destroyed \/ UNCHANGED vars
    BY <2>2 DEF Destroyed, vars, device
  <2>3. QED
    BY <2>1, <2>2
<1>3. /\ session' = session /\ asked' = asked /\ tool' = tool /\ framesBefore' = framesBefore
      /\ armOfCall' = armOfCall /\ task' = task /\ succeeded' = succeeded /\ gui' = gui
      /\ worker' = worker /\ arms' = arms /\ frameArm' = frameArm /\ isGrabbing' = isGrabbing
      /\ statusGeneration' = statusGeneration /\ deliveredFrames' = deliveredFrames
      /\ mode' = mode /\ streaming' = streaming
  BY <1>2 DEF controller, pool, guiThread, request, history
<1>4. /\ Events(Posted(<<Control>>)) \subseteq Events(queue) \cup {Control}
      /\ Events(Posted(<<[kind |-> "applied"]>>)) \subseteq Events(queue) \cup {[kind |-> "applied"]}
  BY EventsPosted DEF TaskInv
<1>5. \A e \in Events(queue') : e \in Events(queue) \/ e.kind # "acquisition"
  BY <1>1, <1>2, <1>4
<1>6. ToolsKnown' /\ Counted' /\ Reported'
  BY <1>3, <1>5, ToolsKept, CountedKept, ReportedKept DEF Alive
<1>7. Releasing'
  <2>1. \A w : Queued(w)' <=> Queued(w)
    BY <1>3 DEF Queued
  <2>2. QED
    BY <1>3, <2>1 DEF Releasing, Late, Joined
<1>8. Working' /\ Opened'
  BY <1>3 DEF Working, Opened, Reads, Joined
<1>9. QED
  BY <1>6, <1>7, <1>8


------------------------------------------------------------------------------
(* What the GUI thread does with the session. *)

Known(s) == IsSession(s) /\ s.completion \in [Completions -> Nat]

(* t has no call that s has not, but for call in the completion x, and reads *)
(* the features of the device it connected to only while one is open.        *)
Follows(s, t, x, call) ==
  /\ Known(t)
  /\ \A c \in Completions :
       t.completion[c] \in {NoCall, s.completion[c]} \/ (c = x /\ t.completion[c] = call)
  /\ t.toolCall \in {NoCall, s.toolCall}
  /\ Reads(t) => Reads(s) \/ IsOpened

After(s, t) == Follows(s, t, "none", NoCall)

LEMMA AfterTrans ==
  ASSUME NEW s, NEW t, NEW u, NEW x, NEW call
  PROVE  /\ After(s, t) /\ After(t, u) => After(s, u)
         /\ After(s, t) /\ Follows(t, u, x, call) => Follows(s, u, x, call)
         /\ Follows(s, t, x, call) /\ After(t, u) => Follows(s, u, x, call)
<1>1. ASSUME NEW y, NEW k, After(s, t), Follows(t, u, y, k) PROVE Follows(s, u, y, k)
  BY <1>1 DEF After, Follows, Completions
<1>2. ASSUME Follows(s, t, x, call), After(t, u) PROVE Follows(s, u, x, call)
  BY <1>2 DEF After, Follows, Completions
<1>3. ASSUME After(s, t), After(t, u) PROVE After(s, u)
  BY <1>1, <1>3 DEF After
<1>4. QED
  BY <1>1, <1>2, <1>3

LEMMA SameCallsAfter ==
  ASSUME NEW s, Known(s), NEW t, SameCalls(s, t)
  PROVE  After(s, t)
BY DEF SameCalls, SameWork, After, Follows, Known, Reads

LEMMA SelfAfter ==
  ASSUME NEW s, Known(s)
  PROVE  After(s, s)
BY DEF After, Follows

LEMMA ShownAfter ==
  ASSUME NEW s, Known(s), NEW v
  PROVE  /\ After(s, [s EXCEPT !.ui = v])
         /\ After(s, [s EXCEPT !.ui.refreshOn = v])
         /\ After(s, [s EXCEPT !.ui.connectChecked = v])
         /\ After(s, [s EXCEPT !.ui.liveChecked = v])
         /\ After(s, [s EXCEPT !.widget = v])
         /\ After(s, Shown(s, v)) /\ After(s, ControlChanged(s))
<1>1. IsSession(s)
  BY DEF Known
<1>2. /\ SameCalls(s, [s EXCEPT !.ui = v])
      /\ SameCalls(s, [s EXCEPT !.ui.refreshOn = v])
      /\ SameCalls(s, [s EXCEPT !.ui.connectChecked = v])
      /\ SameCalls(s, [s EXCEPT !.ui.liveChecked = v])
      /\ SameCalls(s, [s EXCEPT !.widget = v])
  BY <1>1, FieldSame
<1>3. SameCalls(s, Shown(s, v)) /\ SameCalls(s, ControlChanged(s))
  BY <1>1, ShownSameCalls DEF ControlChanged
<1>4. ASSUME NEW t, SameCalls(s, t) PROVE After(s, t)
  BY <1>4, SameCallsAfter
<1>5. QED
  BY <1>2, <1>3, <1>4

LEMMA NoToolCallAfter ==
  ASSUME NEW s, Known(s)
  PROVE  After(s, [s EXCEPT !.toolCall = NoCall])
BY DEF After, Follows, Known, IsSession, Fields, Reads

LEMMA CompletedAfter ==
  ASSUME NEW s, Known(s), NEW c \in Completions
  PROVE  After(s, Completed(s, c))
<1> DEFINE k == s.completion[c]
           t == [s EXCEPT !.completion[c] = NoCall]
           u == [t EXCEPT !.toolCall = IF @ = k THEN NoCall ELSE @]
<1>1. After(s, t)
  BY DEF After, Follows, Known, IsSession, Fields, Reads, NoCall
<1>2. k # NoCall => Completed(s, c) = ControlChanged(u)
  BY DEF Completed, ToolFinished
<1>3. k = NoCall => Completed(s, c) = s
  BY DEF Completed
<1> HIDE DEF t, k
<1>4. After(t, u)
  BY <1>1 DEF After, Follows, Known, IsSession, Fields, Reads
<1> HIDE DEF u
<1>5. After(u, ControlChanged(u))
  BY <1>4, ShownAfter DEF After, Follows
<1>6. After(s, ControlChanged(u))
  BY <1>1, <1>4, <1>5, AfterTrans
<1>7. QED
  BY <1>2, <1>3, <1>6, SelfAfter

LEMMA AfterRefreshAfter ==
  ASSUME NEW s, Known(s), NEW for \in Refreshes
  PROVE  After(s, AfterRefresh(s, for))
<1>1. CASE for = "connect"
  <2> DEFINE t == [s EXCEPT !.ui = SetAcquisitionAvailable(@, TRUE)]
  <2>1. After(s, t)
    BY ShownAfter
  <2>2. AfterRefresh(s, for) = Completed(t, "connect")
    BY <1>1 DEF AfterRefresh
  <2> HIDE DEF t
  <2>3. After(t, Completed(t, "connect"))
    BY <2>1, CompletedAfter DEF After, Follows, Completions
  <2>4. QED
    BY <2>1, <2>2, <2>3, AfterTrans
<1>2. CASE for # "connect"
  BY <1>2, ShownAfter, SelfAfter DEF AfterRefresh, Refreshes
<1>3. QED
  BY <1>1, <1>2

(* The features are read of an open device only. *)
LEMMA RefreshAfter ==
  ASSUME NEW s, Known(s), NEW for \in Refreshes
  PROVE  After(s, RefreshFeatureTree(s, for))
<1>1. CASE RefreshRefused(s)
  BY <1>1, AfterRefreshAfter DEF RefreshFeatureTree
<1>2. CASE ~RefreshRefused(s)
  <2> DEFINE t == RefreshFeatureTree(s, for)
  <2>1. IsOpened
    BY <1>2 DEF RefreshRefused
  <2>2. IsSession(t) /\ t.completion = s.completion /\ t.toolCall = s.toolCall
    BY <1>2 DEF RefreshFeatureTree, Started, Known, IsSession, Fields
  <2> HIDE DEF t
  <2>3. After(s, t)
    BY <2>1, <2>2 DEF After, Follows, Known
  <2>4. QED
    BY <2>3 DEF t
<1>3. QED
  BY <1>1, <1>2

LEMMA CompleteDisconnectAfter ==
  ASSUME NEW s, Known(s)
  PROVE  After(s, CompleteDisconnect(s))
<1> DEFINE t == CompleteDisconnect(s)
<1>1. CASE ~s.widget \/ "disconnection" \in s.watchers
  BY <1>1, SelfAfter DEF CompleteDisconnect
<1>2. CASE ~(~s.widget \/ "disconnection" \in s.watchers)
  <2>1. /\ IsSession(t) /\ t.completion = s.completion /\ t.toolCall = s.toolCall
        /\ t.refreshFor = s.refreshFor /\ t.watchers = s.watchers \cup {"disconnection"}
    BY <1>2 DEF CompleteDisconnect, Started, Known, IsSession, Fields
  <2> HIDE DEF t
  <2>2. After(s, t)
    BY <2>1 DEF After, Follows, Known, Reads
  <2>3. QED
    BY <2>2 DEF t
<1>3. QED
  BY <1>1, <1>2

LEMMA InactiveShownAfter ==
  ASSUME NEW s, Known(s), NEW error
  PROVE  After(s, InactiveShown(s, error))
<1>0. ASSUME NEW t, Known(t), NEW w PROVE After(t, [t EXCEPT !.ui = w])
  BY <1>0, ShownAfter
<1>1. CASE s.disconnectPending
  BY <1>1, CompleteDisconnectAfter DEF InactiveShown
<1>2. CASE ~s.disconnectPending
  <2> DEFINE shown == [s EXCEPT !.ui = SetAcquisitionState(@, FALSE, FALSE, FALSE)]
             v == IF Diagnostics /\ IsOpened /\ ~RequiresReconnect
                    THEN RefreshFeatureTree(shown, "nothing") ELSE shown
  <2>1. After(s, shown)
    BY <1>0
  <2>2. InactiveShown(s, error) \in {v, ErrorShown(v)}
    BY <1>2 DEF InactiveShown
  <2> HIDE DEF shown
  <2>3. Known(shown) /\ "nothing" \in Refreshes
    BY <2>1 DEF After, Follows, Refreshes
  <2>4. After(shown, v)
    BY <2>3, RefreshAfter, SelfAfter
  <2> HIDE DEF v
  <2>5. Known(v)
    BY <2>4 DEF After, Follows
  <2>6. After(v, ErrorShown(v))
    <3> DEFINE r == [v EXCEPT !.ui = SetAcquisitionAvailable(@, FALSE)]
    <3>1. After(v, r)
      BY <1>0, <2>5
    <3>2. ErrorShown(v) \in {v, [v EXCEPT !.ui = SetAcquisitionError(@)],
                             [r EXCEPT !.ui = SetAcquisitionError(@)]}
      BY DEF ErrorShown
    <3> HIDE DEF r
    <3>3. Known(r)
      BY <3>1 DEF After, Follows
    <3>4. After(r, [r EXCEPT !.ui = SetAcquisitionError(@)])
      BY <1>0, <3>3
    <3>5. After(v, [v EXCEPT !.ui = SetAcquisitionError(@)])
      BY <1>0, <2>5
    <3>6. After(v, [r EXCEPT !.ui = SetAcquisitionError(@)])
      BY <3>1, <3>4, AfterTrans
    <3>7. QED
      BY <2>5, <3>2, <3>5, <3>6, SelfAfter
  <2>7. QED
    BY <2>1, <2>2, <2>4, <2>6, AfterTrans
<1>3. QED
  BY <1>1, <1>2

(* An operation stores its call in one completion. *)
LEMMA OperationFollows ==
  ASSUME NEW s, Known(s), NEW call \in Nat, NEW live
  PROVE  /\ Follows(s, Discover(s, call), "discovery", call)
         /\ Follows(s, Connect(s, call), "connect", call)
         /\ Follows(s, Disconnect(s, call), "disconnect", call)
         /\ Follows(s, Arm(s, live, call), "arm", call)
         /\ Follows(s, [s EXCEPT !.completion["acquisitionEnd"] = call], "acquisitionEnd", call)
         /\ After(s, RunFeatureOperation(s, "write")) /\ After(s, RunFeatureOperation(s, "trigger"))
         /\ After(s, Initialize(s))
<1>1. ASSUME NEW t, IsSession(t), NEW c \in Completions,
             t.completion = [s.completion EXCEPT ![c] = call], t.toolCall = s.toolCall,
             t.refreshFor = s.refreshFor,
             NEW w, w # "featureRead", t.watchers \in {s.watchers, s.watchers \cup {w}}
      PROVE  Follows(s, t, c, call)
  BY <1>1 DEF Follows, Known, Reads
<1>2. {"discovery", "connect", "disconnect", "arm", "acquisitionEnd"} \subseteq Completions
  BY DEF Completions
<1>3. Follows(s, Discover(s, call), "discovery", call)
  <2> DEFINE t == Discover(s, call)
  <2>1. /\ IsSession(t) /\ t.completion = [s.completion EXCEPT !["discovery"] = call]
        /\ t.toolCall = s.toolCall /\ t.refreshFor = s.refreshFor
        /\ t.watchers = s.watchers \cup {"discovery"}
    BY DEF Discover, Started, Known, IsSession, Fields
  <2> HIDE DEF t
  <2>2. Follows(s, t, "discovery", call)
    BY <1>1, <1>2, <2>1
  <2>3. QED
    BY <2>2 DEF t
<1>4. Follows(s, Connect(s, call), "connect", call)
  <2> DEFINE t == Connect(s, call)
  <2>1. /\ IsSession(t) /\ t.completion = [s.completion EXCEPT !["connect"] = call]
        /\ t.toolCall = s.toolCall /\ t.refreshFor = s.refreshFor
        /\ t.watchers = s.watchers \cup {"connection"}
    BY DEF Connect, Started, Known, IsSession, Fields
  <2> HIDE DEF t
  <2>2. Follows(s, t, "connect", call)
    BY <1>1, <1>2, <2>1
  <2>3. QED
    BY <2>2 DEF t
<1>5. Follows(s, Arm(s, live, call), "arm", call)
  <2> DEFINE t == Arm(s, live, call)
  <2>1. /\ IsSession(t) /\ t.completion = [s.completion EXCEPT !["arm"] = call]
        /\ t.toolCall = s.toolCall /\ t.refreshFor = s.refreshFor
        /\ t.watchers = s.watchers \cup {"arm"}
    BY DEF Arm, Started, Known, IsSession, Fields
  <2> HIDE DEF t
  <2>2. Follows(s, t, "arm", call)
    BY <1>1, <1>2, <2>1
  <2>3. QED
    BY <2>2 DEF t
<1>6. ASSUME NEW c \in {"acquisitionEnd", "disconnect"}
      PROVE  Follows(s, [s EXCEPT !.completion[c] = call], c, call)
  <2> DEFINE t == [s EXCEPT !.completion[c] = call]
  <2>1. /\ IsSession(t) /\ t.completion = [s.completion EXCEPT ![c] = call]
        /\ t.toolCall = s.toolCall /\ t.refreshFor = s.refreshFor
        /\ t.watchers = s.watchers
    BY DEF Known, IsSession, Fields
  <2> HIDE DEF t
  <2>2. Follows(s, t, c, call)
    BY <1>1, <1>2, <2>1
  <2>3. QED
    BY <2>2 DEF t
<1>7. Follows(s, Disconnect(s, call), "disconnect", call)
  <2> DEFINE v == [s EXCEPT !.completion["disconnect"] = call]
             u == [v EXCEPT !.disconnectPending = TRUE, !.ui = SetDisconnectionPending(@)]
  <2>1. Follows(s, v, "disconnect", call)
    BY <1>6
  <2>2. Disconnect(s, call) \in {u, CompleteDisconnect(v)}
    BY DEF Disconnect
  <2> HIDE DEF v
  <2>3. Known(v)
    BY <2>1 DEF Follows
  <2>4. After(v, u)
    BY <2>3 DEF After, Follows, Known, IsSession, Fields, Reads
  <2>5. After(v, CompleteDisconnect(v))
    BY <2>3, CompleteDisconnectAfter
  <2>6. QED
    BY <2>1, <2>2, <2>4, <2>5, AfterTrans
<1>8. ASSUME NEW t, IsSession(t), t.completion = s.completion, t.toolCall = s.toolCall,
             t.refreshFor = s.refreshFor, NEW w, w # "featureRead",
             t.watchers = s.watchers \cup {w}
      PROVE  After(s, t)
  BY <1>8 DEF After, Follows, Known, Reads
<1>9. ASSUME NEW o \in {"write", "trigger"} PROVE After(s, RunFeatureOperation(s, o))
  <2> DEFINE t == RunFeatureOperation(s, o)
  <2>1. /\ IsSession(t) /\ t.completion = s.completion /\ t.toolCall = s.toolCall
        /\ t.refreshFor = s.refreshFor /\ t.watchers = s.watchers \cup {"feature"}
    BY DEF RunFeatureOperation, Started, Known, IsSession, Fields
  <2> HIDE DEF t
  <2>2. After(s, t)
    BY <1>8, <2>1
  <2>3. QED
    BY <2>2 DEF t
<1>10. After(s, Initialize(s))
  <2> DEFINE t == Initialize(s)
  <2>1. /\ IsSession(t) /\ t.completion = s.completion /\ t.toolCall = s.toolCall
        /\ t.refreshFor = s.refreshFor /\ t.watchers = s.watchers \cup {"initialization"}
    BY DEF Initialize, Started, Known, IsSession, Fields
  <2> HIDE DEF t
  <2>2. After(s, t)
    BY <1>8, <2>1
  <2>3. QED
    BY <2>2 DEF t
<1>11. QED
  BY <1>3, <1>4, <1>5, <1>6, <1>7, <1>9, <1>10


LEMMA NothingStored ==
  ASSUME NEW s, NEW t, NEW x, Follows(s, t, x, NoCall)
  PROVE  After(s, t)
BY DEF Follows, After

(* A step of the GUI thread leaves the device, the worker and the tasks alone, *)
(* but for the task of a watcher that has ended.                              *)
LEMMA GuiDevice ==
  ASSUME TaskInv, DeviceInv, AnswerInv, Alive, gui' \in {"idle", "rest", "wait"},
         UNCHANGED <<mode, streaming, worker, isGrabbing, statusGeneration>>,
         \/ UNCHANGED pool
         \/ \E w \in Watchers : Finish(w),
         \A e \in Events(queue') : e \in Events(queue) \/ e.kind # "acquisition",
         Reads(session') => Reads(session) \/ IsOpened
  PROVE  DeviceInv' /\ Reported'
<1> USE DEF DeviceInv, AnswerInv
<1>1. {"connection", "disconnection", "arm"} \subseteq Watchers
  BY DEF Watchers
<1>2. /\ \A w \in Watchers : task'[w] = task[w] \/ (task[w] = "done" /\ task'[w] = "idle")
      /\ succeeded' \in [Watchers -> BOOLEAN]
      /\ task'["connection"] = "done" => (succeeded'["connection"] => succeeded["connection"])
  <2>1. CASE UNCHANGED pool
    BY <2>1 DEF pool, Opened
  <2>2. CASE \E w \in Watchers : Finish(w)
    <3>1. PICK w \in Watchers : Finish(w)
      BY <2>2
    <3>2. /\ task' = [task EXCEPT ![w] = "idle"] /\ succeeded' = [succeeded EXCEPT ![w] = FALSE]
          /\ queue # <<>> /\ Head(queue).kind = "finished" /\ Head(queue).task = w
      BY <3>1 DEF Finish, Handle
    <3>3. task[w] = "done"
      BY <3>2, QueueTail DEF TaskInv
    <3>4. \A v \in Watchers : task'[v] = IF v = w THEN "idle" ELSE task[v]
      BY <3>2 DEF TaskInv
    <3>5. succeeded' \in [Watchers -> BOOLEAN] /\ \A v \in Watchers : v # w => succeeded'[v] = succeeded[v]
      BY <3>2 DEF Opened
    <3>6. QED
      BY <1>1, <3>3, <3>4, <3>5
  <2>3. QED
    BY <2>1, <2>2
<1>3. /\ ~Late' /\ ~Joined' /\ ~Late /\ ~Joined
      /\ gui' \notin {"release", "dead"} /\ gui # "release"
  BY DEF Late, Joined, Alive
<1>4. Releasing'
  BY <1>1, <1>2, <1>3 DEF Releasing
<1>5. Working'
  BY <1>1, <1>2 DEF Working
<1>6. Opened'
  <2>1. Reads(session)' => mode' # "closed"
    BY <1>3 DEF Opened, IsOpened, Reads
  <2>2. task'["connection"] = "opened" => mode' # "closed"
    BY <1>1, <1>2, <1>3 DEF Opened
  <2>3. task'["connection"] = "done" /\ succeeded'["connection"] => mode' # "closed"
    BY <1>1, <1>2, <1>3 DEF Opened
  <2>4. QED
    BY <1>2, <2>1, <2>2, <2>3 DEF Opened
<1>7. Reported'
  BY <1>1, <1>2, ReportedKept
<1>8. QED
  BY <1>4, <1>5, <1>6, <1>7

LEMMA GuiTools ==
  ASSUME AnswerInv, Alive, asked' = "none",
         UNCHANGED <<worker, arms, frameArm, deliveredFrames, tool, framesBefore, armOfCall>>,
         NEW x \in Completions \cup {"none"}, NEW call, Follows(session, session', x, call),
         call # NoCall /\ x # "none" => tool[call] \in Asks(x)
  PROVE  ToolsKnown' /\ Counted'
<1> USE DEF AnswerInv
<1>1. ToolsKnown'
  <2>1. ASSUME NEW c \in Completions, session'.completion[c] # NoCall
        PROVE  tool[session'.completion[c]] \in Asks(c)
    BY <2>1 DEF Follows, ToolsKnown, Completions
  <2>2. QED
    BY <2>1 DEF ToolsKnown
<1>2. Counted'
  BY DEF Follows, Counted
<1>3. QED
  BY <1>1, <1>2

LEMMA SessionKnown ==
  ASSUME CallInv
  PROVE  Known(session)
BY DEF CallInv, Shape, Known

LEMMA UserStepAfter ==
  ASSUME CallInv, UserStep
  PROVE  After(session, session')
<1> DEFINE A(t) == After(session, t)
<1>1. Known(session)
  BY SessionKnown
<1>2. NoCall \in Nat
  BY DEF NoCall
<1>3. ASSUME NEW s, A(s)
      PROVE  /\ Known(s) /\ A(Connect(s, NoCall)) /\ A(Disconnect(s, NoCall))
             /\ \A u : A([s EXCEPT !.ui = u]) /\ A(RunFeatureOperation(s, "trigger"))
  <2>1. Known(s)
    BY <1>3 DEF After, Follows
  <2>2. /\ After(s, Connect(s, NoCall)) /\ After(s, Disconnect(s, NoCall))
        /\ After(s, RunFeatureOperation(s, "trigger"))
    BY <1>2, <2>1, OperationFollows, NothingStored
  <2>3. \A u : After(s, [s EXCEPT !.ui = u])
    BY <2>1, ShownAfter
  <2> HIDE DEF A
  <2>4. \A t : After(s, t) => A(t)
    BY <1>3, AfterTrans DEF A
  <2>5. QED
    BY <2>1, <2>2, <2>3, <2>4
<1>4. ASSUME NEW s, A(s), NEW live PROVE A(ArmOrNothing(s, live)) /\ A(StopShown(s))
  <2>1. Known(s)
    BY <1>4 DEF After, Follows
  <2>2. After(s, Arm(s, live, NoCall))
    BY <1>2, <2>1, OperationFollows, NothingStored
  <2>3. \A u : After(s, [s EXCEPT !.ui = u])
    BY <2>1, ShownAfter
  <2>4. \A t : After(s, t) => A(t)
    BY <1>4, AfterTrans
  <2> HIDE DEF A
  <2>5. A(Arm(s, live, NoCall)) /\ \A u : A([s EXCEPT !.ui = u])
    BY <2>2, <2>3, <2>4
  <2>6. QED
    BY <1>4, <2>5 DEF ArmOrNothing, StopShown
<1>5. /\ A(session)
      /\ \A v : /\ A([session EXCEPT !.ui = v]) /\ A([session EXCEPT !.ui.refreshOn = v])
                /\ A([session EXCEPT !.ui.connectChecked = v])
                /\ A([session EXCEPT !.ui.liveChecked = v]) /\ A([session EXCEPT !.widget = v])
  BY <1>1, ShownAfter, SelfAfter
<1>6. /\ A(RunFeatureOperation(session, "write")) /\ A(Initialize(session))
      /\ A([session EXCEPT !.toolCall = NoCall])
  BY <1>1, <1>2, OperationFollows, NoToolCallAfter
<1> HIDE DEF A
<1>7. CASE ClickRefresh \/ DestroyWidget \/ DestroySession
  BY <1>5, <1>6, <1>7 DEF ClickRefresh, DestroyWidget, DestroySession, A
<1>8. CASE ClickConnect
  <2> DEFINE s == [session EXCEPT !.ui = SetConnectionPending([@ EXCEPT !.connectChecked = TRUE], TRUE)]
  <2>1. A(s)
    BY <1>5
  <2>2. \/ session' = Connect(s, NoCall)
        \/ \E u : session' = [s EXCEPT !.ui = u]
    BY <1>8 DEF ClickConnect
  <2> HIDE DEF s
  <2>3. QED
    BY <1>3, <2>1, <2>2 DEF A
<1>9. CASE ClickDisconnect
  <2> DEFINE s == [session EXCEPT !.ui.connectChecked = FALSE]
  <2>1. A(s)
    BY <1>5
  <2>2. \/ session' = Disconnect(s, NoCall)
        \/ \E u : session' = [s EXCEPT !.ui = u]
    BY <1>9 DEF ClickDisconnect
  <2> HIDE DEF s
  <2>3. QED
    BY <1>3, <2>1, <2>2 DEF A
<1>10. CASE ClickSingle
  <2>1. session' \in {ArmOrNothing(session, FALSE), StopShown(session)}
    BY <1>10 DEF ClickSingle
  <2>2. A(ArmOrNothing(session, FALSE)) /\ A(StopShown(session))
    BY <1>4, <1>5
  <2>3. QED
    BY <2>1, <2>2 DEF A
<1>11. CASE ToggleLive
  <2> DEFINE s == [session EXCEPT !.ui.liveChecked = ~@]
  <2>1. A(s)
    BY <1>5
  <2>2. session' \in {ArmOrNothing(s, TRUE), StopShown(s)}
    BY <1>11 DEF ToggleLive
  <2> HIDE DEF s
  <2>3. QED
    BY <1>4, <2>1, <2>2 DEF A
<1>12. CASE ClickInit \/ EditFeature
  BY <1>5, <1>6, <1>12 DEF ClickInit, EditFeature, A
<1>13. CASE ClickTrigger
  <2> DEFINE s == [session EXCEPT !.ui = SetSoftwareTriggerPending(@, TRUE)]
  <2>1. A(s)
    BY <1>5
  <2>2. \/ session' = RunFeatureOperation(s, "trigger")
        \/ \E u : session' = [s EXCEPT !.ui = u]
    BY <1>13 DEF ClickTrigger
  <2> HIDE DEF s
  <2>3. QED
    BY <1>3, <2>1, <2>2 DEF A
<1>14. QED
  BY <1>7, <1>8, <1>9, <1>10, <1>11, <1>12, <1>13 DEF UserStep


LEMMA UserStepDevice ==
  ASSUME TaskInv, CallInv, DeviceInv, AnswerInv, UserStep
  PROVE  DeviceInv' /\ AnswerInv'
<1>1. After(session, session')
  BY UserStepAfter
<1>2. /\ Alive /\ asked' = "none" /\ gui' \in {"idle", "rest", "wait"}
      /\ UNCHANGED <<mode, streaming, worker, controller, pool, history, request>>
      /\ queue' \in {queue, Append(queue, [kind |-> "refresh"]), <<>>}
  BY DEF UserStep, Click, ClickRefresh, ClickConnect, ClickDisconnect, ClickSingle, ToggleLive,
     ClickInit, EditFeature, ClickTrigger, DestroyWidget, DestroySession, GuiFree, Alive, device
<1>3. /\ UNCHANGED <<isGrabbing, statusGeneration, deliveredFrames, arms, frameArm>>
      /\ UNCHANGED <<tool, framesBefore, armOfCall>>
  BY <1>2 DEF controller, history, request
<1>4. \A e \in Events(queue') : e \in Events(queue) \/ e.kind # "acquisition"
  <2> DEFINE r == [kind |-> "refresh"]
  <2>1. r.kind = "refresh"
    OBVIOUS
  <2> HIDE DEF r
  <2>2. Events(Append(queue, r)) = Events(queue) \cup {r}
    BY EventsAppend DEF TaskInv, QueueOK
  <2>3. queue' \in {queue, Append(queue, r), <<>>}
    BY <1>2 DEF r
  <2>4. QED
    BY <2>1, <2>2, <2>3, EventsEmpty
<1>5. Reads(session') => Reads(session) \/ IsOpened
  BY <1>1 DEF After, Follows
<1>6. DeviceInv' /\ Reported'
  BY <1>2, <1>3, <1>4, <1>5, GuiDevice
<1>7. ToolsKnown' /\ Counted'
  BY <1>1, <1>2, <1>3, GuiTools DEF After
<1>8. QED
  BY <1>6, <1>7 DEF AnswerInv

LEMMA HostStepDevice ==
  ASSUME TaskInv, CallInv, DeviceInv, AnswerInv, HostStep
  PROVE  DeviceInv' /\ AnswerInv'
<1>1. Alive /\ asked = "none" /\ gui' = gui /\ Known(session)
  BY SessionKnown DEF HostStep, StopNothing, AskTool, NewCall, RequestParameter, MayRequest, Alive
<1>2. UNCHANGED <<mode, streaming, worker, controller, pool, history, queue>>
  BY DEF HostStep, StopNothing, AskTool, NewCall, RequestParameter, device
<1>3. UNCHANGED <<isGrabbing, statusGeneration, deliveredFrames, arms, frameArm>>
  BY <1>2 DEF controller, history
<1>4. ASSUME Reads(session') => Reads(session) \/ IsOpened
      PROVE  DeviceInv' /\ Reported'
  BY <1>1, <1>2, <1>3, <1>4, GuiDevice DEF Alive
<1>5. CASE \E kind \in Parameters : RequestParameter(kind)
  <2>1. /\ session' = Shown(session, ~isGrabbing) /\ asked' = "none"
        /\ UNCHANGED <<tool, framesBefore, armOfCall>>
    BY <1>1, <1>5 DEF RequestParameter, request
  <2>2. After(session, session')
    BY <1>1, <2>1, ShownAfter
  <2>3. ToolsKnown' /\ Counted'
    BY <1>1, <1>2, <1>3, <2>1, <2>2, GuiTools DEF After
  <2>4. DeviceInv' /\ Reported'
    BY <1>4, <2>2 DEF After, Follows
  <2>5. QED
    BY <2>3, <2>4 DEF AnswerInv
(* A new call is held by no completion yet, and no acquisition runs for it. *)
<1>6. ASSUME NEW t \in Tools, NewCall(t), session'.completion = session.completion,
             Reads(session') <=> Reads(session),
             \/ asked' = "none" /\ session'.toolCall = NoCall
             \/ asked' = t /\ session'.toolCall = calls + 1
      PROVE  DeviceInv' /\ AnswerInv'
  <2>1. /\ session.toolCall = NoCall /\ session.watchers = {} /\ calls < MaxCalls
        /\ tool' = [tool EXCEPT ![calls + 1] = t]
        /\ framesBefore' = deliveredFrames /\ armOfCall' = arms
        /\ t = "single" => ~isGrabbing
    BY <1>6 DEF NewCall, ExternalBusy, ControlBusy, ToolPossible
  <2>2. calls + 1 \in Calls /\ calls + 1 # NoCall
    BY <2>1, BoundsAssumption DEF CallInv, Calls, NoCall
  <2>3. tool'[calls + 1] = t /\ tool' = [k \in Calls |-> tool'[k]]
    BY <2>1, <2>2 DEF AnswerInv, ToolsKnown
  <2>4. Unheld(session)
    BY <1>1, <2>1 DEF CallInv, Shape, Held, Unheld
  <2>5. ToolsKnown'
    BY <1>6, <2>3, <2>4 DEF ToolsKnown, Unheld
  <2>6. t = "single" => worker.phase \notin {"held", "running"}
    <3>1. task["arm"] = "idle"
      BY <2>1 DEF TaskInv, Watchers
    <3>2. QED
      BY <2>1, <3>1 DEF DeviceInv, Working
  <2>7. Counted'
    BY <1>2, <1>3, <1>6, <2>1, <2>3, <2>6 DEF AnswerInv, Counted
  <2>8. QED
    BY <1>4, <1>6, <2>5, <2>7 DEF AnswerInv
<1>7. CASE StopNothing
  <2>1. NewCall("live-stop") /\ session' = session /\ asked' = asked /\ "live-stop" \in Tools
          /\ session.toolCall = NoCall
    BY <1>7 DEF StopNothing, NewCall, ExternalBusy
  <2>2. /\ session'.completion = session.completion /\ (Reads(session') <=> Reads(session))
        /\ asked' = "none" /\ session'.toolCall = NoCall
    BY <1>1, <2>1
  <2>3. QED
    BY <1>6, <2>1, <2>2
<1>8. CASE \E t \in Tools : AskTool(t)
  <2>1. PICK t \in Tools : AskTool(t)
    BY <1>8
  <2> DEFINE s == [session EXCEPT !.toolCall = calls + 1]
  <2>2. NewCall(t) /\ asked' = t /\ session' = ControlChanged(s)
    BY <2>1 DEF AskTool
  <2>3. /\ IsSession(s) /\ s.completion = session.completion /\ s.toolCall = calls + 1
        /\ s.watchers = session.watchers /\ s.refreshFor = session.refreshFor
    BY <1>1 DEF Known, IsSession, Fields
  <2> HIDE DEF s
  <2>4. SameCalls(s, session')
    BY <2>2, <2>3, ShownSameCalls DEF ControlChanged
  <2>5. QED
    BY <1>6, <2>2, <2>3, <2>4 DEF SameCalls, SameWork, Reads
<1>9. QED
  BY <1>5, <1>7, <1>8 DEF HostStep

LEMMA AdmissionDevice ==
  ASSUME TaskInv, CallInv, DeviceInv, AnswerInv, AskedTool, AdmitTool \/ RefuseTool
  PROVE  DeviceInv' /\ AnswerInv'
<1>1. Alive /\ asked # "none" /\ asked' = "none" /\ gui' = gui /\ Known(session)
        /\ asked \in AllTools
  BY SessionKnown DEF AdmitTool, RefuseTool, CallInv, AskedTool
<1>2. UNCHANGED <<mode, streaming, worker, controller, pool, history, queue, request>>
  BY DEF AdmitTool, RefuseTool, device
<1>3. /\ UNCHANGED <<isGrabbing, statusGeneration, deliveredFrames, arms, frameArm>>
      /\ UNCHANGED <<tool, framesBefore, armOfCall>>
  BY <1>2 DEF controller, history, request
<1>4. ASSUME NEW x \in Completions \cup {"none"}, NEW call, Follows(session, session', x, call),
             call # NoCall /\ x # "none" => tool[call] \in Asks(x)
      PROVE  DeviceInv' /\ AnswerInv'
  <2>1. DeviceInv' /\ Reported'
    BY <1>1, <1>2, <1>3, <1>4, GuiDevice DEF Alive, Follows
  <2>2. ToolsKnown' /\ Counted'
    BY <1>1, <1>2, <1>3, <1>4, GuiTools
  <2>3. QED
    BY <2>1, <2>2 DEF AnswerInv
<1>5. CASE RefuseTool
  <2> DEFINE s == [session EXCEPT !.toolCall = NoCall]
  <2>1. session' = ControlChanged(s)
    BY <1>5 DEF RefuseTool
  <2>2. After(session, s)
    BY <1>1, NoToolCallAfter
  <2> HIDE DEF s
  <2>3. After(s, ControlChanged(s))
    BY <2>2, ShownAfter DEF After, Follows
  <2>4. After(session, session')
    BY <2>1, <2>2, <2>3, AfterTrans
  <2>5. QED
    BY <1>4, <2>4 DEF After
<1>6. CASE AdmitTool
  <2> DEFINE call == session.toolCall
  <2>1. session' = ToolStarted(asked, session, call)
    BY <1>6 DEF AdmitTool
  <2>2. tool[call] = asked /\ call \in Nat
    BY <1>1 DEF AnswerInv, ToolsKnown, CallInv, Shape
  <2> HIDE DEF call
  <2>3. CASE asked = "discover"
    <3>1. Follows(session, session', "discovery", call)
      BY <1>1, <2>1, <2>2, <2>3, OperationFollows DEF ToolStarted
    <3>2. QED
      BY <1>4, <2>2, <2>3, <3>1 DEF Asks, Completions
  <2>4. CASE asked = "connect"
    <3> DEFINE s == [session EXCEPT !.ui = SetConnectionPending(@, TRUE)]
    <3>1. session' = Connect(s, call) /\ After(session, s)
      BY <1>1, <2>1, <2>4, ShownAfter DEF ToolStarted
    <3> HIDE DEF s
    <3>2. Follows(s, Connect(s, call), "connect", call)
      BY <2>2, <3>1, OperationFollows DEF After, Follows
    <3>3. Follows(session, session', "connect", call)
      BY <3>1, <3>2, AfterTrans
    <3>4. QED
      BY <1>4, <2>2, <2>4, <3>3 DEF Asks, Completions
  <2>5. CASE asked = "disconnect"
    <3>1. Follows(session, session', "disconnect", call)
      BY <1>1, <2>1, <2>2, <2>5, OperationFollows DEF ToolStarted
    <3>2. QED
      BY <1>4, <2>2, <2>5, <3>1 DEF Asks, Completions
  <2>6. CASE asked \in {"single", "live-start"}
    <3>1. session' = Arm(session, asked = "live-start", call)
      BY <2>1, <2>6 DEF ToolStarted
    <3> DEFINE live == asked = "live-start"
    <3>2. session' = Arm(session, live, call)
      BY <3>1
    <3> HIDE DEF live
    <3>3. Follows(session, session', "arm", call)
      BY <1>1, <2>2, <3>2, OperationFollows
    <3>4. QED
      BY <1>4, <2>2, <2>6, <3>3 DEF Asks, Completions
  <2>7. CASE asked = "live-stop"
    <3> DEFINE s == [session EXCEPT !.completion["acquisitionEnd"] = call]
    <3>1. session' = StopShown(s) /\ Follows(session, s, "acquisitionEnd", call)
      BY <1>1, <2>1, <2>2, <2>7, OperationFollows DEF ToolStarted
    <3> HIDE DEF s
    <3>2. Known(s)
      BY <3>1 DEF Follows
    <3>3. After(s, StopShown(s))
      BY <3>2, ShownAfter, SelfAfter DEF StopShown
    <3>4. Follows(session, session', "acquisitionEnd", call)
      BY <3>1, <3>3, AfterTrans
    <3>5. QED
      BY <1>4, <2>2, <2>7, <3>4 DEF Asks, Completions
  <2>8. QED
    BY <1>1, <2>3, <2>4, <2>5, <2>6, <2>7 DEF AllTools
<1>7. QED
  BY <1>5, <1>6

LEMMA HandlesDevice ==
  ASSUME TaskInv, CallInv, DeviceInv, AnswerInv, Handles
  PROVE  DeviceInv' /\ AnswerInv'
<1>1. /\ Alive /\ asked = "none" /\ asked' = "none" /\ gui' \in {"idle", "rest"}
      /\ Known(session)
  BY SessionKnown DEF Handles, HandleRefresh, HandleControl, HandleApplied, HandleFrame, HandleStale,
     HandleActive, HandleInactive, HandleStartFailed, HandleEnd, HandleRest, Handle, Keep,
     GuiFree, Alive
<1>2. /\ UNCHANGED <<mode, streaming, worker, controller, pool, history, request>>
      /\ queue' \in {queue, Tail(queue)}
  BY DEF Handles, HandleRefresh, HandleControl, HandleApplied, HandleFrame, HandleStale,
     HandleActive, HandleInactive, HandleStartFailed, HandleEnd, HandleRest, Handle, Keep, device
<1>3. /\ UNCHANGED <<isGrabbing, statusGeneration, deliveredFrames, arms, frameArm>>
      /\ UNCHANGED <<tool, framesBefore, armOfCall>>
  BY <1>2 DEF controller, history, request
<1>4. \A e \in Events(queue') : e \in Events(queue) \/ e.kind # "acquisition"
  <2>1. queue = <<>> => Tail(queue) = <<>>
    OBVIOUS
  <2>2. QED
    BY <1>2, <2>1, EventsTail, EventsEmpty DEF TaskInv, QueueOK
<1>5. After(session, session')
  <2>1. NoCall \in Nat /\ "nothing" \in Refreshes /\ "acquisitionEnd" \in Completions
    BY DEF NoCall, Refreshes, Completions
  <2>2. After(session, Discover(session, NoCall))
    BY <1>1, <2>1, OperationFollows, NothingStored
  <2>3. /\ After(session, session) /\ After(session, ControlChanged(session))
        /\ After(session, RefreshFeatureTree(session, "nothing"))
        /\ \A e : After(session, InactiveShown(session, e))
        /\ After(session, Completed(session, "acquisitionEnd"))
        /\ \A u : After(session, [session EXCEPT !.ui = u])
    BY <1>1, <2>1, SelfAfter, ShownAfter, RefreshAfter, InactiveShownAfter, CompletedAfter
  <2>4. CASE HandleRefresh \/ HandleControl \/ HandleApplied \/ HandleFrame \/ HandleStale
    BY <2>2, <2>3, <2>4 DEF HandleRefresh, HandleControl, HandleApplied, HandleFrame, HandleStale
  <2>5. CASE HandleActive \/ HandleInactive \/ HandleStartFailed \/ HandleEnd \/ HandleRest
    BY <2>3, <2>5 DEF HandleActive, HandleInactive, HandleStartFailed, HandleEnd, HandleRest
  <2>6. QED
    BY <2>4, <2>5 DEF Handles
<1>6. DeviceInv' /\ Reported'
  BY <1>1, <1>2, <1>3, <1>4, <1>5, GuiDevice DEF After, Follows
<1>7. ToolsKnown' /\ Counted'
  BY <1>1, <1>2, <1>3, <1>5, GuiTools DEF After
<1>8. QED
  BY <1>6, <1>7 DEF AnswerInv


(* A handler that ends a watcher first drops it. *)
LEMMA DroppedAfter ==
  ASSUME NEW s, Known(s), NEW t, IsSession(t),
         t.completion = s.completion, t.toolCall = s.toolCall, t.watchers \subseteq s.watchers,
         t.refreshFor = s.refreshFor \/ t.refreshFor = "nothing"
  PROVE  After(s, t)
BY DEF After, Follows, Known, Reads

LEMMA EndsFollow ==
  ASSUME CallInv, AnswerInv, Alive, Ends
  PROVE  \E x \in Completions \cup {"none"}, call \in Nat :
           /\ Follows(session, session', x, call)
           /\ call # NoCall /\ x # "none" => tool[call] \in Asks(x)
<1>1. Known(session) /\ IsSession(session)
  BY SessionKnown DEF Known
<1>2. ASSUME After(session, session')
      PROVE  \E x \in Completions \cup {"none"}, call \in Nat :
               /\ Follows(session, session', x, call)
               /\ call # NoCall /\ x # "none" => tool[call] \in Asks(x)
  BY <1>2 DEF After, NoCall
<1>3. ASSUME NEW s, After(session, s)
      PROVE  /\ Known(s) /\ IsSession(s)
             /\ \A t : After(s, t) => After(session, t)
             /\ \A c \in Completions : After(session, Completed(s, c))
             /\ \A for \in Refreshes : /\ After(session, RefreshFeatureTree(s, for))
                                       /\ After(session, AfterRefresh(s, for))
             /\ \A u : After(session, [s EXCEPT !.ui = u])
  <2>1. Known(s) /\ IsSession(s)
    BY <1>3 DEF After, Follows, Known
  <2>2. \A t : After(s, t) => After(session, t)
    BY <1>3, AfterTrans
  <2>3. /\ \A c \in Completions : After(s, Completed(s, c))
        /\ \A for \in Refreshes : /\ After(s, RefreshFeatureTree(s, for))
                                  /\ After(s, AfterRefresh(s, for))
        /\ \A u : After(s, [s EXCEPT !.ui = u])
    BY <2>1, CompletedAfter, RefreshAfter, AfterRefreshAfter, ShownAfter
  <2>4. QED
    BY <2>1, <2>2, <2>3
<1>4. ASSUME NEW w PROVE After(session, Dropped(session, w))
  <2> DEFINE t == Dropped(session, w)
  <2>1. /\ IsSession(t) /\ t.completion = session.completion /\ t.toolCall = session.toolCall
        /\ t.watchers \subseteq session.watchers /\ t.refreshFor = session.refreshFor
    BY <1>1 DEF Dropped, IsSession, Fields
  <2> HIDE DEF t
  <2>2. After(session, t)
    BY <1>1, <2>1, DroppedAfter
  <2>3. QED
    BY <2>2 DEF t
<1>5. /\ Completions = {"discovery", "connect", "disconnect", "arm", "acquisitionEnd"}
      /\ Refreshes = {"nothing", "connect", "initialized", "profile failed", "feature"}
  BY DEF Completions, Refreshes
<1>6. CASE FinishDiscovery
  <2>1. PICK u : session' = Completed([Dropped(session, "discovery") EXCEPT !.ui = u], "discovery")
    BY <1>6 DEF FinishDiscovery
  <2> DEFINE s == Dropped(session, "discovery")
             t == [s EXCEPT !.ui = u]
  <2>2. After(session, s)
    BY <1>4
  <2> HIDE DEF s
  <2>3. After(session, t)
    BY <1>3, <2>2
  <2> HIDE DEF t
  <2>4. After(session, Completed(t, "discovery"))
    BY <1>3, <1>5, <2>3
  <2>5. QED
    BY <1>2, <2>1, <2>4 DEF s, t
<1>7. CASE FinishConnection
  <2> DEFINE s == [Dropped(session, "connection") EXCEPT !.ui = SetConnectionPending(@, FALSE)]
             opened == [s EXCEPT !.ui = SetAcquisitionAvailable(SetConnectionState(@, TRUE), TRUE)]
             failed1 == [s EXCEPT !.ui = SetConnectionError(@)]
  <2>1. After(session, s)
    BY <1>3, <1>4
  <2>2. session' = RefreshFeatureTree(opened, "connect") \/ session' = Completed(failed1, "connect")
    BY <1>7 DEF FinishConnection
  <2> HIDE DEF s
  <2>3. After(session, opened) /\ After(session, failed1)
    BY <1>3, <2>1
  <2> HIDE DEF opened, failed1
  <2>4. After(session, RefreshFeatureTree(opened, "connect")) /\ After(session, Completed(failed1, "connect"))
    BY <1>3, <1>5, <2>3
  <2>5. QED
    BY <1>2, <2>2, <2>4
<1>8. CASE FinishDisconnection
  <2> DEFINE d == Dropped(session, "disconnection")
             s == [d EXCEPT !.disconnectPending = FALSE,
                            !.ui = SetConnectionState(SetFeatures(@, FALSE), FALSE)]
  <2>1. session' = Completed(s, "disconnect")
    BY <1>8 DEF FinishDisconnection
  <2>2. /\ IsSession(s) /\ s.completion = session.completion /\ s.toolCall = session.toolCall
        /\ s.watchers \subseteq session.watchers /\ s.refreshFor = session.refreshFor
    BY <1>1 DEF Dropped, IsSession, Fields
  <2> HIDE DEF s
  <2>3. After(session, s)
    BY <1>1, <2>2, DroppedAfter
  <2>4. After(session, Completed(s, "disconnect"))
    BY <1>3, <1>5, <2>3
  <2>5. QED
    BY <1>2, <2>1, <2>4
<1>9. CASE FinishInitialization
  <2>1. \E for \in Refreshes : session' = RefreshFeatureTree(Dropped(session, "initialization"), for)
    BY <1>5, <1>9 DEF FinishInitialization
  <2>2. QED
    BY <1>2, <1>3, <1>4, <2>1
<1>10. CASE FinishFeature
  <2> DEFINE s == Dropped(session, "feature")
             freed == [s EXCEPT !.ui = SetFeatureOperationPending(@, FALSE)]
             retry == [freed EXCEPT !.ui = SetSoftwareTriggerPending(@, FALSE)]
  <2>1. session' =
          CASE succeeded["feature"] /\ s.featureOperation = "write" -> RefreshFeatureTree(s, "feature")
            [] succeeded["feature"] /\ s.featureOperation = "trigger" -> freed
            [] ~succeeded["feature"] /\ s.featureOperation = "write" -> freed
            [] ~succeeded["feature"] /\ s.featureOperation = "trigger" -> retry
    BY <1>10 DEF FinishFeature
  <2>2. After(session, s)
    BY <1>4
  <2> HIDE DEF s
  <2>3. s.featureOperation \in {"write", "trigger"}
    BY <2>2 DEF After, Follows, Known, IsSession
  <2>4. After(session, RefreshFeatureTree(s, "feature")) /\ After(session, freed)
    BY <1>3, <1>5, <2>2
  <2> HIDE DEF freed
  <2>5. After(session, retry)
    BY <1>3, <2>4
  <2> HIDE DEF retry
  <2>6. After(session, session')
    BY <2>1, <2>3, <2>4, <2>5
  <2>7. QED
    BY <1>2, <2>6
<1>11. CASE FinishFeatureRead
  <2> DEFINE d == Dropped(session, "featureRead")
             s == [d EXCEPT !.refreshFor = "nothing",
                            !.ui = IF succeeded["featureRead"]
                                     THEN SetFeatures(SetFeatureRefreshPending(@, FALSE), TRUE)
                                     ELSE SetFeatureRefreshPending(@, FALSE)]
  <2>1. session' = AfterRefresh(s, session.refreshFor) /\ session.refreshFor \in Refreshes
    BY <1>1, <1>11 DEF FinishFeatureRead, IsSession
  <2>2. /\ IsSession(s) /\ s.completion = session.completion /\ s.toolCall = session.toolCall
        /\ s.watchers \subseteq session.watchers /\ s.refreshFor = "nothing"
    BY <1>1 DEF Dropped, IsSession, Fields, Refreshes
  <2> HIDE DEF s
  <2>3. After(session, s)
    BY <1>1, <2>2, DroppedAfter
  <2>4. QED
    BY <1>2, <1>3, <2>1, <2>3
<1>12. CASE FinishArm
  <2> DEFINE s == [Dropped(session, "arm") EXCEPT !.ui = ArmEnded(@)]
             call == session.completion["arm"]
             u == [s EXCEPT !.completion["acquisitionEnd"] = s.completion["arm"],
                            !.completion["arm"] = NoCall]
  <2>1. session' = Completed(s, "arm") \/ session' = u
    BY <1>12 DEF FinishArm
  <2>2. After(session, s)
    BY <1>3, <1>4
  <2>3. s.completion = session.completion
    BY <1>1 DEF Dropped, IsSession, Fields
  <2> HIDE DEF s
  <2>4. CASE session' = Completed(s, "arm")
    BY <1>2, <1>3, <1>5, <2>2, <2>4
  <2>5. CASE session' = u
    <3>1. Known(s)
      BY <2>2 DEF After, Follows
    <3>2. /\ IsSession(u) /\ u.toolCall = s.toolCall
          /\ u.completion = [s.completion EXCEPT !["acquisitionEnd"] = call, !["arm"] = NoCall]
          /\ u.watchers = s.watchers /\ u.refreshFor = s.refreshFor
      BY <2>3, <3>1 DEF Known, IsSession, Fields
    <3>3. call \in Nat
      BY <1>1, <1>5 DEF Known
    <3>4. call # NoCall => tool[call] \in Asks("arm")
      BY <1>5 DEF AnswerInv, ToolsKnown
    <3>5. call # NoCall => tool[call] \in Asks("acquisitionEnd")
      BY <3>4 DEF Asks
    <3> HIDE DEF u, call
    <3>6. Follows(s, u, "acquisitionEnd", call)
      <4>1. s.completion \in [Completions -> Nat]
        BY <3>1 DEF Known
      <4>2. \A c \in Completions :
              u.completion[c] \in {NoCall, s.completion[c]} \/ (c = "acquisitionEnd" /\ u.completion[c] = call)
        BY <3>2, <4>1
      <4>3. u.completion \in [Completions -> Nat]
        <5> DEFINE f == [s.completion EXCEPT !["acquisitionEnd"] = call]
        <5>1. f \in [Completions -> Nat] /\ NoCall \in Nat
          BY <3>3, <4>1 DEF NoCall
        <5>2. u.completion = [f EXCEPT !["arm"] = NoCall]
          BY <3>2
        <5> HIDE DEF f
        <5>3. QED
          BY <5>1, <5>2
      <4>4. Reads(u) => Reads(s)
        BY <3>2 DEF Reads
      <4>5. QED
        BY <3>2, <4>2, <4>3, <4>4 DEF Follows, Known
    <3>7. Follows(session, session', "acquisitionEnd", call)
      BY <2>2, <2>5, <3>6, AfterTrans
    <3>8. QED
      BY <1>5, <3>3, <3>5, <3>7
  <2>6. QED
    BY <2>1, <2>4, <2>5
<1>13. QED
  BY <1>6, <1>7, <1>8, <1>9, <1>10, <1>11, <1>12 DEF Ends

LEMMA EndsDevice ==
  ASSUME TaskInv, CallInv, DeviceInv, AnswerInv, Ends
  PROVE  DeviceInv' /\ AnswerInv'
<1>1. \E w \in Watchers : Finish(w)
  BY DEF Ends, FinishDiscovery, FinishConnection, FinishDisconnection, FinishInitialization,
     FinishFeature, FinishFeatureRead, FinishArm, Watchers
<1>2. /\ GuiFree /\ queue # <<>> /\ queue' = Tail(queue) /\ gui' = gui
      /\ UNCHANGED <<device, controller, history, asked, request>>
  BY <1>1 DEF Finish, Handle
<1>3. /\ Alive /\ asked' = "none" /\ gui' \in {"idle", "rest", "wait"}
      /\ UNCHANGED <<mode, streaming, worker, isGrabbing, statusGeneration, deliveredFrames>>
      /\ UNCHANGED <<arms, frameArm, tool, framesBefore, armOfCall>>
  BY <1>2 DEF GuiFree, Alive, device, controller, history, request
<1>4. \A e \in Events(queue') : e \in Events(queue) \/ e.kind # "acquisition"
  BY <1>2, EventsTail DEF TaskInv, QueueOK
<1>5. PICK x \in Completions \cup {"none"}, call \in Nat :
        /\ Follows(session, session', x, call)
        /\ call # NoCall /\ x # "none" => tool[call] \in Asks(x)
  BY <1>3, EndsFollow
<1>6. DeviceInv' /\ Reported'
  <2>1. Reads(session') => Reads(session) \/ IsOpened
    BY <1>5 DEF Follows
  <2>2. QED
    BY <1>1, <1>3, <1>4, <2>1, GuiDevice
<1>7. ToolsKnown' /\ Counted'
  BY <1>3, <1>5, GuiTools
<1>8. QED
  BY <1>6, <1>7 DEF AnswerInv

LEMMA DeviceNext ==
  Inv /\ CallInv /\ TaskInv /\ AskedTool /\ DeviceInv /\ AnswerInv /\ [Next]_vars
    => DeviceInv' /\ AnswerInv'
<1> SUFFICES ASSUME Inv, CallInv, TaskInv, AskedTool, DeviceInv, AnswerInv, [Next]_vars
             PROVE  DeviceInv' /\ AnswerInv'
  OBVIOUS
<1>1. CASE UserStep \/ HostStep \/ AdmitTool \/ RefuseTool \/ Handles \/ Ends
  BY <1>1, UserStepDevice, HostStepDevice, AdmissionDevice, HandlesDevice, EndsDevice
<1>2. CASE PoolStep
  BY <1>2, OtherTasksDevice, ArmStepsDevice, ArmReportsDevice DEF PoolStep
<1>3. CASE WorkerStep \/ SensorStep
  BY <1>3, WorkerDevice
<1>4. CASE \/ AwaitWatchers \/ AwaitParameters \/ JoinForDestruction
           \/ CloseForDestruction \/ ReleaseForDestruction
  BY <1>4, DestructorDevice
<1>5. CASE ParameterWork \/ Destroyed \/ UNCHANGED vars
  BY <1>5, IdleDevice
<1>6. QED
  BY <1>1, <1>2, <1>3, <1>4, <1>5 DEF Next, GuiStep, Handles, Ends

LEMMA DeviceInit == Init => DeviceInv /\ AnswerInv
<1> SUFFICES ASSUME Init PROVE DeviceInv /\ AnswerInv
  OBVIOUS
<1>1. /\ mode = "closed" /\ streaming = FALSE /\ gui = "idle"
      /\ worker = [phase |-> "none", continuous |-> FALSE, error |-> FALSE]
      /\ task = [w \in Watchers |-> "idle"] /\ succeeded = [w \in Watchers |-> FALSE]
      /\ session.watchers = {} /\ session.toolCall = NoCall
      /\ session.completion = [c \in Completions |-> NoCall]
      /\ isGrabbing = FALSE /\ asked = "none" /\ queue = <<>> /\ statusGeneration = 0
      /\ tool = [c \in Calls |-> "none"]
      /\ arms = 0 /\ armOfCall = 0 /\ frameArm = 0
  BY DEF Init, D!Init
<1>2. /\ worker.phase = "none" /\ worker = [f \in {"phase", "continuous", "error"} |-> worker[f]]
      /\ task["arm"] = "idle" /\ task["disconnection"] = "idle" /\ task["connection"] = "idle"
  BY <1>1 DEF Watchers
<1>3. Releasing
  BY <1>1, <1>2 DEF Releasing, Late, Joined
<1>4. Working
  BY <1>1, <1>2 DEF Working
<1>5. Opened
  BY <1>1, <1>2 DEF Opened, Reads
<1>6. ToolsKnown /\ Counted
  BY <1>1 DEF ToolsKnown, Counted
<1>7. Reported
  BY <1>1, EventsEmpty DEF Reported
<1>8. QED
  BY <1>3, <1>4, <1>5, <1>6, <1>7 DEF DeviceInv, AnswerInv

(***************************************************************************)
(* When the session has been destroyed, the device is closed and streams   *)
(* nothing, the worker is gone and no task of a watcher runs: every task   *)
(* is waited for, and what arms or opens the device is one of them.        *)
(***************************************************************************)
THEOREM DestroyedSessionIsQuiet == Spec => []ReleasedDeviceUnused
<1>1. Init => AskedTool
  BY DEF Init, AskedTool
<1>2. DeviceInv /\ TaskInv => ReleasedDeviceUnused
  <2> SUFFICES ASSUME DeviceInv, TaskInv, gui = "dead"
               PROVE  /\ worker.phase = "none"
                      /\ \A w \in Watchers : task[w] \in {"idle", "done"}
                      /\ mode = "closed" /\ ~streaming
    BY DEF ReleasedDeviceUnused
  <2>1. Late /\ Joined
    BY DEF Late, Joined
  <2>2. \A w \in Watchers : task[w] \in {"idle", "done"}
    BY <2>1 DEF DeviceInv, Releasing
  <2>3. worker.phase = "none" /\ mode = "closed"
    BY <2>1 DEF DeviceInv, Releasing
  <2>4. task["disconnection"] # "closing"
    BY <2>2 DEF Watchers
  <2>5. ~streaming
    BY <2>3, <2>4 DEF DeviceInv, Releasing
  <2>6. QED
    BY <2>2, <2>3, <2>5
<1>3. QED
  BY InvInit, InvNext, CallsInit, CallsNext, AskedNext, DeviceInit, DeviceNext, <1>1, <1>2, PTL
     DEF Spec


------------------------------------------------------------------------------
(* A pending call that is answered "ok" got what it asked for. *)

AnswersStep == \A c \in Calls : answer[c] = "pending" /\ answer'[c] = "ok" => AnswerTrue(c)

(* A stored completion answers the call it holds, and no other. *)
LEMMA CompletionAnswers ==
  ASSUME CallInv, AnswerInv, Alive, NEW d \in Completions, NEW s, s.completion = session.completion,
         NEW ok, answer' = Answered(s, d, ok),
         NEW c \in Calls, answer[c] = "pending", answer'[c] = "ok"
  PROVE  tool[c] \in Asks(d) /\ (tool[c] = "single" => AnswerTrue(c))
<1> DEFINE k == session.completion[d]
           r == Answer(k, ok)
<1>1. AnswerOK(answer, session.toolCall)
  BY DEF CallInv
<1>2. k # NoCall
  BY DEF Answered
<1>3. answer' = [answer EXCEPT ![k] = r]
  BY <1>2 DEF Answered
<1>4. r = "ok" /\ tool[k] = "single" => deliveredFrames # framesBefore
  BY DEF Answer
<1>5. tool[k] \in Asks(d)
  BY <1>2 DEF AnswerInv, ToolsKnown
<1> HIDE DEF k, r
<1>6. c = k /\ r = "ok"
  BY <1>1, <1>3 DEF AnswerOK
<1>7. c = session.toolCall /\ c # NoCall
  BY <1>1, <1>2, <1>6 DEF AnswerOK
<1>8. ASSUME tool[c] = "single" PROVE AnswerTrue(c)
  <2>1. armOfCall < frameArm
    BY <1>4, <1>6, <1>7, <1>8 DEF AnswerInv, Counted
  <2>2. QED
    BY <1>8, <2>1 DEF AnswerTrue, AnswerInv, Counted
<1>9. QED
  BY <1>5, <1>6, <1>8

LEMMA FinishedDone ==
  ASSUME TaskInv, NEW w, Finish(w)
  PROVE  w \in Watchers /\ task[w] = "done" /\ w \in session.watchers /\ Alive /\ ~Joined
<1>1. GuiFree /\ queue # <<>> /\ Head(queue).kind = "finished" /\ Head(queue).task = w
  BY DEF Finish, Handle
<1>2. w \in Watchers /\ task[w] = "done"
  BY <1>1, QueueTail DEF TaskInv
<1>3. QED
  BY <1>1, <1>2 DEF TaskInv, GuiFree, Alive, Joined

LEMMA EndsAnswer ==
  ASSUME Inv, TaskInv, CallInv, DeviceInv, AnswerInv, Ends
  PROVE  AnswersStep
<1> SUFFICES ASSUME NEW c \in Calls, answer[c] = "pending", answer'[c] = "ok" PROVE AnswerTrue(c)
  BY DEF AnswersStep
<1>1. IsSession(session) /\ Completions = {"discovery", "connect", "disconnect", "arm", "acquisitionEnd"}
  BY DEF Inv, Good, Completions
<1>2. CASE FinishDiscovery
  <2>1. Alive /\ answer' = Answered(session, "discovery", succeeded["discovery"])
    BY <1>2, FinishedDone DEF FinishDiscovery
  <2>2. tool[c] \in Asks("discovery")
    BY <1>1, <2>1, CompletionAnswers
  <2>3. QED
    BY <2>2 DEF Asks, AnswerTrue
<1>3. CASE FinishConnection
  <2> DEFINE s == [Dropped(session, "connection") EXCEPT !.ui = SetConnectionPending(@, FALSE)]
             opened == [s EXCEPT !.ui = SetAcquisitionAvailable(SetConnectionState(@, TRUE), TRUE)]
             failed == [s EXCEPT !.ui = SetConnectionError(@)]
             o == opened
             f == failed
  <2>1. IF succeeded["connection"] THEN answer' = AnsweredByRefresh(o, "connect")
        ELSE answer' = Answered(f, "connect", FALSE)
    BY <1>3 DEF FinishConnection
  <2>2. o.completion = session.completion /\ f.completion = session.completion
    BY <1>1 DEF Dropped, IsSession, Fields
  <2> HIDE DEF o, f
  <2>3. /\ task["connection"] = "done" /\ Alive /\ ~Joined
    BY <1>3, FinishedDone DEF FinishConnection
  <2>4. CASE succeeded["connection"]
    <3>1. IsOpened
      BY <2>3, <2>4 DEF DeviceInv, Opened, IsOpened
    <3>2. answer' = Answered(o, "connect", TRUE)
      BY <2>1, <2>4 DEF AnsweredByRefresh
    <3>3. tool[c] \in Asks("connect")
      BY <1>1, <2>2, <2>3, <3>2, CompletionAnswers
    <3>4. QED
      BY <3>1, <3>3 DEF Asks, AnswerTrue
  <2>5. CASE ~succeeded["connection"]
    <3>1. answer' = answer \/ \E k : answer' = [answer EXCEPT ![k] = "failed"]
      BY <2>1, <2>5 DEF Answered, Answer
    <3>2. answer = [k \in Calls |-> answer[k]]
      BY <2>3 DEF CallInv, AnswerOK
    <3>3. QED
      BY <3>1, <3>2
  <2>6. QED
    BY <2>4, <2>5
<1>4. CASE FinishDisconnection
  <2>1. /\ task["disconnection"] = "done" /\ Alive
        /\ answer' = Answered(session, "disconnect", TRUE)
    BY <1>4, FinishedDone DEF FinishDisconnection
  <2>2. tool[c] \in Asks("disconnect")
    BY <1>1, <2>1, CompletionAnswers
  <2>3. ~IsOpened
    BY <2>1 DEF DeviceInv, Releasing, IsOpened
  <2>4. QED
    BY <2>2, <2>3 DEF Asks, AnswerTrue
<1>5. CASE FinishInitialization \/ FinishFeature
  BY <1>5 DEF FinishInitialization, FinishFeature
<1>6. CASE FinishFeatureRead
  <2> DEFINE s == [Dropped(session, "featureRead") EXCEPT
                     !.refreshFor = "nothing",
                     !.ui = IF succeeded["featureRead"]
                              THEN SetFeatures(SetFeatureRefreshPending(@, FALSE), TRUE)
                              ELSE SetFeatureRefreshPending(@, FALSE)]
             t == s
  <2>1. answer' = IF session.refreshFor = "connect" THEN Answered(t, "connect", TRUE) ELSE answer
    BY <1>6 DEF FinishFeatureRead
  <2>2. t.completion = session.completion
    BY <1>1 DEF Dropped, IsSession, Fields
  <2> HIDE DEF t
  <2>3. "featureRead" \in session.watchers /\ Alive /\ ~Joined
    BY <1>6, FinishedDone DEF FinishFeatureRead
  <2>4. session.refreshFor = "connect" /\ answer' = Answered(t, "connect", TRUE)
    BY <2>1
  <2>5. IsOpened
    BY <2>3, <2>4 DEF DeviceInv, Opened, Reads, IsOpened
  <2>6. tool[c] \in Asks("connect")
    BY <1>1, <2>2, <2>3, <2>4, CompletionAnswers
  <2>7. QED
    BY <2>5, <2>6 DEF Asks, AnswerTrue
<1>7. CASE FinishArm
  <2> DEFINE s == [Dropped(session, "arm") EXCEPT !.ui = ArmEnded(@)]
             t == s
  <2>1. answer' = answer \/ answer' = Answered(t, "arm", succeeded["arm"])
    BY <1>7 DEF FinishArm
  <2>2. t.completion = session.completion
    BY <1>1 DEF Dropped, IsSession, Fields
  <2> HIDE DEF t
  <2>3. Alive /\ answer' = Answered(t, "arm", succeeded["arm"])
    BY <1>7, <2>1, FinishedDone DEF FinishArm
  <2>4. tool[c] \in Asks("arm") /\ (tool[c] = "single" => AnswerTrue(c))
    BY <1>1, <2>2, <2>3, CompletionAnswers
  <2>5. QED
    BY <2>4 DEF Asks, AnswerTrue
<1>8. QED
  BY <1>2, <1>3, <1>4, <1>5, <1>6, <1>7 DEF Ends

(* The end that a stop waited for was reported of no other acquisition. *)
LEMMA EndAnswer ==
  ASSUME TaskInv, CallInv, AnswerInv, HandleEnd
  PROVE  AnswersStep
<1> SUFFICES ASSUME NEW c \in Calls, answer[c] = "pending", answer'[c] = "ok" PROVE AnswerTrue(c)
  BY DEF AnswersStep
<1> DEFINE e == Head(queue)
<1>1. /\ Alive /\ queue # <<>> /\ e.kind = "acquisition"
      /\ e.generation = statusGeneration /\ ~e.active
      /\ session.completion["acquisitionEnd"] # NoCall
      /\ answer' = Answered(session, "acquisitionEnd", TRUE)
  BY DEF HandleEnd, GuiFree, Alive, Stale
<1>2. e \in Events(queue)
  BY <1>1, EventsTail DEF TaskInv, QueueOK
<1> HIDE DEF e
<1>3. ~isGrabbing \/ task["arm"] = "grabbing"
  BY <1>1, <1>2 DEF AnswerInv, Reported
<1>4. task["arm"] # "grabbing"
  <2>1. "arm" \notin session.watchers
    BY <1>1 DEF CallInv, Linked
  <2>2. QED
    BY <2>1 DEF TaskInv, Watchers
<1>5. tool[c] \in Asks("acquisitionEnd") /\ (tool[c] = "single" => AnswerTrue(c))
  BY <1>1, CompletionAnswers DEF Completions
<1>6. QED
  BY <1>3, <1>4, <1>5 DEF Asks, AnswerTrue

LEMMA AnswersNext ==
  Inv /\ CallInv /\ TaskInv /\ AskedTool /\ DeviceInv /\ AnswerInv /\ [Next]_vars => AnswersStep
<1> SUFFICES ASSUME Inv, CallInv, TaskInv, AskedTool, DeviceInv, AnswerInv, [Next]_vars
             PROVE  AnswersStep
  OBVIOUS
<1>1. UNCHANGED answer => AnswersStep
  BY DEF AnswersStep
<1>2. ASSUME NEW k, NEW r, r # "ok", answer' = [answer EXCEPT ![k] = r], Alive
      PROVE  AnswersStep
  <2>1. answer = [c \in Calls |-> answer[c]]
    BY <1>2 DEF CallInv, AnswerOK
  <2>2. QED
    BY <1>2, <2>1 DEF AnswersStep
<1>3. CASE UserStep
  <2>1. CASE DestroySession
    BY <1>1, <1>2, <2>1 DEF DestroySession, GuiFree, Alive
  <2>2. CASE UserStep /\ ~DestroySession
    BY <1>1, <2>2 DEF UserStep, ClickRefresh, ClickConnect, ClickDisconnect, ClickSingle, ToggleLive,
       ClickInit, EditFeature, ClickTrigger, DestroyWidget, Click
  <2>3. QED
    BY <1>3, <2>1, <2>2
<1>4. CASE HostStep
  <2>1. CASE StopNothing
    <3>1. Alive /\ session.toolCall = NoCall /\ answer' = [answer EXCEPT ![calls + 1] = "ok"]
      BY <2>1 DEF StopNothing, NewCall, MayRequest, ExternalBusy, Alive
    <3>2. AnswerOK(answer, NoCall) /\ NoCall \notin Calls
      BY <3>1 DEF CallInv, NoCall, Calls
    <3>3. QED
      BY <3>2 DEF AnswersStep, AnswerOK
  <2>2. CASE \E t \in Tools : AskTool(t)
    BY <1>2, <2>2 DEF AskTool, NewCall, MayRequest, Alive
  <2>3. CASE \E kind \in Parameters : RequestParameter(kind)
    BY <1>1, <2>3 DEF RequestParameter
  <2>4. QED
    BY <1>4, <2>1, <2>2, <2>3 DEF HostStep
<1>5. CASE Ends
  BY <1>5, EndsAnswer
<1>6. CASE HandleEnd
  BY <1>6, EndAnswer
<1>7. CASE RefuseTool
  BY <1>2, <1>7 DEF RefuseTool, CallInv
<1>8. CASE GuiStep /\ ~Ends /\ ~HandleEnd /\ ~RefuseTool
  BY <1>1, <1>8 DEF GuiStep, Ends, AdmitTool, HandleRefresh, HandleControl, HandleApplied, HandleFrame,
     HandleStale, HandleActive, HandleInactive, HandleStartFailed, HandleRest, Keep,
     AwaitWatchers, AwaitParameters, JoinForDestruction, CloseForDestruction, ReleaseForDestruction
<1>9. CASE PoolStep
  BY <1>1, <1>9 DEF PoolStep, guiThread, RunDiscovery, OpenDevice, ReportConnection,
     StopForDisconnect, JoinForDisconnect, CloseDevice, ReleaseDevice,
     BeginProfile, EndProfile, RunFeature, ReadFeatures,
     StartArm, BeginArming, SetUpArming, CompleteArming, FailArming,
     ReportGrabbing, ReportActive, ReturnArmed, ToPhase, Returns
<1>10. CASE ParameterWork \/ WorkerStep \/ SensorStep
  BY <1>1, <1>10 DEF guiThread, ParameterWork, RunParameter, ReportParameter, ReportApplied,
     ReturnParameter, ParameterStep, WorkerStep, SensorStep, ReceiveFrame, LeavePolling, FailPolling,
     StopStreaming, Disarm, ReportIdle, ReportInactive, WorkerAt
<1>11. CASE Destroyed \/ UNCHANGED vars
  BY <1>1, <1>11 DEF Destroyed, vars, guiThread
<1>12. QED
  BY <1>3, <1>4, <1>5, <1>6, <1>7, <1>8, <1>9, <1>10, <1>11 DEF Next

(***************************************************************************)
(* A call is answered "ok" only when what it asked for is true in the step *)
(* that answers it: the device a connect opened is open, the one a         *)
(* disconnect closed is closed, a stop finds no acquisition, and a frame   *)
(* arrived for a Single from an arm begun after the call was accepted.     *)
(***************************************************************************)
THEOREM AnswersTrue == Spec => AnswersAreTrue
<1>1. Init => AskedTool
  BY DEF Init, AskedTool
<1>2. Inv /\ CallInv /\ TaskInv /\ AskedTool /\ DeviceInv /\ AnswerInv /\ [Next]_vars
        => [\A c \in Calls : answer[c] = "pending" /\ answer'[c] = "ok" => AnswerTrue(c)]_vars
  BY AnswersNext DEF AnswersStep
<1>3. QED
  BY InvInit, InvNext, CallsInit, CallsNext, AskedNext, DeviceInit, DeviceNext, <1>1, <1>2, PTL
     DEF Spec, AnswersAreTrue
==============================================================================
