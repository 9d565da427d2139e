----------------------- MODULE AcquisitionPolicy_proofs -----------------------
(* The trigger policy, for every set of vendor-specific source and mode names. *)
EXTENDS AcquisitionPolicy, TLAPS

(***************************************************************************)
(* What the plan is when no check fails: every mode is On or Off, enabled  *)
(* sources were read, RecordingStart is not a software gate, and the       *)
(* routes are those of the selectors.                                      *)
(***************************************************************************)
LEMMA ValidPlan ==
  ASSUME NEW as \in TriggerSelectorState, NEW fs \in TriggerSelectorState,
         NEW rs \in TriggerSelectorState,
         EvaluateAcquisitionTriggerPlan(as, fs, rs).valid
  PROVE  LET p == EvaluateAcquisitionTriggerPlan(as, fs, rs) IN
         /\ \A s \in {as, fs, rs} : s.modeReadable /\ s.mode \in {"On", "Off"}
         /\ ~SourceUnreadable(fs) /\ ~SourceUnreadable(rs)
         /\ ~(rs.mode = "On" /\ rs.source = "Software")
         /\ p.acquisitionStartEnabled <=> as.mode = "On"
         /\ p.frameStartRoute = FrameStartRoute(fs)
         /\ p.recordingStartRoute = RecordingStartRoute(rs)
<1>1. PlanError(as, fs, rs) = "none"
  BY DEF EvaluateAcquisitionTriggerPlan
<1>2. /\ ModesError(as, fs, rs) = "none"
      /\ ~SourceUnreadable(fs) /\ ~SourceUnreadable(rs)
      /\ ~(rs.mode = "On" /\ rs.source = "Software")
  BY <1>1 DEF PlanError
<1>3. \A s \in {as, fs, rs} : ModeError(s) = "none"
  BY <1>2 DEF ModesError
<1>4. \A s \in {as, fs, rs} : s.modeReadable /\ s.mode \in {"On", "Off"}
  BY <1>3 DEF ModeError
<1>5. QED
  BY <1>1, <1>2, <1>4 DEF EvaluateAcquisitionTriggerPlan

(***************************************************************************)
(* The properties the plan has whatever the selectors are.                 *)
(***************************************************************************)
(* The states of the specification: nothing evaluated, or the plan of the selectors. *)
PlanInv ==
  /\ acquisitionStart \in TriggerSelectorState
  /\ frameStart \in TriggerSelectorState
  /\ recordingStart \in TriggerSelectorState
  /\ \/ plan = NotEvaluated
     \/ plan = EvaluateAcquisitionTriggerPlan(acquisitionStart, frameStart, recordingStart)

LEMMA PlanInvariant == Spec => []PlanInv
<1>1. Init => PlanInv
  BY DEF Init, PlanInv
<1>2. PlanInv /\ [Next]_vars => PlanInv'
  BY DEF PlanInv, Next, Evaluate, vars
<1>3. QED
  BY <1>1, <1>2, PTL DEF Spec

(***************************************************************************)
(* A route is Automatic exactly when the gate is Off or Auto.              *)
(***************************************************************************)
LEMMA AutomaticIffOpen ==
  ASSUME NEW s \in TriggerSelectorState, s.mode \in {"On", "Off"}
  PROVE  /\ FrameStartRoute(s) = "Automatic" <=> OpenGate(s)
         /\ RecordingStartRoute(s) = "Automatic" <=> OpenGate(s)
BY DEF FrameStartRoute, RecordingStartRoute, OpenGate

(***************************************************************************)
(* A valid plan is free-running exactly when no trigger gate remains.      *)
(***************************************************************************)
THEOREM FreeRunSafe == Spec => []FreeRunIffNoGate
<1>1. PlanInv => FreeRunIffNoGate
  <2> SUFFICES ASSUME PlanInv, plan # NotEvaluated, plan.valid
               PROVE  IsFreeRun(plan) <=>
                        acquisitionStart.mode = "Off" /\ OpenGate(frameStart)
                          /\ OpenGate(recordingStart)
    BY DEF FreeRunIffNoGate
  <2>1. plan = EvaluateAcquisitionTriggerPlan(acquisitionStart, frameStart, recordingStart)
    BY DEF PlanInv
  <2>2. /\ \A s \in {acquisitionStart, frameStart, recordingStart} : s.mode \in {"On", "Off"}
        /\ plan.acquisitionStartEnabled <=> acquisitionStart.mode = "On"
        /\ plan.frameStartRoute = FrameStartRoute(frameStart)
        /\ plan.recordingStartRoute = RecordingStartRoute(recordingStart)
    BY <2>1, ValidPlan DEF PlanInv
  <2>3. /\ FrameStartRoute(frameStart) = "Automatic" <=> OpenGate(frameStart)
        /\ RecordingStartRoute(recordingStart) = "Automatic" <=> OpenGate(recordingStart)
    BY <2>2, AutomaticIffOpen DEF PlanInv
  <2>4. QED
    BY <2>2, <2>3 DEF IsFreeRun
<1>2. QED
  BY <1>1, PlanInvariant, PTL

(***************************************************************************)
(* The host issues TriggerSoftware only for a readable FrameStart=On with  *)
(* the Software source, and never beside a software RecordingStart gate.   *)
(***************************************************************************)
THEOREM HostTriggerSafe == Spec => []HostTriggersOnlyFrameStart
<1>1. PlanInv => HostTriggersOnlyFrameStart
  <2> SUFFICES ASSUME PlanInv, plan # NotEvaluated, UsesHostSoftwareTrigger(plan)
               PROVE  /\ frameStart.mode = "On"
                      /\ frameStart.sourceReadable
                      /\ frameStart.source = "Software"
                      /\ ~(recordingStart.mode = "On" /\ recordingStart.source = "Software")
    BY DEF HostTriggersOnlyFrameStart
  <2>1. plan = EvaluateAcquisitionTriggerPlan(acquisitionStart, frameStart, recordingStart)
    BY DEF PlanInv
  <2>2. plan.valid /\ plan.frameStartRoute = "Software"
    BY DEF UsesHostSoftwareTrigger
  <2>3. /\ ~SourceUnreadable(frameStart)
        /\ ~(recordingStart.mode = "On" /\ recordingStart.source = "Software")
        /\ FrameStartRoute(frameStart) = "Software"
    BY <2>1, <2>2, ValidPlan DEF PlanInv
  <2>4. frameStart.mode = "On" /\ frameStart.source = "Software"
    BY <2>3 DEF FrameStartRoute
  <2>5. QED
    BY <2>3, <2>4 DEF SourceUnreadable
<1>2. QED
  BY <1>1, PlanInvariant, PTL

(***************************************************************************)
(* An accepted plan is reported as free-running exactly when no gate is    *)
(* left, and has the host issue software triggers only for FrameStart.     *)
(***************************************************************************)
THEOREM RoutesSafe == Spec => []PlanTellsRoutes
<1>1. FreeRunIffNoGate /\ HostTriggersOnlyFrameStart => PlanTellsRoutes
  BY DEF PlanTellsRoutes
<1>2. QED
  BY <1>1, FreeRunSafe, HostTriggerSafe, PTL

(***************************************************************************)
(* An accepted plan rests only on modes and enabled sources that were read.*)
(***************************************************************************)
THEOREM ReadableSafe == Spec => []ValidPlanIsReadable
<1>1. PlanInv => ValidPlanIsReadable
  <2> SUFFICES ASSUME PlanInv, plan # NotEvaluated, plan.valid
               PROVE  /\ \A s \in {acquisitionStart, frameStart, recordingStart} :
                           s.modeReadable /\ s.mode \in {"On", "Off"}
                      /\ \A s \in {frameStart, recordingStart} :
                           s.mode = "On" => s.sourceReadable /\ s.source # ""
    BY DEF ValidPlanIsReadable
  <2>1. plan = EvaluateAcquisitionTriggerPlan(acquisitionStart, frameStart, recordingStart)
    BY DEF PlanInv
  <2>2. /\ \A s \in {acquisitionStart, frameStart, recordingStart} :
             s.modeReadable /\ s.mode \in {"On", "Off"}
        /\ ~SourceUnreadable(frameStart) /\ ~SourceUnreadable(recordingStart)
    BY <2>1, ValidPlan DEF PlanInv
  <2>3. QED
    BY <2>2 DEF SourceUnreadable
<1>2. QED
  BY <1>1, PlanInvariant, PTL

(***************************************************************************)
(* Hiding the TriggerSource of a selector that is Off changes no plan.     *)
(***************************************************************************)
THEOREM OffSourceSafe == Spec => []OffSourceIrrelevant
<1>1. ASSUME NEW s \in TriggerSelectorState
      PROVE  /\ ModeError(SourceHidden(s)) = ModeError(s)
             /\ SourceUnreadable(SourceHidden(s)) = SourceUnreadable(s)
             /\ FrameStartRoute(SourceHidden(s)) = FrameStartRoute(s)
             /\ RecordingStartRoute(SourceHidden(s)) = RecordingStartRoute(s)
             /\ Deprecated(SourceHidden(s)) = Deprecated(s)
             /\ SourceHidden(s).mode = s.mode
             /\ s.mode = "On" => SourceHidden(s).source = s.source
  BY DEF SourceHidden, TriggerSelectorState, ModeError, SourceUnreadable,
         FrameStartRoute, RecordingStartRoute, Deprecated
<1>2. PlanInv => OffSourceIrrelevant
  <2> SUFFICES ASSUME NEW as \in TriggerSelectorState, NEW fs \in TriggerSelectorState,
                      NEW rs \in TriggerSelectorState
               PROVE  EvaluateAcquisitionTriggerPlan(as, fs, rs)
                        = EvaluateAcquisitionTriggerPlan(SourceHidden(as), SourceHidden(fs),
                                                         SourceHidden(rs))
    BY DEF PlanInv, OffSourceIrrelevant
  <2>1. ModesError(SourceHidden(as), SourceHidden(fs), SourceHidden(rs)) = ModesError(as, fs, rs)
    BY <1>1 DEF ModesError
  <2>2. PlanError(SourceHidden(as), SourceHidden(fs), SourceHidden(rs)) = PlanError(as, fs, rs)
    BY <1>1, <2>1 DEF PlanError
  <2>3. \A f, r \in BOOLEAN : PlanWarnings(SourceHidden(fs), SourceHidden(rs), f, r)
                              = PlanWarnings(fs, rs, f, r)
    BY <1>1 DEF PlanWarnings
  <2>4. QED
    BY <1>1, <2>1, <2>2, <2>3 DEF EvaluateAcquisitionTriggerPlan
<1>3. QED
  BY <1>2, PlanInvariant, PTL

(***************************************************************************)
(* An accepted plan rests on nothing but the modes and the sources of the  *)
(* open gates it was given.                                                *)
(***************************************************************************)
THEOREM PlanRestsSafe == Spec => []PlanRestsOnOpenGates
<1>1. ValidPlanIsReadable /\ OffSourceIrrelevant => PlanRestsOnOpenGates
  BY DEF PlanRestsOnOpenGates
<1>2. QED
  BY <1>1, ReadableSafe, OffSourceSafe, PTL
=============================================================================
