-------------------------- MODULE AcquisitionPolicy --------------------------
(***************************************************************************)
(* The trigger policy that decides, before an arm, which route starts      *)
(* frames and recordings: evaluateAcquisitionTriggerPlan in                *)
(* src/C++/Internal/HeliotisAcquisitionPolicy.cpp.                         *)
(*                                                                         *)
(* The policy is a pure function of three TriggerMode/TriggerSource pairs, *)
(* one per trigger selector of the device.  Error and warning texts are    *)
(* replaced by names.  The state machine around it evaluates the plan once *)
(* for whatever configuration the device has.                              *)
(***************************************************************************)

CONSTANTS ExternalSources,   \* TriggerSource names the policy does not know
          OtherModes         \* TriggerMode names other than On and Off

VARIABLES acquisitionStart, frameStart, recordingStart, plan

vars == <<acquisitionStart, frameStart, recordingStart, plan>>

Modes == {"On", "Off"} \cup OtherModes

\* The empty name is a TriggerSource the device reports as an empty string.
Sources == {"", "Software", "Auto", "Stage"} \cup ExternalSources

TriggerSelectorState ==
  [modeReadable : BOOLEAN, sourceReadable : BOOLEAN, mode : Modes, source : Sources]

Selectors == {"AcquisitionStart", "FrameStart", "RecordingStart"}

Errors == {"none", "mode unavailable", "mode unsupported",
           "source unreadable", "recording software"}

Warnings == {"FrameStart Auto deprecated", "RecordingStart Auto deprecated",
             "recording gated"}

AcquisitionTriggerPlan ==
  [valid                   : BOOLEAN,
   error                   : Errors,
   acquisitionStartEnabled : BOOLEAN,
   frameStartRoute         : {"Automatic", "Software", "External"},
   recordingStartRoute     : {"Automatic", "Stage", "External"},
   warnings                : SUBSET Warnings]

NotEvaluated == [valid |-> FALSE, error |-> "none"]

------------------------------------------------------------------------------

(* validateMode: the TriggerMode must be readable and be On or Off. *)
ModeError(s) ==
  IF ~s.modeReadable THEN "mode unavailable"
  ELSE IF s.mode \notin {"On", "Off"} THEN "mode unsupported" ELSE "none"

(* Mutant: an empty source is accepted. *)
SourceNotRead(s) == s.mode = "On" /\ ~s.sourceReadable

(* An enabled gate needs a readable, non-empty TriggerSource. *)
SourceUnreadable(s) == s.mode = "On" /\ (~s.sourceReadable \/ s.source = "")

FrameStartRoute(s) ==
  CASE s.mode = "On" /\ s.source = "Software"                -> "Software"
    [] s.mode = "On" /\ s.source \notin {"Software", "Auto"} -> "External"
    [] OTHER                                                 -> "Automatic"

RecordingStartRoute(s) ==
  CASE s.mode = "On" /\ s.source = "Stage"                -> "Stage"
    [] s.mode = "On" /\ s.source \notin {"Stage", "Auto"} -> "External"
    [] OTHER                                              -> "Automatic"

(* The three modes are validated in order, and the first bad one is reported. *)
ModesError(as, fs, rs) ==
  IF ModeError(as) # "none" THEN ModeError(as)
  ELSE IF ModeError(fs) # "none" THEN ModeError(fs) ELSE ModeError(rs)

(* The first check that fails, in the order the code makes them. *)
PlanError(as, fs, rs) ==
  IF ModesError(as, fs, rs) # "none" THEN ModesError(as, fs, rs)
  ELSE IF SourceUnreadable(fs) \/ SourceUnreadable(rs) THEN "source unreadable"
  ELSE IF rs.mode = "On" /\ rs.source = "Software" THEN "recording software" ELSE "none"

Deprecated(s) == s.mode = "On" /\ s.source = "Auto"

PlanWarnings(fs, rs, frameKnown, recordingKnown) ==
  {w \in Warnings :
     \/ w = "FrameStart Auto deprecated" /\ frameKnown /\ Deprecated(fs)
     \/ w = "RecordingStart Auto deprecated" /\ recordingKnown /\ Deprecated(rs)
     \/ /\ w = "recording gated" /\ recordingKnown
        /\ FrameStartRoute(fs) = "Automatic" /\ RecordingStartRoute(rs) # "Automatic"}

(* A rejected plan keeps what was decided before the check that failed. *)
EvaluateAcquisitionTriggerPlan(as, fs, rs) ==
  LET error      == PlanError(as, fs, rs)
      modesOK    == ModesError(as, fs, rs) = "none"
      frameKnown == modesOK /\ ~SourceUnreadable(fs)
      recordingKnown == error = "none"
  IN [valid                   |-> error = "none",
      error                   |-> error,
      acquisitionStartEnabled |-> modesOK /\ as.mode = "On",
      frameStartRoute         |-> IF frameKnown THEN FrameStartRoute(fs) ELSE "Automatic",
      recordingStartRoute     |-> IF recordingKnown THEN RecordingStartRoute(rs) ELSE "Automatic",
      warnings                |-> PlanWarnings(fs, rs, frameKnown, recordingKnown)]

UsesHostSoftwareTrigger(p) == p.valid /\ p.frameStartRoute = "Software"

(* Mutant: AcquisitionStart is not looked at. *)
FramesAndRecordingsRun(p) ==
  p.valid /\ p.frameStartRoute = "Automatic" /\ p.recordingStartRoute = "Automatic"

IsFreeRun(p) ==
  /\ p.valid
  /\ ~p.acquisitionStartEnabled
  /\ p.frameStartRoute = "Automatic"
  /\ p.recordingStartRoute = "Automatic"

------------------------------------------------------------------------------

Init ==
  /\ acquisitionStart \in TriggerSelectorState
  /\ frameStart \in TriggerSelectorState
  /\ recordingStart \in TriggerSelectorState
  /\ plan = NotEvaluated

Evaluate ==
  /\ plan = NotEvaluated
  /\ plan' = EvaluateAcquisitionTriggerPlan(acquisitionStart, frameStart, recordingStart)
  /\ UNCHANGED <<acquisitionStart, frameStart, recordingStart>>

Next == Evaluate

Spec == Init /\ [][Next]_vars

------------------------------------------------------------------------------

TypeOK ==
  /\ acquisitionStart \in TriggerSelectorState
  /\ frameStart \in TriggerSelectorState
  /\ recordingStart \in TriggerSelectorState
  /\ plan = NotEvaluated \/ plan \in AcquisitionTriggerPlan

(* The gates of a selector that can still hold back a frame or a recording. *)
OpenGate(s) == s.mode = "Off" \/ s.source = "Auto"

(***************************************************************************)
(* A free-running plan has no trigger gate left: AcquisitionStart is Off   *)
(* and the two other selectors are Off or the deprecated Auto source; and  *)
(* a valid plan with no gate left is reported as free-running.  The header *)
(* promises this of evaluateAcquisitionTriggerPlan.                        *)
(***************************************************************************)
FreeRunIffNoGate ==
  plan # NotEvaluated /\ plan.valid =>
    ( IsFreeRun(plan) <=>
        acquisitionStart.mode = "Off" /\ OpenGate(frameStart) /\ OpenGate(recordingStart) )

(***************************************************************************)
(* The host issues TriggerSoftware only for FrameStart=On/Software, and    *)
(* never when RecordingStart also waits for a software command, for which  *)
(* the host has no command path.                                           *)
(***************************************************************************)
HostTriggersOnlyFrameStart ==
  plan # NotEvaluated /\ UsesHostSoftwareTrigger(plan) =>
    /\ frameStart.mode = "On"
    /\ frameStart.sourceReadable
    /\ frameStart.source = "Software"
    /\ ~(recordingStart.mode = "On" /\ recordingStart.source = "Software")

(***************************************************************************)
(* What an accepted plan tells of its routes is what the gates do: which   *)
(* acquisitions run by themselves, and which the host has to trigger.      *)
(***************************************************************************)
PlanTellsRoutes == FreeRunIffNoGate /\ HostTriggersOnlyFrameStart

(* Hides the TriggerSource of a selector, as some firmware does when it is Off. *)
SourceHidden(s) ==
  IF s.mode = "Off" THEN [s EXCEPT !.sourceReadable = FALSE, !.source = ""] ELSE s

(***************************************************************************)
(* Firmware that hides the TriggerSource of a selector that is Off does    *)
(* not change the plan: an irrelevant source never blocks an arm.          *)
(***************************************************************************)
OffSourceIrrelevant ==
  plan # NotEvaluated =>
    plan = EvaluateAcquisitionTriggerPlan(SourceHidden(acquisitionStart),
                                          SourceHidden(frameStart),
                                          SourceHidden(recordingStart))

(***************************************************************************)
(* An accepted plan never rests on a configuration the policy could not    *)
(* read: all three modes were read, and so was the source of each enabled  *)
(* FrameStart or RecordingStart gate.                                      *)
(***************************************************************************)
ValidPlanIsReadable ==
  plan # NotEvaluated /\ plan.valid =>
    /\ \A s \in {acquisitionStart, frameStart, recordingStart} :
         s.modeReadable /\ s.mode \in {"On", "Off"}
    /\ \A s \in {frameStart, recordingStart} :
         s.mode = "On" => s.sourceReadable /\ s.source # ""

(***************************************************************************)
(* A plan rests on the readings of the gates that are on and on no others. *)
(***************************************************************************)
PlanRestsOnOpenGates == ValidPlanIsReadable /\ OffSourceIrrelevant
=============================================================================
