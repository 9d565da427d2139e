--------------------------- MODULE ReferenceProfile ---------------------------
(***************************************************************************)
(* The H8 reference profile: configureH8SurfaceExample in                  *)
(* src/C++/HeliotisC4System.cpp.  One thread writes groups of device       *)
(* features, moves the stage and polls it, while other threads cancel or   *)
(* close.  A device register is addressed by a feature and, for a feature  *)
(* that depends on a selector, by the entry the selector points at.        *)
(*                                                                         *)
(* A check of the cancellation flag and the write after it are two steps.  *)
(* The feature writes of other threads, arms and a second initialization   *)
(* are refused while a profile runs; C4Device models that admission.       *)
(* Logs and the read-only snapshots that end a run are left out.           *)
(***************************************************************************)
EXTENDS Naturals, Sequences

CONSTANTS MaxRuns,       \* bound: profiles started
          MaxFailures,   \* bound: device commands that fail
          MaxPolls       \* polls of the stage within the 30 second deadline

ASSUME BoundsAssumption ==
  MaxRuns \in Nat /\ MaxFailures \in Nat /\ MaxPolls \in Nat \ {0}

VARIABLES
  facade,          \* of HeliotisC4Device: "ready", "close requested", "closing" or "closed"
  cancelRequested, \* _cancelInitializationRequested
  at,              \* where the running profile is
  failed,          \* phases that recorded a required failure
  result,          \* of the last profile
  polls,
  register,        \* registers the profiles wrote
  cursor,          \* entry each selector of the device points at
  stage,           \* of the device
  refused,         \* history: writes of this run that failed
  sinceCancel,     \* history: commands issued after the cancellation of this run
  runs, failures

vars == <<facade, cancelRequested, at, failed, result, polls, register, cursor, stage,
          refused, sinceCancel, runs, failures>>

------------------------------------------------------------------------------
(* The profile: its groups in order.  "stage-init" is not a group of writes. *)

Required(phase, stop, writes) ==
  [phase |-> phase, required |-> TRUE, stop |-> stop, writes |-> writes]

Optional(phase, writes) ==
  [phase |-> phase, required |-> FALSE, stop |-> TRUE, writes |-> writes]

Component(name, enable) == <<<<"ComponentSelector", name>>, <<"ComponentEnable", enable>>>>

Chunk(name) == <<<<"ChunkSelector", name>>, <<"ChunkEnable", "1">>>>

Trigger(name, source) ==
  <<<<"TriggerSelector", name>>, <<"TriggerMode", "On">>, <<"TriggerSource", source>>>>

Profile == <<
  Required("component-intensity", TRUE, Component("Intensity", "0")),
  Required("component-range", TRUE, Component("Range", "1")),
  Required("component-reflectance", TRUE, Component("Reflectance", "1")),
  Required("component-phase", TRUE, Component("Phase", "0")),
  Required("chunk-mode", TRUE, <<<<"ChunkModeActive", "1">>>>),
  Required("chunk-part-count", TRUE, Chunk("PartCount")),
  Required("chunk-part-type", TRUE, Chunk("PartType")),
  Required("trigger-recording-start", TRUE, Trigger("RecordingStart", "Stage")),
  Required("trigger-frame-start", TRUE, Trigger("FrameStart", "Software")),
  Required("encoder-defaults", TRUE,
    <<<<"EncoderSelector", "Camera">>, <<"EncoderInverter", "1">>>>),
  Required("motion-defaults", FALSE,
    <<<<"ScanPosition", "-1.4">>, <<"ScanRange", "0.5">>, <<"ScanSpeed", "5.0">>,
      <<"GeneralSpeed", "10.0">>, <<"ScanMode", "Down">>>>),
  Optional("scan3d-geometry-chunks",
    Chunk("Scan3dDistanceUnit") \o Chunk("Scan3dOutputMode")
      \o Chunk("Scan3dCoordinateScale") \o Chunk("Scan3dCoordinateOffset")),
  Required("stage-init", FALSE, <<>>),
  Required("post-stage-init", FALSE,
    <<<<"Scan3dExtractionMethod", "AcceleratedCenterOfMassIQCorrection">>,
      <<"Scan3dScalingMethod", "zTags">>, <<"Scan3dDistanceUnit", "um">>,
      <<"TargetVerticalSpacing", "2.5">>, <<"ExposureRatio", "1.0">>,
      <<"FPNCorrection", "AverageLastFrames">>, <<"FPNCorrectionNFrames", "8">>,
      <<"ExtSimpMaxHWin", "7">>>>),
  Optional("light-controller",
    <<<<"LightControllerSelector", "LightController0">>,
      <<"LightControllerSource", "UserOutput0">>, <<"LightBrightness", "100.0">>>>),
  Optional("user-output",
    <<<<"UserOutputSelector", "UserOutput0">>, <<"UserOutputValue", "1">>>>)>>

Groups == 1..Len(Profile)
StageGroup == CHOOSE g \in Groups : Profile[g].phase = "stage-init"

------------------------------------------------------------------------------
(* The device: a register is a feature and the entry its selector selects. *)

Selector ==
  [ComponentEnable |-> "ComponentSelector", ChunkEnable |-> "ChunkSelector",
   TriggerMode |-> "TriggerSelector", TriggerSource |-> "TriggerSelector",
   EncoderInverter |-> "EncoderSelector",
   LightControllerSource |-> "LightControllerSelector",
   LightBrightness |-> "LightControllerSelector",
   UserOutputValue |-> "UserOutputSelector"]

SelectorFeatures == {Selector[f] : f \in DOMAIN Selector}

Register(pointed, feature) ==
  <<feature, IF feature \in DOMAIN Selector THEN pointed[Selector[feature]] ELSE "">>

(* An accepted write moves a selector or sets the register it points at. *)
Effect(write) ==
  IF write[1] \in SelectorFeatures
    THEN cursor' = [cursor EXCEPT ![write[1]] = write[2]] /\ UNCHANGED register
    ELSE LET written == Register(cursor, write[1])
         IN /\ register' = [r \in DOMAIN register \cup {written} |->
                              IF r = written THEN write[2] ELSE register[r]]
            /\ UNCHANGED cursor

------------------------------------------------------------------------------
(* One run of the profile *)

Idle == [step |-> "idle", group |-> 1, write |-> 1]

Init ==
  /\ facade = "ready"
  /\ cancelRequested = FALSE
  /\ at = Idle
  /\ failed = {} /\ result = "none" /\ polls = 0
  /\ register = <<>>
  /\ \E entry \in {"AcquisitionStart", "RecordingStart"} :
       cursor = [[s \in SelectorFeatures |-> "Other"] EXCEPT !["TriggerSelector"] = entry]
  /\ stage = "unknown"
  /\ refused = {} /\ sinceCancel = 0
  /\ runs = 0 /\ failures = 0

Running == at.step # "idle"

(* The device is open and no close has claimed it. *)
Admits == facade \in {"ready", "close requested"}

Write == Profile[at.group].writes[at.write]

(* Winning the initialization clears a cancellation meant for an earlier one. *)
Begin ==
  /\ ~Running /\ Admits /\ runs < MaxRuns
  /\ runs' = runs + 1
  /\ cancelRequested' = FALSE
  /\ at' = [step |-> "check", group |-> 1, write |-> 1]
  /\ failed' = {} /\ refused' = {} /\ sinceCancel' = 0 /\ result' = "none"
  /\ UNCHANGED <<facade, polls, register, cursor, stage, failures>>

(* Every way out clears the initialization and its cancellation. *)
End(outcome) ==
  /\ at' = Idle
  /\ result' = outcome
  /\ cancelRequested' = FALSE

(* The group after g, or the end of the profile once all groups were tried. *)
LeaveGroup(g, failures1) ==
  IF g = Len(Profile)
    THEN End(IF failures1 = {} THEN "ok" ELSE "failed")
    ELSE /\ at' = [step  |-> IF g + 1 = StageGroup THEN "stage" ELSE "check",
                   group |-> g + 1, write |-> 1]
         /\ UNCHANGED <<result, cancelRequested>>

NextWrite ==
  IF at.write < Len(Profile[at.group].writes)
    THEN /\ at' = [step |-> "check", group |-> at.group, write |-> at.write + 1]
         /\ UNCHANGED <<result, cancelRequested>>
    ELSE LeaveGroup(at.group, failed')

(* Mutant: the optional groups do not look at the cancellation. *)
CancelSeenByRequired(group) == cancelRequested /\ group.required

(* cancelled: asked before every write of a required or an optional group. *)
CancelSeen(group) == cancelRequested

CheckCancelled ==
  /\ at.step = "check"
  /\ IF CancelSeen(Profile[at.group])
       THEN End("cancelled")
       ELSE at' = [at EXCEPT !.step = "write"] /\ UNCHANGED <<result, cancelRequested>>
  /\ UNCHANGED <<facade, failed, polls, register, cursor, stage, refused, sinceCancel,
                 runs, failures>>

CountCommand == sinceCancel' = IF cancelRequested THEN sinceCancel + 1 ELSE sinceCancel

WriteFeature ==
  /\ at.step = "write" /\ Admits
  /\ Effect(Write)
  /\ CountCommand
  /\ UNCHANGED failed
  /\ NextWrite
  /\ UNCHANGED <<facade, polls, stage, refused, runs, failures>>

(* Mutant: a failed write of a group that goes on is not recorded. *)
RecordedIfStopped(group) == IF group.required /\ group.stop THEN {group.phase} ELSE {}

(* recordRequiredFailure; a failed optional write only warns. *)
Recorded(group) == IF group.required THEN {group.phase} ELSE {}

(* Mutant: a required group goes on after a failed selector. *)
OnlyOptionalStops(group) == ~group.required

(* Mutant: the motion group stops at the first failure as well. *)
EveryGroupStops(group) == TRUE

StopsAfterFailure(group) == group.stop

FailWrite ==
  /\ refused' = refused \cup {<<at.group, at.write>>}
  /\ failed' = failed \cup Recorded(Profile[at.group])
  /\ IF StopsAfterFailure(Profile[at.group])
       THEN LeaveGroup(at.group, failed')
       ELSE NextWrite

(* The device fails a write; whether it took effect is not known. *)
WriteFails ==
  /\ at.step = "write" /\ Admits /\ failures < MaxFailures
  /\ failures' = failures + 1
  /\ Effect(Write) \/ UNCHANGED <<register, cursor>>
  /\ CountCommand
  /\ FailWrite
  /\ UNCHANGED <<facade, polls, stage, runs>>

(* Once close has begun, writeFeature refuses before it reaches the device. *)
WriteRefusedWhileClosing ==
  /\ at.step = "write" /\ facade = "closing"
  /\ FailWrite
  /\ UNCHANGED <<facade, polls, register, cursor, stage, sinceCancel, runs, failures>>

(* Mutant: only the motion defaults are needed. *)
MotionConfigured == "motion-defaults" \notin failed

StageAllowed == {"encoder-defaults", "motion-defaults"} \cap failed = {}

SkipStage ==
  /\ at.step = "stage" /\ ~StageAllowed
  /\ LeaveGroup(at.group, failed)
  /\ UNCHANGED <<facade, failed, polls, register, cursor, stage, refused, sinceCancel,
                 runs, failures>>

CommandStage ==
  /\ at.step = "stage" /\ StageAllowed /\ Admits
  /\ stage' = "moving"
  /\ at' = [at EXCEPT !.step = "poll"]
  /\ polls' = 0
  /\ CountCommand
  /\ UNCHANGED <<facade, cancelRequested, failed, result, register, cursor, refused, runs,
                 failures>>

FailStage(phase) ==
  /\ failed' = failed \cup {phase}
  /\ LeaveGroup(at.group, failed')

(* The command fails on the device, or is refused because close has begun. *)
StageCommandFails ==
  /\ at.step = "stage" /\ StageAllowed
  /\ \/ facade = "closing" /\ UNCHANGED <<stage, sinceCancel, failures>>
     \/ /\ Admits /\ failures < MaxFailures
        /\ failures' = failures + 1
        /\ stage' \in {stage, "moving"}
        /\ CountCommand
  /\ FailStage("stage-init")
  /\ UNCHANGED <<facade, polls, register, cursor, refused, runs>>

PollCancelled ==
  /\ at.step = "poll" /\ cancelRequested
  /\ End("cancelled")
  /\ UNCHANGED <<facade, failed, polls, register, cursor, stage, refused, sinceCancel,
                 runs, failures>>

PollInitialized ==
  /\ at.step = "poll" /\ ~cancelRequested /\ stage = "initialized"
  /\ LeaveGroup(at.group, failed)
  /\ UNCHANGED <<facade, failed, polls, register, cursor, stage, refused, sinceCancel,
                 runs, failures>>

PollUnreadable ==
  /\ at.step = "poll" /\ ~cancelRequested /\ failures < MaxFailures
  /\ failures' = failures + 1
  /\ FailStage("stage-init-status")
  /\ UNCHANGED <<facade, polls, register, cursor, stage, refused, sinceCancel, runs>>

(* Mutant: the stage is polled for ever. *)
NoDeadline(n) == n > MaxPolls

Deadline(n) == n >= MaxPolls

(* The stage still moves: it is polled again until the deadline. *)
PollAgain ==
  /\ at.step = "poll" /\ ~cancelRequested /\ stage # "initialized"
  /\ polls' = IF polls < MaxPolls THEN polls + 1 ELSE polls
  /\ IF Deadline(polls')
       THEN FailStage("stage-init")
       ELSE UNCHANGED <<failed, at, result, cancelRequested>>
  /\ UNCHANGED <<facade, register, cursor, stage, refused, sinceCancel, runs, failures>>

StageArrives ==
  /\ stage = "moving"
  /\ stage' = "initialized"
  /\ UNCHANGED <<facade, cancelRequested, at, failed, result, polls, register, cursor,
                 refused, sinceCancel, runs, failures>>

(* requestCancelInitialization, by any thread at any time. *)
RequestCancel ==
  /\ Admits /\ ~cancelRequested
  /\ cancelRequested' = TRUE
  /\ UNCHANGED <<facade, at, failed, result, polls, register, cursor, stage, refused,
                 sinceCancel, runs, failures>>

(* close requests the cancellation, then claims the device, and takes its     *)
(* handles when no profile runs; a profile begun between the two steps clears *)
(* the request.                                                               *)
RequestClose ==
  /\ facade = "ready"
  /\ facade' = "close requested"
  /\ cancelRequested' = TRUE
  /\ UNCHANGED <<at, failed, result, polls, register, cursor, stage, refused,
                 sinceCancel, runs, failures>>

ClaimClose ==
  /\ facade = "close requested"
  /\ facade' = "closing"
  /\ UNCHANGED <<cancelRequested, at, failed, result, polls, register, cursor, stage,
                 refused, sinceCancel, runs, failures>>

TakeHandles ==
  /\ facade = "closing" /\ ~Running
  /\ facade' = "closed"
  /\ UNCHANGED <<cancelRequested, at, failed, result, polls, register, cursor, stage,
                 refused, sinceCancel, runs, failures>>

ProfileStep ==
  \/ CheckCancelled \/ WriteFeature \/ WriteFails \/ WriteRefusedWhileClosing
  \/ SkipStage \/ CommandStage \/ StageCommandFails
  \/ PollCancelled \/ PollInitialized \/ PollUnreadable \/ PollAgain

Next == Begin \/ ProfileStep \/ StageArrives \/ RequestCancel
        \/ RequestClose \/ ClaimClose \/ TakeHandles

Spec == Init /\ [][Next]_vars
FairSpec == Spec /\ WF_vars(ProfileStep)

------------------------------------------------------------------------------

TypeOK ==
  /\ facade \in {"ready", "close requested", "closing", "closed"}
  /\ cancelRequested \in BOOLEAN
  /\ at \in [step : {"idle", "check", "write", "stage", "poll"}, group : Groups, write : Nat]
  /\ at.step \in {"check", "write"} => at.write \in DOMAIN Profile[at.group].writes
  /\ failed \subseteq {Profile[g].phase : g \in Groups} \cup {"stage-init-status"}
  /\ result \in {"none", "ok", "failed", "cancelled"}
  /\ polls \in 0..MaxPolls
  /\ DOMAIN cursor = SelectorFeatures
  /\ stage \in {"unknown", "moving", "initialized"}
  /\ runs \in 0..MaxRuns /\ failures \in 0..MaxFailures

(* The register a write of the profile is meant for: the last selector the    *)
(* group set before it says which.                                            *)
Meant(group, i) ==
  LET feature == group.writes[i][1]
      before  == {j \in 1..i : group.writes[j][1] \in SelectorFeatures}
      last    == CHOOSE j \in before : \A k \in before : k <= j
  IN <<feature, IF feature \in DOMAIN Selector THEN group.writes[last][2] ELSE "">>

Settings(group) ==
  {i \in DOMAIN group.writes : group.writes[i][1] \notin SelectorFeatures}

(* What the profile means to set: <<register, value>> of every setting. *)
MeantSettings ==
  UNION {{<<Meant(Profile[g], i), Profile[g].writes[i][2]>> : i \in Settings(Profile[g])} :
         g \in Groups}

Applied(group, i) ==
  /\ Meant(group, i) \in DOMAIN register
  /\ register[Meant(group, i)] = group.writes[i][2]

(***************************************************************************)
(* A failed selector write never sends the rest of its group elsewhere:    *)
(* every register a profile changed is one the profile means, and holds    *)
(* the value the profile means for it.  In particular the device's         *)
(* AcquisitionStart trigger is preserved (docs/ARCHITECTURE.md:46), even   *)
(* when the failed selector write left the cursor on it.                   *)
(***************************************************************************)
OnlyMeantRegisters ==
  \A r \in DOMAIN register : <<r, register[r]>> \in MeantSettings

(***************************************************************************)
(* The profile reports success only if every required register holds its   *)
(* value and the stage finished its initialization in this run, whatever   *)
(* failed without stopping the run.                                        *)
(***************************************************************************)
SuccessMeansApplied ==
  result = "ok" =>
    /\ \A g \in Groups : Profile[g].required =>
         \A i \in Settings(Profile[g]) : Applied(Profile[g], i)
    /\ stage = "initialized"

(***************************************************************************)
(* The stage is commanded to move only when the encoder and motion         *)
(* defaults are on the device (HeliotisC4System.h:92-93).  A stage that an *)
(* earlier run left moving is not commanded.                               *)
(***************************************************************************)
StageMovesWhenConfigured ==
  [][at.step = "stage" /\ (at'.step = "poll" \/ (stage # "moving" /\ stage' = "moving")) =>
       \A g \in Groups : Profile[g].phase \in {"encoder-defaults", "motion-defaults"} =>
         \A i \in Settings(Profile[g]) : Applied(Profile[g], i)]_vars

(***************************************************************************)
(* A run that was not cancelled has tried everything it could: a setting   *)
(* is missing only if its own write failed, or an earlier one of a group   *)
(* that depends on it (HeliotisC4System.h:91).                             *)
(***************************************************************************)
IndependentGroupsContinue ==
  result \in {"ok", "failed"} =>
    \A g \in Groups : \A i \in Settings(Profile[g]) :
      \/ Applied(Profile[g], i)
      \/ <<g, i>> \in refused
      \/ Profile[g].phase \notin {"motion-defaults", "post-stage-init"}
         /\ \E j \in 1..i : <<g, j>> \in refused

P == INSTANCE AcquisitionPolicy
       WITH ExternalSources <- {"Line0"}, OtherModes <- {"Latched"},
            acquisitionStart <- 0, frameStart <- 0, recordingStart <- 0, plan <- 0

(* What an arm can read of a gate. *)
Readings == [mode : BOOLEAN, source : BOOLEAN]

Gate(name, r) ==
  [modeReadable |-> r.mode, sourceReadable |-> r.source,
   mode |-> register[<<"TriggerMode", name>>], source |-> register[<<"TriggerSource", name>>]]

(***************************************************************************)
(* After a successful profile the arm policy refuses the device only for   *)
(* what the profile does not decide: an AcquisitionStart whose mode cannot *)
(* be read or is unknown, or a gate that cannot be read.  The code then    *)
(* reports success with the warning "not armable" (HeliotisC4System.cpp:   *)
(* 1729) and an arm fails closed.  With all that read, the plan is the     *)
(* canonical one: the host issues FrameStart and the stage the recording.  *)
(***************************************************************************)
ArmableIfRead ==
  result = "ok" =>
    \A as \in P!TriggerSelectorState, f, r \in Readings :
      LET plan == P!EvaluateAcquisitionTriggerPlan(as, Gate("FrameStart", f),
                                                   Gate("RecordingStart", r))
      IN IF /\ as.modeReadable /\ as.mode \in {"On", "Off"}
            /\ f.mode /\ f.source /\ r.mode /\ r.source
           THEN P!UsesHostSoftwareTrigger(plan) /\ plan.recordingStartRoute = "Stage"
           ELSE ~plan.valid

(***************************************************************************)
(* A profile that reports success left a device that is configured, and    *)
(* that an arm refuses only for what it cannot read or what the profile    *)
(* did not write.                                                          *)
(***************************************************************************)
SuccessIsReal == SuccessMeansApplied /\ ArmableIfRead

(***************************************************************************)
(* A cancellation is seen before the third device command: the write that  *)
(* was already decided and, after the optional geometry group, StageInit   *)
(* may still go out.                                                       *)
(***************************************************************************)
CancelIsPrompt == sinceCancel <= 2

(***************************************************************************)
(* A profile ends, so a close that waits for it does too: the stage is     *)
(* polled up to a deadline only.  The thread that runs it is not blocked.  *)
(***************************************************************************)
ProfileEnds == Running ~> ~Running
=============================================================================
