----------------------- MODULE ReferenceProfile_proofs -----------------------
(***************************************************************************)
(* What the H8 profile leaves on the device and how soon it obeys a        *)
(* cancellation, for every number of runs, failing commands and polls.     *)
(*                                                                         *)
(* The proofs rest on what the table of groups says, gathered in Table:    *)
(* the group that a selector belongs to stops at a failure, and a setting  *)
(* that depends on a selector follows the write of its entry.              *)
(***************************************************************************)
EXTENDS ReferenceProfile, SequenceTheorems, TLAPS

(* StageInit is a group of the profile, so "stage-init" has one place in it. *)
LEMMA StageGroupIsNumber == StageGroup \in Nat
<1>1. Len(Profile) = 16 /\ Profile[13] = Required("stage-init", FALSE, <<>>)
  BY DEF Profile
<1>2. 13 \in Groups
  BY <1>1 DEF Groups
<1>3. Profile[13].phase = "stage-init"
  BY <1>1 DEF Required
<1>4. StageGroup \in Groups
  BY <1>2, <1>3 DEF StageGroup
<1>5. QED
  BY <1>1, <1>4 DEF Groups

(* How many commands may have followed the cancellation, by the step the    *)
(* profile is at: a write is decided before any of them, StageInit after at *)
(* most one, and nothing is commanded from a check or a poll.               *)
Steps == {"idle", "check", "write", "stage", "poll"}

PromptInv ==
  /\ cancelRequested \in BOOLEAN
  /\ at \in [step : Steps, group : Nat, write : Nat]
  /\ at.step \in {"stage", "poll"} => at.group = StageGroup
  /\ sinceCancel \in 0..2
  /\ at.step = "stage" => sinceCancel <= 1
  /\ at.step = "write" => sinceCancel = 0
  /\ at.step # "idle" /\ ~cancelRequested => sinceCancel = 0

LEMMA PromptInit == Init => PromptInv
<1> SUFFICES ASSUME Init PROVE PromptInv
  OBVIOUS
<1>1. cancelRequested = FALSE
  BY DEF Init
<1>2. at = [step |-> "idle", group |-> 1, write |-> 1]
  BY DEF Init, Idle
<1>3. sinceCancel = 0
  BY DEF Init
<1>4. at \in [step : Steps, group : Nat, write : Nat] /\ at.step = "idle"
  BY <1>2 DEF Steps
<1>5. sinceCancel \in 0..2
  BY <1>3
<1>6. QED
  BY <1>1, <1>3, <1>4, <1>5 DEF PromptInv

(* Where the profile stands once a group is left: at the check of the next   *)
(* group, at StageInit, or at the end.                                        *)
Left ==
  /\ at' \in [step : {"check", "stage", "idle"}, group : Nat, write : Nat]
  /\ cancelRequested' \in BOOLEAN
  /\ at'.step = "stage" => at'.group = StageGroup
  /\ at'.step # "idle" => cancelRequested' = cancelRequested

LEMMA PromptNext == PromptInv /\ [Next]_vars => PromptInv'
<1> SUFFICES ASSUME PromptInv, [Next]_vars PROVE PromptInv'
  OBVIOUS
<1> USE DEF Steps
(* StageInit is not followed by StageInit. *)
<1>1. ASSUME NEW g \in Nat, NEW failures1, LeaveGroup(g, failures1)
      PROVE  Left /\ (g = StageGroup => at'.step # "stage")
  <2>1. CASE g = Len(Profile)
    <3>1. at' = [step |-> "idle", group |-> 1, write |-> 1] /\ cancelRequested' = FALSE
      BY <1>1, <2>1 DEF LeaveGroup, End, Idle
    <3>2. QED
      BY <3>1 DEF Left
  <2>2. CASE g # Len(Profile)
    <3>1. /\ at' = [step |-> IF g + 1 = StageGroup THEN "stage" ELSE "check",
                    group |-> g + 1, write |-> 1]
          /\ cancelRequested' = cancelRequested
      BY <1>1, <2>2 DEF LeaveGroup
    <3>2. cancelRequested' \in BOOLEAN
      BY <3>1 DEF PromptInv
    <3>3. CASE g + 1 = StageGroup
      BY <3>1, <3>2, <3>3 DEF Left
    <3>4. CASE g + 1 # StageGroup
      BY <3>1, <3>2, <3>4 DEF Left
    <3>5. QED
      BY <3>3, <3>4
  <2>3. QED
    BY <2>1, <2>2
<1>2. ASSUME NextWrite
      PROVE  Left
  <2>1. CASE at.write < Len(Profile[at.group].writes)
    <3>1. /\ at' = [step |-> "check", group |-> at.group, write |-> at.write + 1]
          /\ cancelRequested' = cancelRequested
      BY <1>2, <2>1 DEF NextWrite
    <3>2. QED
      BY <3>1 DEF Left, PromptInv
  <2>2. CASE ~(at.write < Len(Profile[at.group].writes))
    <3>1. LeaveGroup(at.group, failed')
      BY <1>2, <2>2 DEF NextWrite
    <3>2. at.group \in Nat
      BY DEF PromptInv
    <3>3. QED
      BY <1>1, <3>1, <3>2
  <2>3. QED
    BY <2>1, <2>2
<1>3. ASSUME FailWrite
      PROVE  Left
  <2>1. LeaveGroup(at.group, failed') \/ NextWrite
    BY <1>3 DEF FailWrite
  <2>2. at.group \in Nat
    BY DEF PromptInv
  <2>3. QED
    BY <1>1, <1>2, <2>1, <2>2
(* A write was decided before the cancellation, so it is at most the first. *)
<1>4. ASSUME at.step = "write", Left,
             sinceCancel' = sinceCancel \/ CountCommand
      PROVE  PromptInv'
  <2>1. sinceCancel' \in 0..1 /\ (~cancelRequested => sinceCancel' = 0)
    BY <1>4 DEF PromptInv, CountCommand
  <2>2. QED
    BY <1>4, <2>1 DEF PromptInv, Left
(* StageInit is at most the second, and a poll sees the cancellation. *)
<1>5. ASSUME at.step = "stage", Left, at'.step # "stage",
             sinceCancel' = sinceCancel \/ CountCommand
      PROVE  PromptInv'
  <2>1. sinceCancel' \in 0..2 /\ (~cancelRequested => sinceCancel' = 0)
    BY <1>5 DEF PromptInv, CountCommand
  <2>2. QED
    BY <1>5, <2>1 DEF PromptInv, Left
<1>6. ASSUME at.step = "poll", Left, at'.step # "stage", sinceCancel' = sinceCancel
      PROVE  PromptInv'
  BY <1>6 DEF PromptInv, Left
(* An end, and a step of the environment of the profile. *)
<1>7. ASSUME at' = Idle, cancelRequested' = FALSE, sinceCancel' = sinceCancel
      PROVE  PromptInv'
  BY <1>7 DEF PromptInv, Idle
<1>8. ASSUME at' = at, cancelRequested' \in {cancelRequested, TRUE}, sinceCancel' = sinceCancel
      PROVE  PromptInv'
  BY <1>8 DEF PromptInv
<1>9. CASE Begin
  <2>1. /\ at' = [step |-> "check", group |-> 1, write |-> 1]
        /\ cancelRequested' = FALSE /\ sinceCancel' = 0
    BY <1>9 DEF Begin
  <2>2. at'.step = "check" /\ at' \in [step : Steps, group : Nat, write : Nat]
    BY <2>1
  <2>3. sinceCancel' = 0 /\ cancelRequested' \in BOOLEAN
    BY <2>1
  <2>4. sinceCancel' \in 0..2
    BY <2>3
  <2>5. sinceCancel' <= 1
    BY <2>3
  <2>6. QED
    BY <2>2, <2>3, <2>4, <2>5, Zenon DEF PromptInv
<1>10. CASE CheckCancelled
  <2>1. CASE CancelSeen(Profile[at.group])
    BY <1>7, <1>10, <2>1 DEF CheckCancelled, End
  <2>2. CASE ~CancelSeen(Profile[at.group])
    <3>1. /\ at.step = "check" /\ ~cancelRequested /\ cancelRequested' = cancelRequested
          /\ at' = [at EXCEPT !.step = "write"] /\ sinceCancel' = sinceCancel
      BY <1>10, <2>2 DEF CheckCancelled, CancelSeen
    <3>2. at'.step = "write" /\ at' \in [step : Steps, group : Nat, write : Nat]
      BY <3>1 DEF PromptInv
    <3>3. QED
      BY <3>1, <3>2 DEF PromptInv
  <2>3. QED
    BY <2>1, <2>2
<1>11. CASE WriteFeature
  BY <1>2, <1>4, <1>11 DEF WriteFeature
<1>12. CASE WriteFails
  BY <1>3, <1>4, <1>12 DEF WriteFails
<1>13. CASE WriteRefusedWhileClosing
  BY <1>3, <1>4, <1>13 DEF WriteRefusedWhileClosing
(* What the end of StageInit leaves, reached from its command or a poll. *)
<1>14. ASSUME at.step \in {"stage", "poll"}, NEW failures1, LeaveGroup(at.group, failures1)
       PROVE  Left /\ at'.step # "stage"
  <2>1. at.group \in Nat /\ at.group = StageGroup
    BY <1>14, StageGroupIsNumber DEF PromptInv
  <2>2. QED
    BY <1>1, <1>14, <2>1
<1>15. CASE SkipStage
  BY <1>5, <1>14, <1>15 DEF SkipStage
<1>16. CASE CommandStage
  <2>1. /\ at.step = "stage" /\ at' = [at EXCEPT !.step = "poll"]
        /\ cancelRequested' = cancelRequested /\ CountCommand
    BY <1>16 DEF CommandStage
  <2>2. at' \in [step : Steps, group : Nat, write : Nat] /\ at'.step = "poll" /\ at'.group = at.group
    BY <2>1 DEF PromptInv
  <2>3. sinceCancel' \in 0..2 /\ (~cancelRequested => sinceCancel' = 0)
    BY <2>1 DEF PromptInv, CountCommand
  <2>4. QED
    BY <2>1, <2>2, <2>3 DEF PromptInv
<1>17. CASE StageCommandFails
  <2>1. at.step = "stage" /\ (sinceCancel' = sinceCancel \/ CountCommand)
        /\ LeaveGroup(at.group, failed')
    BY <1>17 DEF StageCommandFails, FailStage
  <2>2. QED
    BY <1>5, <1>14, <2>1
<1>18. CASE PollCancelled
  BY <1>7, <1>18 DEF PollCancelled, End
<1>19. CASE PollInitialized
  BY <1>6, <1>14, <1>19 DEF PollInitialized
<1>20. CASE PollUnreadable
  BY <1>6, <1>14, <1>20 DEF PollUnreadable, FailStage
<1>21. CASE PollAgain
  <2>1. CASE Deadline(polls')
    BY <1>6, <1>14, <1>21, <2>1 DEF PollAgain, FailStage
  <2>2. CASE ~Deadline(polls')
    BY <1>8, <1>21, <2>2 DEF PollAgain
  <2>3. QED
    BY <2>1, <2>2
<1>22. CASE RequestCancel \/ RequestClose
  BY <1>8, <1>22 DEF RequestCancel, RequestClose
<1>23. CASE StageArrives \/ ClaimClose \/ TakeHandles \/ UNCHANGED vars
  BY <1>8, <1>23 DEF StageArrives, ClaimClose, TakeHandles, vars
<1>24. QED
  BY <1>9, <1>10, <1>11, <1>12, <1>13, <1>15, <1>16, <1>17, <1>18, <1>19, <1>20, <1>21,
     <1>22, <1>23 DEF Next, ProfileStep

(***************************************************************************)
(* At most two commands reach the device after a cancellation was asked    *)
(* for: the write already decided, and StageInit after an optional group.  *)
(***************************************************************************)
THEOREM CancellationIsPrompt == Spec => []CancelIsPrompt
<1>1. PromptInv => CancelIsPrompt
  BY DEF PromptInv, CancelIsPrompt
<1>2. QED
  BY PromptInit, PromptNext, <1>1, PTL DEF Spec
------------------------------------------------------------------------------
(* The table of the profile *)

LEMMA SelectorTable ==
  /\ DOMAIN Selector =
       {"ComponentEnable", "ChunkEnable", "TriggerMode", "TriggerSource", "EncoderInverter",
        "LightControllerSource", "LightBrightness", "UserOutputValue"}
  /\ Selector["ComponentEnable"] = "ComponentSelector"
  /\ Selector["ChunkEnable"] = "ChunkSelector"
  /\ Selector["TriggerMode"] = "TriggerSelector"
  /\ Selector["TriggerSource"] = "TriggerSelector"
  /\ Selector["EncoderInverter"] = "EncoderSelector"
  /\ Selector["LightControllerSource"] = "LightControllerSelector"
  /\ Selector["LightBrightness"] = "LightControllerSelector"
  /\ Selector["UserOutputValue"] = "UserOutputSelector"
BY DEF Selector

LEMMA SelectorNames ==
  SelectorFeatures =
    {"ComponentSelector", "ChunkSelector", "TriggerSelector", "EncoderSelector",
     "LightControllerSelector", "UserOutputSelector"}
BY SelectorTable DEF SelectorFeatures

(* The one value the profile means for a register. *)
ValueOf(feature, entry) ==
  CASE feature = "ComponentEnable" -> IF entry \in {"Range", "Reflectance"} THEN "1" ELSE "0"
    [] feature = "TriggerSource" -> IF entry = "RecordingStart" THEN "Stage" ELSE "Software"
    [] feature \in {"ChunkModeActive", "ChunkEnable", "EncoderInverter", "UserOutputValue"} -> "1"
    [] feature = "TriggerMode" -> "On"
    [] feature = "ScanPosition" -> "-1.4"
    [] feature = "ScanRange" -> "0.5"
    [] feature = "ScanSpeed" -> "5.0"
    [] feature = "GeneralSpeed" -> "10.0"
    [] feature = "ScanMode" -> "Down"
    [] feature = "Scan3dExtractionMethod" -> "AcceleratedCenterOfMassIQCorrection"
    [] feature = "Scan3dScalingMethod" -> "zTags"
    [] feature = "Scan3dDistanceUnit" -> "um"
    [] feature = "TargetVerticalSpacing" -> "2.5"
    [] feature = "ExposureRatio" -> "1.0"
    [] feature = "FPNCorrection" -> "AverageLastFrames"
    [] feature = "FPNCorrectionNFrames" -> "8"
    [] feature = "ExtSimpMaxHWin" -> "7"
    [] feature = "LightControllerSource" -> "UserOutput0"
    [] feature = "LightBrightness" -> "100.0"

(* The write j sets the entry that the write i is meant for. *)
Selects(writes, j, i) ==
  /\ writes[j][1] = Selector[writes[i][1]]
  /\ \A k \in (j + 1)..i : writes[k][1] \notin SelectorFeatures

WellSelected(writes) ==
  \A i \in DOMAIN writes :
    /\ writes[i][1] \in DOMAIN Selector =>
         \E j \in 1..(i - 1) :
           Selects(writes, j, i) /\ writes[i][2] = ValueOf(writes[i][1], writes[j][2])
    /\ writes[i][1] \notin DOMAIN Selector \cup SelectorFeatures =>
         writes[i][2] = ValueOf(writes[i][1], "")

(* A sequence of pairs of writes, the entry and the setting it is for. *)
Paired(writes, selector, feature) ==
  \A i \in DOMAIN writes :
    IF i % 2 = 1 THEN writes[i][1] = selector
    ELSE /\ writes[i][1] = feature
         /\ writes[i][2] = ValueOf(feature, writes[i - 1][2])

LEMMA PairedSelected ==
  ASSUME NEW n \in Nat, NEW writes, DOMAIN writes = 1..n, NEW selector, NEW feature,
         Paired(writes, selector, feature), feature \in DOMAIN Selector,
         Selector[feature] = selector
  PROVE  WellSelected(writes)
<1>1. selector \in SelectorFeatures
  BY DEF SelectorFeatures
<1>2. feature \notin SelectorFeatures /\ selector \notin DOMAIN Selector
  BY SelectorTable, SelectorNames
<1>3. ASSUME NEW i \in 1..n, writes[i][1] = feature
      PROVE  \E j \in 1..(i - 1) :
               Selects(writes, j, i) /\ writes[i][2] = ValueOf(writes[i][1], writes[j][2])
  <2>1. i % 2 # 1
    BY <1>1, <1>2, <1>3 DEF Paired
  <2>2. i - 1 \in 1..(i - 1) /\ i - 1 \in 1..n /\ (i - 1) % 2 = 1
    BY <2>1
  <2>3. writes[i - 1][1] = selector /\ writes[i][2] = ValueOf(feature, writes[i - 1][2])
    BY <2>1, <2>2 DEF Paired
  <2>4. \A k \in ((i - 1) + 1)..i : k = i
    OBVIOUS
  <2>5. Selects(writes, i - 1, i)
    BY <1>2, <1>3, <2>3, <2>4 DEF Selects
  <2>6. QED
    BY <1>3, <2>2, <2>3, <2>5
<1>4. \A i \in 1..n : writes[i][1] \in {selector, feature}
  BY DEF Paired
<1>5. QED
  BY <1>1, <1>2, <1>3, <1>4 DEF WellSelected

LEMMA PairSelected ==
  ASSUME NEW selector, NEW entry, NEW feature \in DOMAIN Selector, NEW value,
         Selector[feature] = selector, value = ValueOf(feature, entry)
  PROVE  WellSelected(<<<<selector, entry>>, <<feature, value>>>>)
<1> DEFINE writes == <<<<selector, entry>>, <<feature, value>>>>
<1>1. DOMAIN writes = 1..2
  OBVIOUS
<1>2. Paired(writes, selector, feature)
  <2>1. ASSUME NEW i \in 1..2
        PROVE  IF i % 2 = 1 THEN writes[i][1] = selector
               ELSE writes[i][1] = feature /\ writes[i][2] = ValueOf(feature, writes[i - 1][2])
    <3>1. CASE i = 1
      BY <3>1
    <3>2. CASE i = 2
      BY <3>2
    <3>3. QED
      BY <3>1, <3>2
  <2>2. QED
    BY <1>1, <2>1 DEF Paired
<1>3. QED
  BY <1>1, <1>2, PairedSelected

LEMMA TripleSelected ==
  ASSUME NEW selector, NEW entry, NEW f2 \in DOMAIN Selector, NEW v2, NEW f3 \in DOMAIN Selector, NEW v3,
         Selector[f2] = selector, Selector[f3] = selector,
         v2 = ValueOf(f2, entry), v3 = ValueOf(f3, entry)
  PROVE  WellSelected(<<<<selector, entry>>, <<f2, v2>>, <<f3, v3>>>>)
<1> DEFINE writes == <<<<selector, entry>>, <<f2, v2>>, <<f3, v3>>>>
<1>1. /\ DOMAIN writes = 1..3
      /\ writes[1] = <<selector, entry>> /\ writes[2] = <<f2, v2>> /\ writes[3] = <<f3, v3>>
  OBVIOUS
<1> HIDE DEF writes
<1>2. selector \in SelectorFeatures /\ selector \notin DOMAIN Selector
  BY SelectorTable, SelectorNames DEF SelectorFeatures
<1>3. f2 \notin SelectorFeatures /\ f3 \notin SelectorFeatures
  BY SelectorTable, SelectorNames
<1>4. \A k \in 2..3 : writes[k][1] \notin SelectorFeatures
  BY <1>1, <1>3
<1>5. Selects(writes, 1, 2) /\ Selects(writes, 1, 3)
  BY <1>1, <1>4 DEF Selects
<1>6. ASSUME NEW i \in 1..3
      PROVE  /\ writes[i][1] \in DOMAIN Selector =>
                  \E j \in 1..(i - 1) :
                    Selects(writes, j, i) /\ writes[i][2] = ValueOf(writes[i][1], writes[j][2])
             /\ writes[i][1] \in DOMAIN Selector \cup SelectorFeatures
  <2>1. CASE i = 1
    BY <1>1, <1>2, <2>1
  <2>2. CASE i \in {2, 3}
    <3>1. 1 \in 1..(i - 1) /\ Selects(writes, 1, i) /\ writes[i][1] \in DOMAIN Selector
      BY <1>1, <1>5, <2>2
    <3>2. writes[i][2] = ValueOf(writes[i][1], writes[1][2])
      BY <1>1, <2>2
    <3>3. QED
      BY <3>1, <3>2
  <2>3. QED
    BY <2>1, <2>2
<1>7. QED
  BY <1>1, <1>6 DEF WellSelected, writes

(* Two sequences of pairs, one after the other. *)
LEMMA PairedConcat ==
  ASSUME NEW S, NEW s \in Seq(S), NEW t \in Seq(S), NEW selector, NEW feature,
         Len(s) % 2 = 0, Paired(s, selector, feature), Paired(t, selector, feature)
  PROVE  /\ s \o t \in Seq(S) /\ Len(s \o t) = Len(s) + Len(t)
         /\ Paired(s \o t, selector, feature)
<1>1. /\ s \o t \in Seq(S) /\ Len(s \o t) = Len(s) + Len(t)
      /\ \A i \in 1..(Len(s) + Len(t)) : (s \o t)[i] = IF i <= Len(s) THEN s[i] ELSE t[i - Len(s)]
  BY ConcatProperties
<1>2. Len(s) \in Nat /\ Len(t) \in Nat /\ DOMAIN s = 1..Len(s) /\ DOMAIN t = 1..Len(t)
  BY LenProperties
<1>3. DOMAIN (s \o t) = 1..(Len(s) + Len(t))
  BY <1>1, LenProperties
<1> DEFINE c == s \o t
<1> HIDE DEF c
<1>4. ASSUME NEW i \in 1..(Len(s) + Len(t))
      PROVE  IF i % 2 = 1 THEN c[i][1] = selector
             ELSE c[i][1] = feature /\ c[i][2] = ValueOf(feature, c[i - 1][2])
  <2>1. CASE i <= Len(s)
    <3>1. c[i] = s[i] /\ i \in DOMAIN s /\ (i % 2 # 1 => c[i - 1] = s[i - 1])
      BY <1>1, <1>2, <2>1 DEF c
    <3>2. QED
      BY <3>1 DEF Paired
  <2>2. CASE i > Len(s)
    <3>1. c[i] = t[i - Len(s)] /\ i - Len(s) \in DOMAIN t
      BY <1>1, <1>2, <2>2 DEF c
    <3>2. (i - Len(s)) % 2 = i % 2
      BY <1>2
    <3>3. i % 2 # 1 => i - 1 > Len(s) /\ i - 1 \in 1..(Len(s) + Len(t))
      BY <1>2, <2>2
    <3>4. i % 2 # 1 => c[i - 1] = t[(i - Len(s)) - 1]
      <4> SUFFICES ASSUME i % 2 # 1 PROVE c[i - 1] = t[(i - Len(s)) - 1]
        OBVIOUS
      <4>1. (i - 1) - Len(s) = (i - Len(s)) - 1 /\ ~(i - 1 <= Len(s))
        BY <1>2, <3>3
      <4>2. c[i - 1] = t[(i - 1) - Len(s)]
        BY <1>1, <3>3, <4>1 DEF c
      <4>3. QED
        BY <4>1, <4>2
    <3>5. QED
      BY <3>1, <3>2, <3>4 DEF Paired
  <2>3. QED
    BY <1>2, <2>1, <2>2
<1>5. QED
  BY <1>1, <1>3, <1>4 DEF Paired, c

LEMMA ChunksSelected ==
  ASSUME NEW a, NEW b, NEW c, NEW d
  PROVE  /\ WellSelected(Chunk(a) \o Chunk(b) \o Chunk(c) \o Chunk(d))
         /\ DOMAIN (Chunk(a) \o Chunk(b) \o Chunk(c) \o Chunk(d)) = 1..8
         /\ Len(Chunk(a) \o Chunk(b) \o Chunk(c) \o Chunk(d)) = 8
<1> DEFINE S == {<<"ChunkSelector", a>>, <<"ChunkSelector", b>>, <<"ChunkSelector", c>>,
                 <<"ChunkSelector", d>>, <<"ChunkEnable", "1">>}
<1>1. ASSUME NEW n \in {a, b, c, d}
      PROVE  /\ Chunk(n) \in Seq(S) /\ Len(Chunk(n)) = 2
             /\ Paired(Chunk(n), "ChunkSelector", "ChunkEnable")
  <2>1. Chunk(n) \in Seq(S) /\ Len(Chunk(n)) = 2 /\ DOMAIN Chunk(n) = 1..2
    <3>1. <<"ChunkSelector", n>> \in S /\ <<"ChunkEnable", "1">> \in S
      OBVIOUS
    <3> HIDE DEF S
    <3>2. QED
      BY <3>1 DEF Chunk
  <2>2. "1" = ValueOf("ChunkEnable", n)
    BY DEF ValueOf
  <2>3. ASSUME NEW i \in 1..2
        PROVE  IF i % 2 = 1 THEN Chunk(n)[i][1] = "ChunkSelector"
               ELSE /\ Chunk(n)[i][1] = "ChunkEnable"
                    /\ Chunk(n)[i][2] = ValueOf("ChunkEnable", Chunk(n)[i - 1][2])
    <3>1. CASE i = 1
      BY <3>1 DEF Chunk
    <3>2. CASE i = 2
      BY <2>2, <3>2 DEF Chunk
    <3>3. QED
      BY <3>1, <3>2
  <2>4. QED
    BY <2>1, <2>3 DEF Paired
<1> DEFINE ab == Chunk(a) \o Chunk(b)
           abc == ab \o Chunk(c)
           abcd == abc \o Chunk(d)
<1> HIDE DEF S
<1>2. ASSUME NEW s \in Seq(S), NEW n \in {a, b, c, d}, NEW l \in {2, 4, 6}, Len(s) = l,
             Paired(s, "ChunkSelector", "ChunkEnable")
      PROVE  /\ s \o Chunk(n) \in Seq(S) /\ Len(s \o Chunk(n)) = l + 2
             /\ Paired(s \o Chunk(n), "ChunkSelector", "ChunkEnable")
  <2>1. Len(s) % 2 = 0
    BY <1>2
  <2>2. Chunk(n) \in Seq(S) /\ Len(Chunk(n)) = 2 /\ Paired(Chunk(n), "ChunkSelector", "ChunkEnable")
    BY <1>1
  <2>3. /\ s \o Chunk(n) \in Seq(S) /\ Len(s \o Chunk(n)) = Len(s) + Len(Chunk(n))
        /\ Paired(s \o Chunk(n), "ChunkSelector", "ChunkEnable")
    BY <1>2, <2>1, <2>2, PairedConcat, Zenon
  <2>4. QED
    BY <1>2, <2>2, <2>3
<1>3. ab \in Seq(S) /\ Len(ab) = 4 /\ Paired(ab, "ChunkSelector", "ChunkEnable")
  BY <1>1, <1>2
<1> HIDE DEF ab
<1>4. abc \in Seq(S) /\ Len(abc) = 6 /\ Paired(abc, "ChunkSelector", "ChunkEnable")
  BY <1>2, <1>3
<1> HIDE DEF abc
<1>5. abcd \in Seq(S) /\ Len(abcd) = 8 /\ Paired(abcd, "ChunkSelector", "ChunkEnable")
  BY <1>2, <1>4
<1> HIDE DEF abcd
<1>6. DOMAIN abcd = 1..8
  BY <1>5, LenProperties
<1>7. WellSelected(abcd)
  BY <1>5, <1>6, SelectorTable, PairedSelected
<1>8. QED
  BY <1>5, <1>6, <1>7 DEF ab, abc, abcd

LEMMA UnselectedWrites ==
  ASSUME NEW writes,
         \A i \in DOMAIN writes :
           /\ writes[i][1] \notin SelectorFeatures \cup DOMAIN Selector
           /\ writes[i][2] = ValueOf(writes[i][1], "")
  PROVE  WellSelected(writes)
BY DEF WellSelected

LEMMA Rows ==
  /\ Profile[1] = Required("component-intensity", TRUE, Component("Intensity", "0"))
  /\ Profile[2] = Required("component-range", TRUE, Component("Range", "1"))
  /\ Profile[3] = Required("component-reflectance", TRUE, Component("Reflectance", "1"))
  /\ Profile[4] = Required("component-phase", TRUE, Component("Phase", "0"))
  /\ Profile[5] = Required("chunk-mode", TRUE, <<<<"ChunkModeActive", "1">>>>)
  /\ Profile[6] = Required("chunk-part-count", TRUE, Chunk("PartCount"))
  /\ Profile[7] = Required("chunk-part-type", TRUE, Chunk("PartType"))
  /\ Profile[8] = Required("trigger-recording-start", TRUE, Trigger("RecordingStart", "Stage"))
  /\ Profile[9] = Required("trigger-frame-start", TRUE, Trigger("FrameStart", "Software"))
  /\ Profile[10] = Required("encoder-defaults", TRUE,
                     <<<<"EncoderSelector", "Camera">>, <<"EncoderInverter", "1">>>>)
  /\ Profile[11] = Required("motion-defaults", FALSE,
                     <<<<"ScanPosition", "-1.4">>, <<"ScanRange", "0.5">>, <<"ScanSpeed", "5.0">>,
                       <<"GeneralSpeed", "10.0">>, <<"ScanMode", "Down">>>>)
  /\ Profile[12] = Optional("scan3d-geometry-chunks",
                     Chunk("Scan3dDistanceUnit") \o Chunk("Scan3dOutputMode")
                       \o Chunk("Scan3dCoordinateScale") \o Chunk("Scan3dCoordinateOffset"))
  /\ Profile[13] = Required("stage-init", FALSE, <<>>)
  /\ Profile[14] = Required("post-stage-init", FALSE,
                     <<<<"Scan3dExtractionMethod", "AcceleratedCenterOfMassIQCorrection">>,
                       <<"Scan3dScalingMethod", "zTags">>, <<"Scan3dDistanceUnit", "um">>,
                       <<"TargetVerticalSpacing", "2.5">>, <<"ExposureRatio", "1.0">>,
                       <<"FPNCorrection", "AverageLastFrames">>, <<"FPNCorrectionNFrames", "8">>,
                       <<"ExtSimpMaxHWin", "7">>>>)
  /\ Profile[15] = Optional("light-controller",
                     <<<<"LightControllerSelector", "LightController0">>,
                       <<"LightControllerSource", "UserOutput0">>, <<"LightBrightness", "100.0">>>>)
  /\ Profile[16] = Optional("user-output",
                     <<<<"UserOutputSelector", "UserOutput0">>, <<"UserOutputValue", "1">>>>)
BY DEF Profile

Looping == {11, 13, 14}

(* What the proofs need to know of a group. *)
GroupFacts(g) ==
  /\ WellSelected(Profile[g].writes)
  /\ g \in Looping => \A i \in DOMAIN Profile[g].writes : Profile[g].writes[i][1] \notin SelectorFeatures
  /\ Len(Profile[g].writes) \in Nat /\ DOMAIN Profile[g].writes = 1..Len(Profile[g].writes)
  /\ g # 13 => Len(Profile[g].writes) # 0

LEMMA ComponentsAndChunks == \A g \in 1..7 : GroupFacts(g)
<1>1. ASSUME NEW g \in {1, 2, 3, 4}, NEW name, NEW enable,
             Profile[g].writes = Component(name, enable), enable = ValueOf("ComponentEnable", name)
      PROVE  GroupFacts(g)
  <2>1. WellSelected(Component(name, enable))
    BY <1>1, SelectorTable, PairSelected DEF Component
  <2>2. Len(Component(name, enable)) = 2 /\ DOMAIN Component(name, enable) = 1..2
    BY DEF Component
  <2>3. QED
    BY <1>1, <2>1, <2>2 DEF GroupFacts, Looping
<1>2. ASSUME NEW g \in {6, 7}, NEW name, Profile[g].writes = Chunk(name)
      PROVE  GroupFacts(g)
  <2>1. "1" = ValueOf("ChunkEnable", name)
    BY DEF ValueOf
  <2>2. WellSelected(Chunk(name))
    BY <2>1, SelectorTable, PairSelected DEF Chunk
  <2>3. Len(Chunk(name)) = 2 /\ DOMAIN Chunk(name) = 1..2
    BY DEF Chunk
  <2>4. QED
    BY <1>2, <2>2, <2>3 DEF GroupFacts, Looping
<1>3. GroupFacts(1)
  <2>1. Profile[1].writes = Component("Intensity", "0")
    BY Rows DEF Required
  <2>2. "0" = ValueOf("ComponentEnable", "Intensity")
    BY DEF ValueOf
  <2>3. QED
    BY <1>1, <2>1, <2>2
<1>4. GroupFacts(2)
  <2>1. Profile[2].writes = Component("Range", "1")
    BY Rows DEF Required
  <2>2. "1" = ValueOf("ComponentEnable", "Range")
    BY DEF ValueOf
  <2>3. QED
    BY <1>1, <2>1, <2>2
<1>5. GroupFacts(3)
  <2>1. Profile[3].writes = Component("Reflectance", "1")
    BY Rows DEF Required
  <2>2. "1" = ValueOf("ComponentEnable", "Reflectance")
    BY DEF ValueOf
  <2>3. QED
    BY <1>1, <2>1, <2>2
<1>6. GroupFacts(4)
  <2>1. Profile[4].writes = Component("Phase", "0")
    BY Rows DEF Required
  <2>2. "0" = ValueOf("ComponentEnable", "Phase")
    BY DEF ValueOf
  <2>3. QED
    BY <1>1, <2>1, <2>2
<1>7. GroupFacts(5)
  <2> DEFINE writes == Profile[5].writes
  <2>1. writes = <<<<"ChunkModeActive", "1">>>>
    BY Rows DEF Required
  <2> HIDE DEF writes
  <2>2. DOMAIN writes = 1..1 /\ Len(writes) = 1 /\ writes[1] = <<"ChunkModeActive", "1">>
    BY <2>1
  <2>3. "1" = ValueOf("ChunkModeActive", "")
    BY DEF ValueOf
  <2>4. "ChunkModeActive" \notin SelectorFeatures \cup DOMAIN Selector
    BY SelectorTable, SelectorNames
  <2>5. \A i \in 1..1 : i = 1
    OBVIOUS
  <2>6. \A i \in DOMAIN writes : /\ writes[i][1] \notin SelectorFeatures \cup DOMAIN Selector
                                 /\ writes[i][2] = ValueOf(writes[i][1], "")
    <3>1. ASSUME NEW i \in DOMAIN writes PROVE writes[i] = <<"ChunkModeActive", "1">>
      BY <2>2, <2>5
    <3>2. \A i \in DOMAIN writes : writes[i][1] = "ChunkModeActive" /\ writes[i][2] = "1"
      BY <3>1
    <3>3. QED
      BY <2>3, <2>4, <3>2, Zenon
  <2>7. WellSelected(writes)
    BY <2>6, UnselectedWrites, Zenon
  <2>8. QED
    BY <2>2, <2>7 DEF GroupFacts, Looping, writes
<1>8. GroupFacts(6) /\ GroupFacts(7)
  <2>1. Profile[6].writes = Chunk("PartCount") /\ Profile[7].writes = Chunk("PartType")
    BY Rows DEF Required
  <2>2. QED
    BY <1>2, <2>1
<1>9. QED
  BY <1>3, <1>4, <1>5, <1>6, <1>7, <1>8

LEMMA TriggersAndEncoder == \A g \in 8..10 : GroupFacts(g)
<1>1. ASSUME NEW g \in {8, 9}, NEW name, NEW source, Profile[g].writes = Trigger(name, source),
             source = ValueOf("TriggerSource", name)
      PROVE  GroupFacts(g)
  <2>1. "On" = ValueOf("TriggerMode", name)
    BY DEF ValueOf
  <2>2. WellSelected(Trigger(name, source))
    BY <1>1, <2>1, SelectorTable, TripleSelected DEF Trigger
  <2>3. Len(Trigger(name, source)) = 3 /\ DOMAIN Trigger(name, source) = 1..3
    BY DEF Trigger
  <2>4. g \notin Looping
    BY DEF Looping
  <2>5. QED
    BY <1>1, <2>2, <2>3, <2>4 DEF GroupFacts
<1>2. GroupFacts(8)
  <2>1. Profile[8].writes = Trigger("RecordingStart", "Stage")
    BY Rows DEF Required
  <2>2. "Stage" = ValueOf("TriggerSource", "RecordingStart")
    BY DEF ValueOf
  <2>3. QED
    BY <1>1, <2>1, <2>2
<1>3. GroupFacts(9)
  <2>1. Profile[9].writes = Trigger("FrameStart", "Software")
    BY Rows DEF Required
  <2>2. "Software" = ValueOf("TriggerSource", "FrameStart")
    BY DEF ValueOf
  <2>3. QED
    BY <1>1, <2>1, <2>2
<1>4. GroupFacts(10)
  <2> DEFINE writes == Profile[10].writes
  <2>1. writes = <<<<"EncoderSelector", "Camera">>, <<"EncoderInverter", "1">>>>
    BY Rows DEF Required
  <2>2. "1" = ValueOf("EncoderInverter", "Camera")
    BY DEF ValueOf
  <2> HIDE DEF writes
  <2>3. WellSelected(writes)
    BY <2>1, <2>2, SelectorTable, PairSelected
  <2>4. Len(writes) = 2 /\ DOMAIN writes = 1..2
    BY <2>1
  <2>5. QED
    BY <2>3, <2>4 DEF GroupFacts, Looping, writes
<1>5. QED
  BY <1>2, <1>3, <1>4

LEMMA MotionAndChunks == \A g \in 11..13 : GroupFacts(g)
<1>1. GroupFacts(11)
  <2> DEFINE writes == Profile[11].writes
  <2>1. writes = <<<<"ScanPosition", "-1.4">>, <<"ScanRange", "0.5">>, <<"ScanSpeed", "5.0">>,
                   <<"GeneralSpeed", "10.0">>, <<"ScanMode", "Down">>>>
    BY Rows DEF Required
  <2> HIDE DEF writes
  <2>2. DOMAIN writes = 1..5 /\ Len(writes) = 5
    BY <2>1
  <2>3. ASSUME NEW i \in 1..5
        PROVE  /\ writes[i][1] \in {"ScanPosition", "ScanRange", "ScanSpeed", "GeneralSpeed", "ScanMode"}
               /\ writes[i][2] = ValueOf(writes[i][1], "")
    <3>1. CASE i = 1
      BY <2>1, <3>1 DEF ValueOf
    <3>2. CASE i = 2
      BY <2>1, <3>2 DEF ValueOf
    <3>3. CASE i = 3
      BY <2>1, <3>3 DEF ValueOf
    <3>4. CASE i = 4
      BY <2>1, <3>4 DEF ValueOf
    <3>5. CASE i = 5
      BY <2>1, <3>5 DEF ValueOf
    <3>6. i \in {1, 2, 3, 4, 5}
      OBVIOUS
    <3>7. QED
      BY <3>1, <3>2, <3>3, <3>4, <3>5, <3>6, Zenon
  <2>4. \A i \in DOMAIN writes : /\ writes[i][1] \notin SelectorFeatures \cup DOMAIN Selector
                                 /\ writes[i][2] = ValueOf(writes[i][1], "")
    BY <2>2, <2>3, SelectorTable, SelectorNames
  <2>5. WellSelected(writes)
    BY <2>4, UnselectedWrites, Zenon
  <2>6. \A i \in DOMAIN writes : writes[i][1] \notin SelectorFeatures
    BY <2>4
  <2>7. QED
    BY <2>2, <2>5, <2>6 DEF GroupFacts, writes
<1>2. GroupFacts(12)
  <2> DEFINE chunks == Chunk("Scan3dDistanceUnit") \o Chunk("Scan3dOutputMode")
                       \o Chunk("Scan3dCoordinateScale") \o Chunk("Scan3dCoordinateOffset")
  <2>1. Profile[12].writes = chunks
    BY Rows DEF Optional
  <2>2. WellSelected(chunks) /\ DOMAIN chunks = 1..8 /\ Len(chunks) = 8
    BY ChunksSelected
  <2> HIDE DEF chunks
  <2>3. QED
    BY <2>1, <2>2 DEF GroupFacts, Looping
<1>3. GroupFacts(13)
  <2>1. Profile[13].writes = <<>>
    BY Rows DEF Required
  <2>2. DOMAIN <<>> = 1..0 /\ Len(<<>>) = 0 /\ WellSelected(<<>>)
    BY DEF WellSelected
  <2>3. QED
    BY <2>1, <2>2 DEF GroupFacts
<1>4. QED
  BY <1>1, <1>2, <1>3

LEMMA LateGroups == \A g \in 14..16 : GroupFacts(g)
<1>1. GroupFacts(14)
  <2> DEFINE writes == Profile[14].writes
  <2>1. writes = <<<<"Scan3dExtractionMethod", "AcceleratedCenterOfMassIQCorrection">>,
                   <<"Scan3dScalingMethod", "zTags">>, <<"Scan3dDistanceUnit", "um">>,
                   <<"TargetVerticalSpacing", "2.5">>, <<"ExposureRatio", "1.0">>,
                   <<"FPNCorrection", "AverageLastFrames">>, <<"FPNCorrectionNFrames", "8">>,
                   <<"ExtSimpMaxHWin", "7">>>>
    BY Rows DEF Required
  <2> HIDE DEF writes
  <2>2. DOMAIN writes = 1..8 /\ Len(writes) = 8
    BY <2>1
  <2>3. ASSUME NEW i \in 1..8
        PROVE  /\ writes[i][1] \in {"Scan3dExtractionMethod", "Scan3dScalingMethod", "Scan3dDistanceUnit",
                     "TargetVerticalSpacing", "ExposureRatio", "FPNCorrection", "FPNCorrectionNFrames",
                     "ExtSimpMaxHWin"}
               /\ writes[i][2] = ValueOf(writes[i][1], "")
    <3>1. CASE i = 1
      BY <2>1, <3>1 DEF ValueOf
    <3>2. CASE i = 2
      BY <2>1, <3>2 DEF ValueOf
    <3>3. CASE i = 3
      BY <2>1, <3>3 DEF ValueOf
    <3>4. CASE i = 4
      BY <2>1, <3>4 DEF ValueOf
    <3>5. CASE i = 5
      BY <2>1, <3>5 DEF ValueOf
    <3>6. CASE i = 6
      BY <2>1, <3>6 DEF ValueOf
    <3>7. CASE i = 7
      BY <2>1, <3>7 DEF ValueOf
    <3>8. CASE i = 8
      BY <2>1, <3>8 DEF ValueOf
    <3>9. i \in {1, 2, 3, 4, 5, 6, 7, 8}
      OBVIOUS
    <3>10. QED
      BY <3>1, <3>2, <3>3, <3>4, <3>5, <3>6, <3>7, <3>8, <3>9, Zenon
  <2>4. \A i \in DOMAIN writes : /\ writes[i][1] \notin SelectorFeatures \cup DOMAIN Selector
                                 /\ writes[i][2] = ValueOf(writes[i][1], "")
    BY <2>2, <2>3, SelectorTable, SelectorNames
  <2>5. WellSelected(writes)
    BY <2>4, UnselectedWrites, Zenon
  <2>6. \A i \in DOMAIN writes : writes[i][1] \notin SelectorFeatures
    BY <2>4
  <2>7. QED
    BY <2>2, <2>5, <2>6 DEF GroupFacts, writes
<1>2. GroupFacts(15)
  <2> DEFINE writes == Profile[15].writes
  <2>1. writes = <<<<"LightControllerSelector", "LightController0">>,
                   <<"LightControllerSource", "UserOutput0">>, <<"LightBrightness", "100.0">>>>
    BY Rows DEF Optional
  <2>2. /\ "UserOutput0" = ValueOf("LightControllerSource", "LightController0")
        /\ "100.0" = ValueOf("LightBrightness", "LightController0")
    BY DEF ValueOf
  <2> HIDE DEF writes
  <2>3. WellSelected(writes)
    BY <2>1, <2>2, SelectorTable, TripleSelected
  <2>4. Len(writes) = 3 /\ DOMAIN writes = 1..3
    BY <2>1
  <2>5. QED
    BY <2>3, <2>4 DEF GroupFacts, Looping, writes
<1>3. GroupFacts(16)
  <2> DEFINE writes == Profile[16].writes
  <2>1. writes = <<<<"UserOutputSelector", "UserOutput0">>, <<"UserOutputValue", "1">>>>
    BY Rows DEF Optional
  <2>2. "1" = ValueOf("UserOutputValue", "UserOutput0")
    BY DEF ValueOf
  <2> HIDE DEF writes
  <2>3. WellSelected(writes)
    BY <2>1, <2>2, SelectorTable, PairSelected
  <2>4. Len(writes) = 2 /\ DOMAIN writes = 1..2
    BY <2>1
  <2>5. QED
    BY <2>3, <2>4 DEF GroupFacts, Looping, writes
<1>4. QED
  BY <1>1, <1>2, <1>3

LEMMA Table ==
  /\ Groups = 1..16 /\ StageGroup = 13 /\ Len(Profile) = 16
  /\ \A g \in Groups : GroupFacts(g)
  /\ \A g \in Groups : Profile[g].stop <=> g \notin Looping
  /\ \A g \in Groups : Profile[g].phase \in {"motion-defaults", "post-stage-init"} <=> g \in {11, 14}
  /\ \A g \in Groups : Profile[g].phase \in {"encoder-defaults", "motion-defaults"} <=> g \in {10, 11}
  /\ Profile[10].required /\ Profile[11].required
<1>1. Len(Profile) = 16
  BY DEF Profile
<1>2. Groups = 1..16
  BY <1>1 DEF Groups
<1>3. ASSUME NEW g \in 1..16
      PROVE  /\ Profile[g].stop <=> g \notin Looping
             /\ Profile[g].phase = "stage-init" <=> g = 13
             /\ Profile[g].phase \in {"motion-defaults", "post-stage-init"} <=> g \in {11, 14}
             /\ Profile[g].phase \in {"encoder-defaults", "motion-defaults"} <=> g \in {10, 11}
             /\ g \in {10, 11} => Profile[g].required
  <2>1. CASE g \in 1..4
    <3>1. CASE g = 1
      BY Rows, <3>1 DEF Required, Optional, Looping
    <3>2. CASE g = 2
      BY Rows, <3>2 DEF Required, Optional, Looping
    <3>3. CASE g = 3
      BY Rows, <3>3 DEF Required, Optional, Looping
    <3>4. CASE g = 4
      BY Rows, <3>4 DEF Required, Optional, Looping
    <3>5. QED
      BY <2>1, <3>1, <3>2, <3>3, <3>4
  <2>2. CASE g \in 5..7
    <3>1. CASE g = 5
      BY Rows, <3>1 DEF Required, Optional, Looping
    <3>2. CASE g = 6
      BY Rows, <3>2 DEF Required, Optional, Looping
    <3>3. CASE g = 7
      BY Rows, <3>3 DEF Required, Optional, Looping
    <3>4. QED
      BY <2>2, <3>1, <3>2, <3>3
  <2>3. CASE g \in 8..10
    <3>1. CASE g = 8
      BY Rows, <3>1 DEF Required, Optional, Looping
    <3>2. CASE g = 9
      BY Rows, <3>2 DEF Required, Optional, Looping
    <3>3. CASE g = 10
      BY Rows, <3>3 DEF Required, Optional, Looping
    <3>4. QED
      BY <2>3, <3>1, <3>2, <3>3
  <2>4. CASE g \in 11..13
    <3>1. CASE g = 11
      BY Rows, <3>1 DEF Required, Optional, Looping
    <3>2. CASE g = 12
      BY Rows, <3>2 DEF Required, Optional, Looping
    <3>3. CASE g = 13
      BY Rows, <3>3 DEF Required, Optional, Looping
    <3>4. QED
      BY <2>4, <3>1, <3>2, <3>3
  <2>5. CASE g \in 14..16
    <3>1. CASE g = 14
      BY Rows, <3>1 DEF Required, Optional, Looping
    <3>2. CASE g = 15
      BY Rows, <3>2 DEF Required, Optional, Looping
    <3>3. CASE g = 16
      BY Rows, <3>3 DEF Required, Optional, Looping
    <3>4. QED
      BY <2>5, <3>1, <3>2, <3>3
  <2>6. QED
    BY <2>1, <2>2, <2>3, <2>4, <2>5
<1>4. StageGroup = 13
  BY <1>2, <1>3 DEF StageGroup
<1>5. \A g \in 1..16 : GroupFacts(g)
  BY ComponentsAndChunks, TriggersAndEncoder, MotionAndChunks, LateGroups
<1>6. QED
  BY <1>1, <1>2, <1>3, <1>4, <1>5

------------------------------------------------------------------------------
(* The types *)

LEMMA TypeInit == Init => TypeOK
<1> SUFFICES ASSUME Init PROVE TypeOK
  OBVIOUS
<1>1. /\ facade = "ready" /\ cancelRequested = FALSE /\ failed = {} /\ result = "none"
      /\ polls = 0 /\ stage = "unknown" /\ runs = 0 /\ failures = 0
  BY DEF Init
<1>2. at = [step |-> "idle", group |-> 1, write |-> 1]
  BY DEF Init, Idle
<1>3. at \in [step : {"idle", "check", "write", "stage", "poll"}, group : Groups, write : Nat]
      /\ at.step = "idle"
  BY <1>2, Table
<1>4. DOMAIN cursor = SelectorFeatures
  BY DEF Init
<1>5. polls \in 0..MaxPolls /\ runs \in 0..MaxRuns /\ failures \in 0..MaxFailures
  BY <1>1, BoundsAssumption
<1>6. QED
  BY <1>1, <1>3, <1>4, <1>5 DEF TypeOK

(* Where the profile is and what it reported, as TypeOK has them. *)
PlaceOK ==
  /\ at \in [step : {"idle", "check", "write", "stage", "poll"}, group : Groups, write : Nat]
  /\ at.step \in {"check", "write"} => at.write \in DOMAIN Profile[at.group].writes
  /\ cancelRequested \in BOOLEAN
  /\ result \in {"none", "ok", "failed", "cancelled"}

FailedOK == failed \subseteq {Profile[g].phase : g \in Groups} \cup {"stage-init-status"}

DeviceOK ==
  /\ facade \in {"ready", "close requested", "closing", "closed"}
  /\ polls \in 0..MaxPolls
  /\ DOMAIN cursor = SelectorFeatures
  /\ stage \in {"unknown", "moving", "initialized"}
  /\ runs \in 0..MaxRuns /\ failures \in 0..MaxFailures

LEMMA Shape ==
  ASSUME NEW g \in Groups
  PROVE  /\ Len(Profile[g].writes) \in Nat
         /\ DOMAIN Profile[g].writes = 1..Len(Profile[g].writes)
         /\ g # 13 => Len(Profile[g].writes) # 0
<1>1. GroupFacts(g)
  BY Table
<1>2. QED
  BY <1>1 DEF GroupFacts

LEMMA Counted ==
  /\ \A n \in 0..MaxRuns : n < MaxRuns => n + 1 \in 0..MaxRuns
  /\ \A n \in 0..MaxFailures : n < MaxFailures => n + 1 \in 0..MaxFailures
  /\ \A n \in 0..MaxPolls : n < MaxPolls => n + 1 \in 0..MaxPolls
  /\ 0 \in 0..MaxPolls
BY BoundsAssumption

LEMMA TypeParts == TypeOK <=> PlaceOK /\ FailedOK /\ DeviceOK
BY DEF TypeOK, PlaceOK, FailedOK, DeviceOK

LEMMA LeaveGroupPlace ==
  ASSUME NEW g \in Groups, NEW failures1, PlaceOK, LeaveGroup(g, failures1)
  PROVE  PlaceOK'
<1>1. CASE g = Len(Profile)
  <2>1. /\ at' = [step |-> "idle", group |-> 1, write |-> 1] /\ cancelRequested' = FALSE
        /\ result' \in {"ok", "failed"}
    BY <1>1 DEF LeaveGroup, End, Idle
  <2>2. at' \in [step : {"idle", "check", "write", "stage", "poll"}, group : Groups, write : Nat]
        /\ at'.step = "idle"
    BY <2>1, Table
  <2>3. QED
    BY <2>1, <2>2 DEF PlaceOK
<1>2. CASE g # Len(Profile)
  <2>1. /\ at' = [step |-> IF g + 1 = 13 THEN "stage" ELSE "check", group |-> g + 1, write |-> 1]
        /\ result' = result /\ cancelRequested' = cancelRequested
    BY <1>2, Table DEF LeaveGroup
  <2>2. g + 1 \in Groups
    BY <1>2, Table
  <2>3. at' \in [step : {"idle", "check", "write", "stage", "poll"}, group : Groups, write : Nat]
        /\ at'.group = g + 1 /\ at'.write = 1
    BY <2>1, <2>2
  <2>4. at'.step = "check" => g + 1 # 13
    BY <2>1
  <2>5. g + 1 # 13 => 1 \in DOMAIN Profile[g + 1].writes
    BY <2>2, Shape
  <2>6. at'.step # "write"
    BY <2>1
  <2>7. QED
    BY <2>1, <2>3, <2>4, <2>5, <2>6 DEF PlaceOK
<1>3. QED
  BY <1>1, <1>2

LEMMA NextWritePlace ==
  ASSUME PlaceOK, at.step = "write", NextWrite
  PROVE  PlaceOK'
<1>1. at.group \in Groups /\ at.write \in Nat /\ at.write \in DOMAIN Profile[at.group].writes
  BY DEF PlaceOK
<1>2. CASE at.write < Len(Profile[at.group].writes)
  <2>1. /\ at' = [step |-> "check", group |-> at.group, write |-> at.write + 1]
        /\ result' = result /\ cancelRequested' = cancelRequested
    BY <1>2 DEF NextWrite
  <2>2. at.write + 1 \in DOMAIN Profile[at.group].writes
    BY <1>1, <1>2, Shape
  <2>3. at' \in [step : {"idle", "check", "write", "stage", "poll"}, group : Groups, write : Nat]
        /\ at'.group = at.group /\ at'.write = at.write + 1
    BY <1>1, <2>1
  <2>4. QED
    BY <2>1, <2>2, <2>3 DEF PlaceOK
<1>3. CASE ~(at.write < Len(Profile[at.group].writes))
  BY <1>1, <1>3, LeaveGroupPlace DEF NextWrite
<1>4. QED
  BY <1>2, <1>3

LEMMA FailWritePlace ==
  ASSUME TypeOK, at.step = "write", FailWrite
  PROVE  PlaceOK' /\ FailedOK'
<1>1. PlaceOK /\ FailedOK /\ at.group \in Groups
  BY TypeParts DEF PlaceOK
<1>2. PlaceOK'
  BY <1>1, LeaveGroupPlace, NextWritePlace DEF FailWrite
<1>3. Recorded(Profile[at.group]) \subseteq {Profile[g].phase : g \in Groups}
  BY <1>1 DEF Recorded
<1>4. QED
  BY <1>1, <1>2, <1>3 DEF FailWrite, FailedOK

LEMMA EndPlace ==
  ASSUME PlaceOK, End("cancelled")
  PROVE  PlaceOK'
<1>1. /\ at' = [step |-> "idle", group |-> 1, write |-> 1] /\ cancelRequested' = FALSE
      /\ result' = "cancelled"
  BY DEF End, Idle
<1>2. at' \in [step : {"idle", "check", "write", "stage", "poll"}, group : Groups, write : Nat]
      /\ at'.step = "idle"
  BY <1>1, Table
<1>3. QED
  BY <1>1, <1>2 DEF PlaceOK

LEMMA FailStagePlace ==
  ASSUME TypeOK, NEW phase \in {"stage-init", "stage-init-status"}, FailStage(phase)
  PROVE  PlaceOK' /\ FailedOK'
<1>1. PlaceOK /\ FailedOK /\ at.group \in Groups
  BY TypeParts DEF PlaceOK
<1>2. PlaceOK'
  BY <1>1, LeaveGroupPlace DEF FailStage
<1>3. "stage-init" \in {Profile[g].phase : g \in Groups}
  <2>1. Profile[13].phase = "stage-init" /\ 13 \in Groups
    BY Rows, Table DEF Required
  <2>2. QED
    BY <2>1
<1>4. QED
  BY <1>1, <1>2, <1>3 DEF FailStage, FailedOK

LEMMA EffectCursor ==
  ASSUME DOMAIN cursor = SelectorFeatures, Effect(Write)
  PROVE  DOMAIN cursor' = SelectorFeatures
BY DEF Effect

LEMMA TypeNext == TypeOK /\ [Next]_vars => TypeOK'
<1> SUFFICES ASSUME TypeOK, [Next]_vars PROVE TypeOK'
  OBVIOUS
<1>1. PlaceOK /\ FailedOK /\ DeviceOK
  BY TypeParts
<1>2. at.group \in Groups
  BY <1>1 DEF PlaceOK
<1>3. CASE Begin
  <2>1. /\ at' = [step |-> "check", group |-> 1, write |-> 1]
        /\ cancelRequested' = FALSE /\ result' = "none" /\ failed' = {}
    BY <1>3 DEF Begin
  <2>2. at' \in [step : {"idle", "check", "write", "stage", "poll"}, group : Groups, write : Nat]
        /\ at'.group = 1 /\ at'.write = 1
    BY <2>1, Table
  <2>3. 1 \in DOMAIN Profile[1].writes
    <3>1. 1 \in Groups /\ 1 # 13
      BY Table
    <3>2. QED
      BY <3>1, Shape
  <2>4. PlaceOK' /\ FailedOK'
    BY <2>1, <2>2, <2>3 DEF PlaceOK, FailedOK
  <2>5. DeviceOK'
    <3>1. runs' \in 0..MaxRuns
      BY <1>1, <1>3, Counted DEF Begin, DeviceOK
    <3>2. QED
      BY <1>1, <1>3, <3>1 DEF Begin, DeviceOK
  <2>6. QED
    BY <2>4, <2>5 DEF TypeOK, PlaceOK, FailedOK, DeviceOK
<1>4. CASE CheckCancelled
  <2>1. PlaceOK'
    <3>1. CASE CancelSeen(Profile[at.group])
      BY <1>1, <1>4, <3>1, EndPlace DEF CheckCancelled
    <3>2. CASE ~CancelSeen(Profile[at.group])
      BY <1>1, <1>4, <3>2 DEF CheckCancelled, PlaceOK
    <3>3. QED
      BY <3>1, <3>2
  <2>2. FailedOK' /\ DeviceOK'
    BY <1>1, <1>4 DEF CheckCancelled, FailedOK, DeviceOK
  <2>3. QED
    BY <2>1, <2>2 DEF TypeOK, PlaceOK, FailedOK, DeviceOK
<1>5. CASE WriteFeature
  <2>1. PlaceOK'
    BY <1>1, <1>5, NextWritePlace DEF WriteFeature
  <2>2. DOMAIN cursor' = SelectorFeatures
    BY <1>1, <1>5, EffectCursor DEF WriteFeature, DeviceOK
  <2>3. FailedOK' /\ DeviceOK'
    BY <1>1, <1>5, <2>2 DEF WriteFeature, FailedOK, DeviceOK
  <2>4. QED
    BY <2>1, <2>3 DEF TypeOK, PlaceOK, FailedOK, DeviceOK
<1>6. CASE WriteFails
  <2>1. PlaceOK' /\ FailedOK'
    BY <1>6, FailWritePlace DEF WriteFails
  <2>2. DOMAIN cursor' = SelectorFeatures
    BY <1>1, <1>6, EffectCursor DEF WriteFails, DeviceOK
  <2>3. DeviceOK'
    <3>1. failures' \in 0..MaxFailures
      BY <1>1, <1>6, Counted DEF WriteFails, DeviceOK
    <3>2. QED
      BY <1>1, <1>6, <2>2, <3>1 DEF WriteFails, DeviceOK
  <2>4. QED
    BY <2>1, <2>3 DEF TypeOK, PlaceOK, FailedOK, DeviceOK
<1>7. CASE WriteRefusedWhileClosing
  <2>1. PlaceOK' /\ FailedOK'
    BY <1>7, FailWritePlace DEF WriteRefusedWhileClosing
  <2>2. DeviceOK'
    BY <1>1, <1>7 DEF WriteRefusedWhileClosing, DeviceOK
  <2>3. QED
    BY <2>1, <2>2 DEF TypeOK, PlaceOK, FailedOK, DeviceOK
<1>8. CASE SkipStage
  <2>1. PlaceOK'
    BY <1>1, <1>2, <1>8, LeaveGroupPlace DEF SkipStage
  <2>2. FailedOK' /\ DeviceOK'
    BY <1>1, <1>8 DEF SkipStage, FailedOK, DeviceOK
  <2>3. QED
    BY <2>1, <2>2 DEF TypeOK, PlaceOK, FailedOK, DeviceOK
<1>9. CASE CommandStage
  <2>1. PlaceOK'
    BY <1>1, <1>9 DEF CommandStage, PlaceOK
  <2>2. FailedOK' /\ DeviceOK'
    <3>1. polls' \in 0..MaxPolls
      BY <1>9, Counted DEF CommandStage
    <3>2. QED
      BY <1>1, <1>9, <3>1 DEF CommandStage, FailedOK, DeviceOK
  <2>3. QED
    BY <2>1, <2>2 DEF TypeOK, PlaceOK, FailedOK, DeviceOK
<1>10. CASE StageCommandFails
  <2>1. PlaceOK' /\ FailedOK'
    BY <1>10, FailStagePlace DEF StageCommandFails
  <2>2. DeviceOK'
    <3>1. failures' \in 0..MaxFailures
      BY <1>1, <1>10, Counted DEF StageCommandFails, DeviceOK
    <3>2. stage' \in {"unknown", "moving", "initialized"}
      BY <1>1, <1>10 DEF StageCommandFails, DeviceOK
    <3>3. QED
      BY <1>1, <1>10, <3>1, <3>2 DEF StageCommandFails, DeviceOK
  <2>3. QED
    BY <2>1, <2>2 DEF TypeOK, PlaceOK, FailedOK, DeviceOK
<1>11. CASE PollCancelled
  <2>1. PlaceOK'
    BY <1>1, <1>11, EndPlace DEF PollCancelled
  <2>2. FailedOK' /\ DeviceOK'
    BY <1>1, <1>11 DEF PollCancelled, FailedOK, DeviceOK
  <2>3. QED
    BY <2>1, <2>2 DEF TypeOK, PlaceOK, FailedOK, DeviceOK
<1>12. CASE PollInitialized
  <2>1. PlaceOK'
    BY <1>1, <1>2, <1>12, LeaveGroupPlace DEF PollInitialized
  <2>2. FailedOK' /\ DeviceOK'
    BY <1>1, <1>12 DEF PollInitialized, FailedOK, DeviceOK
  <2>3. QED
    BY <2>1, <2>2 DEF TypeOK, PlaceOK, FailedOK, DeviceOK
<1>13. CASE PollUnreadable
  <2>1. PlaceOK' /\ FailedOK'
    BY <1>13, FailStagePlace DEF PollUnreadable
  <2>2. DeviceOK'
    <3>1. failures' \in 0..MaxFailures
      BY <1>1, <1>13, Counted DEF PollUnreadable, DeviceOK
    <3>2. QED
      BY <1>1, <1>13, <3>1 DEF PollUnreadable, DeviceOK
  <2>3. QED
    BY <2>1, <2>2 DEF TypeOK, PlaceOK, FailedOK, DeviceOK
<1>14. CASE PollAgain
  <2>1. PlaceOK' /\ FailedOK'
    <3>1. CASE Deadline(polls')
      BY <1>14, <3>1, FailStagePlace DEF PollAgain
    <3>2. CASE ~Deadline(polls')
      BY <1>1, <1>14, <3>2 DEF PollAgain, PlaceOK, FailedOK
    <3>3. QED
      BY <3>1, <3>2
  <2>2. DeviceOK'
    <3>1. polls' \in 0..MaxPolls
      BY <1>1, <1>14, Counted DEF PollAgain, DeviceOK
    <3>2. QED
      BY <1>1, <1>14, <3>1 DEF PollAgain, DeviceOK
  <2>3. QED
    BY <2>1, <2>2 DEF TypeOK, PlaceOK, FailedOK, DeviceOK
<1>15. CASE StageArrives \/ RequestCancel \/ RequestClose \/ ClaimClose \/ TakeHandles \/ UNCHANGED vars
  <2>1. PlaceOK' /\ FailedOK'
    BY <1>1, <1>15 DEF StageArrives, RequestCancel, RequestClose, ClaimClose, TakeHandles, vars,
       PlaceOK, FailedOK
  <2>2. DeviceOK'
    BY <1>1, <1>15 DEF StageArrives, RequestCancel, RequestClose, ClaimClose, TakeHandles, vars, DeviceOK
  <2>3. QED
    BY <2>1, <2>2 DEF TypeOK, PlaceOK, FailedOK, DeviceOK
<1>16. QED
  BY <1>3, <1>4, <1>5, <1>6, <1>7, <1>8, <1>9, <1>10, <1>11, <1>12, <1>13, <1>14, <1>15
  DEF Next, ProfileStep

LEMMA TypeInvariant == Spec => []TypeOK
BY TypeInit, TypeNext, PTL DEF Spec

------------------------------------------------------------------------------
(* What the writes do *)

IsSelector(g, i) == Profile[g].writes[i][1] \in SelectorFeatures

(* The device's selectors are where the writes of the group put them. *)
Pointed ==
  at.step \in {"check", "write"} =>
    \A j \in 1..(at.write - 1) :
      IsSelector(at.group, j) /\ (\A k \in (j + 1)..(at.write - 1) : ~IsSelector(at.group, k))
        => cursor[Profile[at.group].writes[j][1]] = Profile[at.group].writes[j][2]

(* What became of a setting: it is on the device, or something failed. *)
Outcome(g, i) ==
  \/ Applied(Profile[g], i)
  \/ <<g, i>> \in refused
  \/ Profile[g].stop /\ \E j \in 1..i : <<g, j>> \in refused

Passed(g, i) == Running /\ (g < at.group \/ (g = at.group /\ i < at.write))

Tried ==
  \A g \in Groups : \A i \in Settings(Profile[g]) :
    Passed(g, i) \/ result \in {"ok", "failed"} => Outcome(g, i)

FailuresRecorded ==
  \A g \in Groups : \A j \in DOMAIN Profile[g].writes :
    <<g, j>> \in refused /\ Profile[g].required => Profile[g].phase \in failed

StageDone ==
  /\ at.step \in {"stage", "poll"} => at.group = 13
  /\ Running => result = "none"
  /\ Running /\ at.group > 13 /\ failed = {} => stage = "initialized"
  /\ result = "ok" => failed = {} /\ stage = "initialized"

ProfileInv == Pointed /\ OnlyMeantRegisters /\ Tried /\ FailuresRecorded /\ StageDone

(* The register the profile means, by the write that selects its entry. *)
LEMMA MeantRegister ==
  ASSUME NEW g \in Groups, NEW i \in DOMAIN Profile[g].writes, ~IsSelector(g, i)
  PROVE  LET w == Profile[g].writes IN
         /\ w[i][1] \in DOMAIN Selector =>
              \E j \in 1..(i - 1) :
                /\ Selects(w, j, i)
                /\ Meant(Profile[g], i) = <<w[i][1], w[j][2]>>
                /\ w[i][2] = ValueOf(w[i][1], w[j][2])
         /\ w[i][1] \notin DOMAIN Selector =>
              /\ Meant(Profile[g], i) = <<w[i][1], "">>
              /\ w[i][2] = ValueOf(w[i][1], "")
<1> DEFINE w == Profile[g].writes
<1>1. GroupFacts(g) /\ i \in Nat
  <2>1. GroupFacts(g)
    BY Table
  <2>2. QED
    BY <2>1 DEF GroupFacts
<1>2. ASSUME w[i][1] \in DOMAIN Selector
      PROVE  \E j \in 1..(i - 1) :
                /\ Selects(w, j, i)
                /\ Meant(Profile[g], i) = <<w[i][1], w[j][2]>>
                /\ w[i][2] = ValueOf(w[i][1], w[j][2])
  <2>1. PICK j \in 1..(i - 1) : Selects(w, j, i) /\ w[i][2] = ValueOf(w[i][1], w[j][2])
    BY <1>1, <1>2 DEF GroupFacts, WellSelected
  <2> DEFINE before == {k \in 1..i : w[k][1] \in SelectorFeatures}
             last == CHOOSE k \in before : \A l \in before : l <= k
  <2>2. j \in before
    BY <1>1, <1>2, <2>1 DEF Selects, SelectorFeatures
  <2>3. ASSUME NEW l \in before PROVE l <= j
    <3>1. l \notin (j + 1)..i
      BY <2>1 DEF Selects
    <3>2. QED
      BY <1>1, <3>1
  <2>4. \E k \in before : \A l \in before : l <= k
    BY <2>2, <2>3
  <2>5. last \in before /\ \A l \in before : l <= last
    BY <2>4
  <2>6. last = j
    BY <1>1, <2>2, <2>3, <2>5
  <2>7. Meant(Profile[g], i) = <<w[i][1], w[last][2]>>
    BY <1>2 DEF Meant
  <2>8. QED
    BY <2>1, <2>6, <2>7
<1>3. ASSUME w[i][1] \notin DOMAIN Selector
      PROVE  Meant(Profile[g], i) = <<w[i][1], "">> /\ w[i][2] = ValueOf(w[i][1], "")
  <2>1. Meant(Profile[g], i) = <<w[i][1], "">>
    BY <1>3 DEF Meant
  <2>2. QED
    BY <1>1, <1>3, <2>1 DEF GroupFacts, WellSelected, IsSelector
<1>4. QED
  BY <1>2, <1>3

(* The profile means one value for a register, however often it writes it. *)
LEMMA MeantValue ==
  ASSUME NEW g \in Groups, NEW i \in Settings(Profile[g])
  PROVE  /\ i \in DOMAIN Profile[g].writes /\ ~IsSelector(g, i)
         /\ Profile[g].writes[i][2] = ValueOf(Meant(Profile[g], i)[1], Meant(Profile[g], i)[2])
         /\ <<Meant(Profile[g], i), Profile[g].writes[i][2]>> \in MeantSettings
<1>1. i \in DOMAIN Profile[g].writes /\ ~IsSelector(g, i)
  BY DEF Settings, IsSelector
<1>2. Profile[g].writes[i][2] = ValueOf(Meant(Profile[g], i)[1], Meant(Profile[g], i)[2])
  <2> DEFINE w == Profile[g].writes
  <2>1. CASE w[i][1] \in DOMAIN Selector
    <3>1. PICK j \in 1..(i - 1) : /\ Meant(Profile[g], i) = <<w[i][1], w[j][2]>>
                                 /\ w[i][2] = ValueOf(w[i][1], w[j][2])
      BY <1>1, <2>1, MeantRegister
    <3>2. QED
      BY <3>1
  <2>2. CASE w[i][1] \notin DOMAIN Selector
    <3>1. Meant(Profile[g], i) = <<w[i][1], "">> /\ w[i][2] = ValueOf(w[i][1], "")
      BY <1>1, <2>2, MeantRegister
    <3>2. Meant(Profile[g], i)[1] = w[i][1] /\ Meant(Profile[g], i)[2] = ""
      <4> DEFINE feature == w[i][1]
                 meant == Meant(Profile[g], i)
      <4>1. meant = <<feature, "">>
        BY <3>1
      <4> HIDE DEF feature, meant
      <4>2. meant[1] = feature /\ meant[2] = ""
        BY <4>1
      <4>3. QED
        BY <4>2 DEF feature, meant
    <3>3. QED
      BY <3>1, <3>2, Zenon
  <2>3. QED
    BY <2>1, <2>2
<1>3. QED
  BY <1>1, <1>2 DEF MeantSettings

(* A setting that is written goes to the register it is meant for. *)
LEMMA WriteReachesMeant ==
  ASSUME PlaceOK, Pointed, at.step = "write", ~IsSelector(at.group, at.write)
  PROVE  Register(cursor, Write[1]) = Meant(Profile[at.group], at.write)
<1> DEFINE w == Profile[at.group].writes
           i == at.write
<1>1. at.group \in Groups /\ i \in DOMAIN w /\ i \in Nat /\ Write = w[i]
  BY DEF PlaceOK, Write
<1>2. CASE w[i][1] \in DOMAIN Selector
  <2>1. PICK j \in 1..(i - 1) : Selects(w, j, i) /\ Meant(Profile[at.group], i) = <<w[i][1], w[j][2]>>
    BY <1>1, <1>2, MeantRegister
  <2>2. w[j][1] = Selector[w[i][1]] /\ IsSelector(at.group, j)
    BY <1>2, <2>1 DEF Selects, IsSelector, SelectorFeatures
  <2>3. \A k \in (j + 1)..(i - 1) : ~IsSelector(at.group, k)
    BY <1>1, <2>1 DEF Selects, IsSelector
  <2>4. cursor[w[j][1]] = w[j][2]
    BY <2>1, <2>2, <2>3 DEF Pointed
  <2>5. QED
    BY <1>1, <1>2, <2>1, <2>2, <2>4 DEF Register
<1>3. CASE w[i][1] \notin DOMAIN Selector
  <2>1. Meant(Profile[at.group], i) = <<w[i][1], "">>
    BY <1>1, <1>3, MeantRegister
  <2>2. QED
    BY <1>1, <1>3, <2>1 DEF Register
<1>4. QED
  BY <1>2, <1>3

(* What an accepted write leaves: registers that are meant, the settings    *)
(* that were applied, the one it is, and the selectors for the next write.  *)
Accepted ==
  /\ OnlyMeantRegisters'
  /\ \A g \in Groups : \A i \in Settings(Profile[g]) :
       Applied(Profile[g], i) => Applied(Profile[g], i)'
  /\ \A j \in 1..at.write :
       IsSelector(at.group, j) /\ (\A k \in (j + 1)..at.write : ~IsSelector(at.group, k))
         => cursor'[Profile[at.group].writes[j][1]] = Profile[at.group].writes[j][2]

LEMMA SelectorAccepted ==
  ASSUME TypeOK, ProfileInv, at.step = "write", Effect(Write), IsSelector(at.group, at.write)
  PROVE  Accepted
<1> DEFINE w == Profile[at.group].writes
<1>1. Write = w[at.write] /\ at.write \in Nat /\ at.write \in DOMAIN w /\ DOMAIN cursor = SelectorFeatures
  BY DEF TypeOK, Write
<1>2. cursor' = [cursor EXCEPT ![w[at.write][1]] = w[at.write][2]] /\ register' = register
  BY <1>1 DEF Effect, IsSelector
<1>3. OnlyMeantRegisters' /\ \A g \in Groups : \A i \in Settings(Profile[g]) :
       Applied(Profile[g], i) => Applied(Profile[g], i)'
  BY <1>2 DEF ProfileInv, OnlyMeantRegisters, Applied
<1>4. ASSUME NEW j \in 1..at.write, IsSelector(at.group, j),
             \A k \in (j + 1)..at.write : ~IsSelector(at.group, k)
      PROVE  cursor'[w[j][1]] = w[j][2]
  <2>1. j = at.write
    BY <1>1, <1>4
  <2>2. QED
    BY <1>1, <1>2, <2>1 DEF IsSelector
<1>5. QED
  BY <1>3, <1>4 DEF Accepted

LEMMA SettingAccepted ==
  ASSUME TypeOK, ProfileInv, at.step = "write", Effect(Write), ~IsSelector(at.group, at.write)
  PROVE  /\ Accepted
         /\ \A g \in Groups : \A i \in Settings(Profile[g]) :
              g = at.group /\ i = at.write => Applied(Profile[g], i)'
<1> DEFINE w == Profile[at.group].writes
           r == Meant(Profile[at.group], at.write)
<1>1. Write = w[at.write] /\ at.group \in Groups /\ at.write \in Nat /\ at.write \in DOMAIN w
  BY DEF TypeOK, Write
<1>2. Register(cursor, Write[1]) = r
  BY WriteReachesMeant, TypeParts DEF ProfileInv
<1>3. /\ cursor' = cursor
      /\ register' = [q \in DOMAIN register \cup {r} |-> IF q = r THEN w[at.write][2] ELSE register[q]]
  BY <1>1, <1>2 DEF Effect, IsSelector
<1>4. at.write \in Settings(Profile[at.group])
  BY <1>1 DEF Settings, IsSelector
<1>5. <<r, w[at.write][2]>> \in MeantSettings /\ w[at.write][2] = ValueOf(r[1], r[2])
  BY <1>1, <1>4, MeantValue
<1> HIDE DEF r
<1>6. OnlyMeantRegisters'
  <2> SUFFICES ASSUME NEW q \in DOMAIN register' PROVE <<q, register'[q]>> \in MeantSettings
    BY DEF OnlyMeantRegisters
  <2>1. CASE q = r
    BY <1>3, <1>5, <2>1
  <2>2. CASE q # r
    BY <1>3, <2>2 DEF ProfileInv, OnlyMeantRegisters
  <2>3. QED
    BY <2>1, <2>2
<1>7. ASSUME NEW g \in Groups, NEW i \in Settings(Profile[g]), Applied(Profile[g], i)
      PROVE  Applied(Profile[g], i)'
  <2>1. Meant(Profile[g], i) \in DOMAIN register /\ register[Meant(Profile[g], i)] = Profile[g].writes[i][2]
    BY <1>7 DEF Applied
  <2>2. Profile[g].writes[i][2] = ValueOf(Meant(Profile[g], i)[1], Meant(Profile[g], i)[2])
    BY MeantValue
  <2>3. CASE Meant(Profile[g], i) = r
    BY <1>3, <1>5, <2>1, <2>2, <2>3 DEF Applied
  <2>4. CASE Meant(Profile[g], i) # r
    BY <1>3, <2>1, <2>4 DEF Applied
  <2>5. QED
    BY <2>3, <2>4
<1>8. ASSUME NEW j \in 1..at.write, IsSelector(at.group, j),
             \A k \in (j + 1)..at.write : ~IsSelector(at.group, k)
      PROVE  cursor'[w[j][1]] = w[j][2]
  <2>1. j \in 1..(at.write - 1) /\ \A k \in (j + 1)..(at.write - 1) : ~IsSelector(at.group, k)
    BY <1>1, <1>8
  <2>2. QED
    BY <1>3, <1>8, <2>1 DEF ProfileInv, Pointed
<1>9. \A g \in Groups : \A i \in Settings(Profile[g]) :
        g = at.group /\ i = at.write => Applied(Profile[g], i)'
  BY <1>3 DEF Applied, r
<1>10. QED
  BY <1>6, <1>7, <1>8, <1>9 DEF Accepted

------------------------------------------------------------------------------
(* What a run leaves *)

LEMMA ProfileInit == Init => ProfileInv
<1> SUFFICES ASSUME Init PROVE ProfileInv
  OBVIOUS
<1>1. at.step = "idle" /\ ~Running
  BY DEF Init, Idle, Running
<1>2. DOMAIN register = {}
  BY DEF Init
<1>3. failed = {} /\ refused = {} /\ result = "none"
  BY DEF Init
<1>4. Pointed
  BY <1>1 DEF Pointed
<1>5. OnlyMeantRegisters
  BY <1>2 DEF OnlyMeantRegisters
<1>6. Tried
  BY <1>1, <1>3 DEF Tried, Passed
<1>7. FailuresRecorded
  BY <1>3 DEF FailuresRecorded
<1>8. StageDone
  BY <1>1, <1>3 DEF StageDone
<1>9. QED
  BY <1>4, <1>5, <1>6, <1>7, <1>8 DEF ProfileInv

LEMMA Standing ==
  ASSUME TypeOK
  PROVE  /\ at.group \in Groups /\ at.group \in Nat /\ at.write \in Nat
         /\ at.step \in {"check", "write"} => at.write \in DOMAIN Profile[at.group].writes
<1>1. at.group \in Groups /\ at.write \in Nat
  BY DEF TypeOK
<1>2. at.group \in Nat
  BY <1>1, Table
<1>3. QED
  BY <1>1, <1>2 DEF TypeOK

LEMMA SettingIndex ==
  ASSUME NEW g \in Groups, NEW i \in Settings(Profile[g])
  PROVE  /\ g \in Nat /\ i \in Nat /\ i # 0
         /\ Len(Profile[g].writes) \in Nat /\ i <= Len(Profile[g].writes)
<1>1. i \in DOMAIN Profile[g].writes
  BY DEF Settings
<1>2. Len(Profile[g].writes) \in Nat /\ DOMAIN Profile[g].writes = 1..Len(Profile[g].writes)
  BY Shape
<1>3. g \in Nat
  BY Table
<1>4. QED
  BY <1>1, <1>2, <1>3

(* What the device and the failures may do in a step of the profile. *)
Grows ==
  /\ OnlyMeantRegisters'
  /\ FailuresRecorded'
  /\ failed \subseteq failed'
  /\ \A g \in Groups : \A i \in Settings(Profile[g]) : Outcome(g, i) => Outcome(g, i)'

(* What it leaves when it leaves a group: every setting of it has an outcome, *)
(* and after StageInit the stage is initialized or a failure was recorded.    *)
LEMMA LeaveGroupInv ==
  ASSUME TypeOK, ProfileInv, Running, Grows, LeaveGroup(at.group, failed'),
         \A g \in Groups : \A i \in Settings(Profile[g]) : g = at.group => Outcome(g, i)',
         at.group > 12 /\ failed' = {} => stage' = "initialized"
  PROVE  ProfileInv'
<1>1. at.group \in Groups /\ at.group \in Nat /\ result = "none"
  BY Standing DEF ProfileInv, StageDone
<1>2. ASSUME NEW g \in Groups, NEW i \in Settings(Profile[g]), g <= at.group
      PROVE  Outcome(g, i)'
  <2>1. CASE g = at.group
    BY <2>1
  <2>2. CASE g # at.group
    <3>1. Passed(g, i)
      BY <1>1, <1>2, <2>2, Table DEF Passed
    <3>2. Outcome(g, i)
      BY <3>1 DEF ProfileInv, Tried
    <3>3. QED
      BY <3>2 DEF Grows
  <2>3. QED
    BY <2>1, <2>2
<1>3. CASE at.group = Len(Profile)
  <2>1. /\ at' = [step |-> "idle", group |-> 1, write |-> 1]
        /\ result' = IF failed' = {} THEN "ok" ELSE "failed"
    BY <1>3 DEF LeaveGroup, End, Idle
  <2>2. at'.step = "idle"
    BY <2>1
  <2>3. Pointed'
    BY <2>2 DEF Pointed
  <2>4. \A g \in Groups : g <= at.group
    BY <1>3, Table
  <2>5. Tried'
    BY <1>2, <2>4 DEF Tried
  <2>6. StageDone'
    <3>1. result' = "ok" => failed' = {} /\ stage' = "initialized"
      BY <1>3, <2>1, Table
    <3>2. QED
      BY <2>2, <3>1 DEF StageDone, Running
  <2>7. QED
    BY <2>3, <2>5, <2>6 DEF Grows, ProfileInv
<1>4. CASE at.group # Len(Profile)
  <2>1. /\ at' = [step |-> IF at.group + 1 = 13 THEN "stage" ELSE "check",
                  group |-> at.group + 1, write |-> 1]
        /\ result' = result
    BY <1>4, Table DEF LeaveGroup
  <2>2. /\ at'.step = IF at.group + 1 = 13 THEN "stage" ELSE "check"
        /\ at'.group = at.group + 1 /\ at'.write = 1
    BY <2>1
  <2>3. Pointed'
    BY <2>2 DEF Pointed
  <2>4. Tried'
    <3> SUFFICES ASSUME NEW g \in Groups, NEW i \in Settings(Profile[g]),
                        Passed(g, i)' \/ result' \in {"ok", "failed"}
                 PROVE  Outcome(g, i)'
      BY DEF Tried
    <3>1. Passed(g, i)'
      BY <1>1, <2>1
    <3>2. i \in Nat /\ i # 0 /\ g \in Nat
      BY SettingIndex
    <3>3. g <= at.group
      BY <1>1, <2>2, <3>1, <3>2 DEF Passed
    <3>4. QED
      BY <1>2, <3>3
  <2>5. StageDone'
    <3>1. at'.step \in {"stage", "poll"} => at'.group = 13
      BY <2>2
    <3>2. at'.group > 13 /\ failed' = {} => stage' = "initialized"
      BY <1>1, <2>2
    <3>3. result' = "none"
      BY <1>1, <2>1
    <3>4. QED
      BY <3>1, <3>2, <3>3 DEF StageDone
  <2>6. QED
    BY <2>3, <2>4, <2>5 DEF Grows, ProfileInv
<1>5. QED
  BY <1>3, <1>4

(* The write of the group that comes next, or the next group. *)
LEMMA NextWriteInv ==
  ASSUME TypeOK, ProfileInv, at.step = "write", Grows, NextWrite, stage' = stage,
         \A j \in 1..at.write :
           IsSelector(at.group, j) /\ (\A k \in (j + 1)..at.write : ~IsSelector(at.group, k))
             => cursor'[Profile[at.group].writes[j][1]] = Profile[at.group].writes[j][2],
         \A g \in Groups : \A i \in Settings(Profile[g]) :
           g = at.group /\ i = at.write => Outcome(g, i)'
  PROVE  ProfileInv'
<1>1. /\ at.group \in Groups /\ at.group \in Nat /\ at.write \in Nat
      /\ at.write \in DOMAIN Profile[at.group].writes
      /\ Running /\ result = "none"
  BY Standing DEF ProfileInv, StageDone, Running
<1>2. at.group > 12 /\ failed' = {} => stage' = "initialized"
  <2>1. at.group # 13
    BY <1>1, Rows DEF Required
  <2>2. QED
    BY <1>1, <2>1 DEF Grows, ProfileInv, StageDone
<1>3. ASSUME NEW g \in Groups, NEW i \in Settings(Profile[g]), g = at.group, i <= at.write
      PROVE  Outcome(g, i)'
  <2>1. CASE i = at.write
    BY <1>3, <2>1
  <2>2. CASE i # at.write
    <3>1. Passed(g, i)
      <4>1. i \in Nat
        BY SettingIndex
      <4>2. QED
        BY <1>1, <1>3, <2>2, <4>1 DEF Passed
    <3>2. Outcome(g, i)
      BY <3>1 DEF ProfileInv, Tried
    <3>3. QED
      BY <3>2 DEF Grows
  <2>3. QED
    BY <2>1, <2>2
<1>4. CASE at.write < Len(Profile[at.group].writes)
  <2>1. /\ at' = [step |-> "check", group |-> at.group, write |-> at.write + 1]
        /\ result' = result
    BY <1>4 DEF NextWrite
  <2>2. at'.step = "check" /\ at'.group = at.group /\ at'.write = at.write + 1
    BY <2>1
  <2>3. Pointed'
    BY <1>1, <2>2 DEF Pointed
  <2>4. Tried'
    <3> SUFFICES ASSUME NEW g \in Groups, NEW i \in Settings(Profile[g]),
                        Passed(g, i)' \/ result' \in {"ok", "failed"}
                 PROVE  Outcome(g, i)'
      BY DEF Tried
    <3>1. Passed(g, i)'
      BY <1>1, <2>1
    <3>2. i \in Nat /\ g \in Nat
      BY SettingIndex
    <3>3. g < at.group \/ (g = at.group /\ i <= at.write)
      BY <1>1, <2>2, <3>1, <3>2 DEF Passed
    <3>4. CASE g < at.group
      <4>1. Outcome(g, i)
        BY <1>1, <3>4 DEF ProfileInv, Tried, Passed
      <4>2. QED
        BY <4>1 DEF Grows
    <3>5. QED
      BY <1>3, <3>3, <3>4
  <2>5. StageDone'
    <3>1. at'.group > 13 /\ failed' = {} => stage' = "initialized"
      BY <1>1, <1>2, <2>2
    <3>2. QED
      BY <1>1, <2>1, <2>2, <3>1 DEF StageDone
  <2>6. QED
    BY <2>3, <2>4, <2>5 DEF Grows, ProfileInv
<1>5. CASE ~(at.write < Len(Profile[at.group].writes))
  <2>1. LeaveGroup(at.group, failed')
    BY <1>5 DEF NextWrite
  <2>2. \A g \in Groups : \A i \in Settings(Profile[g]) : g = at.group => i <= at.write
    <3> SUFFICES ASSUME NEW g \in Groups, NEW i \in Settings(Profile[g]), g = at.group PROVE i <= at.write
      OBVIOUS
    <3>1. i \in Nat /\ i <= Len(Profile[g].writes) /\ Len(Profile[g].writes) \in Nat
      BY SettingIndex
    <3>2. QED
      BY <1>1, <1>5, <3>1
  <2>3. \A g \in Groups : \A i \in Settings(Profile[g]) : g = at.group => Outcome(g, i)'
    BY <1>3, <2>2
  <2>4. QED
    BY <1>1, <1>2, <2>1, <2>3, LeaveGroupInv
<1>6. QED
  BY <1>4, <1>5

LEMMA FailWriteInv ==
  ASSUME TypeOK, ProfileInv, at.step = "write", FailWrite, stage' = stage,
         Accepted \/ UNCHANGED <<register, cursor>>
  PROVE  ProfileInv'
<1>1. /\ at.group \in Groups /\ at.group \in Nat /\ at.write \in Nat
      /\ at.write \in DOMAIN Profile[at.group].writes /\ Running
  BY Standing DEF Running
<1>2. OnlyMeantRegisters' /\ \A g \in Groups : \A i \in Settings(Profile[g]) :
        Applied(Profile[g], i) => Applied(Profile[g], i)'
  BY DEF Accepted, ProfileInv, OnlyMeantRegisters, Applied
<1>3. refused' = refused \cup {<<at.group, at.write>>} /\ failed' = failed \cup Recorded(Profile[at.group])
  BY DEF FailWrite
<1>4. FailuresRecorded'
  <2> SUFFICES ASSUME NEW g \in Groups, NEW j \in DOMAIN Profile[g].writes,
                      <<g, j>> \in refused', Profile[g].required
               PROVE  Profile[g].phase \in failed'
    BY DEF FailuresRecorded
  <2>1. CASE <<g, j>> \in refused
    BY <1>3, <2>1 DEF ProfileInv, FailuresRecorded
  <2>2. CASE <<g, j>> = <<at.group, at.write>>
    BY <1>3, <2>2 DEF Recorded
  <2>3. QED
    BY <1>3, <2>1, <2>2
<1>5. \A g \in Groups : \A i \in Settings(Profile[g]) : Outcome(g, i) => Outcome(g, i)'
  BY <1>2, <1>3 DEF Outcome
<1>6. Grows
  BY <1>2, <1>3, <1>4, <1>5 DEF Grows
<1>7. CASE Profile[at.group].stop
  <2>1. LeaveGroup(at.group, failed')
    BY <1>7 DEF FailWrite, StopsAfterFailure
  <2>2. ASSUME NEW g \in Groups, NEW i \in Settings(Profile[g]), g = at.group
        PROVE  Outcome(g, i)'
    <3>1. i \in Nat
      BY SettingIndex
    <3>2. CASE i < at.write
      <4>1. Outcome(g, i)
        BY <1>1, <2>2, <3>2 DEF ProfileInv, Tried, Passed
      <4>2. QED
        BY <1>5, <4>1
    <3>3. CASE ~(i < at.write)
      <4>1. at.write \in 1..i /\ <<g, at.write>> \in refused'
        BY <1>1, <1>3, <2>2, <3>1, <3>3, Shape
      <4>2. QED
        BY <1>7, <2>2, <4>1 DEF Outcome
    <3>4. QED
      BY <3>2, <3>3
  <2>3. at.group > 12 /\ failed' = {} => stage' = "initialized"
    <3>1. at.group # 13
      BY <1>1, Rows DEF Required
    <3>2. QED
      BY <1>1, <1>3, <3>1 DEF ProfileInv, StageDone
  <2>4. QED
    BY <1>1, <1>6, <2>1, <2>2, <2>3, LeaveGroupInv
<1>8. CASE ~Profile[at.group].stop
  <2>1. NextWrite
    BY <1>8 DEF FailWrite, StopsAfterFailure
  <2>2. ~IsSelector(at.group, at.write)
    <3>1. at.group \in Looping /\ GroupFacts(at.group)
      BY <1>1, <1>8, Table
    <3>2. QED
      BY <1>1, <3>1 DEF GroupFacts, IsSelector
  <2>3. ASSUME NEW j \in 1..at.write, IsSelector(at.group, j),
               \A k \in (j + 1)..at.write : ~IsSelector(at.group, k)
        PROVE  cursor'[Profile[at.group].writes[j][1]] = Profile[at.group].writes[j][2]
    <3>1. j \in 1..(at.write - 1) /\ \A k \in (j + 1)..(at.write - 1) : ~IsSelector(at.group, k)
      BY <1>1, <2>2, <2>3
    <3>2. cursor[Profile[at.group].writes[j][1]] = Profile[at.group].writes[j][2]
      BY <2>3, <3>1 DEF ProfileInv, Pointed
    <3>3. QED
      BY <2>3, <3>2 DEF Accepted
  <2>4. \A g \in Groups : \A i \in Settings(Profile[g]) : g = at.group /\ i = at.write => Outcome(g, i)'
    BY <1>3 DEF Outcome
  <2>5. QED
    BY <1>6, <2>1, <2>3, <2>4, NextWriteInv
<1>9. QED
  BY <1>7, <1>8

LEMMA WriteFeatureInv ==
  ASSUME TypeOK, ProfileInv, WriteFeature
  PROVE  ProfileInv'
<1>1. /\ at.step = "write" /\ Effect(Write) /\ NextWrite
      /\ failed' = failed /\ stage' = stage /\ refused' = refused
  BY DEF WriteFeature
<1>2. Accepted /\ \A g \in Groups : \A i \in Settings(Profile[g]) :
                    g = at.group /\ i = at.write => Applied(Profile[g], i)'
  <2>1. CASE IsSelector(at.group, at.write)
    BY <1>1, <2>1, SelectorAccepted DEF Settings, IsSelector
  <2>2. CASE ~IsSelector(at.group, at.write)
    BY <1>1, <2>2, SettingAccepted
  <2>3. QED
    BY <2>1, <2>2
<1>3. Grows
  <2>1. FailuresRecorded'
    BY <1>1 DEF ProfileInv, FailuresRecorded
  <2>2. \A g \in Groups : \A i \in Settings(Profile[g]) : Outcome(g, i) => Outcome(g, i)'
    BY <1>1, <1>2 DEF Accepted, Outcome
  <2>3. QED
    BY <1>1, <1>2, <2>1, <2>2 DEF Accepted, Grows
<1>4. \A g \in Groups : \A i \in Settings(Profile[g]) : g = at.group /\ i = at.write => Outcome(g, i)'
  BY <1>2 DEF Outcome
<1>5. QED
  BY <1>1, <1>2, <1>3, <1>4, NextWriteInv DEF Accepted

(* The steps that leave StageInit. *)
LEMMA LeaveStageInv ==
  ASSUME TypeOK, ProfileInv, at.step \in {"stage", "poll"}, LeaveGroup(at.group, failed'),
         failed \subseteq failed', UNCHANGED <<register, refused>>,
         failed' = {} => stage' = "initialized"
  PROVE  ProfileInv'
<1>1. at.group = 13 /\ Running
  BY DEF ProfileInv, StageDone, Running
<1>2. Settings(Profile[13]) = {}
  BY Rows DEF Required, Settings
<1>3. OnlyMeantRegisters'
  BY DEF ProfileInv, OnlyMeantRegisters
<1>4. FailuresRecorded'
  BY DEF ProfileInv, FailuresRecorded
<1>5. \A g \in Groups : \A i \in Settings(Profile[g]) : Outcome(g, i) => Outcome(g, i)'
  BY DEF Outcome, Applied
<1>6. Grows
  BY <1>3, <1>4, <1>5 DEF Grows
<1>7. \A g \in Groups : \A i \in Settings(Profile[g]) : g = at.group => Outcome(g, i)'
  BY <1>1, <1>2
<1>8. QED
  BY <1>1, <1>6, <1>7, LeaveGroupInv

(* The steps that write nothing and stay where the profile is, or end it. *)
LEMMA SteadyInv ==
  ASSUME TypeOK, ProfileInv, UNCHANGED <<failed, register, cursor, refused, result>>,
         stage' \in {stage, "initialized"} \/ (Running /\ at.group = 13),
         at'.group = at.group, at'.write = at.write,
         at'.step = "idle" <=> at.step = "idle",
         at'.step \in {"stage", "poll"} => at.step \in {"stage", "poll"},
         at'.step \in {"check", "write"} => at.step \in {"check", "write"}
  PROVE  ProfileInv'
<1>1. Running' <=> Running
  BY DEF Running
<1>2. \A g \in Groups : \A i \in Settings(Profile[g]) :
        (Outcome(g, i)' <=> Outcome(g, i)) /\ (Passed(g, i)' <=> Passed(g, i))
  BY <1>1 DEF Outcome, Applied, Passed
<1>3. Pointed'
  BY DEF ProfileInv, Pointed
<1>4. OnlyMeantRegisters'
  BY DEF ProfileInv, OnlyMeantRegisters
<1>5. Tried'
  BY <1>2 DEF ProfileInv, Tried
<1>6. FailuresRecorded'
  BY DEF ProfileInv, FailuresRecorded
<1>7. StageDone'
  BY <1>1 DEF ProfileInv, StageDone, Running
<1>8. QED
  BY <1>3, <1>4, <1>5, <1>6, <1>7 DEF ProfileInv

LEMMA EndInv ==
  ASSUME TypeOK, ProfileInv, End("cancelled"), UNCHANGED <<failed, register, cursor, refused, stage>>
  PROVE  ProfileInv'
<1>1. at'.step = "idle" /\ result' = "cancelled" /\ ~Running'
  BY DEF End, Idle, Running
<1>2. Pointed' /\ StageDone'
  BY <1>1 DEF Pointed, StageDone
<1>3. Tried'
  BY <1>1 DEF Tried, Passed
<1>4. OnlyMeantRegisters' /\ FailuresRecorded'
  BY DEF ProfileInv, OnlyMeantRegisters, FailuresRecorded
<1>5. QED
  BY <1>2, <1>3, <1>4 DEF ProfileInv

LEMMA BeginInv ==
  ASSUME TypeOK, ProfileInv, Begin
  PROVE  ProfileInv'
<1>1. /\ at' = [step |-> "check", group |-> 1, write |-> 1]
      /\ failed' = {} /\ refused' = {} /\ result' = "none" /\ UNCHANGED <<register, cursor, stage>>
  BY DEF Begin
<1>2. at'.step = "check" /\ at'.group = 1 /\ at'.write = 1
  BY <1>1
<1>3. Pointed'
  BY <1>2 DEF Pointed
<1>4. OnlyMeantRegisters'
  BY <1>1 DEF ProfileInv, OnlyMeantRegisters
<1>5. Tried'
  <2> SUFFICES ASSUME NEW g \in Groups, NEW i \in Settings(Profile[g]) PROVE ~Passed(g, i)'
    BY <1>1 DEF Tried
  <2>1. g \in Nat /\ g # 0 /\ i \in Nat /\ i # 0
    BY SettingIndex, Table
  <2>2. QED
    BY <1>2, <2>1 DEF Passed
<1>6. FailuresRecorded'
  BY <1>1 DEF FailuresRecorded
<1>7. StageDone'
  BY <1>1, <1>2 DEF StageDone
<1>8. QED
  BY <1>3, <1>4, <1>5, <1>6, <1>7 DEF ProfileInv

LEMMA ProfileNext == TypeOK /\ ProfileInv /\ [Next]_vars => ProfileInv'
<1> SUFFICES ASSUME TypeOK, ProfileInv, [Next]_vars PROVE ProfileInv'
  OBVIOUS
<1>1. CASE CheckCancelled
  <2>1. CASE CancelSeen(Profile[at.group])
    BY <1>1, <2>1, EndInv DEF CheckCancelled
  <2>2. CASE ~CancelSeen(Profile[at.group])
    <3>1. /\ at.step = "check" /\ at' = [at EXCEPT !.step = "write"]
          /\ UNCHANGED <<failed, register, cursor, refused, result, stage>>
      BY <1>1, <2>2 DEF CheckCancelled
    <3>2. at'.step = "write" /\ at'.group = at.group /\ at'.write = at.write
      BY <3>1 DEF TypeOK
    <3>3. QED
      BY <3>1, <3>2, SteadyInv
  <2>3. QED
    BY <2>1, <2>2
<1>2. CASE WriteFails
  <2>1. /\ at.step = "write" /\ FailWrite /\ stage' = stage
        /\ Effect(Write) \/ UNCHANGED <<register, cursor>>
    BY <1>2 DEF WriteFails
  <2>2. Effect(Write) => Accepted
    BY <2>1, SelectorAccepted, SettingAccepted
  <2>3. QED
    BY <2>1, <2>2, FailWriteInv
<1>3. CASE WriteRefusedWhileClosing
  BY <1>3, FailWriteInv DEF WriteRefusedWhileClosing
<1>4. CASE SkipStage
  <2>1. failed # {}
    BY <1>4 DEF SkipStage, StageAllowed
  <2>2. /\ at.step = "stage" /\ LeaveGroup(at.group, failed') /\ failed' = failed
        /\ UNCHANGED <<register, refused>>
    BY <1>4 DEF SkipStage
  <2>3. QED
    BY <2>1, <2>2, LeaveStageInv
<1>5. CASE CommandStage
  <2>1. /\ at.step = "stage" /\ at' = [at EXCEPT !.step = "poll"]
        /\ UNCHANGED <<failed, register, cursor, refused, result>>
    BY <1>5 DEF CommandStage
  <2>2. at'.step = "poll" /\ at'.group = at.group /\ at'.write = at.write
    BY <2>1 DEF TypeOK
  <2>3. at.group = 13 /\ Running
    BY <2>1 DEF ProfileInv, StageDone, Running
  <2>4. QED
    BY <2>1, <2>2, <2>3, SteadyInv
<1>6. ASSUME NEW phase, at.step \in {"stage", "poll"}, FailStage(phase), UNCHANGED <<register, refused>>
      PROVE  ProfileInv'
  <2>1. failed \subseteq failed' /\ failed' # {} /\ LeaveGroup(at.group, failed')
    BY <1>6 DEF FailStage
  <2>2. QED
    BY <1>6, <2>1, LeaveStageInv
<1>7. CASE StageCommandFails
  BY <1>6, <1>7 DEF StageCommandFails
<1>8. CASE PollCancelled
  BY <1>8, EndInv DEF PollCancelled
<1>9. CASE PollInitialized
  <2>1. /\ at.step = "poll" /\ LeaveGroup(at.group, failed') /\ failed' = failed
        /\ UNCHANGED <<register, refused>> /\ stage' = "initialized"
    BY <1>9 DEF PollInitialized
  <2>2. QED
    BY <2>1, LeaveStageInv
<1>10. CASE PollUnreadable
  BY <1>6, <1>10 DEF PollUnreadable
<1>11. CASE PollAgain
  <2>1. CASE Deadline(polls')
    BY <1>6, <1>11, <2>1 DEF PollAgain
  <2>2. CASE ~Deadline(polls')
    <3>1. UNCHANGED <<failed, register, cursor, refused, result, stage, at>>
      BY <1>11, <2>2 DEF PollAgain
    <3>2. /\ at'.group = at.group /\ at'.write = at.write /\ at'.step = at.step
          /\ stage' \in {stage, "initialized"}
      BY <3>1
    <3>3. QED
      BY <3>1, <3>2, SteadyInv
  <2>3. QED
    BY <2>1, <2>2
<1>12. CASE StageArrives \/ RequestCancel \/ RequestClose \/ ClaimClose \/ TakeHandles \/ UNCHANGED vars
  <2>1. UNCHANGED <<failed, register, cursor, refused, result, at>> /\ stage' \in {stage, "initialized"}
    BY <1>12 DEF StageArrives, RequestCancel, RequestClose, ClaimClose, TakeHandles, vars
  <2>2. at'.group = at.group /\ at'.write = at.write /\ at'.step = at.step
    BY <2>1
  <2>3. QED
    BY <2>1, <2>2, SteadyInv
<1>13. QED
  BY <1>1, <1>2, <1>3, <1>4, <1>5, <1>7, <1>8, <1>9, <1>10, <1>11, <1>12, BeginInv, WriteFeatureInv
  DEF Next, ProfileStep

LEMMA ProfileInvariant == Spec => []ProfileInv
BY ProfileInit, ProfileNext, TypeInvariant, PTL DEF Spec

------------------------------------------------------------------------------
(* What a run leaves behind *)

(***************************************************************************)
(* However its writes fail, a profile changes no register but those it     *)
(* means, and each holds the value meant for it; AcquisitionStart is kept. *)
(***************************************************************************)
THEOREM RegistersAreMeant == Spec => []OnlyMeantRegisters
<1>1. ProfileInv => OnlyMeantRegisters
  BY DEF ProfileInv
<1>2. QED
  BY ProfileInvariant, <1>1, PTL

LEMMA EverySettingTried == ProfileInv => IndependentGroupsContinue
<1> SUFFICES ASSUME ProfileInv, result \in {"ok", "failed"},
                    NEW g \in Groups, NEW i \in Settings(Profile[g])
             PROVE  \/ Applied(Profile[g], i)
                    \/ <<g, i>> \in refused
                    \/ Profile[g].phase \notin {"motion-defaults", "post-stage-init"}
                       /\ \E j \in 1..i : <<g, j>> \in refused
  BY DEF IndependentGroupsContinue
<1>1. Outcome(g, i)
  BY DEF ProfileInv, Tried
<1>2. Profile[g].stop => Profile[g].phase \notin {"motion-defaults", "post-stage-init"}
  <2>1. /\ Profile[g].stop <=> g \notin Looping
        /\ Profile[g].phase \in {"motion-defaults", "post-stage-init"} <=> g \in {11, 14}
    BY Table
  <2>2. {11, 14} \subseteq Looping
    BY DEF Looping
  <2>3. QED
    BY <2>1, <2>2, Zenon
<1>3. QED
  BY <1>1, <1>2 DEF Outcome

(***************************************************************************)
(* A run that was not cancelled misses a setting only if its own write     *)
(* failed, or an earlier one of a group that stops at a failure.           *)
(***************************************************************************)
THEOREM GroupsContinue == Spec => []IndependentGroupsContinue
BY ProfileInvariant, EverySettingTried, PTL

(* A required setting without a recorded failure is on the device. *)
LEMMA UnfailedApplied ==
  ASSUME ProfileInv, NEW g \in Groups, NEW i \in Settings(Profile[g]), Outcome(g, i),
         Profile[g].required, Profile[g].phase \notin failed
  PROVE  Applied(Profile[g], i)
<1>1. 1..i \subseteq DOMAIN Profile[g].writes /\ i \in DOMAIN Profile[g].writes
  <2>1. i \in DOMAIN Profile[g].writes
    BY MeantValue
  <2>2. QED
    BY <2>1, Shape
<1>2. \A j \in DOMAIN Profile[g].writes : <<g, j>> \notin refused
  BY DEF ProfileInv, FailuresRecorded
<1>3. QED
  BY <1>1, <1>2 DEF Outcome

LEMMA StageNeedsDefaults ==
  ASSUME TypeOK, [Next]_vars, at.step = "stage",
         at'.step = "poll" \/ (stage # "moving" /\ stage' = "moving")
  PROVE  StageAllowed
<1>1. CASE SkipStage
  <2>1. stage' = stage /\ LeaveGroup(at.group, failed)
    BY <1>1 DEF SkipStage
  <2>2. at'.step # "poll"
    BY <2>1 DEF LeaveGroup, End, Idle
  <2>3. QED
    BY <2>1, <2>2
<1>2. CASE CommandStage \/ StageCommandFails
  BY <1>2 DEF CommandStage, StageCommandFails
<1>3. CASE StageArrives \/ RequestCancel \/ RequestClose \/ ClaimClose \/ TakeHandles \/ UNCHANGED vars
  BY <1>3 DEF StageArrives, RequestCancel, RequestClose, ClaimClose, TakeHandles, vars
<1>4. QED
  BY <1>1, <1>2, <1>3 DEF Next, ProfileStep, Begin, Running, CheckCancelled, WriteFeature,
     WriteFails, WriteRefusedWhileClosing, PollCancelled, PollInitialized, PollUnreadable, PollAgain

LEMMA DefaultsBeforeStage ==
  ASSUME ProfileInv, at.step = "stage", StageAllowed,
         NEW g \in Groups, Profile[g].phase \in {"encoder-defaults", "motion-defaults"},
         NEW i \in Settings(Profile[g])
  PROVE  Applied(Profile[g], i)
<1>1. g \in {10, 11} /\ Profile[g].required
  BY Table
<1>2. Profile[g].phase \notin failed
  BY DEF StageAllowed
<1>3. at.group = 13 /\ Running
  BY DEF ProfileInv, StageDone, Running
<1>4. Passed(g, i)
  BY <1>1, <1>3 DEF Passed
<1>5. Outcome(g, i)
  BY <1>4 DEF ProfileInv, Tried
<1>6. QED
  BY <1>1, <1>2, <1>5, UnfailedApplied

(***************************************************************************)
(* The stage is commanded to move only when every encoder and motion       *)
(* default is on the device.                                               *)
(***************************************************************************)
THEOREM StageIsConfigured == Spec => StageMovesWhenConfigured
<1>1. TypeOK /\ ProfileInv /\ [Next]_vars =>
        [at.step = "stage" /\ (at'.step = "poll" \/ (stage # "moving" /\ stage' = "moving")) =>
           \A g \in Groups : Profile[g].phase \in {"encoder-defaults", "motion-defaults"} =>
             \A i \in Settings(Profile[g]) : Applied(Profile[g], i)]_vars
  <2> SUFFICES ASSUME TypeOK, ProfileInv, [Next]_vars, at.step = "stage",
                      at'.step = "poll" \/ (stage # "moving" /\ stage' = "moving"),
                      NEW g \in Groups, Profile[g].phase \in {"encoder-defaults", "motion-defaults"},
                      NEW i \in Settings(Profile[g])
               PROVE  Applied(Profile[g], i)
    OBVIOUS
  <2>1. StageAllowed
    BY StageNeedsDefaults
  <2>2. QED
    BY <2>1, DefaultsBeforeStage
<1>2. QED
  BY TypeInvariant, ProfileInvariant, <1>1, PTL DEF Spec, StageMovesWhenConfigured

LEMMA SuccessApplies ==
  ASSUME ProfileInv, result = "ok", NEW g \in Groups, Profile[g].required,
         NEW i \in Settings(Profile[g])
  PROVE  Applied(Profile[g], i)
<1>1. Outcome(g, i)
  BY DEF ProfileInv, Tried
<1>2. Profile[g].phase \notin failed
  BY DEF ProfileInv, StageDone
<1>3. QED
  BY <1>1, <1>2, UnfailedApplied

(* The two settings of a trigger group that succeeded. *)
LEMMA TriggerApplied ==
  ASSUME ProfileInv, result = "ok", NEW g \in {8, 9}, NEW name, NEW source,
         Profile[g].writes = Trigger(name, source), Profile[g].required
  PROVE  register[<<"TriggerMode", name>>] = "On" /\ register[<<"TriggerSource", name>>] = source
<1> DEFINE w == Profile[g].writes
<1>1. /\ w[1] = <<"TriggerSelector", name>> /\ w[2] = <<"TriggerMode", "On">>
      /\ w[3] = <<"TriggerSource", source>> /\ DOMAIN w = 1..3
  BY DEF Trigger
<1>2. g \in Groups
  BY Table
<1>3. /\ w[1][1] = "TriggerSelector" /\ w[1][2] = name
      /\ w[2][1] = "TriggerMode" /\ w[2][2] = "On"
      /\ w[3][1] = "TriggerSource" /\ w[3][2] = source
  BY <1>1
<1>4. ~IsSelector(g, 2) /\ ~IsSelector(g, 3)
  BY <1>3, SelectorNames DEF IsSelector
<1>5. 2 \in Settings(Profile[g]) /\ 3 \in Settings(Profile[g])
  BY <1>1, <1>4 DEF Settings, IsSelector
<1>6. ASSUME NEW i \in {2, 3}
      PROVE  \E j \in 1..(i - 1) : Selects(w, j, i) /\ Meant(Profile[g], i) = <<w[i][1], w[j][2]>>
  <2>1. i \in DOMAIN w /\ ~IsSelector(g, i)
    BY <1>1, <1>4
  <2>2. w[i][1] \in DOMAIN Selector
    <3>1. i = 2 \/ i = 3
      OBVIOUS
    <3>2. QED
      BY <1>3, <3>1, SelectorTable
  <2>3. QED
    BY <1>2, <2>1, <2>2, MeantRegister
<1>7. Meant(Profile[g], 2) = <<"TriggerMode", name>>
  <2>1. PICK j \in 1..(2 - 1) : Meant(Profile[g], 2) = <<w[2][1], w[j][2]>>
    BY <1>6
  <2>2. j = 1
    OBVIOUS
  <2>3. QED
    BY <1>3, <2>1, <2>2
<1>8. Meant(Profile[g], 3) = <<"TriggerSource", name>>
  <2>1. PICK j \in 1..(3 - 1) : Selects(w, j, 3) /\ Meant(Profile[g], 3) = <<w[3][1], w[j][2]>>
    BY <1>6
  <2>2. w[j][1] = "TriggerSelector"
    BY <1>3, <2>1, SelectorTable DEF Selects
  <2>3. j = 1
    BY <1>3, <2>2
  <2>4. QED
    BY <1>3, <2>1, <2>3
<1>9. Applied(Profile[g], 2) /\ Applied(Profile[g], 3)
  BY <1>2, <1>5, SuccessApplies
<1>10. QED
  BY <1>3, <1>7, <1>8, <1>9 DEF Applied

LEMMA SuccessConfigures == ProfileInv => SuccessMeansApplied
<1>1. ProfileInv /\ result = "ok" => stage = "initialized"
  BY DEF ProfileInv, StageDone
<1>2. QED
  BY <1>1, SuccessApplies DEF SuccessMeansApplied

(* The policy on the two gates as the profile sets them: it accepts what it  *)
(* can read.                                                                 *)
LEMMA CanonicalRoute ==
  ASSUME NEW as \in P!TriggerSelectorState, NEW f \in Readings, NEW r \in Readings,
         NEW fs, fs = [modeReadable |-> f.mode, sourceReadable |-> f.source,
                       mode |-> "On", source |-> "Software"],
         NEW rs, rs = [modeReadable |-> r.mode, sourceReadable |-> r.source,
                       mode |-> "On", source |-> "Stage"],
         as.modeReadable, as.mode \in {"On", "Off"}, f.mode, f.source, r.mode, r.source
  PROVE  LET plan == P!EvaluateAcquisitionTriggerPlan(as, fs, rs)
         IN P!UsesHostSoftwareTrigger(plan) /\ plan.recordingStartRoute = "Stage"
<1>1. /\ fs.modeReadable /\ fs.sourceReadable /\ fs.mode = "On" /\ fs.source = "Software"
      /\ rs.modeReadable /\ rs.sourceReadable /\ rs.mode = "On" /\ rs.source = "Stage"
  OBVIOUS
<1>2. P!ModeError(as) = "none" /\ P!ModeError(fs) = "none" /\ P!ModeError(rs) = "none"
  BY <1>1 DEF P!ModeError
<1>3. P!ModesError(as, fs, rs) = "none"
  BY <1>2 DEF P!ModesError
<1>4. ~P!SourceUnreadable(fs) /\ ~P!SourceUnreadable(rs)
  BY <1>1 DEF P!SourceUnreadable
<1>5. P!PlanError(as, fs, rs) = "none"
  BY <1>1, <1>3, <1>4 DEF P!PlanError
<1>6. P!FrameStartRoute(fs) = "Software" /\ P!RecordingStartRoute(rs) = "Stage"
  BY <1>1 DEF P!FrameStartRoute, P!RecordingStartRoute
<1>7. QED
  BY <1>3, <1>4, <1>5, <1>6 DEF P!EvaluateAcquisitionTriggerPlan, P!UsesHostSoftwareTrigger

(* It refuses what it cannot read, and an AcquisitionStart it does not know. *)
LEMMA UnreadRefused ==
  ASSUME NEW as \in P!TriggerSelectorState, NEW f \in Readings, NEW r \in Readings,
         NEW fs, fs = [modeReadable |-> f.mode, sourceReadable |-> f.source,
                       mode |-> "On", source |-> "Software"],
         NEW rs, rs = [modeReadable |-> r.mode, sourceReadable |-> r.source,
                       mode |-> "On", source |-> "Stage"],
         ~(/\ as.modeReadable /\ as.mode \in {"On", "Off"}
           /\ f.mode /\ f.source /\ r.mode /\ r.source)
  PROVE  ~P!EvaluateAcquisitionTriggerPlan(as, fs, rs).valid
<1>1. /\ fs.modeReadable = f.mode /\ fs.sourceReadable = f.source /\ fs.mode = "On"
      /\ rs.modeReadable = r.mode /\ rs.sourceReadable = r.source /\ rs.mode = "On"
  OBVIOUS
<1>2. P!PlanError(as, fs, rs) # "none"
  <2>1. CASE ~(as.modeReadable /\ as.mode \in {"On", "Off"} /\ f.mode /\ r.mode)
    <3>1. P!ModeError(as) # "none" \/ P!ModeError(fs) # "none" \/ P!ModeError(rs) # "none"
      BY <1>1, <2>1 DEF P!ModeError
    <3>2. P!ModesError(as, fs, rs) # "none"
      BY <3>1 DEF P!ModesError
    <3>3. QED
      BY <3>2 DEF P!PlanError
  <2>2. CASE ~(f.source /\ r.source)
    <3>1. P!SourceUnreadable(fs) \/ P!SourceUnreadable(rs)
      BY <1>1, <2>2 DEF P!SourceUnreadable
    <3>2. QED
      BY <3>1 DEF P!PlanError
  <2>3. QED
    BY <2>1, <2>2
<1>3. QED
  BY <1>2 DEF P!EvaluateAcquisitionTriggerPlan

LEMMA SuccessArms == ProfileInv => ArmableIfRead
<1> SUFFICES ASSUME ProfileInv, result = "ok",
                    NEW as \in P!TriggerSelectorState, NEW f \in Readings, NEW r \in Readings
             PROVE  LET plan == P!EvaluateAcquisitionTriggerPlan(as, Gate("FrameStart", f),
                                                                 Gate("RecordingStart", r))
                    IN IF /\ as.modeReadable /\ as.mode \in {"On", "Off"}
                          /\ f.mode /\ f.source /\ r.mode /\ r.source
                         THEN P!UsesHostSoftwareTrigger(plan) /\ plan.recordingStartRoute = "Stage"
                         ELSE ~plan.valid
  BY DEF ArmableIfRead
<1>1. /\ Profile[8].writes = Trigger("RecordingStart", "Stage") /\ Profile[8].required
      /\ Profile[9].writes = Trigger("FrameStart", "Software") /\ Profile[9].required
  BY Rows DEF Required
<1>2. /\ register[<<"TriggerMode", "RecordingStart">>] = "On"
      /\ register[<<"TriggerSource", "RecordingStart">>] = "Stage"
  BY <1>1, TriggerApplied
<1>3. /\ register[<<"TriggerMode", "FrameStart">>] = "On"
      /\ register[<<"TriggerSource", "FrameStart">>] = "Software"
  BY <1>1, TriggerApplied
<1>4. /\ Gate("FrameStart", f) = [modeReadable |-> f.mode, sourceReadable |-> f.source,
                                  mode |-> "On", source |-> "Software"]
      /\ Gate("RecordingStart", r) = [modeReadable |-> r.mode, sourceReadable |-> r.source,
                                      mode |-> "On", source |-> "Stage"]
  BY <1>2, <1>3 DEF Gate
<1>5. QED
  BY <1>4, CanonicalRoute, UnreadRefused

(***************************************************************************)
(* A profile that reports success left every required register set and the *)
(* stage initialized; an arm then takes the canonical trigger route, or    *)
(* refuses for a gate or an AcquisitionStart mode it cannot read or does   *)
(* not know, never for what the profile wrote.                             *)
(***************************************************************************)
THEOREM ProfileSuccessIsReal == Spec => []SuccessIsReal
<1>1. ProfileInv => SuccessIsReal
  BY SuccessConfigures, SuccessArms DEF SuccessIsReal
<1>2. QED
  BY ProfileInvariant, <1>1, PTL

=============================================================================
