----------------------------- MODULE DeviceMode -----------------------------
(***************************************************************************)
(* What HeliotisC4Device promises its callers, whatever threads call it:   *)
(* the device is in one mode at a time, streams only between arming and    *)
(* disarming, and a failed SDK stop leaves it in a mode that only closing  *)
(* the connection leaves.  C4Device implements this specification.         *)
(***************************************************************************)

VARIABLES mode,        \* what the facade admits
          streaming    \* whether SDK acquisition runs

vars == <<mode, streaming>>

Modes == {"closed", "ready", "initializing", "arming", "armed", "fault"}

TypeOK == mode \in Modes /\ streaming \in BOOLEAN

Init ==
  /\ mode \in {"closed", "ready"}
  /\ streaming = FALSE

Become(from, to) == mode \in from /\ mode' = to /\ streaming' = streaming

Open == ~streaming /\ Become({"closed"}, "ready")

(* Only an idle or a faulted device is closed: an armed one is disarmed first. *)
Close == Become({"ready", "fault"}, "closed")

(* Releasing the handle ends whatever a failed stop left running. *)
Release == mode = "closed" /\ streaming' = FALSE /\ mode' = mode

BeginInitialization == Become({"ready"}, "initializing")
EndInitialization == Become({"initializing"}, "ready")

BeginArming == Become({"ready"}, "arming")
StartStreaming == mode = "arming" /\ ~streaming /\ streaming' = TRUE /\ mode' = mode
AbandonArming == ~streaming /\ Become({"arming"}, "ready")

(* Active is reported only once the SDK acquisition has started. *)
Arm == streaming /\ Become({"arming"}, "armed")

StopStreaming == mode = "armed" /\ streaming' = FALSE /\ mode' = mode
Disarm == ~streaming /\ Become({"armed"}, "ready")
Fail == streaming /\ Become({"armed"}, "fault")

Next ==
  \/ Open \/ Close \/ Release
  \/ BeginInitialization \/ EndInitialization
  \/ BeginArming \/ StartStreaming \/ AbandonArming \/ Arm
  \/ StopStreaming \/ Disarm \/ Fail

Spec == Init /\ [][Next]_vars
=============================================================================
