---------------------------- MODULE ControlWidget ----------------------------
(***************************************************************************)
(* The control widget of the plugin (src/C++/Utility/Qt/                   *)
(* QHeliotisC4Widget.cpp): the flags it keeps about pending operations and *)
(* the controls it enables from them.  Every operator is one setter of the *)
(* widget, as a function of the record that holds its flags.  Texts, icons *)
(* and the rows of the feature tree are left out; the editors of the tree  *)
(* that a user may write to are one flag, "editorsOn".                     *)
(***************************************************************************)

Flags == {"found", "discoveryPending", "connected", "connectionPending",
          "disconnectionPending", "initializationPending", "acquisitionAvailable",
          "acquisitionActive", "armPending", "stopPending", "triggerPending",
          "continuous", "triggerAvailable", "refreshPending", "operationPending"}

Controls == {"refreshOn", "connectOn", "connectChecked", "initOn", "singleOn",
             "liveOn", "liveChecked", "treeOn", "editorsOn", "triggerOn"}

Widget == [Flags \cup Controls -> BOOLEAN]

------------------------------------------------------------------------------

Reachable(u) == u.connected \/ u.found

(* What the tree, the editors and Init have in common. *)
Settled(u) ==
  ~u.operationPending /\ ~u.refreshPending /\ ~u.armPending

InitEnabled(u) ==
  u.connected /\ ~u.acquisitionActive /\ ~u.initializationPending /\ Settled(u)

SetSoftwareTriggerAvailable(u, available) ==
  [u EXCEPT !.triggerOn =
     /\ available /\ u.acquisitionActive /\ u.acquisitionAvailable
     /\ Settled(u) /\ ~u.stopPending /\ ~u.triggerPending]

CaptureEnabled(u) ==
  /\ u.connected /\ u.acquisitionAvailable
  /\ ~u.discoveryPending /\ ~u.connectionPending /\ ~u.disconnectionPending
  /\ ~u.initializationPending /\ Settled(u) /\ ~u.stopPending

(* Losing availability clears what the widget shows of an acquisition. *)
SetAcquisitionAvailable(u, available) ==
  LET v  == [u EXCEPT !.acquisitionAvailable = available,
                      !.acquisitionActive = @ /\ available,
                      !.continuous = @ /\ available,
                      !.triggerAvailable = @ /\ available,
                      !.triggerPending = @ /\ available,
                      !.liveChecked = @ /\ available]
      on == CaptureEnabled(v)
  IN SetSoftwareTriggerAvailable(
       [v EXCEPT !.singleOn = on /\ ~v.liveChecked, !.liveOn = on, !.liveChecked = @ /\ on],
       v.acquisitionActive /\ on /\ v.triggerAvailable)

(* Mutant: the end of a connection leaves the acquisition shown as it was. *)
AcquisitionKept(u, connected) ==
  [u EXCEPT !.connected = connected, !.connectionPending = FALSE,
            !.disconnectionPending = FALSE, !.connectChecked = connected,
            !.connectOn = Reachable([u EXCEPT !.connected = connected]), !.refreshOn = ~connected]

SetConnectionState(u, connected) ==
  LET pending == [u EXCEPT !.connected = connected, !.connectionPending = FALSE,
                    !.disconnectionPending = FALSE, !.armPending = FALSE,
                    !.stopPending = FALSE, !.triggerPending = FALSE,
                    !.initializationPending = @ /\ connected,
                    !.refreshPending = @ /\ connected,
                    !.operationPending = @ /\ connected]
      v == [pending EXCEPT !.connectChecked = connected, !.connectOn = Reachable(pending),
              !.refreshOn = ~connected, !.initOn = InitEnabled(pending),
              !.treeOn = connected /\ Settled(pending)]
  IN IF connected THEN v ELSE SetAcquisitionAvailable(v, FALSE)

SetConnectionPending(u, pending) ==
  LET v == [u EXCEPT !.connectionPending = pending]
  IN IF pending
       THEN SetAcquisitionAvailable(
              [v EXCEPT !.connectOn = FALSE, !.initOn = FALSE, !.refreshOn = FALSE], FALSE)
       ELSE v

SetConnectionError(u) == SetConnectionState(u, FALSE)

SetDisconnectionPending(u) ==
  [u EXCEPT !.disconnectionPending = TRUE, !.connectOn = FALSE, !.initOn = FALSE,
            !.singleOn = FALSE, !.liveOn = FALSE, !.treeOn = FALSE]

Connectable(u) ==
  ~u.connected /\ u.found /\ ~u.connectChecked /\ ~u.connectionPending

SetDiscoveryPending(u, pending) ==
  LET v == [u EXCEPT !.discoveryPending = pending]
  IN [v EXCEPT !.connectOn = ~pending /\ Connectable(v), !.refreshOn = ~pending /\ ~v.connected]

SetDiscoveredDevices(u, found) ==
  LET v == [u EXCEPT !.found = found]
  IN [v EXCEPT !.connectOn = ~v.discoveryPending /\ Connectable(v),
               !.refreshOn = ~v.connected /\ ~v.discoveryPending]

(* setInitializationPending(false) and setInitializationError. *)
InitializationEnded(u) ==
  LET v == [u EXCEPT !.initializationPending = FALSE]
  IN SetAcquisitionAvailable(
       [v EXCEPT !.treeOn = Settled(v), !.initOn = InitEnabled(v),
                 !.connectOn = ~v.armPending /\ (v.connectChecked \/ v.found)],
       v.acquisitionAvailable)

InitializationBegun(u) ==
  SetAcquisitionAvailable(
    [u EXCEPT !.initializationPending = TRUE, !.treeOn = FALSE, !.connectOn = FALSE,
              !.initOn = FALSE],
    u.acquisitionAvailable)

SetAcquisitionStopPending(u) ==
  IF ~u.acquisitionActive \/ u.disconnectionPending THEN u
  ELSE SetSoftwareTriggerAvailable(
         [u EXCEPT !.stopPending = TRUE, !.triggerPending = FALSE, !.connectOn = FALSE,
                   !.initOn = FALSE, !.singleOn = FALSE, !.liveOn = FALSE, !.treeOn = FALSE],
         FALSE)

SetSoftwareTriggerPending(u, pending) ==
  LET next == pending /\ u.acquisitionActive /\ u.triggerAvailable
  IN IF ~next /\ ~u.triggerPending THEN u
     ELSE SetSoftwareTriggerAvailable([u EXCEPT !.triggerPending = next], u.triggerAvailable)

(* A state the disconnect or a lost availability already overtook is ignored. *)
StateIgnored(u, acquiring) ==
  \/ u.disconnectionPending
  \/ ~u.connected
  \/ acquiring /\ (~u.acquisitionAvailable \/ u.initializationPending)

(* Mutant: a state leaves a pending stop as it was. *)
StopKept(u, acquiring, continuous, trigger) ==
  IF StateIgnored(u, acquiring) THEN u
  ELSE [u EXCEPT !.triggerPending = @ /\ acquiring /\ u.acquisitionActive,
                 !.acquisitionActive = acquiring, !.continuous = acquiring /\ continuous,
                 !.triggerAvailable = acquiring /\ trigger]

SetAcquisitionState(u, acquiring, continuous, trigger) ==
  IF StateIgnored(u, acquiring) THEN u
  ELSE LET v == [u EXCEPT !.stopPending = FALSE,
                          !.triggerPending = @ /\ acquiring /\ u.acquisitionActive,
                          !.acquisitionActive = acquiring,
                          !.continuous = acquiring /\ continuous,
                          !.triggerAvailable = acquiring /\ trigger]
           free == ~v.initializationPending /\ Settled(v)
           on   == v.acquisitionAvailable /\ free
       IN SetSoftwareTriggerAvailable(
            [v EXCEPT !.connectOn = free, !.treeOn = free,
                      !.editorsOn = ~acquiring /\ Settled(v),
                      !.initOn = InitEnabled(v),
                      !.liveChecked = acquiring /\ continuous,
                      !.singleOn = on /\ ~(acquiring /\ continuous),
                      !.liveOn = on /\ (acquiring => continuous)],
            v.triggerAvailable)

SetAcquisitionError(u) == SetAcquisitionState(u, FALSE, FALSE, FALSE)

ArmBegun(u, continuous) ==
  SetSoftwareTriggerAvailable(
    [u EXCEPT !.armPending = TRUE, !.continuous = continuous, !.connectOn = FALSE,
              !.initOn = FALSE, !.singleOn = FALSE, !.liveOn = FALSE, !.treeOn = FALSE,
              !.editorsOn = FALSE],
    FALSE)

ArmEnded(u) ==
  LET v == [u EXCEPT !.armPending = FALSE]
      w == [v EXCEPT !.liveChecked = FALSE, !.continuous = FALSE]
  IN IF u.acquisitionActive
       THEN SetAcquisitionState(v, TRUE, v.continuous, v.triggerAvailable)
       ELSE SetAcquisitionAvailable(
              [w EXCEPT !.connectOn = Reachable(w), !.initOn = InitEnabled(w),
                        !.treeOn = w.connected /\ ~w.initializationPending /\ Settled(w),
                        !.editorsOn = Settled(w)],
              w.acquisitionAvailable)

SetFeatureRefreshPending(u, pending) ==
  LET v == [u EXCEPT !.refreshPending = pending]
      w == SetAcquisitionAvailable(
             [v EXCEPT !.connectOn = ~pending /\ ~v.armPending /\ Reachable(v),
                       !.initOn = InitEnabled(v),
                       !.treeOn = v.connected /\ ~v.initializationPending /\ Settled(v),
                       !.editorsOn = ~v.acquisitionActive /\ Settled(v)],
             v.acquisitionAvailable)
  IN SetSoftwareTriggerAvailable(w, w.triggerAvailable)

SetFeatureOperationPending(u, pending) ==
  LET v == [u EXCEPT !.operationPending = pending]
      free == Settled(v) /\ ~v.stopPending
      w == [v EXCEPT !.connectOn = free /\ Reachable(v),
                     !.initOn = InitEnabled(v) /\ ~v.stopPending,
                     !.treeOn = v.connected /\ ~v.initializationPending /\ free,
                     !.editorsOn = ~v.acquisitionActive /\ free]
      x == IF w.acquisitionActive THEN w ELSE SetAcquisitionAvailable(w, w.acquisitionAvailable)
      y == SetSoftwareTriggerAvailable(x, x.acquisitionAvailable /\ x.triggerAvailable)
  IN IF pending THEN x
     ELSE IF y.triggerPending THEN SetSoftwareTriggerPending(y, TRUE) ELSE y

(* An empty snapshot leaves no editor. *)
SetFeatures(u, features) ==
  SetSoftwareTriggerAvailable(
    [u EXCEPT !.treeOn = u.connected /\ Settled(u),
              !.editorsOn = features /\ ~u.acquisitionActive /\ ~u.operationPending],
    u.acquisitionAvailable /\ u.triggerAvailable)

(* The constructor, and createDockWidgets with the devices the host discovered. *)
NewWidget(found) ==
  SetDiscoveredDevices(SetConnectionState([f \in Flags \cup Controls |-> FALSE], FALSE), found)

------------------------------------------------------------------------------
(* The controls a user can operate. *)

CanRefresh(u) == u.refreshOn
CanConnect(u) == u.connectOn /\ ~u.connectChecked /\ u.found
CanDisconnect(u) == u.connectOn /\ u.connectChecked
CanSingle(u) == u.singleOn
CanLive(u) == u.liveOn
CanInit(u) ==
  /\ u.initOn /\ u.connected /\ ~u.acquisitionActive
  /\ ~u.initializationPending /\ ~u.operationPending
CanEdit(u) == u.treeOn /\ u.editorsOn
CanTrigger(u) == u.treeOn /\ u.triggerOn
=============================================================================
