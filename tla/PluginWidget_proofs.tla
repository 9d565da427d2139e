-------------------------- MODULE PluginWidget_proofs --------------------------
(***************************************************************************)
(* The control widget shows the device, and every variable of the session  *)
(* keeps its type, for all bounds, clicks, tools and parameter requests.   *)
(*                                                                         *)
(* The device moves on while its statuses wait in the queue of the GUI     *)
(* thread, so the invariants say how far the widget may be behind: ModeInv *)
(* ties the mode of the device to the tasks and the worker that move it,   *)
(* StatusInv the queued statuses to the worker that reported them, and     *)
(* WidgetInv what is shown to both.  TypedInv is for the types.            *)
(***************************************************************************)
EXTENDS PluginSession_proofs

------------------------------------------------------------------------------
(* The setters of the widget. *)

(* What every setter of the widget keeps: an acquisition is shown only where *)
(* one is possible, a trigger is pending only in one, and a session that is  *)
(* not connected shows none.                                                 *)
Coherent(u) ==
  /\ u \in Widget
  /\ u.acquisitionActive => u.acquisitionAvailable
  /\ u.triggerPending => u.acquisitionActive
  /\ ~u.connected => ~u.acquisitionActive /\ ~u.liveChecked /\ ~u.singleOn /\ ~u.liveOn

(* The flags that tell what is under way. *)
Main == {"connected", "connectChecked", "acquisitionActive", "acquisitionAvailable",
         "discoveryPending", "connectionPending", "disconnectionPending",
         "initializationPending", "armPending", "refreshPending"}

(* v shows what u shows, but for the flags in S. *)
Same(u, v, S) == Coherent(v) /\ \A f \in Main \ S : v[f] = u[f]

LEMMA TriggerAvailableSet ==
  ASSUME NEW u, Coherent(u), NEW b
  PROVE  Same(u, SetSoftwareTriggerAvailable(u, b), {})
BY DEF SetSoftwareTriggerAvailable, Widget, Coherent, Same, Flags, Controls, Main

LEMMA AvailableSet ==
  ASSUME NEW u \in Widget, NEW b \in BOOLEAN, b => Coherent(u)
  PROVE  LET v == SetAcquisitionAvailable(u, b)
         IN /\ Same(u, v, {"acquisitionAvailable", "acquisitionActive"})
            /\ v.acquisitionAvailable = b /\ v.acquisitionActive = (u.acquisitionActive /\ b)
<1> DEFINE v == [u EXCEPT !.acquisitionAvailable = b,
                      !.acquisitionActive = @ /\ b,
                      !.continuous = @ /\ b,
                      !.triggerAvailable = @ /\ b,
                      !.triggerPending = @ /\ b,
                      !.liveChecked = @ /\ b]
           on == CaptureEnabled(v)
           w == [v EXCEPT !.singleOn = on /\ ~v.liveChecked, !.liveOn = on, !.liveChecked = @ /\ on]
<1>1. /\ v \in Widget /\ \A f \in Main \ {"acquisitionAvailable", "acquisitionActive"} : v[f] = u[f]
      /\ v.acquisitionAvailable = b /\ v.acquisitionActive = (u.acquisitionActive /\ b)
      /\ (v.liveChecked => u.liveChecked /\ b)
      /\ (v.triggerPending => u.triggerPending /\ b)
  BY DEF Widget, Flags, Controls, Main
<1>2. on => v.connected
  BY DEF CaptureEnabled
<1>3. on \in BOOLEAN
  BY DEF CaptureEnabled
<1>4. SetAcquisitionAvailable(u, b) = SetSoftwareTriggerAvailable(w, v.acquisitionActive /\ on /\ v.triggerAvailable)
  BY DEF SetAcquisitionAvailable
<1> HIDE DEF v, on
<1>5. /\ w \in Widget /\ \A f \in Main : w[f] = v[f]
      /\ w.liveChecked => v.liveChecked
      /\ w.triggerPending = v.triggerPending
      /\ (w.liveOn => on) /\ (w.singleOn => on)
  BY <1>1, <1>3 DEF Widget, Flags, Controls, Main
<1> HIDE DEF w
<1>6. Coherent(w)
  <2>1. /\ w.acquisitionActive = v.acquisitionActive /\ w.acquisitionAvailable = b
        /\ w.connected = u.connected /\ v.connected = u.connected
    BY <1>1, <1>5 DEF Main
  <2>2. w.acquisitionActive => w.acquisitionAvailable
    BY <1>1, <2>1
  <2>3. ASSUME ~w.connected PROVE ~w.acquisitionActive /\ ~w.liveChecked /\ ~w.singleOn /\ ~w.liveOn
    <3>1. ~(u.acquisitionActive /\ b) /\ ~(u.liveChecked /\ b) /\ ~on
      BY <1>2, <2>1, <2>3 DEF Coherent
    <3>2. QED
      BY <1>1, <1>5, <2>1, <3>1
  <2>4. ASSUME w.triggerPending PROVE w.acquisitionActive
    <3>1. u.triggerPending /\ b
      BY <1>1, <1>5, <2>4
    <3>2. QED
      BY <1>1, <2>1, <3>1 DEF Coherent
  <2>5. QED
    BY <1>5, <2>2, <2>3, <2>4 DEF Coherent
<1>7. QED
  BY <1>1, <1>4, <1>5, <1>6, TriggerAvailableSet DEF Same, Main


LEMMA SameTrans ==
  ASSUME NEW u, NEW v, NEW w, NEW S, Same(u, v, S), Same(v, w, {})
  PROVE  Same(u, w, S)
BY DEF Same

LEMMA ConnectionSet ==
  ASSUME NEW u, Coherent(u), NEW c \in BOOLEAN
  PROVE  LET v == SetConnectionState(u, c)
         IN /\ Coherent(v)
            /\ v.connected = c /\ v.connectChecked = c
            /\ ~v.connectionPending /\ ~v.disconnectionPending /\ ~v.armPending
            /\ v.discoveryPending = u.discoveryPending
            /\ (v.initializationPending => u.initializationPending)
            /\ (v.refreshPending => u.refreshPending)
            /\ IF c THEN /\ v.acquisitionActive = u.acquisitionActive
                         /\ v.acquisitionAvailable = u.acquisitionAvailable
                    ELSE ~v.acquisitionActive /\ ~v.acquisitionAvailable
<1> DEFINE p == [u EXCEPT !.connected = c, !.connectionPending = FALSE,
                    !.disconnectionPending = FALSE, !.armPending = FALSE,
                    !.stopPending = FALSE, !.triggerPending = FALSE,
                    !.initializationPending = @ /\ c,
                    !.refreshPending = @ /\ c,
                    !.operationPending = @ /\ c]
           v == [p EXCEPT !.connectChecked = c, !.connectOn = Reachable(p),
              !.refreshOn = ~c, !.initOn = InitEnabled(p),
              !.treeOn = c /\ Settled(p)]
<1>1. /\ p \in Widget
      /\ p.connected = c
      /\ ~p.connectionPending /\ ~p.disconnectionPending /\ ~p.armPending
      /\ p.discoveryPending = u.discoveryPending
      /\ (p.initializationPending => u.initializationPending)
      /\ (p.refreshPending => u.refreshPending)
      /\ p.acquisitionActive = u.acquisitionActive
      /\ p.acquisitionAvailable = u.acquisitionAvailable
      /\ p.liveChecked = u.liveChecked /\ p.singleOn = u.singleOn /\ p.liveOn = u.liveOn
      /\ ~p.triggerPending
  BY DEF Coherent, Widget, Flags, Controls
<1>2. SetConnectionState(u, c) = IF c THEN v ELSE SetAcquisitionAvailable(v, FALSE)
  BY DEF SetConnectionState
<1>3. Reachable(p) \in BOOLEAN /\ InitEnabled(p) \in BOOLEAN
  BY DEF Reachable, InitEnabled
<1> HIDE DEF p
<1>4. /\ v \in Widget /\ \A f \in (Main \cup Controls) \ {"connectChecked", "connectOn", "refreshOn", "initOn", "treeOn"} : v[f] = p[f]
      /\ v.connectChecked = c /\ ~v.triggerPending
  BY <1>1, <1>3 DEF Widget, Flags, Controls, Main
<1> HIDE DEF v
<1>5. /\ v.connected = c
      /\ ~v.connectionPending /\ ~v.disconnectionPending /\ ~v.armPending
      /\ v.discoveryPending = u.discoveryPending
      /\ (v.initializationPending => u.initializationPending)
      /\ (v.refreshPending => u.refreshPending)
      /\ v.acquisitionActive = u.acquisitionActive
      /\ v.acquisitionAvailable = u.acquisitionAvailable
      /\ v.liveChecked = u.liveChecked /\ v.singleOn = u.singleOn /\ v.liveOn = u.liveOn
  BY <1>1, <1>4 DEF Controls, Main
<1>6. CASE c
  <2>1. Coherent(v)
    BY <1>4, <1>5, <1>6 DEF Coherent
  <2>2. QED
    BY <1>2, <1>4, <1>5, <1>6, <2>1
<1>7. CASE ~c
  <2> DEFINE r == SetAcquisitionAvailable(v, FALSE)
  <2>1. /\ Same(v, r, {"acquisitionAvailable", "acquisitionActive"})
        /\ r.acquisitionAvailable = FALSE /\ r.acquisitionActive = (v.acquisitionActive /\ FALSE)
    BY <1>4, AvailableSet
  <2>2. SetConnectionState(u, c) = r
    BY <1>2, <1>7
  <2> HIDE DEF r
  <2>3. QED
    BY <1>4, <1>5, <1>7, <2>1, <2>2 DEF Same, Main
<1>8. QED
  BY <1>6, <1>7

(* Setters that change no flag of these but the one they are named for. *)

LEMMA SameAvailable ==
  ASSUME NEW u, NEW v, NEW S, Same(u, v, S)
  PROVE  Same(u, SetAcquisitionAvailable(v, v.acquisitionAvailable), S)
<1> DEFINE w == SetAcquisitionAvailable(v, v.acquisitionAvailable)
<1>1. Coherent(v) /\ v \in Widget /\ v.acquisitionAvailable \in BOOLEAN /\ v.acquisitionActive \in BOOLEAN
  BY DEF Same, Coherent, Widget, Flags
<1>2. /\ Same(v, w, {"acquisitionAvailable", "acquisitionActive"})
      /\ w.acquisitionAvailable = v.acquisitionAvailable
      /\ w.acquisitionActive = (v.acquisitionActive /\ v.acquisitionAvailable)
  BY <1>1, AvailableSet
<1>3. (v.acquisitionActive /\ v.acquisitionAvailable) = v.acquisitionActive
  BY <1>1 DEF Coherent
<1> HIDE DEF w
<1>4. Same(v, w, {})
  BY <1>2, <1>3 DEF Same, Main
<1>5. QED
  BY <1>4 DEF Same, w

LEMMA ConnectionPendingSet ==
  ASSUME NEW u, Coherent(u)
  PROVE  /\ LET v == SetConnectionPending(u, TRUE)
            IN /\ Same(u, v, {"connectionPending", "acquisitionAvailable", "acquisitionActive"})
               /\ ~v.acquisitionActive
         /\ LET v == SetConnectionPending(u, FALSE)
            IN Same(u, v, {"connectionPending"}) /\ ~v.connectionPending
<1>1. Same(u, SetConnectionPending(u, FALSE), {"connectionPending"}) /\ ~SetConnectionPending(u, FALSE).connectionPending
  BY DEF SetConnectionPending, Same, Coherent, Widget, Flags, Controls, Main
<1> DEFINE v == [u EXCEPT !.connectionPending = TRUE]
           w == [v EXCEPT !.connectOn = FALSE, !.initOn = FALSE, !.refreshOn = FALSE]
           r == SetAcquisitionAvailable(w, FALSE)
<1>2. w \in Widget /\ \A f \in Main \ {"connectionPending"} : w[f] = u[f]
  BY DEF Coherent, Widget, Flags, Controls, Main
<1>3. SetConnectionPending(u, TRUE) = r
  BY DEF SetConnectionPending
<1> HIDE DEF w
<1>4. Same(w, r, {"acquisitionAvailable", "acquisitionActive"}) /\ r.acquisitionActive = (w.acquisitionActive /\ FALSE)
  BY <1>2, AvailableSet
<1> HIDE DEF r
<1>5. QED
  BY <1>1, <1>2, <1>3, <1>4 DEF Same

LEMMA DisconnectionPendingSet ==
  ASSUME NEW u, Coherent(u)
  PROVE  Same(u, SetDisconnectionPending(u), {"disconnectionPending"})
BY DEF SetDisconnectionPending, Same, Coherent, Widget, Flags, Controls, Main

LEMMA DiscoverySet ==
  ASSUME NEW u, Coherent(u), NEW b \in BOOLEAN
  PROVE  /\ Same(u, SetDiscoveryPending(u, b), {"discoveryPending"})
         /\ SetDiscoveryPending(u, b).discoveryPending = b
         /\ Same(u, SetDiscoveredDevices(u, b), {})
<1>1. \A v : Connectable(v) \in BOOLEAN
  BY DEF Connectable
<1>2. /\ Same(u, SetDiscoveryPending(u, b), {"discoveryPending"})
      /\ SetDiscoveryPending(u, b).discoveryPending = b
  BY <1>1 DEF SetDiscoveryPending, Same, Coherent, Widget, Flags, Controls, Main
<1>3. Same(u, SetDiscoveredDevices(u, b), {})
  BY <1>1 DEF SetDiscoveredDevices, Same, Coherent, Widget, Flags, Controls, Main
<1>4. QED
  BY <1>2, <1>3

LEMMA InitializationSet ==
  ASSUME NEW u, Coherent(u)
  PROVE  /\ Same(u, InitializationEnded(u), {"initializationPending"})
         /\ ~InitializationEnded(u).initializationPending
         /\ Same(u, InitializationBegun(u), {"initializationPending"})
<1> DEFINE v == [u EXCEPT !.initializationPending = FALSE]
           e == [v EXCEPT !.treeOn = Settled(v), !.initOn = InitEnabled(v),
                 !.connectOn = ~v.armPending /\ (v.connectChecked \/ v.found)]
           b == [u EXCEPT !.initializationPending = TRUE, !.treeOn = FALSE, !.connectOn = FALSE,
              !.initOn = FALSE]
<1>1. \A x : Settled(x) \in BOOLEAN /\ InitEnabled(x) \in BOOLEAN
  BY DEF Settled, InitEnabled
<1>2. Same(u, v, {"initializationPending"}) /\ ~v.initializationPending
  BY DEF Same, Coherent, Widget, Flags, Controls, Main
<1>3. Same(u, b, {"initializationPending"}) /\ b.acquisitionAvailable = u.acquisitionAvailable
  BY DEF Same, Coherent, Widget, Flags, Controls, Main
<1>4. /\ InitializationEnded(u) = SetAcquisitionAvailable(e, v.acquisitionAvailable)
      /\ InitializationBegun(u) = SetAcquisitionAvailable(b, u.acquisitionAvailable)
  BY DEF InitializationEnded, InitializationBegun
<1> HIDE DEF v, b
<1>5. Same(v, e, {}) /\ e.acquisitionAvailable = v.acquisitionAvailable
  BY <1>1, <1>2 DEF Same, Coherent, Widget, Flags, Controls, Main
<1> HIDE DEF e
<1>6. Same(v, InitializationEnded(u), {})
  BY <1>4, <1>5, SameAvailable
<1>7. Same(u, InitializationBegun(u), {"initializationPending"})
  BY <1>3, <1>4, SameAvailable
<1>8. QED
  BY <1>2, <1>6, <1>7 DEF Same, Main

LEMMA TriggerAvailableSame ==
  ASSUME NEW u, NEW v, NEW S, Same(u, v, S), NEW b
  PROVE  Same(u, SetSoftwareTriggerAvailable(v, b), S)
<1> DEFINE w == SetSoftwareTriggerAvailable(v, b)
<1>1. Coherent(v)
  BY DEF Same
<1>2. Same(v, w, {})
  BY <1>1, TriggerAvailableSet
<1> HIDE DEF w
<1>3. QED
  BY <1>2 DEF Same, w

LEMMA StopPendingSet ==
  ASSUME NEW u, Coherent(u)
  PROVE  Same(u, SetAcquisitionStopPending(u), {})
<1> DEFINE v == [u EXCEPT !.stopPending = TRUE, !.triggerPending = FALSE, !.connectOn = FALSE,
                   !.initOn = FALSE, !.singleOn = FALSE, !.liveOn = FALSE, !.treeOn = FALSE]
<1>1. Same(u, v, {}) /\ Same(u, u, {})
  BY DEF Same, Coherent, Widget, Flags, Controls, Main
<1>2. SetAcquisitionStopPending(u) \in {u, SetSoftwareTriggerAvailable(v, FALSE)}
  BY DEF SetAcquisitionStopPending
<1> HIDE DEF v
<1>3. QED
  BY <1>1, <1>2, TriggerAvailableSame

LEMMA TriggerPendingSet ==
  ASSUME NEW u, Coherent(u), NEW b
  PROVE  Same(u, SetSoftwareTriggerPending(u, b), {})
<1> DEFINE next == b /\ u.acquisitionActive /\ u.triggerAvailable
           v == [u EXCEPT !.triggerPending = next]
<1>1. next \in BOOLEAN /\ (next => u.acquisitionActive)
  OBVIOUS
<1>2. SetSoftwareTriggerPending(u, b) \in {u, SetSoftwareTriggerAvailable(v, u.triggerAvailable)}
  BY DEF SetSoftwareTriggerPending
<1> HIDE DEF next
<1>3. Same(u, v, {}) /\ Same(u, u, {})
  BY <1>1 DEF Same, Coherent, Widget, Flags, Controls, Main
<1> HIDE DEF v
<1>4. QED
  BY <1>2, <1>3, TriggerAvailableSame


LEMMA StateSet ==
  ASSUME NEW u, Coherent(u), NEW a \in BOOLEAN, NEW c, NEW t
  PROVE  LET v == SetAcquisitionState(u, a, c, t)
         IN /\ Same(u, v, {"acquisitionActive"})
            /\ IF StateIgnored(u, a) THEN v = u ELSE v.acquisitionActive = a
<1> DEFINE v == [u EXCEPT !.stopPending = FALSE,
                          !.triggerPending = @ /\ a /\ u.acquisitionActive,
                          !.acquisitionActive = a,
                          !.continuous = a /\ c,
                          !.triggerAvailable = a /\ t]
           free == ~v.initializationPending /\ Settled(v)
           on == v.acquisitionAvailable /\ free
           editors == ~a /\ Settled(v)
           init == InitEnabled(v)
           live == a /\ c
           w == [v EXCEPT !.connectOn = free, !.treeOn = free,
                      !.editorsOn = editors,
                      !.initOn = init,
                      !.liveChecked = live,
                      !.singleOn = on /\ ~(live),
                      !.liveOn = on /\ (a => c)]
           r == SetSoftwareTriggerAvailable(w, v.triggerAvailable)
<1>1. CASE StateIgnored(u, a)
  <2>1. SetAcquisitionState(u, a, c, t) = u
    BY <1>1 DEF SetAcquisitionState
  <2>2. Same(u, u, {"acquisitionActive"})
    BY DEF Same
  <2>3. QED
    BY <1>1, <2>1, <2>2
<1>2. CASE ~StateIgnored(u, a)
  <2>1. u.connected /\ (a => u.acquisitionAvailable)
    BY <1>2 DEF StateIgnored, Coherent, Widget, Flags
  <2>2. SetAcquisitionState(u, a, c, t) = r
    BY <1>2 DEF SetAcquisitionState
  <2>3. /\ v \in Widget /\ \A f \in Main \ {"acquisitionActive"} : v[f] = u[f]
        /\ v.acquisitionActive = a /\ (v.triggerPending => a)
    BY DEF Coherent, Widget, Flags, Controls, Main
  <2>4. free \in BOOLEAN /\ editors \in BOOLEAN /\ init \in BOOLEAN /\ live \in BOOLEAN
    BY DEF Settled, InitEnabled
  <2> HIDE DEF v, free, editors, init, live
  <2>5. w \in Widget /\ w.triggerPending = v.triggerPending /\ \A f \in Main : w[f] = v[f]
    BY <2>3, <2>4 DEF Widget, Flags, Controls, Main
  <2> HIDE DEF w
  <2>6. /\ w.connected = u.connected /\ w.acquisitionAvailable = u.acquisitionAvailable
        /\ w.acquisitionActive = a /\ (w.triggerPending => a)
    BY <2>3, <2>5 DEF Main
  <2>7. Coherent(w)
    BY <2>1, <2>5, <2>6 DEF Coherent
  <2>8. Same(w, r, {})
    BY <2>7, TriggerAvailableSet
  <2> HIDE DEF r
  <2>9. Same(u, r, {"acquisitionActive"}) /\ r.acquisitionActive = a
    BY <2>3, <2>5, <2>6, <2>8 DEF Same, Main
  <2>10. QED
    BY <1>2, <2>2, <2>9
<1>3. QED
  BY <1>1, <1>2

LEMMA ArmSet ==
  ASSUME NEW u, Coherent(u), NEW c \in BOOLEAN
  PROVE  /\ Same(u, ArmBegun(u, c), {"armPending"})
         /\ Same(u, ArmEnded(u), {"armPending"}) /\ ~ArmEnded(u).armPending
<1>1. Same(u, ArmBegun(u, c), {"armPending"})
  <2> DEFINE v == [u EXCEPT !.armPending = TRUE, !.continuous = c, !.connectOn = FALSE,
              !.initOn = FALSE, !.singleOn = FALSE, !.liveOn = FALSE, !.treeOn = FALSE,
              !.editorsOn = FALSE]
  <2>1. Same(u, v, {"armPending"})
    BY DEF Same, Coherent, Widget, Flags, Controls, Main
  <2>2. ArmBegun(u, c) = SetSoftwareTriggerAvailable(v, FALSE)
    BY DEF ArmBegun
  <2> HIDE DEF v
  <2>3. QED
    BY <2>1, <2>2, TriggerAvailableSame
<1>2. Same(u, ArmEnded(u), {"armPending"}) /\ ~ArmEnded(u).armPending
  <2> DEFINE v == [u EXCEPT !.armPending = FALSE]
             w == [v EXCEPT !.liveChecked = FALSE, !.continuous = FALSE]
             x == [w EXCEPT !.connectOn = Reachable(w), !.initOn = InitEnabled(w),
                        !.treeOn = w.connected /\ ~w.initializationPending /\ Settled(w),
                        !.editorsOn = Settled(w)]
             y == SetAcquisitionState(v, TRUE, v.continuous, v.triggerAvailable)
             z == SetAcquisitionAvailable(x, w.acquisitionAvailable)
  <2>1. ArmEnded(u) = IF u.acquisitionActive THEN y ELSE z
    BY DEF ArmEnded
  <2>2. Same(u, v, {"armPending"}) /\ ~v.armPending /\ v.acquisitionActive = u.acquisitionActive
    BY DEF Same, Coherent, Widget, Flags, Controls, Main
  <2>3. CASE u.acquisitionActive
    <3> HIDE DEF v
    <3>1. Same(v, y, {"acquisitionActive"}) /\ (y = v \/ y.acquisitionActive = TRUE)
      <4>1. Coherent(v) /\ TRUE \in BOOLEAN
        BY <2>2 DEF Same
      <4>2. /\ Same(v, y, {"acquisitionActive"})
            /\ IF StateIgnored(v, TRUE) THEN y = v ELSE y.acquisitionActive = TRUE
        BY <4>1, StateSet
      <4>3. QED
        BY <4>2
    <3> HIDE DEF y
    <3>2. Same(v, y, {})
      <4>1. v.acquisitionActive = TRUE
        BY <2>2, <2>3 DEF Same, Coherent, Widget, Flags
      <4>2. y.acquisitionActive = v.acquisitionActive
        BY <3>1, <4>1
      <4>3. QED
        BY <3>1, <4>2 DEF Same
    <3>3. QED
      BY <2>1, <2>2, <2>3, <3>2 DEF Same, Main
  <2>4. CASE ~u.acquisitionActive
    <3> HIDE DEF v
    <3>1. Same(v, w, {}) /\ w.acquisitionAvailable = v.acquisitionAvailable
      BY <2>2 DEF Same, Coherent, Widget, Flags, Controls, Main
    <3> HIDE DEF w
    <3>2. \A a : Settled(a) \in BOOLEAN /\ InitEnabled(a) \in BOOLEAN /\ Reachable(a) \in BOOLEAN
      BY DEF Settled, InitEnabled, Reachable
    <3>3. Same(w, x, {}) /\ x.acquisitionAvailable = w.acquisitionAvailable
      BY <3>1, <3>2 DEF Same, Coherent, Widget, Flags, Controls, Main
    <3> HIDE DEF x
    <3>4. Same(w, z, {})
      BY <3>3, SameAvailable
    <3> HIDE DEF z
    <3>5. QED
      BY <2>1, <2>2, <2>4, <3>1, <3>4 DEF Same, Main
  <2>5. QED
    BY <2>3, <2>4
<1>3. QED
  BY <1>1, <1>2

LEMMA FeatureSet ==
  ASSUME NEW u, Coherent(u), NEW b \in BOOLEAN
  PROVE  /\ Same(u, SetFeatureRefreshPending(u, b), {"refreshPending"})
         /\ SetFeatureRefreshPending(u, b).refreshPending = b
         /\ Same(u, SetFeatureOperationPending(u, b), {})
         /\ Same(u, SetFeatures(u, b), {})
<1>0. \A a : /\ Settled(a) \in BOOLEAN /\ InitEnabled(a) \in BOOLEAN /\ Reachable(a) \in BOOLEAN
  BY DEF Settled, InitEnabled, Reachable
<1>1. Same(u, SetFeatureRefreshPending(u, b), {"refreshPending"}) /\ SetFeatureRefreshPending(u, b).refreshPending = b
  <2> DEFINE v == [u EXCEPT !.refreshPending = b]
             x == [v EXCEPT !.connectOn = ~b /\ ~v.armPending /\ Reachable(v),
                       !.initOn = InitEnabled(v),
                       !.treeOn = v.connected /\ ~v.initializationPending /\ Settled(v),
                       !.editorsOn = ~v.acquisitionActive /\ Settled(v)]
             w == SetAcquisitionAvailable(x, v.acquisitionAvailable)
             y == SetSoftwareTriggerAvailable(w, w.triggerAvailable)
  <2>1. SetFeatureRefreshPending(u, b) = y
    BY DEF SetFeatureRefreshPending
  <2>2. Same(u, v, {"refreshPending"}) /\ v.refreshPending = b
    BY DEF Same, Coherent, Widget, Flags, Controls, Main
  <2> HIDE DEF v
  <2>3. Same(v, x, {}) /\ x.acquisitionAvailable = v.acquisitionAvailable
    BY <1>0, <2>2 DEF Same, Coherent, Widget, Flags, Controls, Main
  <2> HIDE DEF x
  <2>4. Same(v, w, {})
    BY <2>3, SameAvailable
  <2> HIDE DEF w
  <2>5. Same(v, y, {})
    BY <2>4, TriggerAvailableSame
  <2> HIDE DEF y
  <2>6. QED
    BY <2>1, <2>2, <2>5 DEF Same, Main
<1>2. Same(u, SetFeatureOperationPending(u, b), {})
  <2> DEFINE v == [u EXCEPT !.operationPending = b]
             free == Settled(v) /\ ~v.stopPending
             w == [v EXCEPT !.connectOn = free /\ Reachable(v),
                     !.initOn = InitEnabled(v) /\ ~v.stopPending,
                     !.treeOn = v.connected /\ ~v.initializationPending /\ free,
                     !.editorsOn = ~v.acquisitionActive /\ free]
             x == IF w.acquisitionActive THEN w ELSE SetAcquisitionAvailable(w, w.acquisitionAvailable)
             y == SetSoftwareTriggerAvailable(x, x.acquisitionAvailable /\ x.triggerAvailable)
             z == SetSoftwareTriggerPending(y, TRUE)
  <2>1. SetFeatureOperationPending(u, b) \in {x, y, z}
    BY DEF SetFeatureOperationPending
  <2>2. Same(u, v, {})
    BY DEF Same, Coherent, Widget, Flags, Controls, Main
  <2>3. free \in BOOLEAN
    OBVIOUS
  <2> HIDE DEF v, free
  <2>4. Same(v, w, {})
    BY <1>0, <2>2, <2>3 DEF Same, Coherent, Widget, Flags, Controls, Main
  <2> HIDE DEF w
  <2>5. Same(v, x, {})
    BY <2>4, SameAvailable
  <2> HIDE DEF x
  <2>6. Same(v, y, {})
    BY <2>5, TriggerAvailableSame
  <2> HIDE DEF y
  <2>7. Same(y, z, {})
    BY <2>6, TriggerPendingSet DEF Same
  <2> HIDE DEF z
  <2>8. QED
    BY <2>1, <2>2, <2>5, <2>6, <2>7 DEF Same
<1>3. Same(u, SetFeatures(u, b), {})
  <2> DEFINE v == [u EXCEPT !.treeOn = u.connected /\ Settled(u),
              !.editorsOn = b /\ ~u.acquisitionActive /\ ~u.operationPending]
  <2>1. Same(u, v, {})
    BY <1>0 DEF Same, Coherent, Widget, Flags, Controls, Main
  <2>2. SetFeatures(u, b) = SetSoftwareTriggerAvailable(v, u.acquisitionAvailable /\ u.triggerAvailable)
    BY DEF SetFeatures
  <2> HIDE DEF v
  <2>3. QED
    BY <2>1, <2>2, TriggerAvailableSame
<1>4. QED
  BY <1>1, <1>2, <1>3

LEMMA ControlSet ==
  ASSUME NEW u, Coherent(u), NEW b \in BOOLEAN
  PROVE  /\ Same(u, [u EXCEPT !.refreshOn = b], {})
         /\ Same(u, [u EXCEPT !.connectChecked = b], {"connectChecked"})
         /\ (b => u.connected) => Same(u, [u EXCEPT !.liveChecked = b], {})
<1>1. Same(u, [u EXCEPT !.refreshOn = b], {})
  BY DEF Same, Coherent, Widget, Flags, Controls, Main
<1>2. Same(u, [u EXCEPT !.connectChecked = b], {"connectChecked"})
  BY DEF Same, Coherent, Widget, Flags, Controls, Main
<1>3. (b => u.connected) => Same(u, [u EXCEPT !.liveChecked = b], {})
  BY DEF Same, Coherent, Widget, Flags, Controls, Main
<1>4. QED
  BY <1>1, <1>2, <1>3

LEMMA NewWidgetShows ==
  LET u == NewWidget(TRUE)
  IN /\ Coherent(u) /\ \A f \in Main : ~u[f]
<1> DEFINE e == [f \in Flags \cup Controls |-> FALSE]
           v == SetConnectionState(e, FALSE)
<1>1. Coherent(e) /\ \A f \in Main : e[f] = FALSE
  BY DEF Coherent, Widget, Flags, Controls, Main
<1> HIDE DEF e
<1>2. Coherent(v) /\ \A f \in Main : ~v[f]
  <2>1. FALSE \in BOOLEAN
    OBVIOUS
  <2>2. /\ Coherent(v) /\ v.connected = FALSE /\ v.connectChecked = FALSE
        /\ ~v.connectionPending /\ ~v.disconnectionPending /\ ~v.armPending
        /\ v.discoveryPending = e.discoveryPending
        /\ (v.initializationPending => e.initializationPending)
        /\ (v.refreshPending => e.refreshPending)
        /\ ~v.acquisitionActive /\ ~v.acquisitionAvailable
    BY <1>1, <2>1, ConnectionSet
  <2> HIDE DEF v
  <2>3. QED
    BY <1>1, <2>2 DEF Main
<1> HIDE DEF v
<1>3. Same(v, SetDiscoveredDevices(v, TRUE), {})
  BY <1>2, DiscoverySet
<1>4. NewWidget(TRUE) = SetDiscoveredDevices(v, TRUE)
  BY DEF NewWidget, v, e
<1>5. QED
  BY <1>2, <1>3, <1>4 DEF Same

------------------------------------------------------------------------------

(* The modes of the device and the phases of its worker go together. *)
ModeInv ==
  /\ mode \in D!Modes /\ worker.phase \in WorkerPhases
  /\ mode = "armed" <=> worker.phase \in {"held", "running", "leaving"}
  /\ mode = "arming" <=> task["arm"] = "setup"
  /\ mode = "initializing" <=> task["initialization"] = "profile"
  /\ mode = "closed" => worker.phase = "none"
  /\ isGrabbing => worker.phase \in {"held", "running", "leaving", "ended"}
  /\ task["arm"] \in {"setup", "failed"} => worker.phase = "none"
  /\ task["disconnection"] \in {"stopped", "closing", "done"} => worker.phase = "none"

(* The event of the status that was reported last. *)
Fresh(e) == e.kind = "acquisition" /\ e.generation = statusGeneration
Ending(e) == Fresh(e) /\ ~e.active

(* The arm is finished only after the event at i. *)
BeforeArm(q, i) == \A j \in 1..Len(q) : q[j].kind = "finished" /\ q[j].task = "arm" => i < j

(* A failed start is told before its arm is finished. *)
FailuresFirst(q) == \A i \in 1..Len(q) : q[i].kind = "start failed" => BeforeArm(q, i)

(* What a queued event says of the worker, as long as the GUI thread reads it. *)
Told(e) ==
  /\ Fresh(e) => IF e.active THEN worker.phase \in {"running", "leaving", "ended", "telling"}
                             ELSE worker.phase \in {"none", "held"}
  /\ e.kind = "start failed" => task["arm"] = "done" /\ worker.phase = "none"

(* Queued statuses that are not stale agree with the worker, and a session   *)
(* without a widget has none.                                                *)
StatusInv ==
  Alive =>
    /\ \A e \in Events(queue) : Told(e)
    /\ FailuresFirst(queue)
    /\ ~session.widget => queue = <<>>
    /\ gui = "rest" =>
         /\ queue # <<>> /\ Head(queue).kind = "acquisition" /\ ~Head(queue).active
         /\ "arm" \in session.watchers \/ worker.phase = "none"

(* A pending flag of the widget waits for a watcher; x = "initialization"    *)
(* where that watcher is gone and its flag is about to be cleared.           *)
Pendings(s, x) ==
  /\ s.ui.discoveryPending => "discovery" \in s.watchers
  /\ s.ui.connectionPending => "connection" \in s.watchers
  /\ s.ui.disconnectionPending => s.disconnectPending \/ "disconnection" \in s.watchers
  /\ s.ui.initializationPending =>
       \/ x = "initialization" \/ "initialization" \in s.watchers
       \/ "featureRead" \in s.watchers /\ s.refreshFor \in {"initialized", "profile failed"}
  /\ s.ui.armPending => "arm" \in s.watchers
  /\ s.ui.refreshPending => "featureRead" \in s.watchers

(* The device is where each watcher left it. *)
Works(s) ==
  /\ worker.phase = "held" => "arm" \in s.watchers
  /\ "connection" \in s.watchers =>
       /\ mode \in {"closed", "ready"} /\ worker.phase = "none"
       /\ task["connection"] = "idle" => mode = "closed"
  /\ "featureRead" \in s.watchers => mode \notin {"closed", "fault"} /\ worker.phase \in {"none", "telling"}
  /\ "initialization" \in s.watchers => mode # "closed" /\ worker.phase \in {"none", "telling"}

(* The connection is about to change, so the widget may show the last one. *)
Moving(s) ==
  s.disconnectPending \/ "connection" \in s.watchers \/ "disconnection" \in s.watchers

EndKnown(q) == \E e \in Events(q) : Ending(e)

ErrorKnown(q) ==
  \/ worker.phase \in {"ended", "telling"} /\ worker.error
  \/ \E e \in Events(q) : Ending(e) /\ e.error

(* Only a fault may be shown late, and then its error is still to come. *)
AvailableShown(u, known) ==
  /\ mode \notin {"closed", "fault"} => u.acquisitionAvailable
  /\ mode = "closed" => ~u.acquisitionAvailable
  /\ mode = "fault" /\ u.acquisitionAvailable => known

(* The event that shows the start is handled before the arm is finished. *)
StartAt(q, g, n) ==
  \E i \in 1..Len(q) :
    /\ q[i].kind = "acquisition" /\ q[i].generation = n /\ q[i].active
    /\ (g = "rest" => i > 1) /\ BeforeArm(q, i)

StartQueued(q, g) == StartAt(q, g, statusGeneration)

(* What is shown of the acquisition is true, or the status that corrects it  *)
(* is still to come.                                                         *)
ActiveShown(s, q, g) ==
  /\ worker.phase \in {"none", "held"} /\ s.ui.acquisitionActive => EndKnown(q)
  /\ worker.phase \in {"running", "leaving"} =>
       \/ s.ui.acquisitionActive /\ ("arm" \in s.watchers => g # "rest")
       \/ "arm" \in s.watchers /\ StartQueued(q, g)

Shows(s, q, g) ==
  /\ s.ui.connected <=> IsOpened
  /\ s.ui.connectChecked <=> IsOpened
  /\ AvailableShown(s.ui, ErrorKnown(q))
  /\ ActiveShown(s, q, g)

(* The widget of s, with the events q still to come, fits the device. *)
Fit(s, q, g, x) ==
  /\ Works(s)
  /\ s.widget =>
       /\ Pendings(s, x)
       /\ "connection" \in s.watchers => ~s.ui.acquisitionActive
       /\ Moving(s) \/ Shows(s, q, g)

(* What a task leaves for its watcher. *)
Outcomes ==
  /\ task["connection"] = "done" /\ ~succeeded["connection"] => mode = "closed"
  /\ task["initialization"] = "done" /\ succeeded["initialization"] => mode # "fault"

(* While the session lives, the widget shows the device or is about to. *)
WidgetInv == Alive => Outcomes /\ Fit(session, queue, gui, "none")

------------------------------------------------------------------------------
(* The steps of the GUI thread leave the device alone. *)
GuiMove == UserStep \/ HostStep \/ AdmitTool \/ RefuseTool \/ Handles \/ Ends

LEMMA EndsFinish ==
  ASSUME TaskInv, Ends
  PROVE  \E w \in Watchers :
           /\ Finish(w) /\ task[w] = "done" /\ w \in session.watchers
           /\ \A v \in Watchers : task'[v] = IF v = w THEN "idle" ELSE task[v]
<1>1. PICK w \in Watchers : Finish(w)
  BY DEF Ends, FinishDiscovery, FinishConnection, FinishDisconnection, FinishInitialization,
     FinishFeature, FinishFeatureRead, FinishArm, Watchers
<1>2. task' = [task EXCEPT ![w] = "idle"]
  BY <1>1 DEF Finish
<1>3. task[w] = "done" /\ w \in session.watchers
  BY <1>1, FinishedDone
<1>4. QED
  BY <1>1, <1>2, <1>3 DEF TaskInv

LEMMA GuiMoves ==
  ASSUME TaskInv, CallInv, GuiMove
  PROVE  /\ Alive /\ gui' \in {"idle", "rest", "wait"}
         /\ UNCHANGED <<mode, streaming, worker, controller, history>>
         /\ \A w \in Watchers : task'[w] = task[w] \/ (task[w] = "done" /\ task'[w] = "idle")
<1>1. CASE UserStep
  BY <1>1 DEF UserStep, Click, ClickRefresh, ClickConnect, ClickDisconnect, ClickSingle, ToggleLive,
     ClickInit, EditFeature, ClickTrigger, DestroyWidget, DestroySession, GuiFree, Alive, device, pool
<1>2. CASE HostStep
  BY <1>2 DEF HostStep, StopNothing, AskTool, NewCall, RequestParameter, MayRequest, Alive, device, pool
<1>3. CASE AdmitTool \/ RefuseTool
  BY <1>3 DEF AdmitTool, RefuseTool, CallInv, Alive, device, pool
<1>4. CASE Handles
  BY <1>4 DEF Handles, HandleRefresh, HandleControl, HandleApplied, HandleFrame, HandleStale,
     HandleActive, HandleInactive, HandleStartFailed, HandleEnd, HandleRest, Handle, Keep,
     GuiFree, Alive, device, pool
<1>5. CASE Ends
  <2>1. PICK w \in Watchers : /\ Finish(w) /\ task[w] = "done"
                              /\ \A v \in Watchers : task'[v] = IF v = w THEN "idle" ELSE task[v]
    BY <1>5, EndsFinish
  <2>2. GuiFree /\ gui' = gui /\ UNCHANGED <<mode, streaming, worker, controller, history>>
    BY <2>1 DEF Finish, Handle, device
  <2>3. QED
    BY <2>1, <2>2 DEF GuiFree, Alive
<1>6. QED
  BY <1>1, <1>2, <1>3, <1>4, <1>5 DEF GuiMove

LEMMA TaskSet ==
  ASSUME TaskInv, NEW w \in Watchers, NEW p, task' = [task EXCEPT ![w] = p]
  PROVE  \A v \in Watchers : task'[v] = IF v = w THEN p ELSE task[v]
BY DEF TaskInv

(* A task that neither arms, initializes nor disconnects. *)
LEMMA ModePool ==
  ASSUME Inv, TaskInv, DeviceInv, ModeInv, PoolStep
  PROVE  ModeInv'
<1> USE DEF DeviceInv
<1>1. {"arm", "initialization", "disconnection", "connection", "discovery", "feature", "featureRead"}
        \subseteq Watchers
  BY DEF Watchers
<1>2. ASSUME NEW w \in Watchers, Running(w)
      PROVE  \A v \in Watchers : v # w => task[v] = "idle"
  BY <1>2, Alone
<1>3. ASSUME NEW w \in Watchers, NEW p, ToPhase(w, p)
      PROVE  \A v \in Watchers : task'[v] = IF v = w THEN p ELSE task[v]
  BY <1>3, TaskSet DEF ToPhase
<1>4. ASSUME NEW w \in Watchers, NEW ok, NEW posts, Returns(w, ok, posts)
      PROVE  \A v \in Watchers : task'[v] = IF v = w THEN "done" ELSE task[v]
  BY <1>4, TaskSet DEF Returns
<1>5. CASE RunDiscovery \/ RunFeature \/ ReadFeatures
  <2>1. PICK w \in {"discovery", "feature", "featureRead"} :
          /\ Running(w) /\ \E ok \in BOOLEAN : Returns(w, ok, <<>>)
          /\ UNCHANGED <<mode, worker, controller>>
    BY <1>5 DEF RunDiscovery, RunFeature, ReadFeatures, Running, DeviceIdle, SameAcquisition
  <2>2. \A v \in Watchers : task'[v] = IF v = w THEN "done" ELSE task[v]
    BY <1>1, <1>4, <2>1
  <2>3. QED
    BY <1>1, <2>1, <2>2 DEF ModeInv, controller
<1>6. CASE OpenDevice \/ ReportConnection
  <2>1. /\ mode' = mode \/ D!Open
        /\ worker' = worker /\ isGrabbing' = isGrabbing
        /\ \E p : ToPhase("connection", p) \/ \E ok, posts : Returns("connection", ok, posts)
    BY <1>6 DEF OpenDevice, ReportConnection, DeviceIdle, SameAcquisition, controller
  <2>2. \A v \in Watchers : v # "connection" => task'[v] = task[v]
    BY <1>1, <1>3, <1>4, <2>1
  <2>3. mode' = mode \/ (mode = "closed" /\ mode' = "ready")
    BY <2>1 DEF D!Open, D!Become
  <2>4. QED
    BY <1>1, <2>1, <2>2, <2>3 DEF ModeInv, D!Modes
<1>7. CASE StopForDisconnect \/ JoinForDisconnect \/ CloseDevice \/ ReleaseDevice
  <2>1. Running("disconnection")
    BY <1>7 DEF StopForDisconnect, JoinForDisconnect, CloseDevice, ReleaseDevice, Running, TaskAt, TaskPhases
  <2>2. task["arm"] = "idle" /\ task["initialization"] = "idle"
    BY <1>1, <1>2, <2>1
  <2> DEFINE Moves(p) ==
        /\ ToPhase("disconnection", p) \/ (p = "done" /\ \E ok, posts : Returns("disconnection", ok, posts))
        /\ p = "stopping" \/ worker.phase = "none"
  <2>3. /\ worker' = worker /\ (isGrabbing' => isGrabbing)
        /\ mode' = mode \/ D!Close \/ D!Release
    <3>1. CASE StopForDisconnect
      BY <3>1 DEF StopForDisconnect, DeviceIdle, controller
    <3>2. CASE JoinForDisconnect
      BY <3>2 DEF JoinForDisconnect, DeviceIdle, SameAcquisition, ClearFlags
    <3>3. CASE CloseDevice
      BY <3>3 DEF CloseDevice, DeviceIdle, SameAcquisition, controller
    <3>4. CASE ReleaseDevice
      BY <3>4 DEF ReleaseDevice, SameAcquisition
    <3>5. QED
      BY <1>7, <3>1, <3>2, <3>3, <3>4
  <2>9. \E p : Moves(p)
    <3>1. CASE StopForDisconnect \/ JoinForDisconnect
      <4>1. Moves("stopping") \/ Moves("stopped")
        BY <3>1 DEF StopForDisconnect, JoinForDisconnect
      <4>2. QED
        BY <4>1
    <3>2. CASE CloseDevice \/ ReleaseDevice
      <4>1. worker.phase = "none"
        BY <3>2 DEF CloseDevice, ReleaseDevice, TaskAt, ModeInv
      <4>2. ToPhase("disconnection", "closing") \/ \E ok, posts : Returns("disconnection", ok, posts)
        BY <3>2 DEF CloseDevice, ReleaseDevice
      <4>3. Moves("closing") \/ Moves("done")
        BY <4>1, <4>2
      <4>4. QED
        BY <4>3
    <3>3. QED
      BY <1>7, <3>1, <3>2
  <2>7. PICK p : Moves(p)
    BY <2>9
  <2>8. \A v \in Watchers : task'[v] = IF v = "disconnection" THEN p ELSE task[v]
    BY <1>1, <1>3, <1>4, <2>7
  <2>4. p = "stopping" \/ worker.phase = "none"
    BY <2>7
  <2>5. mode' = mode \/ (mode \in {"ready", "fault"} /\ mode' = "closed" /\ worker.phase = "none")
    <3>1. CASE StopForDisconnect \/ JoinForDisconnect
      BY <3>1 DEF StopForDisconnect, JoinForDisconnect, DeviceIdle
    <3>2. CASE CloseDevice \/ ReleaseDevice
      <4>1. worker.phase = "none"
        BY <3>2 DEF CloseDevice, ReleaseDevice, TaskAt, ModeInv
      <4>2. QED
        BY <2>3, <4>1 DEF D!Close, D!Release, D!Become
    <3>3. QED
      BY <1>7, <3>1, <3>2
  <2>6. QED
    BY <1>1, <2>2, <2>3, <2>4, <2>5, <2>8 DEF ModeInv, D!Modes
<1>8. CASE BeginProfile \/ EndProfile
  <2>1. Running("initialization") /\ worker' = worker /\ isGrabbing' = isGrabbing
    BY <1>8 DEF BeginProfile, EndProfile, Running, TaskAt, TaskPhases, SameAcquisition, controller
  <2>2. task["arm"] = "idle" /\ task["disconnection"] = "idle"
    BY <1>1, <1>2, <2>1
  <2>3. \/ D!BeginInitialization /\ ToPhase("initialization", "profile")
        \/ /\ task["initialization"] = "idle" /\ mode' = mode
           /\ \E ok, posts : Returns("initialization", ok, posts)
        \/ D!EndInitialization /\ \E ok, posts : Returns("initialization", ok, posts)
    BY <1>8 DEF BeginProfile, EndProfile, DeviceIdle, Queued
  <2>4. PICK p : /\ \A v \in Watchers : task'[v] = IF v = "initialization" THEN p ELSE task[v]
                 /\ \/ mode = "ready" /\ mode' = "initializing" /\ p = "profile"
                    \/ task["initialization"] = "idle" /\ mode' = mode /\ p = "done"
                    \/ mode = "initializing" /\ mode' = "ready" /\ p = "done"
    BY <1>1, <1>3, <1>4, <2>3 DEF D!BeginInitialization, D!EndInitialization, D!Become
  <2>5. QED
    BY <1>1, <2>1, <2>2, <2>4 DEF ModeInv, D!Modes
<1>9. CASE StartArm \/ BeginArming \/ SetUpArming \/ FailArming \/ ReportGrabbing \/ ReturnArmed
  <2>1. Running("arm") /\ worker' = worker
    BY <1>9 DEF StartArm, BeginArming, SetUpArming, FailArming, ReportGrabbing, ReturnArmed,
       Running, TaskAt, TaskPhases, SameAcquisition
  <2>2. task["initialization"] = "idle" /\ task["disconnection"] = "idle"
    BY <1>1, <1>2, <2>1
  <2> DEFINE Moves(p) ==
        /\ ToPhase("arm", p) \/ (p = "done" /\ \E ok, posts : Returns("arm", ok, posts))
        /\ \/ /\ mode' = mode /\ (isGrabbing' => isGrabbing)
              /\ task["arm"] # "setup" /\ p \notin {"setup", "failed"}
           \/ /\ mode' = mode /\ (isGrabbing' => isGrabbing) /\ task["arm"] # "setup"
              /\ worker.phase = "none" /\ p = "failed"
           \/ D!BeginArming /\ (isGrabbing' => isGrabbing) /\ worker.phase = "none" /\ p = "setup"
           \/ D!StartStreaming /\ (isGrabbing' => isGrabbing) /\ task["arm"] = "setup" /\ p = "setup"
           \/ D!AbandonArming /\ (isGrabbing' => isGrabbing) /\ task["arm"] = "setup" /\ p = "failed"
           \/ mode' = mode /\ task["arm"] = "armed" /\ p = "grabbing"
  <2>3. \E p : Moves(p)
    <3>1. CASE StartArm
      <4>1. \/ ToPhase("arm", "arming") \/ Returns("arm", FALSE, <<>>)
        BY <3>1 DEF StartArm
      <4>2. mode' = mode /\ (isGrabbing' => isGrabbing) /\ task["arm"] = "idle"
        BY <3>1 DEF StartArm, Queued, SetContinuous, controller, DeviceIdle
      <4>3. Moves("arming") \/ Moves("done")
        BY <4>1, <4>2
      <4>4. QED
        BY <4>3
    <3>2. CASE BeginArming
      BY <3>2 DEF BeginArming, TaskAt, controller, DeviceIdle
    <3>3. CASE SetUpArming
      <4>1. /\ task["arm"] = "setup" /\ (isGrabbing' => isGrabbing)
            /\ \/ D!StartStreaming /\ ToPhase("arm", "setup")
               \/ D!AbandonArming /\ ToPhase("arm", "failed")
        BY <3>3 DEF SetUpArming, TaskAt, controller
      <4>2. Moves("setup") \/ Moves("failed")
        BY <4>1
      <4>3. QED
        BY <4>2
    <3>4. CASE FailArming
      <4>1. /\ mode' = mode /\ (isGrabbing' => isGrabbing) /\ task["arm"] = "failed"
            /\ \E ok, posts : Returns("arm", ok, posts)
        BY <3>4 DEF FailArming, TaskAt, SetContinuous, DeviceIdle
      <4>2. Moves("done")
        BY <4>1
      <4>3. QED
        BY <4>2
    <3>5. CASE ReportGrabbing
      <4>1. ToPhase("arm", "grabbing") /\ task["arm"] = "armed" /\ mode' = mode
        BY <3>5 DEF ReportGrabbing, TaskAt, DeviceIdle
      <4>2. Moves("grabbing")
        BY <4>1
      <4>3. QED
        BY <4>2
    <3>6. CASE ReturnArmed
      <4>1. /\ mode' = mode /\ (isGrabbing' => isGrabbing) /\ task["arm"] = "told"
            /\ \E ok, posts : Returns("arm", ok, posts)
        BY <3>6 DEF ReturnArmed, TaskAt, controller, DeviceIdle
      <4>2. Moves("done")
        BY <4>1
      <4>3. QED
        BY <4>2
    <3>7. QED
      BY <1>9, <3>1, <3>2, <3>3, <3>4, <3>5, <3>6
  <2>7. PICK p : Moves(p)
    BY <2>3
  <2>4. \A v \in Watchers : task'[v] = IF v = "arm" THEN p ELSE task[v]
    BY <1>1, <1>3, <1>4, <2>7
  <2>5. QED
    BY <1>1, <2>1, <2>2, <2>7, <2>4 DEF ModeInv, D!Modes, D!BeginArming, D!StartStreaming, D!AbandonArming,
       D!Become, Working
<1>10. CASE CompleteArming
  <2>1. /\ ToPhase("arm", "armed") /\ D!Arm /\ isGrabbing' = isGrabbing
        /\ worker' = [phase |-> "held", continuous |-> session.armLive, error |-> FALSE]
    BY <1>10 DEF CompleteArming, controller
  <2>2. worker'.phase = "held" /\ mode = "arming" /\ mode' = "armed"
    BY <2>1 DEF D!Arm, D!Become
  <2>3. Running("arm")
    BY <1>10 DEF CompleteArming, TaskAt, Running, TaskPhases
  <2>4. task["initialization"] = "idle" /\ task["disconnection"] = "idle"
    BY <1>1, <1>2, <2>3
  <2>5. \A v \in Watchers : task'[v] = IF v = "arm" THEN "armed" ELSE task[v]
    BY <1>1, <1>3, <2>1
  <2>6. QED
    BY <1>1, <2>1, <2>2, <2>4, <2>5 DEF ModeInv, D!Modes, WorkerPhases
<1>11. CASE ReportActive
  <2>1. /\ task["arm"] = "grabbing" /\ task' = [task EXCEPT !["arm"] = "told"]
        /\ worker' = [worker EXCEPT !.phase = "running"] /\ mode' = mode /\ isGrabbing' = isGrabbing
    BY <1>11 DEF ReportActive, TaskAt, DeviceIdle
  <2>2. worker'.phase = "running" /\ worker.phase = "held"
    BY <2>1 DEF Working
  <2>3. Running("arm")
    BY <2>1 DEF Running, TaskPhases
  <2>4. task["initialization"] = "idle" /\ task["disconnection"] = "idle"
    BY <1>1, <1>2, <2>3
  <2>5. \A v \in Watchers : task'[v] = IF v = "arm" THEN "told" ELSE task[v]
    BY <1>1, <2>1 DEF TaskInv
  <2>6. QED
    BY <1>1, <2>1, <2>2, <2>4, <2>5 DEF ModeInv, WorkerPhases
<1>12. QED
  BY <1>5, <1>6, <1>7, <1>8, <1>9, <1>10, <1>11 DEF PoolStep

LEMMA ModeNext ==
  Inv /\ CallInv /\ TaskInv /\ DeviceInv /\ ModeInv /\ [Next]_vars => ModeInv'
<1> SUFFICES ASSUME Inv, CallInv, TaskInv, DeviceInv, ModeInv, [Next]_vars
             PROVE  ModeInv'
  OBVIOUS
<1> USE DEF DeviceInv
<1>1. {"arm", "initialization", "disconnection"} \subseteq Watchers
  BY DEF Watchers
<1>2. CASE GuiMove
  <2>1. /\ UNCHANGED <<mode, streaming, worker, controller, history>>
        /\ \A w \in Watchers : task'[w] = task[w] \/ (task[w] = "done" /\ task'[w] = "idle")
    BY <1>2, GuiMoves
  <2>2. QED
    BY <1>1, <2>1 DEF ModeInv, controller
<1>3. CASE WorkerStep \/ SensorStep
  <2>1. task' = task /\ (isGrabbing' => isGrabbing)
    BY <1>3 DEF WorkerStep, SensorStep, ReceiveFrame, FailPolling, LeavePolling, StopStreaming, Disarm,
       ReportIdle, ReportInactive, WorkerAt, pool, controller
  <2>2. ASSUME NEW p, worker' = [worker EXCEPT !.phase = p] \/ worker' = [worker EXCEPT !.phase = p, !.error = TRUE]
        PROVE  worker'.phase = p
    BY <2>2 DEF Working
  <2>3. \/ worker.phase = "running" /\ mode' = mode /\ worker'.phase \in {"running", "leaving"}
        \/ worker.phase = "leaving" /\ mode' = mode /\ worker' = worker
        \/ worker.phase = "leaving" /\ mode' \in {"ready", "fault"} /\ worker'.phase = "ended"
        \/ worker.phase = "ended" /\ mode' = mode /\ worker'.phase = "telling" /\ isGrabbing' = FALSE
        \/ worker.phase = "telling" /\ mode' = mode /\ worker'.phase = "none"
    <3>1. CASE LeavePolling \/ FailPolling
      BY <3>1, <2>2 DEF LeavePolling, FailPolling, WorkerAt, DeviceIdle
    <3>2. CASE ReceiveFrame
      <4>1. /\ worker.phase = "running" /\ mode' = mode
            /\ \E p \in {"running", "leaving"} : worker' = [worker EXCEPT !.phase = p]
        BY <3>2 DEF ReceiveFrame, WorkerAt, DeviceIdle
      <4>2. QED
        BY <4>1, <2>2
    <3>3. CASE StopStreaming \/ Disarm
      BY <3>3, <2>2 DEF StopStreaming, Disarm, WorkerAt, D!StopStreaming, D!Fail, D!Disarm, D!Become
    <3>4. CASE ReportIdle
      BY <3>4, <2>2 DEF ReportIdle, WorkerAt, DeviceIdle
    <3>5. CASE ReportInactive
      BY <3>5 DEF ReportInactive, WorkerAt, DeviceIdle
    <3>6. QED
      BY <1>3, <3>1, <3>2, <3>3, <3>4, <3>5 DEF WorkerStep, SensorStep
  <2>4. worker.phase = "telling" => ~isGrabbing
    BY DEF Working
  <2>5. QED
    BY <1>1, <2>1, <2>3, <2>4 DEF ModeInv, D!Modes, WorkerPhases
<1>4. CASE \/ AwaitWatchers \/ AwaitParameters \/ JoinForDestruction
           \/ CloseForDestruction \/ ReleaseForDestruction
  <2>1. /\ task' = task /\ worker' = worker /\ (isGrabbing' => isGrabbing)
        /\ mode' = mode \/ (Joined /\ Late /\ (D!Close \/ D!Release))
    BY <1>4 DEF AwaitWatchers, AwaitParameters, JoinForDestruction, CloseForDestruction,
       ReleaseForDestruction, Destructor, DeviceIdle, ClearFlags, controller, pool, Joined, Late
  <2>2. mode' = mode \/ (mode' = "closed" /\ mode \in {"ready", "fault"} /\ worker.phase = "none")
    BY <2>1 DEF D!Close, D!Release, D!Become, Releasing
  <2>3. QED
    BY <1>1, <2>1, <2>2 DEF ModeInv, D!Modes
<1>5. CASE ParameterWork \/ Destroyed \/ UNCHANGED vars
  <2>1. UNCHANGED <<mode, worker, isGrabbing, task>>
    BY <1>5 DEF ParameterWork, RunParameter, ReportParameter, ReportApplied, ReturnParameter,
       ParameterStep, device, controller, pool, Destroyed, vars
  <2>2. QED
    BY <2>1 DEF ModeInv
<1>6. CASE PoolStep
  BY <1>6, ModePool
<1>7. QED
  BY <1>2, <1>3, <1>4, <1>5, <1>6 DEF Next, GuiStep, GuiMove, Handles, Ends

------------------------------------------------------------------------------
(* The queue of the GUI thread: r continues q, and Added(q, r) came after q. *)
Longer(q, r) ==
  /\ \E S : q \in Seq(S)
  /\ \E S : r \in Seq(S)
  /\ Len(q) <= Len(r) /\ \A i \in 1..Len(q) : r[i] = q[i]

Added(q, r) == {r[i] : i \in (Len(q) + 1)..Len(r)}

LEMMA LongerKeeps ==
  ASSUME NEW q, NEW r, Longer(q, r)
  PROVE  /\ Events(r) = Events(q) \cup Added(q, r)
         /\ q # <<>> => r # <<>> /\ Head(r) = Head(q)
         /\ \A g, n : StartAt(q, g, n) => StartAt(r, g, n)
         /\ (\A e \in Added(q, r) : e.kind # "start failed") /\ FailuresFirst(q) => FailuresFirst(r)
<1>1. Len(q) \in Nat /\ Len(r) \in Nat /\ Len(q) <= Len(r)
  BY DEF Longer
<1>2. \A i : i \in 1..Len(r) <=> i \in 1..Len(q) \/ i \in (Len(q) + 1)..Len(r)
  BY <1>1
<1>3. Events(r) = Events(q) \cup Added(q, r)
  BY <1>2 DEF Longer, Events, Added
<1>4. ASSUME q # <<>> PROVE r # <<>> /\ Head(r) = Head(q)
  <2>1. Len(q) > 0 /\ Head(q) = q[1]
    BY <1>4 DEF Longer
  <2>2. r # <<>> /\ Head(r) = r[1]
    BY <1>1, <2>1 DEF Longer
  <2>3. 1 \in 1..Len(q)
    BY <1>1, <2>1
  <2>4. QED
    BY <2>1, <2>2, <2>3 DEF Longer
<1>5. ASSUME NEW i \in 1..Len(q), BeforeArm(q, i) PROVE BeforeArm(r, i)
  BY <1>1, <1>2, <1>5 DEF BeforeArm, Longer
<1>6. \A g, n : StartAt(q, g, n) => StartAt(r, g, n)
  BY <1>2, <1>5 DEF StartAt, Longer
<1>7. ASSUME \A e \in Added(q, r) : e.kind # "start failed", FailuresFirst(q) PROVE FailuresFirst(r)
  <2>1. ASSUME NEW i \in 1..Len(r), r[i].kind = "start failed" PROVE BeforeArm(r, i)
    <3>1. i \in 1..Len(q)
      BY <1>2, <1>7, <2>1 DEF Added
    <3>2. QED
      BY <1>5, <1>7, <2>1, <3>1 DEF FailuresFirst, Longer
  <2>2. QED
    BY <2>1 DEF FailuresFirst
<1>8. QED
  BY <1>3, <1>4, <1>6, <1>7

LEMMA LongerSame ==
  ASSUME NEW q, \E S : q \in Seq(S)
  PROVE  Longer(q, q) /\ Added(q, q) = {}
<1>1. Len(q) \in Nat
  OBVIOUS
<1>2. (Len(q) + 1)..Len(q) = {}
  BY <1>1
<1>3. QED
  BY <1>1, <1>2 DEF Longer, Added

LEMMA LongerAppend ==
  ASSUME NEW q, \E S : q \in Seq(S), NEW e
  PROVE  Longer(q, Append(q, e)) /\ Added(q, Append(q, e)) = {e}
<1> DEFINE r == Append(q, e)
<1>1. PICK S : q \in Seq(S)
  OBVIOUS
<1>2. q \in Seq(S \cup {e}) /\ e \in S \cup {e}
  BY <1>1
<1>3. r \in Seq(S \cup {e}) /\ Len(r) = Len(q) + 1 /\ Len(q) \in Nat /\ r[Len(q) + 1] = e
        /\ \A i \in 1..Len(q) : r[i] = q[i]
  BY <1>2
<1> HIDE DEF r
<1>4. (Len(q) + 1)..Len(r) = {Len(q) + 1}
  BY <1>3
<1>5. Added(q, r) = {e}
  BY <1>3, <1>4 DEF Added
<1>6. Longer(q, r)
  BY <1>1, <1>3 DEF Longer
<1>7. QED
  BY <1>5, <1>6 DEF r

LEMMA LongerTrans ==
  ASSUME NEW q, NEW r, NEW s, Longer(q, r), Longer(r, s)
  PROVE  Longer(q, s) /\ Added(q, s) = Added(q, r) \cup Added(r, s)
<1>1. Len(q) \in Nat /\ Len(r) \in Nat /\ Len(s) \in Nat /\ Len(q) <= Len(r) /\ Len(r) <= Len(s)
  BY DEF Longer
<1>2. \A i : i \in (Len(q) + 1)..Len(s) <=> i \in (Len(q) + 1)..Len(r) \/ i \in (Len(r) + 1)..Len(s)
  BY <1>1
<1>3. \A i : i \in (Len(q) + 1)..Len(r) => i \in 1..Len(r)
  BY <1>1
<1>4. \A i : i \in 1..Len(q) => i \in 1..Len(r)
  BY <1>1
<1>5. Longer(q, s)
  BY <1>1, <1>4 DEF Longer
<1>6. Added(q, s) = Added(q, r) \cup Added(r, s)
  BY <1>2, <1>3 DEF Longer, Added
<1>7. QED
  BY <1>5, <1>6

LEMMA PostedLonger ==
  ASSUME QueueOK(queue, task), Alive, StatusInv, NEW e, NEW f
  PROVE  /\ Longer(queue, Posted(<<e>>)) /\ Added(queue, Posted(<<e>>)) \subseteq {e}
         /\ Longer(queue, Posted(Append(<<>>, f))) /\ Added(queue, Posted(Append(<<>>, f))) \subseteq {f}
         /\ Longer(queue, Posted(Append(<<e>>, f))) /\ Added(queue, Posted(Append(<<e>>, f))) \subseteq {e, f}
         /\ ~session.widget => \A posts : Posted(posts) = <<>>
<1>1. PICK S : queue \in Seq(S)
  BY DEF QueueOK
<1> DEFINE q == Append(queue, e)
<1>2. queue \o <<e>> = q /\ queue \o Append(<<>>, f) = Append(queue, f)
        /\ queue \o Append(<<e>>, f) = Append(q, f)
  BY <1>1
<1>3. /\ Longer(queue, q) /\ Added(queue, q) = {e}
      /\ Longer(queue, Append(queue, f)) /\ Added(queue, Append(queue, f)) = {f}
  BY <1>1, LongerAppend
<1> HIDE DEF q
<1>4. Longer(q, Append(q, f)) /\ Added(q, Append(q, f)) = {f}
  BY <1>3, LongerAppend DEF Longer
<1>5. Longer(queue, Append(q, f)) /\ Added(queue, Append(q, f)) = {e, f}
  BY <1>3, <1>4, LongerTrans
<1>6. CASE session.widget
  <2>1. \A posts : Posted(posts) = queue \o posts
    BY <1>6 DEF Posted, Alive
  <2>2. QED
    BY <1>2, <1>3, <1>5, <1>6, <2>1
<1>7. CASE ~session.widget
  <2>1. queue = <<>> /\ \A posts : Posted(posts) = <<>>
    BY <1>7 DEF Posted, StatusInv
  <2>2. Longer(queue, <<>>) /\ Added(queue, <<>>) = {}
    BY <1>1, <2>1, LongerSame
  <2>3. QED
    BY <2>1, <2>2
<1>8. QED
  BY <1>6, <1>7

LEMMA TailKeeps ==
  ASSUME NEW q, \E S : q \in Seq(S), q # <<>>
  PROVE  /\ Events(q) = {Head(q)} \cup Events(Tail(q))
         /\ FailuresFirst(q) => FailuresFirst(Tail(q))
         /\ \A g, n : StartAt(q, g, n) =>
              \/ StartAt(Tail(q), "idle", n)
              \/ g # "rest" /\ Head(q).kind = "acquisition" /\ Head(q).generation = n /\ Head(q).active
         /\ Head(q).kind = "finished" /\ Head(q).task = "arm" =>
              /\ \A g, n : ~StartAt(q, g, n)
              /\ FailuresFirst(q) => \A e \in Events(Tail(q)) : e.kind # "start failed"
<1> DEFINE r == Tail(q)
           h == Head(q)
<1>1. Len(r) = Len(q) - 1 /\ Len(q) \in Nat /\ Len(q) > 0 /\ h = q[1]
        /\ \A i \in 1..Len(r) : r[i] = q[i + 1]
  OBVIOUS
<1> HIDE DEF r, h
<1>2. \A i \in 1..Len(r) : i + 1 \in 1..Len(q)
  BY <1>1
<1>3. \A i \in 1..Len(q) : i = 1 \/ i - 1 \in 1..Len(r)
  BY <1>1
<1>4. \A i \in 1..Len(q) : (i - 1) + 1 = i
  BY <1>1
<1>5. 1 \in 1..Len(q) /\ Len(r) \in Nat
  BY <1>1
<1>6. Events(q) = {h} \cup Events(r)
  <2>1. ASSUME NEW i \in 1..Len(q) PROVE q[i] = h \/ q[i] \in Events(r)
    <3>1. CASE i = 1
      BY <1>1, <3>1
    <3>2. CASE i - 1 \in 1..Len(r)
      <4>1. r[i - 1] = q[i]
        BY <1>1, <1>4, <3>2
      <4>2. QED
        BY <3>2, <4>1 DEF Events
    <3>3. QED
      BY <1>3, <3>1, <3>2
  <2>2. QED
    BY <1>1, <1>2, <1>5, <2>1 DEF Events
<1>7. ASSUME NEW i \in 1..Len(r), BeforeArm(q, i + 1) PROVE BeforeArm(r, i)
  <2>1. ASSUME NEW j \in 1..Len(r), r[j].kind = "finished" /\ r[j].task = "arm" PROVE i < j
    <3>1. i + 1 < j + 1
      BY <1>1, <1>2, <1>7, <2>1 DEF BeforeArm
    <3>2. QED
      BY <1>5, <3>1
  <2>2. QED
    BY <2>1 DEF BeforeArm
<1>8. FailuresFirst(q) => FailuresFirst(r)
  BY <1>1, <1>2, <1>7 DEF FailuresFirst
<1>9. ASSUME NEW g, NEW n, StartAt(q, g, n)
      PROVE  \/ StartAt(r, "idle", n)
             \/ g # "rest" /\ h.kind = "acquisition" /\ h.generation = n /\ h.active
  <2>1. PICK i \in 1..Len(q) :
          /\ q[i].kind = "acquisition" /\ q[i].generation = n /\ q[i].active
          /\ (g = "rest" => i > 1) /\ BeforeArm(q, i)
    BY <1>9 DEF StartAt
  <2>2. CASE i = 1
    BY <1>1, <2>1, <2>2
  <2>3. CASE i - 1 \in 1..Len(r)
    <3>1. r[i - 1] = q[i] /\ BeforeArm(r, i - 1)
      BY <1>1, <1>4, <1>7, <2>1, <2>3
    <3>2. QED
      BY <2>1, <2>3, <3>1 DEF StartAt
  <2>4. QED
    BY <1>3, <2>2, <2>3
<1>10. ASSUME h.kind = "finished", h.task = "arm"
       PROVE  \A i \in 1..Len(q) : ~BeforeArm(q, i)
  BY <1>1, <1>5, <1>10 DEF BeforeArm
<1>11. ASSUME h.kind = "finished", h.task = "arm", FailuresFirst(q)
       PROVE  \A e \in Events(r) : e.kind # "start failed"
  BY <1>1, <1>2, <1>10, <1>11 DEF Events, FailuresFirst
<1>12. QED
  BY <1>6, <1>8, <1>9, <1>10, <1>11 DEF StartAt, r, h

------------------------------------------------------------------------------
(* What every operation of the session keeps. *)
Sound(s) == s \in Session /\ Coherent(s.ui)

Keeps(s, t) == Sound(t) /\ t.widget = s.widget

LEMMA SoundIsSession ==
  ASSUME NEW s, Sound(s)
  PROVE  IsSession(s) /\ s.widget \in BOOLEAN
<1>1. s = [f \in Fields |-> s[f]]
  BY DEF Sound, Session, Fields
<1>2. QED
  BY <1>1 DEF Sound, Session, IsSession, Refreshes

LEMMA FieldKeeps ==
  ASSUME NEW s, Sound(s)
  PROVE  /\ Keeps(s, s)
         /\ \A u : Coherent(u) => Keeps(s, [s EXCEPT !.ui = u])
         /\ \A w \in Watchers : Keeps(s, Started(s, w)) /\ Keeps(s, Dropped(s, w))
         /\ \A c \in Completions, k \in {NoCall} \cup Calls : Keeps(s, [s EXCEPT !.completion[c] = k])
         /\ \A k \in {NoCall} \cup Calls : Keeps(s, [s EXCEPT !.toolCall = k])
         /\ \A b \in BOOLEAN : /\ Keeps(s, [s EXCEPT !.disconnectPending = b])
                               /\ Keeps(s, [s EXCEPT !.armLive = b])
                               /\ Keeps(s, [s EXCEPT !.externalBusyShown = b])
         /\ \A f \in Refreshes : Keeps(s, [s EXCEPT !.refreshFor = f])
         /\ \A o \in {"write", "trigger"} : Keeps(s, [s EXCEPT !.featureOperation = o])
<1>1. Keeps(s, s)
  BY DEF Keeps
<1>2. \A u : Coherent(u) => Keeps(s, [s EXCEPT !.ui = u])
  BY DEF Keeps, Sound, Session, Coherent
<1>3. \A w \in Watchers : Keeps(s, Started(s, w)) /\ Keeps(s, Dropped(s, w))
  BY DEF Keeps, Sound, Session, Started, Dropped
<1>4. \A c \in Completions, k \in {NoCall} \cup Calls : Keeps(s, [s EXCEPT !.completion[c] = k])
  BY DEF Keeps, Sound, Session
<1>5. \A k \in {NoCall} \cup Calls : Keeps(s, [s EXCEPT !.toolCall = k])
  BY DEF Keeps, Sound, Session
<1>6. \A b \in BOOLEAN : /\ Keeps(s, [s EXCEPT !.disconnectPending = b])
                         /\ Keeps(s, [s EXCEPT !.armLive = b])
                         /\ Keeps(s, [s EXCEPT !.externalBusyShown = b])
  BY DEF Keeps, Sound, Session
<1>7. \A f \in Refreshes : Keeps(s, [s EXCEPT !.refreshFor = f])
  BY DEF Keeps, Sound, Session, Refreshes
<1>8. \A o \in {"write", "trigger"} : Keeps(s, [s EXCEPT !.featureOperation = o])
  BY DEF Keeps, Sound, Session
<1>9. QED
  BY <1>1, <1>2, <1>3, <1>4, <1>5, <1>6, <1>7, <1>8

LEMMA KeepsTrans ==
  ASSUME NEW s, NEW t, NEW u, Keeps(s, t), Keeps(t, u)
  PROVE  Keeps(s, u)
BY DEF Keeps

LEMMA UiKeeps ==
  ASSUME NEW s, Sound(s), NEW u, NEW S, Same(s.ui, u, S)
  PROVE  Keeps(s, [s EXCEPT !.ui = u])
BY FieldKeeps DEF Same

LEMMA ShownKeeps ==
  ASSUME NEW s, Sound(s), NEW busy \in BOOLEAN
  PROVE  Keeps(s, Shown(s, busy))
<1> DEFINE u == IF s.watchers \cap {"feature", "featureRead", "initialization"} = {}
                  THEN SetFeatureOperationPending(s.ui, busy) ELSE s.ui
<1>1. Coherent(u)
  BY FeatureSet DEF Sound, Same
<1>2. Shown(s, busy) \in {s, [s EXCEPT !.externalBusyShown = busy, !.ui = u]}
  BY DEF Shown
<1> HIDE DEF u
<1>3. Keeps(s, [s EXCEPT !.externalBusyShown = busy, !.ui = u])
  BY <1>1 DEF Keeps, Sound, Session, Coherent
<1>4. QED
  BY <1>2, <1>3, FieldKeeps

LEMMA ControlChangedKeeps ==
  ASSUME NEW s, Sound(s)
  PROVE  Keeps(s, ControlChanged(s))
BY ShownKeeps DEF ControlChanged

LEMMA CompletedKeeps ==
  ASSUME NEW s, Sound(s), NEW c \in Completions
  PROVE  Keeps(s, Completed(s, c))
<1> DEFINE t == [s EXCEPT !.completion[c] = NoCall]
           k == IF t.toolCall = s.completion[c] THEN NoCall ELSE t.toolCall
           u == [t EXCEPT !.toolCall = k]
<1>1. Completed(s, c) \in {s, ControlChanged(u)}
  BY DEF Completed, ToolFinished
<1>2. Keeps(s, t)
  BY FieldKeeps
<1>3. k \in {NoCall} \cup Calls
  BY <1>2 DEF Keeps, Sound, Session
<1> HIDE DEF t, k
<1>4. Keeps(t, u)
  BY <1>2, <1>3, FieldKeeps DEF Keeps
<1> HIDE DEF u
<1>5. Keeps(s, ControlChanged(u))
  BY <1>2, <1>4, ControlChangedKeeps, KeepsTrans DEF Keeps
<1>6. QED
  BY <1>1, <1>5, FieldKeeps

LEMMA AfterRefreshKeeps ==
  ASSUME NEW s, Sound(s), NEW for \in Refreshes
  PROVE  Keeps(s, AfterRefresh(s, for))
<1>1. s.ui \in Widget /\ TRUE \in BOOLEAN /\ Coherent(s.ui)
  BY DEF Sound, Coherent
<1> DEFINE a == SetAcquisitionAvailable(s.ui, TRUE)
           e == InitializationEnded(s.ui)
           b == SetAcquisitionAvailable(e, TRUE)
           f == SetFeatureOperationPending(s.ui, FALSE)
           t == [s EXCEPT !.ui = a]
<1>2. Coherent(a)
  BY <1>1, AvailableSet DEF Same
<1>3. Coherent(e) /\ e \in Widget
  BY <1>1, InitializationSet DEF Same, Coherent
<1>4. Coherent(f)
  BY <1>1, FeatureSet DEF Same
<1>5. AfterRefresh(s, for) \in {Completed(t, "connect"), [s EXCEPT !.ui = b], [s EXCEPT !.ui = e], [s EXCEPT !.ui = f], s}
  BY DEF AfterRefresh, Refreshes
<1> HIDE DEF a, e, f
<1>6. Coherent(b)
  BY <1>1, <1>3, AvailableSet DEF Same
<1> HIDE DEF b
<1>7. Keeps(s, t)
  BY <1>2, FieldKeeps
<1> HIDE DEF t
<1>8. "connect" \in Completions
  BY DEF Completions
<1>9. Keeps(s, Completed(t, "connect"))
  BY <1>7, <1>8, CompletedKeeps, KeepsTrans DEF Keeps
<1>10. /\ Keeps(s, [s EXCEPT !.ui = b]) /\ Keeps(s, [s EXCEPT !.ui = e])
       /\ Keeps(s, [s EXCEPT !.ui = f]) /\ Keeps(s, s)
  BY <1>3, <1>4, <1>6, FieldKeeps
<1>11. QED
  BY <1>5, <1>9, <1>10

LEMMA RefreshKeeps ==
  ASSUME NEW s, Sound(s), NEW for \in Refreshes
  PROVE  Keeps(s, RefreshFeatureTree(s, for))
<1> DEFINE u == SetFeatureRefreshPending(s.ui, TRUE)
<1>1. Coherent(u)
  BY FeatureSet DEF Sound, Same
<1>2. RefreshFeatureTree(s, for) = IF RefreshRefused(s) THEN AfterRefresh(s, for)
        ELSE [s EXCEPT !.watchers = @ \cup {"featureRead"}, !.ui = u, !.refreshFor = for]
  BY DEF RefreshFeatureTree, Started, Sound, Session
<1> HIDE DEF u
<1>0. "featureRead" \in Watchers
  BY DEF Watchers
<1>3. Keeps(s, [s EXCEPT !.watchers = @ \cup {"featureRead"}, !.ui = u, !.refreshFor = for])
  BY <1>0, <1>1 DEF Keeps, Sound, Session, Refreshes, Coherent
<1>4. QED
  BY <1>2, <1>3, AfterRefreshKeeps

LEMMA CompleteDisconnectKeeps ==
  ASSUME NEW s, Sound(s)
  PROVE  Keeps(s, CompleteDisconnect(s))
<1> DEFINE u == SetDisconnectionPending(s.ui)
           t == [s EXCEPT !.watchers = @ \cup {"disconnection"}, !.disconnectPending = TRUE, !.ui = u]
<1>1. Coherent(u)
  BY DisconnectionPendingSet DEF Sound, Same
<1>2. CompleteDisconnect(s) \in {s, t}
  BY DEF CompleteDisconnect, Started, Sound, Session
<1> HIDE DEF u
<1>0. "disconnection" \in Watchers
  BY DEF Watchers
<1>3. Keeps(s, t)
  BY <1>0, <1>1 DEF Keeps, Sound, Session, Coherent
<1>4. QED
  BY <1>2, <1>3, FieldKeeps

LEMMA DisconnectKeeps ==
  ASSUME NEW s, Sound(s), NEW call \in {NoCall} \cup Calls
  PROVE  Keeps(s, Disconnect(s, call))
<1> DEFINE v == [s EXCEPT !.completion["disconnect"] = call]
           u == SetDisconnectionPending(v.ui)
           t == [v EXCEPT !.disconnectPending = TRUE, !.ui = u]
<1>1. Keeps(s, v)
  BY FieldKeeps DEF Completions
<1>2. Disconnect(s, call) \in {t, CompleteDisconnect(v)}
  BY DEF Disconnect
<1> HIDE DEF v
<1>3. Coherent(u)
  BY <1>1, DisconnectionPendingSet DEF Keeps, Sound, Same
<1> HIDE DEF u
<1>4. Keeps(v, t)
  BY <1>1, <1>3 DEF Keeps, Sound, Session, Coherent
<1> HIDE DEF t
<1>5. Keeps(v, CompleteDisconnect(v))
  BY <1>1, CompleteDisconnectKeeps DEF Keeps
<1>6. QED
  BY <1>1, <1>2, <1>4, <1>5, KeepsTrans

LEMMA StopShownKeeps ==
  ASSUME NEW s, Sound(s)
  PROVE  Keeps(s, StopShown(s))
BY StopPendingSet, FieldKeeps DEF StopShown, Sound, Same

LEMMA StateShownKeeps ==
  ASSUME NEW s, Sound(s), NEW a \in BOOLEAN, NEW c, NEW t
  PROVE  Keeps(s, [s EXCEPT !.ui = SetAcquisitionState(@, a, c, t)])
<1> DEFINE u == SetAcquisitionState(s.ui, a, c, t)
<1>1. Same(s.ui, u, {"acquisitionActive"})
  BY StateSet DEF Sound
<1> HIDE DEF u
<1>2. Keeps(s, [s EXCEPT !.ui = u])
  BY <1>1, UiKeeps
<1>3. QED
  BY <1>2 DEF u

LEMMA ErrorShownKeeps ==
  ASSUME NEW s, Sound(s)
  PROVE  Keeps(s, ErrorShown(s))
<1> DEFINE w == SetAcquisitionAvailable(s.ui, FALSE)
           v == IF RequiresReconnect THEN [s EXCEPT !.ui = w] ELSE s
<1>1. Coherent(w)
  BY AvailableSet DEF Sound, Coherent, Same
<1>2. ErrorShown(s) \in {s, [v EXCEPT !.ui = SetAcquisitionState(@, FALSE, FALSE, FALSE)]}
  BY DEF ErrorShown, SetAcquisitionError
<1> HIDE DEF w
<1>3. Keeps(s, v)
  BY <1>1, FieldKeeps
<1> HIDE DEF v
<1>4. Keeps(v, [v EXCEPT !.ui = SetAcquisitionState(@, FALSE, FALSE, FALSE)])
  BY <1>3, StateShownKeeps DEF Keeps
<1>6. Keeps(s, [v EXCEPT !.ui = SetAcquisitionState(@, FALSE, FALSE, FALSE)])
  BY <1>3, <1>4, KeepsTrans
<1>5. QED
  BY <1>2, <1>6, FieldKeeps

LEMMA InactiveShownKeeps ==
  ASSUME NEW s, Sound(s), NEW error
  PROVE  Keeps(s, InactiveShown(s, error))
<1> DEFINE shown == [s EXCEPT !.ui = SetAcquisitionState(@, FALSE, FALSE, FALSE)]
           v == IF Diagnostics /\ IsOpened /\ ~RequiresReconnect
                  THEN RefreshFeatureTree(shown, "nothing") ELSE shown
<1>1. InactiveShown(s, error) \in {CompleteDisconnect(s), ErrorShown(v), v}
  BY DEF InactiveShown
<1>2. Keeps(s, shown)
  BY StateShownKeeps
<1> HIDE DEF shown
<1>3. "nothing" \in Refreshes
  BY DEF Refreshes
<1>4. Keeps(s, v)
  BY <1>2, <1>3, RefreshKeeps, KeepsTrans DEF Keeps
<1> HIDE DEF v
<1>5. Keeps(s, ErrorShown(v))
  BY <1>4, ErrorShownKeeps, KeepsTrans DEF Keeps
<1>6. QED
  BY <1>1, <1>4, <1>5, CompleteDisconnectKeeps

LEMMA OperationKeeps ==
  ASSUME NEW s, Sound(s), NEW call \in {NoCall} \cup Calls, NEW live \in BOOLEAN
  PROVE  /\ Keeps(s, Discover(s, call)) /\ Keeps(s, Connect(s, call)) /\ Keeps(s, Arm(s, live, call))
         /\ Keeps(s, RunFeatureOperation(s, "write")) /\ Keeps(s, RunFeatureOperation(s, "trigger"))
         /\ Keeps(s, Initialize(s))
<1> DEFINE d == SetDiscoveryPending(s.ui, TRUE)
           a == ArmBegun(s.ui, live)
           f == SetFeatureOperationPending(s.ui, TRUE)
           i == InitializationBegun(s.ui)
<1>1. /\ {"discovery", "connection", "arm", "feature", "initialization"} \subseteq Watchers
      /\ {"discovery", "connect", "arm"} \subseteq Completions
  BY DEF Watchers, Completions
<1>2. Coherent(s.ui)
  BY DEF Sound
<1>3. Coherent(d) /\ Coherent(a) /\ Coherent(f) /\ Coherent(i)
  BY <1>2, DiscoverySet, ArmSet, FeatureSet, InitializationSet DEF Same
<1>4. /\ Discover(s, call) = [s EXCEPT !.watchers = @ \cup {"discovery"}, !.ui = d, !.completion["discovery"] = call]
      /\ Connect(s, call) = [s EXCEPT !.watchers = @ \cup {"connection"}, !.completion["connect"] = call]
      /\ Arm(s, live, call) = [s EXCEPT !.watchers = @ \cup {"arm"}, !.completion["arm"] = call, !.armLive = live, !.ui = a]
      /\ \A o : RunFeatureOperation(s, o) = [s EXCEPT !.watchers = @ \cup {"feature"}, !.ui = f, !.featureOperation = o]
      /\ Initialize(s) = [s EXCEPT !.watchers = @ \cup {"initialization"}, !.ui = i]
  BY DEF Discover, Connect, Arm, RunFeatureOperation, Initialize, Started, Sound, Session
<1> HIDE DEF d, a, f, i
<1>5. Keeps(s, [s EXCEPT !.watchers = @ \cup {"discovery"}, !.ui = d, !.completion["discovery"] = call])
  BY <1>1, <1>3 DEF Keeps, Sound, Session, Coherent
<1>6. Keeps(s, [s EXCEPT !.watchers = @ \cup {"connection"}, !.completion["connect"] = call])
  BY <1>1 DEF Keeps, Sound, Session
<1>7. Keeps(s, [s EXCEPT !.watchers = @ \cup {"arm"}, !.completion["arm"] = call, !.armLive = live, !.ui = a])
  BY <1>1, <1>3 DEF Keeps, Sound, Session, Coherent
<1>8. ASSUME NEW o \in {"write", "trigger"}
      PROVE  Keeps(s, [s EXCEPT !.watchers = @ \cup {"feature"}, !.ui = f, !.featureOperation = o])
  BY <1>1, <1>3 DEF Keeps, Sound, Session, Coherent
<1>9. Keeps(s, [s EXCEPT !.watchers = @ \cup {"initialization"}, !.ui = i])
  BY <1>1, <1>3 DEF Keeps, Sound, Session, Coherent
<1>10. QED
  BY <1>4, <1>5, <1>6, <1>7, <1>8, <1>9

LEMMA UserStepKeeps ==
  ASSUME Sound(session), UserStep
  PROVE  Sound(session') /\ (session'.widget = session.widget \/ DestroyWidget)
<1> SUFFICES Keeps(session, session') \/ (DestroyWidget /\ Sound(session'))
  BY DEF Keeps
<1> DEFINE u == session.ui
<1>0. Coherent(u) /\ u \in Widget /\ NoCall \in {NoCall} \cup Calls /\ NoCall \in Nat
  BY DEF Sound, Coherent, NoCall
<1>1. ASSUME NEW s, Keeps(session, s), NEW live \in BOOLEAN PROVE Keeps(session, ArmOrNothing(s, live))
  <2>1. Keeps(s, Arm(s, live, NoCall))
    BY <1>0, <1>1, OperationKeeps DEF Keeps
  <2>2. Keeps(session, Arm(s, live, NoCall))
    BY <1>1, <2>1, KeepsTrans
  <2>3. QED
    BY <1>1, <2>2 DEF ArmOrNothing
<1>2. CASE ClickRefresh
  <2>1. Keeps(session, [session EXCEPT !.ui.refreshOn = FALSE])
    <3>1. Coherent([u EXCEPT !.refreshOn = FALSE])
      BY <1>0, ControlSet DEF Same
    <3>2. [session EXCEPT !.ui.refreshOn = FALSE] = [session EXCEPT !.ui = [u EXCEPT !.refreshOn = FALSE]]
      BY DEF Sound, Session
    <3>3. QED
      BY <3>1, <3>2, FieldKeeps
  <2>2. QED
    BY <1>2, <2>1 DEF ClickRefresh
<1>3. CASE ClickConnect
  <2> DEFINE c == [u EXCEPT !.connectChecked = TRUE]
             v == SetConnectionPending(c, TRUE)
             s == [session EXCEPT !.ui = v]
             e == SetConnectionState(v, FALSE)
             o == SetConnectionState(v, TRUE)
             r == ~RequiresReconnect
             a == SetAcquisitionAvailable(o, r)
  <2>1. session' \in {Connect(s, NoCall), [s EXCEPT !.ui = e], [s EXCEPT !.ui = a]}
    BY <1>3 DEF ClickConnect, SetConnectionError
  <2>2. Coherent(c)
    BY <1>0, ControlSet DEF Same
  <2> HIDE DEF c
  <2>3. Coherent(v)
    BY <2>2, ConnectionPendingSet DEF Same
  <2> HIDE DEF v
  <2>4. Coherent(e) /\ Coherent(o) /\ o \in Widget
    BY <2>3, ConnectionSet DEF Coherent
  <2> HIDE DEF e, o
  <2>5. r \in BOOLEAN
    OBVIOUS
  <2> HIDE DEF r
  <2>6. Coherent(a)
    BY <2>4, <2>5, AvailableSet DEF Same
  <2> HIDE DEF a
  <2>7. Keeps(session, s)
    BY <2>3, FieldKeeps
  <2> HIDE DEF s
  <2>8. Keeps(s, Connect(s, NoCall)) /\ Keeps(s, [s EXCEPT !.ui = e]) /\ Keeps(s, [s EXCEPT !.ui = a])
    <3>1. TRUE \in BOOLEAN
      OBVIOUS
    <3>2. QED
      BY <1>0, <2>4, <2>6, <2>7, <3>1, OperationKeeps, FieldKeeps DEF Keeps
  <2>9. QED
    BY <2>1, <2>7, <2>8, KeepsTrans
<1>4. CASE ClickDisconnect
  <2> DEFINE c == [u EXCEPT !.connectChecked = FALSE]
             s == [session EXCEPT !.ui.connectChecked = FALSE]
             e == SetConnectionState(s.ui, IsOpened)
  <2>1. session' \in {Disconnect(s, NoCall), [s EXCEPT !.ui = e]}
    BY <1>4 DEF ClickDisconnect
  <2>2. Coherent(c)
    BY <1>0, ControlSet DEF Same
  <2>3. s = [session EXCEPT !.ui = c]
    BY DEF Sound, Session
  <2> HIDE DEF c, s
  <2>4. Keeps(session, s)
    BY <2>2, <2>3, FieldKeeps
  <2>5. Coherent(e)
    <3>1. Coherent(s.ui) /\ IsOpened \in BOOLEAN
      BY <2>4 DEF Keeps, Sound, IsOpened
    <3>2. QED
      BY <3>1, ConnectionSet
  <2> HIDE DEF e
  <2>6. Keeps(s, [s EXCEPT !.ui = e])
    BY <2>4, <2>5, FieldKeeps DEF Keeps
  <2>7. Keeps(s, Disconnect(s, NoCall))
    BY <1>0, <2>4, DisconnectKeeps DEF Keeps
  <2>8. QED
    BY <2>1, <2>4, <2>6, <2>7, KeepsTrans
<1>5. CASE ClickSingle
  <2>1. session' \in {StopShown(session), ArmOrNothing(session, FALSE)}
    BY <1>5 DEF ClickSingle
  <2>2. Keeps(session, session) /\ FALSE \in BOOLEAN
    BY FieldKeeps
  <2>3. QED
    BY <1>1, <2>1, <2>2, StopShownKeeps
<1>6. CASE ToggleLive
  <2> DEFINE b == ~u.liveChecked
             c == [u EXCEPT !.liveChecked = b]
             s == [session EXCEPT !.ui.liveChecked = ~@]
  <2>1. session' \in {StopShown(s), ArmOrNothing(s, TRUE)} /\ u.liveOn
    BY <1>6 DEF ToggleLive, CanLive
  <2>2. b \in BOOLEAN /\ u.connected
    BY <1>0, <2>1 DEF Coherent
  <2>3. s = [session EXCEPT !.ui = c]
    BY DEF Sound, Session
  <2> HIDE DEF b
  <2>4. Coherent(c)
    BY <1>0, <2>2, ControlSet DEF Same
  <2> HIDE DEF c, s
  <2>5. Keeps(session, s) /\ TRUE \in BOOLEAN
    BY <2>3, <2>4, FieldKeeps
  <2>6. Keeps(session, StopShown(s))
    BY <2>5, StopShownKeeps, KeepsTrans DEF Keeps
  <2>7. QED
    BY <1>1, <2>1, <2>5, <2>6
<1>7. CASE ClickInit \/ EditFeature
  <2>1. session' \in {session, Initialize(session), RunFeatureOperation(session, "write")}
    BY <1>7 DEF ClickInit, EditFeature
  <2>2. TRUE \in BOOLEAN
    OBVIOUS
  <2>3. QED
    BY <1>0, <2>1, <2>2, OperationKeeps, FieldKeeps
<1>8. CASE ClickTrigger
  <2> DEFINE c == SetSoftwareTriggerPending(u, TRUE)
             s == [session EXCEPT !.ui = c]
             e == SetSoftwareTriggerPending(s.ui, FALSE)
  <2>1. session' \in {RunFeatureOperation(s, "trigger"), [s EXCEPT !.ui = e]}
    BY <1>8 DEF ClickTrigger
  <2>2. Coherent(c)
    BY <1>0, TriggerPendingSet DEF Same
  <2> HIDE DEF c
  <2>3. Keeps(session, s) /\ TRUE \in BOOLEAN
    BY <2>2, FieldKeeps
  <2> HIDE DEF s
  <2>4. Coherent(e)
    BY <2>3, TriggerPendingSet DEF Keeps, Sound, Same
  <2> HIDE DEF e
  <2>5. Keeps(s, [s EXCEPT !.ui = e]) /\ Keeps(s, RunFeatureOperation(s, "trigger"))
    BY <1>0, <2>3, <2>4, FieldKeeps, OperationKeeps DEF Keeps
  <2>6. QED
    BY <2>1, <2>3, <2>5, KeepsTrans
<1>9. CASE DestroyWidget
  BY <1>9 DEF DestroyWidget, Sound, Session
<1>10. CASE DestroySession
  BY <1>0, <1>10, FieldKeeps DEF DestroySession
<1>11. QED
  BY <1>2, <1>3, <1>4, <1>5, <1>6, <1>7, <1>8, <1>9, <1>10 DEF UserStep

LEMMA HostStepKeeps ==
  ASSUME Sound(session), CallInv, HostStep
  PROVE  Keeps(session, session')
<1>1. CASE StopNothing
  BY <1>1, FieldKeeps DEF StopNothing
<1>2. CASE \E t \in Tools : AskTool(t)
  <2> DEFINE k == calls + 1
             s == [session EXCEPT !.toolCall = k]
  <2>1. session' = ControlChanged(s) /\ calls < MaxCalls
    BY <1>2 DEF AskTool, NewCall
  <2>2. k \in {NoCall} \cup Calls
    BY <2>1, BoundsAssumption DEF CallInv, Calls
  <2> HIDE DEF k
  <2>3. Keeps(session, s)
    BY <2>2, FieldKeeps
  <2> HIDE DEF s
  <2>4. QED
    BY <2>1, <2>3, ControlChangedKeeps, KeepsTrans DEF Keeps
<1>3. CASE \E kind \in Parameters : RequestParameter(kind)
  <2> DEFINE busy == ~isGrabbing
  <2>1. session' = Shown(session, busy) /\ busy \in BOOLEAN
    BY <1>3 DEF RequestParameter
  <2> HIDE DEF busy
  <2>2. QED
    BY <2>1, ShownKeeps
<1>4. QED
  BY <1>1, <1>2, <1>3 DEF HostStep

LEMMA AdmissionKeeps ==
  ASSUME Sound(session), AskedTool, AdmitTool \/ RefuseTool
  PROVE  Keeps(session, session')
<1> DEFINE call == session.toolCall
<1>1. call \in {NoCall} \cup Calls /\ TRUE \in BOOLEAN /\ FALSE \in BOOLEAN /\ Keeps(session, session)
  BY FieldKeeps DEF Sound, Session
<1>2. CASE RefuseTool
  <2> DEFINE s == [session EXCEPT !.toolCall = NoCall]
  <2>1. session' = ControlChanged(s) /\ Keeps(session, s)
    BY <1>2, FieldKeeps DEF RefuseTool
  <2> HIDE DEF s
  <2>2. QED
    BY <2>1, ControlChangedKeeps, KeepsTrans DEF Keeps
<1>3. CASE AdmitTool
  <2> DEFINE p == SetConnectionPending(session.ui, TRUE)
             c == [session EXCEPT !.ui = p]
             e == [session EXCEPT !.completion["acquisitionEnd"] = call]
  <2>1. session' = ToolStarted(asked, session, call) /\ asked \in AllTools
    BY <1>3 DEF AdmitTool, AskedTool
  <2>2. Coherent(p)
    BY ConnectionPendingSet DEF Same, Sound
  <2>3. session' \in {Discover(session, call), Connect(c, call), Disconnect(session, call),
                      Arm(session, TRUE, call), Arm(session, FALSE, call), StopShown(e)}
    BY <2>1 DEF ToolStarted, AllTools
  <2> HIDE DEF call, p
  <2>4. Keeps(session, c) /\ Keeps(session, e)
    BY <1>1, <2>2, FieldKeeps DEF Completions
  <2> HIDE DEF c, e
  <2>5. Keeps(c, Connect(c, call)) /\ Keeps(e, StopShown(e))
    BY <1>1, <2>4, OperationKeeps, StopShownKeeps DEF Keeps
  <2>6. Keeps(session, Connect(c, call)) /\ Keeps(session, StopShown(e))
    BY <2>4, <2>5, KeepsTrans
  <2>7. QED
    BY <1>1, <2>3, <2>6, OperationKeeps, DisconnectKeeps
<1>4. QED
  BY <1>2, <1>3

LEMMA HandlerKeeps ==
  ASSUME Sound(session), Handles
  PROVE  Keeps(session, session')
<1>1. /\ NoCall \in {NoCall} \cup Calls /\ TRUE \in BOOLEAN /\ FALSE \in BOOLEAN /\ Keeps(session, session)
      /\ "nothing" \in Refreshes /\ "acquisitionEnd" \in Completions
  BY FieldKeeps DEF Refreshes, Completions
<1>2. CASE HandleRefresh
  BY <1>1, <1>2, OperationKeeps DEF HandleRefresh
<1>3. CASE HandleControl
  BY <1>3, ControlChangedKeeps DEF HandleControl
<1>4. CASE HandleApplied
  BY <1>1, <1>4, RefreshKeeps DEF HandleApplied
<1>5. CASE HandleFrame
  <2> DEFINE c == SetSoftwareTriggerPending(session.ui, FALSE)
  <2>1. session' = [session EXCEPT !.ui = c]
    BY <1>5 DEF HandleFrame
  <2>2. Coherent(c)
    BY TriggerPendingSet DEF Sound, Same
  <2> HIDE DEF c
  <2>3. QED
    BY <2>1, <2>2, FieldKeeps
<1>6. CASE HandleStale
  BY <1>1, <1>6 DEF HandleStale
<1>7. CASE HandleActive
  <2>1. session' = [session EXCEPT !.ui = SetAcquisitionState(@, TRUE, Head(queue).continuous, software)]
    BY <1>7 DEF HandleActive
  <2>2. QED
    BY <1>1, <2>1, StateShownKeeps
<1>8. CASE HandleInactive \/ HandleStartFailed \/ HandleRest
  BY <1>8, InactiveShownKeeps DEF HandleInactive, HandleStartFailed, HandleRest
<1>9. CASE HandleEnd
  BY <1>1, <1>9, CompletedKeeps DEF HandleEnd
<1>10. QED
  BY <1>2, <1>3, <1>4, <1>5, <1>6, <1>7, <1>8, <1>9 DEF Handles

LEMMA EndsKeep ==
  ASSUME Sound(session), Ends
  PROVE  Keeps(session, session')
<1>1. /\ {"discovery", "connection", "disconnection", "initialization", "feature", "featureRead", "arm"} \subseteq Watchers
      /\ {"discovery", "connect", "disconnect", "arm", "acquisitionEnd"} \subseteq Completions
      /\ {"nothing", "connect", "initialized", "profile failed", "feature"} \subseteq Refreshes
      /\ FALSE \in BOOLEAN /\ TRUE \in BOOLEAN
  BY DEF Watchers, Completions, Refreshes
<1>2. ASSUME NEW w \in Watchers PROVE Keeps(session, Dropped(session, w))
  BY FieldKeeps
<1>3. CASE FinishDiscovery
  <2> DEFINE t == Dropped(session, "discovery")
             d == SetDiscoveryPending(t.ui, FALSE)
             e(found) == SetDiscoveredDevices(d, found)
             s(found) == [t EXCEPT !.ui = IF succeeded["discovery"] THEN e(found) ELSE d]
  <2>1. PICK found \in BOOLEAN : session' = Completed(s(found), "discovery")
    BY <1>3 DEF FinishDiscovery
  <2>2. Keeps(session, t)
    BY <1>1, <1>2
  <2> HIDE DEF t
  <2>3. Coherent(d)
    BY <1>1, <2>2, DiscoverySet DEF Keeps, Sound, Same
  <2> HIDE DEF d
  <2>4. Coherent(e(found))
    BY <2>3, DiscoverySet DEF Same
  <2> HIDE DEF e
  <2>8. PICK v \in {e(found), d} : s(found) = [t EXCEPT !.ui = v]
    OBVIOUS
  <2> HIDE DEF s
  <2>9. Coherent(v) /\ Sound(t)
    BY <2>2, <2>3, <2>4 DEF Keeps
  <2>10. Keeps(t, [t EXCEPT !.ui = v])
    BY <2>9, FieldKeeps
  <2>5. Keeps(t, s(found))
    BY <2>8, <2>10
  <2>6. Keeps(session, s(found)) /\ Keeps(s(found), Completed(s(found), "discovery"))
    BY <1>1, <2>2, <2>5, KeepsTrans, CompletedKeeps DEF Keeps
  <2>7. QED
    BY <2>1, <2>6, KeepsTrans
<1>4. CASE FinishConnection
  <2> DEFINE t == Dropped(session, "connection")
             c == SetConnectionPending(t.ui, FALSE)
             s == [t EXCEPT !.ui = c]
             n == SetConnectionState(s.ui, TRUE)
             a == SetAcquisitionAvailable(n, TRUE)
             e == SetConnectionState(s.ui, FALSE)
             o == [s EXCEPT !.ui = a]
             f == [s EXCEPT !.ui = e]
  <2>1. session' \in {RefreshFeatureTree(o, "connect"), Completed(f, "connect")}
    BY <1>4 DEF FinishConnection, SetConnectionError
  <2>2. Keeps(session, t)
    BY <1>1, <1>2
  <2> HIDE DEF t
  <2>3. Coherent(c)
    BY <2>2, ConnectionPendingSet DEF Keeps, Sound, Same
  <2> HIDE DEF c
  <2>4. Keeps(session, s)
    BY <2>2, <2>3, FieldKeeps, KeepsTrans DEF Keeps
  <2> HIDE DEF s
  <2>5. Coherent(n) /\ n \in Widget /\ Coherent(e)
    BY <1>1, <2>4, ConnectionSet DEF Keeps, Sound, Coherent
  <2> HIDE DEF n, e
  <2>6. Coherent(a)
    BY <1>1, <2>5, AvailableSet DEF Same
  <2> HIDE DEF a
  <2>7. Keeps(session, o) /\ Keeps(session, f)
    <3>1. Keeps(s, o) /\ Keeps(s, f)
      BY <2>4, <2>5, <2>6, FieldKeeps DEF Keeps
    <3>2. QED
      BY <2>4, <3>1, KeepsTrans
  <2> HIDE DEF o, f
  <2>8. Keeps(o, RefreshFeatureTree(o, "connect")) /\ Keeps(f, Completed(f, "connect"))
    BY <1>1, <2>7, RefreshKeeps, CompletedKeeps DEF Keeps
  <2>9. QED
    BY <2>1, <2>7, <2>8, KeepsTrans
<1>5. CASE FinishDisconnection
  <2> DEFINE t == Dropped(session, "disconnection")
             p == SetFeatures(t.ui, FALSE)
             c == SetConnectionState(p, FALSE)
             s == [t EXCEPT !.disconnectPending = FALSE, !.ui = c]
  <2>1. session' = Completed(s, "disconnect")
    BY <1>5 DEF FinishDisconnection
  <2>2. Keeps(session, t)
    BY <1>1, <1>2
  <2> HIDE DEF t
  <2>3. Coherent(p)
    BY <1>1, <2>2, FeatureSet DEF Keeps, Sound, Same
  <2> HIDE DEF p
  <2>4. Coherent(c)
    BY <1>1, <2>3, ConnectionSet
  <2> HIDE DEF c
  <2>5. Keeps(t, s)
    BY <2>2, <2>4 DEF Keeps, Sound, Session, Coherent
  <2> HIDE DEF s
  <2>6. Keeps(session, s) /\ Keeps(s, Completed(s, "disconnect"))
    BY <1>1, <2>2, <2>5, KeepsTrans, CompletedKeeps DEF Keeps
  <2>7. QED
    BY <2>1, <2>6, KeepsTrans
<1>6. CASE FinishInitialization
  <2> DEFINE t == Dropped(session, "initialization")
  <2>1. \E for \in Refreshes : session' = RefreshFeatureTree(t, for)
    BY <1>1, <1>6 DEF FinishInitialization
  <2>2. Keeps(session, t)
    BY <1>1, <1>2
  <2> HIDE DEF t
  <2>3. QED
    BY <2>1, <2>2, RefreshKeeps, KeepsTrans DEF Keeps
<1>7. CASE FinishFeature
  <2> DEFINE s == Dropped(session, "feature")
             f == SetFeatureOperationPending(s.ui, FALSE)
             freed == [s EXCEPT !.ui = f]
             g == SetSoftwareTriggerPending(freed.ui, FALSE)
             last == [freed EXCEPT !.ui = g]
  <2>1. Keeps(session, s)
    BY <1>1, <1>2
  <2>2. s.featureOperation \in {"write", "trigger"}
    BY <2>1 DEF Keeps, Sound, Session
  <2>3. session' \in {RefreshFeatureTree(s, "feature"), freed, last}
    <3> HIDE DEF s
    <3>1. session' =
            CASE succeeded["feature"] /\ s.featureOperation = "write" -> RefreshFeatureTree(s, "feature")
              [] succeeded["feature"] /\ s.featureOperation = "trigger" -> freed
              [] ~succeeded["feature"] /\ s.featureOperation = "write" -> freed
              [] ~succeeded["feature"] /\ s.featureOperation = "trigger" -> last
      BY <1>7 DEF FinishFeature, s
    <3> HIDE DEF freed, last
    <3>2. QED
      BY <2>2, <3>1
  <2> HIDE DEF s
  <2>4. Coherent(f)
    BY <1>1, <2>1, FeatureSet DEF Keeps, Sound, Same
  <2> HIDE DEF f
  <2>5. Keeps(session, freed)
    BY <2>1, <2>4, FieldKeeps, KeepsTrans DEF Keeps
  <2> HIDE DEF freed
  <2>6. Coherent(g)
    BY <2>5, TriggerPendingSet DEF Keeps, Sound, Same
  <2> HIDE DEF g
  <2>7. Keeps(freed, last) /\ Keeps(s, RefreshFeatureTree(s, "feature"))
    BY <1>1, <2>1, <2>5, <2>6, FieldKeeps, RefreshKeeps DEF Keeps
  <2>8. QED
    BY <2>1, <2>3, <2>5, <2>7, KeepsTrans
<1>8. CASE FinishFeatureRead
  <2> DEFINE t == Dropped(session, "featureRead")
             r == SetFeatureRefreshPending(t.ui, FALSE)
             f == SetFeatures(r, TRUE)
             u == IF succeeded["featureRead"] THEN f ELSE r
             s == [t EXCEPT !.refreshFor = "nothing", !.ui = u]
  <2>1. session' = AfterRefresh(s, session.refreshFor)
    BY <1>8 DEF FinishFeatureRead
  <2>2. Keeps(session, t) /\ session.refreshFor \in Refreshes
    BY <1>1, <1>2 DEF Sound, Session, Refreshes
  <2> HIDE DEF t
  <2>3. Coherent(r)
    BY <1>1, <2>2, FeatureSet DEF Keeps, Sound, Same
  <2> HIDE DEF r
  <2>4. Coherent(f)
    BY <1>1, <2>3, FeatureSet DEF Same
  <2> HIDE DEF f
  <2>5. Coherent(u)
    BY <2>3, <2>4
  <2> HIDE DEF u
  <2>6. Keeps(t, s)
    BY <2>2, <2>5 DEF Keeps, Sound, Session, Coherent
  <2> HIDE DEF s
  <2>7. Keeps(session, s) /\ Keeps(s, AfterRefresh(s, session.refreshFor))
    BY <2>2, <2>6, KeepsTrans, AfterRefreshKeeps DEF Keeps
  <2>8. QED
    BY <2>1, <2>7, KeepsTrans
<1>9. CASE FinishArm
  <2> DEFINE t == Dropped(session, "arm")
             a == ArmEnded(t.ui)
             s == [t EXCEPT !.ui = a]
             k == s.completion["arm"]
             e == [s EXCEPT !.completion["acquisitionEnd"] = k, !.completion["arm"] = NoCall]
  <2>1. session' \in {Completed(s, "arm"), e}
    BY <1>9 DEF FinishArm
  <2>2. Keeps(session, t)
    BY <1>1, <1>2
  <2> HIDE DEF t
  <2>3. Coherent(a)
    BY <1>1, <2>2, ArmSet DEF Keeps, Sound, Same
  <2> HIDE DEF a
  <2>4. Keeps(session, s)
    BY <2>2, <2>3, FieldKeeps, KeepsTrans DEF Keeps
  <2> HIDE DEF s
  <2>5. k \in {NoCall} \cup Calls
    BY <1>1, <2>4 DEF Keeps, Sound, Session
  <2> HIDE DEF k
  <2>6. Keeps(s, e) /\ Keeps(s, Completed(s, "arm"))
    <3>1. Keeps(s, e)
      BY <1>1, <2>4, <2>5 DEF Keeps, Sound, Session
    <3>2. Keeps(s, Completed(s, "arm"))
      BY <1>1, <2>4, CompletedKeeps DEF Keeps
    <3>3. QED
      BY <3>1, <3>2
  <2>7. QED
    BY <2>1, <2>4, <2>6, KeepsTrans
<1>10. QED
  BY <1>3, <1>4, <1>5, <1>6, <1>7, <1>8, <1>9 DEF Ends

LEMMA SoundMoves ==
  ASSUME Sound(session), CallInv, AskedTool, GuiMove
  PROVE  Sound(session') /\ (session'.widget = session.widget \/ DestroyWidget)
<1>1. CASE UserStep
  BY <1>1, UserStepKeeps
<1>2. ASSUME Keeps(session, session') PROVE Sound(session') /\ session'.widget = session.widget
  BY <1>2 DEF Keeps
<1>3. QED
  BY <1>1, <1>2, HostStepKeeps, AdmissionKeeps, HandlerKeeps, EndsKeep DEF GuiMove

LEMMA SoundInit == Init => Sound(session)
<1> SUFFICES ASSUME Init PROVE Sound(session)
  OBVIOUS
<1> DEFINE u == NewWidget(TRUE)
<1>1. Coherent(u)
  BY NewWidgetShows
<1>2. session = [widget |-> TRUE, ui |-> u, watchers |-> {},
                completion |-> [c \in Completions |-> NoCall],
                refreshFor |-> "nothing", featureOperation |-> "write", armLive |-> FALSE,
                disconnectPending |-> FALSE, externalBusyShown |-> FALSE, toolCall |-> NoCall]
  BY DEF Init
<1> HIDE DEF u
<1>3. session \in Session /\ session.ui = u
  BY <1>1, <1>2 DEF Session, Coherent
<1>4. QED
  BY <1>1, <1>3 DEF Sound

LEMMA SoundNext ==
  CallInv /\ AskedTool /\ Sound(session) /\ [Next]_vars => Sound(session)'
<1> SUFFICES ASSUME CallInv, AskedTool, Sound(session), [Next]_vars PROVE Sound(session')
  BY DEF Sound
<1>1. CASE GuiMove
  BY <1>1, SoundMoves
<1>2. CASE \/ AwaitWatchers \/ AwaitParameters \/ JoinForDestruction
           \/ CloseForDestruction \/ ReleaseForDestruction
           \/ PoolStep \/ ParameterWork \/ WorkerStep \/ SensorStep \/ Destroyed
           \/ UNCHANGED vars
  <2>1. session' = session
    BY <1>2, OtherCalls
  <2>2. QED
    BY <2>1
<1>3. QED
  BY <1>1, <1>2 DEF Next, GuiStep, GuiMove, Handles, Ends

------------------------------------------------------------------------------
(* What is queued is still true when the GUI thread reads it. *)
Notices == {Control, [kind |-> "applied"], [kind |-> "frame"]} \cup {Finished(w) : w \in Watchers}

StartFailed == [kind |-> "start failed"]

(* A step of another thread leaves the GUI thread alone and posts events of S. *)
Posts(S) ==
  /\ UNCHANGED guiThread
  /\ Longer(queue, queue') /\ Added(queue, queue') \subseteq S
  /\ ~session.widget => queue' = <<>>

LEMMA NoticeKinds == \A e \in Notices : e.kind \notin {"acquisition", "start failed"}
<1>1. ASSUME NEW e \in {Control, [kind |-> "applied"], [kind |-> "frame"]}
      PROVE  e.kind \in {"control", "applied", "frame"}
  BY <1>1 DEF Control
<1>2. \A w : Finished(w).kind = "finished"
  BY DEF Finished
<1>3. QED
  BY <1>1, <1>2 DEF Notices

LEMMA PostsMore ==
  ASSUME NEW S, NEW T, Posts(S), S \subseteq T
  PROVE  Posts(T)
BY DEF Posts

LEMMA PostsNothing ==
  ASSUME TaskInv, Alive, StatusInv, UNCHANGED <<guiThread, queue>>
  PROVE  Posts({})
<1>1. \E S : queue \in Seq(S)
  BY DEF TaskInv, QueueOK
<1>2. Longer(queue, queue') /\ Added(queue, queue') = {}
  BY <1>1, LongerSame
<1>3. QED
  BY <1>2 DEF Posts, StatusInv

LEMMA TaskPosts ==
  ASSUME TaskInv, Alive, StatusInv, NEW w \in Watchers
  PROVE  /\ \A p : ToPhase(w, p) =>
              /\ Posts({}) /\ succeeded' = succeeded
              /\ \A v \in Watchers : task'[v] = IF v = w THEN p ELSE task[v]
         /\ \A ok : Returns(w, ok, <<>>) =>
              /\ Posts({Finished(w)}) /\ succeeded' = [succeeded EXCEPT ![w] = ok]
              /\ \A v \in Watchers : task'[v] = IF v = w THEN "done" ELSE task[v]
         /\ \A ok, d : Returns(w, ok, <<d>>) =>
              /\ Posts({d, Finished(w)}) /\ succeeded' = [succeeded EXCEPT ![w] = ok]
              /\ \A v \in Watchers : task'[v] = IF v = w THEN "done" ELSE task[v]
<1>1. QueueOK(queue, task)
  BY DEF TaskInv
<1>2. ASSUME NEW p, ToPhase(w, p)
      PROVE  /\ Posts({}) /\ succeeded' = succeeded
             /\ \A v \in Watchers : task'[v] = IF v = w THEN p ELSE task[v]
  BY <1>2, TaskSet, PostsNothing DEF ToPhase
<1>3. ASSUME NEW ok, Returns(w, ok, <<>>)
      PROVE  /\ Posts({Finished(w)}) /\ succeeded' = [succeeded EXCEPT ![w] = ok]
             /\ \A v \in Watchers : task'[v] = IF v = w THEN "done" ELSE task[v]
  <2> DEFINE f == Finished(w)
  <2>1. /\ queue' = Posted(Append(<<>>, f)) /\ UNCHANGED guiThread
        /\ task' = [task EXCEPT ![w] = "done"] /\ succeeded' = [succeeded EXCEPT ![w] = ok]
    BY <1>3 DEF Returns
  <2>2. \A v \in Watchers : task'[v] = IF v = w THEN "done" ELSE task[v]
    BY <2>1, TaskSet
  <2> HIDE DEF f
  <2>3. /\ Longer(queue, Posted(Append(<<>>, f))) /\ Added(queue, Posted(Append(<<>>, f))) \subseteq {f}
        /\ ~session.widget => \A posts : Posted(posts) = <<>>
    BY <1>1, PostedLonger
  <2>4. Posts({f})
    BY <2>1, <2>3 DEF Posts
  <2>5. QED
    BY <2>1, <2>2, <2>4 DEF f
<1>4. ASSUME NEW ok, NEW d, Returns(w, ok, <<d>>)
      PROVE  /\ Posts({d, Finished(w)}) /\ succeeded' = [succeeded EXCEPT ![w] = ok]
             /\ \A v \in Watchers : task'[v] = IF v = w THEN "done" ELSE task[v]
  <2> DEFINE f == Finished(w)
  <2>1. /\ queue' = Posted(Append(<<d>>, f)) /\ UNCHANGED guiThread
        /\ task' = [task EXCEPT ![w] = "done"] /\ succeeded' = [succeeded EXCEPT ![w] = ok]
    BY <1>4 DEF Returns
  <2>2. \A v \in Watchers : task'[v] = IF v = w THEN "done" ELSE task[v]
    BY <2>1, TaskSet
  <2> HIDE DEF f
  <2>3. /\ Longer(queue, Posted(Append(<<d>>, f))) /\ Added(queue, Posted(Append(<<d>>, f))) \subseteq {d, f}
        /\ ~session.widget => \A posts : Posted(posts) = <<>>
    BY <1>1, PostedLonger
  <2>4. Posts({d, f})
    BY <2>1, <2>3 DEF Posts
  <2>5. QED
    BY <2>1, <2>2, <2>4 DEF f
<1>5. QED
  BY <1>2, <1>3, <1>4

LEMMA StatusKept ==
  ASSUME StatusInv, NEW S, Posts(S),
         \A e \in Events(queue) : Told(e) => Told(e)',
         \A e \in S : Told(e)',
         (\A e \in S : e.kind # "start failed") \/ FailuresFirst(queue'),
         worker.phase = "none" /\ "arm" \notin session.watchers => worker'.phase = "none"
  PROVE  StatusInv'
<1> SUFFICES ASSUME Alive' PROVE StatusInv'
  BY DEF StatusInv
<1>1. session' = session /\ gui' = gui /\ Alive
  BY DEF Posts, guiThread, Alive
<1>2. /\ Events(queue') = Events(queue) \cup Added(queue, queue')
      /\ queue # <<>> => queue' # <<>> /\ Head(queue') = Head(queue)
      /\ (\A e \in Added(queue, queue') : e.kind # "start failed") /\ FailuresFirst(queue) => FailuresFirst(queue')
  BY LongerKeeps DEF Posts
<1>3. \A e \in Events(queue') : Told(e)'
  BY <1>1, <1>2 DEF StatusInv, Posts
<1>4. FailuresFirst(queue')
  BY <1>1, <1>2 DEF StatusInv, Posts
<1>5. ~session.widget => queue' = <<>>
  BY DEF Posts
<1>6. ASSUME gui = "rest"
      PROVE  /\ queue' # <<>> /\ Head(queue').kind = "acquisition" /\ ~Head(queue').active
             /\ "arm" \in session.watchers \/ worker'.phase = "none"
  BY <1>1, <1>2, <1>6 DEF StatusInv
<1>7. Events(queue)' = Events(queue') /\ FailuresFirst(queue)' = FailuresFirst(queue')
  BY DEF Events, FailuresFirst, BeforeArm
<1>8. QED
  BY <1>1, <1>3, <1>4, <1>5, <1>6, <1>7 DEF StatusInv

(* A step that reports nothing and starts no acquisition. *)
LEMMA StatusSame ==
  ASSUME StatusInv, Posts(Notices), UNCHANGED <<worker, statusGeneration>>,
         task["arm"] = "done" => task'["arm"] = "done"
  PROVE  StatusInv'
<1>1. \A e \in Events(queue) : Told(e) => Told(e)'
  BY DEF Told, Fresh
<1>2. \A e \in Notices : Told(e)'
  BY NoticeKinds DEF Told, Fresh
<1>3. QED
  BY <1>1, <1>2, NoticeKinds, StatusKept

(* A task that is not about to arm reports its end, and perhaps its control. *)
LEMMA WatcherPosts ==
  ASSUME TaskInv, Alive, StatusInv, NEW w \in Watchers,
         \/ \E p : ToPhase(w, p)
         \/ \E ok : Returns(w, ok, <<>>)
         \/ \E ok : Returns(w, ok, <<Control>>)
  PROVE  Posts(Notices) /\ \A v \in Watchers : v # w => task'[v] = task[v]
<1>1. {Finished(w)} \subseteq Notices /\ {Control, Finished(w)} \subseteq Notices /\ {} \subseteq Notices
  BY DEF Notices
<1>2. /\ Posts({}) \/ Posts({Finished(w)}) \/ Posts({Control, Finished(w)})
      /\ \A v \in Watchers : v # w => task'[v] = task[v]
  BY TaskPosts
<1>3. QED
  BY <1>1, <1>2, PostsMore

LEMMA StatusPool ==
  ASSUME Inv, TaskInv, DeviceInv, Reported, ModeInv, StatusInv, Alive, PoolStep
  PROVE  StatusInv'
<1>0. {"discovery", "connection", "disconnection", "initialization", "feature", "featureRead", "arm"} \subseteq Watchers
  BY DEF Watchers
<1>1. CASE \/ RunDiscovery \/ OpenDevice \/ ReportConnection
           \/ StopForDisconnect \/ JoinForDisconnect \/ CloseDevice \/ ReleaseDevice
           \/ BeginProfile \/ EndProfile \/ RunFeature \/ ReadFeatures
  <2> DEFINE Does(w) == \/ \E p : ToPhase(w, p)
                        \/ \E ok : Returns(w, ok, <<>>)
                        \/ \E ok : Returns(w, ok, <<Control>>)
  <2>1. \/ Does("discovery") \/ Does("connection") \/ Does("disconnection") \/ Does("initialization")
        \/ Does("feature") \/ Does("featureRead")
    <3>1. RunDiscovery => Does("discovery")
      BY DEF RunDiscovery
    <3>2. OpenDevice \/ ReportConnection => Does("connection")
      BY DEF OpenDevice, ReportConnection
    <3>3. StopForDisconnect \/ JoinForDisconnect \/ CloseDevice \/ ReleaseDevice => Does("disconnection")
      BY DEF StopForDisconnect, JoinForDisconnect, CloseDevice, ReleaseDevice
    <3>4. BeginProfile \/ EndProfile => Does("initialization")
      BY DEF BeginProfile, EndProfile
    <3>5. (RunFeature => Does("feature")) /\ (ReadFeatures => Does("featureRead"))
      BY DEF RunFeature, ReadFeatures
    <3>6. QED
      BY <1>1, <3>1, <3>2, <3>3, <3>4, <3>5
  <2>2. PICK w \in Watchers : w # "arm" /\ Does(w)
    <3> HIDE DEF Does
    <3>1. QED
      BY <1>0, <2>1
  <2>3. Posts(Notices) /\ task'["arm"] = task["arm"]
    BY <1>0, <2>2, WatcherPosts
  <2>4. UNCHANGED <<worker, statusGeneration>>
    BY <1>1 DEF RunDiscovery, OpenDevice, ReportConnection, StopForDisconnect, JoinForDisconnect,
       CloseDevice, ReleaseDevice, BeginProfile, EndProfile, RunFeature, ReadFeatures,
       SameAcquisition, controller, ClearFlags
  <2>5. QED
    BY <2>3, <2>4, StatusSame
<1>2. CASE StartArm \/ BeginArming \/ SetUpArming \/ ReportGrabbing \/ ReturnArmed
  <2>1. (\E p : ToPhase("arm", p)) \/ \E ok : Returns("arm", ok, <<>>)
    BY <1>2 DEF StartArm, BeginArming, SetUpArming, ReportGrabbing, ReturnArmed
  <2>2. Posts(Notices)
    BY <1>0, <2>1, WatcherPosts
  <2>3. UNCHANGED <<worker, statusGeneration>> /\ task["arm"] # "done"
    BY <1>2 DEF StartArm, BeginArming, SetUpArming, ReportGrabbing, ReturnArmed, SameAcquisition,
       controller, SetContinuous, Queued, TaskAt
  <2>4. QED
    BY <2>2, <2>3, StatusSame
<1>3. CASE CompleteArming
  <2>1. /\ TaskAt("arm", "setup") /\ ToPhase("arm", "armed") /\ statusGeneration' = statusGeneration
        /\ worker' = [phase |-> "held", continuous |-> session.armLive, error |-> FALSE]
    BY <1>3 DEF CompleteArming, controller
  <2>2. worker.phase = "none" /\ worker'.phase = "held" /\ task["arm"] = "setup"
    BY <2>1 DEF ModeInv, TaskAt
  <2>3. Posts({})
    BY <1>0, <2>1, TaskPosts
  <2>4. \A e \in Events(queue) : Told(e) => Told(e)'
    BY <2>1, <2>2 DEF Told, Fresh
  <2>5. "arm" \in session.watchers
    BY <1>0, <2>2 DEF TaskInv
  <2>6. QED
    BY <2>3, <2>4, <2>5, StatusKept
<1>4. CASE FailArming
  <2> DEFINE f == Finished("arm")
             q == Append(queue, StartFailed)
  <2>1. /\ task["arm"] = "failed" /\ Returns("arm", FALSE, <<StartFailed>>)
        /\ statusGeneration' = statusGeneration /\ worker' = worker
    BY <1>4 DEF FailArming, TaskAt, SetContinuous, SameAcquisition, StartFailed
  <2>2. Posts({StartFailed, f}) /\ task'["arm"] = "done"
    BY <1>0, <2>1, TaskPosts
  <2>3. worker.phase = "none"
    BY <2>1 DEF ModeInv
  <2>4. \A e \in Events(queue) : Told(e) => Told(e)'
    BY <2>1, <2>2 DEF Told, Fresh
  <2>5. ASSUME NEW e \in {StartFailed, f} PROVE Told(e)'
    <3>0. StartFailed.kind = "start failed" /\ f.kind = "finished"
      BY DEF StartFailed, Finished
    <3>1. e.kind \in {"start failed", "finished"}
      BY <2>5, <3>0
    <3>2. QED
      BY <2>1, <2>2, <2>3, <3>1 DEF Told, Fresh
  <2>6. FailuresFirst(queue')
    <3>1. queue' = Posted(Append(<<StartFailed>>, f))
      BY <2>1 DEF Returns
    <3>2. PICK S : queue \in Seq(S)
      BY DEF TaskInv, QueueOK
    <3>3. \A i \in 1..Len(queue) : queue[i].kind = "finished" => queue[i].task # "arm"
      BY <2>1 DEF TaskInv, QueueOK
    <3>4. \A i \in 1..Len(queue) : queue[i].kind # "start failed"
      BY <2>1 DEF StatusInv, Told, Events
    <3>5. CASE session.widget
      <4>1. queue' = Append(q, f)
        BY <3>1, <3>2, <3>5 DEF Posted, Alive
      <4> DEFINE r == Append(q, f)
      <4> HIDE DEF f
      <4>2. /\ Len(r) = Len(queue) + 2 /\ Len(queue) \in Nat /\ r[Len(queue) + 1] = StartFailed
            /\ \A i \in 1..Len(queue) : r[i] = queue[i]
        BY <3>2
      <4> HIDE DEF q, r
      <4>3. \A i \in 1..Len(r) : i \in 1..Len(queue) \/ i = Len(queue) + 1 \/ i = Len(queue) + 2
        BY <4>2
      <4>0. StartFailed.kind = "start failed"
        BY DEF StartFailed
      <4>4. \A j \in 1..Len(r) : r[j].kind = "finished" /\ r[j].task = "arm" => j = Len(queue) + 2
        BY <3>3, <4>2, <4>3, <4>0
      <4>5. \A i \in 1..Len(r) : r[i].kind = "start failed" => i <= Len(queue) + 1
        <5>1. r[Len(queue) + 2] = f
          BY <3>2, <4>2 DEF r, q
        <5>2. f.kind = "finished"
          BY DEF f, Finished
        <5>3. ASSUME NEW i \in 1..Len(r), r[i].kind = "start failed" PROVE i <= Len(queue) + 1
          <6>1. i # Len(queue) + 2
            BY <5>1, <5>2, <5>3
          <6>2. QED
            BY <4>2, <4>3, <6>1
        <5>4. QED
          BY <5>3
      <4>6. FailuresFirst(r)
        <5>1. ASSUME NEW i \in 1..Len(r), NEW j \in 1..Len(r), i <= Len(queue) + 1, j = Len(queue) + 2
              PROVE  i < j
          BY <4>2, <5>1
        <5>2. QED
          BY <4>4, <4>5, <5>1 DEF FailuresFirst, BeforeArm
      <4>7. QED
        BY <4>1, <4>6 DEF r
    <3>6. CASE ~session.widget
      <4>1. queue' = <<>>
        BY <3>1, <3>6 DEF Posted
      <4>2. Len(<<>>) = 0 /\ 1..0 = {}
        OBVIOUS
      <4>3. QED
        BY <4>1, <4>2 DEF FailuresFirst
    <3>7. QED
      BY <3>5, <3>6
  <2>7. QED
    BY <2>1, <2>2, <2>4, <2>5, <2>6, StatusKept
<1>5. CASE ReportActive
  <2>0. PICK e : e = Acquisition(TRUE, FALSE)
    OBVIOUS
  <2>1. /\ task["arm"] = "grabbing" /\ task' = [task EXCEPT !["arm"] = "told"]
        /\ statusGeneration' = statusGeneration + 1
        /\ queue' = Posted(<<e>>) /\ worker' = [worker EXCEPT !.phase = "running"]
        /\ UNCHANGED guiThread
    BY <1>5, <2>0 DEF ReportActive, TaskAt
  <2>2. e.kind = "acquisition" /\ e.active = TRUE
    BY <2>0 DEF Acquisition
  <2>3. "arm" \in session.watchers /\ worker'.phase = "running"
    BY <1>0, <2>1 DEF TaskInv, DeviceInv, Working
  <2>4. Posts({e})
    BY <2>1, PostedLonger DEF TaskInv, Posts
  <2>5. ASSUME NEW d \in Events(queue), Told(d) PROVE Told(d)'
    <3>1. d.kind = "acquisition" => d.generation # statusGeneration + 1
      BY DEF Reported
    <3>2. d.kind # "start failed"
      BY <2>1, <2>5 DEF Told
    <3>3. QED
      BY <2>1, <3>1, <3>2 DEF Told, Fresh
  <2>6. Told(e)'
    BY <2>2, <2>3 DEF Told, Fresh
  <2>7. QED
    BY <2>2, <2>3, <2>4, <2>5, <2>6, StatusKept
<1>6. QED
  BY <1>1, <1>2, <1>3, <1>4, <1>5 DEF PoolStep

LEMMA StatusWorker ==
  ASSUME TaskInv, DeviceInv, Reported, ModeInv, StatusInv, Alive, WorkerStep \/ SensorStep
  PROVE  StatusInv'
<1>0. worker = [f \in {"phase", "continuous", "error"} |-> worker[f]]
  BY DEF DeviceInv, Working
<1>1. ASSUME Posts(Notices), UNCHANGED <<task, statusGeneration>>,
             worker.phase \in {"running", "leaving", "ended"},
             worker'.phase \in {"running", "leaving", "ended", "telling"}
      PROVE  StatusInv'
  <2>1. \A e \in Events(queue) : Told(e) => Told(e)'
    BY <1>1 DEF Told, Fresh
  <2>2. \A e \in Notices : Told(e)'
    BY NoticeKinds DEF Told, Fresh
  <2>3. QED
    BY <1>1, <2>1, <2>2, NoticeKinds, StatusKept
<1>2. ASSUME UNCHANGED <<queue, guiThread>> PROVE Posts(Notices)
  BY <1>2, PostsNothing, PostsMore
<1>3. CASE LeavePolling \/ FailPolling \/ StopStreaming \/ Disarm \/ ReportIdle
  <2>1. UNCHANGED <<queue, guiThread, task, statusGeneration>> /\ worker.phase \in {"running", "leaving", "ended"}
    BY <1>3 DEF LeavePolling, FailPolling, StopStreaming, Disarm, ReportIdle, WorkerAt, pool, controller
  <2>2. \/ worker' = worker
        \/ \E p \in {"leaving", "ended", "telling"} :
             worker' = [worker EXCEPT !.phase = p] \/ worker' = [worker EXCEPT !.phase = p, !.error = TRUE]
    BY <1>3 DEF LeavePolling, FailPolling, StopStreaming, Disarm, ReportIdle
  <2>3. worker'.phase \in {"running", "leaving", "ended", "telling"}
    BY <1>0, <2>1, <2>2
  <2>4. QED
    BY <1>1, <1>2, <2>1, <2>3
<1>4. CASE ReceiveFrame
  <2>0. PICK e : e = [kind |-> "frame"]
    OBVIOUS
  <2>1. /\ queue' = Posted(<<e>>) \/ queue' = queue
        /\ UNCHANGED <<guiThread, task, statusGeneration>> /\ worker.phase = "running"
        /\ \E p \in {"running", "leaving"} : worker' = [worker EXCEPT !.phase = p]
    BY <1>4, <2>0 DEF ReceiveFrame, WorkerAt, pool
  <2>2. {e} \subseteq Notices
    BY <2>0 DEF Notices
  <2>7. /\ Longer(queue, Posted(<<e>>)) /\ Added(queue, Posted(<<e>>)) \subseteq {e}
        /\ ~session.widget => Posted(<<e>>) = <<>>
    BY PostedLonger DEF TaskInv
  <2>3. queue' = Posted(<<e>>) => Posts({e})
    BY <2>1, <2>7 DEF Posts
  <2>4. Posts(Notices)
    BY <1>2, <2>1, <2>2, <2>3, PostsMore
  <2>5. worker'.phase \in {"running", "leaving"}
    BY <1>0, <2>1
  <2>6. QED
    BY <1>1, <2>1, <2>4, <2>5
<1>5. CASE ReportInactive
  <2>0. PICK e : e = Acquisition(FALSE, worker.error)
    OBVIOUS
  <2>1. /\ worker.phase = "telling" /\ statusGeneration' = statusGeneration + 1
        /\ queue' = Posted(<<e>>) /\ UNCHANGED <<guiThread, task>>
        /\ worker' = [phase |-> "none", continuous |-> FALSE, error |-> FALSE]
    BY <1>5, <2>0 DEF ReportInactive, WorkerAt, pool
  <2>2. e.kind = "acquisition" /\ e.active = FALSE
    BY <2>0 DEF Acquisition
  <2>3. worker'.phase = "none"
    BY <2>1
  <2>4. Posts({e})
    BY <2>1, PostedLonger DEF TaskInv, Posts
  <2>5. ASSUME NEW d \in Events(queue), Told(d) PROVE Told(d)'
    <3>1. d.kind = "acquisition" => d.generation # statusGeneration + 1
      BY DEF Reported
    <3>2. QED
      BY <2>1, <2>3, <2>5, <3>1 DEF Told, Fresh
  <2>6. Told(e)'
    BY <2>2, <2>3 DEF Told, Fresh
  <2>7. QED
    BY <2>2, <2>3, <2>4, <2>5, <2>6, StatusKept
<1>6. QED
  BY <1>3, <1>4, <1>5 DEF WorkerStep, SensorStep

(* What a step of the GUI thread does with the queue. *)
LEMMA QueueMoves ==
  ASSUME TaskInv, CallInv, StatusInv, GuiMove
  PROVE  \/ /\ queue' = queue /\ gui' = gui /\ UNCHANGED task
            /\ UserStep \/ HostStep \/ AdmitTool \/ RefuseTool
         \/ /\ queue' = Append(queue, [kind |-> "refresh"]) /\ gui' = "idle" /\ UNCHANGED task
            /\ ClickRefresh /\ session.widget
         \/ queue' = <<>> /\ gui' \in {"idle", "wait"} /\ (DestroyWidget \/ DestroySession)
         \/ /\ queue # <<>> /\ queue' = Tail(queue) /\ gui' = "idle" /\ (Handles \/ Ends)
            /\ task'["arm"] # task["arm"] => Head(queue).kind = "finished" /\ Head(queue).task = "arm"
         \/ HandleEnd
<1>0. gui = "rest" => queue # <<>>
  BY DEF StatusInv, Alive
<1>1. CASE UserStep
  BY <1>1 DEF UserStep, Click, ClickRefresh, ClickConnect, ClickDisconnect, ClickSingle, ToggleLive,
     ClickInit, EditFeature, ClickTrigger, DestroyWidget, DestroySession, GuiFree, pool
<1>2. CASE HostStep
  BY <1>2 DEF HostStep, StopNothing, AskTool, NewCall, RequestParameter, pool
<1>3. CASE AdmitTool \/ RefuseTool
  BY <1>3 DEF AdmitTool, RefuseTool, pool
<1>4. CASE Handles /\ ~HandleRest
  BY <1>4 DEF Handles, HandleRefresh, HandleControl, HandleApplied, HandleFrame, HandleStale,
     HandleActive, HandleInactive, HandleStartFailed, Handle, Keep, GuiFree, pool
<1>6. CASE Ends
  <2>1. PICK w \in Watchers : /\ Finish(w)
                              /\ \A v \in Watchers : task'[v] = IF v = w THEN "idle" ELSE task[v]
    BY <1>6, EndsFinish
  <2>2. "arm" \in Watchers
    BY DEF Watchers
  <2>3. /\ queue # <<>> /\ queue' = Tail(queue) /\ gui' = "idle"
        /\ Head(queue).kind = "finished" /\ Head(queue).task = w
    BY <2>1 DEF Finish, Handle, GuiFree
  <2>4. QED
    BY <1>6, <2>1, <2>2, <2>3
<1>7. CASE HandleRest
  BY <1>0, <1>7 DEF HandleRest, pool, Handles
<1>8. QED
  BY <1>1, <1>2, <1>3, <1>4, <1>6, <1>7 DEF GuiMove

LEMMA WatchersGrow ==
  ASSUME CallInv, TaskInv, AskedTool, GuiMove
  PROVE  \/ session.watchers \subseteq session'.watchers
         \/ Ends
BY UserStepCalls, HostStepCalls, AdmissionCalls, HandlerCalls DEF GuiMove

(* The end that a call waits for is the end of the acquisition that was armed. *)
LEMMA EndIdle ==
  ASSUME CallInv, TaskInv, DeviceInv, StatusInv, HandleEnd
  PROVE  worker.phase = "none" /\ "arm" \notin session.watchers
<1>1. "arm" \notin session.watchers
  BY DEF HandleEnd, CallInv, Linked, GuiFree, Alive
<1>2. task["arm"] = "idle"
  BY <1>1 DEF TaskInv, Watchers
<1>3. Head(queue) \in Events(queue)
  BY EventsTail DEF HandleEnd, TaskInv, QueueOK
<1>4. Told(Head(queue)) /\ Fresh(Head(queue)) /\ ~Head(queue).active
  BY <1>3 DEF StatusInv, HandleEnd, Stale, GuiFree, Alive, Fresh
<1>5. worker.phase \in {"none", "held"}
  BY <1>4 DEF Told
<1>6. QED
  BY <1>1, <1>2, <1>5 DEF DeviceInv, Working

LEMMA StatusGui ==
  ASSUME CallInv, TaskInv, AskedTool, DeviceInv, StatusInv, Sound(session), GuiMove
  PROVE  StatusInv'
<1>1. /\ Alive /\ UNCHANGED <<worker, statusGeneration>>
      /\ \A w \in Watchers : task'[w] = task[w] \/ (task[w] = "done" /\ task'[w] = "idle")
  BY GuiMoves DEF controller
<1>2. PICK S : queue \in Seq(S)
  BY DEF TaskInv, QueueOK
<1>3. /\ \A e \in Events(queue) : Told(e)
      /\ FailuresFirst(queue)
      /\ ~session.widget => queue = <<>>
      /\ gui = "rest" =>
            /\ queue # <<>> /\ Head(queue).kind = "acquisition" /\ ~Head(queue).active
            /\ "arm" \in session.watchers \/ worker.phase = "none"
  BY <1>1 DEF StatusInv
<1>4. session'.widget = session.widget \/ DestroyWidget
  BY SoundMoves
<1>5. ASSUME NEW e, Told(e), e.kind = "start failed" => task'["arm"] = task["arm"] PROVE Told(e)'
  BY <1>1, <1>5 DEF Told, Fresh
<1>6. /\ Events(queue)' = Events(queue') /\ FailuresFirst(queue)' = FailuresFirst(queue')
      /\ Alive' <=> gui' \in {"idle", "rest"}
  BY DEF Events, FailuresFirst, BeforeArm, Alive
<1>7. CASE queue' = queue /\ gui' = gui /\ UNCHANGED task /\ (UserStep \/ HostStep \/ AdmitTool \/ RefuseTool)
  <2>1. session.watchers \subseteq session'.watchers
    BY <1>7, UserStepCalls, HostStepCalls, AdmissionCalls
  <2>2. DestroyWidget => queue' = <<>>
    BY DEF DestroyWidget
  <2>3. \A e \in Events(queue') : Told(e)'
    BY <1>3, <1>5, <1>7
  <2>4. QED
    BY <1>1, <1>3, <1>4, <1>6, <1>7, <2>1, <2>2, <2>3 DEF StatusInv
<1>8. CASE /\ queue' = Append(queue, [kind |-> "refresh"]) /\ gui' = "idle" /\ UNCHANGED task
           /\ ClickRefresh /\ session.widget
  <2>0. PICK r : r = [kind |-> "refresh"]
    OBVIOUS
  <2>1. Longer(queue, queue') /\ Added(queue, queue') = {r}
    BY <1>2, <1>8, <2>0, LongerAppend
  <2>2. r.kind = "refresh"
    BY <2>0
  <2>3. Events(queue') = Events(queue) \cup {r} /\ FailuresFirst(queue')
    BY <1>3, <2>1, <2>2, LongerKeeps
  <2>4. Told(r)'
    BY <2>2 DEF Told, Fresh
  <2>5. \A e \in Events(queue') : Told(e)'
    BY <1>3, <1>5, <1>8, <2>3, <2>4
  <2>6. session'.widget
    BY <1>4, <1>8, <2>1 DEF DestroyWidget, ClickRefresh, Click
  <2>7. QED
    BY <1>6, <1>8, <2>3, <2>5, <2>6 DEF StatusInv
<1>9. CASE queue' = <<>> /\ gui' \in {"idle", "wait"}
  <2>1. Events(queue') = {}
    BY <1>9, EventsEmpty
  <2>2. FailuresFirst(queue')
    <3>1. Len(<<>>) = 0 /\ 1..0 = {}
      OBVIOUS
    <3>2. QED
      BY <1>9, <3>1 DEF FailuresFirst
  <2>3. QED
    BY <1>6, <1>9, <2>1, <2>2 DEF StatusInv
<1>10. CASE /\ queue # <<>> /\ queue' = Tail(queue) /\ gui' = "idle" /\ (Handles \/ Ends)
            /\ task'["arm"] # task["arm"] => Head(queue).kind = "finished" /\ Head(queue).task = "arm"
  <2>1. /\ Events(queue) = {Head(queue)} \cup Events(queue') /\ FailuresFirst(queue')
        /\ Head(queue).kind = "finished" /\ Head(queue).task = "arm" =>
              \A e \in Events(queue') : e.kind # "start failed"
    BY <1>2, <1>3, <1>10, TailKeeps
  <2>2. \A e \in Events(queue') : Told(e)'
    BY <1>3, <1>5, <1>10, <2>1
  <2>3. session'.widget = session.widget /\ session.widget
    <3>1. ~DestroyWidget \/ queue' = <<>>
      BY DEF DestroyWidget
    <3>2. session.widget
      BY <1>3, <1>10
    <3>3. Keeps(session, session')
      BY <1>10, HandlerKeeps, EndsKeep
    <3>4. QED
      BY <3>2, <3>3 DEF Keeps
  <2>4. QED
    BY <1>6, <1>10, <2>1, <2>2, <2>3 DEF StatusInv
<1>11. CASE HandleEnd
  <2>1. /\ queue' = queue /\ queue # <<>> /\ Head(queue).kind = "acquisition" /\ ~Head(queue).active
        /\ UNCHANGED <<task, worker>>
    BY <1>11 DEF HandleEnd, pool, device
  <2>2. worker'.phase = "none"
    BY <1>11, <2>1, EndIdle
  <2>3. \A e \in Events(queue') : Told(e)'
    BY <1>3, <1>5, <2>1
  <2>4. session'.widget = session.widget
    BY <1>11, HandlerKeeps DEF Handles, Keeps
  <2>5. QED
    BY <1>3, <1>6, <2>1, <2>2, <2>3, <2>4 DEF StatusInv
<1>12. QED
  BY <1>7, <1>8, <1>9, <1>10, <1>11, QueueMoves

(* Only the GUI thread changes gui. *)
LEMMA OthersKeepGui ==
  PoolStep \/ ParameterWork \/ WorkerStep \/ SensorStep \/ Destroyed \/ UNCHANGED vars => gui' = gui
<1>1. ASSUME NEW w, NEW p, ToPhase(w, p) PROVE gui' = gui
  BY <1>1 DEF ToPhase, guiThread
<1>2. ASSUME NEW w, NEW ok, NEW posts, Returns(w, ok, posts) PROVE gui' = gui
  BY <1>2 DEF Returns, guiThread
<1>3. PoolStep => gui' = gui
  BY <1>1, <1>2 DEF PoolStep, RunDiscovery, OpenDevice, ReportConnection,
     StopForDisconnect, JoinForDisconnect, CloseDevice, ReleaseDevice, BeginProfile,
     EndProfile, RunFeature, ReadFeatures, StartArm, BeginArming, SetUpArming,
     CompleteArming, FailArming, ReportGrabbing, ReportActive, ReturnArmed, guiThread
<1>4. WorkerStep \/ SensorStep => gui' = gui
  BY DEF WorkerStep, SensorStep, ReceiveFrame, LeavePolling, FailPolling,
   StopStreaming, Disarm, ReportIdle, ReportInactive, WorkerAt, guiThread
<1>5. ParameterWork => gui' = gui
  BY DEF ParameterWork, RunParameter, ReportParameter, ReportApplied, ReturnParameter, ParameterStep, guiThread
<1>6. Destroyed \/ UNCHANGED vars => gui' = gui
  BY DEF Destroyed, vars, guiThread
<1>7. QED
  BY <1>3, <1>4, <1>5, <1>6

LEMMA StatusNext ==
  /\ Inv /\ CallInv /\ TaskInv /\ AskedTool /\ DeviceInv /\ AnswerInv /\ ModeInv /\ Sound(session)
  /\ StatusInv /\ [Next]_vars
  => StatusInv'
<1> SUFFICES ASSUME Inv, CallInv, TaskInv, AskedTool, DeviceInv, AnswerInv, ModeInv, Sound(session),
                    StatusInv, [Next]_vars
             PROVE  StatusInv'
  OBVIOUS
<1>1. CASE GuiMove
  BY <1>1, StatusGui
<1>2. CASE \/ AwaitWatchers \/ AwaitParameters \/ JoinForDestruction
           \/ CloseForDestruction \/ ReleaseForDestruction
  <2>1. ~Alive'
    BY <1>2 DEF AwaitWatchers, AwaitParameters, JoinForDestruction, CloseForDestruction,
       ReleaseForDestruction, Destructor, Alive
  <2>2. QED
    BY <2>1 DEF StatusInv
<1>3. CASE gui' = gui /\ ~Alive
  <2>1. ~Alive'
    BY <1>3 DEF Alive
  <2>2. QED
    BY <2>1 DEF StatusInv
<1>4. PoolStep \/ ParameterWork \/ WorkerStep \/ SensorStep \/ Destroyed \/ UNCHANGED vars => gui' = gui
  BY OthersKeepGui
<1>5. CASE Alive /\ PoolStep
  BY <1>5, StatusPool DEF AnswerInv
<1>6. CASE Alive /\ (WorkerStep \/ SensorStep)
  BY <1>6, StatusWorker DEF AnswerInv
<1>7. CASE Alive /\ (ParameterWork \/ Destroyed \/ UNCHANGED vars)
  <2>1. UNCHANGED <<guiThread, worker, statusGeneration, task>>
    BY <1>7 DEF ParameterWork, RunParameter, ReportParameter, ReportApplied, ReturnParameter,
       ParameterStep, Destroyed, vars, device, controller, pool
  <2>2. queue' = queue \/ queue' = Posted(<<Control>>) \/ queue' = Posted(<<[kind |-> "applied"]>>)
    BY <1>7 DEF ParameterWork, RunParameter, ReportParameter, ReportApplied, ReturnParameter,
       Destroyed, vars
  <2>3. ASSUME NEW e \in Notices, queue' = Posted(<<e>>) PROVE Posts(Notices)
    <3>1. /\ Longer(queue, Posted(<<e>>)) /\ Added(queue, Posted(<<e>>)) \subseteq {e}
          /\ ~session.widget => Posted(<<e>>) = <<>>
      BY <1>7, PostedLonger DEF TaskInv
    <3>2. QED
      BY <2>1, <2>3, <3>1 DEF Posts
  <2>4. Control \in Notices /\ [kind |-> "applied"] \in Notices
    BY DEF Notices
  <2>5. queue' = queue => Posts(Notices)
    BY <1>7, <2>1, PostsNothing, PostsMore
  <2>6. QED
    BY <2>1, <2>2, <2>3, <2>4, <2>5, StatusSame
<1>8. QED
  BY <1>1, <1>2, <1>3, <1>4, <1>5, <1>6, <1>7 DEF Next, GuiStep, GuiMove, Handles, Ends

------------------------------------------------------------------------------
(* What the session operations do to the fields that the widget has to fit. *)
Shown4 == {"connected", "connectChecked", "acquisitionActive", "acquisitionAvailable"}

(* t has the watchers W, and its widget shows what that of s does but for S. *)
Becomes(s, t, W, d, r, S) ==
  /\ Keeps(s, t)
  /\ t.watchers = W /\ t.disconnectPending = d /\ t.refreshFor = r
  /\ \A f \in Main \ S : t.ui[f] = s.ui[f]

Alike(s, t, S) == Becomes(s, t, s.watchers, s.disconnectPending, s.refreshFor, S)

LEMMA FieldAlike ==
  ASSUME NEW s, Sound(s)
  PROVE  /\ Alike(s, s, {})
         /\ \A u, S : Same(s.ui, u, S) => Alike(s, [s EXCEPT !.ui = u], S)
         /\ \A c \in Completions, k \in {NoCall} \cup Calls : Alike(s, [s EXCEPT !.completion[c] = k], {})
         /\ \A k \in {NoCall} \cup Calls : Alike(s, [s EXCEPT !.toolCall = k], {})
         /\ \A b \in BOOLEAN : Alike(s, [s EXCEPT !.armLive = b], {})
         /\ \A w \in Watchers :
              /\ Becomes(s, Started(s, w), s.watchers \cup {w}, s.disconnectPending, s.refreshFor, {})
              /\ Becomes(s, Dropped(s, w), s.watchers \ {w}, s.disconnectPending, s.refreshFor, {})
<1>0. s = [f \in Fields |-> s[f]]
  BY SoundIsSession DEF IsSession
<1>1. Alike(s, s, {})
  BY FieldKeeps DEF Alike, Becomes
<1>2. ASSUME NEW u, NEW S, Same(s.ui, u, S) PROVE Alike(s, [s EXCEPT !.ui = u], S)
  <2>1. Keeps(s, [s EXCEPT !.ui = u])
    BY <1>2, UiKeeps
  <2>2. QED
    BY <1>0, <1>2, <2>1 DEF Alike, Becomes, Same, Fields
<1>3. ASSUME NEW c \in Completions, NEW k \in {NoCall} \cup Calls
      PROVE  Alike(s, [s EXCEPT !.completion[c] = k], {})
  <2>1. Keeps(s, [s EXCEPT !.completion[c] = k])
    BY FieldKeeps
  <2>2. QED
    BY <1>0, <2>1 DEF Alike, Becomes, Fields
<1>4. ASSUME NEW k \in {NoCall} \cup Calls PROVE Alike(s, [s EXCEPT !.toolCall = k], {})
  <2>1. Keeps(s, [s EXCEPT !.toolCall = k])
    BY FieldKeeps
  <2>2. QED
    BY <1>0, <2>1 DEF Alike, Becomes, Fields
<1>5. ASSUME NEW b \in BOOLEAN PROVE Alike(s, [s EXCEPT !.armLive = b], {})
  <2>1. Keeps(s, [s EXCEPT !.armLive = b])
    BY FieldKeeps
  <2>2. QED
    BY <1>0, <2>1 DEF Alike, Becomes, Fields
<1>6. ASSUME NEW w \in Watchers
      PROVE  /\ Becomes(s, Started(s, w), s.watchers \cup {w}, s.disconnectPending, s.refreshFor, {})
             /\ Becomes(s, Dropped(s, w), s.watchers \ {w}, s.disconnectPending, s.refreshFor, {})
  <2>1. Keeps(s, Started(s, w)) /\ Keeps(s, Dropped(s, w))
    BY FieldKeeps
  <2>2. QED
    BY <1>0, <2>1 DEF Becomes, Started, Dropped, Fields
<1>7. QED
  BY <1>1, <1>2, <1>3, <1>4, <1>5, <1>6

LEMMA AlikeTrans ==
  ASSUME NEW s, NEW t, NEW u, NEW S, NEW T
  PROVE  /\ Alike(s, t, S) /\ Alike(t, u, T) => Alike(s, u, S \cup T)
         /\ Alike(s, t, {}) /\ Alike(t, u, {}) => Alike(s, u, {})
         /\ Alike(s, t, S) /\ Alike(t, u, {}) => Alike(s, u, S)
         /\ \A W, d, r : Becomes(s, t, W, d, r, S) /\ Alike(t, u, T) => Becomes(s, u, W, d, r, S \cup T)
         /\ \A W, d, r : Becomes(s, t, W, d, r, S) /\ Alike(t, u, {}) => Becomes(s, u, W, d, r, S)
BY DEF Alike, Becomes, Keeps

LEMMA ShownAlike ==
  ASSUME NEW s, Sound(s), NEW busy \in BOOLEAN
  PROVE  Alike(s, Shown(s, busy), {})
<1> DEFINE u == IF s.watchers \cap {"feature", "featureRead", "initialization"} = {}
                  THEN SetFeatureOperationPending(s.ui, busy) ELSE s.ui
           t == [s EXCEPT !.externalBusyShown = busy, !.ui = u]
<1>0. s = [f \in Fields |-> s[f]]
  BY SoundIsSession DEF IsSession
<1>1. Same(s.ui, u, {})
  BY FeatureSet DEF Sound, Same
<1>2. Shown(s, busy) \in {s, t} /\ Keeps(s, Shown(s, busy))
  BY ShownKeeps DEF Shown
<1> HIDE DEF u
<1>3. t.watchers = s.watchers /\ t.disconnectPending = s.disconnectPending /\ t.refreshFor = s.refreshFor
        /\ t.ui = u
  BY <1>0 DEF Fields
<1> HIDE DEF t
<1>4. QED
  BY <1>1, <1>2, <1>3 DEF Alike, Becomes, Same

LEMMA ControlChangedAlike ==
  ASSUME NEW s, Sound(s)
  PROVE  Alike(s, ControlChanged(s), {})
BY ShownAlike DEF ControlChanged

LEMMA CompletedAlike ==
  ASSUME NEW s, Sound(s), NEW c \in Completions
  PROVE  Alike(s, Completed(s, c), {})
<1> DEFINE t == [s EXCEPT !.completion[c] = NoCall]
           k == IF t.toolCall = s.completion[c] THEN NoCall ELSE t.toolCall
           u == [t EXCEPT !.toolCall = k]
<1>1. Completed(s, c) \in {s, ControlChanged(u)}
  BY DEF Completed, ToolFinished
<1>2. Alike(s, t, {}) /\ Sound(t)
  BY FieldAlike DEF Alike, Becomes, Keeps
<1>3. k \in {NoCall} \cup Calls
  BY <1>2 DEF Sound, Session
<1> HIDE DEF t, k
<1>4. Alike(t, u, {}) /\ Sound(u)
  BY <1>2, <1>3, FieldAlike DEF Alike, Becomes, Keeps
<1> HIDE DEF u
<1>5. Alike(u, ControlChanged(u), {})
  BY <1>4, ControlChangedAlike
<1>6. Alike(s, ControlChanged(u), {})
  BY <1>2, <1>4, <1>5, AlikeTrans
<1>7. QED
  BY <1>1, <1>6, FieldAlike

LEMMA StopShownAlike ==
  ASSUME NEW s, Sound(s)
  PROVE  Alike(s, StopShown(s), {})
BY StopPendingSet, FieldAlike DEF StopShown, Sound

(* The operations that start a watcher. *)
LEMMA OperationBecomes ==
  ASSUME NEW s, Sound(s), NEW call \in {NoCall} \cup Calls, NEW live \in BOOLEAN,
         NEW o \in {"write", "trigger"}
  PROVE  LET B(t, w, S) == Becomes(s, t, s.watchers \cup {w}, s.disconnectPending, s.refreshFor, S)
         IN /\ B(Discover(s, call), "discovery", {"discoveryPending"})
            /\ B(Connect(s, call), "connection", {})
            /\ B(Arm(s, live, call), "arm", {"armPending"})
            /\ B(RunFeatureOperation(s, o), "feature", {})
            /\ B(Initialize(s), "initialization", {"initializationPending"})
<1> DEFINE d == SetDiscoveryPending(s.ui, TRUE)
           a == ArmBegun(s.ui, live)
           f == SetFeatureOperationPending(s.ui, TRUE)
           i == InitializationBegun(s.ui)
<1>0. s = [x \in Fields |-> s[x]]
  BY SoundIsSession DEF IsSession
<1>1. Coherent(s.ui) /\ TRUE \in BOOLEAN
  BY DEF Sound
<1>2. /\ Same(s.ui, d, {"discoveryPending"}) /\ Same(s.ui, a, {"armPending"}) /\ Same(s.ui, f, {})
      /\ Same(s.ui, i, {"initializationPending"})
  BY <1>1, DiscoverySet, ArmSet, FeatureSet, InitializationSet
<1>3. /\ Keeps(s, Discover(s, call)) /\ Keeps(s, Connect(s, call)) /\ Keeps(s, Arm(s, live, call))
      /\ Keeps(s, RunFeatureOperation(s, o)) /\ Keeps(s, Initialize(s))
  BY OperationKeeps
<1>4. /\ Discover(s, call) = [s EXCEPT !.watchers = @ \cup {"discovery"}, !.ui = d, !.completion["discovery"] = call]
      /\ Connect(s, call) = [s EXCEPT !.watchers = @ \cup {"connection"}, !.completion["connect"] = call]
      /\ Arm(s, live, call) = [s EXCEPT !.watchers = @ \cup {"arm"}, !.completion["arm"] = call,
                                        !.armLive = live, !.ui = a]
      /\ RunFeatureOperation(s, o) = [s EXCEPT !.watchers = @ \cup {"feature"}, !.ui = f, !.featureOperation = o]
      /\ Initialize(s) = [s EXCEPT !.watchers = @ \cup {"initialization"}, !.ui = i]
  BY <1>0 DEF Discover, Connect, Arm, RunFeatureOperation, Initialize, Started, Fields
<1> HIDE DEF d, a, f, i
<1>5. \A t, w, u : t.watchers = s.watchers \cup {w} /\ t.disconnectPending = s.disconnectPending
        /\ t.refreshFor = s.refreshFor /\ t.ui = u /\ Keeps(s, t)
        => \A S : Same(s.ui, u, S) => Becomes(s, t, s.watchers \cup {w}, s.disconnectPending, s.refreshFor, S)
  BY DEF Becomes, Same
<1>6. Same(s.ui, s.ui, {})
  BY <1>1 DEF Same
<1>7. QED
  BY <1>0, <1>2, <1>3, <1>4, <1>5, <1>6 DEF Fields


LEMMA DisconnectBecomes ==
  ASSUME NEW s, Sound(s), NEW call \in {NoCall} \cup Calls
  PROVE  /\ \/ CompleteDisconnect(s) = s /\ (~s.widget \/ "disconnection" \in s.watchers)
            \/ Becomes(s, CompleteDisconnect(s), s.watchers \cup {"disconnection"}, TRUE, s.refreshFor, {"disconnectionPending"})
         /\ s.widget /\ "disconnection" \notin s.watchers =>
              \E W : Becomes(s, Disconnect(s, call), W, TRUE, s.refreshFor, {"disconnectionPending"})
                     /\ (W = s.watchers \/ W = s.watchers \cup {"disconnection"})
<1> DEFINE D1(x) == Becomes(x, CompleteDisconnect(x), x.watchers \cup {"disconnection"}, TRUE, x.refreshFor, {"disconnectionPending"})
<1>1. ASSUME NEW x, Sound(x), x.widget, "disconnection" \notin x.watchers
      PROVE  D1(x)
  <2> DEFINE u == SetDisconnectionPending(x.ui)
  <2>1. Same(x.ui, u, {"disconnectionPending"})
    BY <1>1, DisconnectionPendingSet DEF Sound
  <2>2. x = [f \in Fields |-> x[f]] /\ Keeps(x, CompleteDisconnect(x))
    BY <1>1, SoundIsSession, CompleteDisconnectKeeps DEF IsSession
  <2>3. CompleteDisconnect(x) = [x EXCEPT !.watchers = @ \cup {"disconnection"}, !.disconnectPending = TRUE, !.ui = u]
    BY <1>1, <2>2 DEF CompleteDisconnect, Started, Fields
  <2> HIDE DEF u
  <2>4. QED
    BY <2>1, <2>2, <2>3 DEF Becomes, Same, Fields
<1>2. \/ CompleteDisconnect(s) = s /\ (~s.widget \/ "disconnection" \in s.watchers)
      \/ D1(s)
  BY <1>1 DEF CompleteDisconnect
<1>3. ASSUME s.widget, "disconnection" \notin s.watchers
      PROVE  \E W : Becomes(s, Disconnect(s, call), W, TRUE, s.refreshFor, {"disconnectionPending"})
                    /\ (W = s.watchers \/ W = s.watchers \cup {"disconnection"})
  <2> DEFINE v == [s EXCEPT !.completion["disconnect"] = call]
             u == SetDisconnectionPending(v.ui)
             t == [v EXCEPT !.disconnectPending = TRUE, !.ui = u]
  <2>1. Disconnect(s, call) = IF isGrabbing THEN t ELSE CompleteDisconnect(v)
    BY DEF Disconnect
  <2>2. Alike(s, v, {}) /\ Sound(v)
    BY FieldAlike DEF Completions, Alike, Becomes, Keeps
  <2>3. Keeps(s, Disconnect(s, call))
    BY DisconnectKeeps
  <2> HIDE DEF v
  <2>4. v = [f \in Fields |-> v[f]]
    BY <2>2, SoundIsSession DEF IsSession
  <2>5. Same(v.ui, u, {"disconnectionPending"})
    BY <2>2, DisconnectionPendingSet DEF Sound
  <2> HIDE DEF u
  <2>6. CASE isGrabbing
    <3>1. t.watchers = s.watchers /\ t.disconnectPending = TRUE /\ t.refreshFor = s.refreshFor /\ t.ui = u
      BY <2>2, <2>4 DEF Alike, Becomes, Fields
    <3>2. Becomes(s, t, s.watchers, TRUE, s.refreshFor, {"disconnectionPending"})
      BY <2>1, <2>2, <2>3, <2>5, <2>6, <3>1 DEF Alike, Becomes, Same
    <3>3. QED
      BY <2>1, <2>6, <3>2
  <2>7. CASE ~isGrabbing
    <3>1. D1(v)
      BY <1>1, <1>3, <2>2 DEF Alike, Becomes, Keeps
    <3>2. Becomes(s, CompleteDisconnect(v), s.watchers \cup {"disconnection"}, TRUE, s.refreshFor, {"disconnectionPending"})
      BY <2>2, <3>1 DEF Alike, Becomes, Keeps
    <3>3. QED
      BY <2>1, <2>7, <3>2
  <2>8. QED
    BY <2>6, <2>7
<1>4. QED
  BY <1>2, <1>3

LEMMA RefreshBecomes ==
  ASSUME NEW s, Sound(s), NEW for \in Refreshes
  PROVE  /\ RefreshRefused(s) => RefreshFeatureTree(s, for) = AfterRefresh(s, for)
         /\ ~RefreshRefused(s) =>
              LET t == RefreshFeatureTree(s, for)
              IN Becomes(s, t, s.watchers \cup {"featureRead"}, s.disconnectPending, for, {"refreshPending"})
<1> DEFINE u == SetFeatureRefreshPending(s.ui, TRUE)
           t == RefreshFeatureTree(s, for)
<1>0. s = [x \in Fields |-> s[x]] /\ Keeps(s, t)
  BY SoundIsSession, RefreshKeeps DEF IsSession
<1>1. Same(s.ui, u, {"refreshPending"})
  <2>1. Coherent(s.ui) /\ TRUE \in BOOLEAN
    BY DEF Sound
  <2>2. QED
    BY <2>1, FeatureSet
<1>2. RefreshFeatureTree(s, for) = IF RefreshRefused(s) THEN AfterRefresh(s, for)
        ELSE [s EXCEPT !.watchers = @ \cup {"featureRead"}, !.ui = u, !.refreshFor = for]
  BY <1>0 DEF RefreshFeatureTree, Started, Fields
<1> HIDE DEF u
<1>3. ASSUME ~RefreshRefused(s)
      PROVE  t.watchers = s.watchers \cup {"featureRead"} /\ t.disconnectPending = s.disconnectPending
             /\ t.refreshFor = for /\ t.ui = u
  BY <1>0, <1>2, <1>3 DEF Fields
<1> HIDE DEF t
<1>4. ~RefreshRefused(s) => Becomes(s, t, s.watchers \cup {"featureRead"}, s.disconnectPending, for, {"refreshPending"})
  BY <1>0, <1>1, <1>3 DEF Becomes, Same
<1>5. QED
  BY <1>2, <1>4 DEF t

(* What the completion of a refresh shows. *)
LEMMA AfterRefreshAlike ==
  ASSUME NEW s, Sound(s), NEW for \in Refreshes
  PROVE  LET t == AfterRefresh(s, for)
         IN /\ Alike(s, t, {"initializationPending", "acquisitionAvailable"})
            /\ for \in {"initialized", "profile failed"} => ~t.ui.initializationPending
            /\ for \notin {"initialized", "profile failed"} => t.ui.initializationPending = s.ui.initializationPending
            /\ IF for \in {"connect", "initialized"} THEN t.ui.acquisitionAvailable = TRUE
               ELSE t.ui.acquisitionAvailable = s.ui.acquisitionAvailable
<1> DEFINE a == SetAcquisitionAvailable(s.ui, TRUE)
           e == InitializationEnded(s.ui)
           b == SetAcquisitionAvailable(e, TRUE)
           f == SetFeatureOperationPending(s.ui, FALSE)
           v == [s EXCEPT !.ui = a]
           G(t) == /\ Alike(s, t, {"initializationPending", "acquisitionAvailable"})
                   /\ for \in {"initialized", "profile failed"} => ~t.ui.initializationPending
                   /\ for \notin {"initialized", "profile failed"} => t.ui.initializationPending = s.ui.initializationPending
                   /\ IF for \in {"connect", "initialized"} THEN t.ui.acquisitionAvailable = TRUE
                      ELSE t.ui.acquisitionAvailable = s.ui.acquisitionAvailable
<1>0. s = [x \in Fields |-> s[x]]
  BY SoundIsSession DEF IsSession
<1>1. Coherent(s.ui) /\ s.ui \in Widget /\ TRUE \in BOOLEAN /\ FALSE \in BOOLEAN
  BY DEF Sound, Coherent
<1>2. Same(s.ui, a, {"acquisitionAvailable"}) /\ a.acquisitionAvailable = TRUE
  <2>1. /\ Same(s.ui, a, {"acquisitionAvailable", "acquisitionActive"})
        /\ a.acquisitionAvailable = TRUE /\ a.acquisitionActive = (s.ui.acquisitionActive /\ TRUE)
    BY <1>1, AvailableSet
  <2>2. s.ui.acquisitionActive \in BOOLEAN
    BY <1>1 DEF Widget, Flags
  <2> HIDE DEF a
  <2>3. QED
    BY <2>1, <2>2 DEF Same
<1>3. Same(s.ui, e, {"initializationPending"}) /\ ~e.initializationPending /\ e \in Widget /\ Coherent(e)
  BY <1>1, InitializationSet DEF Same, Coherent
<1>4. Same(s.ui, b, {"initializationPending", "acquisitionAvailable"}) /\ ~b.initializationPending
      /\ b.acquisitionAvailable = TRUE
  <2> HIDE DEF e
  <2>1. /\ Same(e, b, {"acquisitionAvailable", "acquisitionActive"})
        /\ b.acquisitionAvailable = TRUE /\ b.acquisitionActive = (e.acquisitionActive /\ TRUE)
    BY <1>1, <1>3, AvailableSet
  <2>2. e.acquisitionActive \in BOOLEAN
    BY <1>3 DEF Widget, Flags
  <2> HIDE DEF b
  <2>3. b.initializationPending = e.initializationPending
    BY <2>1 DEF Same, Main
  <2>4. QED
    BY <1>3, <2>1, <2>2, <2>3 DEF Same
<1>5. Same(s.ui, f, {})
  BY <1>1, FeatureSet
<1>6. Alike(s, v, {"acquisitionAvailable"}) /\ v.ui = a /\ Sound(v)
  <2> HIDE DEF a
  <2>1. Alike(s, v, {"acquisitionAvailable"})
    BY <1>2, FieldAlike
  <2>2. v.ui = a
    BY <1>0 DEF Fields
  <2>3. QED
    BY <2>1, <2>2 DEF Alike, Becomes, Keeps
<1>7. CASE for = "connect"
  <2> HIDE DEF v, a
  <2>1. AfterRefresh(s, for) = Completed(v, "connect")
    BY <1>7 DEF AfterRefresh, v, a
  <2>2. Alike(v, Completed(v, "connect"), {})
    BY <1>6, CompletedAlike DEF Completions
  <2> DEFINE t == Completed(v, "connect")
  <2> HIDE DEF t
  <2>3. Alike(v, t, {}) /\ AfterRefresh(s, for) = t
    BY <2>1, <2>2 DEF t
  <2>4. G(t)
    BY <1>2, <1>6, <1>7, <2>3 DEF Alike, Becomes, Keeps, Main
  <2>5. QED
    BY <2>3, <2>4
<1>8. CASE for = "initialized"
  <2> HIDE DEF b
  <2>1. AfterRefresh(s, for) = [s EXCEPT !.ui = b]
    BY <1>8 DEF AfterRefresh, b
  <2>2. Alike(s, [s EXCEPT !.ui = b], {"initializationPending", "acquisitionAvailable"}) /\ [s EXCEPT !.ui = b].ui = b
    BY <1>0, <1>4, FieldAlike DEF Fields
  <2> DEFINE t == [s EXCEPT !.ui = b]
  <2> HIDE DEF t
  <2>3. Alike(s, t, {"initializationPending", "acquisitionAvailable"}) /\ t.ui = b /\ AfterRefresh(s, for) = t
    BY <2>1, <2>2 DEF t
  <2>4. G(t)
    BY <1>4, <1>8, <2>3
  <2>5. QED
    BY <2>3, <2>4
<1>9. CASE for = "profile failed"
  <2> HIDE DEF e
  <2>1. AfterRefresh(s, for) = [s EXCEPT !.ui = e]
    BY <1>9 DEF AfterRefresh, e
  <2>2. Alike(s, [s EXCEPT !.ui = e], {"initializationPending"}) /\ [s EXCEPT !.ui = e].ui = e
    BY <1>0, <1>3, FieldAlike DEF Fields
  <2> DEFINE t == [s EXCEPT !.ui = e]
  <2> HIDE DEF t
  <2>3. Alike(s, t, {"initializationPending"}) /\ t.ui = e /\ AfterRefresh(s, for) = t
    BY <2>1, <2>2 DEF t
  <2>4. G(t)
    BY <1>3, <1>9, <2>3 DEF Alike, Becomes, Main
  <2>5. QED
    BY <2>3, <2>4
<1>10. CASE for = "feature"
  <2> HIDE DEF f
  <2>1. AfterRefresh(s, for) = [s EXCEPT !.ui = f]
    BY <1>10 DEF AfterRefresh, f
  <2>2. Alike(s, [s EXCEPT !.ui = f], {})
    BY <1>5, FieldAlike
  <2> DEFINE t == [s EXCEPT !.ui = f]
  <2> HIDE DEF t
  <2>3. Alike(s, t, {}) /\ AfterRefresh(s, for) = t
    BY <2>1, <2>2 DEF t
  <2>4. G(t)
    BY <1>10, <2>3 DEF Alike, Becomes, Main
  <2>5. QED
    BY <2>3, <2>4
<1>11. CASE for = "nothing"
  <2>1. AfterRefresh(s, for) = s
    BY <1>11 DEF AfterRefresh
  <2>2. G(s)
    BY <1>11, FieldAlike DEF Alike, Becomes, Main
  <2>3. QED
    BY <2>1, <2>2
<1>12. QED
  BY <1>7, <1>8, <1>9, <1>10, <1>11 DEF Refreshes

------------------------------------------------------------------------------
(* What keeps the widget fitting. *)
LEMMA FitChange ==
  ASSUME NEW s, NEW t, NEW q, NEW g, NEW x, NEW y, Fit(s, q, g, x), t.widget = s.widget,
         \A f \in Shown4 : t.ui[f] = s.ui[f],
         Works(t), s.widget => Pendings(t, y),
         "connection" \in t.watchers => "connection" \in s.watchers,
         Moving(s) => Moving(t),
         \/ "arm" \in t.watchers <=> "arm" \in s.watchers
         \/ worker.phase \notin {"running", "leaving"}
         \/ "arm" \notin t.watchers /\ ~StartQueued(q, g)
  PROVE  Fit(t, q, g, y)
<1>1. /\ t.ui.connected = s.ui.connected /\ t.ui.connectChecked = s.ui.connectChecked
      /\ t.ui.acquisitionActive = s.ui.acquisitionActive
      /\ t.ui.acquisitionAvailable = s.ui.acquisitionAvailable
  BY DEF Shown4
<1>2. ASSUME ActiveShown(s, q, g) PROVE ActiveShown(t, q, g)
  BY <1>1, <1>2 DEF ActiveShown
<1>3. ASSUME Shows(s, q, g) PROVE Shows(t, q, g)
  BY <1>1, <1>2, <1>3 DEF Shows, AvailableShown
<1>4. QED
  BY <1>1, <1>3 DEF Fit

(* A session that differs in nothing that Fit looks at. *)
LEMMA AlikeFit ==
  ASSUME NEW s, NEW t, Alike(s, t, {}), NEW q, NEW g, NEW x, Fit(s, q, g, x)
  PROVE  Fit(t, q, g, x)
<1>1. t.widget = s.widget /\ \A f \in Shown4 : t.ui[f] = s.ui[f]
  BY DEF Alike, Becomes, Keeps, Shown4, Main
<1>2. Works(t)
  BY DEF Alike, Becomes, Fit, Works
<1>3. s.widget => Pendings(t, x)
  BY DEF Alike, Becomes, Fit, Pendings, Main
<1>4. /\ "connection" \in t.watchers => "connection" \in s.watchers
      /\ Moving(s) => Moving(t)
      /\ "arm" \in t.watchers <=> "arm" \in s.watchers
  BY DEF Alike, Becomes, Moving
<1>5. QED
  BY <1>1, <1>2, <1>3, <1>4, FitChange

(* More events, and one event less. *)
LEMMA LongerFit ==
  ASSUME NEW s, NEW q, NEW r, Longer(q, r), NEW g, NEW x, Fit(s, q, g, x)
  PROVE  Fit(s, r, g, x)
<1>1. Events(q) \subseteq Events(r) /\ (StartQueued(q, g) => StartQueued(r, g))
  BY LongerKeeps DEF StartQueued
<1>2. (EndKnown(q) => EndKnown(r)) /\ (ErrorKnown(q) => ErrorKnown(r))
  BY <1>1 DEF EndKnown, ErrorKnown
<1>3. Shows(s, q, g) => Shows(s, r, g)
  BY <1>1, <1>2 DEF Shows, AvailableShown, ActiveShown
<1>4. QED
  BY <1>3 DEF Fit

LEMMA TailFit ==
  ASSUME NEW s, NEW q, \E S : q \in Seq(S), q # <<>>, FailuresFirst(q), ~Fresh(Head(q)),
         NEW x, Fit(s, q, "idle", x)
  PROVE  Fit(s, Tail(q), "idle", x)
<1>1. /\ Events(q) = {Head(q)} \cup Events(Tail(q))
      /\ \A n : StartAt(q, "idle", n) =>
           \/ StartAt(Tail(q), "idle", n)
           \/ /\ Head(q).kind = "acquisition" /\ Head(q).generation = n /\ Head(q).active
  BY TailKeeps
<1>2. StartQueued(q, "idle") => StartQueued(Tail(q), "idle")
  BY <1>1 DEF StartQueued, Fresh
<1>3. (EndKnown(q) => EndKnown(Tail(q))) /\ (ErrorKnown(q) => ErrorKnown(Tail(q)))
  BY <1>1 DEF EndKnown, ErrorKnown, Ending
<1>4. Shows(s, q, "idle") => Shows(s, Tail(q), "idle")
  BY <1>2, <1>3 DEF Shows, AvailableShown, ActiveShown
<1>5. QED
  BY <1>4 DEF Fit

(* An operation that starts while no other work is pending. *)
LEMMA StartedFit ==
  ASSUME NEW s, NEW q, NEW g, Fit(s, q, g, "none"), Working, NEW w, NEW t, NEW S,
         Becomes(s, t, s.watchers \cup {w}, s.disconnectPending, s.refreshFor, S),
         \/ w = "discovery" /\ S = {"discoveryPending"}
         \/ w = "feature" /\ S = {}
         \/ w = "arm" /\ S = {"armPending"} /\ ~isGrabbing
         \/ w = "initialization" /\ S = {"initializationPending"} /\ ~isGrabbing /\ mode # "closed" /\ s.watchers = {},
         worker.phase \in WorkerPhases
  PROVE  Fit(t, q, g, "none")
<1>1. t.widget = s.widget /\ \A f \in Shown4 : t.ui[f] = s.ui[f]
  BY DEF Becomes, Keeps, Shown4, Main
<1>2. Works(t)
  BY DEF Becomes, Fit, Works, Working, WorkerPhases
<1>3. s.widget => Pendings(t, "none")
  BY DEF Becomes, Fit, Pendings, Main
<1>4. /\ "connection" \in t.watchers => "connection" \in s.watchers
      /\ Moving(s) => Moving(t)
      /\ ("arm" \in t.watchers <=> "arm" \in s.watchers) \/ worker.phase \notin {"running", "leaving"}
  BY DEF Becomes, Moving, Working
<1>5. QED
  BY <1>1, <1>2, <1>3, <1>4, FitChange

LEMMA AfterRefreshFit ==
  ASSUME NEW s, Sound(s), NEW for \in Refreshes, NEW q, NEW g, NEW x, Fit(s, q, g, x),
         x = "none" \/ (x = "initialization" /\ for \in {"initialized", "profile failed"}),
         for \in {"connect", "initialized"} => mode \notin {"closed", "fault"}
  PROVE  Fit(AfterRefresh(s, for), q, g, "none")
<1>1. PICK t : t = AfterRefresh(s, for)
  OBVIOUS
<1>2. /\ Alike(s, t, {"initializationPending", "acquisitionAvailable"})
      /\ for \in {"initialized", "profile failed"} => ~t.ui.initializationPending
      /\ for \notin {"initialized", "profile failed"} => t.ui.initializationPending = s.ui.initializationPending
      /\ IF for \in {"connect", "initialized"} THEN t.ui.acquisitionAvailable = TRUE
         ELSE t.ui.acquisitionAvailable = s.ui.acquisitionAvailable
  BY <1>1, AfterRefreshAlike
<1>3. /\ t.widget = s.widget /\ t.watchers = s.watchers /\ t.disconnectPending = s.disconnectPending
      /\ t.refreshFor = s.refreshFor
      /\ t.ui.connected = s.ui.connected /\ t.ui.connectChecked = s.ui.connectChecked
      /\ t.ui.acquisitionActive = s.ui.acquisitionActive
      /\ t.ui.discoveryPending = s.ui.discoveryPending /\ t.ui.connectionPending = s.ui.connectionPending
      /\ t.ui.disconnectionPending = s.ui.disconnectionPending /\ t.ui.armPending = s.ui.armPending
      /\ t.ui.refreshPending = s.ui.refreshPending
  BY <1>2 DEF Alike, Becomes, Keeps, Main
<1>4. Works(t)
  BY <1>3 DEF Fit, Works
<1>5. s.widget => Pendings(t, "none")
  BY <1>2, <1>3 DEF Fit, Pendings
<1>6. ASSUME Shows(s, q, g) PROVE Shows(t, q, g)
  <2>1. AvailableShown(t.ui, ErrorKnown(q))
    BY <1>2, <1>6 DEF Shows, AvailableShown
  <2>2. ActiveShown(t, q, g)
    BY <1>3, <1>6 DEF Shows, ActiveShown
  <2>3. QED
    BY <1>3, <1>6, <2>1, <2>2 DEF Shows
<1>7. Fit(t, q, g, "none")
  BY <1>3, <1>4, <1>5, <1>6 DEF Fit, Moving
<1>8. QED
  BY <1>1, <1>7

LEMMA RefreshFit ==
  ASSUME NEW s, Sound(s), NEW for \in Refreshes, NEW q, NEW g, NEW x, Fit(s, q, g, x),
         x = "none" \/ (x = "initialization" /\ for \in {"initialized", "profile failed"}),
         for \in {"connect", "initialized"} => mode \notin {"closed", "fault"},
         Working, worker.phase \in WorkerPhases
  PROVE  Fit(RefreshFeatureTree(s, for), q, g, "none")
<1>1. PICK t : t = RefreshFeatureTree(s, for)
  OBVIOUS
<1>2. CASE RefreshRefused(s)
  BY <1>2, RefreshBecomes, AfterRefreshFit
<1>3. CASE ~RefreshRefused(s)
  <2>1. Becomes(s, t, s.watchers \cup {"featureRead"}, s.disconnectPending, for, {"refreshPending"})
    BY <1>1, <1>3, RefreshBecomes
  <2>2. t.widget = s.widget /\ \A f \in Shown4 : t.ui[f] = s.ui[f]
    BY <2>1 DEF Becomes, Keeps, Shown4, Main
  <2>3. s.watchers = {} /\ ~s.disconnectPending /\ ~isGrabbing /\ mode \notin {"closed", "fault"} /\ s.widget
    BY <1>3 DEF RefreshRefused, SdkOperationPending, ControlBusy, IsOpened, RequiresReconnect
  <2>4. Works(t)
    BY <2>1, <2>3 DEF Becomes, Fit, Works, Working, WorkerPhases
  <2>5. s.widget => Pendings(t, "none")
    BY <2>1, <2>3 DEF Becomes, Fit, Pendings, Main
  <2>6. /\ "connection" \in t.watchers => "connection" \in s.watchers
        /\ Moving(s) => Moving(t)
        /\ "arm" \in t.watchers <=> "arm" \in s.watchers
    BY <2>1 DEF Becomes, Moving
  <2>7. QED
    BY <1>1, <2>2, <2>4, <2>5, <2>6, FitChange
<1>4. QED
  BY <1>2, <1>3

(* A disconnect is under way then: only the pending flags matter. *)
LEMMA MovingFit ==
  ASSUME NEW s, NEW q, NEW g, NEW x, Fit(s, q, g, x), NEW t, NEW W, NEW r,
         NEW S, S \subseteq {"disconnectionPending", "connectChecked"},
         Becomes(s, t, W, TRUE, s.refreshFor, S),
         W = s.watchers \/ W = s.watchers \cup {"disconnection"}
  PROVE  Fit(t, r, g, x) /\ \A h : Fit(t, r, h, x)
<1>1. Works(t)
  BY DEF Becomes, Fit, Works
<1>2. s.widget => Pendings(t, x)
  BY DEF Becomes, Fit, Pendings, Main
<1>3. Moving(t) /\ t.widget = s.widget /\ t.ui.acquisitionActive = s.ui.acquisitionActive
  BY DEF Becomes, Keeps, Main, Moving
<1>4. "connection" \in t.watchers => "connection" \in s.watchers
  BY DEF Becomes
<1>5. QED
  BY <1>1, <1>2, <1>3, <1>4 DEF Fit

------------------------------------------------------------------------------
(* The end of an acquisition, or of an attempt to start one, is shown. *)

(* Fit, where an error that is about to be shown counts as known. *)
FitBut(s, r, error) ==
  /\ Works(s)
  /\ s.widget =>
       /\ Pendings(s, "none")
       /\ "connection" \in s.watchers => ~s.ui.acquisitionActive
       /\ \/ Moving(s)
          \/ /\ s.ui.connected <=> IsOpened
             /\ s.ui.connectChecked <=> IsOpened
             /\ AvailableShown(s.ui, error \/ ErrorKnown(r))
             /\ ActiveShown(s, r, "idle")

LEMMA FitButFit ==
  ASSUME NEW s, NEW r, NEW error
  PROVE  /\ Fit(s, r, "idle", "none") => FitBut(s, r, error)
         /\ FitBut(s, r, error) /\ (mode # "fault" \/ ~error) => Fit(s, r, "idle", "none")
BY DEF FitBut, Fit, Shows, AvailableShown

LEMMA InactiveSet ==
  ASSUME NEW u, Coherent(u)
  PROVE  LET v == SetAcquisitionState(u, FALSE, FALSE, FALSE)
         IN /\ Same(u, v, {"acquisitionActive"})
            /\ IF StateIgnored(u, FALSE) THEN v = u ELSE v.acquisitionActive = FALSE
<1>1. FALSE \in BOOLEAN
  OBVIOUS
<1>2. QED
  BY <1>1, StateSet

LEMMA ErrorShownAlike ==
  ASSUME NEW s, Sound(s)
  PROVE  LET t == ErrorShown(s)
             over == s.disconnectPending \/ "disconnection" \in s.watchers \/ ~IsOpened
         IN /\ over => t = s
            /\ ~over => /\ Alike(s, t, {"acquisitionActive", "acquisitionAvailable"})
                        /\ RequiresReconnect => ~t.ui.acquisitionAvailable
                        /\ ~RequiresReconnect => t.ui.acquisitionAvailable = s.ui.acquisitionAvailable
                        /\ ~s.ui.acquisitionActive => ~t.ui.acquisitionActive
<1> DEFINE over == s.disconnectPending \/ "disconnection" \in s.watchers \/ ~IsOpened
           a == IF RequiresReconnect THEN SetAcquisitionAvailable(s.ui, FALSE) ELSE s.ui
           b == SetAcquisitionState(a, FALSE, FALSE, FALSE)
           v == IF RequiresReconnect THEN [s EXCEPT !.ui = SetAcquisitionAvailable(@, FALSE)] ELSE s
           t == [s EXCEPT !.ui = b]
<1>0. s = [x \in Fields |-> s[x]] /\ Coherent(s.ui) /\ s.ui \in Widget /\ FALSE \in BOOLEAN
  BY SoundIsSession DEF IsSession, Sound, Coherent
<1>1. v.ui = a /\ [v EXCEPT !.ui = b] = t
  BY <1>0 DEF Fields
<1>2. ErrorShown(s) = IF over THEN s ELSE t
  <2>1. ErrorShown(s) = IF over THEN s ELSE [v EXCEPT !.ui = SetAcquisitionError(@)]
    BY DEF ErrorShown
  <2>2. [v EXCEPT !.ui = SetAcquisitionError(@)] = [v EXCEPT !.ui = b]
    BY <1>1 DEF SetAcquisitionError
  <2>3. QED
    BY <1>1, <2>1, <2>2
<1>3. /\ Same(s.ui, a, {"acquisitionActive", "acquisitionAvailable"})
      /\ RequiresReconnect => ~a.acquisitionAvailable
      /\ ~RequiresReconnect => a = s.ui
      /\ ~s.ui.acquisitionActive => ~a.acquisitionActive
  <2>1. CASE RequiresReconnect
    <3> DEFINE x == SetAcquisitionAvailable(s.ui, FALSE)
    <3>1. /\ Same(s.ui, x, {"acquisitionAvailable", "acquisitionActive"})
          /\ x.acquisitionAvailable = FALSE /\ x.acquisitionActive = (s.ui.acquisitionActive /\ FALSE)
      BY <1>0, AvailableSet
    <3>2. a = x
      BY <2>1
    <3> HIDE DEF x, a
    <3>3. QED
      BY <2>1, <3>1, <3>2 DEF Same
  <2>2. CASE ~RequiresReconnect
    BY <1>0, <2>2 DEF Same
  <2>3. QED
    BY <2>1, <2>2
<1> HIDE DEF a
<1>4. /\ Same(a, b, {"acquisitionActive"})
      /\ ~a.acquisitionActive => ~b.acquisitionActive
  <2>1. /\ Same(a, b, {"acquisitionActive"})
        /\ IF StateIgnored(a, FALSE) THEN b = a ELSE b.acquisitionActive = FALSE
    <3>1. Coherent(a)
      BY <1>3 DEF Same
    <3>2. QED
      BY <3>1, InactiveSet
  <2> HIDE DEF b
  <2>2. QED
    BY <2>1
<1> HIDE DEF b
<1>5. /\ Same(s.ui, b, {"acquisitionActive", "acquisitionAvailable"})
      /\ RequiresReconnect => ~b.acquisitionAvailable
      /\ ~RequiresReconnect => b.acquisitionAvailable = s.ui.acquisitionAvailable
      /\ ~s.ui.acquisitionActive => ~b.acquisitionActive
  BY <1>3, <1>4 DEF Same, Main
<1>6. t.ui = b /\ Alike(s, t, {"acquisitionActive", "acquisitionAvailable"})
  BY <1>0, <1>5, FieldAlike DEF Fields
<1> HIDE DEF t
<1>7. QED
  BY <1>2, <1>5, <1>6

LEMMA InactiveFit ==
  ASSUME NEW s, Sound(s), NEW q, NEW g, Fit(s, q, g, "none"), NEW r, NEW error,
         Working, worker.phase \in WorkerPhases, mode = "closed" => worker.phase = "none",
         mode = "fault" /\ ErrorKnown(q) => error \/ ErrorKnown(r),
         worker.phase \in {"running", "leaving"} /\ ActiveShown(s, q, g) =>
           "arm" \in s.watchers /\ StartQueued(r, "idle")
  PROVE  Fit(InactiveShown(s, error), r, "idle", "none")
<1>1. CASE s.disconnectPending
  <2>1. InactiveShown(s, error) = CompleteDisconnect(s)
    BY <1>1 DEF InactiveShown
  <2>2. PICK t : t = CompleteDisconnect(s)
    OBVIOUS
  <2>3. CASE t = s
    BY <1>1, <2>1, <2>2, <2>3 DEF Fit, Moving
  <2>4. CASE Becomes(s, t, s.watchers \cup {"disconnection"}, TRUE, s.refreshFor, {"disconnectionPending"})
    <3>1. Fit(t, r, "idle", "none")
      <4>1. PICK W : W = s.watchers \cup {"disconnection"}
        OBVIOUS
      <4>2. PICK S : S = {"disconnectionPending"}
        OBVIOUS
      <4>3. Becomes(s, t, W, TRUE, s.refreshFor, S) /\ S \subseteq {"disconnectionPending", "connectChecked"}
        BY <2>4, <4>1, <4>2
      <4>5. W = s.watchers \/ W = s.watchers \cup {"disconnection"}
        BY <4>1
      <4>6. \A h : Fit(t, r, h, "none")
        BY <4>3, <4>5, MovingFit
      <4>7. QED
        BY <4>6
    <3>2. QED
      BY <2>1, <2>2, <3>1
  <2>5. QED
    BY <2>2, <2>3, <2>4, DisconnectBecomes DEF NoCall
<1>2. CASE ~s.disconnectPending
  <2> DEFINE u == SetAcquisitionState(s.ui, FALSE, FALSE, FALSE)
             shown == [s EXCEPT !.ui = u]
             refreshes == Diagnostics /\ IsOpened /\ ~RequiresReconnect
             v == IF refreshes THEN RefreshFeatureTree(shown, "nothing") ELSE shown
  <2>1. InactiveShown(s, error) = IF error THEN ErrorShown(v) ELSE v
    BY <1>2 DEF InactiveShown
  <2>2. /\ Same(s.ui, u, {"acquisitionActive"})
        /\ IF StateIgnored(s.ui, FALSE) THEN u = s.ui ELSE u.acquisitionActive = FALSE
    <3>1. Coherent(s.ui)
      BY DEF Sound
    <3>2. QED
      BY <3>1, InactiveSet
  <2> HIDE DEF u
  <2>3. Alike(s, shown, {"acquisitionActive"}) /\ shown.ui = u
    BY <2>2, SoundIsSession, FieldAlike DEF IsSession, Fields
  <2> HIDE DEF shown
  <2>4. Sound(shown) /\ shown.widget = s.widget /\ shown.watchers = s.watchers
        /\ shown.disconnectPending = s.disconnectPending
    BY <2>3 DEF Alike, Becomes, Keeps
  <2>5. \/ ~shown.ui.acquisitionActive
        \/ s.ui.disconnectionPending /\ shown.ui.acquisitionActive = s.ui.acquisitionActive
    <3>1. Coherent(s.ui) /\ s.ui.acquisitionActive \in BOOLEAN /\ s.ui.connected \in BOOLEAN
            /\ s.ui.disconnectionPending \in BOOLEAN
      BY DEF Sound, Coherent, Widget, Flags
    <3>2. QED
      BY <2>2, <2>3, <3>1 DEF StateIgnored, Coherent
  <2>6. s.widget /\ s.ui.disconnectionPending => "disconnection" \in s.watchers
    BY <1>2 DEF Fit, Pendings
  <2>7. FitBut(shown, r, error)
    <3>1. Works(shown)
      BY <2>4 DEF Fit, Works, Alike, Becomes
    <3>2. s.widget => Pendings(shown, "none")
      BY <2>3 DEF Fit, Pendings, Alike, Becomes, Main
    <3>3. s.widget /\ "connection" \in s.watchers => ~shown.ui.acquisitionActive
      BY <2>5 DEF Fit
    <3>4. ASSUME s.widget, ~Moving(s)
          PROVE  /\ shown.ui.connected <=> IsOpened
                 /\ shown.ui.connectChecked <=> IsOpened
                 /\ AvailableShown(shown.ui, error \/ ErrorKnown(r))
                 /\ ActiveShown(shown, r, "idle")
      <4>1. Shows(s, q, g)
        BY <3>4 DEF Fit
      <4>2. /\ shown.ui.connected = s.ui.connected /\ shown.ui.connectChecked = s.ui.connectChecked
            /\ shown.ui.acquisitionAvailable = s.ui.acquisitionAvailable
        BY <2>3 DEF Alike, Becomes, Main
      <4>3. AvailableShown(shown.ui, error \/ ErrorKnown(r))
        BY <4>1, <4>2 DEF Shows, AvailableShown
      <4>4. ~shown.ui.acquisitionActive
        BY <2>5, <2>6, <3>4 DEF Moving
      <4>5. ActiveShown(shown, r, "idle")
        BY <2>4, <4>1, <4>4 DEF Shows, ActiveShown
      <4>6. QED
        BY <4>1, <4>2, <4>3, <4>5 DEF Shows
    <3>5. Moving(s) => Moving(shown)
      BY <2>4 DEF Moving
    <3>6. QED
      BY <2>4, <3>1, <3>2, <3>3, <3>4, <3>5 DEF FitBut
  <2>8. /\ FitBut(v, r, error) /\ Sound(v)
        /\ v.widget = shown.widget
        /\ v.ui.acquisitionActive = shown.ui.acquisitionActive
        /\ "disconnection" \in v.watchers <=> "disconnection" \in shown.watchers
        /\ v.disconnectPending = shown.disconnectPending
        /\ refreshes => mode # "fault"
    <3>1. CASE refreshes
      <4>1. mode # "fault"
        BY <3>1 DEF RequiresReconnect
      <4>2. Fit(shown, r, "idle", "none")
        BY <2>7, <4>1, FitButFit
      <4>3. v = RefreshFeatureTree(shown, "nothing") /\ "nothing" \in Refreshes
        BY <3>1 DEF Refreshes
      <4>4. Fit(RefreshFeatureTree(shown, "nothing"), r, "idle", "none")
        BY <2>4, <4>2, <4>3, RefreshFit
      <4>5. PICK w : w = RefreshFeatureTree(shown, "nothing")
        OBVIOUS
      <4>6. \/ Alike(shown, w, {"initializationPending", "acquisitionAvailable"})
            \/ Becomes(shown, w, shown.watchers \cup {"featureRead"}, shown.disconnectPending, "nothing", {"refreshPending"})
        <5>1. CASE RefreshRefused(shown)
          <6>1. w = AfterRefresh(shown, "nothing")
            BY <2>4, <4>3, <4>5, <5>1, RefreshBecomes
          <6>2. Alike(shown, AfterRefresh(shown, "nothing"), {"initializationPending", "acquisitionAvailable"})
            BY <2>4, <4>3, AfterRefreshAlike
          <6>3. QED
            BY <6>1, <6>2
        <5>2. CASE ~RefreshRefused(shown)
          BY <2>4, <4>3, <4>5, <5>2, RefreshBecomes
        <5>3. QED
          BY <5>1, <5>2
      <4>7. /\ Sound(w) /\ w.widget = shown.widget
            /\ w.ui.acquisitionActive = shown.ui.acquisitionActive
            /\ "disconnection" \in w.watchers <=> "disconnection" \in shown.watchers
            /\ w.disconnectPending = shown.disconnectPending
        BY <4>6 DEF Alike, Becomes, Keeps, Main
      <4> HIDE DEF v
      <4>8. v = w
        BY <4>3, <4>5
      <4>9. QED
        BY <4>1, <4>4, <4>5, <4>7, <4>8, FitButFit
    <3>2. CASE ~refreshes
      <4>1. v = shown
        BY <3>2
      <4> HIDE DEF v
      <4>2. QED
        BY <2>4, <2>7, <3>2, <4>1
    <3>3. QED
      BY <3>1, <3>2
  <2> HIDE DEF v
  <2>9. CASE ~error
    BY <2>1, <2>8, <2>9, FitButFit
  <2>10. CASE error
    <3>1. PICK t : t = ErrorShown(v)
      OBVIOUS
    <3> DEFINE over == v.disconnectPending \/ "disconnection" \in v.watchers \/ ~IsOpened
    <3>2. /\ over => t = v
          /\ ~over => /\ Alike(v, t, {"acquisitionActive", "acquisitionAvailable"})
                      /\ RequiresReconnect => ~t.ui.acquisitionAvailable
                      /\ ~RequiresReconnect => t.ui.acquisitionAvailable = v.ui.acquisitionAvailable
                      /\ ~v.ui.acquisitionActive => ~t.ui.acquisitionActive
      BY <2>8, <3>1, ErrorShownAlike
    <3>3. CASE over
      <4>1. mode # "fault" \/ Moving(v)
        BY <3>3 DEF IsOpened, Moving
      <4>2. Fit(v, r, "idle", "none")
        BY <2>8, <4>1 DEF FitBut, Fit, Shows, AvailableShown
      <4>3. QED
        BY <2>1, <2>10, <3>1, <3>2, <3>3, <4>2
    <3>4. CASE ~over
      <4>1. /\ t.widget = v.widget /\ t.watchers = v.watchers /\ t.disconnectPending = v.disconnectPending
            /\ t.refreshFor = v.refreshFor
            /\ t.ui.connected = v.ui.connected /\ t.ui.connectChecked = v.ui.connectChecked
        BY <3>2, <3>4 DEF Alike, Becomes, Keeps, Main
      <4>2. v.widget => ~v.ui.acquisitionActive
        BY <2>4, <2>5, <2>6, <2>8, <3>4
      <4>3. Works(t)
        BY <2>8, <4>1 DEF FitBut, Works
      <4>4. v.widget => Pendings(t, "none")
        BY <2>8, <3>2, <3>4 DEF FitBut, Pendings, Alike, Becomes, Main
      <4>5. v.widget => ~t.ui.acquisitionActive
        BY <3>2, <3>4, <4>2
      <4>6. ASSUME v.widget, ~Moving(v) PROVE Shows(t, r, "idle")
        <5>1. AvailableShown(t.ui, ErrorKnown(r))
          BY <2>8, <3>2, <3>4, <4>6 DEF FitBut, AvailableShown, RequiresReconnect
        <5>2. ActiveShown(t, r, "idle")
          BY <2>8, <4>1, <4>2, <4>5, <4>6 DEF FitBut, ActiveShown
        <5>3. QED
          BY <2>8, <4>1, <4>6, <5>1, <5>2 DEF FitBut, Shows
      <4>7. Moving(v) => Moving(t)
        BY <4>1 DEF Moving
      <4>8. Fit(t, r, "idle", "none")
        BY <4>1, <4>3, <4>4, <4>5, <4>6, <4>7 DEF Fit
      <4>9. QED
        BY <2>1, <2>10, <3>1, <4>8
    <3>5. QED
      BY <3>3, <3>4
  <2>11. QED
    BY <2>9, <2>10
<1>3. QED
  BY <1>1, <1>2

------------------------------------------------------------------------------
(* What the GUI thread does keeps the widget fitting. *)

(* What the device does not change meanwhile. *)
Steady ==
  /\ Working /\ worker.phase \in WorkerPhases
  /\ mode = "closed" => worker.phase = "none"

Changed == {"connectChecked", "connectionPending", "acquisitionAvailable", "acquisitionActive"}

LEMMA ConnectFit ==
  ASSUME NEW s, NEW q, NEW g, Fit(s, q, g, "none"), Steady, ~IsOpened, NEW t,
         Becomes(s, t, s.watchers \cup {"connection"}, s.disconnectPending, s.refreshFor, Changed),
         ~t.ui.acquisitionActive
  PROVE  Fit(t, q, g, "none")
<1>1. Works(t)
  BY DEF Becomes, Fit, Works, IsOpened, Steady
<1>2. s.widget => Pendings(t, "none")
  BY DEF Becomes, Fit, Pendings, Main, Changed
<1>3. Moving(t) /\ t.widget = s.widget
  BY DEF Becomes, Keeps, Moving
<1>4. QED
  BY <1>1, <1>2, <1>3 DEF Fit

(* The connection is shown anew. *)
LEMMA ConnectionStateFit ==
  ASSUME NEW s, NEW q, NEW g, Fit(s, q, g, "none"), Steady, NEW b \in BOOLEAN,
         s.widget /\ ~Moving(s) => b = IsOpened,
         NEW u, Same(s.ui, u, Changed), b => Same(s.ui, u, {"connectChecked"}),
         NEW t, Alike(s, t, Main), t.ui = SetConnectionState(u, b)
  PROVE  Fit(t, q, g, "none")
<1>1. PICK v : v = SetConnectionState(u, b)
  OBVIOUS
<1>2. /\ Coherent(v)
      /\ v.connected = b /\ v.connectChecked = b
      /\ ~v.connectionPending /\ ~v.disconnectionPending /\ ~v.armPending
      /\ v.discoveryPending = u.discoveryPending
      /\ (v.initializationPending => u.initializationPending)
      /\ (v.refreshPending => u.refreshPending)
      /\ IF b THEN /\ v.acquisitionActive = u.acquisitionActive
                   /\ v.acquisitionAvailable = u.acquisitionAvailable
              ELSE ~v.acquisitionActive /\ ~v.acquisitionAvailable
  BY <1>1, ConnectionSet DEF Same
<1>3. /\ u.discoveryPending = s.ui.discoveryPending /\ u.initializationPending = s.ui.initializationPending
      /\ u.refreshPending = s.ui.refreshPending
      /\ b => u.acquisitionActive = s.ui.acquisitionActive /\ u.acquisitionAvailable = s.ui.acquisitionAvailable
  BY DEF Same, Changed, Main
<1>4. t.widget = s.widget /\ t.watchers = s.watchers /\ t.disconnectPending = s.disconnectPending
      /\ t.refreshFor = s.refreshFor /\ t.ui = v
  BY <1>1 DEF Alike, Becomes, Keeps
<1>5. Works(t)
  BY <1>4 DEF Fit, Works
<1>6. s.widget => Pendings(t, "none")
  BY <1>2, <1>3, <1>4 DEF Fit, Pendings
<1>7. s.widget /\ "connection" \in s.watchers => ~v.acquisitionActive
  BY <1>2, <1>3 DEF Fit
<1>8. ASSUME s.widget, ~Moving(s) PROVE Shows(t, q, g)
  <2>1. Shows(s, q, g) /\ b = IsOpened
    BY <1>8 DEF Fit
  <2>2. CASE b
    BY <1>2, <1>3, <1>4, <2>1, <2>2 DEF Shows, AvailableShown, ActiveShown
  <2>3. CASE ~b
    <3>1. mode = "closed" /\ worker.phase = "none"
      BY <2>1, <2>3 DEF IsOpened, Steady
    <3>2. QED
      BY <1>2, <1>4, <2>1, <2>3, <3>1 DEF Shows, AvailableShown, ActiveShown
  <2>4. QED
    BY <2>2, <2>3
<1>9. QED
  BY <1>4, <1>5, <1>6, <1>7, <1>8 DEF Fit, Moving

LEMMA OperationFit ==
  ASSUME NEW s, Sound(s), NEW q, NEW g, Fit(s, q, g, "none"), Steady,
         NEW call \in {NoCall} \cup Calls, NEW live \in BOOLEAN, NEW o \in {"write", "trigger"}
  PROVE  /\ Fit(Discover(s, call), q, g, "none")
         /\ ArmAdmitted(s) => Fit(Arm(s, live, call), q, g, "none")
         /\ Fit(RunFeatureOperation(s, o), q, g, "none")
         /\ InitializeAdmitted(s) => Fit(Initialize(s), q, g, "none")
         /\ DisconnectAdmitted(s) => Fit(Disconnect(s, call), q, g, "none")
<1> DEFINE B(t, w, S) == Becomes(s, t, s.watchers \cup {w}, s.disconnectPending, s.refreshFor, S)
<1>1. /\ B(Discover(s, call), "discovery", {"discoveryPending"})
      /\ B(Arm(s, live, call), "arm", {"armPending"})
      /\ B(RunFeatureOperation(s, o), "feature", {})
      /\ B(Initialize(s), "initialization", {"initializationPending"})
  BY OperationBecomes
<1>0. Working /\ worker.phase \in WorkerPhases
  BY DEF Steady
<1>2. Fit(Discover(s, call), q, g, "none")
  <2>1. PICK w, S : w = "discovery" /\ S = {"discoveryPending"}
    OBVIOUS
  <2>2. B(Discover(s, call), w, S)
    BY <1>1, <2>1
  <2>3. QED
    BY <1>0, <2>1, <2>2, StartedFit
<1>3. ASSUME ArmAdmitted(s) PROVE Fit(Arm(s, live, call), q, g, "none")
  <2>1. PICK w, S : w = "arm" /\ S = {"armPending"}
    OBVIOUS
  <2>2. B(Arm(s, live, call), w, S) /\ ~isGrabbing
    BY <1>1, <1>3, <2>1 DEF ArmAdmitted
  <2>3. QED
    BY <1>0, <2>1, <2>2, StartedFit
<1>4. Fit(RunFeatureOperation(s, o), q, g, "none")
  <2>1. PICK w, S : w = "feature" /\ S = {}
    OBVIOUS
  <2>2. B(RunFeatureOperation(s, o), w, S)
    BY <1>1, <2>1
  <2>3. QED
    BY <1>0, <2>1, <2>2, StartedFit
<1>5. ASSUME InitializeAdmitted(s) PROVE Fit(Initialize(s), q, g, "none")
  <2>1. PICK w, S : w = "initialization" /\ S = {"initializationPending"}
    OBVIOUS
  <2>2. B(Initialize(s), w, S) /\ ~isGrabbing /\ mode # "closed" /\ s.watchers = {}
    BY <1>1, <1>5, <2>1 DEF InitializeAdmitted, SdkOperationPending, ControlBusy, IsOpened
  <2>3. QED
    BY <1>0, <2>1, <2>2, StartedFit
<1>6. ASSUME DisconnectAdmitted(s) PROVE Fit(Disconnect(s, call), q, g, "none")
  <2>1. s.widget /\ "disconnection" \notin s.watchers
    BY <1>6 DEF DisconnectAdmitted, SdkOperationPending, ControlBusy
  <2>2. PICK W : /\ Becomes(s, Disconnect(s, call), W, TRUE, s.refreshFor, {"disconnectionPending"})
                 /\ (W = s.watchers \/ W = s.watchers \cup {"disconnection"})
    BY <2>1, DisconnectBecomes
  <2>3. PICK S : S = {"disconnectionPending"}
    OBVIOUS
  <2>4. Becomes(s, Disconnect(s, call), W, TRUE, s.refreshFor, S) /\ S \subseteq {"disconnectionPending", "connectChecked"}
    BY <2>2, <2>3
  <2>5. \A h : Fit(Disconnect(s, call), q, h, "none")
    BY <2>2, <2>4, MovingFit
  <2>6. QED
    BY <2>5
<1>7. QED
  BY <1>2, <1>3, <1>4, <1>5, <1>6

LEMMA UserStepFit ==
  ASSUME Sound(session), NEW q, NEW g, Fit(session, q, g, "none"), Steady, UserStep
  PROVE  Fit(session', q, g, "none")
<1> DEFINE u == session.ui
           F(s) == Fit(s, q, g, "none")
<1>0. /\ Coherent(u) /\ u \in Widget /\ NoCall \in {NoCall} \cup Calls
      /\ TRUE \in BOOLEAN /\ FALSE \in BOOLEAN /\ "write" \in {"write", "trigger"} /\ "trigger" \in {"write", "trigger"}
  BY DEF Sound, Coherent
<1>a. ASSUME NEW t, Alike(session, t, {}) PROVE F(t) /\ Sound(t)
  BY <1>a, AlikeFit DEF Alike, Becomes, Keeps
<1>1. ASSUME NEW s, Sound(s), F(s), NEW live \in BOOLEAN PROVE F(ArmOrNothing(s, live))
  BY <1>0, <1>1, OperationFit DEF ArmOrNothing
<1>2. CASE ClickRefresh
  <2>1. Same(u, [u EXCEPT !.refreshOn = FALSE], {})
    BY <1>0, ControlSet
  <2>2. [session EXCEPT !.ui.refreshOn = FALSE] = [session EXCEPT !.ui = [u EXCEPT !.refreshOn = FALSE]]
    BY DEF Sound, Session
  <2>3. Alike(session, [session EXCEPT !.ui.refreshOn = FALSE], {})
    BY <2>1, <2>2, FieldAlike
  <2>4. QED
    BY <1>2, <1>a, <2>3 DEF ClickRefresh
<1>3. CASE ClickConnect
  <2> DEFINE c == [u EXCEPT !.connectChecked = TRUE]
             v == SetConnectionPending(c, TRUE)
             s == [session EXCEPT !.ui = v]
             e == SetConnectionState(v, FALSE)
  <2>1. /\ session' = IF ConnectAdmitted(s) THEN Connect(s, NoCall)
                      ELSE IF SdkOperationPending(s) THEN [s EXCEPT !.ui = e]
                      ELSE [s EXCEPT !.ui = SetAcquisitionAvailable(SetConnectionState(@, TRUE),
                                                                 ~RequiresReconnect)]
        /\ ~u.connectChecked /\ session.widget
    BY <1>3 DEF ClickConnect, SetConnectionError, CanConnect, Click
  <2>2. Same(u, c, {"connectChecked"})
    BY <1>0, ControlSet
  <2> HIDE DEF c
  <2>3. Same(c, v, {"connectionPending", "acquisitionAvailable", "acquisitionActive"}) /\ ~v.acquisitionActive
    BY <2>2, ConnectionPendingSet DEF Same
  <2> HIDE DEF v
  <2>4. Same(u, v, Changed)
    BY <2>2, <2>3 DEF Same, Changed
  <2>5. Alike(session, s, Changed) /\ s.ui = v
    BY <2>4, FieldAlike DEF Sound, Session
  <2> HIDE DEF s
  <2>6. /\ Sound(s) /\ s.widget /\ s.watchers = session.watchers /\ s.disconnectPending = session.disconnectPending
        /\ s.refreshFor = session.refreshFor
    BY <2>1, <2>5 DEF Alike, Becomes, Keeps
  <2>7. ~Moving(session) => ~IsOpened
    BY <2>1 DEF Fit, Shows
  <2>8. CASE ConnectAdmitted(s)
    <3>1. PICK t : t = Connect(s, NoCall)
      OBVIOUS
    <3>2. Becomes(s, t, s.watchers \cup {"connection"}, s.disconnectPending, s.refreshFor, {})
      BY <1>0, <2>6, <3>1, OperationBecomes
    <3>3. Becomes(session, t, session.watchers \cup {"connection"}, session.disconnectPending, session.refreshFor, Changed)
      BY <2>5, <2>6, <3>2 DEF Alike, Becomes, Keeps
    <3>4. ~t.ui.acquisitionActive
      BY <2>3, <2>5, <3>2 DEF Becomes, Main
    <3>5. ~IsOpened
      BY <2>8 DEF ConnectAdmitted
    <3>6. F(t)
      BY <3>3, <3>4, <3>5, ConnectFit
    <3>7. QED
      BY <2>1, <2>8, <3>1, <3>6
  <2>9. CASE ~ConnectAdmitted(s) /\ SdkOperationPending(s)
    <3>1. PICK t : t = [s EXCEPT !.ui = e]
      OBVIOUS
    <3>2. Coherent(e) /\ Same(s.ui, e, Main)
      BY <1>0, <2>4, ConnectionSet DEF Same
    <3>3. t.ui = SetConnectionState(v, FALSE) /\ Alike(s, t, Main)
      BY <2>6, <3>1, <3>2, FieldAlike DEF Sound, Session
    <3>4. Alike(session, t, Main)
      BY <2>5, <3>3 DEF Alike, Becomes, Keeps
    <3>5. session.widget /\ ~Moving(session) => FALSE = IsOpened
      BY <2>7 DEF IsOpened
    <3>6. PICK b \in BOOLEAN : b = FALSE
      OBVIOUS
    <3>7. F(t)
      <4>1. t.ui = SetConnectionState(v, b) /\ ~b /\ (session.widget /\ ~Moving(session) => b = IsOpened)
        BY <3>3, <3>5, <3>6
      <4>2. QED
        BY <2>4, <3>4, <4>1, ConnectionStateFit
    <3>8. QED
      BY <2>1, <2>9, <3>1, <3>7
  <2>10. CASE ~ConnectAdmitted(s) /\ ~SdkOperationPending(s)
    <3>1. IsOpened
      BY <2>6, <2>10 DEF ConnectAdmitted
    <3>2. ~Moving(session)
      BY <2>6, <2>10 DEF SdkOperationPending, ControlBusy, Moving
    <3>3. QED
      BY <2>7, <3>1, <3>2
  <2>11. QED
    BY <2>8, <2>9, <2>10
<1>4. CASE ClickDisconnect
  <2> DEFINE c == [u EXCEPT !.connectChecked = FALSE]
             s == [session EXCEPT !.ui.connectChecked = FALSE]
             e == SetConnectionState(s.ui, IsOpened)
  <2>1. session' = IF DisconnectAdmitted(s) THEN Disconnect(s, NoCall) ELSE [s EXCEPT !.ui = e]
    BY <1>4 DEF ClickDisconnect
  <2>2. Same(u, c, {"connectChecked"})
    BY <1>0, ControlSet
  <2>3. s = [session EXCEPT !.ui = c]
    BY DEF Sound, Session
  <2> HIDE DEF c
  <2>4. Alike(session, s, {"connectChecked"}) /\ s.ui = c
    BY <2>2, <2>3, FieldAlike DEF Sound, Session
  <2> HIDE DEF s
  <2>5. /\ Sound(s) /\ s.widget = session.widget /\ s.watchers = session.watchers
        /\ s.disconnectPending = session.disconnectPending /\ s.refreshFor = session.refreshFor
    BY <2>4 DEF Alike, Becomes, Keeps
  <2>6. CASE DisconnectAdmitted(s)
    <3>1. s.widget /\ "disconnection" \notin s.watchers
      BY <2>6 DEF DisconnectAdmitted, SdkOperationPending, ControlBusy
    <3>2. PICK W : /\ Becomes(s, Disconnect(s, NoCall), W, TRUE, s.refreshFor, {"disconnectionPending"})
                   /\ (W = s.watchers \/ W = s.watchers \cup {"disconnection"})
      BY <1>0, <2>5, <3>1, DisconnectBecomes
    <3>3. PICK S : S = {"disconnectionPending", "connectChecked"}
      OBVIOUS
    <3>4. PICK t : t = Disconnect(s, NoCall)
      OBVIOUS
    <3>5. Becomes(session, t, W, TRUE, session.refreshFor, S)
      BY <2>4, <2>5, <3>2, <3>3, <3>4 DEF Alike, Becomes, Keeps
    <3>6. S \subseteq {"disconnectionPending", "connectChecked"} /\ (W = session.watchers \/ W = session.watchers \cup {"disconnection"})
      BY <2>5, <3>2, <3>3
    <3>7. \A h : Fit(t, q, h, "none")
      BY <3>5, <3>6, MovingFit
    <3>8. QED
      BY <2>1, <2>6, <3>4, <3>7
  <2>7. CASE ~DisconnectAdmitted(s)
    <3>1. PICK b \in BOOLEAN : b = IsOpened
      BY DEF IsOpened
    <3>2. PICK t : t = [s EXCEPT !.ui = SetConnectionState(c, b)]
      OBVIOUS
    <3>3. Same(s.ui, SetConnectionState(c, b), Main)
      BY <2>2, ConnectionSet DEF Same
    <3>4. t.ui = SetConnectionState(c, b) /\ Alike(s, t, Main)
      BY <2>5, <3>2, <3>3, FieldAlike DEF Sound, Session
    <3>5. Alike(session, t, Main)
      BY <2>4, <3>4 DEF Alike, Becomes, Keeps
    <3>6. Same(session.ui, c, Changed)
      BY <2>2 DEF Same, Changed
    <3>7. F(t)
      BY <2>2, <3>1, <3>4, <3>5, <3>6, ConnectionStateFit
    <3>8. QED
      BY <2>1, <2>4, <2>7, <3>1, <3>2, <3>7
  <2>8. QED
    BY <2>6, <2>7
<1>5. CASE ClickSingle
  <2>1. session' \in {StopShown(session), ArmOrNothing(session, FALSE)}
    BY <1>5 DEF ClickSingle
  <2>2. Alike(session, StopShown(session), {})
    BY StopShownAlike
  <2>3. QED
    BY <1>0, <1>1, <1>a, <2>1, <2>2
<1>6. CASE ToggleLive
  <2> DEFINE b == ~u.liveChecked
             c == [u EXCEPT !.liveChecked = b]
             s == [session EXCEPT !.ui.liveChecked = ~@]
  <2>1. session' \in {StopShown(s), ArmOrNothing(s, TRUE)} /\ u.liveOn
    BY <1>6 DEF ToggleLive, CanLive
  <2>2. b \in BOOLEAN /\ u.connected
    BY <1>0, <2>1 DEF Coherent
  <2>3. s = [session EXCEPT !.ui = c]
    BY DEF Sound, Session
  <2> HIDE DEF b
  <2>4. Same(u, c, {})
    BY <1>0, <2>2, ControlSet
  <2> HIDE DEF c, s
  <2>5. Alike(session, s, {}) /\ Sound(s)
    BY <1>a, <2>3, <2>4, FieldAlike
  <2>6. Alike(session, StopShown(s), {})
    BY <2>5, StopShownAlike, AlikeTrans
  <2>7. QED
    BY <1>0, <1>1, <1>a, <2>1, <2>5, <2>6
<1>7. CASE ClickInit \/ EditFeature
  <2>1. \/ session' = session
        \/ InitializeAdmitted(session) /\ session' = Initialize(session)
        \/ session' = RunFeatureOperation(session, "write")
    BY <1>7 DEF ClickInit, EditFeature
  <2>2. QED
    BY <1>0, <2>1, OperationFit
<1>8. CASE ClickTrigger
  <2> DEFINE c == SetSoftwareTriggerPending(u, TRUE)
             s == [session EXCEPT !.ui = c]
             e == SetSoftwareTriggerPending(s.ui, FALSE)
  <2>1. session' \in {RunFeatureOperation(s, "trigger"), [s EXCEPT !.ui = e]}
    BY <1>8 DEF ClickTrigger
  <2>2. Same(u, c, {})
    BY <1>0, TriggerPendingSet
  <2> HIDE DEF c
  <2>3. Alike(session, s, {}) /\ Sound(s) /\ F(s)
    BY <1>a, <2>2, FieldAlike
  <2> HIDE DEF s
  <2>4. Same(s.ui, e, {})
    BY <2>3, TriggerPendingSet DEF Sound
  <2> HIDE DEF e
  <2>5. Alike(session, [s EXCEPT !.ui = e], {})
    BY <2>3, <2>4, FieldAlike, AlikeTrans
  <2>6. F(RunFeatureOperation(s, "trigger"))
    BY <1>0, <2>3, OperationFit
  <2>7. QED
    BY <1>a, <2>1, <2>5, <2>6
<1>9. CASE DestroyWidget
  <2>1. session' = [session EXCEPT !.widget = FALSE]
    BY <1>9 DEF DestroyWidget
  <2>2. ~session'.widget /\ session'.watchers = session.watchers
    BY <2>1 DEF Sound, Session
  <2>3. Works(session')
    BY <2>2 DEF Fit, Works
  <2>4. QED
    BY <2>2, <2>3 DEF Fit
<1>10. CASE DestroySession
  <2>1. Alike(session, [session EXCEPT !.toolCall = NoCall], {})
    BY <1>0, FieldAlike
  <2>2. QED
    BY <1>10, <1>a, <2>1 DEF DestroySession
<1>11. QED
  BY <1>2, <1>3, <1>4, <1>5, <1>6, <1>7, <1>8, <1>9, <1>10 DEF UserStep

LEMMA HostStepFit ==
  ASSUME Sound(session), CallInv, NEW q, NEW g, Fit(session, q, g, "none"), HostStep
  PROVE  Fit(session', q, g, "none")
<1>a. ASSUME NEW t, Alike(session, t, {}) PROVE Fit(t, q, g, "none")
  BY <1>a, AlikeFit
<1>1. CASE StopNothing
  BY <1>1 DEF StopNothing
<1>2. CASE \E t \in Tools : AskTool(t)
  <2> DEFINE k == calls + 1
             s == [session EXCEPT !.toolCall = k]
  <2>1. session' = ControlChanged(s) /\ calls < MaxCalls
    BY <1>2 DEF AskTool, NewCall
  <2>2. k \in {NoCall} \cup Calls
    BY <2>1, BoundsAssumption DEF CallInv, Calls
  <2> HIDE DEF k
  <2>3. Alike(session, s, {}) /\ Sound(s)
    BY <2>2, FieldAlike DEF Alike, Becomes, Keeps
  <2> HIDE DEF s
  <2>4. Alike(session, ControlChanged(s), {})
    BY <2>3, ControlChangedAlike, AlikeTrans
  <2>5. QED
    BY <1>a, <2>1, <2>4
<1>3. CASE \E kind \in Parameters : RequestParameter(kind)
  <2> DEFINE busy == ~isGrabbing
  <2>1. session' = Shown(session, busy) /\ busy \in BOOLEAN
    BY <1>3 DEF RequestParameter
  <2> HIDE DEF busy
  <2>2. QED
    BY <1>a, <2>1, ShownAlike
<1>4. QED
  BY <1>1, <1>2, <1>3 DEF HostStep

LEMMA AdmissionFit ==
  ASSUME Sound(session), AskedTool, NEW q, NEW g, Fit(session, q, g, "none"), Steady,
         AdmitTool \/ RefuseTool
  PROVE  Fit(session', q, g, "none")
<1>a. ASSUME NEW t, Alike(session, t, {}) PROVE Fit(t, q, g, "none")
  BY <1>a, AlikeFit
<1> DEFINE call == session.toolCall
<1>1. /\ call \in {NoCall} \cup Calls /\ NoCall \in {NoCall} \cup Calls
      /\ TRUE \in BOOLEAN /\ FALSE \in BOOLEAN /\ "write" \in {"write", "trigger"}
  BY DEF Sound, Session
<1>2. CASE RefuseTool
  <2> DEFINE s == [session EXCEPT !.toolCall = NoCall]
  <2>1. session' = ControlChanged(s) /\ Alike(session, s, {})
    BY <1>1, <1>2, FieldAlike DEF RefuseTool
  <2> HIDE DEF s
  <2>2. Alike(session, ControlChanged(s), {})
    BY <2>1, ControlChangedAlike, AlikeTrans DEF Alike, Becomes, Keeps
  <2>3. QED
    BY <1>a, <2>1, <2>2
<1>3. CASE AdmitTool
  <2> DEFINE p == SetConnectionPending(session.ui, TRUE)
             c == [session EXCEPT !.ui = p]
             e == [session EXCEPT !.completion["acquisitionEnd"] = call]
  <2>1. session' = ToolStarted(asked, session, call) /\ asked \in AllTools /\ ToolAdmitted(asked, session)
    BY <1>3 DEF AdmitTool, AskedTool
  <2>2. \/ session' = Discover(session, call)
        \/ session' = Connect(c, call) /\ ConnectAdmitted(session)
        \/ session' = Disconnect(session, call) /\ DisconnectAdmitted(session)
        \/ session' \in {Arm(session, TRUE, call), Arm(session, FALSE, call)} /\ ArmAdmitted(session)
        \/ session' = StopShown(e)
    <3>1. CASE asked = "discover"
      BY <2>1, <3>1 DEF ToolStarted
    <3>2. CASE asked = "connect"
      BY <2>1, <3>2 DEF ToolStarted, ToolAdmitted
    <3>3. CASE asked = "disconnect"
      BY <2>1, <3>3 DEF ToolStarted, ToolAdmitted
    <3>4. CASE asked = "single"
      <4>1. ToolAdmitted("single", session) = ArmAdmitted(session)
        BY DEF ToolAdmitted
      <4>2. ToolStarted("single", session, call) = Arm(session, FALSE, call)
        BY DEF ToolStarted
      <4>3. QED
        BY <2>1, <3>4, <4>1, <4>2
    <3>5. CASE asked = "live-start"
      <4>1. ToolAdmitted("live-start", session) = ArmAdmitted(session)
        BY DEF ToolAdmitted
      <4>2. ToolStarted("live-start", session, call) = Arm(session, TRUE, call)
        BY DEF ToolStarted
      <4>3. QED
        BY <2>1, <3>5, <4>1, <4>2
    <3>6. CASE asked = "live-stop"
      BY <2>1, <3>6 DEF ToolStarted
    <3>7. QED
      BY <2>1, <3>1, <3>2, <3>3, <3>4, <3>5, <3>6 DEF AllTools
  <2> HIDE DEF call
  <2>3. CASE session' = Connect(c, call) /\ ConnectAdmitted(session)
    <3>1. Same(session.ui, p, {"connectionPending", "acquisitionAvailable", "acquisitionActive"}) /\ ~p.acquisitionActive
      BY ConnectionPendingSet DEF Sound
    <3> HIDE DEF p
    <3>2. Same(session.ui, p, Changed)
      BY <3>1 DEF Same, Changed
    <3>3. Alike(session, c, Changed) /\ c.ui = p
      <4>1. Alike(session, c, Changed)
        BY <3>2, FieldAlike
      <4>2. c.ui = p
        BY DEF Sound, Session
      <4>3. QED
        BY <4>1, <4>2
    <3> HIDE DEF c
    <3>4. PICK t : t = Connect(c, call)
      OBVIOUS
    <3>5. Becomes(c, t, c.watchers \cup {"connection"}, c.disconnectPending, c.refreshFor, {})
      <4>1. Sound(c)
        BY <3>3 DEF Alike, Becomes, Keeps
      <4>2. Becomes(c, Connect(c, call), c.watchers \cup {"connection"}, c.disconnectPending, c.refreshFor, {})
        BY <1>1, <4>1, OperationBecomes
      <4>3. QED
        BY <3>4, <4>2
    <3>6. Becomes(session, t, session.watchers \cup {"connection"}, session.disconnectPending, session.refreshFor, Changed)
      BY <3>3, <3>5 DEF Alike, Becomes, Keeps
    <3>7. ~t.ui.acquisitionActive /\ ~IsOpened
      BY <2>3, <3>1, <3>3, <3>5 DEF Becomes, Main, ConnectAdmitted
    <3>8. Fit(t, q, g, "none")
      BY <3>6, <3>7, ConnectFit
    <3>9. QED
      BY <2>3, <3>4, <3>8
  <2>4. CASE session' = StopShown(e)
    <3>1. Alike(session, e, {})
      BY <1>1, FieldAlike DEF Completions
    <3> HIDE DEF e
    <3>2. Alike(session, StopShown(e), {})
      BY <3>1, StopShownAlike, AlikeTrans DEF Alike, Becomes, Keeps
    <3>3. QED
      BY <1>a, <2>4, <3>2
  <2>5. QED
    BY <1>1, <2>2, <2>3, <2>4, OperationFit
<1>4. QED
  BY <1>2, <1>3

LEMMA HandlerFit ==
  ASSUME Sound(session), CallInv, TaskInv, DeviceInv, StatusInv, Steady, Alive,
         Fit(session, queue, gui, "none"), mode = "armed" <=> worker.phase \in {"held", "running", "leaving"},
         Handles
  PROVE  Fit(session', queue', gui', "none")
<1>0. /\ NoCall \in {NoCall} \cup Calls /\ TRUE \in BOOLEAN /\ FALSE \in BOOLEAN /\ "write" \in {"write", "trigger"}
      /\ "nothing" \in Refreshes /\ "acquisitionEnd" \in Completions
  BY DEF Refreshes, Completions
<1>1. (\E S : queue \in Seq(S)) /\ FailuresFirst(queue) /\ \A e \in Events(queue) : Told(e)
  BY DEF TaskInv, QueueOK, StatusInv
<1>2. CASE HandleEnd
  <2>1. /\ session' = Completed(session, "acquisitionEnd") /\ queue' = queue /\ gui' = "rest" /\ gui = "idle"
    BY <1>2 DEF HandleEnd, GuiFree
  <2>2. worker.phase = "none"
    BY <1>2, EndIdle
  <2>3. Fit(session, queue, "rest", "none")
    BY <2>1, <2>2 DEF Fit, Shows, ActiveShown
  <2>4. Fit(Completed(session, "acquisitionEnd"), queue, "rest", "none")
    BY <1>0, <2>3, CompletedAlike, AlikeFit
  <2>5. QED
    BY <2>1, <2>4
<1> PICK r : r = Tail(queue)
  OBVIOUS
<1> DEFINE F(s) == Fit(s, r, "idle", "none")
<1>3. ASSUME ~HandleEnd PROVE queue # <<>> /\ queue' = r /\ gui' = "idle"
  BY <1>3 DEF Handles, HandleRefresh, HandleControl, HandleApplied, HandleFrame, HandleStale, HandleActive,
     HandleInactive, HandleStartFailed, HandleRest, Handle, Keep, GuiFree, StatusInv, Alive
<1>4. ASSUME queue # <<>> PROVE Events(queue) = {Head(queue)} \cup Events(r)
  BY <1>1, <1>4, TailKeeps
<1>5. ASSUME queue # <<>>, gui = "idle", ~Fresh(Head(queue)) PROVE F(session)
  BY <1>1, <1>5, TailFit
<1>6. ASSUME NEW kind, Handle(kind), kind # "acquisition" PROVE F(session)
  BY <1>5, <1>6 DEF Handle, GuiFree, Fresh
<1>7. Working /\ worker.phase \in WorkerPhases /\ (mode = "closed" => worker.phase = "none")
  BY DEF Steady
<1>8. CASE HandleRefresh
  <2>1. F(session)
    BY <1>6, <1>8 DEF HandleRefresh
  <2>2. F(Discover(session, NoCall))
    BY <1>0, <2>1, OperationFit
  <2>3. session' \in {session, Discover(session, NoCall)} /\ queue' = r /\ gui' = "idle"
    BY <1>8 DEF HandleRefresh, Handle, Keep, GuiFree
  <2>4. QED
    BY <2>1, <2>2, <2>3
<1>9. CASE HandleControl
  <2>1. F(session)
    BY <1>6, <1>9 DEF HandleControl
  <2>2. F(ControlChanged(session))
    BY <2>1, ControlChangedAlike, AlikeFit
  <2>3. session' = ControlChanged(session) /\ queue' = r /\ gui' = "idle"
    BY <1>9 DEF HandleControl, Handle, Keep, GuiFree
  <2>4. QED
    BY <2>2, <2>3
<1>10. CASE HandleApplied
  <2>1. F(session)
    BY <1>6, <1>10 DEF HandleApplied
  <2>2. F(RefreshFeatureTree(session, "nothing"))
    BY <1>0, <1>7, <2>1, RefreshFit
  <2>3. session' = RefreshFeatureTree(session, "nothing") /\ queue' = r /\ gui' = "idle"
    BY <1>10 DEF HandleApplied, Handle, Keep, GuiFree
  <2>4. QED
    BY <2>2, <2>3
<1>11. CASE HandleFrame
  <2> DEFINE c == SetSoftwareTriggerPending(session.ui, FALSE)
  <2>1. F(session)
    BY <1>6, <1>11 DEF HandleFrame
  <2>2. Same(session.ui, c, {})
    BY TriggerPendingSet DEF Sound
  <2>3. session' = [session EXCEPT !.ui = c] /\ queue' = r /\ gui' = "idle"
    BY <1>11 DEF HandleFrame, Handle, Keep, GuiFree
  <2> HIDE DEF c
  <2>4. F([session EXCEPT !.ui = c])
    BY <2>1, <2>2, FieldAlike, AlikeFit
  <2>5. QED
    BY <2>3, <2>4
<1>12. CASE HandleStale
  <2>1. F(session)
    BY <1>5, <1>12 DEF HandleStale, Handle, Stale, Fresh, GuiFree
  <2>2. session' = session /\ queue' = r /\ gui' = "idle"
    BY <1>12 DEF HandleStale, Handle, Keep, GuiFree
  <2>3. QED
    BY <2>1, <2>2
<1>13. CASE HandleActive
  <2> DEFINE c == SetAcquisitionState(session.ui, TRUE, Head(queue).continuous, software)
             t == [session EXCEPT !.ui = c]
  <2>1. session' = t /\ queue' = r /\ gui' = "idle" /\ gui = "idle" /\ queue # <<>>
    BY <1>13 DEF HandleActive, Handle, Keep, GuiFree
  <2>2. Fresh(Head(queue)) /\ Head(queue).active
    BY <1>13 DEF HandleActive, Handle, Stale, Fresh
  <2>3. worker.phase \in {"running", "leaving", "ended", "telling"}
    BY <1>1, <1>4, <2>1, <2>2 DEF Told
  <2>4. Coherent(session.ui)
    BY DEF Sound
  <2>5. /\ Same(session.ui, c, {"acquisitionActive"})
        /\ IF StateIgnored(session.ui, TRUE) THEN c = session.ui ELSE c.acquisitionActive = TRUE
    BY <1>0, <2>4, StateSet
  <2> HIDE DEF c
  <2>6. Alike(session, t, {"acquisitionActive"}) /\ t.ui = c
    BY <2>5, FieldAlike DEF Sound, Session
  <2> HIDE DEF t
  <2>7. /\ t.widget = session.widget /\ t.watchers = session.watchers
        /\ t.disconnectPending = session.disconnectPending /\ t.refreshFor = session.refreshFor
    BY <2>6 DEF Alike, Becomes, Keeps
  <2>8. Works(t) /\ "connection" \notin t.watchers
    BY <2>3, <2>7 DEF Fit, Works
  <2>9. t.widget => Pendings(t, "none")
    BY <2>6, <2>7 DEF Fit, Pendings, Alike, Becomes, Main
  <2>10. Moving(session) => Moving(t)
    BY <2>7 DEF Moving
  <2>11. ASSUME session.widget, ~Moving(session) PROVE Shows(t, r, "idle")
    <3>1. Shows(session, queue, "idle") /\ Pendings(session, "none") /\ Works(session)
      BY <2>1, <2>11 DEF Fit
    <3>2. /\ t.ui.connected = session.ui.connected /\ t.ui.connectChecked = session.ui.connectChecked
          /\ t.ui.acquisitionAvailable = session.ui.acquisitionAvailable
      BY <2>6 DEF Alike, Becomes, Main
    <3>3. ErrorKnown(queue) => ErrorKnown(r)
      BY <1>4, <2>1, <2>2 DEF ErrorKnown, Ending
    <3>4. AvailableShown(t.ui, ErrorKnown(r))
      BY <3>1, <3>2, <3>3 DEF Shows, AvailableShown
    <3>5. ASSUME worker.phase \in {"running", "leaving"} PROVE t.ui.acquisitionActive
      <4>1. mode = "armed"
        BY <3>5
      <4>2. session.ui.connected /\ session.ui.acquisitionAvailable
        BY <3>1, <4>1 DEF Shows, AvailableShown, IsOpened
      <4>3. ~session.ui.disconnectionPending /\ ~session.ui.initializationPending
        BY <2>11, <3>1, <3>5 DEF Pendings, Works, Moving
      <4>4. ~StateIgnored(session.ui, TRUE)
        BY <4>2, <4>3 DEF StateIgnored
      <4>5. QED
        BY <2>5, <2>6, <4>4
    <3>6. ActiveShown(t, r, "idle")
      BY <2>3, <3>5 DEF ActiveShown
    <3>7. QED
      BY <3>1, <3>2, <3>4, <3>6 DEF Shows
  <2>12. F(t)
    BY <2>7, <2>8, <2>9, <2>10, <2>11 DEF Fit
  <2>13. QED
    BY <2>1, <2>12
<1>14. CASE HandleInactive \/ HandleStartFailed \/ HandleRest
  <2> DEFINE h == Head(queue)
  <2>1. queue # <<>> /\ queue' = r /\ gui' = "idle"
    BY <1>3, <1>14 DEF HandleInactive, HandleStartFailed, HandleRest, HandleEnd, Handle, Keep, GuiFree,
       StatusInv, Alive
  <2>2. PICK e : e = IF HandleStartFailed THEN TRUE ELSE h.error
    OBVIOUS
  <2>3. session' = InactiveShown(session, e)
    BY <1>14, <2>2 DEF HandleInactive, HandleStartFailed, HandleRest, Handle
  <2>4. h \in Events(queue) /\ Told(h)
    BY <1>1, <1>4, <2>1
  <2>5. mode = "fault" /\ ErrorKnown(queue) => e \/ ErrorKnown(r)
    BY <1>4, <2>1, <2>2 DEF ErrorKnown
  <2>6. ASSUME worker.phase \in {"running", "leaving"}, ActiveShown(session, queue, gui)
        PROVE  "arm" \in session.watchers /\ StartQueued(r, "idle")
    <3>1. ~HandleInactive
      BY <2>4, <2>6 DEF HandleInactive, Handle, Stale, Fresh, Told
    <3>2. ~HandleStartFailed
      BY <2>4, <2>6 DEF HandleStartFailed, Handle, Told
    <3>3. gui = "rest" /\ "arm" \in session.watchers
      BY <1>14, <2>6, <3>1, <3>2 DEF HandleRest, StatusInv
    <3>4. StartQueued(queue, "rest")
      BY <2>6, <3>3 DEF ActiveShown
    <3>5. StartQueued(r, "idle")
      BY <1>1, <2>1, <3>4, TailKeeps DEF StartQueued
    <3>6. QED
      BY <3>3, <3>5
  <2>7. F(InactiveShown(session, e))
    BY <1>7, <2>5, <2>6, InactiveFit
  <2>8. QED
    BY <2>1, <2>3, <2>7
<1>15. QED
  BY <1>2, <1>8, <1>9, <1>10, <1>11, <1>12, <1>13, <1>14 DEF Handles

------------------------------------------------------------------------------
(* The finished events. *)
LEMMA DroppedFit ==
  ASSUME NEW s, NEW q, Fit(s, q, "idle", "none"), NEW w, NEW t, NEW R, NEW S, NEW x,
         Becomes(s, t, s.watchers \ {w}, s.disconnectPending, R, S),
         \/ /\ w = "discovery" /\ S = {"discoveryPending"} /\ ~t.ui.discoveryPending
            /\ R = s.refreshFor /\ x = "none"
         \/ w = "feature" /\ S = {} /\ R = s.refreshFor /\ x = "none"
         \/ w = "initialization" /\ S = {} /\ R = s.refreshFor /\ x = "initialization"
         \/ /\ w = "featureRead" /\ S = {"refreshPending"} /\ ~t.ui.refreshPending
            /\ x = IF s.refreshFor \in {"initialized", "profile failed"} THEN "initialization" ELSE "none"
         \/ /\ w = "arm" /\ S = {"armPending"} /\ ~t.ui.armPending /\ R = s.refreshFor /\ x = "none"
            /\ worker.phase # "held" /\ ~StartQueued(q, "idle")
  PROVE  Fit(t, q, "idle", x)
<1>1. t.widget = s.widget /\ \A f \in Shown4 : t.ui[f] = s.ui[f]
  BY DEF Becomes, Keeps, Shown4, Main
<1>2. Works(t)
  BY DEF Becomes, Fit, Works
<1>3. s.widget => Pendings(t, x)
  BY DEF Becomes, Fit, Pendings, Main
<1>4. /\ "connection" \in t.watchers => "connection" \in s.watchers
      /\ Moving(s) => Moving(t)
      /\ \/ "arm" \in t.watchers <=> "arm" \in s.watchers
         \/ "arm" \notin t.watchers /\ ~StartQueued(q, "idle")
  BY DEF Becomes, Moving
<1>5. QED
  BY <1>1, <1>2, <1>3, <1>4, FitChange

(* The connection was opened or closed. *)
LEMMA ReconnectedFit ==
  ASSUME NEW s, NEW q, NEW g, Fit(s, q, g, "none"), Steady, NEW w \in {"connection", "disconnection"},
         NEW u, Coherent(u), \A f \in {"discoveryPending", "initializationPending", "refreshPending"} : u[f] = s.ui[f],
         NEW v, v = SetConnectionState(u, IsOpened),
         IsOpened => mode # "fault" /\ worker.phase = "none" /\ ~u.acquisitionActive,
         NEW t, t.widget = s.widget, t.watchers = s.watchers \ {w}, t.refreshFor = s.refreshFor,
         t.ui = IF IsOpened THEN SetAcquisitionAvailable(v, TRUE) ELSE v
  PROVE  Fit(t, q, g, "none")
<1>1. PICK b \in BOOLEAN : b = IsOpened
  BY DEF IsOpened
<1>2. /\ Coherent(v)
      /\ v.connected = b /\ v.connectChecked = b
      /\ ~v.connectionPending /\ ~v.disconnectionPending /\ ~v.armPending
      /\ v.discoveryPending = u.discoveryPending
      /\ (v.initializationPending => u.initializationPending)
      /\ (v.refreshPending => u.refreshPending)
      /\ IF b THEN /\ v.acquisitionActive = u.acquisitionActive
                   /\ v.acquisitionAvailable = u.acquisitionAvailable
              ELSE ~v.acquisitionActive /\ ~v.acquisitionAvailable
  BY <1>1, ConnectionSet
<1>3. /\ t.ui.connected = b /\ t.ui.connectChecked = b
      /\ ~t.ui.connectionPending /\ ~t.ui.disconnectionPending /\ ~t.ui.armPending
      /\ t.ui.discoveryPending = s.ui.discoveryPending
      /\ (t.ui.initializationPending => s.ui.initializationPending)
      /\ (t.ui.refreshPending => s.ui.refreshPending)
      /\ ~t.ui.acquisitionActive
      /\ t.ui.acquisitionAvailable <=> b
  <2>1. CASE b
    <3> DEFINE a == SetAcquisitionAvailable(v, TRUE)
    <3>1. v \in Widget /\ TRUE \in BOOLEAN /\ Coherent(v)
      BY <1>2 DEF Coherent
    <3>2. /\ Same(v, a, {"acquisitionAvailable", "acquisitionActive"})
          /\ a.acquisitionAvailable = TRUE /\ a.acquisitionActive = (v.acquisitionActive /\ TRUE)
      BY <3>1, AvailableSet
    <3>3. t.ui = a
      BY <1>1, <2>1
    <3> HIDE DEF a
    <3>4. v.acquisitionActive = u.acquisitionActive /\ ~u.acquisitionActive
      BY <1>1, <1>2, <2>1
    <3>5. QED
      BY <1>2, <2>1, <3>2, <3>3, <3>4 DEF Same, Main
  <2>2. CASE ~b
    BY <1>1, <1>2, <2>2
  <2>3. QED
    BY <2>1, <2>2
<1>4. Works(t)
  BY DEF Fit, Works
<1>5. s.widget => Pendings(t, "none")
  BY <1>3 DEF Fit, Pendings
<1>6. Shows(t, q, g)
  <2>1. mode = "closed" => worker.phase = "none"
    BY DEF Steady
  <2>2. AvailableShown(t.ui, ErrorKnown(q)) /\ ActiveShown(t, q, g)
    BY <1>1, <1>3, <2>1 DEF AvailableShown, ActiveShown, IsOpened
  <2>3. (t.ui.connected <=> IsOpened) /\ (t.ui.connectChecked <=> IsOpened)
    BY <1>1, <1>3 DEF IsOpened
  <2>4. QED
    BY <2>2, <2>3 DEF Shows
<1>7. QED
  BY <1>3, <1>4, <1>5, <1>6 DEF Fit


(* What a finished event leaves of the session before anything else is done. *)
LEMMA DroppedShown ==
  ASSUME NEW s, Sound(s), NEW w \in Watchers, NEW t, t = Dropped(s, w)
  PROVE  /\ Becomes(s, t, s.watchers \ {w}, s.disconnectPending, s.refreshFor, {})
         /\ Sound(t) /\ t.ui = s.ui /\ t.widget = s.widget
<1>0. s = [x \in Fields |-> s[x]]
  BY SoundIsSession DEF IsSession
<1>1. Becomes(s, t, s.watchers \ {w}, s.disconnectPending, s.refreshFor, {})
  BY FieldAlike
<1>2. t.ui = s.ui /\ t.widget = s.widget
  BY <1>0 DEF Dropped, Fields
<1>3. QED
  BY <1>1, <1>2 DEF Becomes, Keeps

(* What its handler shows then. *)
LEMMA DroppedAlike ==
  ASSUME NEW s, NEW w, NEW t, NEW S, NEW d, Alike(t, d, S),
         Becomes(s, t, s.watchers \ {w}, s.disconnectPending, s.refreshFor, {})
  PROVE  Becomes(s, d, s.watchers \ {w}, s.disconnectPending, s.refreshFor, S) /\ Sound(d)
BY DEF Alike, Becomes, Keeps

LEMMA UiShown ==
  ASSUME NEW s, Sound(s), NEW u, NEW S, Same(s.ui, u, S)
  PROVE  /\ Alike(s, [s EXCEPT !.ui = u], S)
         /\ [s EXCEPT !.ui = u].ui = u
<1>1. s = [x \in Fields |-> s[x]]
  BY SoundIsSession DEF IsSession
<1>2. [s EXCEPT !.ui = u].ui = u
  BY <1>1 DEF Fields
<1>3. QED
  BY <1>2, FieldAlike

(* What every finished event finds. *)
LEMMA FinishFinds ==
  ASSUME TaskInv, StatusInv, NEW w, Finish(w), Fit(session, queue, gui, "none")
  PROVE  /\ w \in Watchers /\ task[w] = "done" /\ w \in session.watchers /\ ~Joined
         /\ session.widget /\ gui' = "idle" /\ queue' = Tail(queue)
         /\ Fit(session, queue, "idle", "none")
         /\ \A s : Fit(s, queue, "idle", "none") => Fit(s, queue', gui', "none")
         /\ w = "arm" => ~StartQueued(queue, "idle")
<1>1. w \in Watchers /\ task[w] = "done" /\ w \in session.watchers /\ Alive /\ ~Joined
  BY FinishedDone
<1>2. /\ gui = "idle" /\ gui' = "idle" /\ queue # <<>> /\ queue' = Tail(queue)
      /\ Head(queue).kind = "finished" /\ Head(queue).task = w
  BY DEF Finish, Handle, GuiFree
<1>3. (\E S : queue \in Seq(S)) /\ FailuresFirst(queue) /\ session.widget
  BY <1>1, <1>2 DEF TaskInv, QueueOK, StatusInv
<1>4. ~Fresh(Head(queue))
  BY <1>2 DEF Fresh
<1>5. ASSUME NEW s, Fit(s, queue, "idle", "none") PROVE Fit(s, Tail(queue), "idle", "none")
  BY <1>2, <1>3, <1>4, <1>5, TailFit
<1>6. w = "arm" => ~StartQueued(queue, "idle")
  BY <1>2, <1>3, TailKeeps DEF StartQueued
<1>7. QED
  BY <1>1, <1>2, <1>3, <1>5, <1>6

LEMMA FinishDiscoveryFit ==
  ASSUME Sound(session), TaskInv, StatusInv, Fit(session, queue, gui, "none"), FinishDiscovery
  PROVE  Fit(session', queue', gui', "none")
<1>0. "discovery" \in Watchers /\ "discovery" \in Completions /\ FALSE \in BOOLEAN
  BY DEF Watchers, Completions
<1>1. /\ Fit(session, queue, "idle", "none")
      /\ \A s : Fit(s, queue, "idle", "none") => Fit(s, queue', gui', "none")
  <2>1. Finish("discovery")
    BY DEF FinishDiscovery
  <2>2. QED
    BY <2>1, FinishFinds
<1> PICK w : w = Dropped(session, "discovery")
  OBVIOUS
<1> DEFINE d == SetDiscoveryPending(w.ui, FALSE)
           e(found) == SetDiscoveredDevices(d, found)
           s(found) == [w EXCEPT !.ui = IF succeeded["discovery"] THEN e(found) ELSE d]
<1>2. PICK found \in BOOLEAN : session' = Completed(s(found), "discovery")
  BY DEF FinishDiscovery
<1>3. w.ui = session.ui /\ Coherent(session.ui)
  BY <1>0, DroppedShown DEF Sound
<1>4. Same(session.ui, d, {"discoveryPending"}) /\ d.discoveryPending = FALSE
  BY <1>0, <1>3, DiscoverySet
<1> HIDE DEF d
<1>5. Same(d, e(found), {})
  BY <1>4, DiscoverySet DEF Same
<1> HIDE DEF e
<1>6. Same(session.ui, e(found), {"discoveryPending"}) /\ e(found).discoveryPending = FALSE
  <2>1. Same(session.ui, e(found), {"discoveryPending"})
    BY <1>4, <1>5, SameTrans
  <2>2. QED
    BY <1>4, <1>5, <2>1 DEF Same, Main
<1>7. PICK v \in {e(found), d} : s(found) = [w EXCEPT !.ui = v]
  OBVIOUS
<1> HIDE DEF s
<1>8. Same(session.ui, v, {"discoveryPending"}) /\ v.discoveryPending = FALSE
  BY <1>4, <1>6
<1>9. PICK t : t = [w EXCEPT !.ui = v]
  OBVIOUS
<1>10. /\ Becomes(session, t, session.watchers \ {"discovery"}, session.disconnectPending, session.refreshFor,
                  {"discoveryPending"})
       /\ Sound(t) /\ t.ui = v
  <2>1. /\ Becomes(session, w, session.watchers \ {"discovery"}, session.disconnectPending, session.refreshFor, {})
        /\ Sound(w) /\ w.ui = session.ui
    BY <1>0, DroppedShown
  <2>2. Alike(w, t, {"discoveryPending"}) /\ t.ui = v
    <3>1. Same(w.ui, v, {"discoveryPending"})
      BY <1>8, <2>1
    <3>2. Alike(w, [w EXCEPT !.ui = v], {"discoveryPending"}) /\ [w EXCEPT !.ui = v].ui = v
      BY <2>1, <3>1, UiShown
    <3>3. QED
      BY <1>9, <3>2
  <2>3. QED
    BY <2>1, <2>2, DroppedAlike
<1>11. Fit(t, queue, "idle", "none")
  BY <1>1, <1>8, <1>9, <1>10, DroppedFit
<1>12. Fit(Completed(t, "discovery"), queue, "idle", "none")
  BY <1>0, <1>10, <1>11, CompletedAlike, AlikeFit
<1>13. QED
  BY <1>1, <1>2, <1>7, <1>9, <1>12

LEMMA FinishInitializationFit ==
  ASSUME Sound(session), TaskInv, StatusInv, Steady, Outcomes, Fit(session, queue, gui, "none"),
         FinishInitialization
  PROVE  Fit(session', queue', gui', "none")
<1>0. "initialization" \in Watchers /\ {"initialized", "profile failed"} \subseteq Refreshes
  BY DEF Watchers, Refreshes
<1>1. /\ Fit(session, queue, "idle", "none") /\ "initialization" \in session.watchers
      /\ task["initialization"] = "done"
      /\ \A s : Fit(s, queue, "idle", "none") => Fit(s, queue', gui', "none")
  <2>1. Finish("initialization")
    BY DEF FinishInitialization
  <2>2. QED
    BY <2>1, FinishFinds
<1>2. PICK t : t = Dropped(session, "initialization")
  OBVIOUS
<1>3. PICK for : for = IF succeeded["initialization"] THEN "initialized" ELSE "profile failed"
  OBVIOUS
<1>4. session' = RefreshFeatureTree(t, for) /\ for \in {"initialized", "profile failed"} /\ for \in Refreshes
  BY <1>0, <1>2, <1>3 DEF FinishInitialization
<1>5. /\ Becomes(session, t, session.watchers \ {"initialization"}, session.disconnectPending,
                 session.refreshFor, {})
      /\ Sound(t)
  BY <1>0, <1>2, DroppedShown
<1>6. Fit(t, queue, "idle", "initialization")
  BY <1>1, <1>5, DroppedFit
<1>7. for \in {"connect", "initialized"} => mode \notin {"closed", "fault"}
  BY <1>1, <1>3 DEF Fit, Works, Outcomes
<1>8. Fit(RefreshFeatureTree(t, for), queue, "idle", "none")
  BY <1>4, <1>5, <1>6, <1>7, RefreshFit DEF Steady
<1>9. QED
  BY <1>1, <1>4, <1>8


LEMMA FinishConnectionFit ==
  ASSUME Sound(session), TaskInv, DeviceInv, StatusInv, Steady, Outcomes,
         Fit(session, queue, gui, "none"), FinishConnection
  PROVE  Fit(session', queue', gui', "none") /\ "connection" \notin session'.watchers
<1>0. /\ "connection" \in Watchers /\ "connection" \in {"connection", "disconnection"} /\ "connect" \in Completions
      /\ "connect" \in Refreshes /\ FALSE \in BOOLEAN /\ TRUE \in BOOLEAN
  BY DEF Watchers, Completions, Refreshes
<1>1. /\ Fit(session, queue, "idle", "none") /\ "connection" \in session.watchers
      /\ task["connection"] = "done" /\ session.widget /\ ~Joined
      /\ \A s : Fit(s, queue, "idle", "none") => Fit(s, queue', gui', "none")
  <2>1. Finish("connection")
    BY DEF FinishConnection
  <2>2. QED
    BY <2>1, FinishFinds
<1> PICK w : w = Dropped(session, "connection")
  OBVIOUS
<1> DEFINE u == SetConnectionPending(w.ui, FALSE)
           s == [w EXCEPT !.ui = u]
           n == SetConnectionState(s.ui, TRUE)
           a == SetAcquisitionAvailable(n, TRUE)
           e == SetConnectionState(s.ui, FALSE)
           o == [s EXCEPT !.ui = a]
           f == [s EXCEPT !.ui = e]
<1>2. session' = IF succeeded["connection"] THEN RefreshFeatureTree(o, "connect") ELSE Completed(f, "connect")
  BY DEF FinishConnection, SetConnectionError
<1>3. /\ Becomes(session, w, session.watchers \ {"connection"}, session.disconnectPending, session.refreshFor, {})
      /\ Sound(w) /\ w.ui = session.ui /\ w.widget = session.widget
  BY <1>0, DroppedShown
<1>4. Same(w.ui, u, {"connectionPending"})
  BY <1>3, ConnectionPendingSet DEF Sound
<1> HIDE DEF u
<1>5. Alike(w, s, {"connectionPending"}) /\ s.ui = u
  BY <1>3, <1>4, UiShown
<1> HIDE DEF s
<1>6. Sound(s) /\ s.widget = session.widget /\ s.watchers = session.watchers \ {"connection"}
        /\ s.refreshFor = session.refreshFor
  BY <1>3, <1>5 DEF Alike, Becomes, Keeps
<1>7. /\ Coherent(u) /\ \A x \in {"discoveryPending", "initializationPending", "refreshPending"} : u[x] = session.ui[x]
      /\ ~u.acquisitionActive
  <2>1. ~session.ui.acquisitionActive
    BY <1>1 DEF Fit
  <2>2. QED
    BY <1>3, <1>4, <2>1 DEF Same, Main
<1>8. mode # "fault" /\ worker.phase = "none"
  BY <1>1 DEF Fit, Works
<1>9. CASE succeeded["connection"]
  <2>1. mode # "closed"
    BY <1>1, <1>9 DEF DeviceInv, Opened
  <2>2. PICK b \in BOOLEAN : b = IsOpened
    BY DEF IsOpened
  <2>3. b = TRUE
    BY <2>1, <2>2 DEF IsOpened
  <2>4. Coherent(n) /\ n \in Widget
    BY <1>0, <1>5, <1>7, ConnectionSet DEF Coherent
  <2>5. n = SetConnectionState(u, IsOpened)
    BY <1>5, <2>2, <2>3
  <2> HIDE DEF n
  <2>6. Same(n, a, {"acquisitionAvailable", "acquisitionActive"})
    BY <1>0, <2>4, AvailableSet
  <2> HIDE DEF a
  <2>7. o.ui = a /\ Sound(o) /\ o.widget = s.widget /\ o.watchers = s.watchers /\ o.refreshFor = s.refreshFor
    <3>1. Coherent(a)
      BY <2>6 DEF Same
    <3>2. QED
      BY <1>6, <3>1 DEF Sound, Session, Coherent
  <2> HIDE DEF o
  <2>8. o.ui = IF IsOpened THEN SetAcquisitionAvailable(n, TRUE) ELSE n
    BY <2>2, <2>3, <2>7 DEF a
  <2>9. Fit(o, queue, "idle", "none")
    BY <1>0, <1>1, <1>6, <1>7, <1>8, <2>5, <2>7, <2>8, ReconnectedFit
  <2>10. Fit(RefreshFeatureTree(o, "connect"), queue, "idle", "none")
    BY <1>0, <1>8, <2>1, <2>7, <2>9, RefreshFit DEF Steady
  <2>11. RefreshFeatureTree(o, "connect").watchers \subseteq o.watchers \cup {"featureRead"}
    <3> PICK t : t = RefreshFeatureTree(o, "connect")
      OBVIOUS
    <3>1. CASE RefreshRefused(o)
      <4>1. t = AfterRefresh(o, "connect")
        BY <1>0, <2>7, <3>1, RefreshBecomes
      <4>2. Alike(o, AfterRefresh(o, "connect"), {"initializationPending", "acquisitionAvailable"})
        BY <1>0, <2>7, AfterRefreshAlike
      <4>3. QED
        BY <4>1, <4>2 DEF Alike, Becomes
    <3>2. CASE ~RefreshRefused(o)
      <4>1. Becomes(o, t, o.watchers \cup {"featureRead"}, o.disconnectPending, "connect", {"refreshPending"})
        BY <1>0, <2>7, <3>2, RefreshBecomes
      <4>2. QED
        BY <4>1 DEF Becomes
    <3>3. QED
      BY <3>1, <3>2
  <2>12. QED
    BY <1>1, <1>2, <1>6, <1>9, <2>7, <2>10, <2>11
<1>10. CASE ~succeeded["connection"]
  <2>1. mode = "closed"
    BY <1>1, <1>10 DEF Outcomes
  <2>2. PICK b \in BOOLEAN : b = IsOpened
    BY DEF IsOpened
  <2>3. b = FALSE
    BY <2>1, <2>2 DEF IsOpened
  <2>4. Coherent(e)
    BY <1>0, <1>5, <1>7, ConnectionSet
  <2>5. e = SetConnectionState(u, IsOpened)
    BY <1>5, <2>2, <2>3
  <2> HIDE DEF e
  <2>7. f.ui = e /\ Sound(f) /\ f.widget = s.widget /\ f.watchers = s.watchers /\ f.refreshFor = s.refreshFor
    BY <1>6, <2>4 DEF Sound, Session, Coherent
  <2> HIDE DEF f
  <2>8. f.ui = IF IsOpened THEN SetAcquisitionAvailable(e, TRUE) ELSE e
    BY <2>2, <2>3, <2>7
  <2>9. Fit(f, queue, "idle", "none")
    BY <1>0, <1>1, <1>6, <1>7, <1>8, <2>5, <2>7, <2>8, ReconnectedFit
  <2>10. Fit(Completed(f, "connect"), queue, "idle", "none")
    BY <1>0, <2>7, <2>9, CompletedAlike, AlikeFit
  <2>11. Alike(f, Completed(f, "connect"), {})
    BY <1>0, <2>7, CompletedAlike
  <2>12. Completed(f, "connect").watchers = f.watchers
    BY <2>11 DEF Alike, Becomes
  <2>13. QED
    BY <1>1, <1>2, <1>6, <1>10, <2>7, <2>10, <2>12
<1>11. QED
  BY <1>9, <1>10

LEMMA FinishDisconnectionFit ==
  ASSUME Sound(session), TaskInv, DeviceInv, StatusInv, Steady,
         Fit(session, queue, gui, "none"), FinishDisconnection
  PROVE  Fit(session', queue', gui', "none")
<1>0. /\ "disconnection" \in Watchers /\ "disconnection" \in {"connection", "disconnection"}
      /\ "disconnect" \in Completions /\ FALSE \in BOOLEAN
  BY DEF Watchers, Completions
<1>1. /\ Fit(session, queue, "idle", "none") /\ task["disconnection"] = "done"
      /\ \A s : Fit(s, queue, "idle", "none") => Fit(s, queue', gui', "none")
  <2>1. Finish("disconnection")
    BY DEF FinishDisconnection
  <2>2. QED
    BY <2>1, FinishFinds
<1> PICK w : w = Dropped(session, "disconnection")
  OBVIOUS
<1> DEFINE u == SetFeatures(w.ui, FALSE)
           c == SetConnectionState(u, FALSE)
           s == [w EXCEPT !.disconnectPending = FALSE, !.ui = c]
<1>2. session' = Completed(s, "disconnect")
  BY DEF FinishDisconnection
<1>3. /\ Becomes(session, w, session.watchers \ {"disconnection"}, session.disconnectPending, session.refreshFor, {})
      /\ Sound(w) /\ w.ui = session.ui
  BY <1>0, DroppedShown
<1>4. Same(w.ui, u, {})
  BY <1>0, <1>3, FeatureSet DEF Sound
<1> HIDE DEF u
<1>5. Coherent(u) /\ \A x \in {"discoveryPending", "initializationPending", "refreshPending"} : u[x] = session.ui[x]
  BY <1>3, <1>4 DEF Same, Main
<1>6. PICK b \in BOOLEAN : b = IsOpened
  BY DEF IsOpened
<1>7. mode = "closed" /\ b = FALSE
  BY <1>1, <1>6 DEF DeviceInv, Releasing, IsOpened
<1>8. Coherent(c) /\ c = SetConnectionState(u, IsOpened)
  BY <1>0, <1>5, <1>6, <1>7, ConnectionSet
<1> HIDE DEF c
<1>9. s.ui = c /\ Sound(s) /\ s.widget = w.widget /\ s.watchers = w.watchers /\ s.refreshFor = w.refreshFor
  BY <1>3, <1>8 DEF Sound, Session, Coherent
<1> HIDE DEF s
<1>10. s.widget = session.widget /\ s.watchers = session.watchers \ {"disconnection"}
         /\ s.refreshFor = session.refreshFor
  BY <1>3, <1>9 DEF Becomes, Keeps
<1>11. s.ui = IF IsOpened THEN SetAcquisitionAvailable(c, TRUE) ELSE c
  BY <1>6, <1>7, <1>9
<1>12. ~IsOpened
  BY <1>7 DEF IsOpened
<1>13. Fit(s, queue, "idle", "none")
  BY <1>0, <1>1, <1>5, <1>8, <1>10, <1>11, <1>12, ReconnectedFit
<1>14. Fit(Completed(s, "disconnect"), queue, "idle", "none")
  BY <1>0, <1>9, <1>13, CompletedAlike, AlikeFit
<1>15. QED
  BY <1>1, <1>2, <1>14


LEMMA FinishFeatureFit ==
  ASSUME Sound(session), TaskInv, StatusInv, Steady, Fit(session, queue, gui, "none"), FinishFeature
  PROVE  Fit(session', queue', gui', "none")
<1>0. "feature" \in Watchers /\ "feature" \in Refreshes /\ FALSE \in BOOLEAN
  BY DEF Watchers, Refreshes
<1>1. /\ Fit(session, queue, "idle", "none")
      /\ \A s : Fit(s, queue, "idle", "none") => Fit(s, queue', gui', "none")
  <2>1. Finish("feature")
    BY DEF FinishFeature
  <2>2. QED
    BY <2>1, FinishFinds
<1> PICK s : s = Dropped(session, "feature")
  OBVIOUS
<1> DEFINE f == SetFeatureOperationPending(s.ui, FALSE)
           freed == [s EXCEPT !.ui = f]
           g == SetSoftwareTriggerPending(freed.ui, FALSE)
           last == [freed EXCEPT !.ui = g]
<1>2. /\ Becomes(session, s, session.watchers \ {"feature"}, session.disconnectPending, session.refreshFor, {})
      /\ Sound(s)
  BY <1>0, DroppedShown
<1>3. session' \in {RefreshFeatureTree(s, "feature"), freed, last}
  <2>1. session' =
          CASE succeeded["feature"] /\ s.featureOperation = "write" -> RefreshFeatureTree(s, "feature")
            [] succeeded["feature"] /\ s.featureOperation = "trigger" -> freed
            [] ~succeeded["feature"] /\ s.featureOperation = "write" -> freed
            [] ~succeeded["feature"] /\ s.featureOperation = "trigger" -> last
    BY DEF FinishFeature
  <2> HIDE DEF freed, last
  <2>2. s.featureOperation \in {"write", "trigger"}
    BY <1>2 DEF Sound, Session
  <2>3. QED
    BY <2>1, <2>2
<1>4. Fit(s, queue, "idle", "none")
  BY <1>1, <1>2, DroppedFit
<1>5. Fit(RefreshFeatureTree(s, "feature"), queue, "idle", "none")
  BY <1>0, <1>2, <1>4, RefreshFit DEF Steady
<1>6. Same(s.ui, f, {})
  BY <1>0, <1>2, FeatureSet DEF Sound
<1> HIDE DEF f
<1>7. Alike(s, freed, {})
  BY <1>2, <1>6, UiShown
<1> HIDE DEF freed
<1>8. Same(freed.ui, g, {}) /\ Sound(freed)
  BY <1>7, TriggerPendingSet DEF Alike, Becomes, Keeps, Sound
<1> HIDE DEF g
<1>9. Alike(freed, last, {})
  BY <1>8, UiShown
<1> HIDE DEF last
<1>10. Fit(freed, queue, "idle", "none")
  BY <1>4, <1>7, AlikeFit
<1>11. Fit(last, queue, "idle", "none")
  BY <1>9, <1>10, AlikeFit
<1>12. QED
  BY <1>1, <1>3, <1>5, <1>10, <1>11

LEMMA FinishFeatureReadFit ==
  ASSUME Sound(session), TaskInv, StatusInv, Fit(session, queue, gui, "none"), FinishFeatureRead
  PROVE  Fit(session', queue', gui', "none")
<1>0. "featureRead" \in Watchers /\ FALSE \in BOOLEAN /\ TRUE \in BOOLEAN
  BY DEF Watchers
<1>1. /\ Fit(session, queue, "idle", "none") /\ "featureRead" \in session.watchers
      /\ \A s : Fit(s, queue, "idle", "none") => Fit(s, queue', gui', "none")
  <2>1. Finish("featureRead")
    BY DEF FinishFeatureRead
  <2>2. QED
    BY <2>1, FinishFinds
<1> PICK w, for : w = Dropped(session, "featureRead") /\ for = session.refreshFor
  OBVIOUS
<1> PICK x : x = IF for \in {"initialized", "profile failed"} THEN "initialization" ELSE "none"
  OBVIOUS
<1> DEFINE r == SetFeatureRefreshPending(w.ui, FALSE)
           f == SetFeatures(r, TRUE)
           u == IF succeeded["featureRead"] THEN f ELSE r
           s == [w EXCEPT !.refreshFor = "nothing", !.ui = u]
<1>2. session' = AfterRefresh(s, for)
  BY DEF FinishFeatureRead
<1>3. /\ Becomes(session, w, session.watchers \ {"featureRead"}, session.disconnectPending, session.refreshFor, {})
      /\ Sound(w) /\ w.ui = session.ui /\ for \in Refreshes
  <2>1. for \in Refreshes
    BY DEF Sound, Session, Refreshes
  <2>2. QED
    BY <1>0, <2>1, DroppedShown
<1>4. Same(w.ui, r, {"refreshPending"}) /\ r.refreshPending = FALSE
  BY <1>0, <1>3, FeatureSet DEF Sound
<1> HIDE DEF r
<1>5. Same(r, f, {})
  BY <1>0, <1>4, FeatureSet DEF Same
<1> HIDE DEF f
<1>6. Same(w.ui, f, {"refreshPending"}) /\ f.refreshPending = FALSE
  <2>1. Same(w.ui, f, {"refreshPending"})
    BY <1>4, <1>5, SameTrans
  <2>2. QED
    BY <1>4, <1>5, <2>1 DEF Same, Main
<1>7. Same(w.ui, u, {"refreshPending"}) /\ u.refreshPending = FALSE
  BY <1>4, <1>6
<1> HIDE DEF u
<1>8. w = [y \in Fields |-> w[y]]
  BY <1>3, SoundIsSession DEF IsSession
<1>9. /\ s.ui = u /\ s.widget = w.widget /\ s.watchers = w.watchers /\ s.disconnectPending = w.disconnectPending
      /\ s.refreshFor = "nothing"
  BY <1>8 DEF Fields
<1>10. Sound(s)
  BY <1>3, <1>7 DEF Sound, Session, Same, Coherent
<1> HIDE DEF s
<1>11. Becomes(session, s, session.watchers \ {"featureRead"}, session.disconnectPending, "nothing", {"refreshPending"})
  BY <1>3, <1>7, <1>9, <1>10 DEF Becomes, Keeps, Same
<1>12. ~s.ui.refreshPending
  BY <1>7, <1>9
<1>13. Fit(s, queue, "idle", x)
  BY <1>1, <1>11, <1>12, DroppedFit
<1>14. for \in {"connect", "initialized"} => mode \notin {"closed", "fault"}
  BY <1>1 DEF Fit, Works
<1>15. Fit(AfterRefresh(s, for), queue, "idle", "none")
  <2>1. x = "none" \/ (x = "initialization" /\ for \in {"initialized", "profile failed"})
    OBVIOUS
  <2>2. QED
    BY <1>3, <1>10, <1>13, <1>14, <2>1, AfterRefreshFit
<1>16. QED
  BY <1>1, <1>2, <1>15

LEMMA FinishArmFit ==
  ASSUME Sound(session), TaskInv, StatusInv, Steady, Fit(session, queue, gui, "none"), FinishArm
  PROVE  Fit(session', queue', gui', "none")
<1>0. "arm" \in Watchers /\ {"arm", "acquisitionEnd"} \subseteq Completions /\ FALSE \in BOOLEAN
  BY DEF Watchers, Completions
<1>1. /\ Fit(session, queue, "idle", "none") /\ task["arm"] = "done" /\ ~StartQueued(queue, "idle")
      /\ \A s : Fit(s, queue, "idle", "none") => Fit(s, queue', gui', "none")
  <2>1. Finish("arm")
    BY DEF FinishArm
  <2>2. QED
    BY <2>1, FinishFinds
<1> PICK w : w = Dropped(session, "arm")
  OBVIOUS
<1> DEFINE a == ArmEnded(w.ui)
           s == [w EXCEPT !.ui = a]
           k == s.completion["arm"]
           e == [s EXCEPT !.completion["acquisitionEnd"] = k, !.completion["arm"] = NoCall]
<1>2. session' \in {Completed(s, "arm"), e}
  BY DEF FinishArm
<1>3. /\ Becomes(session, w, session.watchers \ {"arm"}, session.disconnectPending, session.refreshFor, {})
      /\ Sound(w) /\ w.ui = session.ui
  BY <1>0, DroppedShown
<1>4. Same(w.ui, a, {"armPending"}) /\ ~a.armPending
  BY <1>0, <1>3, ArmSet DEF Sound
<1> HIDE DEF a
<1>5. Alike(w, s, {"armPending"}) /\ s.ui = a
  BY <1>3, <1>4, UiShown
<1> HIDE DEF s
<1>6. Becomes(session, s, session.watchers \ {"arm"}, session.disconnectPending, session.refreshFor, {"armPending"})
        /\ Sound(s)
  BY <1>3, <1>5, DroppedAlike
<1>7. worker.phase # "held"
  BY <1>1 DEF Steady, Working
<1>8. Fit(s, queue, "idle", "none")
  BY <1>1, <1>4, <1>5, <1>6, <1>7, DroppedFit
<1>9. Fit(Completed(s, "arm"), queue, "idle", "none")
  BY <1>0, <1>6, <1>8, CompletedAlike, AlikeFit
<1>10. k \in {NoCall} \cup Calls
  BY <1>0, <1>6 DEF Sound, Session
<1> HIDE DEF k
<1>11. Sound(e)
  BY <1>0, <1>6, <1>10 DEF Sound, Session
<1>12. s = [y \in Fields |-> s[y]]
  BY <1>6, SoundIsSession DEF IsSession
<1>13. Alike(s, e, {})
  BY <1>11, <1>12 DEF Alike, Becomes, Keeps, Fields
<1> HIDE DEF e
<1>14. Fit(e, queue, "idle", "none")
  BY <1>8, <1>13, AlikeFit
<1>15. QED
  BY <1>1, <1>2, <1>9, <1>14

LEMMA EndsFit ==
  ASSUME Sound(session), TaskInv, DeviceInv, StatusInv, Steady, Outcomes,
         Fit(session, queue, gui, "none"), Ends
  PROVE  Fit(session', queue', gui', "none")
BY FinishDiscoveryFit, FinishConnectionFit, FinishDisconnectionFit, FinishInitializationFit,
   FinishFeatureFit, FinishFeatureReadFit, FinishArmFit DEF Ends

LEMMA EndedConnection ==
  ASSUME Sound(session), TaskInv, DeviceInv, StatusInv, Steady, Outcomes,
         Fit(session, queue, gui, "none"), Ends, "connection" \in session'.watchers
  PROVE  task'["connection"] = task["connection"]
<1>1. ~FinishConnection
  BY FinishConnectionFit
<1>2. PICK w \in Watchers \ {"connection"} : Finish(w)
  BY <1>1 DEF Ends, FinishDiscovery, FinishDisconnection, FinishInitialization,
     FinishFeature, FinishFeatureRead, FinishArm, Watchers
<1>3. task' = [task EXCEPT ![w] = "idle"] /\ "connection" \in Watchers
  BY <1>2 DEF Finish, Watchers
<1>4. QED
  BY <1>2, <1>3 DEF TaskInv

------------------------------------------------------------------------------
(* The steps of the GUI thread keep the widget fitting. *)
LEMMA FitNext ==
  ASSUME UNCHANGED <<mode, worker, statusGeneration>>, Fit(session', queue', gui', "none"),
         "connection" \in session'.watchers => task'["connection"] = task["connection"]
  PROVE  Fit(session, queue, gui, "none")'
<1>1. Works(session)'
  BY DEF Fit, Works
<1>2. Pendings(session', "none") => Pendings(session, "none")'
  BY DEF Pendings
<1>3. Moving(session') => Moving(session)'
  BY DEF Moving
<1>4. /\ ErrorKnown(queue') <=> ErrorKnown(queue)'
      /\ EndKnown(queue') <=> EndKnown(queue)'
  BY DEF ErrorKnown, EndKnown, Events, Ending, Fresh
<1>5. StartQueued(queue', gui') <=> StartQueued(queue, gui)'
  BY DEF StartQueued, StartAt, BeforeArm
<1>6. Shows(session', queue', gui') => Shows(session, queue, gui)'
  BY <1>4, <1>5 DEF Shows, AvailableShown, ActiveShown, IsOpened
<1>7. QED
  BY <1>1, <1>2, <1>3, <1>6 DEF Fit

LEMMA GuiPool ==
  ASSUME GuiMove
  PROVE  UNCHANGED pool \/ Ends
<1>1. CASE UserStep
  BY <1>1 DEF UserStep, Click, ClickRefresh, ClickConnect, ClickDisconnect, ClickSingle, ToggleLive,
     ClickInit, EditFeature, ClickTrigger, DestroyWidget, DestroySession
<1>2. CASE HostStep
  BY <1>2 DEF HostStep, StopNothing, AskTool, NewCall, RequestParameter
<1>3. CASE AdmitTool \/ RefuseTool
  BY <1>3 DEF AdmitTool, RefuseTool
<1>4. CASE Handles
  BY <1>4 DEF Handles, HandleRefresh, HandleControl, HandleApplied, HandleFrame, HandleStale,
     HandleActive, HandleInactive, HandleStartFailed, HandleEnd, HandleRest, Handle, Keep
<1>5. QED
  BY <1>1, <1>2, <1>3, <1>4 DEF GuiMove

LEMMA OutcomesGui ==
  ASSUME TaskInv, CallInv, DeviceInv, Outcomes, GuiMove
  PROVE  Outcomes'
<1>0. {"connection", "initialization"} \subseteq Watchers
  BY DEF Watchers
<1>1. mode' = mode
  BY GuiMoves
<1>2. CASE UNCHANGED pool
  BY <1>1, <1>2 DEF Outcomes, pool
<1>3. CASE Ends
  <2>1. PICK w \in Watchers : /\ Finish(w)
                              /\ \A v \in Watchers : task'[v] = IF v = w THEN "idle" ELSE task[v]
    BY <1>3, EndsFinish
  <2>2. succeeded' = [succeeded EXCEPT ![w] = FALSE] /\ succeeded \in [Watchers -> BOOLEAN]
    BY <2>1 DEF Finish, DeviceInv, Opened
  <2>3. \A v \in Watchers : v # w => succeeded'[v] = succeeded[v]
    BY <2>2
  <2>4. QED
    BY <1>0, <1>1, <2>1, <2>3 DEF Outcomes
<1>4. QED
  BY <1>2, <1>3, GuiPool

LEMMA ModeSteady ==
  ASSUME DeviceInv, ModeInv
  PROVE  Steady
BY DEF DeviceInv, ModeInv, Steady

LEMMA GuiFit ==
  ASSUME Sound(session), CallInv, TaskInv, AskedTool, DeviceInv, ModeInv, StatusInv, Alive, Outcomes,
         Fit(session, queue, gui, "none"), GuiMove, Alive'
  PROVE  Fit(session', queue', gui', "none")
<1>1. Steady
  BY ModeSteady
<1>2. CASE /\ queue' = queue /\ gui' = gui
           /\ UserStep \/ HostStep \/ AdmitTool \/ RefuseTool
  <2>1. Fit(session', queue, gui, "none")
    BY <1>1, <1>2, UserStepFit, HostStepFit, AdmissionFit
  <2>2. QED
    BY <1>2, <2>1
<1>3. CASE queue' = Append(queue, [kind |-> "refresh"]) /\ gui' = "idle" /\ ClickRefresh
  <2>1. gui = "idle"
    BY <1>3 DEF ClickRefresh, Click, GuiFree
  <2>2. Fit(session', queue, gui, "none")
    BY <1>1, <1>3, UserStepFit DEF UserStep
  <2>3. Longer(queue, queue')
    <3>1. \E S : queue \in Seq(S)
      BY DEF TaskInv, QueueOK
    <3>2. QED
      BY <1>3, <3>1, LongerAppend
  <2>4. QED
    BY <1>3, <2>1, <2>2, <2>3, LongerFit
<1>4. CASE DestroySession
  BY <1>4 DEF DestroySession, Alive
<1>5. CASE DestroyWidget
  <2>1. Fit(session', queue, gui, "none")
    BY <1>1, <1>5, UserStepFit DEF UserStep
  <2>2. ~session'.widget
    BY <1>5 DEF DestroyWidget, Sound, Session
  <2>3. QED
    BY <2>1, <2>2 DEF Fit
<1>6. CASE Handles
  BY <1>1, <1>6, HandlerFit DEF ModeInv
<1>7. CASE Ends
  BY <1>1, <1>7, EndsFit
<1>8. QED
  BY <1>2, <1>3, <1>4, <1>5, <1>6, <1>7, QueueMoves DEF Handles

LEMMA WidgetGui ==
  ASSUME Sound(session), CallInv, TaskInv, AskedTool, DeviceInv, ModeInv, StatusInv, WidgetInv, GuiMove
  PROVE  WidgetInv'
<1> SUFFICES ASSUME Alive' PROVE Outcomes' /\ Fit(session, queue, gui, "none")'
  BY DEF WidgetInv
<1>1. Alive /\ UNCHANGED <<mode, worker, statusGeneration>>
  BY GuiMoves DEF controller
<1>2. Outcomes /\ Fit(session, queue, gui, "none")
  BY <1>1 DEF WidgetInv
<1>3. Outcomes'
  BY <1>2, OutcomesGui
<1>4. Fit(session', queue', gui', "none")
  BY <1>1, <1>2, GuiFit
<1>5. "connection" \in session'.watchers => task'["connection"] = task["connection"]
  BY <1>2, GuiPool, EndedConnection, ModeSteady DEF pool
<1>6. QED
  BY <1>1, <1>3, <1>4, <1>5, FitNext

------------------------------------------------------------------------------
(* The steps of the other threads keep the widget fitting. *)

(* A step of another thread that changes nothing the widget has to follow. *)
Dull ==
  /\ statusGeneration' = statusGeneration
  /\ mode' = mode \/ {mode, mode'} \subseteq {"ready", "initializing", "arming", "armed"}
  /\ worker'.phase \in {"none", "held"} => worker.phase \in {"none", "held"}
  /\ worker'.phase \in {"running", "leaving"} => worker.phase \in {"running", "leaving"}
  /\ worker.phase \in {"ended", "telling"} /\ worker.error =>
       worker'.phase \in {"ended", "telling"} /\ worker'.error

LEMMA StepFit ==
  ASSUME Fit(session, queue, gui, "none"), UNCHANGED guiThread, Works(session)',
         session.widget => Moving(session) \/ (Shows(session, queue, gui) => Shows(session, queue, gui)')
  PROVE  Fit(session, queue, gui, "none")'
<1>1. session' = session /\ gui' = gui
  BY DEF guiThread
<1>2. Pendings(session, "none") => Pendings(session, "none")'
  BY <1>1 DEF Pendings
<1>3. Moving(session) => Moving(session)'
  BY <1>1 DEF Moving
<1>4. QED
  BY <1>1, <1>2, <1>3 DEF Fit

LEMMA DullShows ==
  ASSUME UNCHANGED guiThread, Longer(queue, queue'), Dull, Shows(session, queue, gui)
  PROVE  Shows(session, queue, gui)'
<1>1. session' = session /\ gui' = gui /\ statusGeneration' = statusGeneration
  BY DEF guiThread, Dull
<1>2. Events(queue) \subseteq Events(queue') /\ (StartQueued(queue, gui) => StartQueued(queue', gui))
  BY LongerKeeps DEF StartQueued
<1>3. \A e : (Ending(e) => Ending(e)')
  BY <1>1 DEF Ending, Fresh
<1>4. Events(queue)' = Events(queue')
  BY DEF Events
<1>5. EndKnown(queue) => EndKnown(queue)'
  BY <1>2, <1>3, <1>4 DEF EndKnown
<1>6. ErrorKnown(queue) => ErrorKnown(queue)'
  BY <1>2, <1>3, <1>4 DEF ErrorKnown, Dull
<1>7. StartQueued(queue, gui) => StartQueued(queue, gui)'
  <2>1. StartQueued(queue', gui) => StartQueued(queue, gui)'
    BY <1>1 DEF StartQueued, StartAt, BeforeArm
  <2>2. QED
    BY <1>2, <2>1
<1>8. IsOpened' <=> IsOpened
  BY DEF IsOpened, Dull
<1>9. AvailableShown(session.ui, ErrorKnown(queue)) => AvailableShown(session.ui, ErrorKnown(queue))'
  BY <1>1, <1>6 DEF AvailableShown, Dull
<1>10. ActiveShown(session, queue, gui) => ActiveShown(session, queue, gui)'
  BY <1>1, <1>5, <1>7 DEF ActiveShown, Dull
<1>11. QED
  BY <1>1, <1>8, <1>9, <1>10 DEF Shows

LEMMA DullFit ==
  ASSUME Fit(session, queue, gui, "none"), UNCHANGED guiThread, Longer(queue, queue'), Dull, Works(session)'
  PROVE  Fit(session, queue, gui, "none")'
BY StepFit, DullShows

(* The step of a task that goes to the phase p, and with ok to its end. *)
TaskMoves(w, p, ok) ==
  /\ UNCHANGED guiThread /\ Longer(queue, queue')
  /\ \A v \in Watchers : task'[v] = IF v = w THEN p ELSE task[v]
  /\ \A v \in Watchers : succeeded'[v] = IF v = w /\ p = "done" THEN ok ELSE succeeded[v]

LEMMA TaskMovesOn ==
  ASSUME TaskInv, Alive, StatusInv, Opened, NEW w \in Watchers
  PROVE  /\ \A p : p # "done" /\ ToPhase(w, p) => TaskMoves(w, p, TRUE)
         /\ \A ok : Returns(w, ok, <<>>) => TaskMoves(w, "done", ok)
         /\ \A ok, d : Returns(w, ok, <<d>>) => TaskMoves(w, "done", ok)
<1>1. ASSUME NEW p, p # "done", ToPhase(w, p) PROVE TaskMoves(w, p, TRUE)
  <2>1. /\ Posts({}) /\ succeeded' = succeeded
        /\ \A v \in Watchers : task'[v] = IF v = w THEN p ELSE task[v]
    BY <1>1, TaskPosts
  <2>2. QED
    BY <1>1, <2>1 DEF Posts, TaskMoves
<1>2. ASSUME NEW S, NEW ok, Posts(S), succeeded' = [succeeded EXCEPT ![w] = ok],
             \A v \in Watchers : task'[v] = IF v = w THEN "done" ELSE task[v]
      PROVE  TaskMoves(w, "done", ok)
  <2>1. \A v \in Watchers : succeeded'[v] = IF v = w THEN ok ELSE succeeded[v]
    BY <1>2 DEF Opened
  <2>2. QED
    BY <1>2, <2>1 DEF Posts, TaskMoves
<1>3. ASSUME NEW ok, Returns(w, ok, <<>>) PROVE TaskMoves(w, "done", ok)
  <2>1. /\ Posts({Finished(w)}) /\ succeeded' = [succeeded EXCEPT ![w] = ok]
        /\ \A v \in Watchers : task'[v] = IF v = w THEN "done" ELSE task[v]
    BY <1>3, TaskPosts
  <2>2. QED
    BY <1>2, <2>1
<1>4. ASSUME NEW ok, NEW d, Returns(w, ok, <<d>>) PROVE TaskMoves(w, "done", ok)
  <2>1. /\ Posts({d, Finished(w)}) /\ succeeded' = [succeeded EXCEPT ![w] = ok]
        /\ \A v \in Watchers : task'[v] = IF v = w THEN "done" ELSE task[v]
    BY <1>4, TaskPosts
  <2>2. QED
    BY <1>2, <2>1
<1>5. QED
  BY <1>1, <1>3, <1>4

LEMMA TaskFit ==
  ASSUME Inv, TaskInv, DeviceInv, Outcomes, Fit(session, queue, gui, "none"),
         NEW w \in Watchers, Running(w), NEW p, NEW ok, TaskMoves(w, p, ok),
         statusGeneration' = statusGeneration,
         \/ worker' = worker
         \/ w = "arm" /\ worker.phase = "none" /\ worker'.phase = "held",
         \/ mode' = mode
         \/ {mode, mode'} \subseteq {"ready", "initializing", "arming", "armed"}
         \/ w \in {"connection", "disconnection"},
         w = "connection" =>
           /\ mode' \in {"closed", "ready"} /\ p # "idle"
           /\ p = "done" /\ ~ok => mode' = "closed",
         w = "initialization" => mode' # "closed" /\ (p = "done" /\ ok => mode' # "fault"),
         w = "featureRead" => mode' = mode
  PROVE  Outcomes' /\ Fit(session, queue, gui, "none")'
<1>0. {"connection", "initialization", "featureRead", "arm", "disconnection"} \subseteq Watchers
  BY DEF Watchers
<1>1. w \in session.watchers /\ \A v \in Watchers : v # w => task[v] = "idle" /\ v \notin session.watchers
  BY Alone DEF DeviceInv
<1>2. /\ session' = session /\ gui' = gui /\ UNCHANGED guiThread /\ Longer(queue, queue')
      /\ \A v \in Watchers : task'[v] = IF v = w THEN p ELSE task[v]
      /\ \A v \in Watchers : succeeded'[v] = IF v = w /\ p = "done" THEN ok ELSE succeeded[v]
  BY DEF TaskMoves, guiThread
<1>3. Outcomes'
  BY <1>0, <1>1, <1>2 DEF Outcomes
<1>4. Works(session)
  BY DEF Fit
<1>5. Works(session)'
  BY <1>0, <1>1, <1>2, <1>4 DEF Works
<1>6. CASE w \in {"connection", "disconnection"}
  <2>1. Moving(session)
    BY <1>1, <1>6 DEF Moving
  <2>2. QED
    BY <1>2, <1>3, <1>5, <2>1, StepFit
<1>7. CASE w \notin {"connection", "disconnection"}
  <2>1. Dull
    BY <1>7 DEF Dull
  <2>2. QED
    BY <1>2, <1>3, <1>5, <2>1, DullFit
<1>8. QED
  BY <1>6, <1>7

------------------------------------------------------------------------------
(* The tasks of the watchers keep the widget fitting. *)
LEMMA IdleTaskFit ==
  ASSUME Inv, TaskInv, DeviceInv, StatusInv, Alive, Outcomes, Fit(session, queue, gui, "none"),
         RunDiscovery \/ RunFeature \/ ReadFeatures
  PROVE  Outcomes' /\ Fit(session, queue, gui, "none")'
<1>0. {"discovery", "feature", "featureRead"} \subseteq Watchers
  BY DEF Watchers
<1>1. PICK w \in {"discovery", "feature", "featureRead"} : Queued(w) /\ \E ok : Returns(w, ok, <<>>)
  BY DEF RunDiscovery, RunFeature, ReadFeatures
<1>2. PICK ok : Returns(w, ok, <<>>)
  BY <1>1
<1>3. UNCHANGED <<mode, worker, statusGeneration>>
  BY DEF RunDiscovery, RunFeature, ReadFeatures, DeviceIdle, SameAcquisition, controller
<1>4. Running(w) /\ w \in Watchers
  BY <1>0, <1>1 DEF Running
<1>5. TaskMoves(w, "done", ok)
  BY <1>2, <1>4, TaskMovesOn DEF DeviceInv
<1>6. w \notin {"connection", "initialization"}
  OBVIOUS
<1>7. QED
  BY <1>3, <1>4, <1>5, <1>6, TaskFit

LEMMA ConnectionTaskFit ==
  ASSUME Inv, TaskInv, DeviceInv, StatusInv, Alive, Outcomes, Fit(session, queue, gui, "none"),
         OpenDevice \/ ReportConnection
  PROVE  Outcomes' /\ Fit(session, queue, gui, "none")'
<1>0. "connection" \in Watchers
  BY DEF Watchers
<1>1. UNCHANGED <<worker, statusGeneration>>
  BY DEF OpenDevice, ReportConnection, SameAcquisition, controller
<1>2. Running("connection")
  BY DEF OpenDevice, ReportConnection, Running, TaskAt, TaskPhases
<1>3. "connection" \in session.watchers
  BY <1>0, <1>2, Alone DEF DeviceInv
<1>4. mode \in {"closed", "ready"} /\ (task["connection"] = "idle" => mode = "closed")
  BY <1>3 DEF Fit, Works
<1>5. CASE D!Open /\ ToPhase("connection", "opened")
  <2>1. TaskMoves("connection", "opened", TRUE)
    BY <1>0, <1>5, TaskMovesOn DEF DeviceInv
  <2>2. mode' = "ready"
    BY <1>5 DEF D!Open, D!Become
  <2>3. QED
    BY <1>0, <1>1, <1>2, <2>1, <2>2, TaskFit
<1>6. CASE Queued("connection") /\ DeviceIdle /\ Returns("connection", FALSE, <<>>)
  <2>1. TaskMoves("connection", "done", FALSE)
    BY <1>0, <1>6, TaskMovesOn DEF DeviceInv
  <2>2. mode' = "closed"
    BY <1>4, <1>6 DEF DeviceIdle, Queued
  <2>3. QED
    BY <1>0, <1>1, <1>2, <2>1, <2>2, TaskFit
<1>7. CASE ReportConnection
  <2>1. TaskMoves("connection", "done", TRUE)
    BY <1>0, <1>7, TaskMovesOn DEF DeviceInv, ReportConnection
  <2>2. mode' \in {"closed", "ready"}
    BY <1>4, <1>7 DEF DeviceIdle, ReportConnection
  <2>3. QED
    BY <1>0, <1>1, <1>2, <2>1, <2>2, TaskFit
<1>8. QED
  BY <1>5, <1>6, <1>7 DEF OpenDevice

LEMMA DisconnectionTaskFit ==
  ASSUME Inv, TaskInv, DeviceInv, StatusInv, Alive, Outcomes, Fit(session, queue, gui, "none"),
         StopForDisconnect \/ JoinForDisconnect \/ CloseDevice \/ ReleaseDevice
  PROVE  Outcomes' /\ Fit(session, queue, gui, "none")'
<1>0. "disconnection" \in Watchers
  BY DEF Watchers
<1>1. UNCHANGED <<worker, statusGeneration>>
  BY DEF StopForDisconnect, JoinForDisconnect, CloseDevice, ReleaseDevice, SameAcquisition,
     ClearFlags, controller
<1>2. Running("disconnection")
  BY DEF StopForDisconnect, JoinForDisconnect, CloseDevice, ReleaseDevice, Running, TaskAt, TaskPhases
<1>3. \/ \E p \in {"stopping", "stopped", "closing"} : ToPhase("disconnection", p)
      \/ Returns("disconnection", TRUE, <<>>)
      \/ Returns("disconnection", TRUE, <<Control>>)
  BY DEF StopForDisconnect, JoinForDisconnect, CloseDevice, ReleaseDevice
<1>4. PICK p : TaskMoves("disconnection", p, TRUE)
  BY <1>0, <1>3, TaskMovesOn DEF DeviceInv
<1>5. QED
  BY <1>0, <1>1, <1>2, <1>4, TaskFit

LEMMA InitializationTaskFit ==
  ASSUME Inv, TaskInv, DeviceInv, StatusInv, Alive, Outcomes, Fit(session, queue, gui, "none"),
         BeginProfile \/ EndProfile
  PROVE  Outcomes' /\ Fit(session, queue, gui, "none")'
<1>0. "initialization" \in Watchers
  BY DEF Watchers
<1>1. UNCHANGED <<worker, statusGeneration>>
  BY DEF BeginProfile, EndProfile, SameAcquisition, controller
<1>2. Running("initialization")
  BY DEF BeginProfile, EndProfile, Running, TaskAt, TaskPhases
<1>3. "initialization" \in session.watchers
  BY <1>0, <1>2, Alone DEF DeviceInv
<1>4. mode # "closed"
  BY <1>3 DEF Fit, Works
<1>5. CASE D!BeginInitialization /\ ToPhase("initialization", "profile")
  <2>1. TaskMoves("initialization", "profile", TRUE)
    BY <1>0, <1>5, TaskMovesOn DEF DeviceInv
  <2>2. mode = "ready" /\ mode' = "initializing"
    BY <1>5 DEF D!BeginInitialization, D!Become
  <2>3. QED
    BY <1>0, <1>1, <1>2, <2>1, <2>2, TaskFit
<1>6. CASE DeviceIdle /\ Returns("initialization", FALSE, <<>>)
  <2>1. TaskMoves("initialization", "done", FALSE)
    BY <1>0, <1>6, TaskMovesOn DEF DeviceInv
  <2>2. mode' = mode
    BY <1>6 DEF DeviceIdle
  <2>3. QED
    BY <1>0, <1>1, <1>2, <1>4, <2>1, <2>2, TaskFit
<1>7. CASE EndProfile
  <2>1. PICK ok \in BOOLEAN : Returns("initialization", ok, <<>>)
    BY <1>7 DEF EndProfile
  <2>2. TaskMoves("initialization", "done", ok)
    BY <1>0, <2>1, TaskMovesOn DEF DeviceInv
  <2>3. mode = "initializing" /\ mode' = "ready"
    BY <1>7 DEF EndProfile, D!EndInitialization, D!Become
  <2>4. QED
    BY <1>0, <1>1, <1>2, <2>2, <2>3, TaskFit
<1>8. QED
  BY <1>5, <1>6, <1>7 DEF BeginProfile

LEMMA ArmTaskFit ==
  ASSUME Inv, TaskInv, DeviceInv, ModeInv, StatusInv, Alive, Outcomes, Fit(session, queue, gui, "none"),
         StartArm \/ BeginArming \/ SetUpArming \/ CompleteArming \/ FailArming \/ ReportGrabbing \/ ReturnArmed
  PROVE  Outcomes' /\ Fit(session, queue, gui, "none")'
<1>0. "arm" \in Watchers
  BY DEF Watchers
<1>1. statusGeneration' = statusGeneration
  BY DEF StartArm, BeginArming, SetUpArming, CompleteArming, FailArming, ReportGrabbing, ReturnArmed,
     SetContinuous, controller
<1>2. Running("arm")
  BY DEF StartArm, BeginArming, SetUpArming, CompleteArming, FailArming, ReportGrabbing, ReturnArmed,
     Running, TaskAt, TaskPhases
<1>3. \/ mode' = mode
      \/ {mode, mode'} \subseteq {"ready", "initializing", "arming", "armed"}
  BY DEF StartArm, BeginArming, SetUpArming, CompleteArming, FailArming, ReportGrabbing, ReturnArmed,
     DeviceIdle, D!BeginArming, D!StartStreaming, D!AbandonArming, D!Arm, D!Become
<1>4. \/ worker' = worker
      \/ worker.phase = "none" /\ worker'.phase = "held"
  <2>1. CASE CompleteArming
    <3>1. task["arm"] = "setup"
      BY <2>1 DEF CompleteArming, TaskAt
    <3>2. worker' = [phase |-> "held", continuous |-> session.armLive, error |-> FALSE]
      BY <2>1 DEF CompleteArming
    <3>3. worker'.phase = "held"
      BY <3>2
    <3>4. QED
      BY <3>1, <3>3 DEF ModeInv
  <2>2. CASE StartArm \/ BeginArming \/ SetUpArming \/ FailArming \/ ReportGrabbing \/ ReturnArmed
    <3>1. worker' = worker
      BY <2>2 DEF StartArm, BeginArming, SetUpArming, FailArming, ReportGrabbing, ReturnArmed, SameAcquisition
    <3>2. QED
      BY <3>1
  <2>3. QED
    BY <2>1, <2>2
<1>5. \/ \E p \in {"arming", "setup", "failed", "armed", "grabbing"} : ToPhase("arm", p)
      \/ \E ok : Returns("arm", ok, <<>>)
      \/ \E ok, d : Returns("arm", ok, <<d>>)
  BY DEF StartArm, BeginArming, SetUpArming, CompleteArming, FailArming, ReportGrabbing, ReturnArmed
<1>6. \E p, ok : TaskMoves("arm", p, ok)
  <2>1. /\ \A p : p # "done" /\ ToPhase("arm", p) => TaskMoves("arm", p, TRUE)
        /\ \A ok : Returns("arm", ok, <<>>) => TaskMoves("arm", "done", ok)
        /\ \A ok, d : Returns("arm", ok, <<d>>) => TaskMoves("arm", "done", ok)
    BY <1>0, TaskMovesOn DEF DeviceInv
  <2>2. \A p \in {"arming", "setup", "failed", "armed", "grabbing"} : p # "done"
    OBVIOUS
  <2>3. QED
    BY <1>5, <2>1, <2>2
<1>7. PICK p, ok : TaskMoves("arm", p, ok)
  BY <1>6
<1>8. QED
  BY <1>0, <1>1, <1>2, <1>3, <1>4, <1>7, TaskFit

(* The active status is queued before the arm is finished. *)
LEMMA StartFit ==
  ASSUME Inv, TaskInv, DeviceInv, ModeInv, StatusInv, Alive, Outcomes, Fit(session, queue, gui, "none"),
         ReportActive
  PROVE  Outcomes' /\ Fit(session, queue, gui, "none")'
<1>0. {"connection", "initialization", "featureRead", "arm"} \subseteq Watchers
  BY DEF Watchers
<1>1. PICK e : e = Acquisition(TRUE, FALSE)
  OBVIOUS
<1>2. /\ task["arm"] = "grabbing" /\ task' = [task EXCEPT !["arm"] = "told"]
      /\ statusGeneration' = statusGeneration + 1 /\ succeeded' = succeeded /\ mode' = mode
      /\ queue' = Posted(<<e>>) /\ worker' = [worker EXCEPT !.phase = "running"]
      /\ UNCHANGED guiThread /\ session' = session /\ gui' = gui
  BY <1>1 DEF ReportActive, TaskAt, DeviceIdle, guiThread
<1>3. e.kind = "acquisition" /\ e.active = TRUE /\ e.generation = statusGeneration'
  BY <1>1, <1>2 DEF Acquisition
<1>4. worker.phase = "held" /\ worker'.phase = "running" /\ mode = "armed"
  BY <1>2 DEF DeviceInv, Working, ModeInv
<1>5. "arm" \in session.watchers /\ \A v \in Watchers : v # "arm" => v \notin session.watchers
  BY <1>0, <1>2, Alone DEF DeviceInv, Running, TaskPhases
<1>6. Outcomes'
  <2>1. \A v \in Watchers : v # "arm" => task'[v] = task[v]
    BY <1>2, TaskSet DEF TaskInv
  <2>2. QED
    BY <1>0, <1>2, <2>1 DEF Outcomes
<1>7. Works(session)'
  BY <1>0, <1>2, <1>4, <1>5 DEF Works
<1>8. ASSUME session.widget PROVE StartAt(queue', gui, statusGeneration')
  <2>1. PICK S : queue \in Seq(S)
    BY DEF TaskInv, QueueOK
  <2>2. queue' = Append(queue, e)
    BY <1>2, <1>8, <2>1 DEF Posted, Alive
  <2> DEFINE r == Append(queue, e)
             n == Len(queue) + 1
  <2>3. /\ Len(queue) \in Nat /\ Len(r) = n /\ r[n] = e
        /\ \A i \in 1..Len(queue) : r[i] = queue[i]
    BY <2>1
  <2> HIDE DEF r
  <2>4. n \in 1..Len(r) /\ \A j \in 1..Len(r) : j \in 1..Len(queue) \/ j = n
    BY <2>3
  <2>5. BeforeArm(r, n)
    <3>1. ASSUME NEW j \in 1..Len(r), r[j].kind = "finished", r[j].task = "arm" PROVE FALSE
      <4>1. j \in 1..Len(queue)
        BY <1>3, <2>3, <2>4, <3>1
      <4>2. task["arm"] = "done"
        BY <2>3, <3>1, <4>1 DEF TaskInv, QueueOK
      <4>3. QED
        BY <1>2, <4>2
    <3>2. QED
      BY <3>1 DEF BeforeArm
  <2>6. gui = "rest" => n > 1
    <3>1. ASSUME gui = "rest" PROVE queue # <<>>
      BY <3>1 DEF StatusInv
    <3>2. queue # <<>> => Len(queue) > 0
      BY <2>1
    <3>3. QED
      BY <2>3, <3>1, <3>2
  <2>7. StartAt(r, gui, statusGeneration')
    BY <1>3, <2>3, <2>4, <2>5, <2>6 DEF StartAt
  <2>8. QED
    BY <2>2, <2>7 DEF r
<1>9. ASSUME session.widget, Shows(session, queue, gui) PROVE Shows(session, queue, gui)'
  <2>1. StartQueued(queue, gui)'
    BY <1>2, <1>8, <1>9 DEF StartQueued, StartAt, BeforeArm
  <2>2. ActiveShown(session, queue, gui)'
    BY <1>2, <1>4, <1>5, <2>1 DEF ActiveShown
  <2>3. AvailableShown(session.ui, ErrorKnown(queue))'
    BY <1>2, <1>4, <1>9 DEF AvailableShown, Shows
  <2>4. QED
    BY <1>2, <1>9, <2>2, <2>3 DEF Shows, IsOpened
<1>10. QED
  BY <1>2, <1>6, <1>7, <1>9, StepFit

LEMMA PoolFit ==
  ASSUME Inv, TaskInv, DeviceInv, ModeInv, StatusInv, Alive, Outcomes, Fit(session, queue, gui, "none"),
         PoolStep
  PROVE  Outcomes' /\ Fit(session, queue, gui, "none")'
BY IdleTaskFit, ConnectionTaskFit, DisconnectionTaskFit, InitializationTaskFit, ArmTaskFit, StartFit
   DEF PoolStep

------------------------------------------------------------------------------
(* The worker keeps the widget fitting. *)

(* While an acquisition runs, no watcher depends on the mode. *)
LEMMA RunningWorks ==
  ASSUME TaskInv, Outcomes, Fit(session, queue, gui, "none"), UNCHANGED <<guiThread, task>>,
         worker.phase \in {"running", "leaving", "ended"}, worker'.phase # "held"
  PROVE  Outcomes' /\ Works(session)'
<1>1. session' = session /\ task' = task
  BY DEF guiThread
<1>2. {"connection", "initialization", "featureRead"} \cap session.watchers = {}
  BY DEF Fit, Works
<1>3. {"connection", "initialization"} \subseteq Watchers
  BY DEF Watchers
<1>4. task["connection"] = "idle" /\ task["initialization"] = "idle"
  BY <1>2, <1>3 DEF TaskInv
<1>5. Outcomes'
  BY <1>1, <1>4 DEF Outcomes
<1>6. Works(session)'
  BY <1>1, <1>2 DEF Works
<1>7. QED
  BY <1>5, <1>6

LEMMA PollingFit ==
  ASSUME TaskInv, DeviceInv, StatusInv, Alive, Outcomes, Fit(session, queue, gui, "none"),
         \/ ReceiveFrame \/ LeavePolling \/ FailPolling \/ Disarm \/ ReportIdle
         \/ WorkerAt("leaving") /\ D!StopStreaming /\ UNCHANGED <<worker, controller, queue>>
  PROVE  Outcomes' /\ Fit(session, queue, gui, "none")'
<1>0. worker = [f \in {"phase", "continuous", "error"} |-> worker[f]]
  BY DEF DeviceInv, Working
<1>1. UNCHANGED <<guiThread, task, statusGeneration>>
  BY DEF ReceiveFrame, LeavePolling, FailPolling, Disarm, ReportIdle, WorkerAt, pool, controller
<1>2. mode' = mode \/ {mode, mode'} \subseteq {"ready", "initializing", "arming", "armed"}
  BY DEF ReceiveFrame, LeavePolling, FailPolling, Disarm, ReportIdle, DeviceIdle,
     D!StopStreaming, D!Disarm, D!Become
<1>3. /\ worker.phase \in {"running", "leaving", "ended"}
      /\ worker'.phase \in {"running", "leaving", "ended", "telling"}
      /\ worker'.phase \in {"running", "leaving"} => worker.phase \in {"running", "leaving"}
      /\ worker.phase = "ended" => worker'.phase = "telling" /\ worker'.error = worker.error
  <2>1. CASE ReceiveFrame \/ LeavePolling
    <3>1. worker.phase = "running" /\ \E p \in {"running", "leaving"} : worker' = [worker EXCEPT !.phase = p]
      BY <2>1 DEF ReceiveFrame, LeavePolling, WorkerAt
    <3>2. QED
      BY <1>0, <3>1
  <2>2. CASE FailPolling
    <3>1. worker.phase = "running" /\ worker' = [worker EXCEPT !.phase = "leaving", !.error = TRUE]
      BY <2>2 DEF FailPolling, WorkerAt
    <3>2. QED
      BY <1>0, <3>1
  <2>3. CASE Disarm
    <3>1. worker.phase = "leaving" /\ worker' = [worker EXCEPT !.phase = "ended"]
      BY <2>3 DEF Disarm, WorkerAt
    <3>2. QED
      BY <1>0, <3>1
  <2>4. CASE ReportIdle
    <3>1. worker.phase = "ended" /\ worker' = [worker EXCEPT !.phase = "telling"]
      BY <2>4 DEF ReportIdle, WorkerAt
    <3>2. QED
      BY <1>0, <3>1
  <2>5. CASE WorkerAt("leaving") /\ UNCHANGED worker
    BY <2>5 DEF WorkerAt
  <2>6. QED
    BY <2>1, <2>2, <2>3, <2>4, <2>5
<1>4. Longer(queue, queue')
  <2>1. queue' = queue \/ queue' = Posted(<<[kind |-> "frame"]>>)
    BY DEF ReceiveFrame, LeavePolling, FailPolling, Disarm, ReportIdle
  <2>2. Longer(queue, queue)
    BY LongerSame DEF TaskInv, QueueOK
  <2>3. \A e : Longer(queue, Posted(<<e>>))
    BY PostedLonger DEF TaskInv
  <2>4. QED
    BY <2>1, <2>2, <2>3
<1>5. Dull
  BY <1>1, <1>2, <1>3 DEF Dull
<1>6. QED
  BY <1>1, <1>3, <1>4, <1>5, RunningWorks, DullFit

LEMMA FaultFit ==
  ASSUME TaskInv, DeviceInv, StatusInv, Alive, Outcomes, Fit(session, queue, gui, "none"),
         WorkerAt("leaving"), D!Fail, worker' = [worker EXCEPT !.phase = "ended", !.error = TRUE]
  PROVE  Outcomes' /\ Fit(session, queue, gui, "none")'
<1>1. /\ UNCHANGED <<guiThread, task>> /\ session' = session /\ worker.phase = "leaving"
      /\ mode = "armed" /\ mode' = "fault"
  BY DEF WorkerAt, pool, guiThread, D!Fail, D!Become
<1>2. worker'.phase = "ended" /\ worker'.error
  BY DEF DeviceInv, Working
<1>3. Shows(session, queue, gui) => Shows(session, queue, gui)'
  <2>1. ErrorKnown(queue)'
    BY <1>2 DEF ErrorKnown
  <2>2. AvailableShown(session.ui, ErrorKnown(queue))'
    BY <1>1, <2>1 DEF AvailableShown
  <2>3. ActiveShown(session, queue, gui)'
    BY <1>2 DEF ActiveShown
  <2>4. QED
    BY <1>1, <2>2, <2>3 DEF Shows, IsOpened
<1>4. QED
  BY <1>1, <1>2, <1>3, RunningWorks, StepFit

LEMMA EndFit ==
  ASSUME TaskInv, DeviceInv, StatusInv, Alive, Outcomes, Fit(session, queue, gui, "none"), ReportInactive
  PROVE  Outcomes' /\ Fit(session, queue, gui, "none")'
<1>1. PICK e : e = Acquisition(FALSE, worker.error)
  OBVIOUS
<1>2. /\ worker.phase = "telling" /\ statusGeneration' = statusGeneration + 1
      /\ queue' = Posted(<<e>>) /\ UNCHANGED <<guiThread, task, succeeded, mode>> /\ session' = session
      /\ worker' = [phase |-> "none", continuous |-> FALSE, error |-> FALSE]
  BY <1>1 DEF ReportInactive, WorkerAt, pool, guiThread, DeviceIdle
<1>3. /\ e.kind = "acquisition" /\ e.active = FALSE /\ e.generation = statusGeneration'
      /\ e.error = worker.error
  BY <1>1, <1>2 DEF Acquisition
<1>4. worker'.phase = "none"
  BY <1>2
<1>5. Outcomes'
  BY <1>2 DEF Outcomes
<1>6. Works(session)'
  BY <1>2, <1>4 DEF Fit, Works
<1>7. ASSUME session.widget, Shows(session, queue, gui) PROVE Shows(session, queue, gui)'
  <2>1. e \in Events(queue')
    <3>1. PICK S : queue \in Seq(S)
      BY DEF TaskInv, QueueOK
    <3>2. queue' = Append(queue, e)
      BY <1>2, <1>7, <3>1 DEF Posted, Alive
    <3>3. QED
      BY <3>1, <3>2, EventsAppend
  <2>2. Ending(e)'
    BY <1>3 DEF Ending, Fresh
  <2>3. Events(queue)' = Events(queue')
    BY DEF Events
  <2>4. EndKnown(queue)'
    BY <2>1, <2>2, <2>3 DEF EndKnown
  <2>5. ErrorKnown(queue) => ErrorKnown(queue)'
    <3>1. \A d \in Events(queue) : ~Ending(d)
      BY <1>2 DEF StatusInv, Told, Ending, Fresh
    <3>2. ErrorKnown(queue) => e.error
      BY <1>3, <3>1 DEF ErrorKnown
    <3>3. QED
      BY <2>1, <2>2, <2>3, <3>2 DEF ErrorKnown
  <2>6. AvailableShown(session.ui, ErrorKnown(queue))'
    BY <1>2, <1>7, <2>5 DEF Shows, AvailableShown
  <2>7. ActiveShown(session, queue, gui)'
    BY <1>4, <2>4 DEF ActiveShown
  <2>8. QED
    BY <1>2, <1>7, <2>6, <2>7 DEF Shows, IsOpened
<1>8. QED
  BY <1>2, <1>5, <1>6, <1>7, StepFit

LEMMA WorkerFit ==
  ASSUME TaskInv, DeviceInv, StatusInv, Alive, Outcomes, Fit(session, queue, gui, "none"),
         WorkerStep \/ SensorStep
  PROVE  Outcomes' /\ Fit(session, queue, gui, "none")'
<1>1. CASE StopStreaming
  <2>1. \/ WorkerAt("leaving") /\ D!StopStreaming /\ UNCHANGED <<worker, controller, queue>>
        \/ WorkerAt("leaving") /\ D!Fail /\ worker' = [worker EXCEPT !.phase = "ended", !.error = TRUE]
    BY <1>1 DEF StopStreaming
  <2>2. QED
    BY <2>1, PollingFit, FaultFit
<1>2. CASE ReceiveFrame \/ LeavePolling \/ FailPolling \/ Disarm \/ ReportIdle
  BY <1>2, PollingFit
<1>3. CASE ReportInactive
  BY <1>3, EndFit
<1>4. QED
  BY <1>1, <1>2, <1>3 DEF WorkerStep, SensorStep

(* The work of a parameter request touches nothing that is shown of the device. *)
LEMMA ParameterFit ==
  ASSUME TaskInv, StatusInv, Alive, Outcomes, Fit(session, queue, gui, "none"),
         ParameterWork \/ UNCHANGED vars
  PROVE  Outcomes' /\ Fit(session, queue, gui, "none")'
<1>1. UNCHANGED <<guiThread, worker, statusGeneration, task, succeeded, mode>> /\ session' = session
  BY DEF ParameterWork, RunParameter, ReportParameter, ReportApplied, ReturnParameter,
     ParameterStep, vars, device, controller, pool, guiThread
<1>2. queue' = queue \/ \E e : queue' = Posted(<<e>>)
  BY DEF ParameterWork, RunParameter, ReportParameter, ReportApplied, ReturnParameter, vars
<1>3. Longer(queue, queue')
  BY <1>2, LongerSame, PostedLonger DEF TaskInv, QueueOK
<1>4. Dull /\ Outcomes'
  BY <1>1 DEF Dull, Outcomes
<1>5. Works(session)'
  BY <1>1 DEF Fit, Works
<1>6. QED
  BY <1>1, <1>3, <1>4, <1>5, DullFit

LEMMA WidgetNext ==
  /\ Inv /\ CallInv /\ TaskInv /\ AskedTool /\ DeviceInv /\ ModeInv /\ Sound(session)
  /\ StatusInv /\ WidgetInv /\ [Next]_vars
  => WidgetInv'
<1> SUFFICES ASSUME Inv, CallInv, TaskInv, AskedTool, DeviceInv, ModeInv, Sound(session),
                    StatusInv, WidgetInv, [Next]_vars
             PROVE  WidgetInv'
  OBVIOUS
<1>1. CASE GuiMove
  BY <1>1, WidgetGui
<1>2. CASE \/ AwaitWatchers \/ AwaitParameters \/ JoinForDestruction
           \/ CloseForDestruction \/ ReleaseForDestruction
  <2>1. ~Alive'
    BY <1>2 DEF AwaitWatchers, AwaitParameters, JoinForDestruction, CloseForDestruction,
       ReleaseForDestruction, Destructor, Alive
  <2>2. QED
    BY <2>1 DEF WidgetInv
<1>3. ASSUME PoolStep \/ ParameterWork \/ WorkerStep \/ SensorStep \/ UNCHANGED vars, Alive'
      PROVE  Outcomes' /\ Fit(session, queue, gui, "none")'
  <2>1. Alive
    BY <1>3, OthersKeepGui DEF Alive
  <2>2. Outcomes /\ Fit(session, queue, gui, "none")
    BY <2>1 DEF WidgetInv
  <2>3. QED
    BY <1>3, <2>1, <2>2, PoolFit, WorkerFit, ParameterFit
<1>4. QED
  BY <1>1, <1>2, <1>3 DEF Next, GuiStep, GuiMove, Handles, Ends, Destroyed, WidgetInv

------------------------------------------------------------------------------
(* Types. *)

Workers == [phase : WorkerPhases, continuous : BOOLEAN, error : BOOLEAN]

DeviceTyped ==
  /\ D!TypeOK /\ worker \in Workers
  /\ stopAsked \in BOOLEAN /\ software \in Software
  /\ isGrabbing \in BOOLEAN /\ isContinuous \in BOOLEAN /\ connected \in BOOLEAN
  /\ statusGeneration \in Nat /\ deliveredFrames \in Nat
  /\ task \in [Watchers -> TaskPhases] /\ succeeded \in [Watchers -> BOOLEAN]
  /\ arms \in Nat /\ frames \in Nat /\ frameArm \in Nat

LEMMA DeviceTypedInit == Init => DeviceTyped
<1> SUFFICES ASSUME Init PROVE DeviceTyped
  OBVIOUS
<1>1. worker \in Workers
  BY DEF Init, Workers, WorkerPhases
<1>2. task \in [Watchers -> TaskPhases] /\ succeeded \in [Watchers -> BOOLEAN]
  BY DEF Init, TaskPhases
<1>3. QED
  BY <1>1, <1>2 DEF Init, DeviceTyped, D!TypeOK, D!Modes, D!Init

LEMMA StopTyped ==
  ASSUME stopAsked \in BOOLEAN, RequestStop \/ stopAsked' = stopAsked
  PROVE  stopAsked' \in BOOLEAN
<1>1. CASE RequestStop
  <2>1. stopAsked' = (stopAsked \/ mode \in {"arming", "armed"})
    BY <1>1 DEF RequestStop
  <2>2. (stopAsked \/ mode \in {"arming", "armed"}) \in BOOLEAN
    OBVIOUS
  <2>3. QED
    BY <2>1, <2>2
<1>2. QED
  BY <1>1

LEMMA GuiDeviceTyped ==
  ASSUME DeviceTyped, TaskInv, CallInv, GuiMove
  PROVE  DeviceTyped'
<1>1. /\ UNCHANGED <<mode, streaming, worker, controller, history>>
      /\ \A w \in Watchers : task'[w] = task[w] \/ (task[w] = "done" /\ task'[w] = "idle")
  BY GuiMoves
<1>2. software' = software /\ (RequestStop \/ stopAsked' = stopAsked)
  <2>1. CASE UserStep
    BY <2>1 DEF UserStep, Click, ClickRefresh, ClickConnect, ClickDisconnect, ClickSingle, ToggleLive,
       ClickInit, EditFeature, ClickTrigger, DestroyWidget, DestroySession, device
  <2>2. CASE HostStep \/ AdmitTool \/ RefuseTool
    BY <2>2 DEF HostStep, StopNothing, AskTool, NewCall, RequestParameter, AdmitTool, RefuseTool, device
  <2>3. CASE Handles
    BY <2>3 DEF Handles, HandleRefresh, HandleControl, HandleApplied, HandleFrame, HandleStale,
       HandleActive, HandleInactive, HandleStartFailed, HandleEnd, HandleRest, Handle, device
  <2>4. CASE Ends
    BY <2>4, EndsFinish DEF Finish, Handle, device
  <2>5. QED
    BY <2>1, <2>2, <2>3, <2>4 DEF GuiMove
<1>3. stopAsked' \in BOOLEAN
  BY <1>2, StopTyped DEF DeviceTyped
<1>4. task' = task \/ \E w \in Watchers : task' = [task EXCEPT ![w] = "idle"]
  <2>1. CASE UserStep \/ HostStep \/ AdmitTool \/ RefuseTool
    BY <2>1 DEF UserStep, Click, ClickRefresh, ClickConnect, ClickDisconnect, ClickSingle, ToggleLive,
       ClickInit, EditFeature, ClickTrigger, DestroyWidget, DestroySession, pool,
       HostStep, StopNothing, AskTool, NewCall, RequestParameter, AdmitTool, RefuseTool
  <2>3. CASE Handles
    BY <2>3 DEF Handles, HandleRefresh, HandleControl, HandleApplied, HandleFrame, HandleStale,
       HandleActive, HandleInactive, HandleStartFailed, HandleEnd, HandleRest, Handle, Keep, pool
  <2>4. CASE Ends
    BY <2>4, EndsFinish DEF Finish
  <2>5. QED
    BY <2>1, <2>3, <2>4 DEF GuiMove
<1>5. succeeded' = succeeded \/ \E w \in Watchers : succeeded' = [succeeded EXCEPT ![w] = FALSE]
  <2>1. CASE UserStep \/ HostStep \/ AdmitTool \/ RefuseTool
    BY <2>1 DEF UserStep, Click, ClickRefresh, ClickConnect, ClickDisconnect, ClickSingle, ToggleLive,
       ClickInit, EditFeature, ClickTrigger, DestroyWidget, DestroySession, pool,
       HostStep, StopNothing, AskTool, NewCall, RequestParameter, AdmitTool, RefuseTool
  <2>3. CASE Handles
    BY <2>3 DEF Handles, HandleRefresh, HandleControl, HandleApplied, HandleFrame, HandleStale,
       HandleActive, HandleInactive, HandleStartFailed, HandleEnd, HandleRest, Handle, Keep, pool
  <2>4. CASE Ends
    BY <2>4, EndsFinish DEF Finish
  <2>5. QED
    BY <2>1, <2>3, <2>4 DEF GuiMove
<1>6. task' \in [Watchers -> TaskPhases] /\ succeeded' \in [Watchers -> BOOLEAN]
  BY <1>4, <1>5 DEF DeviceTyped, TaskPhases
<1>7. QED
  BY <1>1, <1>2, <1>3, <1>6 DEF DeviceTyped, D!TypeOK, controller, history

(* A step of a pool task moves the task on, or returns. *)
LEMMA PoolTaskTyped ==
  ASSUME task \in [Watchers -> TaskPhases], succeeded \in [Watchers -> BOOLEAN], PoolStep
  PROVE  task' \in [Watchers -> TaskPhases] /\ succeeded' \in [Watchers -> BOOLEAN]
<1>1. /\ {"discovery", "connection", "disconnection", "initialization",
          "feature", "featureRead", "arm"} = Watchers
      /\ {"opened", "stopping", "stopped", "closing", "profile", "arming", "setup", "armed",
          "grabbing", "told", "failed", "done"} \subseteq TaskPhases
  BY DEF Watchers, TaskPhases
<1>2. ASSUME NEW w \in Watchers, NEW p \in TaskPhases, ToPhase(w, p)
      PROVE  task' \in [Watchers -> TaskPhases] /\ succeeded' \in [Watchers -> BOOLEAN]
  BY <1>2 DEF ToPhase
<1>3. ASSUME NEW w \in Watchers, NEW ok \in BOOLEAN, NEW posts, Returns(w, ok, posts)
      PROVE  task' \in [Watchers -> TaskPhases] /\ succeeded' \in [Watchers -> BOOLEAN]
  BY <1>1, <1>3 DEF Returns
<1>4. CASE RunDiscovery \/ OpenDevice \/ ReportConnection
  BY <1>1, <1>2, <1>3, <1>4 DEF RunDiscovery, OpenDevice, ReportConnection
<1>5. CASE StopForDisconnect \/ JoinForDisconnect \/ CloseDevice \/ ReleaseDevice
  BY <1>1, <1>2, <1>3, <1>5 DEF StopForDisconnect, JoinForDisconnect, CloseDevice, ReleaseDevice
<1>6. CASE BeginProfile \/ EndProfile \/ RunFeature \/ ReadFeatures
  BY <1>1, <1>2, <1>3, <1>6 DEF BeginProfile, EndProfile, RunFeature, ReadFeatures
<1>7. CASE StartArm \/ BeginArming \/ SetUpArming \/ CompleteArming
  BY <1>1, <1>2, <1>3, <1>7 DEF StartArm, BeginArming, SetUpArming, CompleteArming
<1>8. CASE FailArming \/ ReportGrabbing \/ ReturnArmed
  BY <1>1, <1>2, <1>3, <1>8 DEF FailArming, ReportGrabbing, ReturnArmed
<1>9. CASE ReportActive
  BY <1>1, <1>9 DEF ReportActive
<1>10. QED
  BY <1>4, <1>5, <1>6, <1>7, <1>8, <1>9 DEF PoolStep

LEMMA PoolDeviceTyped ==
  ASSUME DeviceTyped, Sound(session), PoolStep
  PROVE  DeviceTyped'
<1>1. task' \in [Watchers -> TaskPhases] /\ succeeded' \in [Watchers -> BOOLEAN]
  BY PoolTaskTyped DEF DeviceTyped
<1>2. session.armLive \in BOOLEAN
  BY DEF Sound, Session
<1>3. D!TypeOK'
  BY DEF PoolStep, RunDiscovery, OpenDevice, ReportConnection, StopForDisconnect, JoinForDisconnect,
     CloseDevice, ReleaseDevice, BeginProfile, EndProfile, RunFeature, ReadFeatures, StartArm,
     BeginArming, SetUpArming, CompleteArming, FailArming, ReportGrabbing, ReportActive, ReturnArmed,
     DeviceTyped, DeviceIdle, D!TypeOK, D!Modes, D!Open, D!Close, D!Release, D!BeginInitialization,
     D!EndInitialization, D!BeginArming, D!StartStreaming, D!AbandonArming, D!Arm, D!Become
<1>4. software' = software /\ (RequestStop \/ stopAsked' \in {stopAsked, FALSE})
  BY DEF PoolStep, RunDiscovery, OpenDevice, ReportConnection, StopForDisconnect, JoinForDisconnect,
     CloseDevice, ReleaseDevice, BeginProfile, EndProfile, RunFeature, ReadFeatures, StartArm,
     BeginArming, SetUpArming, CompleteArming, FailArming, ReportGrabbing, ReportActive, ReturnArmed,
     SameAcquisition
<1>5. stopAsked' \in BOOLEAN
  BY <1>4, StopTyped DEF DeviceTyped
<1>6. CASE CompleteArming
  <2>1. /\ worker' = [phase |-> "held", continuous |-> session.armLive, error |-> FALSE]
        /\ arms' = arms + 1 /\ UNCHANGED <<frames, frameArm, controller>>
    BY <1>6 DEF CompleteArming
  <2>2. worker' \in Workers
    BY <1>2, <2>1 DEF Workers, WorkerPhases
  <2>3. QED
    BY <1>1, <1>3, <1>4, <1>5, <2>1, <2>2 DEF DeviceTyped, controller
<1>7. CASE ReportActive
  <2>1. /\ worker' = [worker EXCEPT !.phase = "running"] /\ statusGeneration' = statusGeneration + 1
        /\ UNCHANGED <<isGrabbing, isContinuous, deliveredFrames, connected, history>>
    BY <1>7 DEF ReportActive
  <2>2. worker' \in Workers
    BY <2>1 DEF DeviceTyped, Workers, WorkerPhases
  <2>3. QED
    BY <1>1, <1>3, <1>4, <1>5, <2>1, <2>2 DEF DeviceTyped, history
<1>8. CASE ~CompleteArming /\ ~ReportActive
  <2>1. UNCHANGED <<worker, history>>
    BY <1>8 DEF PoolStep, RunDiscovery, OpenDevice, ReportConnection, StopForDisconnect,
       JoinForDisconnect, CloseDevice, ReleaseDevice, BeginProfile, EndProfile, RunFeature, ReadFeatures,
       StartArm, BeginArming, SetUpArming, FailArming, ReportGrabbing, ReturnArmed, SameAcquisition
  <2>2. /\ isGrabbing' \in BOOLEAN /\ isContinuous' \in BOOLEAN /\ connected' \in BOOLEAN
        /\ statusGeneration' \in Nat /\ deliveredFrames' \in Nat
    BY <1>2, <1>8 DEF PoolStep, RunDiscovery, OpenDevice, ReportConnection, StopForDisconnect,
       JoinForDisconnect, CloseDevice, ReleaseDevice, BeginProfile, EndProfile, RunFeature, ReadFeatures,
       StartArm, BeginArming, SetUpArming, FailArming, ReportGrabbing, ReturnArmed, controller,
       SetContinuous, ClearFlags, DeviceTyped
  <2>3. QED
    BY <1>1, <1>3, <1>4, <1>5, <2>1, <2>2 DEF DeviceTyped, history
<1>9. QED
  BY <1>6, <1>7, <1>8

LEMMA WorkerDeviceTyped ==
  ASSUME DeviceTyped, WorkerStep \/ SensorStep
  PROVE  DeviceTyped'
<1> USE DEF WorkerAt, Workers, WorkerPhases
<1>0. UNCHANGED <<pool, stopAsked, software, arms>>
  BY DEF WorkerStep, SensorStep, ReceiveFrame, FailPolling, LeavePolling, StopStreaming, Disarm, ReportIdle,
     ReportInactive
<1>5. UNCHANGED <<mode, streaming>> \/ D!StopStreaming \/ D!Fail \/ D!Disarm
  BY DEF WorkerStep, SensorStep, ReceiveFrame, FailPolling, LeavePolling, StopStreaming, Disarm, ReportIdle,
     ReportInactive, DeviceIdle
<1>6. D!TypeOK'
  BY <1>5 DEF DeviceTyped, D!TypeOK, D!Modes, D!StopStreaming, D!Disarm, D!Fail, D!Become
<1>2. worker' \in Workers
  <2>1. ASSUME NEW p \in WorkerPhases, \/ worker' = [worker EXCEPT !.phase = p]
                                       \/ worker' = [worker EXCEPT !.phase = p, !.error = TRUE]
        PROVE  worker' \in Workers
    BY <2>1 DEF DeviceTyped
  <2>2. CASE ReceiveFrame
    <3>1. \E p \in WorkerPhases : worker' = [worker EXCEPT !.phase = p]
      BY <2>2 DEF ReceiveFrame
    <3>2. QED
      BY <2>1, <3>1
  <2>3. CASE LeavePolling \/ FailPolling
    BY <2>1, <2>3 DEF LeavePolling, FailPolling
  <2>4. CASE StopStreaming \/ Disarm
    BY <2>1, <2>4 DEF StopStreaming, Disarm, DeviceTyped
  <2>5. CASE ReportIdle
    BY <2>1, <2>5 DEF ReportIdle
  <2>6. CASE ReportInactive
    BY <2>6 DEF ReportInactive
  <2>7. QED
    BY <2>2, <2>3, <2>4, <2>5, <2>6 DEF WorkerStep, SensorStep
<1>3. /\ isGrabbing' \in BOOLEAN /\ isContinuous' \in BOOLEAN /\ connected' \in BOOLEAN
      /\ statusGeneration' \in Nat /\ deliveredFrames' \in Nat /\ frames' \in Nat /\ frameArm' \in Nat
  <2>1. CASE ReceiveFrame
    BY <2>1 DEF ReceiveFrame, DeviceTyped
  <2>2. CASE LeavePolling \/ FailPolling \/ StopStreaming \/ Disarm
    <3>1. UNCHANGED <<controller, frames, frameArm>>
      BY <2>2 DEF LeavePolling, FailPolling, StopStreaming, Disarm
    <3>2. QED
      BY <3>1 DEF DeviceTyped, controller
  <2>3. CASE ReportIdle
    <3>1. isGrabbing' = FALSE /\ UNCHANGED <<isContinuous, statusGeneration, deliveredFrames, connected, frames, frameArm>>
      BY <2>3 DEF ReportIdle
    <3>2. QED
      BY <3>1 DEF DeviceTyped
  <2>4. CASE ReportInactive
    <3>1. /\ isContinuous' = FALSE /\ statusGeneration' = statusGeneration + 1
          /\ UNCHANGED <<isGrabbing, deliveredFrames, connected, frames, frameArm>>
      <4> HIDE DEF WorkerAt, Workers, WorkerPhases
      <4> QED
      BY <2>4, Zenon DEF ReportInactive
    <3>2. isGrabbing' \in BOOLEAN /\ isContinuous' \in BOOLEAN /\ connected' \in BOOLEAN
      BY <3>1, Zenon DEF DeviceTyped
    <3>3. statusGeneration' \in Nat /\ deliveredFrames' \in Nat /\ frames' \in Nat /\ frameArm' \in Nat
      <4> HIDE DEF Workers, WorkerPhases
      <4> QED
      BY <3>1 DEF DeviceTyped
    <3>4. QED
      BY <3>2, <3>3
  <2>5. QED
    BY <2>1, <2>2, <2>3, <2>4 DEF WorkerStep, SensorStep
<1>4. QED
  BY <1>0, <1>2, <1>3, <1>6 DEF DeviceTyped, pool

LEMMA DeviceTypedNext ==
  DeviceTyped /\ Sound(session) /\ TaskInv /\ CallInv /\ [Next]_vars => DeviceTyped'
<1> SUFFICES ASSUME DeviceTyped, Sound(session), TaskInv, CallInv, [Next]_vars PROVE DeviceTyped'
  OBVIOUS
<1>1. CASE GuiMove
  BY <1>1, GuiDeviceTyped
<1>2. CASE PoolStep
  BY <1>2, PoolDeviceTyped
<1>3. CASE WorkerStep \/ SensorStep
  BY <1>3, WorkerDeviceTyped
<1>4. CASE \/ AwaitWatchers \/ AwaitParameters \/ JoinForDestruction
           \/ CloseForDestruction \/ ReleaseForDestruction
  <2>1. UNCHANGED <<pool, worker, software, history>> /\ (RequestStop \/ stopAsked' = stopAsked)
    BY <1>4 DEF AwaitWatchers, AwaitParameters, JoinForDestruction, CloseForDestruction,
       ReleaseForDestruction, Destructor
  <2>2. controller' = controller \/ ClearFlags
    BY <1>4 DEF AwaitWatchers, AwaitParameters, JoinForDestruction, CloseForDestruction,
       ReleaseForDestruction, controller
  <2>3. D!TypeOK'
    BY <1>4 DEF AwaitWatchers, AwaitParameters, JoinForDestruction, CloseForDestruction,
       ReleaseForDestruction, DeviceIdle, DeviceTyped, D!TypeOK, D!Modes, D!Close, D!Release, D!Become
  <2>4. stopAsked' \in BOOLEAN
    BY <2>1, StopTyped DEF DeviceTyped
  <2>5. QED
    BY <2>1, <2>2, <2>3, <2>4 DEF DeviceTyped, pool, history, controller, ClearFlags
<1>5. CASE ParameterWork \/ Destroyed \/ UNCHANGED vars
  <2>1. UNCHANGED <<device, controller, pool, history>>
    BY <1>5 DEF ParameterWork, RunParameter, ReportParameter, ReportApplied, ReturnParameter,
       ParameterStep, Destroyed, vars
  <2>2. QED
    BY <2>1 DEF DeviceTyped, D!TypeOK, device, controller, pool, history
<1>6. QED
  BY <1>1, <1>2, <1>3, <1>4, <1>5 DEF Next, GuiStep, GuiMove, Handles, Ends

------------------------------------------------------------------------------
(* What the widget shows. *)

LEMMA WidgetInit == Init => ModeInv /\ StatusInv /\ WidgetInv
<1> SUFFICES ASSUME Init PROVE ModeInv /\ StatusInv /\ WidgetInv
  OBVIOUS
<1> DEFINE u == NewWidget(TRUE)
<1>1. Coherent(u) /\ \A f \in Main : ~u[f]
  BY NewWidgetShows
<1>2. /\ mode = "closed" /\ gui = "idle" /\ isGrabbing = FALSE /\ queue = <<>>
      /\ worker = [phase |-> "none", continuous |-> FALSE, error |-> FALSE]
      /\ task = [w \in Watchers |-> "idle"] /\ session.widget = TRUE
      /\ session.ui = u /\ session.watchers = {} /\ session.disconnectPending = FALSE
  BY DEF Init
<1> HIDE DEF u
<1>3. /\ worker.phase = "none" /\ task["arm"] = "idle" /\ task["disconnection"] = "idle"
      /\ task["connection"] = "idle" /\ task["initialization"] = "idle"
  BY <1>2 DEF Watchers
<1>4. ModeInv
  BY <1>2, <1>3 DEF ModeInv, D!Modes, WorkerPhases
<1>5. Len(queue) = 0 /\ Events(queue) = {}
  BY <1>2, EventsEmpty
<1>6. StatusInv
  <2>1. FailuresFirst(queue)
    <3>1. 1..Len(queue) = {}
      BY <1>5
    <3>2. QED
      BY <3>1 DEF FailuresFirst
  <2>2. QED
    BY <1>2, <1>5, <2>1 DEF StatusInv
<1>7. Fit(session, queue, gui, "none")
  <2>1. Works(session)
    BY <1>2, <1>3 DEF Works
  <2>2. Pendings(session, "none")
    BY <1>1, <1>2 DEF Pendings, Main
  <2>3. Shows(session, queue, gui)
    BY <1>1, <1>2, <1>3 DEF Shows, AvailableShown, ActiveShown, IsOpened, Main
  <2>4. QED
    BY <1>2, <2>1, <2>2, <2>3 DEF Fit
<1>8. QED
  BY <1>3, <1>4, <1>6, <1>7 DEF WidgetInv, Outcomes

LEMMA QuietAgrees ==
  ASSUME TaskInv, Working, ModeInv, Sound(session), DeviceTyped, WidgetInv
  PROVE  WidgetShowsSession
<1> DEFINE u == session.ui
<1>1. Coherent(u)
  BY DEF Sound
<1>2. /\ u.connected \in BOOLEAN /\ u.connectChecked \in BOOLEAN
      /\ u.acquisitionActive \in BOOLEAN /\ u.acquisitionAvailable \in BOOLEAN
  BY <1>1 DEF Coherent, Widget, Flags, Controls
<1>3. ClosedShowsIdle
  BY <1>1 DEF ClosedShowsIdle, Coherent
<1>4. WidgetAgrees
  <2> SUFFICES ASSUME Quiet, session.widget
               PROVE  /\ u.connected = IsOpened /\ u.connectChecked = IsOpened
                      /\ u.acquisitionActive = isGrabbing
                      /\ u.acquisitionAvailable = (mode \in {"ready", "armed"})
                      /\ \A f \in {"discoveryPending", "connectionPending", "disconnectionPending",
                                   "initializationPending", "armPending", "refreshPending"} : ~u[f]
                      /\ u.triggerPending => isGrabbing
    BY DEF WidgetAgrees
  <2>1. /\ gui = "idle" /\ queue = <<>> /\ session.watchers = {} /\ ~session.disconnectPending
        /\ worker.phase \in {"none", "running"}
    BY DEF Quiet, GuiFree
  <2>2. Works(session) /\ Pendings(session, "none") /\ Shows(session, queue, gui)
    BY <2>1 DEF WidgetInv, Alive, Fit, Moving
  <2>3. ~EndKnown(queue) /\ ~ErrorKnown(queue)
    BY <2>1, EventsEmpty DEF EndKnown, ErrorKnown
  <2>4. mode \in {"closed", "ready", "armed", "fault"}
    <3>1. task["arm"] = "idle" /\ task["initialization"] = "idle"
      BY <2>1 DEF TaskInv, Watchers
    <3>2. QED
      BY <3>1 DEF ModeInv, D!Modes
  <2>5. u.connected = IsOpened /\ u.connectChecked = IsOpened
    BY <1>2, <2>2 DEF Shows, IsOpened
  <2>6. u.acquisitionAvailable <=> mode \in {"ready", "armed"}
    BY <2>2, <2>3, <2>4 DEF Shows, AvailableShown
  <2>7. u.acquisitionActive <=> isGrabbing
    <3>1. CASE worker.phase = "none"
      BY <2>2, <2>3, <3>1 DEF Shows, ActiveShown, ModeInv
    <3>2. CASE worker.phase = "running"
      BY <2>1, <2>2, <3>2 DEF Shows, ActiveShown, Working
    <3>3. QED
      BY <2>1, <3>1, <3>2
  <2>8. u.acquisitionActive = isGrabbing
    BY <1>2, <2>7 DEF DeviceTyped
  <2>9. u.acquisitionAvailable = (mode \in {"ready", "armed"})
    BY <1>2, <2>6
  <2>10. \A f \in {"discoveryPending", "connectionPending", "disconnectionPending",
                   "initializationPending", "armPending", "refreshPending"} : ~u[f]
    BY <2>1, <2>2 DEF Pendings
  <2>11. u.triggerPending => isGrabbing
    BY <1>1, <2>7 DEF Coherent
  <2>12. QED
    BY <2>5, <2>8, <2>9, <2>10, <2>11
<1>5. QED
  BY <1>3, <1>4 DEF WidgetShowsSession

(***************************************************************************)
(* Whenever nothing is under way, after a requested stop too, the control  *)
(* widget shows the device as it is, connected or not, acquiring or not,   *)
(* available or not; it shows no discovery, connection, disconnection,     *)
(* initialization, arm or refresh pending, and a software trigger only     *)
(* while the device acquires; and a session that shows itself closed shows *)
(* no acquisition, however late a status arrives.                          *)
(***************************************************************************)
THEOREM WidgetShown == Spec => []WidgetShowsSession
<1>1. Init => AskedTool
  BY DEF Init, AskedTool
<1>2. DeviceInv => Working
  BY DEF DeviceInv
<1>3. QED
  BY InvInit, InvNext, CallsInit, CallsNext, AskedNext, DeviceInit, DeviceNext, ModeNext, SoundInit,
     SoundNext, StatusNext, WidgetInit, WidgetNext, DeviceTypedInit, DeviceTypedNext, QuietAgrees,
     <1>1, <1>2, PTL
     DEF Spec

------------------------------------------------------------------------------
(* Types of what the GUI thread and the parameter tasks keep. *)

Answers == {"none", "pending", "ok", "failed", "refused"}

ParameterTyped ==
  /\ parameterBusy \in BOOLEAN
  /\ parameterTask \in [1..MaxParameters -> ParameterPhases]
  /\ parameterWork \in 0..MaxParameters /\ parameters \in 0..MaxParameters

CallTyped ==
  /\ gui \in GuiPhases /\ asked \in AllTools \cup {"none"}
  /\ calls \in 0..MaxCalls /\ tool \in [Calls -> AllTools \cup {"none"}]
  /\ framesBefore \in Nat /\ armOfCall \in Nat /\ clicks \in Nat

LEMMA RequestTypedInit ==
  Init => ParameterTyped /\ CallTyped /\ answer \in [Calls -> Answers] /\ queue \in Seq(Event)
<1> SUFFICES ASSUME Init
             PROVE  ParameterTyped /\ CallTyped /\ answer \in [Calls -> Answers] /\ queue \in Seq(Event)
  OBVIOUS
<1>1. ParameterTyped
  <2>1. /\ parameterBusy = FALSE /\ parameterWork = 0 /\ parameters = 0
        /\ parameterTask = [p \in 1..MaxParameters |-> "none"]
    BY DEF Init, NoWork
  <2>2. QED
    <3>1. 0 \in 0..MaxParameters
      BY BoundsAssumption
    <3>2. parameterTask \in [1..MaxParameters -> ParameterPhases]
      BY <2>1 DEF ParameterPhases
    <3>3. QED
      BY <2>1, <3>1, <3>2 DEF ParameterTyped
<1>2. CallTyped
  BY BoundsAssumption DEF Init, CallTyped, GuiPhases
<1>3. answer \in [Calls -> Answers] /\ queue \in Seq(Event)
  BY DEF Init, Answers
<1>4. QED
  BY <1>1, <1>2, <1>3

LEMMA ParameterTypedNext == ParameterTyped /\ [Next]_vars => ParameterTyped'
<1> SUFFICES ASSUME ParameterTyped, [Next]_vars PROVE ParameterTyped'
  OBVIOUS
<1> USE BoundsAssumption
<1>1. CASE \E kind \in Parameters : RequestParameter(kind)
  <2>1. PICK kind \in Parameters :
          /\ parameters < MaxParameters /\ parameterBusy' = TRUE
          /\ parameters' = parameters + 1 /\ parameterWork' = parameters + 1
          /\ parameterTask' = [parameterTask EXCEPT ![parameters + 1] = kind]
    BY <1>1 DEF RequestParameter
  <2>2. kind \in ParameterPhases
    BY OperationsAssumption DEF AllParameters, ParameterPhases
  <2>3. QED
    BY <2>1, <2>2 DEF ParameterTyped
<1>2. CASE ParameterWork
  <2>1. PICK p \in 1..MaxParameters :
          RunParameter(p) \/ ReportParameter(p) \/ ReportApplied(p) \/ ReturnParameter(p)
    BY <1>2 DEF ParameterWork
  <2>2. /\ \E to \in ParameterPhases : parameterTask' = [parameterTask EXCEPT ![p] = to]
        /\ UNCHANGED <<parameterWork, parameters>>
        /\ parameterBusy' \in {parameterBusy, FALSE}
    BY <2>1 DEF RunParameter, ReportParameter, ReportApplied, ReturnParameter, ParameterStep, ParameterPhases
  <2>3. QED
    BY <2>2 DEF ParameterTyped
<1>3. CASE ~(\E kind \in Parameters : RequestParameter(kind)) /\ ~ParameterWork
  <2>1. UNCHANGED parameter
    <3>1. CASE UserStep
      BY <3>1 DEF UserStep, Click, ClickRefresh, ClickConnect, ClickDisconnect, ClickSingle, ToggleLive,
         ClickInit, EditFeature, ClickTrigger, DestroyWidget, DestroySession
    <3>2. CASE HostStep \/ AdmitTool \/ RefuseTool
      BY <1>3, <3>2 DEF HostStep, StopNothing, AskTool, NewCall, AdmitTool, RefuseTool
    <3>3. CASE Handles
      BY <3>3 DEF Handles, HandleRefresh, HandleControl, HandleApplied, HandleFrame, HandleStale,
         HandleActive, HandleInactive, HandleStartFailed, HandleEnd, HandleRest, Handle
    <3>4. CASE Ends
      BY <3>4 DEF Ends, FinishDiscovery, FinishConnection, FinishDisconnection, FinishInitialization,
         FinishFeature, FinishFeatureRead, FinishArm, Finish, Handle
    <3>5. CASE \/ AwaitWatchers \/ AwaitParameters \/ JoinForDestruction
               \/ CloseForDestruction \/ ReleaseForDestruction
      BY <3>5 DEF AwaitWatchers, AwaitParameters, JoinForDestruction, CloseForDestruction,
         ReleaseForDestruction, Destructor
    <3>6. CASE PoolStep
      BY <3>6 DEF PoolStep, RunDiscovery, OpenDevice, ReportConnection, StopForDisconnect,
         JoinForDisconnect, CloseDevice, ReleaseDevice, BeginProfile, EndProfile, RunFeature, ReadFeatures,
         StartArm, BeginArming, SetUpArming, CompleteArming, FailArming, ReportGrabbing, ReportActive,
         ReturnArmed, ToPhase, Returns
    <3>7. CASE WorkerStep \/ SensorStep
      BY <3>7 DEF WorkerStep, SensorStep, ReceiveFrame, FailPolling, LeavePolling, StopStreaming, Disarm,
         ReportIdle, ReportInactive, WorkerAt
    <3>8. CASE Destroyed \/ UNCHANGED vars
      BY <3>8 DEF Destroyed, vars
    <3>9. QED
      BY <1>3, <3>1, <3>2, <3>3, <3>4, <3>5, <3>6, <3>7, <3>8 DEF Next, GuiStep, Handles, Ends
  <2>2. QED
    BY <2>1 DEF ParameterTyped, parameter
<1>4. QED
  BY <1>1, <1>2, <1>3

LEMMA CallTypedNext == CallTyped /\ DeviceTyped /\ [Next]_vars => CallTyped'
<1> SUFFICES ASSUME CallTyped, DeviceTyped, [Next]_vars PROVE CallTyped'
  OBVIOUS
<1> USE BoundsAssumption
<1>1. asked' \in AllTools \cup {"none"}
  BY AskedNext DEF CallTyped, AskedTool
<1>2. CASE UserStep
  <2>1. UNCHANGED <<calls, tool, framesBefore, armOfCall>> /\ clicks' \in {clicks, clicks + 1}
          /\ gui' \in {gui, "wait"}
    BY <1>2 DEF UserStep, Click, ClickRefresh, ClickConnect, ClickDisconnect, ClickSingle, ToggleLive,
       ClickInit, EditFeature, ClickTrigger, DestroyWidget, DestroySession, request
  <2>2. QED
    BY <1>1, <2>1 DEF CallTyped, GuiPhases
<1>3. CASE \E t \in AllTools : NewCall(t)
  <2>1. PICK t \in AllTools : NewCall(t)
    BY <1>3
  <2>2. /\ calls < MaxCalls /\ calls' = calls + 1 /\ tool' = [tool EXCEPT ![calls + 1] = t]
        /\ framesBefore' = deliveredFrames /\ armOfCall' = arms /\ UNCHANGED <<gui, clicks>>
    BY <2>1 DEF NewCall
  <2>3. QED
    BY <1>1, <2>2 DEF CallTyped, DeviceTyped, Calls
<1>4. CASE UNCHANGED <<request, clicks>> /\ gui' \in {gui} \cup GuiPhases
  BY <1>1, <1>4 DEF CallTyped, request
<1>5. HostStep => (\E t \in AllTools : NewCall(t)) \/ UNCHANGED <<request, clicks, gui>>
  <2>1. ASSUME StopNothing PROVE \E t \in AllTools : NewCall(t)
    BY <2>1 DEF StopNothing, AllTools
  <2>2. ASSUME NEW t \in Tools, AskTool(t) PROVE \E v \in AllTools : NewCall(v)
    BY <2>2, OperationsAssumption DEF AskTool
  <2>3. ASSUME NEW kind, RequestParameter(kind) PROVE UNCHANGED <<request, clicks, gui>>
    BY <2>3 DEF RequestParameter
  <2>4. QED
    BY <2>1, <2>2, <2>3 DEF HostStep
<1>6. GuiStep => UNCHANGED <<request, clicks>> /\ gui' \in {gui} \cup GuiPhases
  <2>1. CASE AdmitTool \/ RefuseTool
    BY <2>1 DEF AdmitTool, RefuseTool
  <2>2. CASE Handles
    BY <2>2 DEF Handles, HandleRefresh, HandleControl, HandleApplied, HandleFrame, HandleStale,
       HandleActive, HandleInactive, HandleStartFailed, HandleEnd, HandleRest, Handle, Keep, GuiPhases
  <2>3. CASE Ends
    BY <2>3 DEF Ends, FinishDiscovery, FinishConnection, FinishDisconnection, FinishInitialization,
       FinishFeature, FinishFeatureRead, FinishArm, Finish, Handle
  <2>4. CASE \/ AwaitWatchers \/ AwaitParameters \/ JoinForDestruction
             \/ CloseForDestruction \/ ReleaseForDestruction
    BY <2>4 DEF AwaitWatchers, AwaitParameters, JoinForDestruction, CloseForDestruction,
       ReleaseForDestruction, Destructor, GuiPhases
  <2>5. QED
    BY <2>1, <2>2, <2>3, <2>4 DEF GuiStep, Handles, Ends
<1>7. PoolStep \/ ParameterWork \/ WorkerStep \/ SensorStep \/ Destroyed \/ UNCHANGED vars
        => UNCHANGED <<request, clicks, gui>>
  <2>1. CASE PoolStep
    BY <2>1 DEF PoolStep, RunDiscovery, OpenDevice, ReportConnection, StopForDisconnect,
       JoinForDisconnect, CloseDevice, ReleaseDevice, BeginProfile, EndProfile, RunFeature, ReadFeatures,
       StartArm, BeginArming, SetUpArming, CompleteArming, FailArming, ReportGrabbing, ReportActive,
       ReturnArmed, ToPhase, Returns, guiThread
  <2>2. CASE ParameterWork
    BY <2>2 DEF ParameterWork, RunParameter, ReportParameter, ReportApplied, ReturnParameter,
       ParameterStep, guiThread
  <2>3. CASE WorkerStep \/ SensorStep
    BY <2>3 DEF WorkerStep, SensorStep, ReceiveFrame, FailPolling, LeavePolling, StopStreaming, Disarm,
       ReportIdle, ReportInactive, WorkerAt, guiThread
  <2>4. CASE Destroyed \/ UNCHANGED vars
    BY <2>4 DEF Destroyed, vars, guiThread
  <2>5. QED
    BY <2>1, <2>2, <2>3, <2>4
<1>8. QED
  BY <1>2, <1>3, <1>4, <1>5, <1>6, <1>7 DEF Next

LEMMA AnsweredTyped ==
  ASSUME answer \in [Calls -> Answers], NEW s, NEW c, NEW ok, NEW k, NEW v \in Answers
  PROVE  /\ Answered(s, c, ok) \in [Calls -> Answers]
         /\ [answer EXCEPT ![k] = v] \in [Calls -> Answers]
         /\ AnsweredByRefresh(s, c) \in [Calls -> Answers]
<1>1. ASSUME NEW d, NEW r PROVE Answered(s, d, r) \in [Calls -> Answers]
  <2> DEFINE n == s.completion[d]
             a == Answer(n, r)
  <2>1. a \in Answers
    BY DEF Answer, Answers
  <2> HIDE DEF n, a
  <2>2. [answer EXCEPT ![n] = a] \in [Calls -> Answers]
    BY <2>1
  <2>3. QED
    BY <2>2 DEF Answered, n, a
<1>2. QED
  BY <1>1 DEF AnsweredByRefresh

LEMMA AnswerTypedNext == answer \in [Calls -> Answers] /\ [Next]_vars => answer' \in [Calls -> Answers]
<1> SUFFICES ASSUME answer \in [Calls -> Answers], [Next]_vars PROVE answer' \in [Calls -> Answers]
  OBVIOUS
<1>1. {"pending", "ok", "failed", "refused"} \subseteq Answers
  BY DEF Answers
<1>2. CASE answer' = answer
  BY <1>2
<1>3. CASE \E k : \E v \in Answers : answer' = [answer EXCEPT ![k] = v]
  BY <1>3, AnsweredTyped
<1>4. CASE \E s, c, ok : answer' = Answered(s, c, ok) \/ answer' = AnsweredByRefresh(s, c)
  <2>1. PICK s, c, ok : answer' = Answered(s, c, ok) \/ answer' = AnsweredByRefresh(s, c)
    BY <1>4
  <2>2. /\ Answered(s, c, ok) \in [Calls -> Answers]
        /\ AnsweredByRefresh(s, c) \in [Calls -> Answers]
    BY <1>1, AnsweredTyped
  <2>3. QED
    BY <2>1, <2>2
<1> DEFINE Set == \E k : \E v \in Answers : answer' = [answer EXCEPT ![k] = v]
           Done == \E s, c, ok : answer' = Answered(s, c, ok) \/ answer' = AnsweredByRefresh(s, c)
<1>5. UserStep => answer' = answer \/ Set
  BY <1>1 DEF UserStep, Click, ClickRefresh, ClickConnect, ClickDisconnect, ClickSingle, ToggleLive,
     ClickInit, EditFeature, ClickTrigger, DestroyWidget, DestroySession
<1>6. HostStep \/ AdmitTool \/ RefuseTool => answer' = answer \/ Set
  BY <1>1 DEF HostStep, StopNothing, AskTool, NewCall, RequestParameter, AdmitTool, RefuseTool
<1>7. Handles => answer' = answer \/ Done
  BY DEF Handles, HandleRefresh, HandleControl, HandleApplied, HandleFrame, HandleStale,
     HandleActive, HandleInactive, HandleStartFailed, HandleEnd, HandleRest, Handle, Keep
<1>8. Ends => answer' = answer \/ Done
  BY DEF Ends, FinishDiscovery, FinishConnection, FinishDisconnection, FinishInitialization,
     FinishFeature, FinishFeatureRead, FinishArm
<1>9. ASSUME \/ AwaitWatchers \/ AwaitParameters \/ JoinForDestruction
             \/ CloseForDestruction \/ ReleaseForDestruction
      PROVE  answer' = answer
  BY <1>9 DEF AwaitWatchers, AwaitParameters, JoinForDestruction, CloseForDestruction,
     ReleaseForDestruction
<1>10. ASSUME PoolStep \/ ParameterWork \/ WorkerStep \/ SensorStep \/ Destroyed \/ UNCHANGED vars
       PROVE  answer' = answer
  <2>1. CASE PoolStep
    BY <2>1 DEF PoolStep, RunDiscovery, OpenDevice, ReportConnection, StopForDisconnect,
       JoinForDisconnect, CloseDevice, ReleaseDevice, BeginProfile, EndProfile, RunFeature, ReadFeatures,
       StartArm, BeginArming, SetUpArming, CompleteArming, FailArming, ReportGrabbing, ReportActive,
       ReturnArmed, ToPhase, Returns, guiThread
  <2>2. CASE ParameterWork
    BY <2>2 DEF ParameterWork, RunParameter, ReportParameter, ReportApplied, ReturnParameter,
       ParameterStep, guiThread
  <2>3. CASE WorkerStep \/ SensorStep
    BY <2>3 DEF WorkerStep, SensorStep, ReceiveFrame, FailPolling, LeavePolling, StopStreaming, Disarm,
       ReportIdle, ReportInactive, WorkerAt, guiThread
  <2>4. CASE Destroyed \/ UNCHANGED vars
    BY <2>4 DEF Destroyed, vars, guiThread
  <2>5. QED
    BY <1>10, <2>1, <2>2, <2>3, <2>4
<1>11. QED
  BY <1>2, <1>3, <1>4, <1>5, <1>6, <1>7, <1>8, <1>9, <1>10 DEF Next, GuiStep, Handles, Ends

------------------------------------------------------------------------------
(* The events of the queue are well formed. *)

LEMMA PostedTyped ==
  ASSUME queue \in Seq(Event), NEW e \in Event, NEW f \in Event
  PROVE  /\ Posted(<<e>>) \in Seq(Event)
         /\ Posted(Append(<<>>, f)) \in Seq(Event)
         /\ Posted(Append(<<e>>, f)) \in Seq(Event)
<1>1. <<e>> \in Seq(Event) /\ Append(<<>>, f) \in Seq(Event) /\ Append(<<e>>, f) \in Seq(Event)
        /\ <<>> \in Seq(Event)
  <2> HIDE DEF Event
  <2> QED
  OBVIOUS
<1>2. \A q \in Seq(Event) : Posted(q) \in Seq(Event)
  <2>1. \A q \in Seq(Event) : queue \o q \in Seq(Event)
    <3> HIDE DEF Event
    <3> QED
    OBVIOUS
  <2>2. QED
    BY <1>1, <2>1 DEF Posted
<1>3. QED
  BY <1>1, <1>2

LEMMA EventsTyped ==
  /\ \A k \in {"refresh", "control", "applied", "frame", "start failed"} : [kind |-> k] \in Event
  /\ Control \in Event
  /\ \A w \in Watchers : Finished(w) \in Event
<1>1. \A k \in {"refresh", "control", "applied", "frame", "start failed"} : [kind |-> k] \in Event
  <2>1. ASSUME NEW k \in {"refresh", "control", "applied", "frame", "start failed"}
        PROVE  \/ [kind |-> k] \in [kind : {"refresh", "control", "applied", "frame"}]
               \/ [kind |-> k] \in [kind : {"start failed"}]
    BY <2>1
  <2>2. QED
    BY <2>1 DEF Event
<1>2. Control \in Event
  BY <1>1 DEF Control
<1>3. ASSUME NEW w \in Watchers PROVE Finished(w) \in Event
  <2>1. [kind |-> "finished", task |-> w] \in [kind : {"finished"}, task : Watchers]
    BY <1>3
  <2>2. QED
    BY <2>1 DEF Event, Finished
<1>4. QED
  BY <1>1, <1>2, <1>3

LEMMA AcquisitionTyped ==
  ASSUME DeviceTyped, NEW active \in BOOLEAN, NEW error \in BOOLEAN
  PROVE  Acquisition(active, error) \in Event
<1>1. isContinuous \in BOOLEAN /\ statusGeneration + 1 \in Nat
  BY DEF DeviceTyped
<1>2. PICK n : n = statusGeneration + 1
  OBVIOUS
<1>3. [kind |-> "acquisition", active |-> active, continuous |-> isContinuous, generation |-> n,
       error |-> error]
        \in [kind : {"acquisition"}, active : BOOLEAN, continuous : BOOLEAN,
             generation : Nat, error : BOOLEAN]
  BY <1>1, <1>2
<1>4. QED
  BY <1>2, <1>3 DEF Event, Acquisition

LEMMA PoolQueueTyped ==
  ASSUME DeviceTyped, queue \in Seq(Event), PoolStep
  PROVE  queue' \in Seq(Event)
<1>1. {"discovery", "connection", "disconnection", "initialization", "feature", "featureRead", "arm"}
        = Watchers
  BY DEF Watchers
<1>2. ASSUME NEW w \in Watchers, NEW p, ToPhase(w, p) PROVE queue' \in Seq(Event)
  BY <1>2 DEF ToPhase
<1>3. PICK failure : failure = [kind |-> "start failed"]
  OBVIOUS
<1>4. failure \in Event /\ Control \in Event /\ Acquisition(TRUE, FALSE) \in Event
  BY <1>3, EventsTyped, AcquisitionTyped
<1>5. ASSUME NEW w \in Watchers, NEW ok,
             Returns(w, ok, <<>>) \/ Returns(w, ok, <<Control>>) \/ Returns(w, ok, <<failure>>)
      PROVE  queue' \in Seq(Event)
  <2>1. PICK f : f = Finished(w)
    OBVIOUS
  <2>2. f \in Event
    BY <1>5, <2>1, EventsTyped
  <2>3. /\ Posted(Append(<<>>, f)) \in Seq(Event) /\ Posted(Append(<<Control>>, f)) \in Seq(Event)
        /\ Posted(Append(<<failure>>, f)) \in Seq(Event)
    BY <1>4, <2>2, PostedTyped
  <2>4. QED
    BY <1>5, <2>1, <2>3 DEF Returns
<1>6. CASE RunDiscovery \/ OpenDevice \/ ReportConnection
  BY <1>1, <1>2, <1>5, <1>6 DEF RunDiscovery, OpenDevice, ReportConnection
<1>7. CASE StopForDisconnect \/ JoinForDisconnect \/ CloseDevice \/ ReleaseDevice
  BY <1>1, <1>2, <1>5, <1>7 DEF StopForDisconnect, JoinForDisconnect, CloseDevice, ReleaseDevice
<1>8. CASE BeginProfile \/ EndProfile \/ RunFeature \/ ReadFeatures
  BY <1>1, <1>2, <1>5, <1>8 DEF BeginProfile, EndProfile, RunFeature, ReadFeatures
<1>9. CASE StartArm \/ BeginArming \/ SetUpArming \/ CompleteArming
  BY <1>1, <1>2, <1>5, <1>9 DEF StartArm, BeginArming, SetUpArming, CompleteArming
<1>10. CASE FailArming \/ ReportGrabbing \/ ReturnArmed
  BY <1>1, <1>2, <1>3, <1>5, <1>10 DEF FailArming, ReportGrabbing, ReturnArmed
<1>11. CASE ReportActive
  <2>1. queue' = Posted(<<Acquisition(TRUE, FALSE)>>)
    BY <1>11 DEF ReportActive
  <2>2. QED
    BY <1>4, <2>1, PostedTyped
<1>12. QED
  BY <1>6, <1>7, <1>8, <1>9, <1>10, <1>11 DEF PoolStep

LEMMA QueueTypedNext ==
  DeviceTyped /\ queue \in Seq(Event) /\ [Next]_vars => queue' \in Seq(Event)
<1> SUFFICES ASSUME DeviceTyped, queue \in Seq(Event), [Next]_vars PROVE queue' \in Seq(Event)
  OBVIOUS
<1>1. CASE queue' = queue
  BY <1>1
<1>2. CASE queue' = Tail(queue) /\ queue # <<>>
  <2> HIDE DEF Event
  <2> QED
  BY <1>2
<1>3. CASE queue' = <<>>
  <2> HIDE DEF Event
  <2> QED
  BY <1>3
<1>4. CASE \E e \in Event : queue' \in {Append(queue, e), Posted(<<e>>)}
  <2>1. PICK e \in Event : queue' \in {Append(queue, e), Posted(<<e>>)}
    BY <1>4
  <2>2. Append(queue, e) \in Seq(Event) /\ Posted(<<e>>) \in Seq(Event)
    BY PostedTyped
  <2>3. QED
    BY <2>1, <2>2
<1> DEFINE Grown == \E e \in Event : queue' \in {Append(queue, e), Posted(<<e>>)}
           Taken == queue' = Tail(queue) /\ queue # <<>>
<1>5. UserStep => queue' = queue \/ queue' = <<>> \/ Grown
  <2>1. UserStep => queue' \in {queue, <<>>, Append(queue, [kind |-> "refresh"])}
    BY DEF UserStep, Click, ClickRefresh, ClickConnect, ClickDisconnect, ClickSingle, ToggleLive,
       ClickInit, EditFeature, ClickTrigger, DestroyWidget, DestroySession
  <2>2. QED
    BY <2>1, EventsTyped
<1>6. HostStep \/ AdmitTool \/ RefuseTool => queue' = queue
  BY DEF HostStep, StopNothing, AskTool, NewCall, RequestParameter, AdmitTool, RefuseTool
<1>7. ASSUME Handles, gui # "rest" \/ queue # <<>> PROVE queue' = queue \/ Taken
  BY <1>7 DEF Handles, HandleRefresh, HandleControl, HandleApplied, HandleFrame, HandleStale,
     HandleActive, HandleInactive, HandleStartFailed, HandleEnd, HandleRest, Handle
<1>8. Ends => Taken
  BY DEF Ends, FinishDiscovery, FinishConnection, FinishDisconnection, FinishInitialization,
     FinishFeature, FinishFeatureRead, FinishArm, Finish, Handle
<1>9. ASSUME \/ AwaitWatchers \/ AwaitParameters \/ JoinForDestruction
             \/ CloseForDestruction \/ ReleaseForDestruction
      PROVE  queue' = queue
  BY <1>9 DEF AwaitWatchers, AwaitParameters, JoinForDestruction, CloseForDestruction,
     ReleaseForDestruction, Destructor
<1>10. PoolStep => queue' \in Seq(Event)
  BY PoolQueueTyped
<1>11. ParameterWork => queue' = queue \/ Grown
  <2>1. ParameterWork => queue' \in {queue, Posted(<<Control>>), Posted(<<[kind |-> "applied"]>>)}
    BY DEF ParameterWork, RunParameter, ReportParameter, ReportApplied, ReturnParameter
  <2>2. QED
    BY <2>1, EventsTyped
<1>12. WorkerStep \/ SensorStep => queue' = queue \/ Grown
  <2>1. CASE ReportInactive
    <3>1. worker.error \in BOOLEAN
      BY DEF DeviceTyped, Workers
    <3>2. PICK e : e = Acquisition(FALSE, worker.error)
      OBVIOUS
    <3>3. e \in Event
      BY <3>1, <3>2, AcquisitionTyped
    <3>4. queue' = Posted(<<e>>)
      BY <2>1, <3>2 DEF ReportInactive
    <3>5. QED
      BY <3>3, <3>4
  <2>2. CASE ReceiveFrame
    <3>1. queue' \in {queue, Posted(<<[kind |-> "frame"]>>)}
      BY <2>2 DEF ReceiveFrame
    <3>2. QED
      BY <3>1, EventsTyped
  <2>3. CASE FailPolling \/ LeavePolling \/ StopStreaming \/ Disarm \/ ReportIdle
    BY <2>3 DEF FailPolling, LeavePolling, StopStreaming, Disarm, ReportIdle
  <2>4. QED
    BY <2>1, <2>2, <2>3 DEF WorkerStep, SensorStep
<1>13. Destroyed \/ UNCHANGED vars => queue' = queue
  BY DEF Destroyed, vars
<1>14. Handles => queue' \in Seq(Event)
  <2>1. CASE queue # <<>>
    BY <1>1, <1>2, <1>7, <2>1
  <2>2. CASE queue = <<>>
    <3>1. Handles => queue' \in {queue, Tail(queue)}
      BY DEF Handles, HandleRefresh, HandleControl, HandleApplied, HandleFrame, HandleStale,
         HandleActive, HandleInactive, HandleStartFailed, HandleEnd, HandleRest, Handle
    <3>2. Tail(<<>>) = <<>>
      OBVIOUS
    <3>3. QED
      BY <2>2, <3>1, <3>2
  <2>3. QED
    BY <2>1, <2>2
<1>15. QED
  BY <1>1, <1>2, <1>3, <1>4, <1>5, <1>6, <1>8, <1>9, <1>10, <1>11, <1>12, <1>13, <1>14
     DEF Next, GuiStep, Handles, Ends

------------------------------------------------------------------------------
(* What a refresh was started for is remembered only while it is read. *)

Reading(s) == s.refreshFor # "nothing" => "featureRead" \in s.watchers

Gathers(s, t) == IsSession(t) /\ (Reading(s) => Reading(t))

LEMMA GathersTrans ==
  ASSUME NEW s, NEW t, NEW u, Gathers(s, t), Gathers(t, u)
  PROVE  Gathers(s, u)
BY DEF Gathers

LEMMA FieldGathers ==
  ASSUME NEW s, IsSession(s), NEW v, NEW w
  PROVE  /\ Gathers(s, s)
         /\ Gathers(s, [s EXCEPT !.ui = v])
         /\ Gathers(s, [s EXCEPT !.ui.refreshOn = v])
         /\ Gathers(s, [s EXCEPT !.ui.connectChecked = v])
         /\ Gathers(s, [s EXCEPT !.ui.liveChecked = v])
         /\ Gathers(s, [s EXCEPT !.completion = v])
         /\ Gathers(s, [s EXCEPT !.completion[w] = v])
         /\ Gathers(s, [s EXCEPT !.toolCall = v])
         /\ Gathers(s, [s EXCEPT !.widget = v])
         /\ Gathers(s, [s EXCEPT !.externalBusyShown = v])
         /\ Gathers(s, [s EXCEPT !.armLive = v])
         /\ Gathers(s, [s EXCEPT !.disconnectPending = v])
         /\ Gathers(s, Started(s, w))
         /\ v \in {"write", "trigger"} => Gathers(s, [s EXCEPT !.featureOperation = v])
         /\ w # "featureRead" => Gathers(s, Dropped(s, w))
<1>1. /\ Gathers(s, s)
      /\ Gathers(s, [s EXCEPT !.ui = v])
      /\ Gathers(s, [s EXCEPT !.ui.refreshOn = v])
      /\ Gathers(s, [s EXCEPT !.ui.connectChecked = v])
      /\ Gathers(s, [s EXCEPT !.ui.liveChecked = v])
  BY DEF IsSession, Fields, Gathers, Reading
<1>2. /\ Gathers(s, [s EXCEPT !.completion = v])
      /\ Gathers(s, [s EXCEPT !.completion[w] = v])
      /\ Gathers(s, [s EXCEPT !.toolCall = v])
      /\ Gathers(s, [s EXCEPT !.widget = v])
      /\ Gathers(s, [s EXCEPT !.externalBusyShown = v])
  BY DEF IsSession, Fields, Gathers, Reading
<1>3. /\ Gathers(s, [s EXCEPT !.armLive = v])
      /\ Gathers(s, [s EXCEPT !.disconnectPending = v])
      /\ Gathers(s, Started(s, w))
      /\ v \in {"write", "trigger"} => Gathers(s, [s EXCEPT !.featureOperation = v])
      /\ w # "featureRead" => Gathers(s, Dropped(s, w))
  BY DEF IsSession, Fields, Gathers, Reading, Started, Dropped
<1>4. QED
  BY <1>1, <1>2, <1>3

LEMMA ShownGathers ==
  ASSUME NEW s, IsSession(s), NEW busy
  PROVE  Gathers(s, Shown(s, busy)) /\ Gathers(s, ControlChanged(s))
<1>1. ASSUME NEW b PROVE Gathers(s, Shown(s, b))
  <2> DEFINE u == IF s.watchers \cap {"feature", "featureRead", "initialization"} = {}
                    THEN SetFeatureOperationPending(s.ui, b) ELSE s.ui
  <2>1. Shown(s, b) \in {s, [s EXCEPT !.externalBusyShown = b, !.ui = u]}
    BY DEF Shown
  <2> HIDE DEF u
  <2>2. Gathers(s, [s EXCEPT !.externalBusyShown = b, !.ui = u])
    BY DEF IsSession, Fields, Gathers, Reading
  <2>3. QED
    BY <2>1, <2>2, FieldGathers
<1>2. QED
  BY <1>1 DEF ControlChanged

LEMMA CompletedGathers ==
  ASSUME NEW s, IsSession(s), NEW c
  PROVE  Gathers(s, Completed(s, c))
<1> DEFINE t == [s EXCEPT !.completion[c] = NoCall]
           k == IF t.toolCall = s.completion[c] THEN NoCall ELSE t.toolCall
           u == [t EXCEPT !.toolCall = k]
<1>1. Completed(s, c) \in {s, ControlChanged(u)}
  BY DEF Completed, ToolFinished
<1>2. Gathers(s, t)
  BY FieldGathers
<1> HIDE DEF t, k
<1>3. Gathers(t, u)
  BY <1>2, FieldGathers DEF Gathers
<1> HIDE DEF u
<1>4. Gathers(u, ControlChanged(u))
  BY <1>3, ShownGathers DEF Gathers
<1>5. Gathers(s, s) /\ Gathers(s, ControlChanged(u))
  BY <1>2, <1>3, <1>4, GathersTrans, FieldGathers
<1>6. QED
  BY <1>1, <1>5

LEMMA AfterRefreshGathers ==
  ASSUME NEW s, IsSession(s), NEW for \in Refreshes
  PROVE  Gathers(s, AfterRefresh(s, for))
<1> DEFINE t == [s EXCEPT !.ui = SetAcquisitionAvailable(@, TRUE)]
<1>1. /\ Gathers(s, t) /\ Gathers(s, s)
      /\ \A v : Gathers(s, [s EXCEPT !.ui = v])
  BY FieldGathers
<1>2. Gathers(s, Completed(t, "connect"))
  <2> HIDE DEF t
  <2>1. Gathers(t, Completed(t, "connect"))
    BY <1>1, CompletedGathers DEF Gathers
  <2>2. QED
    BY <1>1, <2>1, GathersTrans
<1>3. AfterRefresh(s, for) \in
        {Completed(t, "connect"), s,
         [s EXCEPT !.ui = SetAcquisitionAvailable(InitializationEnded(@), TRUE)],
         [s EXCEPT !.ui = InitializationEnded(@)],
         [s EXCEPT !.ui = SetFeatureOperationPending(@, FALSE)]}
  BY DEF AfterRefresh, Refreshes
<1> HIDE DEF t
<1>4. QED
  BY <1>1, <1>2, <1>3

LEMMA RefreshGathers ==
  ASSUME NEW s, IsSession(s), NEW for \in Refreshes
  PROVE  Gathers(s, RefreshFeatureTree(s, for))
<1> DEFINE t == Started(s, "featureRead")
           u == SetFeatureRefreshPending(t.ui, TRUE)
           v == [t EXCEPT !.ui = u, !.refreshFor = for]
<1>1. RefreshFeatureTree(s, for) \in {AfterRefresh(s, for), v}
  BY DEF RefreshFeatureTree
<1>2. IsSession(t) /\ "featureRead" \in t.watchers
  BY DEF IsSession, Fields, Started
<1> HIDE DEF t, u
<1>3. Gathers(s, v)
  BY <1>2 DEF IsSession, Fields, Gathers, Reading, Refreshes
<1>4. QED
  BY <1>1, <1>3, AfterRefreshGathers

LEMMA DisconnectGathers ==
  ASSUME NEW s, IsSession(s), NEW call
  PROVE  Gathers(s, CompleteDisconnect(s)) /\ Gathers(s, Disconnect(s, call))
<1> DEFINE u(x) == SetDisconnectionPending(x.ui)
<1>1. ASSUME NEW x, IsSession(x)
      PROVE  Gathers(x, [x EXCEPT !.disconnectPending = TRUE, !.ui = SetDisconnectionPending(@)])
  BY <1>1 DEF IsSession, Fields, Gathers, Reading
<1>2. ASSUME NEW x, IsSession(x) PROVE Gathers(x, CompleteDisconnect(x))
  <2> DEFINE t == Started(x, "disconnection")
             v == [t EXCEPT !.disconnectPending = TRUE, !.ui = SetDisconnectionPending(@)]
  <2>1. CompleteDisconnect(x) \in {x, v}
    BY DEF CompleteDisconnect
  <2>2. Gathers(x, t) /\ Gathers(x, x)
    BY <1>2, FieldGathers
  <2> HIDE DEF t
  <2>3. Gathers(t, v)
    BY <1>1, <2>2 DEF Gathers
  <2> HIDE DEF v
  <2>4. QED
    BY <2>1, <2>2, <2>3, GathersTrans
<1>3. Gathers(s, Disconnect(s, call))
  <2> DEFINE t == [s EXCEPT !.completion["disconnect"] = call]
             v == [t EXCEPT !.disconnectPending = TRUE, !.ui = SetDisconnectionPending(@)]
  <2>1. Disconnect(s, call) \in {v, CompleteDisconnect(t)}
    BY DEF Disconnect
  <2>2. Gathers(s, t)
    BY FieldGathers
  <2> HIDE DEF t
  <2>3. Gathers(t, v) /\ Gathers(t, CompleteDisconnect(t))
    BY <1>1, <1>2, <2>2 DEF Gathers
  <2> HIDE DEF v
  <2>4. QED
    BY <2>1, <2>2, <2>3, GathersTrans
<1>4. QED
  BY <1>2, <1>3

LEMMA InactiveGathers ==
  ASSUME NEW s, IsSession(s), NEW error
  PROVE  Gathers(s, InactiveShown(s, error))
<1> DEFINE shown == [s EXCEPT !.ui = SetAcquisitionState(@, FALSE, FALSE, FALSE)]
           v == IF Diagnostics /\ IsOpened /\ ~RequiresReconnect
                  THEN RefreshFeatureTree(shown, "nothing") ELSE shown
<1>1. InactiveShown(s, error) \in {CompleteDisconnect(s), ErrorShown(v), v}
  BY DEF InactiveShown
<1>2. Gathers(s, shown)
  BY FieldGathers
<1> HIDE DEF shown
<1>3. Gathers(s, v)
  <2>1. "nothing" \in Refreshes
    BY DEF Refreshes
  <2>2. Gathers(shown, RefreshFeatureTree(shown, "nothing"))
    BY <1>2, <2>1, RefreshGathers DEF Gathers
  <2>3. QED
    BY <1>2, <2>2, GathersTrans
<1> HIDE DEF v
<1>4. Gathers(v, ErrorShown(v))
  <2> DEFINE w == IF RequiresReconnect THEN [v EXCEPT !.ui = SetAcquisitionAvailable(@, FALSE)] ELSE v
             x == [w EXCEPT !.ui = SetAcquisitionError(@)]
  <2>1. ErrorShown(v) \in {v, x}
    BY DEF ErrorShown
  <2>2. Gathers(v, v) /\ Gathers(v, w)
    BY <1>3, FieldGathers DEF Gathers
  <2> HIDE DEF w
  <2>3. Gathers(w, x)
    BY <2>2, FieldGathers DEF Gathers
  <2> HIDE DEF x
  <2>4. QED
    BY <2>1, <2>2, <2>3, GathersTrans
<1>5. QED
  BY <1>1, <1>3, <1>4, GathersTrans, DisconnectGathers

LEMMA OperationGathers ==
  ASSUME NEW s, IsSession(s), NEW call, NEW live, NEW o \in {"write", "trigger"}
  PROVE  /\ Gathers(s, Discover(s, call)) /\ Gathers(s, Connect(s, call)) /\ Gathers(s, Arm(s, live, call))
         /\ Gathers(s, RunFeatureOperation(s, o)) /\ Gathers(s, Initialize(s))
         /\ Gathers(s, StopShown(s))
<1>1. ASSUME NEW w
      PROVE  /\ Gathers(s, Started(s, w)) /\ IsSession(Started(s, w))
  BY FieldGathers DEF Gathers
<1>2. ASSUME NEW x, IsSession(x), NEW u, NEW c
      PROVE  /\ Gathers(x, [x EXCEPT !.ui = u, !.completion[c] = call])
             /\ Gathers(x, [x EXCEPT !.completion[c] = call, !.armLive = live, !.ui = u])
             /\ Gathers(x, [x EXCEPT !.ui = u, !.featureOperation = o])
  BY <1>2 DEF IsSession, Fields, Gathers, Reading
<1>3. Gathers(s, Discover(s, call))
  <2> DEFINE t == Started(s, "discovery")
             v == [t EXCEPT !.ui = SetDiscoveryPending(@, TRUE), !.completion["discovery"] = call]
  <2>1. Gathers(s, t) /\ IsSession(t) /\ Discover(s, call) = v
    BY <1>1 DEF Discover
  <2> HIDE DEF t
  <2>2. Gathers(t, v)
    BY <1>2, <2>1
  <2>3. QED
    BY <2>1, <2>2, GathersTrans
<1>4. Gathers(s, Connect(s, call))
  <2> DEFINE t == Started(s, "connection")
             v == [t EXCEPT !.completion["connect"] = call]
  <2>1. Gathers(s, t) /\ IsSession(t) /\ Connect(s, call) = v
    BY <1>1 DEF Connect
  <2> HIDE DEF t
  <2>2. Gathers(t, v)
    BY <2>1, FieldGathers
  <2>3. QED
    BY <2>1, <2>2, GathersTrans
<1>5. Gathers(s, Arm(s, live, call))
  <2> DEFINE t == Started(s, "arm")
             v == [t EXCEPT !.completion["arm"] = call, !.armLive = live, !.ui = ArmBegun(@, live)]
  <2>1. Gathers(s, t) /\ IsSession(t) /\ Arm(s, live, call) = v
    BY <1>1 DEF Arm
  <2> HIDE DEF t
  <2>2. Gathers(t, v)
    BY <1>2, <2>1
  <2>3. QED
    BY <2>1, <2>2, GathersTrans
<1>6. Gathers(s, RunFeatureOperation(s, o))
  <2> DEFINE t == Started(s, "feature")
             v == [t EXCEPT !.ui = SetFeatureOperationPending(@, TRUE), !.featureOperation = o]
  <2>1. Gathers(s, t) /\ IsSession(t) /\ RunFeatureOperation(s, o) = v
    BY <1>1 DEF RunFeatureOperation
  <2> HIDE DEF t
  <2>2. Gathers(t, v)
    BY <1>2, <2>1
  <2>3. QED
    BY <2>1, <2>2, GathersTrans
<1>7. Gathers(s, Initialize(s))
  <2> DEFINE t == Started(s, "initialization")
             v == [t EXCEPT !.ui = InitializationBegun(@)]
  <2>1. Gathers(s, t) /\ IsSession(t) /\ Initialize(s) = v
    BY <1>1 DEF Initialize
  <2> HIDE DEF t
  <2>2. Gathers(t, v)
    BY <2>1, FieldGathers
  <2>3. QED
    BY <2>1, <2>2, GathersTrans
<1>8. Gathers(s, StopShown(s))
  BY FieldGathers DEF StopShown
<1>9. QED
  BY <1>3, <1>4, <1>5, <1>6, <1>7, <1>8

LEMMA UserStepGathers ==
  ASSUME IsSession(session), UserStep
  PROVE  Gathers(session, session')
<1>1. {"write", "trigger"} = {"write", "trigger"} /\ TRUE \in BOOLEAN
  OBVIOUS
<1>2. ASSUME NEW s, Gathers(session, s), NEW t, Gathers(s, t)
      PROVE  Gathers(session, t)
  BY <1>2, GathersTrans
<1>3. ASSUME NEW s, Gathers(session, s), NEW live
      PROVE  /\ Gathers(session, ArmOrNothing(s, live)) /\ Gathers(session, StopShown(s))
             /\ \A v : Gathers(session, [s EXCEPT !.ui = v])
  <2>1. "write" \in {"write", "trigger"} /\ IsSession(s)
    BY <1>3 DEF Gathers
  <2>2. Gathers(s, Arm(s, live, NoCall)) /\ Gathers(s, StopShown(s))
    BY <2>1, OperationGathers
  <2>3. Gathers(session, Arm(s, live, NoCall)) /\ Gathers(session, StopShown(s))
    BY <1>3, <2>2, GathersTrans
  <2>4. \A v : Gathers(s, [s EXCEPT !.ui = v])
    BY <2>1, FieldGathers
  <2>5. QED
    BY <1>2, <1>3, <2>3, <2>4 DEF ArmOrNothing
<1>4. /\ Gathers(session, session)
      /\ Gathers(session, [session EXCEPT !.ui.refreshOn = FALSE])
      /\ Gathers(session, [session EXCEPT !.ui.connectChecked = FALSE])
      /\ \A v : Gathers(session, [session EXCEPT !.ui.liveChecked = v])
      /\ \A v : Gathers(session, [session EXCEPT !.ui = v])
      /\ Gathers(session, [session EXCEPT !.toolCall = NoCall])
      /\ Gathers(session, [session EXCEPT !.widget = FALSE])
  BY FieldGathers
<1>5. CASE ClickRefresh
  BY <1>4, <1>5 DEF ClickRefresh
<1>6. CASE ClickConnect
  <2> DEFINE s == [session EXCEPT !.ui = SetConnectionPending([@ EXCEPT !.connectChecked = TRUE], TRUE)]
             x == SetConnectionError(s.ui)
             y == SetAcquisitionAvailable(SetConnectionState(s.ui, TRUE), ~RequiresReconnect)
             e == [s EXCEPT !.ui = x]
             a == [s EXCEPT !.ui = y]
  <2>1. session' \in {Connect(s, NoCall), e, a}
    BY <1>6 DEF ClickConnect
  <2>2. Gathers(session, s)
    BY <1>4
  <2> HIDE DEF s, x, y
  <2>20. IsSession(s)
    BY <2>2 DEF Gathers
  <2>3. Gathers(s, e) /\ Gathers(s, a)
    <3>1. \A z : Gathers(s, [s EXCEPT !.ui = z])
      BY <2>20, FieldGathers
    <3>2. QED
      BY <3>1
  <2>30. Gathers(session, e) /\ Gathers(session, a)
    BY <2>2, <2>3, GathersTrans
  <2> HIDE DEF e, a
  <2>4. Gathers(s, Connect(s, NoCall))
    <3>1. "write" \in {"write", "trigger"} /\ IsSession(s)
      BY <2>2 DEF Gathers
    <3>2. QED
      BY <3>1, OperationGathers
  <2>5. QED
    BY <1>2, <2>1, <2>2, <2>30, <2>4
<1>7. CASE ClickDisconnect
  <2> DEFINE s == [session EXCEPT !.ui.connectChecked = FALSE]
             e == [s EXCEPT !.ui = SetConnectionState(@, IsOpened)]
  <2>1. session' \in {Disconnect(s, NoCall), e}
    BY <1>7 DEF ClickDisconnect
  <2>2. Gathers(session, s)
    BY <1>4
  <2> HIDE DEF s
  <2>3. Gathers(session, e)
    BY <1>3, <2>2
  <2>4. Gathers(s, Disconnect(s, NoCall))
    BY <2>2, DisconnectGathers DEF Gathers
  <2>5. QED
    BY <1>2, <2>1, <2>2, <2>3, <2>4
<1>8. CASE ClickSingle
  <2>1. session' \in {StopShown(session), ArmOrNothing(session, FALSE)}
    BY <1>8 DEF ClickSingle
  <2>2. Gathers(session, session)
    BY <1>4
  <2>3. Gathers(session, StopShown(session)) /\ Gathers(session, ArmOrNothing(session, FALSE))
    BY <1>3, <2>2
  <2>4. QED
    BY <2>1, <2>3
<1>9. CASE ToggleLive
  <2> DEFINE v == ~session.ui.liveChecked
             s == [session EXCEPT !.ui.liveChecked = ~@]
             r == [session EXCEPT !.ui.liveChecked = v]
  <2>1. session' \in {StopShown(s), ArmOrNothing(s, TRUE)}
    BY <1>9 DEF ToggleLive
  <2>2. s = r
    BY DEF IsSession, Fields
  <2> HIDE DEF v, s
  <2>3. Gathers(session, s)
    BY <1>4, <2>2
  <2>4. QED
    BY <1>3, <2>1, <2>3
<1>10. CASE ClickInit \/ EditFeature
  <2>1. session' \in {session, Initialize(session), RunFeatureOperation(session, "write")}
    BY <1>10 DEF ClickInit, EditFeature
  <2>2. "write" \in {"write", "trigger"}
    OBVIOUS
  <2>3. Gathers(session, Initialize(session)) /\ Gathers(session, RunFeatureOperation(session, "write"))
    BY <2>2, OperationGathers
  <2>4. QED
    BY <1>4, <2>1, <2>3
<1>11. CASE ClickTrigger
  <2> DEFINE s == [session EXCEPT !.ui = SetSoftwareTriggerPending(@, TRUE)]
             e == [s EXCEPT !.ui = SetSoftwareTriggerPending(@, FALSE)]
  <2>1. session' \in {RunFeatureOperation(s, "trigger"), e}
    BY <1>11 DEF ClickTrigger
  <2>2. Gathers(session, s)
    BY <1>4
  <2> HIDE DEF s
  <2>3. Gathers(session, e)
    BY <1>3, <2>2
  <2>4. Gathers(s, RunFeatureOperation(s, "trigger"))
    <3>1. "trigger" \in {"write", "trigger"} /\ IsSession(s)
      BY <2>2 DEF Gathers
    <3>2. QED
      BY <3>1, OperationGathers
  <2>5. QED
    BY <1>2, <2>1, <2>2, <2>3, <2>4
<1>12. CASE DestroyWidget \/ DestroySession
  BY <1>4, <1>12 DEF DestroyWidget, DestroySession
<1>13. QED
  BY <1>5, <1>6, <1>7, <1>8, <1>9, <1>10, <1>11, <1>12 DEF UserStep

LEMMA HostStepGathers ==
  ASSUME IsSession(session), AskedTool, HostStep \/ AdmitTool \/ RefuseTool
  PROVE  Gathers(session, session')
<1>1. Gathers(session, session)
  BY FieldGathers
<1>2. CASE StopNothing
  BY <1>1, <1>2 DEF StopNothing
<1>3. CASE (\E t \in Tools : AskTool(t)) \/ RefuseTool
  <2>1. PICK k : session' = ControlChanged([session EXCEPT !.toolCall = k])
    BY <1>3 DEF AskTool, RefuseTool
  <2> DEFINE s == [session EXCEPT !.toolCall = k]
  <2>2. Gathers(session, s) /\ session' = ControlChanged(s)
    BY <2>1, FieldGathers
  <2> HIDE DEF s
  <2>3. Gathers(s, ControlChanged(s))
    BY <2>2, ShownGathers DEF Gathers
  <2>4. QED
    BY <2>2, <2>3, GathersTrans
<1>4. CASE \E kind \in Parameters : RequestParameter(kind)
  <2>1. session' = Shown(session, ~isGrabbing)
    BY <1>4 DEF RequestParameter
  <2>2. QED
    BY <2>1, ShownGathers
<1>5. CASE AdmitTool
  <2> DEFINE call == session.toolCall
             p == SetConnectionPending(session.ui, TRUE)
             c == [session EXCEPT !.ui = p]
             e == [session EXCEPT !.completion["acquisitionEnd"] = call]
  <2>1. session' = ToolStarted(asked, session, call) /\ asked \in AllTools
    BY <1>5 DEF AdmitTool, AskedTool
  <2>2. session' \in {Discover(session, call), Connect(c, call), Disconnect(session, call),
                      Arm(session, TRUE, call), Arm(session, FALSE, call), StopShown(e)}
    BY <2>1 DEF ToolStarted, AllTools
  <2> HIDE DEF call, p
  <2>30. Gathers(session, c)
    BY FieldGathers
  <2>31. Gathers(session, e)
    BY FieldGathers
  <2>3. Gathers(session, c) /\ Gathers(session, e) /\ "write" \in {"write", "trigger"}
    BY <2>30, <2>31
  <2> HIDE DEF c, e
  <2>4. Gathers(c, Connect(c, call)) /\ Gathers(e, StopShown(e))
    BY <2>3, OperationGathers DEF Gathers
  <2>5. Gathers(session, Connect(c, call)) /\ Gathers(session, StopShown(e))
    BY <2>3, <2>4, GathersTrans
  <2>6. /\ Gathers(session, Discover(session, call)) /\ Gathers(session, Arm(session, TRUE, call))
        /\ Gathers(session, Arm(session, FALSE, call)) /\ Gathers(session, Disconnect(session, call))
    BY <2>3, OperationGathers, DisconnectGathers
  <2>7. QED
    BY <2>2, <2>5, <2>6
<1>6. QED
  BY <1>2, <1>3, <1>4, <1>5 DEF HostStep

LEMMA HandlesGathers ==
  ASSUME IsSession(session), Handles
  PROVE  Gathers(session, session')
<1>1. Gathers(session, session) /\ "write" \in {"write", "trigger"} /\ "nothing" \in Refreshes
  BY FieldGathers DEF Refreshes
<1>2. CASE HandleRefresh
  BY <1>1, <1>2, OperationGathers DEF HandleRefresh
<1>3. CASE HandleControl
  BY <1>3, ShownGathers DEF HandleControl
<1>4. CASE HandleApplied
  BY <1>1, <1>4, RefreshGathers DEF HandleApplied
<1>5. CASE HandleFrame \/ HandleActive
  <2>1. PICK v : session' = [session EXCEPT !.ui = v]
    BY <1>5 DEF HandleFrame, HandleActive
  <2>2. \A z : Gathers(session, [session EXCEPT !.ui = z])
    BY FieldGathers
  <2>3. QED
    BY <2>1, <2>2
<1>6. CASE HandleStale
  BY <1>1, <1>6 DEF HandleStale
<1>7. CASE HandleInactive \/ HandleStartFailed \/ HandleRest
  BY <1>7, InactiveGathers DEF HandleInactive, HandleStartFailed, HandleRest
<1>8. CASE HandleEnd
  BY <1>8, CompletedGathers DEF HandleEnd
<1>9. QED
  BY <1>2, <1>3, <1>4, <1>5, <1>6, <1>7, <1>8 DEF Handles

LEMMA EndsGather ==
  ASSUME IsSession(session), session.refreshFor \in Refreshes, Reading(session), Ends
  PROVE  Reading(session')
<1>1. {"nothing", "connect", "initialized", "profile failed", "feature"} \subseteq Refreshes
  BY DEF Refreshes
<1>2. ASSUME NEW w, w # "featureRead"
      PROVE  IsSession(Dropped(session, w)) /\ Reading(Dropped(session, w))
  BY <1>2 DEF IsSession, Fields, Reading, Dropped
<1>3. ASSUME NEW s, IsSession(s), Reading(s), NEW t, Gathers(s, t)
      PROVE  IsSession(t) /\ Reading(t)
  BY <1>3 DEF Gathers
<1>4. ASSUME NEW s, IsSession(s), Reading(s)
      PROVE  /\ \A c : Reading(Completed(s, c))
             /\ \A for \in Refreshes : Reading(RefreshFeatureTree(s, for))
             /\ \A u : IsSession([s EXCEPT !.ui = u]) /\ Reading([s EXCEPT !.ui = u])
  <2>1. \A c : Gathers(s, Completed(s, c))
    BY <1>4, CompletedGathers
  <2>2. \A for \in Refreshes : Gathers(s, RefreshFeatureTree(s, for))
    BY <1>4, RefreshGathers
  <2>3. \A u : Gathers(s, [s EXCEPT !.ui = u])
    BY <1>4, FieldGathers
  <2>4. QED
    BY <1>3, <1>4, <2>1, <2>2, <2>3
<1>5. CASE FinishDiscovery
  <2> DEFINE t == Dropped(session, "discovery")
             u(found) == IF succeeded["discovery"]
                           THEN SetDiscoveredDevices(SetDiscoveryPending(t.ui, FALSE), found)
                           ELSE SetDiscoveryPending(t.ui, FALSE)
             s(found) == [t EXCEPT !.ui = u(found)]
  <2>1. PICK found \in BOOLEAN : session' = Completed(s(found), "discovery")
    BY <1>5 DEF FinishDiscovery
  <2>2. IsSession(t) /\ Reading(t)
    BY <1>2
  <2> HIDE DEF t, u
  <2>3. IsSession(s(found)) /\ Reading(s(found))
    BY <1>4, <2>2
  <2> HIDE DEF s
  <2>4. QED
    BY <1>4, <2>1, <2>3
<1>6. CASE FinishConnection
  <2> DEFINE t == Dropped(session, "connection")
             c == SetConnectionPending(t.ui, FALSE)
             s == [t EXCEPT !.ui = c]
             a == SetAcquisitionAvailable(SetConnectionState(s.ui, TRUE), TRUE)
             e == SetConnectionError(s.ui)
             o == [s EXCEPT !.ui = a]
             f == [s EXCEPT !.ui = e]
  <2>1. session' \in {RefreshFeatureTree(o, "connect"), Completed(f, "connect")}
    BY <1>6 DEF FinishConnection
  <2>2. IsSession(t) /\ Reading(t)
    BY <1>2
  <2> HIDE DEF t, c
  <2>3. IsSession(s) /\ Reading(s)
    BY <1>4, <2>2
  <2> HIDE DEF s, a, e
  <2>4. IsSession(o) /\ Reading(o) /\ IsSession(f) /\ Reading(f)
    BY <1>4, <2>3
  <2> HIDE DEF o, f
  <2>5. Reading(RefreshFeatureTree(o, "connect"))
    BY <1>1, <1>4, <2>4
  <2>6. Reading(Completed(f, "connect"))
    BY <1>4, <2>4
  <2>7. QED
    BY <2>1, <2>5, <2>6
<1>7. CASE FinishDisconnection
  <2> DEFINE t == Dropped(session, "disconnection")
             c == SetConnectionState(SetFeatures(t.ui, FALSE), FALSE)
             s == [t EXCEPT !.disconnectPending = FALSE, !.ui = c]
  <2>1. session' = Completed(s, "disconnect")
    BY <1>7 DEF FinishDisconnection
  <2>2. IsSession(t) /\ Reading(t)
    BY <1>2
  <2> HIDE DEF t, c
  <2>3. IsSession(s) /\ Reading(s)
    BY <2>2 DEF IsSession, Fields, Reading
  <2> HIDE DEF s
  <2>4. QED
    BY <1>4, <2>1, <2>3
<1>8. CASE FinishInitialization
  <2> DEFINE t == Dropped(session, "initialization")
  <2>1. \E for \in Refreshes : session' = RefreshFeatureTree(t, for)
    BY <1>1, <1>8 DEF FinishInitialization
  <2>2. IsSession(t) /\ Reading(t)
    BY <1>2
  <2> HIDE DEF t
  <2>3. QED
    BY <1>4, <2>1, <2>2
<1>9. CASE FinishFeature
  <2> DEFINE s == Dropped(session, "feature")
             f == SetFeatureOperationPending(s.ui, FALSE)
             freed == [s EXCEPT !.ui = f]
             g == SetSoftwareTriggerPending(freed.ui, FALSE)
             last == [freed EXCEPT !.ui = g]
  <2>1. s.featureOperation \in {"write", "trigger"}
    BY DEF Dropped, IsSession, Fields
  <2>2. session' \in {RefreshFeatureTree(s, "feature"), freed, last}
    <3> HIDE DEF s
    <3>1. session' =
            CASE succeeded["feature"] /\ s.featureOperation = "write" -> RefreshFeatureTree(s, "feature")
              [] succeeded["feature"] /\ s.featureOperation = "trigger" -> freed
              [] ~succeeded["feature"] /\ s.featureOperation = "write" -> freed
              [] ~succeeded["feature"] /\ s.featureOperation = "trigger" -> last
      BY <1>9 DEF FinishFeature, s
    <3> HIDE DEF freed, last
    <3>2. QED
      BY <2>1, <3>1
  <2>3. IsSession(s) /\ Reading(s)
    BY <1>2
  <2> HIDE DEF s, f
  <2>4. IsSession(freed) /\ Reading(freed)
    BY <1>4, <2>3
  <2> HIDE DEF freed, g
  <2>5. Reading(last)
    BY <1>4, <2>4
  <2> HIDE DEF last
  <2>6. Reading(RefreshFeatureTree(s, "feature"))
    BY <1>1, <1>4, <2>3
  <2>7. QED
    BY <2>2, <2>4, <2>5, <2>6
<1>10. CASE FinishFeatureRead
  <2> DEFINE t == Dropped(session, "featureRead")
             u == IF succeeded["featureRead"]
                    THEN SetFeatures(SetFeatureRefreshPending(t.ui, FALSE), TRUE)
                    ELSE SetFeatureRefreshPending(t.ui, FALSE)
             s == [t EXCEPT !.refreshFor = "nothing", !.ui = u]
  <2>1. session' = AfterRefresh(s, session.refreshFor)
    BY <1>10 DEF FinishFeatureRead
  <2>2. IsSession(t)
    BY DEF IsSession, Fields, Dropped
  <2> HIDE DEF t, u
  <2>3. IsSession(s) /\ Reading(s)
    BY <1>1, <2>2 DEF IsSession, Fields, Reading
  <2> HIDE DEF s
  <2>4. Gathers(s, AfterRefresh(s, session.refreshFor))
    BY <2>3, AfterRefreshGathers
  <2>5. QED
    BY <1>3, <2>1, <2>3, <2>4
<1>11. CASE FinishArm
  <2> DEFINE t == Dropped(session, "arm")
             a == ArmEnded(t.ui)
             s == [t EXCEPT !.ui = a]
             k == s.completion["arm"]
             e == [s EXCEPT !.completion["acquisitionEnd"] = k, !.completion["arm"] = NoCall]
  <2>1. session' \in {Completed(s, "arm"), e}
    BY <1>11 DEF FinishArm
  <2>2. IsSession(t) /\ Reading(t)
    BY <1>2
  <2> HIDE DEF t, a
  <2>3. IsSession(s) /\ Reading(s)
    BY <1>4, <2>2
  <2> HIDE DEF s, k
  <2>4. Reading(e)
    BY <2>3 DEF IsSession, Fields, Reading
  <2> HIDE DEF e
  <2>5. Reading(Completed(s, "arm"))
    BY <1>4, <2>3
  <2>6. QED
    BY <2>1, <2>4, <2>5
<1>12. QED
  BY <1>5, <1>6, <1>7, <1>8, <1>9, <1>10, <1>11 DEF Ends


(* No step of any thread lets a remembered completion lose its watcher. *)
LEMMA ReadingNext ==
  Sound(session) /\ AskedTool /\ CallInv /\ Reading(session) /\ [Next]_vars => Reading(session)'
<1> SUFFICES ASSUME Sound(session), AskedTool, CallInv, Reading(session), [Next]_vars
             PROVE  Reading(session')
  BY DEF Reading
<1>1. IsSession(session)
  BY SoundIsSession
<1>2. session.refreshFor \in Refreshes
  BY <1>1 DEF IsSession
<1>3. CASE Ends
  BY <1>1, <1>2, <1>3, EndsGather
<1>4. CASE UserStep \/ HostStep \/ AdmitTool \/ RefuseTool \/ Handles
  <2>1. Gathers(session, session')
    BY <1>1, <1>4, UserStepGathers, HostStepGathers, HandlesGathers
  <2>2. QED
    BY <2>1 DEF Gathers
<1>5. CASE \/ AwaitWatchers \/ AwaitParameters \/ JoinForDestruction
           \/ CloseForDestruction \/ ReleaseForDestruction
           \/ PoolStep \/ ParameterWork \/ WorkerStep \/ SensorStep \/ Destroyed
           \/ UNCHANGED vars
  <2>1. session' = session
    BY <1>5, OtherCalls
  <2>2. QED
    BY <2>1
<1>6. QED
  BY <1>3, <1>4, <1>5 DEF Next, GuiStep, Handles, Ends

(* The types, with the invariants of the tasks and the calls they rest on. *)
TypedInv ==
  /\ DeviceTyped /\ ParameterTyped /\ CallTyped
  /\ answer \in [Calls -> Answers] /\ queue \in Seq(Event)
  /\ AskedTool /\ Sound(session) /\ Reading(session) /\ CallInv /\ TaskInv

LEMMA TypedInit == Init => TypedInv
<1> SUFFICES ASSUME Init PROVE TypedInv
  OBVIOUS
<1>1. AskedTool
  BY DEF Init, AskedTool
<1>2. Reading(session)
  BY DEF Init, Reading
<1>3. QED
  BY <1>1, <1>2, DeviceTypedInit, RequestTypedInit, SoundInit, CallsInit DEF TypedInv

LEMMA TypedNext == TypedInv /\ [Next]_vars => TypedInv'
<1> SUFFICES ASSUME TypedInv, [Next]_vars PROVE TypedInv'
  OBVIOUS
<1>1. DeviceTyped' /\ ParameterTyped' /\ CallTyped'
  BY DeviceTypedNext, ParameterTypedNext, CallTypedNext DEF TypedInv
<1>2. (answer \in [Calls -> Answers])' /\ (queue \in Seq(Event))'
  BY AnswerTypedNext, QueueTypedNext DEF TypedInv
<1>3. AskedTool' /\ Sound(session)' /\ Reading(session)' /\ CallInv' /\ TaskInv'
  BY AskedNext, SoundNext, ReadingNext, CallsNext DEF TypedInv
<1>4. QED
  BY <1>1, <1>2, <1>3 DEF TypedInv

(***************************************************************************)
(* Every variable keeps its type; a task that runs or a completion that    *)
(* waits for the features has its watcher, so that its end is not missed.  *)
(***************************************************************************)
THEOREM TypeCorrect == Spec => []TypeOK
<1>1. TypedInv => TypeOK
  <2> SUFFICES ASSUME TypedInv PROVE TypeOK
    OBVIOUS
  <2>1. DeviceTyped /\ ParameterTyped /\ CallTyped
    BY DEF TypedInv
  <2>2. session \in Session /\ \A w \in Watchers : task[w] # "idle" => w \in session.watchers
    BY DEF TypedInv, Sound, TaskInv
  <2>3. session.refreshFor # "nothing" => "featureRead" \in session.watchers
    BY DEF TypedInv, Reading
  <2>4. answer \in [Calls -> {"none", "pending", "ok", "failed", "refused"}] /\ queue \in Seq(Event)
    BY DEF TypedInv, Answers
  <2>5. QED
    BY <2>1, <2>2, <2>3, <2>4 DEF TypeOK, DeviceTyped, Workers, ParameterTyped, CallTyped
<1>2. QED
  BY TypedInit, TypedNext, <1>1, PTL DEF Spec
================================================================================
