------------------------ MODULE C4DeviceArms_proofs ------------------------
(***************************************************************************)
(* Arming, running and tearing down an acquisition: one worker at a time.  *)
(*                                                                         *)
(* The invariant relates what each thread is doing to the fields guarded   *)
(* by _stateMutex.  It sees of a worker only its Phase, and of another     *)
(* thread only the Stage of the operation it runs, so that most steps are  *)
(* quiet: they change neither.                                             *)
(*                                                                         *)
(* The hypothesis of the theorems, CallbacksDoNotArm, is that neither a    *)
(* frame callback nor an acquisition status callback calls                 *)
(* startAcquisition.  Connection status callbacks may.                     *)
(***************************************************************************)
EXTENDS C4Device_proofs

CallbacksDoNotArm == "start" \notin CallbackOps

(* The step the bottom of a thread is at: for a worker, its step in        *)
(* acquisitionLoop, whatever its callbacks call.                           *)
At(t) == IF stack[t] = <<>> THEN pc[t] ELSE stack[t][Len(stack[t])]

Ended == {"finish_trigger", "finish_tell", "finish_end"}

(* What the other threads need to know of the worker. *)
PhaseOf(step) ==
  IF step \in {"none", "enter", "quit", "hold", "exited"} THEN step
  ELSE IF step \in {"setup", "configure", "report"} THEN "setup"
  ELSE IF step \in Ended THEN "ended" ELSE "running"
Phase(w) == PhaseOf(At(w))

Live(w) == Phase(w) \notin {"none", "exited"}
NoneLive == \A w \in Workers : ~Live(w)

(* The step a thread is at or, when it gives the stop mutex back, returns to. *)
Stage(t) == IF pc[t] = "stop_unlock" THEN Caller(t) ELSE pc[t]

(* The thread runs the active status callbacks. *)
Telling(t) == Within(t, {"start_told"})

(* Steps a worker never takes, whatever its callbacks call. *)
Foreign ==
  {"idle", "start_lock", "stop_lock", "close_wait", "close_take", "close_release", "close_end",
   "open_publish", "open_read", "open_check"} \cup ArmSteps \cup TearSteps

(* A thread that has taken the std::thread of a worker, or ends its acquisition. *)
Joining == {"stop_signal", "stop_join"}
NoTeardown == \A u \in Clients : Stage(u) \notin Joining \cup FinishSteps

(* An arm that waits for the worker w, in one of the steps between its spawn and its end. *)
InstallsBy(a, w) ==
  \/ Stage(a) \in {"start_publish", "start_await", "start_commit"} /\ loc[a].id = w
  \/ Stage(a) = "start_fail" /\ st.thread = w
  \/ Stage(a) = "start_join" /\ loc[a].joinee = w
Installs(w) == \E a \in Threads : InstallsBy(a, w)

(* Somebody will join w. *)
Joinee(w) == st.thread = w \/ \E u \in Clients : Stage(u) \in Joining /\ loc[u].joinee = w

Apart ==
  /\ \A w \in Workers : Count(w, Foreign) = 0
  /\ \A t \in Clients : Frames(stack[t], {"finish_end"}) = 0

WorkersOK ==
  /\ \A w \in Workers : st.workerId = w <=> Phase(w) \notin {"none", "enter", "exited"}
  /\ \A v, w \in Workers : Live(v) /\ Live(w) => v = w
  /\ \A w \in Workers : Phase(w) \in {"enter", "setup", "hold", "running", "ended"} => st.device
  /\ \A w \in Workers : Phase(w) \in {"enter", "setup", "quit"} => Installs(w)
  /\ \A w \in Workers : Phase(w) = "hold" => Installs(w) \/ (st.acquiring /\ st.activeId = w)

AcquiringOK ==
  /\ \A w \in Workers : Phase(w) = "running" => st.acquiring /\ st.activeId = w
  /\ \A w \in Workers : Phase(w) = "ended" => ~st.acquiring /\ ~st.installing
  /\ \A w \in Workers : Phase(w) \in {"running", "ended"} \/ (Phase(w) = "hold" /\ st.acquiring)
       => Joinee(w)
  /\ st.acquiring => ~st.installing /\ st.activeId \in Workers /\ Phase(st.activeId) \in {"hold", "running"}

ClaimOK ==
  /\ \A t \in Threads : Stage(t) \in {"start_check", "start_prearm"} =>
       NoneLive /\ st.thread = NoThread /\ ~st.installing /\ NoTeardown
  /\ \A t \in Threads : Stage(t) \in {"start_reset", "start_spawn"} =>
       NoneLive /\ st.thread = NoThread /\ st.installing /\ NoTeardown /\ st.device
  /\ \A t \in Threads : Stage(t) = "start_spawn" => ~hs.completed /\ ~hs.released

(* What the start handshake says of the worker of the arm. *)
Answered(w) ==
  /\ Phase(w) \in {"enter", "setup", "hold", "quit", "exited"}
  /\ hs.completed <=> Phase(w) \in {"hold", "quit", "exited"}
  /\ hs.completed => (hs.succeeded <=> Phase(w) = "hold")

InstallOK ==
  /\ \A t \in Threads : Stage(t) \in {"start_publish", "start_await", "start_fail", "start_commit"} =>
       st.installing /\ ~st.acquiring /\ NoTeardown /\ ~hs.released
  /\ \A t \in Threads : Stage(t) \in {"start_publish", "start_await"} =>
       Answered(loc[t].id) /\ st.thread = (IF Stage(t) = "start_await" THEN loc[t].id ELSE NoThread)
  /\ \A t \in Threads : Stage(t) = "start_commit" => st.thread = loc[t].id /\ Phase(loc[t].id) = "hold"
  /\ \A t \in Threads : Stage(t) = "start_fail" => st.thread \in Workers /\ Phase(st.thread) \in {"quit", "exited"}
  /\ \A t \in Threads : Stage(t) = "start_join" =>
       /\ st.thread = NoThread /\ ~st.acquiring /\ ~st.installing /\ NoTeardown
       /\ loc[t].joinee \in Workers /\ Phase(loc[t].joinee) \in {"quit", "exited"}
  /\ \A t \in Threads : Stage(t) \in {"start_tell", "start_release"} \/ Telling(t) =>
       st.acquiring /\ ~hs.released /\ Phase(st.activeId) = "hold"

TeardownOK ==
  /\ \A u \in Clients : Stage(u) \in Joining \cup FinishSteps => ~st.installing /\ st.thread = NoThread
  /\ \A u \in Clients : Stage(u) \in Joining => \A w \in Workers : Live(w) => loc[u].joinee = w
  /\ \A u \in Clients : Stage(u) \in FinishSteps => NoneLive
  /\ \A u \in Clients : Stage(u) \in {"finish_trigger", "finish_tell"} => ~loc[u].was
  /\ \A t \in Threads : Stage(t) \in {"close_take", "close_release"} =>
       ~st.installing /\ \A w \in Workers : Phase(w) \in {"none", "exited", "quit"}

Arms == Apart /\ WorkersOK /\ AcquiringOK /\ ClaimOK /\ InstallOK /\ TeardownOK

(* The step a thread resumes at when its running stopAcquisition is over. *)
Second(t) == IF Callers(t) # <<>> THEN Head(Callers(t)) ELSE "idle"
Resume(t) ==
  IF pc[t] \in {"stop_check", "stop_lock"} \cup TearSteps THEN Caller(t)
  ELSE IF pc[t] \in RequestSteps \cup FinishSteps /\ Caller(t) \in TearSteps THEN Second(t)
  ELSE pc[t]

InitSteps == {"init_command", "init_poll", "init_end"}

Closers == {"close_wait", "close_take", "close_release"}

Linked(t) ==
  /\ Resume(t) \in Closers => st.closing /\ st.dispatching # t
  /\ Resume(t) \in {"close_take", "close_release"} => st.initializing = NoThread
  /\ st.dispatching = t => Telling(t)
  /\ t \in Clients /\ pc[t] \in RequestSteps => Caller(t) \notin {"close_take", "start_check"}
  /\ pc[t] \in InitSteps <=> st.initializing = t
  /\ pc[t] = "close_release" => ~st.device
  /\ pc[t] = "open_publish" => dev.open
  /\ pc[t] = "open_read" => st.device

Connection ==
  /\ \A t \in Threads : Linked(t)
  /\ st.initializing # NoThread => st.device
  /\ st.device => dev.open

------------------------------------------------------------------------------
(* Where a thread is *)

LEMMA FirstAndLast ==
  ASSUME NEW R, NEW s \in Seq(R), NEW x
  PROVE  /\ <<x>> \o s # <<>> /\ Head(<<x>> \o s) = x /\ Tail(<<x>> \o s) = s
         /\ Len(<<x>> \o s) = Len(s) + 1 /\ Len(s) \in Nat /\ (s # <<>> => Len(s) # 0)
         /\ \A i \in 1..Len(s) : (<<x>> \o s)[i + 1] = s[i]
         /\ (<<x>> \o s)[1] = x
         /\ s # <<>> => /\ Tail(s) \in Seq(R) /\ Len(Tail(s)) = Len(s) - 1 /\ Head(s) = s[1]
                        /\ \A i \in 1..(Len(s) - 1) : Tail(s)[i] = s[i + 1]
OBVIOUS

LEMMA EmptyLen == Len(<<>>) = 0
OBVIOUS

(* The step a thread returns to runs it. *)
LEMMA CallerRuns ==
  ASSUME TypeInv, Control, NEW t \in Threads
  PROVE  /\ stack[t] # <<>> => Caller(t) \in Returns /\ pc[t] \in Body(Caller(t))
         /\ stack[t] = <<>> => Caller(t) \in {"idle", "exited"} /\ pc[t] \in Base(t)
<1>1. stack[t] \in Seq(Returns) /\ Chained(t)
  BY DEF TypeInv, ControlOK, Control
<1>2. CASE stack[t] = <<>>
  BY <1>1, <1>2 DEF Caller, Chained, Inside
<1>3. CASE stack[t] # <<>>
  <2>1. 1 \in DOMAIN stack[t] /\ Head(stack[t]) = stack[t][1] /\ stack[t][1] \in Returns
    BY <1>1, <1>3
  <2>2. QED
    BY <1>1, <1>3, <2>1 DEF Caller, Chained, Inside
<1>4. QED
  BY <1>2, <1>3

(* The calls a step can be in. *)
LEMMA Callees ==
  /\ \A r \in Returns : Body(r) \cap WorkerSteps = {}
  /\ \A r \in Returns : \A p \in FinishSteps : p \in Body(r) => r = "stop_unlock"
  /\ \A r \in Returns : \A p \in CallbackSteps :
       p \in Body(r) => r \in {"open_check", "close_end", "start_told", "finish_end", "delivered"}
  /\ \A r \in Returns : \A p \in RequestSteps :
       p \in Body(r) => r \in {"lifecycle_unlock", "stop_wait", "close_take", "start_check",
                               "callback_return"}
  /\ \A r \in Returns : \A p \in StopSteps \ RequestSteps :
       p \in Body(r) => r \in {"close_take", "start_check", "callback_return"}
  /\ \A r \in Returns : \A p \in CloseSteps :
       p \in Body(r) => r \in {"open_handles", "callback_return"}
  /\ \A r \in Returns : \A p \in FreeSteps \cup OpenSteps \cup ArmSteps :
       p \in Body(r) => r \in {"open_handles", "callback_return"}
  /\ \A r \in Returns : r \in WorkerBase => r \in {"finish_end", "delivered"}
BY DEF Returns, Body, WorkerSteps, ClientBase, ClientSteps, CallbackSteps, CloseSteps, StopSteps,
   RequestSteps, FinishSteps, FreeSteps, OpenSteps, ArmSteps, WorkerBase

(* A worker at a step of acquisitionLoop is in no call. *)
LEMMA AtBase ==
  ASSUME TypeInv, Control, Apart, NEW w \in Workers, pc[w] \in WorkerBase
  PROVE  stack[w] = <<>> /\ At(w) = pc[w]
<1>1. w \in Threads
  BY WorkerIds
<1>2. SUFFICES ASSUME stack[w] # <<>> PROVE FALSE
  BY DEF At
<1>3. Caller(w) \in Returns /\ pc[w] \in Body(Caller(w)) /\ Caller(w) = stack[w][1]
      /\ 1 \in DOMAIN stack[w]
  <2>1. stack[w] \in Seq(Returns)
    BY <1>1 DEF TypeInv, ControlOK
  <2>2. 1 \in DOMAIN stack[w] /\ Head(stack[w]) = stack[w][1]
    BY <1>2, <2>1
  <2>3. QED
    BY <1>1, <1>2, <2>2, CallerRuns DEF Caller
<1>4. Caller(w) = "stop_unlock"
  BY <1>3, Callees DEF WorkerBase
<1>5. Caller(w) \notin Foreign
  BY <1>1, <1>3, CountTyped DEF Apart, TypeInv
<1>6. QED
  BY <1>4, <1>5 DEF Foreign, TearSteps

(* Anywhere else it is in a callback, of a frame or of its end. *)
LEMMA AtCallback ==
  ASSUME TypeInv, Control, NEW w \in Workers, stack[w] # <<>>
  PROVE  At(w) \in {"finish_end", "delivered"} /\ Phase(w) \in {"running", "ended"}
<1> DEFINE n == Len(stack[w])
<1>1. w \in Threads
  BY WorkerIds
<1>2. n \in DOMAIN stack[w] /\ n + 1 \notin DOMAIN stack[w] /\ stack[w][n] \in Returns
  BY <1>1 DEF TypeInv, ControlOK
<1>3. stack[w][n] \in WorkerBase
  BY <1>1, <1>2 DEF Control, Chained, Inside, Base
<1>4. At(w) \in {"finish_end", "delivered"}
  BY <1>2, <1>3, Callees DEF At
<1>5. QED
  BY <1>4 DEF Phase, PhaseOf, Ended

LEMMA OutsideBase ==
  ASSUME TypeInv, Control, NEW w \in Workers, pc[w] \notin WorkerBase
  PROVE  stack[w] # <<>>
BY WorkerIds DEF TypeInv, Control, Chained, Inside, Base

(* The steps of a worker that were ruled out. *)
LEMMA NotForeign ==
  ASSUME TypeInv, Apart, NEW w \in Workers
  PROVE  /\ pc[w] \notin Foreign
         /\ stack[w] # <<>> => Caller(w) \notin Foreign
<1>1. w \in Threads
  BY WorkerIds
<1>2. pc[w] \notin Foreign /\ \A i \in DOMAIN stack[w] : stack[w][i] \notin Foreign
  BY <1>1, CountTyped DEF Apart, TypeInv
<1>3. stack[w] # <<>> => 1 \in DOMAIN stack[w] /\ Head(stack[w]) = stack[w][1]
  BY <1>1 DEF TypeInv, ControlOK
<1>4. QED
  BY <1>2, <1>3 DEF Caller

(* What a call, a return and a move change at the bottom. *)
LEMMA AtGoto ==
  ASSUME NEW t \in Threads, NEW q, pc'[t] = q, stack'[t] = stack[t]
  PROVE  At(t)' = IF stack[t] = <<>> THEN q ELSE At(t)
BY DEF At

LEMMA AtCall ==
  ASSUME ControlOK, NEW t \in Threads, NEW r \in Returns, stack'[t] = <<r>> \o stack[t]
  PROVE  At(t)' = IF stack[t] = <<>> THEN r ELSE At(t)
<1>1. stack[t] \in Seq(Returns)
  BY DEF ControlOK
<1>2. CASE stack[t] = <<>>
  BY <1>2 DEF At
<1>3. CASE stack[t] # <<>>
  BY <1>1, <1>3, FirstAndLast DEF At
<1>4. QED
  BY <1>2, <1>3

LEMMA AtReturn ==
  ASSUME ControlOK, NEW t \in Threads, pc'[t] = Caller(t), stack'[t] = Callers(t)
  PROVE  At(t)' = IF stack[t] = <<>> THEN Caller(t) ELSE At(t)
<1>1. stack[t] \in Seq(Returns)
  BY DEF ControlOK
<1>2. CASE stack[t] = <<>>
  BY <1>2 DEF At, Callers
<1>3. CASE stack[t] # <<>>
  <2>1. pc'[t] = stack[t][1] /\ stack'[t] = Tail(stack[t])
    BY <1>1, <1>3, FirstAndLast DEF Caller, Callers
  <2>2. Len(Tail(stack[t])) = Len(stack[t]) - 1 /\ Len(stack[t]) \in Nat \ {0}
    BY <1>1, <1>3
  <2>3. CASE Tail(stack[t]) = <<>>
    <3>1. Len(stack[t]) = 1
      <4>1. Len(Tail(stack[t])) = 0
        BY <2>3, EmptyLen, Zenon
      <4>2. QED
        BY <2>2, <4>1
    <3>2. QED
      BY <1>3, <2>1, <2>3, <3>1 DEF At
  <2>4. CASE Tail(stack[t]) # <<>>
    <3>1. Len(stack[t]) - 1 \in 1..(Len(stack[t]) - 1)
      BY <1>1, <2>2, <2>4
    <3>2. Tail(stack[t])[Len(stack[t]) - 1] = stack[t][Len(stack[t])]
      BY <1>1, <1>3, <3>1
    <3>3. QED
      BY <1>3, <2>1, <2>2, <2>4, <3>2 DEF At
  <2>5. QED
    BY <2>3, <2>4
<1>4. QED
  BY <1>2, <1>3

------------------------------------------------------------------------------
(* What a step of one thread changes *)

(* A thread that takes no step looks as before. *)
Alike(u) ==
  /\ Stage(u)' = Stage(u) \/ (Stage(u) = "blocked" /\ Stage(u)' = "take")
  /\ Telling(u)' = Telling(u)
  /\ u \in Workers => Phase(u)' = Phase(u)

LEMMA BystanderAlike ==
  ASSUME TypeInv, Control, NEW u \in Threads, Bystander(u)
  PROVE  Alike(u)
<1>1. stack'[u] = stack[u] /\ (pc'[u] = pc[u] \/ (pc[u] = "blocked" /\ pc'[u] = "take"))
  BY DEF Bystander
<1>2. Caller(u)' = Caller(u)
  BY <1>1 DEF Caller
<1>3. Stage(u)' = Stage(u) \/ (Stage(u) = "blocked" /\ Stage(u)' = "take")
  BY <1>1, <1>2 DEF Stage
<1>4. Telling(u)' = Telling(u)
  BY <1>1 DEF Telling, Within
<1>5. ASSUME u \in Workers PROVE Phase(u)' = Phase(u)
  <2>1. At(u)' = At(u) \/ (At(u) = "blocked" /\ At(u)' = "take")
    BY <1>1 DEF At
  <2>2. QED
    BY <2>1 DEF Phase, PhaseOf, Ended
<1>6. QED
  BY <1>3, <1>4, <1>5 DEF Alike

Others(t) ==
  \A u \in Threads : u # t => Alike(u) /\ loc'[u] = loc[u]

(* Apart survives a step that stays out of Foreign. *)
LEMMA ApartAside ==
  ASSUME TypeInv, Apart, NEW t \in Threads, Bystanders(t),
         t \in Workers => Count(t, Foreign)' = 0,
         t \in Clients => Frames(stack[t], {"finish_end"})' = 0
  PROVE  Apart'
<1>1. ASSUME NEW w \in Workers PROVE Count(w, Foreign)' = 0
  <2>1. CASE w = t
    BY <2>1
  <2>2. CASE w # t
    <3>1. w \in Threads /\ Bystander(w)
      BY <2>2, WorkerIds DEF Bystanders
    <3>2. "take" \notin Foreign
      BY DEF Foreign, ArmSteps, TearSteps
    <3>3. Count(w, Foreign) = 0
      BY DEF Apart
    <3>4. pc[w] \notin Foreign
      BY <3>1, <3>3, CountTyped DEF TypeInv
    <3>5. pc'[w] \notin Foreign
      BY <3>1, <3>2, <3>4 DEF Bystander
    <3>6. QED
      BY <3>1, <3>3, <3>4, <3>5, GotoCount DEF TypeInv, Bystander, One
  <2>3. QED
    BY <2>1, <2>2
<1>2. ASSUME NEW u \in Clients PROVE Frames(stack[u], {"finish_end"})' = 0
  <2>1. u \in Threads /\ (u # t => stack'[u] = stack[u])
    BY DEF Threads, Bystanders, Bystander
  <2>2. QED
    BY <2>1 DEF Apart, Frames
<1>3. QED
  BY <1>1, <1>2 DEF Apart

LEMMA ApartGoto ==
  ASSUME TypeInv, Apart, NEW t \in Threads, NEW q, pc'[t] = q, stack'[t] = stack[t],
         Bystanders(t), t \in Workers => q \notin Foreign
  PROVE  Apart'
<1>1. ASSUME t \in Workers PROVE Count(t, Foreign)' = 0
  <2>1. Count(t, Foreign) = 0 /\ pc[t] \notin Foreign /\ pc'[t] \notin Foreign
    BY <1>1, NotForeign DEF Apart
  <2>2. QED
    BY <2>1, GotoCount DEF TypeInv, One
<1>2. t \in Clients => Frames(stack[t], {"finish_end"})' = 0
  BY DEF Apart, Frames
<1>3. QED
  BY <1>1, <1>2, ApartAside

LEMMA ApartCall ==
  ASSUME TypeInv, Apart, NEW t \in Threads, NEW q, NEW r \in Returns, pc'[t] = q,
         stack'[t] = <<r>> \o stack[t], Bystanders(t), t \in Workers => q \notin Foreign /\ r \notin Foreign,
         t \in Clients => r # "finish_end"
  PROVE  Apart'
<1>1. ASSUME t \in Workers PROVE Count(t, Foreign)' = 0
  <2>1. Count(t, Foreign) = 0 /\ pc[t] \notin Foreign /\ pc'[t] \notin Foreign /\ r \notin Foreign
    BY <1>1, NotForeign DEF Apart
  <2>2. QED
    BY <2>1, CallCount DEF TypeInv, One
<1>2. ASSUME t \in Clients PROVE Frames(stack[t], {"finish_end"})' = 0
  <2>1. stack[t] \in Seq(Returns) /\ r \notin {"finish_end"} /\ Frames(stack[t], {"finish_end"}) = 0
    BY <1>2 DEF TypeInv, ControlOK, Apart
  <2>2. Frames(<<r>> \o stack[t], {"finish_end"}) = 0
    BY <2>1, FramesPush DEF One
  <2>3. QED
    BY <2>2 DEF Frames
<1>3. QED
  BY <1>1, <1>2, ApartAside

LEMMA ApartReturn ==
  ASSUME TypeInv, Apart, NEW t \in Threads, pc'[t] = Caller(t), stack'[t] = Callers(t),
         Bystanders(t)
  PROVE  Apart'
<1>1. stack[t] \in Seq(Returns)
  BY DEF TypeInv, ControlOK
<1>2. ASSUME t \in Workers PROVE Count(t, Foreign)' = 0
  <2>1. \A i \in DOMAIN stack[t] : stack[t][i] \notin Foreign
    BY <1>2, CountTyped DEF Apart, TypeInv
  <2>2. CASE stack[t] = <<>>
    <3>1. pc'[t] = "exited" /\ stack'[t] = <<>>
      BY <1>2, <2>2 DEF Caller, Callers
    <3>2. QED
      BY <3>1, FramesEmpty DEF Count, One, Foreign, ArmSteps, TearSteps
  <2>3. CASE stack[t] # <<>>
    <3>1. pc'[t] \notin Foreign
      BY <1>2, <2>3, NotForeign
    <3>2. Frames(stack[t], Foreign) = 0
      BY <1>1, <2>1, FramesNone
    <3>3. Frames(Tail(stack[t]), Foreign) \in Nat
      <4>1. Tail(stack[t]) \in Seq(Returns)
        BY <1>1, <2>3
      <4>2. QED
        BY <4>1, FramesFinite
    <3>4. Frames(Tail(stack[t]), Foreign) = 0
      BY <1>1, <2>3, <3>2, <3>3, FramesPop DEF One
    <3>5. stack'[t] = Tail(stack[t])
      BY <2>3 DEF Callers
    <3>6. QED
      BY <3>1, <3>4, <3>5 DEF Count, One
  <2>4. QED
    BY <2>2, <2>3
<1>3. ASSUME t \in Clients PROVE Frames(stack[t], {"finish_end"})' = 0
  <2>1. Frames(stack[t], {"finish_end"}) = 0
    BY <1>3 DEF Apart
  <2>2. CASE stack[t] = <<>>
    <3>1. stack'[t] = <<>>
      BY <2>2 DEF Callers
    <3>2. QED
      BY <3>1, FramesEmpty DEF Frames
  <2>3. CASE stack[t] # <<>>
    <3>1. Frames(Tail(stack[t]), {"finish_end"}) \in Nat
      <4>1. Tail(stack[t]) \in Seq(Returns)
        BY <1>1, <2>3
      <4>2. QED
        BY <4>1, FramesFinite
    <3>2. Frames(Tail(stack[t]), {"finish_end"}) = 0
      BY <1>1, <2>1, <2>3, <3>1, FramesPop DEF One
    <3>3. stack'[t] = Tail(stack[t])
      BY <2>3 DEF Callers
    <3>4. QED
      BY <3>2, <3>3 DEF Frames
  <2>4. QED
    BY <2>2, <2>3
<1>4. QED
  BY <1>2, <1>3, ApartAside

------------------------------------------------------------------------------
(* Quiet steps *)

(* The stages the invariant speaks of. *)
Claims ==
  {"start_check", "start_prearm", "start_reset", "start_spawn", "start_publish", "start_await",
   "start_fail", "start_join", "start_commit", "stop_signal", "stop_join", "close_take",
   "close_release"}
Holding ==
  {"start_publish", "start_await", "start_fail", "start_join", "start_commit", "stop_signal",
   "stop_join"}

SameState ==
  /\ st'.acquiring = st.acquiring /\ st'.installing = st.installing /\ st'.thread = st.thread
  /\ st'.workerId = st.workerId /\ st'.activeId = st.activeId
  /\ st.device => st'.device
  /\ hs' = hs

(* The thread has committed an arm and not released its worker. *)
Told(t) == Stage(t) \in {"start_tell", "start_release"} \/ Telling(t)

(* The invariant says no more of a thread at q than of one at p. *)
Kin(p, q) ==
  \/ p = q
  \/ p = "start_check" /\ q = "start_prearm"
  \/ p = "stop_signal" /\ q = "stop_join"
  \/ p = "finish_trigger" /\ q \in {"finish_tell", "finish_end"}
  \/ p = "finish_tell" /\ q = "finish_end"

(* The thread gives up no hold on a worker, and claims nothing. *)
Unclaimed(t) ==
  /\ Stage(t) \notin Holding
  /\ Stage(t)' \notin Claims
  /\ t \in Clients => Stage(t)' \notin FinishSteps

Quiet(t) ==
  /\ SameState
  /\ Others(t)
  /\ t \in Workers => Phase(t)' = Phase(t)
  /\ Told(t)' => Told(t)
  /\ Unclaimed(t) \/ (Kin(Stage(t), Stage(t)') /\ loc'[t] = loc[t])

LEMMA StageOf ==
  ASSUME TypeInv, Control, NEW t \in Threads
  PROVE  /\ pc[t] # "stop_unlock" => Stage(t) = pc[t]
         /\ pc[t] = "stop_unlock" =>
              Stage(t) \in {"close_take", "start_check", "callback_return", "idle", "exited"}
<1>1. pc[t] = "stop_unlock" =>
        Caller(t) \in {"close_take", "start_check", "callback_return", "idle", "exited"}
  BY CallerRuns, Callees DEF StopSteps, RequestSteps
<1>2. QED
  BY <1>1 DEF Stage

LEMMA StageArming ==
  ASSUME TypeInv, Control, NEW t \in Threads, Stage(t) \in Arming
  PROVE  loc[t].id \in Workers
<1>1. pc[t] \in Arming
  BY StageOf DEF Arming
<1>2. QED
  BY <1>1 DEF TypeInv, ArmIdentified

LEMMA QuietArms ==
  ASSUME TypeInv, Control, Arms, Apart', NEW t \in Threads, Quiet(t)
  PROVE  Arms'
<1>0. \A u \in Clients : u \in Threads
  BY DEF Threads
<1>1. ASSUME NEW u \in Threads, Stage(u)' \in Claims
      PROVE  Kin(Stage(u), Stage(u)') /\ loc'[u] = loc[u]
  BY <1>1 DEF Quiet, Others, Alike, Unclaimed, Claims, Kin
<1>2. ASSUME NEW u \in Clients, Stage(u)' \in Joining \cup FinishSteps
      PROVE  Kin(Stage(u), Stage(u)') /\ loc'[u] = loc[u]
  BY <1>0, <1>2 DEF Quiet, Others, Alike, Unclaimed, Claims, Joining, FinishSteps, Kin
<1>3. ASSUME NEW u \in Threads, Stage(u) \in Holding
      PROVE  Kin(Stage(u), Stage(u)') /\ loc'[u] = loc[u]
  BY <1>3 DEF Quiet, Others, Alike, Unclaimed, Holding, Kin
<1>4. \A w \in Workers : Phase(w)' = Phase(w)
  BY WorkerIds DEF Quiet, Others, Alike
<1>5. \A u \in Threads : Told(u)' => Told(u)
  BY DEF Quiet, Others, Alike, Told
<1>6. NoneLive => NoneLive'
  BY <1>4 DEF NoneLive, Live
<1>7. NoTeardown => NoTeardown'
  BY <1>2 DEF NoTeardown, Kin, Joining, FinishSteps
<1>8. ASSUME NEW w \in Workers, Installs(w) PROVE Installs(w)'
  <2>1. PICK a \in Threads :
          \/ Stage(a) \in {"start_publish", "start_await", "start_commit"} /\ loc[a].id = w
          \/ Stage(a) = "start_fail" /\ st.thread = w
          \/ Stage(a) = "start_join" /\ loc[a].joinee = w
    BY <1>8 DEF Installs, InstallsBy
  <2>2. Stage(a)' = Stage(a) /\ loc'[a] = loc[a]
    BY <1>3, <2>1 DEF Holding, Kin
  <2>3. st'.thread = st.thread
    BY DEF Quiet, SameState
  <2>4. QED
    BY <2>1, <2>2, <2>3 DEF Installs, InstallsBy
<1>9. ASSUME NEW w \in Workers, Joinee(w) PROVE Joinee(w)'
  <2>1. ASSUME NEW u \in Clients, Stage(u) \in Joining, loc[u].joinee = w
        PROVE  Stage(u)' \in Joining /\ loc'[u].joinee = w
    BY <1>0, <1>3, <2>1 DEF Joining, Holding, Kin
  <2>2. st'.thread = st.thread
    BY DEF Quiet, SameState
  <2>3. QED
    BY <1>9, <2>1, <2>2 DEF Joinee
<1>10. SameState
  BY DEF Quiet
<1>11. WorkersOK'
  BY <1>4, <1>8, <1>10 DEF Arms, WorkersOK, Live, SameState
<1>12. AcquiringOK'
  BY <1>4, <1>9, <1>10 DEF Arms, AcquiringOK, SameState
<1>13. ClaimOK'
  BY <1>1, <1>6, <1>7, <1>10 DEF Arms, ClaimOK, SameState, Claims, Kin
<1>14. InstallOK'
  <2>1. ASSUME NEW u \in Threads, Stage(u)' \in {"start_publish", "start_await"}
        PROVE  Answered(loc[u].id)' /\ st'.thread = IF Stage(u)' = "start_await" THEN loc'[u].id ELSE NoThread
    <3>1. Stage(u)' = Stage(u) /\ loc'[u] = loc[u]
      BY <1>1, <2>1 DEF Claims, Kin
    <3>2. Answered(loc[u].id) /\ st.thread = IF Stage(u) = "start_await" THEN loc[u].id ELSE NoThread
      BY <2>1, <3>1 DEF Arms, InstallOK
    <3>3. loc[u].id \in Workers /\ loc'[u].id = loc[u].id
      BY <2>1, <3>1, StageArming DEF Arming
    <3>4. Phase(loc[u].id)' = Phase(loc[u].id)
      BY <1>4, <3>3
    <3>5. Answered(loc[u].id)'
      BY <1>10, <3>2, <3>4 DEF Answered, SameState
    <3>6. QED
      BY <1>10, <3>1, <3>2, <3>5 DEF SameState
  <2>2. ASSUME NEW u \in Threads,
               Stage(u)' \in {"start_publish", "start_await", "start_fail", "start_commit"}
        PROVE  st'.installing /\ ~st'.acquiring /\ NoTeardown' /\ ~hs'.released
    BY <1>1, <1>7, <1>10, <2>2 DEF Arms, InstallOK, SameState, Claims, Kin
  <2>3. ASSUME NEW u \in Threads, Stage(u)' = "start_commit"
        PROVE  st'.thread = loc'[u].id /\ Phase(loc[u].id)' = "hold"
    <3>1. Stage(u)' = Stage(u) /\ loc'[u] = loc[u]
      BY <1>1, <2>3 DEF Claims, Kin
    <3>2. loc[u].id \in Workers /\ st.thread = loc[u].id /\ Phase(loc[u].id) = "hold"
      BY <2>3, <3>1, StageArming DEF Arming, Arms, InstallOK
    <3>3. QED
      BY <1>4, <1>10, <3>1, <3>2 DEF SameState
  <2>4. ASSUME NEW u \in Threads, Stage(u)' = "start_fail"
        PROVE  st'.thread \in Workers /\ Phase(st.thread)' \in {"quit", "exited"}
    <3>1. st.thread \in Workers /\ Phase(st.thread) \in {"quit", "exited"}
      BY <1>1, <2>4 DEF Claims, Arms, InstallOK, Kin
    <3>2. QED
      BY <1>4, <1>10, <3>1 DEF SameState
  <2>5. ASSUME NEW u \in Threads, Stage(u)' = "start_join"
        PROVE  /\ st'.thread = NoThread /\ ~st'.acquiring /\ ~st'.installing /\ NoTeardown'
               /\ loc'[u].joinee \in Workers /\ Phase(loc[u].joinee)' \in {"quit", "exited"}
    <3>1. Stage(u)' = Stage(u) /\ loc'[u] = loc[u]
      BY <1>1, <2>5 DEF Claims, Kin
    <3>2. /\ st.thread = NoThread /\ ~st.acquiring /\ ~st.installing /\ NoTeardown
          /\ loc[u].joinee \in Workers /\ Phase(loc[u].joinee) \in {"quit", "exited"}
      BY <2>5, <3>1 DEF Arms, InstallOK
    <3>3. QED
      BY <1>4, <1>7, <1>10, <3>1, <3>2 DEF SameState
  <2>6. ASSUME NEW u \in Threads, Stage(u)' \in {"start_tell", "start_release"} \/ Telling(u)'
        PROVE  st'.acquiring /\ ~hs'.released /\ Phase(st.activeId)' = "hold"
    <3>1. Stage(u) \in {"start_tell", "start_release"} \/ Telling(u)
      BY <1>5, <2>6 DEF Told
    <3>2. st.acquiring /\ ~hs.released /\ Phase(st.activeId) = "hold" /\ st.activeId \in Workers
      BY <3>1 DEF Arms, InstallOK, AcquiringOK
    <3>3. QED
      BY <1>4, <1>10, <3>2 DEF SameState
  <2>7. QED
    BY <2>1, <2>2, <2>3, <2>4, <2>5, <2>6 DEF InstallOK
<1>15. TeardownOK'
  BY <1>1, <1>2, <1>4, <1>6, <1>10 DEF Arms, TeardownOK, SameState, Claims, Joining, FinishSteps, Live, Kin
<1>16. QED
  BY <1>11, <1>12, <1>13, <1>14, <1>15 DEF Arms


------------------------------------------------------------------------------
(* The forms of a quiet step *)

OwnLocals(t) == \A u \in Threads : u # t => loc'[u] = loc[u]

Bare(step) ==
  step \notin Claims \cup {"stop_unlock", "start_told", "start_tell", "start_release"}

LEMMA OthersAlike ==
  ASSUME TypeInv, Control, NEW t \in Threads, Bystanders(t), OwnLocals(t)
  PROVE  Others(t)
BY BystanderAlike DEF Others, Bystanders, OwnLocals

LEMMA HoldingStage ==
  ASSUME TypeInv, Control, NEW t \in Threads, pc[t] \notin Holding
  PROVE  Stage(t) \notin Holding
BY StageOf DEF Holding

LEMMA QuietGoto ==
  ASSUME TypeInv, Control, Arms, NEW t \in Threads, NEW q,
         Goto(t, q) \/ (NotifyAndGoto(t, q) /\ stack' = stack), SameState, OwnLocals(t),
         pc[t] \notin Holding, Bare(q), t \in Clients => q \notin FinishSteps,
         t \in Workers => q \notin Foreign /\ (PhaseOf(q) = PhaseOf(pc[t]) \/ pc[t] \notin WorkerBase)
  PROVE  Arms'
<1>1. pc'[t] = q /\ stack'[t] = stack[t] /\ Bystanders(t)
  BY GotoForm, NotifyForm DEF TypeInv
<1>2. Apart'
  BY <1>1, ApartGoto DEF Arms
<1>3. Others(t)
  BY <1>1, OthersAlike
<1>4. ASSUME t \in Workers PROVE Phase(t)' = Phase(t)
  <2>1. At(t)' = IF stack[t] = <<>> THEN q ELSE At(t)
    BY <1>1, AtGoto
  <2>2. CASE stack[t] = <<>>
    <3>1. At(t) = pc[t]
      BY <2>2 DEF At
    <3>2. PhaseOf(q) = PhaseOf(pc[t])
      BY <1>4, <2>2, OutsideBase
    <3>3. QED
      BY <2>1, <2>2, <3>1, <3>2 DEF Phase
  <2>3. CASE stack[t] # <<>>
    BY <2>1, <2>3 DEF Phase
  <2>4. QED
    BY <2>2, <2>3
<1>5. Stage(t)' = q
  BY <1>1 DEF Stage, Bare
<1>6. Telling(t)' => Telling(t)
  BY <1>1 DEF Telling, Within, Bare
<1>7. Unclaimed(t)
  BY <1>5, HoldingStage DEF Unclaimed, Bare
<1>8. Told(t)' => Told(t)
  BY <1>5, <1>6 DEF Told, Bare
<1>9. QED
  BY <1>2, <1>3, <1>4, <1>7, <1>8, QuietArms DEF Quiet

LEMMA QuietCall ==
  ASSUME TypeInv, Control, Arms, NEW t \in Threads, NEW q, NEW r \in Returns,
         Call(t, q, r), SameState, OwnLocals(t),
         pc[t] \notin Holding, Bare(q), r # "start_told",
         t \in Clients => q \notin FinishSteps /\ r # "finish_end",
         t \in Workers => /\ q \notin Foreign /\ r \notin Foreign
                          /\ PhaseOf(r) = PhaseOf(pc[t]) \/ pc[t] \notin WorkerBase
  PROVE  Arms'
<1>1. pc'[t] = q /\ stack'[t] = <<r>> \o stack[t] /\ Bystanders(t)
  BY CallForm DEF TypeInv
<1>2. Apart'
  BY <1>1, ApartCall DEF Arms
<1>3. Others(t)
  BY <1>1, OthersAlike
<1>4. ASSUME t \in Workers PROVE Phase(t)' = Phase(t)
  <2>1. At(t)' = IF stack[t] = <<>> THEN r ELSE At(t)
    BY <1>1, AtCall DEF TypeInv
  <2>2. CASE stack[t] = <<>>
    <3>1. At(t) = pc[t]
      BY <2>2 DEF At
    <3>2. PhaseOf(r) = PhaseOf(pc[t])
      BY <1>4, <2>2, OutsideBase
    <3>3. QED
      BY <2>1, <2>2, <3>1, <3>2 DEF Phase
  <2>3. CASE stack[t] # <<>>
    BY <2>1, <2>3 DEF Phase
  <2>4. QED
    BY <2>2, <2>3
<1>5. Stage(t)' = q
  BY <1>1 DEF Stage, Bare
<1>6. Telling(t)' => Telling(t)
  <2>1. stack[t] \in Seq(Returns)
    BY DEF TypeInv, ControlOK
  <2>2. \A i \in DOMAIN (<<r>> \o stack[t]) :
          (<<r>> \o stack[t])[i] = "start_told" => i - 1 \in DOMAIN stack[t] /\ stack[t][i - 1] = "start_told"
    BY <2>1
  <2>3. QED
    BY <1>1, <2>2 DEF Telling, Within, Bare
<1>7. Unclaimed(t)
  BY <1>5, HoldingStage DEF Unclaimed, Bare
<1>8. Told(t)' => Told(t)
  BY <1>5, <1>6 DEF Told, Bare
<1>9. QED
  BY <1>2, <1>3, <1>4, <1>7, <1>8, QuietArms DEF Quiet

LEMMA ReturnTelling ==
  ASSUME TypeInv, NEW t \in Threads, pc'[t] = Caller(t), stack'[t] = Callers(t)
  PROVE  Telling(t)' => Telling(t)
<1>1. stack[t] \in Seq(Returns)
  BY DEF TypeInv, ControlOK
<1>2. CASE stack[t] = <<>>
  BY <1>2 DEF Telling, Within, Caller, Callers
<1>3. CASE stack[t] # <<>>
  <2>1. pc'[t] = stack[t][1] /\ stack'[t] = Tail(stack[t]) /\ 1 \in DOMAIN stack[t]
    BY <1>1, <1>3 DEF Caller, Callers
  <2>2. \A i \in DOMAIN Tail(stack[t]) : i + 1 \in DOMAIN stack[t] /\ Tail(stack[t])[i] = stack[t][i + 1]
    BY <1>1, <1>3
  <2>3. QED
    BY <2>1, <2>2 DEF Telling, Within
<1>4. QED
  BY <1>2, <1>3

(* A return into no stage the invariant speaks of. *)
LEMMA QuietReturn ==
  ASSUME TypeInv, Control, Arms, NEW t \in Threads,
         Return(t) \/ NotifyAndReturn(t), SameState, OwnLocals(t),
         pc[t] \notin Holding, Caller(t) \notin Claims \cup {"stop_unlock"},
         t \in Clients => Caller(t) \notin FinishSteps,
         t \in Workers => pc[t] \notin WorkerBase
  PROVE  Arms'
<1>1. pc'[t] = Caller(t) /\ stack'[t] = Callers(t) /\ Bystanders(t)
  BY ReturnForm, NotifyReturnForm DEF TypeInv
<1>2. Apart'
  BY <1>1, ApartReturn DEF Arms
<1>3. Others(t)
  BY <1>1, OthersAlike
<1>4. ASSUME t \in Workers PROVE Phase(t)' = Phase(t)
  BY <1>1, <1>4, AtReturn, OutsideBase DEF Phase, TypeInv
<1>5. Stage(t)' = Caller(t)
  BY <1>1 DEF Stage
<1>6. Telling(t)' => Telling(t)
  BY <1>1, ReturnTelling
<1>7. Unclaimed(t)
  BY <1>5, HoldingStage DEF Unclaimed
<1>8. Told(t)' => Told(t)
  BY <1>5, <1>6, CallersStep DEF Told, TypeInv, Returns
<1>9. QED
  BY <1>2, <1>3, <1>4, <1>7, <1>8, QuietArms DEF Quiet

(* Unlocking the stop mutex leaves the stage of the thread. *)
LEMMA StopUnlockArms ==
  ASSUME TypeInv, Control, Arms, NEW t \in Threads, StopUnlock(t)
  PROVE  Arms'
<1>1. pc[t] = "stop_unlock" /\ SameState /\ OwnLocals(t) /\ loc' = loc /\ Return(t)
  BY DEF StopUnlock, SameState, OwnLocals
<1>2. pc'[t] = Caller(t) /\ stack'[t] = Callers(t) /\ Bystanders(t)
  BY <1>1, ReturnForm DEF TypeInv
<1>3. Apart'
  BY <1>2, ApartReturn DEF Arms
<1>4. Others(t)
  BY <1>1, <1>2, OthersAlike
<1>5. t \notin Workers
  BY <1>1, NotForeign DEF Arms, Foreign, TearSteps
<1>6. Stage(t)' = Stage(t)
  <2>1. Stage(t) = Caller(t) /\ Stage(t) # "stop_unlock"
    BY <1>1, StageOf DEF Stage
  <2>2. QED
    BY <1>2, <2>1 DEF Stage
<1>7. Telling(t)' => Telling(t)
  BY <1>2, ReturnTelling
<1>8. Told(t)' => Told(t)
  BY <1>6, <1>7 DEF Told
<1>9. QED
  BY <1>1, <1>3, <1>4, <1>5, <1>6, <1>8, QuietArms DEF Quiet, Kin


------------------------------------------------------------------------------
(* Calls, requests and the entry of a stop *)

LEMMA ClientNoWorker == \A t \in Clients : t \notin Workers
BY ThreadsAssumption

LEMMA WorkerClient == \A t \in Threads : t \in Workers \/ t \in Clients
BY DEF Threads

(* What a step that is in no section of its own returns to. *)
LEMMA CallerQuiet ==
  ASSUME TypeInv, Control, Arms, Connection, NEW t \in Threads,
         pc[t] \in CallbackSteps \cup RequestSteps \cup FreeSteps \cup {"lifecycle_unlock", "start_unlock"}
  PROVE  /\ Caller(t) \notin Claims \cup {"stop_unlock"} /\ pc[t] \notin Holding \cup WorkerBase
         /\ t \in Clients => Caller(t) \notin FinishSteps
<1>1. pc[t] \notin Holding \cup WorkerBase
  BY DEF Holding, WorkerBase, WorkerSteps, FinishSteps, CallbackSteps, RequestSteps, FreeSteps
<1>2. CASE stack[t] = <<>>
  BY <1>1, <1>2, CallerRuns DEF Claims, FinishSteps
<1>3. CASE stack[t] # <<>>
  <2>1. Caller(t) \in Returns /\ pc[t] \in Body(Caller(t)) /\ Caller(t) = stack[t][1]
        /\ 1 \in DOMAIN stack[t]
    <3>1. stack[t] \in Seq(Returns)
      BY DEF TypeInv, ControlOK
    <3>2. 1 \in DOMAIN stack[t] /\ Head(stack[t]) = stack[t][1]
      BY <1>3, <3>1
    <3>3. QED
      BY <1>3, <3>2, CallerRuns DEF Caller
  <2>2. CASE pc[t] \in CallbackSteps
    <3>1. Caller(t) \in {"open_check", "close_end", "start_told", "finish_end", "delivered"}
      BY <2>1, <2>2, Callees
    <3>2. t \in Clients => Caller(t) # "finish_end"
      <4>1. stack[t] \in Seq(Returns)
        BY DEF TypeInv, ControlOK
      <4>2. t \in Clients => Frames(stack[t], {"finish_end"}) = 0
        BY DEF Arms, Apart
      <4>3. QED
        BY <2>1, <4>1, <4>2, FramesNone
    <3>3. QED
      BY <1>1, <3>1, <3>2 DEF Claims, FinishSteps
  <2>3. CASE pc[t] \in RequestSteps
    <3>1. Caller(t) \in {"lifecycle_unlock", "stop_wait", "close_take", "start_check",
                         "callback_return"}
      BY <2>1, <2>3, Callees
    <3>2. Caller(t) \notin {"close_take", "start_check"}
      <4>1. t \in Workers => Caller(t) \notin Foreign
        BY <1>3, NotForeign DEF Arms
      <4>2. t \in Clients => Caller(t) \notin {"close_take", "start_check"}
        BY <2>3 DEF Connection, Linked
      <4>3. QED
        BY <4>1, <4>2, WorkerClient DEF Foreign, ArmSteps
    <3>3. QED
      BY <1>1, <3>1, <3>2 DEF Claims, FinishSteps
  <2>4. CASE pc[t] \in FreeSteps \cup {"start_unlock"}
    <3>1. Caller(t) \in {"open_handles", "callback_return"}
      BY <2>1, <2>4, Callees DEF ArmSteps
    <3>2. QED
      BY <1>1, <3>1 DEF Claims, FinishSteps
  <2>5. CASE pc[t] = "lifecycle_unlock"
    <3>1. Caller(t) \in {"open_handles", "callback_return"}
      BY <2>1, <2>5, Callees DEF CloseSteps
    <3>2. QED
      BY <1>1, <3>1 DEF Claims, FinishSteps
  <2>6. QED
    BY <2>2, <2>3, <2>4, <2>5
<1>4. QED
  BY <1>2, <1>3

(* Entries of operations, and the step after a callback, are bare. *)
LEMMA EntryBare ==
  ASSUME NEW op \in Ops
  PROVE  /\ Bare(Entry[op]) /\ Entry[op] \notin FinishSteps
         /\ op # "start" => Entry[op] \notin Foreign
BY DEF Ops, Entry, Bare, Claims, FinishSteps, Foreign, ArmSteps, TearSteps

LEMMA CallsArms ==
  ASSUME TypeInv, Control, Arms, Connection, CallbacksDoNotArm, NEW t \in Threads,
         ClientCall(t) \/ CallbackCall(t) \/ CallbackReturn(t)
  PROVE  Arms'
<1>1. SameState /\ OwnLocals(t)
  BY DEF SameState, OwnLocals, ClientCall, CallbackCall, CallbackReturn
<1>2. CASE ClientCall(t)
  <2>1. PICK op \in Ops : Goto(t, Entry[op]) /\ pc[t] = "idle" /\ t \in Clients
    BY <1>2, OpsAssumption DEF ClientCall
  <2>2. pc[t] \notin Holding /\ t \notin Workers
    BY <2>1, ClientNoWorker DEF Holding
  <2>3. QED
    BY <1>1, <2>1, <2>2, EntryBare, QuietGoto
<1>3. CASE CallbackCall(t)
  <2>1. PICK op \in Ops : /\ Call(t, Entry[op], "callback_return") /\ pc[t] = "callback"
                          /\ op \in IF OfConnection(t) THEN ConnectionOps ELSE CallbackOps
    BY <1>3, OpsAssumption DEF CallbackCall
  <2>2. t \in Workers => ~OfConnection(t)
    <3>1. t \in Workers /\ stack[t] # <<>> => Head(stack[t]) \notin Foreign
      BY NotForeign DEF Arms, Caller
    <3>2. QED
      BY <3>1 DEF OfConnection, Foreign
  <2>3. t \in Workers => Entry[op] \notin Foreign
    BY <2>1, <2>2, EntryBare DEF CallbacksDoNotArm
  <2>4. pc[t] \notin Holding \cup WorkerBase
    BY <2>1 DEF Holding, WorkerBase, WorkerSteps, FinishSteps
  <2>5. /\ "callback_return" \in Returns /\ "callback_return" \notin Foreign
        /\ "callback_return" # "start_told" /\ "callback_return" # "finish_end"
    BY DEF Returns, Foreign, ArmSteps, TearSteps
  <2>6. QED
    BY <1>1, <2>1, <2>3, <2>4, <2>5, EntryBare, QuietCall
<1>4. CASE CallbackReturn(t)
  <2>1. Return(t) /\ pc[t] \in CallbackSteps
    BY <1>4 DEF CallbackReturn, CallbackSteps
  <2>2. QED
    BY <1>1, <2>1, CallerQuiet, QuietReturn
<1>5. QED
  BY <1>2, <1>3, <1>4

LEMMA RequestArms ==
  ASSUME TypeInv, Control, Arms, Connection, NEW t \in Threads,
         RequestFlag(t) \/ RequestNotify(t) \/ StopCheck(t) \/ StopLock(t)
  PROVE  Arms'
<1>1. SameState /\ OwnLocals(t)
  BY DEF SameState, OwnLocals, RequestFlag, RequestNotify, StopCheck, StopLock
<1>2. CASE RequestFlag(t)
  <2>1. pc[t] = "request_flag" /\ (Goto(t, "request_notify") \/ Return(t))
    BY <1>2 DEF RequestFlag
  <2>2. pc[t] \notin Holding \cup WorkerBase /\ pc[t] \in RequestSteps
    BY <2>1 DEF Holding, WorkerBase, WorkerSteps, FinishSteps, RequestSteps
  <2>3. Bare("request_notify") /\ "request_notify" \notin Foreign \cup FinishSteps
    BY DEF Bare, Claims, Foreign, ArmSteps, TearSteps, FinishSteps
  <2>4. CASE Goto(t, "request_notify")
    BY <1>1, <2>2, <2>3, <2>4, QuietGoto
  <2>5. CASE Return(t)
    BY <1>1, <2>2, <2>5, CallerQuiet, QuietReturn
  <2>6. QED
    BY <2>1, <2>4, <2>5
<1>3. CASE RequestNotify(t)
  <2>1. pc[t] \in RequestSteps /\ NotifyAndReturn(t)
    BY <1>3 DEF RequestNotify, RequestSteps
  <2>2. QED
    BY <1>1, <2>1, CallerQuiet, QuietReturn
<1>4. CASE StopCheck(t)
  <2>1. pc[t] = "stop_check" /\ Goto(t, IF IsCallbackThread(t) THEN "request_flag" ELSE "stop_lock")
    BY <1>4 DEF StopCheck
  <2>2. pc[t] \notin Holding \cup WorkerBase
    BY <2>1 DEF Holding, WorkerBase, WorkerSteps, FinishSteps
  <2>3. ASSUME t \in Workers PROVE IsCallbackThread(t)
    <3>1. Phase(t) \in {"running", "ended"}
      BY <2>2, <2>3, OutsideBase, AtCallback
    <3>2. st.workerId = t
      BY <2>3, <3>1 DEF Arms, WorkersOK
    <3>3. QED
      BY <3>2 DEF IsCallbackThread
  <2>4. PICK q \in {"request_flag", "stop_lock"} : Goto(t, q) /\ (t \in Workers => q = "request_flag")
    BY <2>1, <2>3
  <2>5. Bare(q) /\ q \notin FinishSteps /\ "request_flag" \notin Foreign
    BY DEF Bare, Claims, Foreign, ArmSteps, TearSteps, FinishSteps
  <2>6. QED
    BY <1>1, <2>2, <2>4, <2>5, QuietGoto
<1>5. CASE StopLock(t)
  <2>1. pc[t] = "stop_lock" /\ Call(t, "request_flag", "stop_wait")
    BY <1>5 DEF StopLock
  <2>2. t \notin Workers /\ pc[t] \notin Holding
    BY <2>1, NotForeign DEF Arms, Foreign, Holding
  <2>3. Bare("request_flag") /\ "request_flag" \notin FinishSteps /\ "stop_wait" \in Returns
        /\ "stop_wait" # "finish_end" /\ "stop_wait" # "start_told"
    BY DEF Bare, Claims, FinishSteps, Returns
  <2>4. QED
    BY <1>1, <2>1, <2>2, <2>3, QuietCall
<1>6. QED
  BY <1>2, <1>3, <1>4, <1>5


------------------------------------------------------------------------------
(* Feature access, triggers, initialization, open and close *)

LEMMA OperationGoto ==
  ASSUME TypeInv, Control, Arms, NEW t \in Threads, NEW q, Goto(t, q), SameState, OwnLocals(t),
         pc[t] \in FreeSteps \cup LifeSteps, q \in FreeSteps \cup (LifeSteps \ {"close_take", "close_release"}),
         t \in Workers => q \notin Foreign
  PROVE  Arms'
<1>1. pc[t] \notin Holding \cup WorkerBase
  BY DEF FreeSteps, LifeSteps, Holding, WorkerBase, WorkerSteps, FinishSteps
<1>2. Bare(q) /\ q \notin FinishSteps
  BY DEF FreeSteps, LifeSteps, Bare, Claims, FinishSteps
<1>3. QED
  BY <1>1, <1>2, QuietGoto

LEMMA OperationCall ==
  ASSUME TypeInv, Control, Arms, NEW t \in Threads, NEW q, NEW r \in Returns, Call(t, q, r),
         SameState, OwnLocals(t), pc[t] \in FreeSteps \cup LifeSteps,
         q \in {"request_flag", "stop_check", "callback", "close_lock"}, r \in LifeSteps \cup {"start_check"},
         t \in Workers => r \notin Foreign
  PROVE  Arms'
<1>1. pc[t] \notin Holding \cup WorkerBase
  BY DEF FreeSteps, LifeSteps, Holding, WorkerBase, WorkerSteps, FinishSteps
<1>2. Bare(q) /\ q \notin FinishSteps \cup Foreign /\ r # "start_told" /\ r # "finish_end"
  BY DEF LifeSteps, Bare, Claims, FinishSteps, Foreign, ArmSteps, TearSteps
<1>3. QED
  BY <1>1, <1>2, QuietCall

LEMMA OperationReturn ==
  ASSUME TypeInv, Control, Arms, Connection, NEW t \in Threads, Return(t) \/ NotifyAndReturn(t),
         SameState, OwnLocals(t), pc[t] \in FreeSteps \cup {"lifecycle_unlock", "start_unlock"}
  PROVE  Arms'
<1>1. /\ Caller(t) \notin Claims \cup {"stop_unlock"} /\ pc[t] \notin Holding \cup WorkerBase
      /\ t \in Clients => Caller(t) \notin FinishSteps
  BY CallerQuiet
<1>2. QED
  BY <1>1, QuietReturn

(* A worker that runs a callback is known as one, and the device is open. *)
LEMMA CallbackWorker ==
  ASSUME TypeInv, Control, Arms, NEW w \in Workers, pc[w] \notin WorkerBase
  PROVE  IsCallbackThread(w) /\ st.device
<1>1. Phase(w) \in {"running", "ended"}
  BY OutsideBase, AtCallback
<1>2. st.workerId = w /\ st.device
  BY <1>1 DEF Arms, WorkersOK
<1>3. QED
  BY <1>2 DEF IsCallbackThread

LEMMA AccessArms ==
  ASSUME TypeInv, Control, Arms, Connection, NEW t \in Threads,
         TriggerCheck(t) \/ TriggerQueue(t) \/ Feature(t) \/ Cancel(t) \/ InitAdmit(t) \/
         InitCommand(t) \/ InitPoll(t) \/ InitEnd(t)
  PROVE  Arms'
<1>1. SameState /\ OwnLocals(t) /\ pc[t] \in FreeSteps
  BY DEF TypeInv, DataOK, StateFields, SameState, OwnLocals, TriggerCheck, TriggerQueue, Feature,
     Cancel, InitAdmit, InitCommand, InitPoll, InitEnd, FreeSteps
<1>2. PICK q \in {"trigger_queue", "init_command", "init_poll", "init_end"} :
        Goto(t, q) \/ Return(t) \/ NotifyAndReturn(t)
  BY DEF TriggerCheck, TriggerQueue, Feature, Cancel, InitAdmit, InitCommand, InitPoll, InitEnd
<1>3. q \in FreeSteps /\ q \notin Foreign
  BY DEF FreeSteps, Foreign, ArmSteps, TearSteps
<1>4. CASE Goto(t, q)
  BY <1>1, <1>3, <1>4, OperationGoto
<1>5. CASE Return(t) \/ NotifyAndReturn(t)
  BY <1>1, <1>5, OperationReturn
<1>6. QED
  BY <1>2, <1>4, <1>5

LEMMA OpenArms ==
  ASSUME TypeInv, Control, Arms, Connection, NEW t \in Threads,
         OpenLock(t) \/ OpenHandles(t) \/ OpenPublish(t) \/ OpenRead(t) \/ OpenCheck(t)
  PROVE  Arms'
<1>1. SameState /\ OwnLocals(t) /\ pc[t] \in FreeSteps \cup LifeSteps
  BY DEF TypeInv, DataOK, StateFields, SameState, OwnLocals, OpenLock, OpenHandles, OpenPublish,
     OpenRead, OpenCheck, FreeSteps, LifeSteps
<1>2. t \in Workers => pc[t] \notin {"open_publish", "open_read", "open_check"}
  BY NotForeign DEF Arms, Foreign
<1>3. CASE OpenLock(t)
  <2>1. "open_handles" \in Returns /\ "open_handles" \in LifeSteps /\ "open_handles" \notin Foreign
    BY DEF Returns, LifeSteps, Foreign, ArmSteps, TearSteps
  <2>2. Call(t, "close_lock", "open_handles")
    BY <1>3 DEF OpenLock
  <2>3. QED
    BY <1>1, <2>1, <2>2, OperationCall
<1>4. CASE OpenHandles(t)
  <2>1. pc[t] = "open_handles"
    BY <1>4 DEF OpenHandles
  <2>2. t \in Workers => st.device
    <3>1. pc[t] \notin WorkerBase
      BY <2>1 DEF WorkerBase, WorkerSteps, FinishSteps
    <3>2. QED
      BY <3>1, CallbackWorker
  <2>3. PICK q \in {"lifecycle_unlock", "open_publish"} : Goto(t, q) /\ (t \in Workers => q = "lifecycle_unlock")
    BY <1>4, <2>2 DEF OpenHandles
  <2>4. q \in LifeSteps \ {"close_take", "close_release"} /\ "lifecycle_unlock" \notin Foreign
    BY DEF LifeSteps, Foreign, ArmSteps, TearSteps
  <2>5. QED
    BY <1>1, <2>3, <2>4, OperationGoto
<1>5. CASE OpenPublish(t) \/ OpenCheck(t)
  <2>1. PICK q \in {"open_read", "lifecycle_unlock"} : Goto(t, q)
    BY <1>5 DEF OpenPublish, OpenCheck
  <2>2. q \in LifeSteps \ {"close_take", "close_release"}
    BY DEF LifeSteps
  <2>3. t \notin Workers
    BY <1>2, <1>5 DEF OpenPublish, OpenCheck
  <2>4. QED
    BY <1>1, <2>1, <2>2, <2>3, OperationGoto
<1>6. CASE OpenRead(t)
  <2>1. Call(t, "callback", "open_check") /\ t \notin Workers
    BY <1>2, <1>6 DEF OpenRead
  <2>2. "open_check" \in Returns /\ "open_check" \in LifeSteps
    BY DEF Returns, LifeSteps
  <2>3. QED
    BY <1>1, <2>1, <2>2, OperationCall
<1>7. QED
  BY <1>3, <1>4, <1>5, <1>6

LEMMA CloseArms ==
  ASSUME TypeInv, Control, Arms, Connection, NEW t \in Threads,
         CloseLock(t) \/ CloseCancel(t) \/ CloseClaim(t) \/ CloseWait(t) \/ CloseRelease(t) \/
         CloseEnd(t) \/ LifecycleUnlock(t)
  PROVE  Arms'
<1>1. SameState /\ OwnLocals(t) /\ pc[t] \in FreeSteps \cup LifeSteps
  BY DEF TypeInv, DataOK, StateFields, SameState, OwnLocals, CloseLock, CloseCancel, CloseClaim,
     CloseWait, CloseRelease, CloseEnd, LifecycleUnlock, FreeSteps, LifeSteps
<1>2. t \in Workers => pc[t] \notin {"close_wait", "close_release", "close_end"}
  BY NotForeign DEF Arms, Foreign
<1>3. CASE CloseLock(t) \/ CloseCancel(t)
  <2>1. PICK q \in {"close_cancel", "close_claim"} : Goto(t, q)
    BY <1>3 DEF CloseLock, CloseCancel
  <2>2. q \in LifeSteps \ {"close_take", "close_release"} /\ q \notin Foreign
    BY DEF LifeSteps, Foreign, ArmSteps, TearSteps
  <2>3. QED
    BY <1>1, <2>1, <2>2, OperationGoto
<1>4. CASE CloseClaim(t)
  <2>1. t \in Workers => DefersClose(t)
    <3>1. pc[t] \notin WorkerBase
      BY <1>4 DEF CloseClaim, WorkerBase, WorkerSteps, FinishSteps
    <3>2. QED
      BY <3>1, CallbackWorker DEF DefersClose
  <2>2. CASE Call(t, "request_flag", "lifecycle_unlock")
    <3>1. "lifecycle_unlock" \in Returns /\ "lifecycle_unlock" \in LifeSteps /\ "lifecycle_unlock" \notin Foreign
      BY DEF Returns, LifeSteps, Foreign, ArmSteps, TearSteps
    <3>2. QED
      BY <1>1, <2>2, <3>1, OperationCall
  <2>3. CASE Goto(t, "close_wait") /\ ~DefersClose(t)
    <3>1. "close_wait" \in LifeSteps \ {"close_take", "close_release"}
      BY DEF LifeSteps
    <3>2. QED
      BY <1>1, <2>1, <2>3, <3>1, OperationGoto
  <2>4. QED
    BY <1>4, <2>2, <2>3 DEF CloseClaim
<1>5. CASE CloseWait(t)
  <2>1. Call(t, "stop_check", "close_take") /\ t \notin Workers
    BY <1>2, <1>5 DEF CloseWait
  <2>2. "close_take" \in Returns /\ "close_take" \in LifeSteps
    BY DEF Returns, LifeSteps
  <2>3. QED
    BY <1>1, <2>1, <2>2, OperationCall
<1>6. CASE CloseRelease(t)
  <2>1. t \notin Workers /\ (Call(t, "callback", "close_end") \/ Goto(t, "close_end"))
    BY <1>2, <1>6 DEF CloseRelease
  <2>2. "close_end" \in Returns /\ "close_end" \in LifeSteps \ {"close_take", "close_release"}
    BY DEF Returns, LifeSteps
  <2>3. QED
    BY <1>1, <2>1, <2>2, OperationCall, OperationGoto
<1>7. CASE CloseEnd(t)
  <2>1. t \notin Workers /\ Goto(t, "lifecycle_unlock")
    BY <1>2, <1>7 DEF CloseEnd
  <2>2. "lifecycle_unlock" \in LifeSteps \ {"close_take", "close_release"}
    BY DEF LifeSteps
  <2>3. QED
    BY <1>1, <2>1, <2>2, OperationGoto
<1>8. CASE LifecycleUnlock(t)
  BY <1>1, <1>8, OperationReturn DEF LifecycleUnlock
<1>9. QED
  BY <1>3, <1>4, <1>5, <1>6, <1>7, <1>8


------------------------------------------------------------------------------
(* The quiet steps of startAcquisition and acquisitionLoop *)

LEMMA AbandonArms ==
  ASSUME TypeInv, Control, Arms, Connection, NEW t \in Threads,
         StartLock(t) \/ StartRejected(t) \/ StartInvalid(t) \/ StartUnlock(t)
  PROVE  Arms'
<1>1. SameState /\ OwnLocals(t) /\ pc[t] \in {"start_lock", "start_prearm", "start_unlock"}
  BY DEF TypeInv, DataOK, StateFields, SameState, OwnLocals, StartLock, StartRejected, StartInvalid,
     StartUnlock
<1>2. pc[t] \in Foreign /\ pc[t] \notin Holding
  BY <1>1 DEF Foreign, ArmSteps, Holding
<1>3. t \notin Workers
  BY <1>2, NotForeign DEF Arms
<1>4. CASE StartLock(t)
  <2>1. pc[t] \in FreeSteps
    BY <1>4 DEF StartLock, FreeSteps
  <2>2. CASE Call(t, "stop_check", "start_check")
    <3>1. "start_check" \in Returns
      BY DEF Returns
    <3>2. QED
      BY <1>1, <1>3, <2>1, <2>2, <3>1, OperationCall
  <2>3. CASE Return(t)
    BY <1>1, <2>1, <2>3, OperationReturn
  <2>4. QED
    BY <1>4, <2>2, <2>3 DEF StartLock
<1>5. CASE StartRejected(t) \/ StartInvalid(t)
  <2>1. Goto(t, "start_unlock")
    BY <1>5 DEF StartRejected, StartInvalid
  <2>2. Bare("start_unlock") /\ "start_unlock" \notin FinishSteps
    BY DEF Bare, Claims, FinishSteps
  <2>3. QED
    BY <1>1, <1>2, <1>3, <2>1, <2>2, QuietGoto
<1>6. CASE StartUnlock(t)
  BY <1>1, <1>6, OperationReturn DEF StartUnlock
<1>7. QED
  BY <1>4, <1>5, <1>6

(* The steps between the release of the worker and its end. *)
Running ==
  {"loop", "take", "blocked", "receive", "sdk", "buffer", "diagnose", "after", "deliver",
   "delivered", "sdk_stop", "stopping", "failed", "finish_state"}

LEMMA LoopGoto ==
  ASSUME TypeInv, Control, Arms, NEW w \in Workers, NEW q, Goto(w, q), SameState, OwnLocals(w),
         \/ pc[w] \in Running /\ q \in Running
         \/ pc[w] \in {"setup", "configure"} /\ q \in {"configure", "report"}
         \/ pc[w] \in Ended /\ q \in Ended
  PROVE  Arms'
<1>1. w \in Threads /\ w \notin Clients
  BY WorkerIds, ClientNoWorker
<1>2. PhaseOf(q) = PhaseOf(pc[w]) /\ pc[w] \notin Holding /\ Bare(q) /\ q \notin Foreign
  BY DEF Running, PhaseOf, Ended, Holding, Bare, Claims, Foreign, ArmSteps, TearSteps
<1>3. QED
  BY <1>1, <1>2, QuietGoto

LEMMA SetupArms ==
  ASSUME TypeInv, Control, Arms, NEW w \in Workers,
         WorkerSetup(w) \/ WorkerConfigured(w) \/ WorkerConfigureFailed(w)
  PROVE  Arms'
<1>1. SameState /\ OwnLocals(w)
  BY DEF SameState, OwnLocals, WorkerSetup, WorkerConfigured, WorkerConfigureFailed
<1>2. QED
  BY <1>1, LoopGoto DEF WorkerSetup, WorkerConfigured, WorkerConfigureFailed

LEMMA LoopArms ==
  ASSUME TypeInv, Control, Arms, NEW w \in Workers,
         WorkerLoop(w) \/ WorkerTake(w) \/ WorkerReceive(w) \/ WorkerSdk(w) \/ WorkerFrame(w) \/
         WorkerBufferError(w)
  PROVE  Arms'
<1>1. SameState /\ OwnLocals(w)
  BY DEF SameState, OwnLocals, WorkerLoop, WorkerTake, WorkerReceive, WorkerSdk, WorkerFrame,
     WorkerBufferError
<1>2. PICK q \in Running : Goto(w, q) /\ pc[w] \in Running
  BY DEF WorkerLoop, WorkerTake, WorkerReceive, WorkerSdk, WorkerFrame, WorkerBufferError, Running
<1>3. QED
  BY <1>1, <1>2, LoopGoto

LEMMA LoopEndArms ==
  ASSUME TypeInv, Control, Arms, NEW w \in Workers,
         WorkerTimeout(w) \/ WorkerDiagnose(w) \/ WorkerAfter(w) \/ WorkerDelivered(w) \/
         WorkerStop(w) \/ WorkerStopped(w) \/ WorkerStopFailed(w) \/ WorkerReconnect(w)
  PROVE  Arms'
<1>1. SameState /\ OwnLocals(w)
  BY DEF TypeInv, DataOK, StateFields, SameState, OwnLocals, WorkerTimeout, WorkerDiagnose,
     WorkerAfter, WorkerDelivered, WorkerStop, WorkerStopped, WorkerStopFailed, WorkerReconnect
<1>2. PICK q \in Running : Goto(w, q) /\ pc[w] \in Running
  BY DEF WorkerTimeout, AfterTimeout, WorkerDiagnose, WorkerAfter, WorkerDelivered, WorkerStop,
     WorkerStopped, WorkerStopFailed, WorkerReconnect, Running
<1>3. QED
  BY <1>1, <1>2, LoopGoto

LEMMA DeliverArms ==
  ASSUME TypeInv, Control, Arms, NEW w \in Workers, WorkerDeliver(w)
  PROVE  Arms'
<1>1. SameState /\ OwnLocals(w) /\ Call(w, "callback", "delivered") /\ pc[w] = "deliver"
  BY DEF SameState, OwnLocals, WorkerDeliver
<1>2. w \in Threads /\ w \notin Clients
  BY WorkerIds, ClientNoWorker
<1>3. /\ PhaseOf("delivered") = PhaseOf("deliver") /\ "deliver" \notin Holding /\ Bare("callback")
      /\ "callback" \notin Foreign /\ "delivered" \notin Foreign /\ "delivered" \in Returns
  BY DEF PhaseOf, Ended, Holding, Bare, Claims, Foreign, ArmSteps, TearSteps, Returns
<1>4. QED
  BY <1>1, <1>2, <1>3, QuietCall

LEMMA WorkerTellArms ==
  ASSUME TypeInv, Control, Arms, NEW w \in Workers, FinishTrigger(w) \/ FinishTell(w)
  PROVE  Arms'
<1>1. SameState /\ OwnLocals(w) /\ pc[w] \in {"finish_trigger", "finish_tell"}
  BY DEF TypeInv, DataOK, SameState, OwnLocals, FinishTrigger, FinishTell
<1>2. w \in Threads /\ w \notin Clients
  BY WorkerIds, ClientNoWorker
<1>3. CASE Goto(w, "finish_tell") \/ Goto(w, "finish_end")
  BY <1>1, <1>3, LoopGoto DEF Ended
<1>4. CASE Call(w, "callback", "finish_end")
  <2>1. /\ PhaseOf("finish_end") = PhaseOf(pc[w]) /\ pc[w] \notin Holding /\ Bare("callback")
        /\ "callback" \notin Foreign /\ "finish_end" \notin Foreign /\ "finish_end" \in Returns
    BY <1>1 DEF PhaseOf, Ended, Holding, Bare, Claims, Foreign, ArmSteps, TearSteps, Returns
  <2>2. QED
    BY <1>1, <1>2, <1>4, <2>1, QuietCall
<1>5. QED
  BY <1>3, <1>4 DEF FinishTrigger, FinishTell


(* Steps from one stage to a kindred one. *)
LEMMA KinGoto ==
  ASSUME TypeInv, Control, Arms, NEW t \in Clients, NEW q,
         Goto(t, q) \/ (NotifyAndGoto(t, q) /\ stack' = stack), SameState, loc' = loc,
         pc[t] # "stop_unlock", q # "stop_unlock", q # "start_told",
         q \in {"start_tell", "start_release"} => pc[t] = "start_told",
         Kin(pc[t], q) \/ (pc[t] \notin Holding /\ q \notin Claims \cup FinishSteps)
  PROVE  Arms'
<1>0. t \in Threads /\ t \notin Workers
  BY ClientNoWorker DEF Threads
<1>1. pc'[t] = q /\ stack'[t] = stack[t] /\ Bystanders(t)
  BY <1>0, GotoForm, NotifyForm DEF TypeInv
<1>2. Apart'
  BY <1>0, <1>1, ApartGoto DEF Arms
<1>3. Others(t)
  BY <1>0, <1>1, OthersAlike DEF OwnLocals
<1>4. Stage(t) = pc[t] /\ Stage(t)' = q
  BY <1>1 DEF Stage
<1>5. Told(t)' => Told(t)
  BY <1>1, <1>4 DEF Told, Telling, Within
<1>6. Unclaimed(t) \/ (Kin(Stage(t), Stage(t)') /\ loc'[t] = loc[t])
  BY <1>4 DEF Unclaimed
<1>7. QED
  BY <1>0, <1>2, <1>3, <1>5, <1>6, QuietArms DEF Quiet

LEMMA TellArms ==
  ASSUME TypeInv, Control, Arms, NEW t \in Threads, StartTell(t)
  PROVE  Arms'
<1>1. /\ SameState /\ OwnLocals(t) /\ pc[t] = "start_tell" /\ Call(t, "callback", "start_told")
      /\ "start_told" \in Returns
  BY DEF TypeInv, DataOK, StateFields, SameState, OwnLocals, StartTell, Returns
<1>2. t \notin Workers
  BY <1>1, NotForeign DEF Arms, Foreign, ArmSteps
<1>3. pc'[t] = "callback" /\ stack'[t] = <<"start_told">> \o stack[t] /\ Bystanders(t)
  BY <1>1, CallForm DEF TypeInv
<1>4. Apart'
  BY <1>1, <1>2, <1>3, ApartCall DEF Arms
<1>5. Others(t)
  BY <1>1, <1>3, OthersAlike
<1>6. Told(t) /\ Unclaimed(t)
  BY <1>1, <1>3 DEF Told, Stage, Unclaimed, Holding, Claims, FinishSteps
<1>7. QED
  BY <1>1, <1>2, <1>4, <1>5, <1>6, QuietArms DEF Quiet

LEMMA KinArms ==
  ASSUME TypeInv, Control, Arms, NEW t \in Threads,
         StartCheck(t) \/ StartTold(t) \/ StopSignal(t)
  PROVE  Arms'
<1>1. SameState /\ loc' = loc
  BY DEF TypeInv, DataOK, StateFields, SameState, StartCheck, StartTold, StopSignal
<1>2. t \in Clients
  BY NotForeign, WorkerClient DEF Arms, Foreign, ArmSteps, TearSteps, StartCheck, StartTold, StopSignal
<1>3. CASE StartCheck(t)
  <2>1. PICK q \in {"start_unlock", "start_prearm"} : Goto(t, q) /\ pc[t] = "start_check"
    BY <1>3 DEF StartCheck
  <2>2. QED
    BY <1>1, <1>2, <2>1, KinGoto DEF Kin, Holding, Claims, FinishSteps
<1>4. CASE StartTold(t)
  <2>1. Goto(t, "start_release") /\ pc[t] = "start_told"
    BY <1>4 DEF StartTold
  <2>2. QED
    BY <1>1, <1>2, <2>1, KinGoto DEF Holding, Claims, FinishSteps
<1>5. CASE StopSignal(t)
  <2>1. NotifyAndGoto(t, "stop_join") /\ stack' = stack /\ pc[t] = "stop_signal"
    BY <1>5 DEF StopSignal
  <2>2. QED
    BY <1>1, <1>2, <2>1, KinGoto DEF Kin
<1>6. QED
  BY <1>3, <1>4, <1>5

LEMMA ClientTellArms ==
  ASSUME TypeInv, Control, Arms, NEW t \in Clients, FinishTrigger(t) \/ FinishTell(t)
  PROVE  Arms'
<1>1. t \in Threads /\ pc[t] \in {"finish_trigger", "finish_tell"} /\ Stage(t) = pc[t]
  BY DEF FinishTrigger, FinishTell, Threads, Stage
<1>2. ~loc[t].was
  BY <1>1 DEF Arms, TeardownOK
<1>3. SameState
  BY DEF SameState, FinishTrigger, FinishTell
<1>4. loc' = loc
  <2>1. loc \in [Threads -> LocalFields]
    BY DEF TypeInv, DataOK
  <2>2. [loc[t] EXCEPT !.was = FALSE] = loc[t]
    BY <1>1, <1>2, <2>1 DEF LocalFields
  <2>3. FinishTell(t) => loc' = [loc EXCEPT ![t] = [loc[t] EXCEPT !.was = FALSE]]
    BY DEF FinishTell
  <2>4. QED
    BY <1>1, <2>1, <2>2, <2>3 DEF FinishTrigger
<1>5. PICK q \in {"finish_tell", "finish_end"} : Goto(t, q) /\ Kin(pc[t], q)
  BY <1>2 DEF FinishTrigger, FinishTell, Kin
<1>6. QED
  BY <1>1, <1>3, <1>4, <1>5, KinGoto


------------------------------------------------------------------------------
(* The owner of the arm mutex *)

LEMMA StageCounted ==
  ASSUME TypeInv, NEW u \in Threads, NEW S, Count(u, S) = 0
  PROVE  /\ pc[u] \notin S
         /\ Stage(u) \in S => Stage(u) \in {"idle", "exited"}
         /\ "start_told" \in S => ~Telling(u)
<1>1. pc[u] \notin S /\ \A i \in DOMAIN stack[u] : stack[u][i] \notin S
  BY CountTyped DEF TypeInv
<1>2. stack[u] # <<>> => 1 \in DOMAIN stack[u] /\ Caller(u) = stack[u][1]
  BY DEF TypeInv, ControlOK, Caller
<1>3. stack[u] = <<>> => Caller(u) \in {"idle", "exited"}
  BY DEF Caller
<1>4. QED
  BY <1>1, <1>2, <1>3 DEF Stage, Telling, Within

LEMMA ArmAlone ==
  ASSUME TypeInv, Control, NEW t \in Threads, Count(t, ArmSteps) # 0
  PROVE  \A u \in Threads : u # t => Stage(u) \notin ArmSteps /\ ~Telling(u)
<1> SUFFICES ASSUME NEW u \in Threads, u # t PROVE Stage(u) \notin ArmSteps /\ ~Telling(u)
  OBVIOUS
<1>1. lock.arm = t
  BY DEF Control, LocksHeld, One
<1>2. Count(u, ArmSteps) = 0
  BY <1>1 DEF Control, LocksHeld, One
<1>3. QED
  BY <1>2, StageCounted DEF ArmSteps

(* At a step under the arm mutex the thread is not inside another. *)
LEMMA ArmOnce ==
  ASSUME TypeInv, Control, NEW t \in Threads, pc[t] \in ArmSteps
  PROVE  Count(t, ArmSteps) = 1 /\ \A i \in DOMAIN stack[t] : stack[t][i] \notin ArmSteps
<1>1. stack[t] \in Seq(Returns) /\ Count(t, ArmSteps) \in Nat /\ Frames(stack[t], ArmSteps) \in Nat
  BY CountTyped DEF TypeInv
<1>2. lock.arm = t /\ Count(t, ArmSteps) = 1
  BY OwnerAt DEF Control, LocksHeld, One
<1>3. Frames(stack[t], ArmSteps) = 0
  BY <1>1, <1>2 DEF Count, One
<1>4. QED
  BY <1>1, <1>2, <1>3, FramesNone

(* What a move of a thread leaves of the others. *)
LEMMA GotoOthers ==
  ASSUME TypeInv, NEW t \in Threads, NEW u \in Threads, u # t, pc'[u] = pc[u], stack'[u] = stack[u]
  PROVE  /\ Stage(u)' = Stage(u) /\ Telling(u)' = Telling(u)
         /\ u \in Workers => Phase(u)' = Phase(u)
<1>1. Caller(u)' = Caller(u) /\ At(u)' = At(u)
  BY DEF Caller, At
<1>2. QED
  BY <1>1 DEF Stage, Telling, Within, Phase

(* What a step of the owner of the arm mutex leaves as it is. *)
ArmMove(t, q) ==
  /\ t \in Clients /\ Apart'
  /\ Stage(t) = pc[t] /\ Stage(t)' = q /\ ~Telling(t) /\ ~Telling(t)'
  /\ \A u \in Threads : u # t =>
       /\ Stage(u)' = Stage(u) /\ loc'[u] = loc[u] /\ Stage(u) \notin ArmSteps
       /\ ~Telling(u) /\ ~Telling(u)'
  /\ \A w \in Workers : Phase(w)' = Phase(w)
  /\ NoTeardown' = NoTeardown
  /\ \A w \in Workers : (Installs(w) <=> InstallsBy(t, w)) /\ (Installs(w) <=> InstallsBy(t, w))'

LEMMA ArmFacts ==
  ASSUME TypeInv, Control, Arms, NEW t \in Threads, NEW q \in ArmSteps, Goto(t, q), OwnLocals(t),
         pc[t] \in ArmSteps, pc[t] # "start_told", q # "start_told"
  PROVE  ArmMove(t, q)
<1>1. pc'[t] = q /\ stack' = stack /\ \A u \in Threads : u # t => pc'[u] = pc[u]
  BY DEF Goto, TypeInv, ControlOK
<1>2. t \in Clients /\ t \notin Workers
  BY NotForeign, WorkerClient DEF Arms, Foreign
<1>3. Apart'
  <2>1. stack'[t] = stack[t] /\ Bystanders(t)
    BY <1>1 DEF Bystanders, Bystander
  <2>2. QED
    BY <1>1, <1>2, <2>1, ApartGoto DEF Arms
<1>4. Stage(t) = pc[t] /\ Stage(t)' = q
  BY <1>1 DEF Stage, ArmSteps
<1>5. ~Telling(t) /\ ~Telling(t)'
  <2>1. \A i \in DOMAIN stack[t] : stack[t][i] # "start_told"
    BY ArmOnce DEF ArmSteps
  <2>2. QED
    BY <1>1, <2>1 DEF Telling, Within
<1>6. ASSUME NEW u \in Threads, u # t
      PROVE  /\ Stage(u)' = Stage(u) /\ loc'[u] = loc[u] /\ Stage(u) \notin ArmSteps
             /\ ~Telling(u) /\ ~Telling(u)'
  <2>1. Stage(u)' = Stage(u) /\ Telling(u)' = Telling(u)
    BY <1>1, <1>6, GotoOthers
  <2>2. Stage(u) \notin ArmSteps /\ ~Telling(u)
    BY <1>6, ArmAlone, ArmOnce
  <2>3. QED
    BY <1>6, <2>1, <2>2 DEF OwnLocals
<1>7. ASSUME NEW w \in Workers PROVE Phase(w)' = Phase(w)
  BY <1>1, <1>2, GotoOthers, WorkerIds
<1>8. NoTeardown' = NoTeardown
  <2>1. Stage(t) \notin Joining \cup FinishSteps /\ Stage(t)' \notin Joining \cup FinishSteps
    BY <1>4 DEF ArmSteps, Joining, FinishSteps
  <2>2. \A u \in Clients : Stage(u)' \notin Joining \cup FinishSteps <=> Stage(u) \notin Joining \cup FinishSteps
    BY <1>6, <2>1 DEF Threads
  <2>3. QED
    BY <2>2 DEF NoTeardown
<1>9. ASSUME NEW w \in Workers
      PROVE  (Installs(w) <=> InstallsBy(t, w)) /\ (Installs(w) <=> InstallsBy(t, w))'
  <2>1. \A a \in Threads : a # t => ~InstallsBy(a, w) /\ ~InstallsBy(a, w)'
    BY <1>6 DEF InstallsBy, ArmSteps
  <2>2. QED
    BY <2>1 DEF Installs
<1>10. QED
  BY <1>2, <1>3, <1>4, <1>5, <1>6, <1>7, <1>8, <1>9 DEF ArmMove


LEMMA ArmTeardown ==
  ASSUME TypeInv, Arms, NEW t \in Threads, NEW q \in ArmSteps, ArmMove(t, q), pc[t] \in ArmSteps,
         NoTeardown \/ (st'.installing = st.installing /\ st'.thread = st.thread),
         st'.installing =>
           st.installing \/ \A u \in Threads : Stage(u) \notin {"close_take", "close_release"}
  PROVE  TeardownOK'
<1>1. \A u \in Clients : u \in Threads
  BY DEF Threads
<1>2. Stage(t)' = q /\ q \notin Joining \cup FinishSteps \cup {"close_take", "close_release"}
  BY DEF ArmMove, ArmSteps, Joining, FinishSteps
<1>3. ASSUME NEW u \in Clients, Stage(u)' \in Joining \cup FinishSteps
      PROVE  Stage(u)' = Stage(u) /\ loc'[u] = loc[u]
  BY <1>1, <1>2, <1>3 DEF ArmMove
<1>4. \A w \in Workers : Phase(w)' = Phase(w) /\ (Live(w) <=> Live(w)')
  BY DEF ArmMove, Live
<1>5. NoneLive <=> NoneLive'
  BY <1>4 DEF NoneLive
<1>6. \A u \in Clients : Stage(u)' \in Joining \cup FinishSteps => ~st'.installing /\ st'.thread = NoThread
  BY <1>3 DEF Arms, TeardownOK, NoTeardown
<1>7. \A u \in Clients : Stage(u)' \in Joining => \A w \in Workers : Live(w)' => loc'[u].joinee = w
  BY <1>3, <1>4 DEF Arms, TeardownOK
<1>8. \A u \in Clients : Stage(u)' \in FinishSteps => NoneLive'
  BY <1>3, <1>5 DEF Arms, TeardownOK
<1>9. \A u \in Clients : Stage(u)' \in {"finish_trigger", "finish_tell"} => ~loc'[u].was
  BY <1>3 DEF Arms, TeardownOK, FinishSteps
<1>10. ASSUME NEW u \in Threads, Stage(u)' \in {"close_take", "close_release"}
       PROVE  ~st'.installing /\ \A w \in Workers : Phase(w)' \in {"none", "exited", "quit"}
  <2>1. Stage(u)' = Stage(u)
    BY <1>2, <1>10 DEF ArmMove
  <2>2. QED
    BY <1>4, <1>10, <2>1 DEF Arms, TeardownOK
<1>11. QED
  BY <1>6, <1>7, <1>8, <1>9, <1>10 DEF TeardownOK

LEMMA ArmUnclaimed ==
  ASSUME NEW t \in Threads, NEW q, ArmMove(t, q),
         q \notin {"start_check", "start_prearm", "start_reset", "start_spawn"}
  PROVE  ClaimOK'
BY DEF ArmMove, ClaimOK, ArmSteps

LEMMA ArmUninstalled ==
  ASSUME NEW t \in Threads, NEW q, ArmMove(t, q), q \in {"start_reset", "start_spawn", "start_unlock"}
  PROVE  InstallOK'
BY DEF ArmMove, InstallOK, ArmSteps

(* No worker lives, and the claim of the arm only moves on. *)
LEMMA NoneLiveOK ==
  ASSUME TypeInv, Arms, NEW t \in Threads, NEW q, ArmMove(t, q), NoneLive,
         st'.workerId = st.workerId, ~st'.acquiring
  PROVE  WorkersOK' /\ AcquiringOK' /\ NoneLive'
<1>1. \A w \in Workers : Phase(w)' \in {"none", "exited"} /\ Phase(w)' = Phase(w)
  BY DEF ArmMove, NoneLive, Live
<1>2. \A w \in Workers : ~Live(w)'
  BY <1>1 DEF Live
<1>3. WorkersOK'
  BY <1>1, <1>2 DEF Arms, WorkersOK
<1>4. AcquiringOK'
  BY <1>1 DEF AcquiringOK
<1>5. QED
  BY <1>2, <1>3, <1>4 DEF NoneLive

LEMMA PrearmArms ==
  ASSUME TypeInv, Control, Arms, Connection, NEW t \in Threads, StartPrearm(t)
  PROVE  Arms'
<1>1. /\ Goto(t, "start_reset") /\ pc[t] = "start_prearm" /\ OwnLocals(t) /\ StartAdmitted
      /\ st'.installing /\ ~st'.acquiring /\ st'.thread = st.thread /\ st'.workerId = st.workerId
      /\ st'.device = st.device
  BY DEF StartPrearm, OwnLocals, TypeInv, DataOK, StateFields
<1>2. ArmMove(t, "start_reset") /\ "start_reset" \in ArmSteps /\ pc[t] \in ArmSteps
  BY <1>1, ArmFacts DEF ArmSteps
<1>3. NoneLive /\ st.thread = NoThread /\ ~st.installing /\ NoTeardown
  BY <1>1, <1>2 DEF ArmMove, Arms, ClaimOK
<1>4. WorkersOK' /\ AcquiringOK' /\ NoneLive'
  BY <1>1, <1>2, <1>3, NoneLiveOK
<1>5. ASSUME NEW u \in Threads PROVE Stage(u) \notin {"close_take", "close_release"}
  <2>1. Stage(u) \in {"close_take", "close_release"} => Resume(u) = Stage(u)
    BY DEF Stage, Resume, TearSteps, RequestSteps, FinishSteps
  <2>2. ~st.closing
    BY <1>1 DEF StartAdmitted
  <2>3. QED
    BY <2>1, <2>2 DEF Connection, Linked, Closers
<1>6. TeardownOK'
  BY <1>2, <1>3, <1>5, ArmTeardown
<1>7. ClaimOK'
  BY <1>1, <1>2, <1>3, <1>4 DEF ArmMove, ClaimOK, ArmSteps, StartAdmitted
<1>8. QED
  BY <1>2, <1>4, <1>6, <1>7, ArmUninstalled DEF Arms, ArmMove

LEMMA ResetArms ==
  ASSUME TypeInv, Control, Arms, NEW t \in Threads, StartReset(t)
  PROVE  Arms'
<1>1. /\ Goto(t, "start_spawn") /\ pc[t] = "start_reset" /\ OwnLocals(t) /\ st' = st
      /\ ~hs'.completed /\ ~hs'.released
  BY DEF StartReset, OwnLocals
<1>2. ArmMove(t, "start_spawn") /\ "start_spawn" \in ArmSteps /\ pc[t] \in ArmSteps
  BY <1>1, ArmFacts DEF ArmSteps
<1>3. NoneLive /\ st.thread = NoThread /\ st.installing /\ NoTeardown /\ st.device
  BY <1>1, <1>2 DEF ArmMove, Arms, ClaimOK
<1>4. WorkersOK' /\ AcquiringOK' /\ NoneLive'
  BY <1>1, <1>2, <1>3, NoneLiveOK DEF Arms, AcquiringOK
<1>5. TeardownOK'
  BY <1>1, <1>2, ArmTeardown
<1>6. ClaimOK'
  BY <1>1, <1>2, <1>3, <1>4 DEF ArmMove, ClaimOK, ArmSteps
<1>7. QED
  BY <1>2, <1>4, <1>5, <1>6, ArmUninstalled DEF Arms, ArmMove

LEMMA SpawnFailedArms ==
  ASSUME TypeInv, Control, Arms, NEW t \in Threads, StartSpawnFailed(t)
  PROVE  Arms'
<1>1. /\ Goto(t, "start_unlock") /\ pc[t] = "start_spawn" /\ OwnLocals(t)
      /\ ~st'.installing /\ ~st'.acquiring /\ st'.workerId = st.workerId
  BY DEF StartSpawnFailed, OwnLocals, TypeInv, DataOK, StateFields
<1>2. ArmMove(t, "start_unlock") /\ "start_unlock" \in ArmSteps /\ pc[t] \in ArmSteps
  BY <1>1, ArmFacts DEF ArmSteps
<1>3. NoneLive /\ NoTeardown
  BY <1>1, <1>2 DEF ArmMove, Arms, ClaimOK
<1>4. WorkersOK' /\ AcquiringOK'
  BY <1>1, <1>2, <1>3, NoneLiveOK
<1>5. TeardownOK'
  BY <1>1, <1>2, <1>3, ArmTeardown
<1>6. QED
  BY <1>2, <1>4, <1>5, ArmUnclaimed, ArmUninstalled DEF Arms, ArmMove


(* While an arm is being installed no worker receives frames or ends. *)
LEMMA InstallingPhases ==
  ASSUME Arms, st.installing, ~st.acquiring
  PROVE  \A w \in Workers :
           /\ Phase(w) \notin {"running", "ended"}
           /\ Phase(w) \in {"enter", "setup", "quit", "hold"} => Installs(w)
BY DEF Arms, WorkersOK, AcquiringOK

(* The arm keeps its workers while it moves on. *)
LEMMA InstallMoves ==
  ASSUME TypeInv, Arms, NEW t \in Threads, NEW q, ArmMove(t, q), st.installing, ~st.acquiring,
         st'.workerId = st.workerId, st.device => st'.device, ~st'.acquiring,
         \A w \in Workers : InstallsBy(t, w) => InstallsBy(t, w)'
  PROVE  WorkersOK' /\ AcquiringOK'
<1>1. \A w \in Workers : /\ Phase(w)' = Phase(w) /\ Phase(w) \notin {"running", "ended"}
                         /\ Phase(w) \in {"enter", "setup", "quit", "hold"} => Installs(w)
  BY InstallingPhases DEF ArmMove
<1>2. \A w \in Workers : Installs(w) => Installs(w)'
  BY DEF ArmMove
<1>3. \A w \in Workers : Live(w)' <=> Live(w)
  BY <1>1 DEF Live
<1>4. WorkersOK'
  BY <1>1, <1>2, <1>3 DEF Arms, WorkersOK
<1>5. AcquiringOK'
  BY <1>1 DEF AcquiringOK
<1>6. QED
  BY <1>4, <1>5

LEMMA PublishArms ==
  ASSUME TypeInv, Control, Arms, NEW t \in Threads, StartPublish(t)
  PROVE  Arms'
<1>1. PICK w \in Workers : w = loc[t].id
  <2>1. loc[t].id \in Workers
    BY DEF TypeInv, ArmIdentified, Arming, StartPublish
  <2>2. QED
    BY <2>1
<1>2. /\ Goto(t, "start_await") /\ pc[t] = "start_publish" /\ OwnLocals(t) /\ loc' = loc /\ hs' = hs
      /\ st'.thread = w /\ st'.workerId = st.workerId /\ st'.device = st.device
      /\ st'.installing = st.installing /\ st'.acquiring = st.acquiring
  BY <1>1 DEF StartPublish, OwnLocals, TypeInv, DataOK, StateFields
<1>3. ArmMove(t, "start_await") /\ "start_await" \in ArmSteps /\ pc[t] \in ArmSteps
  BY <1>2, ArmFacts DEF ArmSteps
<1>4. st.installing /\ ~st.acquiring /\ NoTeardown /\ ~hs.released /\ Answered(w)
  BY <1>1, <1>2, <1>3 DEF ArmMove, Arms, InstallOK
<1>5. WorkersOK' /\ AcquiringOK'
  <2>1. \A v \in Workers : InstallsBy(t, v) => InstallsBy(t, v)'
    BY <1>2, <1>3 DEF ArmMove, InstallsBy
  <2>2. QED
    BY <1>2, <1>3, <1>4, <2>1, InstallMoves
<1>6. TeardownOK'
  BY <1>2, <1>3, <1>4, ArmTeardown
<1>7. Answered(w)'
  BY <1>1, <1>2, <1>3, <1>4 DEF ArmMove, Answered
<1>8. InstallOK'
  BY <1>1, <1>2, <1>3, <1>4, <1>7 DEF ArmMove, InstallOK, ArmSteps
<1>9. QED
  BY <1>3, <1>5, <1>6, <1>8, ArmUnclaimed DEF Arms, ArmMove

LEMMA AwaitArms ==
  ASSUME TypeInv, Control, Arms, NEW t \in Threads, StartAwait(t)
  PROVE  Arms'
<1>1. PICK w \in Workers : w = loc[t].id
  <2>1. loc[t].id \in Workers
    BY DEF TypeInv, ArmIdentified, Arming, StartAwait
  <2>2. QED
    BY <2>1
<1>2. PICK q \in {"start_commit", "start_fail"} :
        /\ Goto(t, q) /\ pc[t] = "start_await" /\ OwnLocals(t) /\ loc' = loc /\ hs' = hs /\ st' = st
        /\ hs.completed /\ (q = "start_commit" <=> hs.succeeded)
  BY DEF StartAwait, OwnLocals
<1>3. ArmMove(t, q) /\ q \in ArmSteps /\ pc[t] \in ArmSteps
  BY <1>2, ArmFacts DEF ArmSteps
<1>4. /\ st.installing /\ ~st.acquiring /\ NoTeardown /\ ~hs.released /\ Answered(w)
      /\ st.thread = w
  BY <1>1, <1>2, <1>3 DEF ArmMove, Arms, InstallOK
<1>5. WorkersOK' /\ AcquiringOK'
  <2>1. \A v \in Workers : InstallsBy(t, v) => InstallsBy(t, v)'
    BY <1>1, <1>2, <1>3, <1>4 DEF ArmMove, InstallsBy
  <2>2. QED
    BY <1>2, <1>3, <1>4, <2>1, InstallMoves
<1>6. TeardownOK'
  BY <1>2, <1>3, <1>4, ArmTeardown
<1>7. Phase(w)' = Phase(w) /\ Phase(w) \in {"hold", "quit", "exited"}
      /\ (q = "start_commit" <=> Phase(w) = "hold")
  BY <1>1, <1>2, <1>3, <1>4 DEF ArmMove, Answered
<1>8. InstallOK'
  BY <1>1, <1>2, <1>3, <1>4, <1>7 DEF ArmMove, InstallOK, ArmSteps
<1>9. QED
  BY <1>3, <1>5, <1>6, <1>8, ArmUnclaimed DEF Arms, ArmMove

LEMMA FailArms ==
  ASSUME TypeInv, Control, Arms, NEW t \in Threads, StartFail(t)
  PROVE  Arms'
<1>1. /\ Goto(t, "start_join") /\ pc[t] = "start_fail" /\ OwnLocals(t) /\ loc'[t].joinee = st.thread
      /\ st'.thread = NoThread /\ st'.workerId = st.workerId /\ st'.device = st.device
      /\ ~st'.installing /\ ~st'.acquiring
  BY DEF StartFail, OwnLocals, TypeInv, DataOK, StateFields, LocalFields
<1>2. ArmMove(t, "start_join") /\ "start_join" \in ArmSteps /\ pc[t] \in ArmSteps
  BY <1>1, ArmFacts DEF ArmSteps
<1>3. /\ st.installing /\ ~st.acquiring /\ NoTeardown
      /\ st.thread \in Workers /\ Phase(st.thread) \in {"quit", "exited"}
  BY <1>1, <1>2 DEF ArmMove, Arms, InstallOK
<1>4. PICK w \in Workers : w = st.thread
  BY <1>3
<1>5. WorkersOK' /\ AcquiringOK'
  <2>1. \A v \in Workers : InstallsBy(t, v) => InstallsBy(t, v)'
    BY <1>1, <1>2 DEF ArmMove, InstallsBy
  <2>2. QED
    BY <1>1, <1>2, <1>3, <2>1, InstallMoves
<1>6. TeardownOK'
  BY <1>1, <1>2, <1>3, ArmTeardown
<1>7. loc'[t].joinee = w /\ Phase(w)' \in {"quit", "exited"}
  BY <1>1, <1>2, <1>3, <1>4 DEF ArmMove
<1>8. InstallOK'
  BY <1>1, <1>2, <1>3, <1>7 DEF ArmMove, InstallOK, ArmSteps
<1>9. QED
  BY <1>2, <1>5, <1>6, <1>8, ArmUnclaimed DEF Arms, ArmMove

(* A joined worker has ended. *)
LEMMA JoinedPhase ==
  ASSUME TypeInv, Control, Arms, NEW t \in Threads, Joinable(t), loc[t].joinee \in Workers
  PROVE  Phase(loc[t].joinee) = "exited"
<1>1. loc[t].joinee # NoThread
  BY WorkerIds, ThreadsAssumption
<1>2. pc[loc[t].joinee] = "exited" /\ "exited" \in WorkerBase
  BY <1>1 DEF Joinable, WorkerBase, WorkerSteps
<1>3. At(loc[t].joinee) = "exited"
  BY <1>2, AtBase DEF Arms
<1>4. QED
  BY <1>3 DEF Phase, PhaseOf

LEMMA JoinArms ==
  ASSUME TypeInv, Control, Arms, NEW t \in Threads, StartJoin(t)
  PROVE  Arms'
<1>1. Goto(t, "start_unlock") /\ pc[t] = "start_join" /\ OwnLocals(t) /\ st' = st /\ Joinable(t)
  BY DEF StartJoin, OwnLocals, TypeInv, DataOK
<1>2. ArmMove(t, "start_unlock") /\ "start_unlock" \in ArmSteps /\ pc[t] \in ArmSteps
  BY <1>1, ArmFacts DEF ArmSteps
<1>3. ~st.acquiring /\ loc[t].joinee \in Workers
  BY <1>1, <1>2 DEF ArmMove, Arms, InstallOK
<1>4. Phase(loc[t].joinee) = "exited"
  BY <1>1, <1>3, JoinedPhase
<1>5. ASSUME NEW w \in Workers PROVE Phase(w)' = Phase(w) /\ Phase(w) \notin {"enter", "setup", "quit", "hold", "running"}
  <2>1. Installs(w) => loc[t].joinee = w
    BY <1>1, <1>2 DEF ArmMove, InstallsBy
  <2>2. QED
    BY <1>2, <1>3, <1>4, <2>1 DEF ArmMove, Arms, WorkersOK, AcquiringOK
<1>6. WorkersOK'
  BY <1>1, <1>5 DEF Arms, WorkersOK, Live
<1>7. AcquiringOK'
  <2>1. ASSUME NEW w \in Workers, Joinee(w) PROVE Joinee(w)'
    <3>1. \A u \in Clients : u \in Threads /\ (Stage(u) \in Joining => u # t)
      BY <1>1, <1>2 DEF ArmMove, Joining, Threads
    <3>2. QED
      BY <1>1, <1>2, <2>1, <3>1 DEF Joinee, ArmMove
  <2>2. QED
    BY <1>1, <1>3, <1>5, <2>1 DEF Arms, AcquiringOK
<1>8. TeardownOK'
  BY <1>1, <1>2, ArmTeardown
<1>9. QED
  BY <1>2, <1>6, <1>7, <1>8, ArmUnclaimed, ArmUninstalled DEF Arms, ArmMove


LEMMA CommitArms ==
  ASSUME TypeInv, Control, Arms, NEW t \in Threads, StartCommit(t)
  PROVE  Arms'
<1>1. PICK w \in Workers : w = loc[t].id
  <2>1. loc[t].id \in Workers
    BY DEF TypeInv, ArmIdentified, Arming, StartCommit
  <2>2. QED
    BY <2>1
<1>2. /\ Goto(t, "start_tell") /\ pc[t] = "start_commit" /\ OwnLocals(t) /\ hs' = hs
      /\ st'.thread = st.thread /\ st'.workerId = st.workerId /\ st'.device = st.device
      /\ ~st'.installing /\ st'.acquiring /\ st'.activeId = w
  BY <1>1 DEF StartCommit, OwnLocals, TypeInv, DataOK, StateFields
<1>3. ArmMove(t, "start_tell") /\ "start_tell" \in ArmSteps /\ pc[t] \in ArmSteps
  BY <1>2, ArmFacts DEF ArmSteps
<1>4. /\ st.installing /\ ~st.acquiring /\ NoTeardown /\ ~hs.released
      /\ st.thread = w /\ Phase(w) = "hold"
  BY <1>1, <1>2, <1>3 DEF ArmMove, Arms, InstallOK
<1>5. ASSUME NEW v \in Workers
      PROVE  /\ Phase(v)' = Phase(v)
             /\ Phase(v) \in {"none", "exited", "hold"} /\ (Phase(v) = "hold" => v = w)
  <2>1. Installs(v) => v = w
    BY <1>1, <1>2, <1>3 DEF ArmMove, InstallsBy
  <2>2. Phase(v) \notin {"running", "ended"} /\ (Phase(v) \in {"enter", "setup", "quit", "hold"} => v = w)
    BY <1>4, <2>1, InstallingPhases
  <2>3. Phase(v) \in {"none", "enter", "setup", "quit", "hold", "running", "ended", "exited"}
    BY DEF Phase, PhaseOf
  <2>4. QED
    BY <1>3, <1>4, <2>2, <2>3 DEF ArmMove
<1>6. WorkersOK'
  BY <1>2, <1>5 DEF Arms, WorkersOK, Live
<1>7. AcquiringOK'
  <2>1. Joinee(w)'
    BY <1>2, <1>4 DEF Joinee
  <2>2. QED
    BY <1>2, <1>4, <1>5, <2>1 DEF AcquiringOK
<1>8. TeardownOK'
  BY <1>2, <1>3, <1>4, ArmTeardown
<1>9. InstallOK'
  <2>1. Phase(w)' = "hold"
    BY <1>4, <1>5
  <2>2. QED
    BY <1>2, <1>3, <1>4, <2>1 DEF ArmMove, InstallOK, ArmSteps
<1>10. QED
  BY <1>3, <1>6, <1>7, <1>8, <1>9, ArmUnclaimed DEF Arms, ArmMove

LEMMA ReleaseArms ==
  ASSUME TypeInv, Control, Arms, NEW t \in Threads, StartRelease(t)
  PROVE  Arms'
<1>1. Goto(t, "start_unlock") /\ pc[t] = "start_release" /\ OwnLocals(t) /\ st' = st
  BY DEF StartRelease, OwnLocals
<1>2. ArmMove(t, "start_unlock") /\ "start_unlock" \in ArmSteps /\ pc[t] \in ArmSteps
  BY <1>1, ArmFacts DEF ArmSteps
<1>3. ASSUME NEW w \in Workers PROVE Phase(w)' = Phase(w) /\ ~Installs(w)
  BY <1>1, <1>2 DEF ArmMove, InstallsBy
<1>4. WorkersOK'
  BY <1>1, <1>3 DEF Arms, WorkersOK, Live
<1>5. AcquiringOK'
  <2>1. ASSUME NEW w \in Workers, Joinee(w) PROVE Joinee(w)'
    <3>1. \A u \in Clients : u \in Threads /\ (Stage(u) \in Joining => u # t)
      BY <1>1, <1>2 DEF ArmMove, Joining, Threads
    <3>2. QED
      BY <1>1, <1>2, <2>1, <3>1 DEF Joinee, ArmMove
  <2>2. QED
    BY <1>1, <1>3, <2>1 DEF Arms, AcquiringOK
<1>6. TeardownOK'
  BY <1>1, <1>2, ArmTeardown
<1>7. QED
  BY <1>2, <1>4, <1>5, <1>6, ArmUnclaimed, ArmUninstalled DEF Arms, ArmMove

(* The new worker is the only one, and the arm waits for it. *)
LEMMA SpawnArms ==
  ASSUME TypeInv, Control, Arms, NEW t \in Threads, StartSpawn(t)
  PROVE  Arms'
<1>1. PICK w \in Workers : w = loc[t].id /\ w \in Threads /\ pc[t] = "start_spawn"
  <2>1. loc[t].id \in Workers /\ pc[t] = "start_spawn"
    BY DEF TypeInv, ArmIdentified, Arming, StartSpawn
  <2>2. QED
    BY <2>1, WorkerIds
<1>2. t \in Clients /\ t \notin Workers /\ w \notin Clients
  BY <1>1, NotForeign, WorkerClient, ClientNoWorker DEF Arms, Foreign, ArmSteps
<1>3. /\ pc' = [pc EXCEPT ![t] = "start_publish", ![w] = "enter"] /\ stack' = stack
      /\ loc' = loc /\ st' = st /\ hs' = hs
  BY <1>1 DEF StartSpawn
<1>4. /\ pc'[t] = "start_publish" /\ pc'[w] = "enter"
      /\ \A u \in Threads : u # t /\ u # w => pc'[u] = pc[u]
  BY <1>1, <1>2, <1>3 DEF TypeInv, ControlOK
<1>5. pc[w] = "none" /\ stack[w] = <<>> /\ Phase(w) = "none" /\ Phase(w)' = "enter"
  <2>1. pc[w] = "none"
    BY <1>1 DEF Control, NewWorkers
  <2>2. stack[w] = <<>> /\ At(w) = "none"
    BY <2>1, AtBase DEF Arms, WorkerBase, WorkerSteps
  <2>3. At(w)' = "enter"
    BY <1>3, <1>4, <2>2 DEF At
  <2>4. QED
    BY <2>1, <2>2, <2>3 DEF Phase, PhaseOf
<1>6. /\ NoneLive /\ st.thread = NoThread /\ st.installing /\ NoTeardown /\ st.device
      /\ ~hs.completed /\ ~hs.released /\ ~st.acquiring
  BY <1>1 DEF Stage, Arms, ClaimOK, AcquiringOK
<1>7. \A v \in Workers : v # w => Phase(v)' = Phase(v) /\ Phase(v) \in {"none", "exited"}
  <2>1. ASSUME NEW v \in Workers, v # w PROVE Phase(v)' = Phase(v)
    BY <1>2, <1>3, <1>4, <2>1, GotoOthers, WorkerIds
  <2>2. QED
    BY <1>6, <2>1 DEF NoneLive, Live
<1>8. Stage(t)' = "start_publish" /\ Stage(w) = "none" /\ Stage(w)' = "enter" /\ ~Telling(t)' /\ ~Telling(w)'
  <2>1. \A i \in DOMAIN stack[t] : stack[t][i] # "start_told"
    BY <1>1, ArmOnce DEF ArmSteps
  <2>2. QED
    BY <1>3, <1>4, <1>5, <2>1 DEF Stage, Telling, Within
<1>9. \A u \in Threads : u # t =>
        /\ Stage(u)' = (IF u = w THEN "enter" ELSE Stage(u)) /\ Stage(u) \notin ArmSteps /\ ~Telling(u)'
  <2>1. Count(t, ArmSteps) # 0
    BY <1>1, ArmOnce DEF ArmSteps
  <2>2. QED
    BY <1>3, <1>4, <1>8, <2>1, ArmAlone, GotoOthers
<1>10. NoTeardown'
  BY <1>2, <1>6, <1>8, <1>9 DEF NoTeardown, Joining, FinishSteps, Threads
<1>11. Installs(w)'
  BY <1>1, <1>3, <1>8 DEF Installs, InstallsBy
<1>12. Apart'
  <2>1. Count(w, Foreign)' = 0
    BY <1>3, <1>4, <1>5, FramesEmpty DEF Count, One, Foreign, ArmSteps, TearSteps
  <2>2. \A v \in Workers : v # w => Count(v, Foreign)' = Count(v, Foreign)
    BY <1>2, <1>3, <1>4, WorkerIds DEF Count
  <2>3. QED
    BY <1>3, <2>1, <2>2 DEF Arms, Apart
<1>13. WorkersOK'
  BY <1>3, <1>5, <1>6, <1>7, <1>11 DEF Arms, WorkersOK, Live
<1>14. AcquiringOK'
  BY <1>3, <1>5, <1>6, <1>7 DEF AcquiringOK
<1>15. ClaimOK'
  BY <1>8, <1>9 DEF ClaimOK, ArmSteps
<1>16. InstallOK'
  <2>1. Answered(w)'
    BY <1>3, <1>5, <1>6 DEF Answered
  <2>2. QED
    BY <1>1, <1>3, <1>6, <1>8, <1>9, <1>10, <2>1 DEF InstallOK, ArmSteps
<1>17. TeardownOK'
  <2>1. ASSUME NEW u \in Threads, Stage(u)' \in {"close_take", "close_release"} PROVE FALSE
    <3>1. Stage(u) \in {"close_take", "close_release"}
      BY <1>8, <1>9, <2>1
    <3>2. QED
      BY <1>6, <3>1 DEF Arms, TeardownOK
  <2>2. QED
    BY <1>10, <2>1 DEF TeardownOK, NoTeardown, FinishSteps
<1>18. QED
  BY <1>12, <1>13, <1>14, <1>15, <1>16, <1>17 DEF Arms


------------------------------------------------------------------------------
(* The owner of the stop mutex *)

StopStages == {"stop_wait"} \cup Joining \cup FinishSteps

LEMMA ClientFinish ==
  ASSUME TypeInv, Control, NEW t \in Clients, pc[t] \in FinishSteps
  PROVE  stack[t] # <<>> /\ Caller(t) = "stop_unlock" /\ 1 \in DOMAIN stack[t] /\ stack[t][1] = "stop_unlock"
<1>1. t \in Threads /\ t \notin Workers
  BY ClientNoWorker DEF Threads
<1>2. pc[t] \notin Base(t)
  BY <1>1 DEF Base, ClientBase
<1>3. stack[t] # <<>> /\ Caller(t) \in Returns /\ pc[t] \in Body(Caller(t))
  BY <1>1, <1>2, CallerRuns
<1>4. Caller(t) = "stop_unlock"
  BY <1>3, Callees
<1>5. stack[t] \in Seq(Returns)
  BY <1>1 DEF TypeInv, ControlOK
<1>6. 1 \in DOMAIN stack[t] /\ Caller(t) = stack[t][1]
  BY <1>3, <1>5 DEF Caller
<1>7. QED
  BY <1>3, <1>4, <1>6

LEMMA StopOwner ==
  ASSUME TypeInv, Control, NEW t \in Clients, Stage(t) \in StopStages
  PROVE  lock.stop = t
<1>1. t \in Threads /\ pc[t] = Stage(t)
  BY StageOf DEF Threads, StopStages, Joining, FinishSteps
<1>2. Count(t, TearSteps) # 0
  <2>1. CASE pc[t] \in FinishSteps
    BY <1>1, <2>1, ClientFinish, CountTyped DEF TypeInv, TearSteps
  <2>2. CASE pc[t] \notin FinishSteps
    BY <1>1, <2>2, CountTyped DEF TypeInv, TearSteps, StopStages, Joining
  <2>3. QED
    BY <2>1, <2>2
<1>3. QED
  BY <1>1, <1>2 DEF Control, LocksHeld, One

LEMMA StopAlone ==
  ASSUME TypeInv, Control, NEW t \in Clients, Stage(t) \in StopStages
  PROVE  \A u \in Clients : u # t => Stage(u) \notin StopStages
BY StopOwner

Unmoved(t) == \A u \in Threads : u # t => pc'[u] = pc[u] /\ stack'[u] = stack[u]

(* What a step of the owner of the stop mutex leaves as it is. *)
StopMove(t) ==
  /\ Stage(t) = pc[t]
  /\ Telling(t)' => Telling(t)
  /\ \A u \in Threads : u # t =>
       Stage(u)' = Stage(u) /\ loc'[u] = loc[u] /\ (Telling(u)' <=> Telling(u))
  /\ \A u \in Clients : u # t => Stage(u) \notin StopStages /\ Stage(u)' \notin StopStages
  /\ \A w \in Workers : Phase(w)' = Phase(w)

LEMMA StopFacts ==
  ASSUME TypeInv, Control, NEW t \in Clients, pc[t] \in StopStages, Unmoved(t), OwnLocals(t),
         Telling(t)' => Telling(t)
  PROVE  StopMove(t)
<1>1. t \in Threads /\ t \notin Workers
  BY ClientNoWorker DEF Threads
<1>2. Stage(t) = pc[t]
  BY <1>1, StageOf DEF StopStages, Joining, FinishSteps
<1>3. ASSUME NEW u \in Threads, u # t
      PROVE  Stage(u)' = Stage(u) /\ loc'[u] = loc[u] /\ (Telling(u)' <=> Telling(u))
  BY <1>1, <1>3, GotoOthers DEF Unmoved, OwnLocals
<1>4. \A u \in Clients : u # t => Stage(u) \notin StopStages /\ Stage(u)' \notin StopStages
  BY <1>2, <1>3, StopAlone DEF Threads
<1>5. ASSUME NEW w \in Workers PROVE Phase(w)' = Phase(w)
  BY <1>1, GotoOthers, WorkerIds DEF Unmoved
<1>6. QED
  BY <1>2, <1>3, <1>4, <1>5 DEF StopMove

(* After the stop the thread is nowhere the invariant speaks of, or about to *)
(* arm or to release the device.                                             *)
LEMMA AfterStop ==
  ASSUME TypeInv, Control, Arms, NEW t \in Clients, StopMove(t), SameState, Apart',
         Stage(t) \in {"stop_wait"} \cup FinishSteps,
         Stage(t)' \in {"close_take", "start_check", "callback_return", "idle", "exited"},
         Stage(t)' = "start_check" => NoneLive /\ st.thread = NoThread /\ ~st.installing,
         Stage(t)' = "close_take" =>
           ~st.installing /\ \A w \in Workers : Phase(w) \in {"none", "exited", "quit"}
  PROVE  Arms'
<1>1. \A w \in Workers : Phase(w)' = Phase(w) /\ (Live(w)' <=> Live(w))
  BY DEF StopMove, Live
<1>2. t \in Threads /\ \A u \in Clients : u \in Threads
  BY DEF Threads
<1>3. NoTeardown'
  BY <1>2 DEF StopMove, NoTeardown, StopStages, Joining, FinishSteps
<1>4. NoneLive' <=> NoneLive
  BY <1>1 DEF NoneLive
<1>5. ASSUME NEW w \in Workers, Installs(w) PROVE Installs(w)'
  <2>1. PICK a \in Threads : InstallsBy(a, w)
    BY <1>5 DEF Installs
  <2>2. a # t
    BY <2>1 DEF InstallsBy, FinishSteps
  <2>3. InstallsBy(a, w)'
    BY <2>1, <2>2 DEF StopMove, InstallsBy, SameState
  <2>4. QED
    BY <2>3 DEF Installs
<1>6. ASSUME NEW w \in Workers, Joinee(w) PROVE Joinee(w)'
  BY <1>2, <1>6 DEF Joinee, StopMove, StopStages, Joining, FinishSteps, SameState
<1>7. WorkersOK'
  BY <1>1, <1>5 DEF Arms, WorkersOK, SameState
<1>8. AcquiringOK'
  BY <1>1, <1>6 DEF Arms, AcquiringOK, SameState
<1>9. ClaimOK'
  BY <1>2, <1>3, <1>4 DEF Arms, ClaimOK, SameState, StopMove
<1>10. InstallOK'
  <2>1. ASSUME NEW u \in Threads, Stage(u)' \in {"start_publish", "start_await"}
        PROVE  Answered(loc[u].id)' /\ st'.thread = IF Stage(u)' = "start_await" THEN loc'[u].id ELSE NoThread
    <3>1. Stage(u)' = Stage(u) /\ loc'[u] = loc[u]
      BY <2>1 DEF StopMove
    <3>2. Answered(loc[u].id) /\ st.thread = IF Stage(u) = "start_await" THEN loc[u].id ELSE NoThread
      BY <2>1, <3>1 DEF Arms, InstallOK
    <3>3. loc[u].id \in Workers /\ loc'[u].id = loc[u].id
      BY <2>1, <3>1, StageArming DEF Arming
    <3>4. Phase(loc[u].id)' = Phase(loc[u].id)
      BY <1>1, <3>3
    <3>5. Answered(loc[u].id)'
      BY <3>2, <3>4 DEF Answered, SameState
    <3>6. QED
      BY <3>1, <3>2, <3>5 DEF SameState
  <2>2. ASSUME NEW u \in Threads,
               Stage(u)' \in {"start_publish", "start_await", "start_fail", "start_commit"}
        PROVE  st'.installing /\ ~st'.acquiring /\ NoTeardown' /\ ~hs'.released
    BY <1>3, <2>2 DEF Arms, InstallOK, SameState, StopMove
  <2>3. ASSUME NEW u \in Threads, Stage(u)' = "start_commit"
        PROVE  st'.thread = loc'[u].id /\ Phase(loc[u].id)' = "hold"
    <3>1. Stage(u)' = Stage(u) /\ loc'[u] = loc[u]
      BY <2>3 DEF StopMove
    <3>2. loc[u].id \in Workers /\ st.thread = loc[u].id /\ Phase(loc[u].id) = "hold"
      BY <2>3, <3>1, StageArming DEF Arming, Arms, InstallOK
    <3>3. QED
      BY <1>1, <3>1, <3>2 DEF SameState
  <2>4. ASSUME NEW u \in Threads, Stage(u)' = "start_fail"
        PROVE  st'.thread \in Workers /\ Phase(st.thread)' \in {"quit", "exited"}
    BY <1>1, <2>4 DEF Arms, InstallOK, SameState, StopMove
  <2>5. ASSUME NEW u \in Threads, Stage(u)' = "start_join"
        PROVE  /\ st'.thread = NoThread /\ ~st'.acquiring /\ ~st'.installing /\ NoTeardown'
               /\ loc'[u].joinee \in Workers /\ Phase(loc[u].joinee)' \in {"quit", "exited"}
    <3>1. Stage(u)' = Stage(u) /\ loc'[u] = loc[u]
      BY <2>5 DEF StopMove
    <3>2. /\ st.thread = NoThread /\ ~st.acquiring /\ ~st.installing
          /\ loc[u].joinee \in Workers /\ Phase(loc[u].joinee) \in {"quit", "exited"}
      BY <2>5, <3>1 DEF Arms, InstallOK
    <3>3. QED
      BY <1>1, <1>3, <3>1, <3>2 DEF SameState
  <2>6. ASSUME NEW u \in Threads, Stage(u)' \in {"start_tell", "start_release"} \/ Telling(u)'
        PROVE  st'.acquiring /\ ~hs'.released /\ Phase(st.activeId)' = "hold"
    <3>1. Stage(u) \in {"start_tell", "start_release"} \/ Telling(u)
      BY <2>6 DEF StopMove
    <3>2. st.acquiring /\ ~hs.released /\ Phase(st.activeId) = "hold" /\ st.activeId \in Workers
      BY <3>1 DEF Arms, InstallOK, AcquiringOK
    <3>3. QED
      BY <1>1, <3>2 DEF SameState
  <2>7. QED
    BY <2>1, <2>2, <2>3, <2>4, <2>5, <2>6 DEF InstallOK
<1>11. TeardownOK'
  <2>1. ASSUME NEW u \in Threads, Stage(u)' \in {"close_take", "close_release"}
        PROVE  ~st'.installing /\ \A w \in Workers : Phase(w)' \in {"none", "exited", "quit"}
    BY <1>1, <2>1 DEF Arms, TeardownOK, SameState, StopMove
  <2>2. QED
    BY <1>3, <2>1 DEF TeardownOK, NoTeardown, FinishSteps
<1>12. QED
  BY <1>7, <1>8, <1>9, <1>10, <1>11 DEF Arms

(* The end of an acquisition whose worker was joined. *)
LEMMA JoinedArms ==
  ASSUME TypeInv, Control, Arms, NEW t \in Clients, StopMove(t), Apart', NoneLive,
         Stage(t) \in Joining \cup FinishSteps, Stage(t)' \in {"finish_state", "finish_trigger"},
         ~st'.acquiring, ~st'.installing, st'.thread = NoThread, st'.workerId = st.workerId,
         Stage(t)' = "finish_trigger" => ~loc'[t].was
  PROVE  Arms'
<1>1. \A w \in Workers : Phase(w)' \in {"none", "exited"} /\ Phase(w)' = Phase(w)
  BY DEF StopMove, NoneLive, Live
<1>2. \A w \in Workers : ~Live(w)'
  BY <1>1 DEF Live
<1>3. t \in Threads /\ \A u \in Clients : u \in Threads
  BY DEF Threads
<1>4. ~NoTeardown /\ ~st.acquiring
  BY DEF NoTeardown, Arms, AcquiringOK, NoneLive, Live
<1>5. ASSUME NEW u \in Threads
      PROVE  /\ Stage(u) \notin {"start_check", "start_prearm", "start_reset", "start_spawn", "start_publish",
                                 "start_await", "start_fail", "start_commit", "start_join", "start_tell",
                                 "start_release"}
             /\ ~Telling(u)
  BY <1>4 DEF Arms, ClaimOK, InstallOK
<1>6. ASSUME NEW u \in Threads
      PROVE  /\ Stage(u)' \notin {"start_check", "start_prearm", "start_reset", "start_spawn", "start_publish",
                                  "start_await", "start_fail", "start_commit", "start_join", "start_tell",
                                  "start_release"}
             /\ ~Telling(u)'
  BY <1>5 DEF StopMove
<1>7. WorkersOK'
  BY <1>1, <1>2 DEF Arms, WorkersOK
<1>8. AcquiringOK'
  BY <1>1 DEF AcquiringOK
<1>9. ClaimOK' /\ InstallOK'
  BY <1>6 DEF ClaimOK, InstallOK
<1>10. TeardownOK'
  <2>1. \A u \in Clients : u # t => Stage(u)' \notin Joining \cup FinishSteps
    BY DEF StopMove, StopStages
  <2>2. Stage(t)' \notin Joining \cup {"close_take", "close_release", "finish_tell"}
    BY DEF Joining
  <2>3. NoneLive'
    BY <1>2 DEF NoneLive
  <2>4. \A u \in Clients : Stage(u)' \notin Joining
    BY <2>1, <2>2
  <2>5. \A u \in Clients : Stage(u)' \in {"finish_trigger", "finish_tell"} => ~loc'[u].was
    BY <2>1, <2>2 DEF FinishSteps
  <2>6. \A w \in Workers : Phase(w)' \in {"none", "exited", "quit"}
    BY <1>1
  <2>7. QED
    BY <2>3, <2>4, <2>5, <2>6 DEF TeardownOK
<1>11. QED
  BY <1>7, <1>8, <1>9, <1>10 DEF Arms


(* With no std::thread to join and nothing acquiring, at most a worker that *)
(* quits and is being joined is left.                                       *)
LEMMA NothingToStop ==
  ASSUME TypeInv, Control, Arms, NEW t \in Clients, Stage(t) = "stop_wait",
         ~st.installing, ~st.acquiring, st.thread = NoThread
  PROVE  \A w \in Workers :
           /\ Phase(w) \in {"none", "exited", "quit"}
           /\ Phase(w) = "quit" => \E a \in Threads : a # t /\ Stage(a) = "start_join"
<1> SUFFICES ASSUME NEW w \in Workers
             PROVE  /\ Phase(w) \in {"none", "exited", "quit"}
                    /\ Phase(w) = "quit" => \E a \in Threads : a # t /\ Stage(a) = "start_join"
  OBVIOUS
<1>1. Phase(w) \in {"none", "enter", "setup", "quit", "hold", "running", "ended", "exited"}
  BY DEF Phase, PhaseOf
<1>2. ASSUME Installs(w)
      PROVE  Phase(w) \in {"quit", "exited"} /\ \E a \in Threads : a # t /\ Stage(a) = "start_join"
  <2>1. PICK a \in Threads : InstallsBy(a, w)
    BY <1>2 DEF Installs
  <2>2. Stage(a) = "start_join" /\ loc[a].joinee = w
    BY <2>1 DEF InstallsBy, Arms, InstallOK
  <2>3. Phase(w) \in {"quit", "exited"}
    BY <2>2 DEF Arms, InstallOK
  <2>4. QED
    BY <2>2, <2>3
<1>3. ~Joinee(w)
  <2>1. w # NoThread
    BY WorkerIds, ThreadsAssumption
  <2>2. \A u \in Clients : Stage(u) \notin Joining
    BY StopAlone DEF StopStages, Joining
  <2>3. QED
    BY <2>1, <2>2 DEF Joinee
<1>4. Phase(w) \notin {"running", "ended"}
  BY <1>3 DEF Arms, AcquiringOK
<1>5. Phase(w) \in {"enter", "setup", "hold", "quit"} => Installs(w)
  BY DEF Arms, WorkersOK
<1>6. QED
  BY <1>1, <1>2, <1>4, <1>5

(* The thread that stops is the one that arms, so nothing else is joined. *)
LEMMA ArmerStops ==
  ASSUME TypeInv, Control, NEW t \in Threads, Caller(t) = "start_check"
  PROVE  \A a \in Threads : a # t => Stage(a) \notin ArmSteps
<1>1. stack[t] # <<>>
  BY DEF Caller
<1>2. stack[t] \in Seq(Returns)
  BY DEF TypeInv, ControlOK
<1>3. 1 \in DOMAIN stack[t] /\ stack[t][1] = "start_check"
  BY <1>1, <1>2 DEF Caller
<1>4. Count(t, ArmSteps) # 0
  BY <1>3, CountTyped DEF TypeInv, ArmSteps
<1>5. QED
  BY <1>4, ArmAlone

LEMMA StopIdleArms ==
  ASSUME TypeInv, Control, Arms, NEW t \in Clients, StopWait(t),
         st.thread = NoThread /\ ~st.acquiring
  PROVE  Arms'
<1>1. t \in Threads /\ t \notin Workers
  BY ClientNoWorker DEF Threads
<1>2. /\ pc[t] = "stop_wait" /\ Goto(t, "stop_unlock") /\ ~st.installing
      /\ st' = st /\ loc' = loc /\ hs' = hs
  BY DEF StopWait
<1>3. /\ pc'[t] = "stop_unlock" /\ stack'[t] = stack[t] /\ Unmoved(t) /\ Bystanders(t)
  BY <1>1, <1>2, GotoForm DEF TypeInv, Goto, ControlOK, Unmoved
<1>4. SameState /\ OwnLocals(t)
  BY <1>2 DEF SameState, OwnLocals
<1>5. Apart'
  BY <1>1, <1>3, ApartGoto DEF Arms
<1>6. Telling(t)' => Telling(t)
  BY <1>3 DEF Telling, Within
<1>7. StopMove(t)
  BY <1>2, <1>3, <1>4, <1>6, StopFacts DEF StopStages
<1>8. Stage(t) = "stop_wait" /\ Stage(t)' = Caller(t)
  BY <1>2, <1>3 DEF Stage, Caller
<1>9. Caller(t) \in {"close_take", "start_check", "callback_return", "idle", "exited"}
  BY <1>1, <1>2, CallerRuns, Callees DEF StopSteps, RequestSteps
<1>10. \A w \in Workers : Phase(w) \in {"none", "exited", "quit"}
  BY <1>2, <1>8, NothingToStop
<1>11. ASSUME Caller(t) = "start_check" PROVE NoneLive
  <2>1. \A a \in Threads : a # t => Stage(a) # "start_join"
    BY <1>1, <1>11, ArmerStops DEF ArmSteps
  <2>2. \A w \in Workers : Phase(w) # "quit"
    BY <1>2, <1>8, <2>1, NothingToStop
  <2>3. QED
    BY <1>10, <2>2 DEF NoneLive, Live
<1>12. QED
  BY <1>2, <1>4, <1>5, <1>7, <1>8, <1>9, <1>10, <1>11, AfterStop

(* The stop takes the std::thread of the only worker there is. *)
LEMMA StopTakenArms ==
  ASSUME TypeInv, Control, Arms, NEW t \in Clients, StopWait(t),
         ~(st.thread = NoThread /\ ~st.acquiring)
  PROVE  Arms'
<1>1. t \in Threads /\ t \notin Workers /\ \A u \in Clients : u \in Threads
  BY ClientNoWorker DEF Threads
<1>2. /\ pc[t] = "stop_wait" /\ Goto(t, "stop_signal") /\ ~st.installing
      /\ loc'[t].joinee = st.thread /\ OwnLocals(t) /\ hs' = hs
      /\ st'.thread = NoThread /\ st'.acquiring = st.acquiring /\ ~st'.installing
      /\ st'.workerId = st.workerId /\ st'.activeId = st.activeId /\ st'.device = st.device
  BY <1>1 DEF StopWait, OwnLocals, TypeInv, DataOK, StateFields, LocalFields
<1>3. pc'[t] = "stop_signal" /\ stack'[t] = stack[t] /\ Unmoved(t) /\ Bystanders(t)
  BY <1>1, <1>2, GotoForm DEF TypeInv, Goto, ControlOK, Unmoved
<1>4. Apart'
  BY <1>1, <1>3, ApartGoto DEF Arms
<1>5. Telling(t)' => Telling(t)
  BY <1>3 DEF Telling, Within
<1>6. StopMove(t)
  BY <1>2, <1>3, <1>5, StopFacts DEF StopStages
<1>7. Stage(t) = "stop_wait" /\ Stage(t)' = "stop_signal"
  BY <1>2, <1>3 DEF Stage
<1>8. \A w \in Workers : Phase(w)' = Phase(w) /\ (Live(w)' <=> Live(w))
  BY <1>6 DEF StopMove, Live
<1>9. ASSUME NEW u \in Threads
      PROVE  /\ Stage(u) \notin {"start_check", "start_prearm", "start_reset", "start_spawn",
                                 "start_publish", "start_await", "start_fail", "start_commit",
                                 "start_join"}
  <2>1. st.acquiring => ~NoneLive
    BY DEF Arms, AcquiringOK, NoneLive, Live
  <2>2. QED
    BY <1>2, <2>1 DEF Arms, ClaimOK, InstallOK
<1>10. ASSUME NEW u \in Threads
       PROVE  /\ Stage(u)' \notin {"start_check", "start_prearm", "start_reset", "start_spawn",
                                   "start_publish", "start_await", "start_fail", "start_commit",
                                   "start_join"}
              /\ Stage(u)' \in {"start_tell", "start_release", "close_take", "close_release"}
                   => Stage(u)' = Stage(u)
  BY <1>6, <1>7, <1>9 DEF StopMove
<1>11. \A w \in Workers : ~Installs(w)
  BY <1>9 DEF Installs, InstallsBy
<1>12. \A u \in Clients : u # t => Stage(u) \notin Joining /\ Stage(u)' \notin Joining \cup FinishSteps
  BY <1>6 DEF StopMove, StopStages, Joining
<1>13. \A w \in Workers : Joinee(w) => st.thread = w /\ Joinee(w)'
  BY <1>2, <1>7, <1>12 DEF Joinee, Joining
<1>14. WorkersOK'
  BY <1>2, <1>8, <1>11 DEF Arms, WorkersOK
<1>15. AcquiringOK'
  BY <1>2, <1>8, <1>13 DEF Arms, AcquiringOK
<1>16. ClaimOK'
  BY <1>10 DEF ClaimOK
<1>17. InstallOK'
  <2>1. ASSUME NEW u \in Threads, Stage(u)' \in {"start_tell", "start_release"} \/ Telling(u)'
        PROVE  st'.acquiring /\ ~hs'.released /\ Phase(st.activeId)' = "hold"
    <3>1. Stage(u) \in {"start_tell", "start_release"} \/ Telling(u)
      BY <1>5, <1>6, <1>10, <2>1 DEF StopMove
    <3>2. st.acquiring /\ ~hs.released /\ Phase(st.activeId) = "hold" /\ st.activeId \in Workers
      BY <3>1 DEF Arms, InstallOK, AcquiringOK
    <3>3. QED
      BY <1>2, <1>8, <3>2
  <2>2. QED
    BY <1>10, <2>1 DEF InstallOK
<1>18. ASSUME NEW w \in Workers, Live(w) PROVE st.thread = w
  <2>1. Phase(w) \in {"none", "enter", "setup", "quit", "hold", "running", "ended", "exited"}
    BY DEF Phase, PhaseOf
  <2>2. Phase(w) \in {"hold", "running", "ended"} /\ (Phase(w) = "hold" => st.acquiring)
    BY <1>11, <1>18, <2>1 DEF Arms, WorkersOK, Live
  <2>3. Joinee(w)
    BY <2>2 DEF Arms, AcquiringOK
  <2>4. QED
    BY <1>13, <2>3
<1>19. TeardownOK'
  <2>1. \A u \in Clients : Stage(u)' \in Joining => \A w \in Workers : Live(w)' => loc'[u].joinee = w
    BY <1>2, <1>8, <1>12, <1>18
  <2>2. \A u \in Clients : Stage(u)' \notin FinishSteps
    BY <1>7, <1>12 DEF FinishSteps
  <2>3. \A u \in Threads : Stage(u)' \in {"close_take", "close_release"} =>
          \A w \in Workers : Phase(w)' \in {"none", "exited", "quit"}
    BY <1>8, <1>10 DEF Arms, TeardownOK
  <2>4. QED
    BY <1>2, <2>1, <2>2, <2>3 DEF TeardownOK, FinishSteps
<1>20. QED
  BY <1>4, <1>14, <1>15, <1>16, <1>17, <1>19 DEF Arms

LEMMA JoinedClientArms ==
  ASSUME TypeInv, Control, Arms, NEW t \in Clients, StopJoin(t)
  PROVE  Arms'
<1>1. t \in Threads /\ t \notin Workers
  BY ClientNoWorker DEF Threads
<1>2. /\ pc[t] = "stop_join" /\ Joinable(t) /\ Call(t, "finish_state", "stop_unlock")
      /\ OwnLocals(t) /\ st' = st /\ "stop_unlock" \in Returns
  BY DEF StopJoin, OwnLocals, TypeInv, DataOK, Returns
<1>3. /\ pc'[t] = "finish_state" /\ stack'[t] = <<"stop_unlock">> \o stack[t]
      /\ Unmoved(t) /\ Bystanders(t)
  BY <1>1, <1>2, CallForm DEF TypeInv, Call, ControlOK, Unmoved
<1>4. Apart'
  BY <1>1, <1>2, <1>3, ApartCall DEF Arms
<1>5. Telling(t)' => Telling(t)
  <2>1. stack[t] \in Seq(Returns)
    BY <1>1 DEF TypeInv, ControlOK
  <2>2. \A i \in DOMAIN (<<"stop_unlock">> \o stack[t]) :
          (<<"stop_unlock">> \o stack[t])[i] = "start_told" =>
            i - 1 \in DOMAIN stack[t] /\ stack[t][i - 1] = "start_told"
    BY <2>1
  <2>3. QED
    BY <1>3, <2>2 DEF Telling, Within
<1>6. StopMove(t)
  BY <1>2, <1>3, <1>5, StopFacts DEF StopStages, Joining
<1>7. Stage(t) = "stop_join" /\ Stage(t)' = "finish_state"
  BY <1>2, <1>3 DEF Stage
<1>8. ~st.installing /\ st.thread = NoThread /\ \A w \in Workers : Live(w) => loc[t].joinee = w
  BY <1>7 DEF Arms, TeardownOK, Joining
<1>9. NoneLive
  <2>1. loc[t].joinee \in Workers => Phase(loc[t].joinee) = "exited"
    BY <1>1, <1>2, JoinedPhase
  <2>2. QED
    BY <1>8, <2>1 DEF NoneLive, Live
<1>10. ~st.acquiring
  BY <1>9 DEF Arms, AcquiringOK, NoneLive, Live
<1>11. QED
  BY <1>2, <1>4, <1>6, <1>7, <1>8, <1>9, <1>10, JoinedArms DEF Joining

LEMMA ClientFinishArms ==
  ASSUME TypeInv, Control, Arms, NEW t \in Clients, FinishState(t)
  PROVE  Arms'
<1>1. t \in Threads /\ t \notin Workers
  BY ClientNoWorker DEF Threads
<1>2. pc[t] = "finish_state" /\ Stage(t) = "finish_state"
  BY DEF FinishState, Stage
<1>3. NoneLive /\ st.thread = NoThread
  BY <1>2 DEF Arms, TeardownOK, FinishSteps
<1>4. ~st.acquiring
  BY <1>3 DEF Arms, AcquiringOK, NoneLive, Live
<1>5. /\ Goto(t, "finish_trigger") /\ OwnLocals(t) /\ ~loc'[t].was
      /\ ~st'.acquiring /\ ~st'.installing /\ st'.thread = st.thread /\ st'.workerId = st.workerId
  BY <1>1, <1>4 DEF FinishState, Ends, OwnLocals, TypeInv, DataOK, StateFields, LocalFields
<1>6. pc'[t] = "finish_trigger" /\ stack'[t] = stack[t] /\ Unmoved(t) /\ Bystanders(t)
  BY <1>1, <1>5, GotoForm DEF TypeInv, Goto, ControlOK, Unmoved
<1>7. Apart'
  BY <1>1, <1>6, ApartGoto DEF Arms
<1>8. Telling(t)' => Telling(t)
  BY <1>6 DEF Telling, Within
<1>9. StopMove(t)
  BY <1>2, <1>5, <1>6, <1>8, StopFacts DEF StopStages, FinishSteps
<1>10. Stage(t)' = "finish_trigger"
  BY <1>6 DEF Stage
<1>11. QED
  BY <1>2, <1>3, <1>5, <1>7, <1>9, <1>10, JoinedArms DEF FinishSteps

(* finishAcquisition of a client returns into stopAcquisition. *)
LEMMA ClientEndArms ==
  ASSUME TypeInv, Control, Arms, NEW t \in Clients, FinishEnd(t)
  PROVE  Arms'
<1>1. t \in Threads /\ t \notin Workers
  BY ClientNoWorker DEF Threads
<1>2. pc[t] = "finish_end" /\ Stage(t) = "finish_end"
  BY DEF FinishEnd, Stage
<1>3. NoneLive /\ st.thread = NoThread /\ ~st.installing
  BY <1>2 DEF Arms, TeardownOK, FinishSteps
<1>4. Return(t) /\ OwnLocals(t) /\ SameState
  BY <1>1, ThreadsAssumption DEF FinishEnd, OwnLocals, SameState, TypeInv, DataOK, StateFields
<1>5. stack[t] # <<>> /\ Caller(t) = "stop_unlock" /\ 1 \in DOMAIN stack[t] /\ stack[t][1] = "stop_unlock"
  BY <1>2, ClientFinish DEF FinishSteps
<1>6. pc'[t] = Caller(t) /\ stack'[t] = Callers(t) /\ Unmoved(t) /\ Bystanders(t)
  BY <1>1, <1>4, ReturnForm DEF TypeInv, Return, ControlOK, Unmoved
<1>7. Apart'
  BY <1>1, <1>6, ApartReturn DEF Arms
<1>8. Telling(t)' => Telling(t)
  BY <1>1, <1>6, ReturnTelling
<1>9. StopMove(t)
  BY <1>2, <1>4, <1>6, <1>8, StopFacts DEF StopStages, FinishSteps
<1>10. Stage(t)' \in {"close_take", "start_check", "callback_return", "idle", "exited"}
  <2>1. stack[t] \in Seq(Returns) /\ Chained(t)
    BY <1>1 DEF TypeInv, ControlOK, Control
  <2>2. stack'[t] = Tail(stack[t])
    BY <1>5, <1>6 DEF Callers
  <2>3. "stop_unlock" \in Inside(t, 2)
    BY <1>5, <2>1 DEF Chained
  <2>4. CASE Tail(stack[t]) = <<>>
    BY <1>1, <1>5, <1>6, <2>2, <2>4 DEF Stage, Caller
  <2>5. CASE Tail(stack[t]) # <<>>
    <3>1. 2 \in DOMAIN stack[t] /\ stack[t][2] \in Returns /\ Head(Tail(stack[t])) = stack[t][2]
      BY <1>5, <2>1, <2>5
    <3>2. "stop_unlock" \in Body(stack[t][2])
      BY <2>3, <3>1 DEF Inside
    <3>3. stack[t][2] \in {"close_take", "start_check", "callback_return"}
      BY <3>1, <3>2, Callees DEF StopSteps, RequestSteps
    <3>4. Stage(t)' = stack[t][2]
      BY <1>5, <1>6, <2>2, <2>5, <3>1 DEF Stage, Caller
    <3>5. QED
      BY <3>3, <3>4
  <2>6. QED
    BY <2>4, <2>5
<1>11. \A w \in Workers : Phase(w) \in {"none", "exited", "quit"}
  BY <1>3 DEF NoneLive, Live
<1>12. QED
  BY <1>2, <1>3, <1>4, <1>7, <1>9, <1>10, <1>11, AfterStop DEF FinishSteps

LEMMA StopArms ==
  ASSUME TypeInv, Control, Arms, NEW t \in Threads, StopWait(t) \/ StopJoin(t)
  PROVE  Arms'
<1>1. t \in Clients
  BY NotForeign, WorkerClient DEF Arms, Foreign, TearSteps, StopWait, StopJoin
<1>2. QED
  BY <1>1, StopIdleArms, StopTakenArms, JoinedClientArms


------------------------------------------------------------------------------
(* The steps of a worker that change its phase *)

PhaseSteps ==
  {<<"enter", "setup">>, <<"setup", "hold">>, <<"setup", "quit">>, <<"quit", "exited">>,
   <<"hold", "running">>, <<"running", "ended">>, <<"ended", "exited">>}

(* What a step of a worker leaves as it is. *)
WorkerMove(w) ==
  /\ Apart'
  /\ Stage(w) \notin ArmSteps /\ Stage(w)' \notin ArmSteps \cup {"close_take", "close_release"}
  /\ ~Telling(w) /\ ~Telling(w)'
  /\ \A u \in Threads : u # w =>
       Stage(u)' = Stage(u) /\ loc'[u] = loc[u] /\ (Telling(u)' <=> Telling(u))
  /\ \A v \in Workers : v # w => Phase(v)' = Phase(v)
  /\ st'.thread = st.thread =>
       \A v \in Workers : (Installs(v)' <=> Installs(v)) /\ (Joinee(v)' <=> Joinee(v))

LEMMA WorkerFacts ==
  ASSUME TypeInv, Control, Arms, NEW w \in Workers, NEW q \in WorkerBase, pc[w] \in WorkerBase,
         pc'[w] = q, stack'[w] = stack[w], Unmoved(w), OwnLocals(w)
  PROVE  WorkerMove(w) /\ Phase(w) = PhaseOf(pc[w]) /\ Phase(w)' = PhaseOf(q)
<1>1. w \in Threads /\ w \notin Clients /\ \A u \in Clients : u \in Threads /\ u # w
  BY WorkerIds, ClientNoWorker DEF Threads
<1>2. q \notin Foreign \cup {"stop_unlock", "start_told", "close_take", "close_release"} \cup ArmSteps
      /\ pc[w] \notin {"stop_unlock", "start_told"} \cup ArmSteps
  BY DEF WorkerBase, WorkerSteps, FinishSteps, Foreign, ArmSteps, TearSteps
<1>3. stack[w] = <<>> /\ At(w) = pc[w] /\ At(w)' = q
  BY AtBase DEF Arms, At
<1>4. Apart'
  <2>1. Bystanders(w)
    BY DEF Bystanders, Bystander, Unmoved
  <2>2. QED
    BY <1>1, <1>2, <2>1, ApartGoto DEF Arms
<1>5. Stage(w) = pc[w] /\ Stage(w)' = q /\ ~Telling(w) /\ ~Telling(w)'
  BY <1>2, <1>3 DEF Stage, Telling, Within
<1>6. \A u \in Threads : u # w =>
        /\ Stage(u)' = Stage(u) /\ loc'[u] = loc[u] /\ (Telling(u)' <=> Telling(u))
        /\ u \in Workers => Phase(u)' = Phase(u)
  BY <1>1, GotoOthers DEF Unmoved, OwnLocals
<1>7. ASSUME NEW v \in Workers, st'.thread = st.thread
      PROVE  (Installs(v)' <=> Installs(v)) /\ (Joinee(v)' <=> Joinee(v))
  <2>1. \A a \in Threads : InstallsBy(a, v)' <=> InstallsBy(a, v)
    <3> SUFFICES ASSUME NEW a \in Threads PROVE InstallsBy(a, v)' <=> InstallsBy(a, v)
      OBVIOUS
    <3>1. CASE a = w
      BY <1>2, <1>5, <3>1 DEF InstallsBy, ArmSteps
    <3>2. CASE a # w
      BY <1>6, <1>7, <3>2 DEF InstallsBy
    <3>3. QED
      BY <3>1, <3>2
  <2>2. \A u \in Clients : Stage(u)' = Stage(u) /\ loc'[u] = loc[u]
    BY <1>1, <1>6
  <2>3. Installs(v)' <=> Installs(v)
    BY <2>1 DEF Installs
  <2>4. Joinee(v)' <=> Joinee(v)
    BY <1>7, <2>2 DEF Joinee
  <2>5. QED
    BY <2>3, <2>4
<1>8. \A v \in Workers : v # w => Phase(v)' = Phase(v)
  BY <1>6, WorkerIds
<1>9. QED
  BY <1>2, <1>3, <1>4, <1>5, <1>6, <1>7, <1>8 DEF WorkerMove, Phase

(* Only one worker lives, so nobody claims the device or ends its acquisition. *)
LEMMA WorkerArms ==
  ASSUME TypeInv, Control, Arms, NEW w \in Workers, WorkerMove(w), <<Phase(w), Phase(w)'>> \in PhaseSteps,
         st'.workerId = (IF Phase(w)' = "exited" THEN NoThread ELSE w),
         st'.thread = st.thread, st'.device = st.device, st'.installing => st.installing,
         st'.acquiring => st.acquiring /\ st'.activeId = st.activeId,
         Phase(w)' = "running" => st.acquiring /\ st'.acquiring /\ st'.activeId = w,
         Phase(w)' = "ended" => ~st'.acquiring /\ ~st'.installing,
         InstallOK'
  PROVE  Arms'
<1>1. Live(w)
  BY DEF Live, PhaseSteps
<1>2. w \in Threads /\ w # NoThread /\ \A u \in Clients : u \in Threads /\ u # w
  BY WorkerIds, ClientNoWorker, ThreadsAssumption DEF Threads
<1>3. \A v \in Workers : v # w => Phase(v) \in {"none", "exited"} /\ Phase(v)' \in {"none", "exited"} /\ v # NoThread
  BY <1>1, WorkerIds, ThreadsAssumption DEF Arms, WorkersOK, Live, WorkerMove
<1>4. ~NoneLive
  BY <1>1 DEF NoneLive
<1>5. WorkersOK'
  <2>1. \A v \in Workers : st'.workerId = v <=> Phase(v)' \notin {"none", "enter", "exited"}
    BY <1>2, <1>3 DEF PhaseSteps
  <2>2. \A u, v \in Workers : Live(u)' /\ Live(v)' => u = v
    BY <1>3 DEF Live
  <2>3. Phase(w)' \in {"enter", "setup", "hold", "running", "ended"} => st'.device
    BY DEF Arms, WorkersOK, PhaseSteps
  <2>4. Phase(w)' \in {"enter", "setup", "quit", "hold"} => Installs(w)'
    BY DEF Arms, WorkersOK, PhaseSteps, WorkerMove
  <2>5. QED
    BY <1>3, <2>1, <2>2, <2>3, <2>4 DEF WorkersOK
<1>6. AcquiringOK'
  <2>1. ASSUME st'.acquiring PROVE ~st'.installing /\ st'.activeId = w /\ Phase(w)' \in {"hold", "running"} /\ Joinee(w)'
    <3>1. st.acquiring /\ ~st.installing /\ st.activeId = w /\ Phase(w) \in {"hold", "running"}
      BY <1>3, <2>1 DEF Arms, AcquiringOK
    <3>2. Phase(w)' = "running"
      BY <2>1, <3>1 DEF PhaseSteps
    <3>3. Joinee(w)'
      BY <3>1 DEF Arms, AcquiringOK, WorkerMove
    <3>4. QED
      BY <2>1, <3>1, <3>2, <3>3
  <2>2. Phase(w)' = "ended" => Joinee(w)'
    BY DEF PhaseSteps, Arms, AcquiringOK, WorkerMove
  <2>3. QED
    BY <1>2, <1>3, <2>1, <2>2 DEF AcquiringOK
<1>7. ClaimOK'
  <2>1. \A t \in Threads : Stage(t)' \notin {"start_check", "start_prearm", "start_reset", "start_spawn"}
    BY <1>4 DEF Arms, ClaimOK, WorkerMove, ArmSteps
  <2>2. QED
    BY <2>1 DEF ClaimOK
<1>8. TeardownOK'
  <2>1. \A u \in Clients : Stage(u)' = Stage(u) /\ loc'[u] = loc[u] /\ Stage(u) \notin FinishSteps
    BY <1>2, <1>4 DEF Arms, TeardownOK, WorkerMove
  <2>2. \A v \in Workers : Live(v)' => Live(v)
    BY <1>1, <1>3 DEF Live
  <2>3. ASSUME NEW u \in Threads, Stage(u)' \in {"close_take", "close_release"}
        PROVE  ~st'.installing /\ \A v \in Workers : Phase(v)' \in {"none", "exited", "quit"}
    <3>1. ~st.installing /\ Phase(w) \in {"none", "exited", "quit"}
      BY <2>3 DEF Arms, TeardownOK, WorkerMove
    <3>2. Phase(w)' = "exited"
      BY <3>1 DEF PhaseSteps
    <3>3. QED
      BY <1>3, <3>1, <3>2
  <2>4. QED
    BY <2>1, <2>2, <2>3 DEF Arms, TeardownOK, FinishSteps
<1>9. QED
  BY <1>5, <1>6, <1>7, <1>8 DEF Arms, WorkerMove

(* A worker the arm still waits for moves on. *)
LEMMA WorkerAwaited ==
  ASSUME TypeInv, Control, Arms, NEW w \in Workers, WorkerMove(w), hs' = hs,
         st'.acquiring = st.acquiring, st'.installing = st.installing, st'.thread = st.thread,
         st'.activeId = st.activeId,
         <<Phase(w), Phase(w)'>> \in {<<"enter", "setup">>, <<"quit", "exited">>}
  PROVE  InstallOK'
<1>1. \A u \in Clients : u \in Threads /\ u # w
  BY WorkerIds, ClientNoWorker DEF Threads
<1>2. NoTeardown' <=> NoTeardown
  BY <1>1 DEF NoTeardown, WorkerMove
<1>3. ASSUME NEW u \in Threads, Stage(u)' \in ArmSteps
      PROVE  u # w /\ Stage(u)' = Stage(u) /\ loc'[u] = loc[u]
  BY <1>3 DEF WorkerMove
<1>4. \A v \in Workers : Phase(v) \in {"quit", "exited"} => Phase(v)' \in {"quit", "exited"}
  BY DEF WorkerMove
<1>5. \A v \in Workers : Phase(v) = "hold" => Phase(v)' = "hold"
  BY DEF WorkerMove
<1>6. \A v \in Workers : Answered(v) => Answered(v)'
  BY DEF WorkerMove, Answered
<1>7. ASSUME NEW u \in Threads, Stage(u)' \in {"start_publish", "start_await"}
      PROVE  Answered(loc[u].id)' /\ st'.thread = IF Stage(u)' = "start_await" THEN loc'[u].id ELSE NoThread
  <2>1. Stage(u)' = Stage(u) /\ loc'[u] = loc[u]
    BY <1>3, <1>7 DEF ArmSteps
  <2>2. Answered(loc[u].id) /\ st.thread = IF Stage(u) = "start_await" THEN loc[u].id ELSE NoThread
    BY <1>7, <2>1 DEF Arms, InstallOK
  <2>3. loc[u].id \in Workers /\ loc'[u].id = loc[u].id
    BY <1>7, <2>1, StageArming DEF Arming
  <2>4. Answered(loc[u].id)'
    BY <1>6, <2>2, <2>3
  <2>5. QED
    BY <2>1, <2>2, <2>4
<1>8. ASSUME NEW u \in Threads,
             Stage(u)' \in {"start_publish", "start_await", "start_fail", "start_commit"}
      PROVE  st'.installing /\ ~st'.acquiring /\ NoTeardown' /\ ~hs'.released
  BY <1>2, <1>3, <1>8 DEF Arms, InstallOK, ArmSteps
<1>9. ASSUME NEW u \in Threads, Stage(u)' = "start_commit"
      PROVE  st'.thread = loc'[u].id /\ Phase(loc[u].id)' = "hold"
  <2>1. Stage(u)' = Stage(u) /\ loc'[u] = loc[u]
    BY <1>3, <1>9 DEF ArmSteps
  <2>2. loc[u].id \in Workers /\ st.thread = loc[u].id /\ Phase(loc[u].id) = "hold"
    BY <1>9, <2>1, StageArming DEF Arming, Arms, InstallOK
  <2>3. QED
    BY <1>5, <2>1, <2>2
<1>10. ASSUME NEW u \in Threads, Stage(u)' = "start_fail"
       PROVE  st'.thread \in Workers /\ Phase(st.thread)' \in {"quit", "exited"}
  <2>1. st.thread \in Workers /\ Phase(st.thread) \in {"quit", "exited"}
    BY <1>3, <1>10 DEF Arms, InstallOK, ArmSteps
  <2>2. QED
    BY <1>4, <2>1
<1>11. ASSUME NEW u \in Threads, Stage(u)' = "start_join"
       PROVE  /\ st'.thread = NoThread /\ ~st'.acquiring /\ ~st'.installing /\ NoTeardown'
              /\ loc'[u].joinee \in Workers /\ Phase(loc[u].joinee)' \in {"quit", "exited"}
  <2>1. Stage(u)' = Stage(u) /\ loc'[u] = loc[u]
    BY <1>3, <1>11 DEF ArmSteps
  <2>2. /\ st.thread = NoThread /\ ~st.acquiring /\ ~st.installing /\ NoTeardown
        /\ loc[u].joinee \in Workers /\ Phase(loc[u].joinee) \in {"quit", "exited"}
    BY <1>11, <2>1 DEF Arms, InstallOK
  <2>3. QED
    BY <1>2, <1>4, <2>1, <2>2
<1>12. ASSUME NEW u \in Threads, Stage(u)' \in {"start_tell", "start_release"} \/ Telling(u)'
       PROVE  st'.acquiring /\ ~hs'.released /\ Phase(st.activeId)' = "hold"
  <2>1. Stage(u) \in {"start_tell", "start_release"} \/ Telling(u)
    BY <1>3, <1>12 DEF WorkerMove, ArmSteps
  <2>2. st.acquiring /\ ~hs.released /\ Phase(st.activeId) = "hold" /\ st.activeId \in Workers
    BY <2>1 DEF Arms, InstallOK, AcquiringOK
  <2>3. QED
    BY <1>5, <2>2
<1>13. QED
  BY <1>7, <1>8, <1>9, <1>10, <1>11, <1>12 DEF InstallOK

(* No arm is waiting for the worker any more. *)
LEMMA WorkerSettled ==
  ASSUME TypeInv, Control, Arms, NEW w \in Workers, WorkerMove(w), Phase(w) \notin {"quit", "exited"},
         st'.thread = st.thread, st'.installing => st.installing, st'.acquiring => st.acquiring,
         \A u \in Threads :
           /\ Stage(u) \notin {"start_publish", "start_await", "start_fail", "start_commit",
                               "start_tell", "start_release"}
           /\ ~Telling(u)
  PROVE  InstallOK'
<1>1. \A u \in Clients : u \in Threads /\ u # w
  BY WorkerIds, ClientNoWorker DEF Threads
<1>2. NoTeardown' <=> NoTeardown
  BY <1>1 DEF NoTeardown, WorkerMove
<1>3. ASSUME NEW u \in Threads
      PROVE  /\ Stage(u)' \notin {"start_publish", "start_await", "start_fail", "start_commit",
                                  "start_tell", "start_release"}
             /\ ~Telling(u)'
  BY DEF WorkerMove, ArmSteps
<1>4. ASSUME NEW u \in Threads, Stage(u)' = "start_join"
      PROVE  /\ st'.thread = NoThread /\ ~st'.acquiring /\ ~st'.installing /\ NoTeardown'
             /\ loc'[u].joinee \in Workers /\ Phase(loc[u].joinee)' \in {"quit", "exited"}
  <2>1. Stage(u) = "start_join" /\ loc'[u] = loc[u]
    BY <1>4 DEF WorkerMove, ArmSteps
  <2>2. /\ st.thread = NoThread /\ ~st.acquiring /\ ~st.installing /\ NoTeardown
        /\ loc[u].joinee \in Workers /\ Phase(loc[u].joinee) \in {"quit", "exited"}
    BY <2>1 DEF Arms, InstallOK
  <2>3. Phase(loc[u].joinee)' \in {"quit", "exited"}
    BY <2>1, <2>2 DEF WorkerMove
  <2>4. QED
    BY <1>2, <2>1, <2>2, <2>3
<1>5. QED
  BY <1>3, <1>4 DEF InstallOK


LEMMA EnterArms ==
  ASSUME TypeInv, Control, Arms, NEW w \in Workers, WorkerEnter(w)
  PROVE  Arms'
<1>1. /\ pc[w] = "enter" /\ Goto(w, "setup") /\ OwnLocals(w) /\ hs' = hs
      /\ st'.workerId = w /\ st'.thread = st.thread /\ st'.device = st.device
      /\ st'.acquiring = st.acquiring /\ st'.installing = st.installing /\ st'.activeId = st.activeId
  BY DEF WorkerEnter, OwnLocals, TypeInv, DataOK, StateFields
<1>2. pc'[w] = "setup" /\ stack'[w] = stack[w] /\ Unmoved(w)
  BY <1>1, WorkerIds DEF TypeInv, Goto, ControlOK, Unmoved
<1>3. WorkerMove(w) /\ Phase(w) = "enter" /\ Phase(w)' = "setup"
  <2>1. /\ "setup" \in WorkerBase /\ "enter" \in WorkerBase
        /\ PhaseOf("enter") = "enter" /\ PhaseOf("setup") = "setup"
    BY DEF WorkerBase, WorkerSteps, PhaseOf
  <2>2. QED
    BY <1>1, <1>2, <2>1, WorkerFacts
<1>4. InstallOK'
  BY <1>1, <1>3, WorkerAwaited
<1>5. QED
  BY <1>1, <1>3, <1>4, WorkerArms DEF PhaseSteps

LEMMA QuitArms ==
  ASSUME TypeInv, Control, Arms, NEW w \in Workers, WorkerQuit(w)
  PROVE  Arms'
<1>1. /\ pc[w] = "quit" /\ Goto(w, "exited") /\ OwnLocals(w) /\ hs' = hs
      /\ st'.workerId = NoThread /\ st'.thread = st.thread /\ st'.device = st.device
      /\ st'.acquiring = st.acquiring /\ st'.installing = st.installing /\ st'.activeId = st.activeId
  BY DEF WorkerQuit, OwnLocals, TypeInv, DataOK, StateFields
<1>2. pc'[w] = "exited" /\ stack'[w] = stack[w] /\ Unmoved(w)
  BY <1>1, WorkerIds DEF TypeInv, Goto, ControlOK, Unmoved
<1>3. WorkerMove(w) /\ Phase(w) = "quit" /\ Phase(w)' = "exited"
  <2>1. /\ "quit" \in WorkerBase /\ "exited" \in WorkerBase
        /\ PhaseOf("quit") = "quit" /\ PhaseOf("exited") = "exited"
    BY DEF WorkerBase, WorkerSteps, PhaseOf
  <2>2. QED
    BY <1>1, <1>2, <2>1, WorkerFacts
<1>4. InstallOK'
  BY <1>1, <1>3, WorkerAwaited
<1>5. QED
  BY <1>1, <1>3, <1>4, WorkerArms DEF PhaseSteps

(* The worker answers the arm that waits for it. *)
LEMMA ReportArms ==
  ASSUME TypeInv, Control, Arms, NEW w \in Workers, WorkerReport(w)
  PROVE  Arms'
<1>1. PICK q \in {"hold", "quit"} :
        /\ pc[w] = "report" /\ Goto(w, q) /\ OwnLocals(w) /\ st' = st
        /\ hs'.completed /\ (hs'.succeeded <=> q = "hold") /\ hs'.released = hs.released
  BY DEF WorkerReport, CompletedStart, OwnLocals, TypeInv, DataOK, HandshakeFields
<1>2. pc'[w] = q /\ stack'[w] = stack[w] /\ Unmoved(w)
  BY <1>1, WorkerIds DEF TypeInv, Goto, ControlOK, Unmoved
<1>3. WorkerMove(w) /\ Phase(w) = "setup" /\ Phase(w)' = q
  <2>1. /\ q \in WorkerBase /\ "report" \in WorkerBase
        /\ PhaseOf("report") = "setup" /\ PhaseOf(q) = q
    BY <1>1 DEF WorkerBase, WorkerSteps, PhaseOf
  <2>2. QED
    BY <1>1, <1>2, <2>1, WorkerFacts
<1>4. PICK a \in Threads : InstallsBy(a, w)
  BY <1>3 DEF Arms, WorkersOK, Installs
<1>5. Stage(a) \in {"start_publish", "start_await"} /\ loc[a].id = w
  BY <1>3, <1>4 DEF InstallsBy, Arms, InstallOK
<1>6. a # w /\ Stage(a)' = Stage(a) /\ loc'[a] = loc[a]
  BY <1>3, <1>5 DEF WorkerMove, ArmSteps
<1>7. \A u \in Threads : u # a => Stage(u)' \notin ArmSteps /\ ~Telling(u)'
  <2>1. pc[a] = Stage(a) /\ pc[a] \in ArmSteps
    BY <1>5, StageOf DEF ArmSteps
  <2>2. \A u \in Threads : u # a => Stage(u) \notin ArmSteps /\ ~Telling(u)
    BY <2>1, ArmOnce, ArmAlone
  <2>3. QED
    BY <1>3, <2>2 DEF WorkerMove
<1>8. ~Telling(a)'
  <2>1. ~st.acquiring
    BY <1>5 DEF Arms, InstallOK
  <2>2. QED
    BY <1>3, <1>6, <2>1 DEF Arms, InstallOK, WorkerMove
<1>9. st.installing /\ ~st.acquiring /\ NoTeardown' /\ ~hs'.released
      /\ st.thread = (IF Stage(a) = "start_await" THEN w ELSE NoThread)
  <2>1. \A u \in Clients : u \in Threads /\ u # w
    BY WorkerIds, ClientNoWorker DEF Threads
  <2>2. QED
    BY <1>1, <1>3, <1>5, <2>1 DEF Arms, InstallOK, WorkerMove, NoTeardown
<1>10. Answered(w)'
  BY <1>1, <1>3 DEF Answered
<1>11. InstallOK'
  BY <1>1, <1>5, <1>6, <1>7, <1>8, <1>9, <1>10 DEF InstallOK, ArmSteps
<1>12. st.workerId = w
  BY <1>3 DEF Arms, WorkersOK
<1>13. QED
  BY <1>1, <1>3, <1>11, <1>12, WorkerArms DEF PhaseSteps

(* A released worker runs the acquisition its arm committed. *)
LEMMA HoldArms ==
  ASSUME TypeInv, Control, Arms, NEW w \in Workers, WorkerHold(w)
  PROVE  Arms'
<1>1. pc[w] = "hold" /\ Goto(w, "loop") /\ OwnLocals(w) /\ st' = st /\ hs' = hs /\ hs.released
  BY DEF WorkerHold, Released, OwnLocals
<1>2. pc'[w] = "loop" /\ stack'[w] = stack[w] /\ Unmoved(w)
  BY <1>1, WorkerIds DEF TypeInv, Goto, ControlOK, Unmoved
<1>3. WorkerMove(w) /\ Phase(w) = "hold" /\ Phase(w)' = "running"
  <2>1. /\ "loop" \in WorkerBase /\ "hold" \in WorkerBase
        /\ PhaseOf("hold") = "hold" /\ PhaseOf("loop") = "running"
    BY DEF WorkerBase, WorkerSteps, PhaseOf, Ended
  <2>2. QED
    BY <1>1, <1>2, <2>1, WorkerFacts
<1>4. \A u \in Threads :
        /\ Stage(u) \notin {"start_publish", "start_await", "start_fail", "start_commit",
                            "start_tell", "start_release"}
        /\ ~Telling(u)
  BY <1>1 DEF Arms, InstallOK
<1>5. ~Installs(w)
  <2>1. \A a \in Threads : Stage(a) = "start_join" => loc[a].joinee # w
    BY <1>3 DEF Arms, InstallOK
  <2>2. QED
    BY <1>4, <2>1 DEF Installs, InstallsBy
<1>6. st.acquiring /\ st.activeId = w
  BY <1>3, <1>5 DEF Arms, WorkersOK
<1>7. InstallOK'
  BY <1>1, <1>3, <1>4, WorkerSettled
<1>8. st.workerId = w
  BY <1>3 DEF Arms, WorkersOK
<1>9. QED
  BY <1>1, <1>3, <1>6, <1>7, <1>8, WorkerArms DEF PhaseSteps

LEMMA WorkerFinishArms ==
  ASSUME TypeInv, Control, Arms, NEW w \in Workers, FinishState(w)
  PROVE  Arms'
<1>1. /\ pc[w] = "finish_state" /\ Goto(w, "finish_trigger") /\ OwnLocals(w)
      /\ ~st'.acquiring /\ ~st'.installing /\ st'.thread = st.thread /\ st'.workerId = st.workerId
      /\ st'.device = st.device
  BY DEF FinishState, OwnLocals, TypeInv, DataOK, StateFields
<1>2. pc'[w] = "finish_trigger" /\ stack'[w] = stack[w] /\ Unmoved(w)
  BY <1>1, WorkerIds DEF TypeInv, Goto, ControlOK, Unmoved
<1>3. WorkerMove(w) /\ Phase(w) = "running" /\ Phase(w)' = "ended"
  <2>1. /\ "finish_state" \in WorkerBase /\ "finish_trigger" \in WorkerBase
        /\ PhaseOf("finish_state") = "running" /\ PhaseOf("finish_trigger") = "ended"
    BY DEF WorkerBase, FinishSteps, PhaseOf, Ended
  <2>2. QED
    BY <1>1, <1>2, <2>1, WorkerFacts
<1>4. st.acquiring /\ st.activeId = w /\ st.workerId = w
  BY <1>3 DEF Arms, WorkersOK, AcquiringOK
<1>5. \A u \in Threads :
        /\ Stage(u) \notin {"start_publish", "start_await", "start_fail", "start_commit",
                            "start_tell", "start_release"}
        /\ ~Telling(u)
  BY <1>3, <1>4 DEF Arms, InstallOK
<1>6. InstallOK'
  BY <1>1, <1>3, <1>5, WorkerSettled
<1>7. QED
  BY <1>1, <1>3, <1>4, <1>6, WorkerArms DEF PhaseSteps

LEMMA WorkerEndArms ==
  ASSUME TypeInv, Control, Arms, NEW w \in Workers, FinishEnd(w)
  PROVE  Arms'
<1>1. pc[w] = "finish_end" /\ Return(w) /\ OwnLocals(w) /\ w \in Threads
  BY WorkerIds DEF FinishEnd, OwnLocals
<1>2. stack[w] = <<>> /\ Caller(w) = "exited" /\ Callers(w) = <<>>
  BY <1>1, AtBase DEF Arms, WorkerBase, FinishSteps, Caller, Callers
<1>3. pc'[w] = "exited" /\ stack'[w] = stack[w] /\ Unmoved(w)
  BY <1>1, <1>2 DEF TypeInv, Return, ControlOK, Unmoved
<1>4. WorkerMove(w) /\ Phase(w) = "ended" /\ Phase(w)' = "exited"
  <2>1. /\ "finish_end" \in WorkerBase /\ "exited" \in WorkerBase
        /\ PhaseOf("finish_end") = "ended" /\ PhaseOf("exited") = "exited"
    BY DEF WorkerBase, WorkerSteps, FinishSteps, PhaseOf, Ended
  <2>2. QED
    BY <1>1, <1>3, <2>1, WorkerFacts
<1>5. st.workerId = w /\ ~st.acquiring /\ ~st.installing
  BY <1>4 DEF Arms, WorkersOK, AcquiringOK
<1>6. /\ ~st'.acquiring /\ ~st'.installing /\ st'.thread = st.thread /\ st'.workerId = NoThread
      /\ st'.device = st.device
  BY <1>5 DEF FinishEnd, TypeInv, DataOK, StateFields
<1>7. \A u \in Threads :
        /\ Stage(u) \notin {"start_publish", "start_await", "start_fail", "start_commit",
                            "start_tell", "start_release"}
        /\ ~Telling(u)
  BY <1>5 DEF Arms, InstallOK
<1>8. InstallOK'
  BY <1>4, <1>6, <1>7, WorkerSettled
<1>9. QED
  BY <1>4, <1>6, <1>8, WorkerArms DEF PhaseSteps

(* The handles are taken while no worker runs and no arm is claimed. *)
LEMMA CloseTakeArms ==
  ASSUME TypeInv, Control, Arms, NEW t \in Threads, CloseTake(t)
  PROVE  Arms'
<1>1. t \in Clients /\ t \notin Workers
  BY NotForeign, WorkerClient, ClientNoWorker DEF Arms, Foreign, CloseTake
<1>2. /\ pc[t] = "close_take" /\ Goto(t, "close_release") /\ OwnLocals(t) /\ hs' = hs
      /\ st'.acquiring = st.acquiring /\ st'.installing = st.installing /\ st'.thread = st.thread
      /\ st'.workerId = st.workerId
  BY DEF CloseTake, OwnLocals, TypeInv, DataOK, StateFields
<1>3. pc'[t] = "close_release" /\ stack'[t] = stack[t] /\ Unmoved(t) /\ Bystanders(t)
  BY <1>2, GotoForm DEF TypeInv, Goto, ControlOK, Unmoved
<1>4. Apart'
  BY <1>1, <1>3, ApartGoto DEF Arms, Foreign
<1>5. Stage(t) = "close_take" /\ Stage(t)' = "close_release" /\ (Telling(t)' <=> Telling(t))
  BY <1>2, <1>3 DEF Stage, Telling, Within
<1>6. ASSUME NEW u \in Threads, u # t
      PROVE  Stage(u)' = Stage(u) /\ loc'[u] = loc[u] /\ (Telling(u)' <=> Telling(u))
  BY <1>2, <1>3, <1>6, GotoOthers DEF Unmoved, OwnLocals
<1>7. ~st.installing /\ \A w \in Workers : Phase(w) \in {"none", "exited", "quit"}
  BY <1>5 DEF Arms, TeardownOK
<1>8. \A w \in Workers : Phase(w)' = Phase(w) /\ (Live(w)' <=> Live(w))
  BY <1>1, <1>3, GotoOthers, WorkerIds DEF Unmoved, Live
<1>9. ~st.acquiring
  BY <1>7 DEF Arms, AcquiringOK
<1>10. \A u \in Clients : u \in Threads
  BY DEF Threads
<1>11. NoTeardown' <=> NoTeardown
  BY <1>5, <1>6, <1>10 DEF NoTeardown, Joining, FinishSteps
<1>12. NoneLive' <=> NoneLive
  BY <1>8 DEF NoneLive
<1>13. \A w \in Workers : Installs(w) => Installs(w)'
  <2> SUFFICES ASSUME NEW w \in Workers, Installs(w) PROVE Installs(w)'
    OBVIOUS
  <2>1. PICK a \in Threads : InstallsBy(a, w)
    BY DEF Installs
  <2>2. a # t
    BY <1>5, <2>1 DEF InstallsBy
  <2>3. InstallsBy(a, w)'
    BY <1>2, <1>6, <2>1, <2>2 DEF InstallsBy
  <2>4. QED
    BY <2>3 DEF Installs
<1>14. WorkersOK'
  BY <1>2, <1>7, <1>8, <1>13 DEF Arms, WorkersOK
<1>15. AcquiringOK'
  BY <1>2, <1>7, <1>8, <1>9 DEF AcquiringOK
<1>16. ClaimOK'
  <2>1. \A u \in Threads : Stage(u)' \notin {"start_reset", "start_spawn"}
    BY <1>5, <1>6, <1>7 DEF Arms, ClaimOK
  <2>2. QED
    BY <1>2, <1>5, <1>6, <1>11, <1>12, <2>1 DEF Arms, ClaimOK
<1>17. InstallOK'
  <2>1. ASSUME NEW u \in Threads
        PROVE  /\ Stage(u)' \notin {"start_publish", "start_await", "start_fail", "start_commit",
                                    "start_tell", "start_release"}
               /\ ~Telling(u)'
    BY <1>5, <1>6, <1>7, <1>9 DEF Arms, InstallOK
  <2>2. ASSUME NEW u \in Threads, Stage(u)' = "start_join"
        PROVE  /\ st'.thread = NoThread /\ ~st'.acquiring /\ ~st'.installing /\ NoTeardown'
               /\ loc'[u].joinee \in Workers /\ Phase(loc[u].joinee)' \in {"quit", "exited"}
    <3>1. Stage(u) = "start_join" /\ loc'[u] = loc[u]
      BY <1>5, <1>6, <2>2
    <3>2. /\ st.thread = NoThread /\ ~st.acquiring /\ ~st.installing /\ NoTeardown
          /\ loc[u].joinee \in Workers /\ Phase(loc[u].joinee) \in {"quit", "exited"}
      BY <3>1 DEF Arms, InstallOK
    <3>3. QED
      BY <1>2, <1>8, <1>11, <3>1, <3>2
  <2>3. QED
    BY <2>1, <2>2 DEF InstallOK
<1>18. TeardownOK'
  <2>1. \A u \in Clients : Stage(u)' \in Joining \cup FinishSteps =>
          u # t /\ Stage(u)' = Stage(u) /\ loc'[u] = loc[u]
    BY <1>5, <1>6, <1>10 DEF Joining, FinishSteps
  <2>2. QED
    BY <1>2, <1>7, <1>8, <1>12, <2>1 DEF Arms, TeardownOK, FinishSteps
<1>19. QED
  BY <1>4, <1>14, <1>15, <1>16, <1>17, <1>18 DEF Arms


------------------------------------------------------------------------------
(* The connection: what one thread may change under another *)

LEMMA ResumeLocked ==
  ASSUME TypeInv, Control, NEW t \in Threads, Resume(t) \in Closers
  PROVE  lock.lifecycle = t
<1>1. stack[t] \in Seq(Returns)
  BY DEF TypeInv, ControlOK
<1>2. Resume(t) = pc[t] \/ \E i \in DOMAIN stack[t] : Resume(t) = stack[t][i]
  <2>1. CASE Resume(t) = Caller(t)
    <3>1. stack[t] # <<>> => 1 \in DOMAIN stack[t] /\ Caller(t) = stack[t][1]
      BY <1>1 DEF Caller
    <3>2. stack[t] = <<>> => Caller(t) \notin Closers
      BY DEF Caller, Closers
    <3>3. QED
      BY <2>1, <3>1, <3>2
  <2>2. CASE Resume(t) = Second(t)
    <3>1. Callers(t) # <<>> /\ stack[t] # <<>> /\ Callers(t) = Tail(stack[t])
      BY <2>2 DEF Second, Closers, Callers
    <3>2. 2 \in DOMAIN stack[t] /\ Second(t) = stack[t][2]
      BY <1>1, <3>1 DEF Second
    <3>3. QED
      BY <2>2, <3>2
  <2>3. QED
    BY <2>1, <2>2 DEF Resume
<1>3. Resume(t) \in LifeSteps
  BY DEF Closers, LifeSteps
<1>4. Count(t, LifeSteps) # 0
  BY <1>2, <1>3, CountTyped DEF TypeInv
<1>5. QED
  BY <1>4 DEF Control, LocksHeld

LEMMA ConnectionKept ==
  ASSUME TypeInv, Control, Connection, NEW t \in Threads, Bystanders(t), Linked(t)',
         st.closing /\ ~st'.closing => lock.lifecycle = t,
         st'.dispatching \in {st.dispatching, t, NoThread},
         \/ st'.initializing = st.initializing
         \/ st'.initializing = t /\ st.initializing = NoThread /\ ~st.closing
         \/ st'.initializing = NoThread /\ st.initializing = t,
         st'.device # st.device \/ dev'.open # dev.open => lock.lifecycle = t,
         st'.initializing # NoThread => st'.device, st'.device => dev'.open
  PROVE  Connection'
<1>1. t # NoThread
  BY ThreadsAssumption
<1>2. ASSUME NEW u \in Threads, u # t PROVE Linked(u)'
  <2>1. u # NoThread /\ stack'[u] = stack[u] /\ (pc'[u] = pc[u] \/ (pc[u] = "blocked" /\ pc'[u] = "take"))
    BY <1>2, ThreadsAssumption DEF Bystanders, Bystander
  <2>2. Caller(u)' = Caller(u) /\ Second(u)' = Second(u) /\ (Telling(u)' <=> Telling(u))
    BY <2>1 DEF Caller, Callers, Second, Telling, Within
  <2>3. Resume(u)' \in Closers => Resume(u)' = Resume(u)
    BY <2>1, <2>2 DEF Resume, Closers, RequestSteps, FinishSteps, TearSteps
  <2>4. Linked(u)
    BY DEF Connection
  <2>5. Resume(u) \in Closers => lock.lifecycle # t
    BY <1>2, ResumeLocked
  <2>6. pc[u] \in {"close_release", "open_publish", "open_read"} => lock.lifecycle # t
    BY <1>2, OwnerAt DEF Control, LifeSteps
  <2>7. Resume(u)' \in Closers => st'.closing /\ st'.dispatching # u
    BY <1>2, <2>1, <2>3, <2>4, <2>5 DEF Linked
  <2>8. Resume(u)' \in {"close_take", "close_release"} => st'.initializing = NoThread
    BY <1>2, <2>3, <2>4 DEF Linked, Closers
  <2>9. st'.dispatching = u => Telling(u)'
    BY <1>2, <2>1, <2>2, <2>4 DEF Linked
  <2>10. pc'[u] \in InitSteps <=> st'.initializing = u
    <3>1. pc'[u] \in InitSteps <=> pc[u] \in InitSteps
      BY <2>1 DEF InitSteps
    <3>2. st'.initializing = u <=> st.initializing = u
      BY <1>2, <2>1
    <3>3. QED
      BY <2>4, <3>1, <3>2 DEF Linked
  <2>11. /\ u \in Clients /\ pc'[u] \in RequestSteps => Caller(u)' \notin {"close_take", "start_check"}
         /\ pc'[u] = "close_release" => ~st'.device
         /\ pc'[u] = "open_publish" => dev'.open
         /\ pc'[u] = "open_read" => st'.device
    BY <2>1, <2>2, <2>4, <2>6 DEF Linked, RequestSteps
  <2>12. QED
    BY <2>7, <2>8, <2>9, <2>10, <2>11 DEF Linked
<1>3. QED
  BY <1>2 DEF Connection

SameLinks ==
  /\ st'.closing = st.closing /\ st'.dispatching = st.dispatching
  /\ st'.initializing = st.initializing /\ st'.device = st.device /\ dev'.open = dev.open

LEMMA LinksKept ==
  ASSUME TypeInv, Control, Connection, NEW t \in Threads, Bystanders(t), SameLinks,
         Telling(t) => Telling(t)', pc'[t] \in InitSteps <=> pc[t] \in InitSteps,
         Resume(t)' \in Closers => Resume(t)' = Resume(t),
         t \in Clients /\ pc'[t] \in RequestSteps => Caller(t)' \notin {"close_take", "start_check"},
         pc'[t] \notin {"close_release", "open_publish", "open_read"}
  PROVE  Connection'
<1>1. Linked(t)
  BY DEF Connection
<1>2. Linked(t)'
  <2>1. Resume(t)' \in Closers => st'.closing /\ st'.dispatching # t
    BY <1>1 DEF Linked, SameLinks
  <2>2. Resume(t)' \in {"close_take", "close_release"} => st'.initializing = NoThread
    BY <1>1 DEF Linked, SameLinks, Closers
  <2>3. st'.dispatching = t => Telling(t)'
    BY <1>1 DEF Linked, SameLinks
  <2>4. pc'[t] \in InitSteps <=> st'.initializing = t
    BY <1>1 DEF Linked, SameLinks
  <2>5. QED
    BY <2>1, <2>2, <2>3, <2>4 DEF Linked
<1>3. QED
  BY <1>2, ConnectionKept DEF SameLinks, Connection

(* The steps of a running stopAcquisition. *)
StopParts == {"stop_check", "stop_lock"} \cup TearSteps \cup RequestSteps \cup FinishSteps

LEMMA TellingGoto ==
  ASSUME NEW t \in Threads, stack'[t] = stack[t], pc[t] # "start_told"
  PROVE  Telling(t) => Telling(t)'
BY DEF Telling, Within

LEMMA TellingCall ==
  ASSUME TypeInv, NEW t \in Threads, NEW r, stack'[t] = <<r>> \o stack[t], pc[t] # "start_told"
  PROVE  Telling(t) => Telling(t)'
<1>1. stack[t] \in Seq(Returns)
  BY DEF TypeInv, ControlOK
<1>2. \A i \in DOMAIN stack[t] : i + 1 \in DOMAIN (<<r>> \o stack[t]) /\ (<<r>> \o stack[t])[i + 1] = stack[t][i]
  BY <1>1
<1>3. QED
  BY <1>2 DEF Telling, Within

LEMMA TellingReturn ==
  ASSUME TypeInv, NEW t \in Threads, pc'[t] = Caller(t), stack'[t] = Callers(t), pc[t] # "start_told"
  PROVE  Telling(t) => Telling(t)'
<1>1. stack[t] \in Seq(Returns)
  BY DEF TypeInv, ControlOK
<1>2. CASE stack[t] = <<>>
  BY <1>2 DEF Telling, Within
<1>3. CASE stack[t] # <<>>
  <2>1. pc'[t] = stack[t][1] /\ stack'[t] = Tail(stack[t])
    BY <1>1, <1>3 DEF Caller, Callers
  <2>2. \A i \in DOMAIN stack[t] : i = 1 \/ (i - 1 \in DOMAIN Tail(stack[t]) /\ Tail(stack[t])[i - 1] = stack[t][i])
    BY <1>1, <1>3
  <2>3. QED
    BY <2>1, <2>2 DEF Telling, Within
<1>4. QED
  BY <1>2, <1>3

LEMMA LinkGoto ==
  ASSUME TypeInv, Control, Connection, NEW t \in Threads, NEW q,
         Goto(t, q) \/ (NotifyAndGoto(t, q) /\ stack' = stack), SameLinks,
         pc[t] # "start_told", q \in InitSteps <=> pc[t] \in InitSteps,
         q \notin Closers \cup {"open_publish", "open_read"},
         \/ q \notin StopParts
         \/ pc[t] \in {"stop_check", "stop_lock"} \cup TearSteps /\ q \in {"stop_lock"} \cup TearSteps
         \/ pc[t] \in RequestSteps /\ q \in RequestSteps
         \/ pc[t] \in FinishSteps /\ q \in FinishSteps
         \/ stack[t] = <<>>
  PROVE  Connection'
<1>1. pc'[t] = q /\ stack'[t] = stack[t] /\ Bystanders(t)
  BY GotoForm, NotifyForm DEF TypeInv
<1>2. Telling(t) => Telling(t)'
  BY <1>1, TellingGoto
<1>3. Caller(t)' = Caller(t) /\ Second(t)' = Second(t)
  BY <1>1 DEF Caller, Callers, Second
<1>4. Resume(t)' \in Closers => Resume(t)' = Resume(t)
  <2>1. CASE q \notin StopParts
    BY <1>1, <2>1 DEF Resume, StopParts
  <2>2. CASE pc[t] \in {"stop_check", "stop_lock"} \cup TearSteps /\ q \in {"stop_lock"} \cup TearSteps
    BY <1>1, <1>3, <2>2 DEF Resume
  <2>3. CASE (pc[t] \in RequestSteps /\ q \in RequestSteps) \/ (pc[t] \in FinishSteps /\ q \in FinishSteps)
    BY <1>1, <1>3, <2>3 DEF Resume, RequestSteps, FinishSteps, TearSteps, Closers
  <2>4. CASE stack[t] = <<>>
    <3>1. Caller(t) \notin Closers \cup TearSteps
      BY <2>4 DEF Caller, Closers, TearSteps
    <3>2. QED
      BY <1>1, <1>3, <3>1 DEF Resume
  <2>5. QED
    BY <2>1, <2>2, <2>3, <2>4
<1>5. t \in Clients /\ pc'[t] \in RequestSteps => Caller(t)' \notin {"close_take", "start_check"}
  <2>1. q \in RequestSteps => pc[t] \in RequestSteps \/ stack[t] = <<>>
    BY DEF StopParts, RequestSteps, TearSteps, FinishSteps
  <2>2. stack[t] = <<>> => Caller(t) \notin {"close_take", "start_check"}
    BY DEF Caller
  <2>3. Linked(t)
    BY DEF Connection
  <2>4. QED
    BY <1>1, <1>3, <2>1, <2>2, <2>3 DEF Linked
<1>6. pc'[t] \notin {"close_release", "open_publish", "open_read"}
  BY <1>1 DEF Closers
<1>7. QED
  BY <1>1, <1>2, <1>4, <1>5, <1>6, LinksKept

LEMMA CalledFrom ==
  ASSUME TypeInv, NEW t \in Threads, NEW r, stack'[t] = <<r>> \o stack[t]
  PROVE  /\ Caller(t)' = r
         /\ Second(t)' = IF stack[t] # <<>> THEN Head(stack[t]) ELSE "idle"
<1>1. stack[t] \in Seq(Returns)
  BY DEF TypeInv, ControlOK
<1>2. stack'[t] # <<>> /\ Head(stack'[t]) = r /\ Tail(stack'[t]) = stack[t]
  BY <1>1
<1>3. QED
  BY <1>2 DEF Caller, Callers, Second

LEMMA LinkCall ==
  ASSUME TypeInv, Control, Connection, NEW t \in Threads, NEW q, NEW r \in Returns, Call(t, q, r),
         SameLinks, pc[t] \notin {"start_told"} \cup InitSteps,
         q \notin Closers \cup InitSteps \cup {"open_publish", "open_read"},
         q \in {"stop_check", "stop_lock"} \cup TearSteps => r \notin Closers,
         q \in RequestSteps \cup FinishSteps /\ r \in TearSteps =>
           pc[t] \in {"stop_check", "stop_lock"} \cup TearSteps,
         q \in RequestSteps => r \notin {"close_take", "start_check"}
  PROVE  Connection'
<1>1. pc'[t] = q /\ stack'[t] = <<r>> \o stack[t] /\ Bystanders(t)
  BY CallForm DEF TypeInv
<1>2. Telling(t) => Telling(t)'
  BY <1>1, TellingCall
<1>3. Caller(t)' = r /\ Second(t)' = IF stack[t] # <<>> THEN Head(stack[t]) ELSE "idle"
  BY <1>1, CalledFrom
<1>4. Resume(t)' \in Closers => Resume(t)' = Resume(t)
  <2>1. CASE q \in RequestSteps \cup FinishSteps /\ r \in TearSteps
    <3>1. Resume(t) = Caller(t)
      BY <2>1 DEF Resume
    <3>2. Resume(t)' = Second(t)'
      BY <1>1, <1>3, <2>1 DEF Resume, RequestSteps, FinishSteps, TearSteps
    <3>3. QED
      BY <1>3, <3>1, <3>2 DEF Caller, Closers
  <2>2. CASE ~(q \in RequestSteps \cup FinishSteps /\ r \in TearSteps)
    BY <1>1, <1>3, <2>2 DEF Resume
  <2>3. QED
    BY <2>1, <2>2
<1>5. pc'[t] \notin {"close_release", "open_publish", "open_read"}
  BY <1>1 DEF Closers
<1>6. QED
  BY <1>1, <1>2, <1>3, <1>4, <1>5, LinksKept

LEMMA LinkReturn ==
  ASSUME TypeInv, Control, Connection, NEW t \in Threads, Return(t) \/ NotifyAndReturn(t),
         SameLinks, pc[t] \notin {"start_told"} \cup InitSteps,
         \/ Caller(t) \notin TearSteps \cup {"close_take", "finish_end"}
         \/ Caller(t) \in TearSteps /\ pc[t] \in RequestSteps \cup FinishSteps
         \/ Caller(t) \notin StopParts /\ pc[t] = "stop_unlock"
  PROVE  Connection'
<1>1. pc'[t] = Caller(t) /\ stack'[t] = Callers(t) /\ Bystanders(t)
  BY ReturnForm, NotifyReturnForm DEF TypeInv
<1>2. Telling(t) => Telling(t)'
  BY <1>1, TellingReturn
<1>3. Caller(t) \in Returns \cup {"idle", "exited"}
  BY CallerRuns
<1>4. pc'[t] \notin {"close_release", "open_publish", "open_read"} \cup InitSteps \cup RequestSteps
  BY <1>1, <1>3 DEF Returns, InitSteps, RequestSteps
<1>5. Resume(t)' \in Closers => Resume(t)' = Resume(t)
  <2>1. CASE Caller(t) \notin TearSteps \cup {"close_take", "finish_end"}
    <3>1. Caller(t) \notin StopParts \cup Closers
      BY <1>3, <2>1 DEF Returns, StopParts, TearSteps, RequestSteps, FinishSteps, Closers
    <3>2. QED
      BY <1>1, <3>1 DEF Resume, StopParts
  <2>2. CASE Caller(t) \in TearSteps /\ pc[t] \in RequestSteps \cup FinishSteps
    <3>1. Resume(t) = Second(t)
      BY <2>2 DEF Resume, RequestSteps, FinishSteps, TearSteps
    <3>2. Resume(t)' = Caller(t)'
      BY <1>1, <2>2 DEF Resume
    <3>3. Caller(t)' = Second(t) \/ Caller(t)' \in {"idle", "exited"}
      BY <1>1 DEF Caller, Second
    <3>4. QED
      BY <3>1, <3>2, <3>3 DEF Closers
  <2>3. CASE Caller(t) \notin StopParts /\ pc[t] = "stop_unlock"
    BY <1>1, <2>3 DEF Resume, StopParts, TearSteps
  <2>4. QED
    BY <2>1, <2>2, <2>3
<1>6. QED
  BY <1>1, <1>2, <1>4, <1>5, LinksKept


------------------------------------------------------------------------------
(* The connection, step by step *)

LEMMA CallLinks ==
  ASSUME TypeInv, Control, Arms, Connection, NEW t \in Threads,
         ClientCall(t) \/ CallbackCall(t) \/ CallbackReturn(t)
  PROVE  Connection'
<1>1. SameLinks
  BY DEF SameLinks, ClientCall, CallbackCall, CallbackReturn
<1>2. \A op \in Ops :
        Entry[op] \notin Closers \cup InitSteps \cup TearSteps \cup FinishSteps
                           \cup {"open_publish", "open_read", "stop_lock"}
  BY DEF Ops, Entry, Closers, InitSteps, TearSteps, FinishSteps
<1>3. CASE ClientCall(t)
  <2>1. PICK op \in Ops : Goto(t, Entry[op]) /\ pc[t] = "idle"
    BY <1>3, OpsAssumption DEF ClientCall
  <2>2. stack[t] = <<>>
    <3>1. \A r \in Returns : "idle" \notin Body(r)
      BY DEF Returns, Body, ClientBase, ClientSteps, CloseSteps, StopSteps, RequestSteps, FinishSteps,
         CallbackSteps
    <3>2. QED
      BY <2>1, <3>1, CallerRuns
  <2>3. "idle" \notin InitSteps
    BY DEF InitSteps
  <2>4. QED
    BY <1>1, <1>2, <2>1, <2>2, <2>3, LinkGoto
<1>4. CASE CallbackCall(t)
  <2>1. PICK op \in Ops : Call(t, Entry[op], "callback_return") /\ pc[t] = "callback"
    BY <1>4, OpsAssumption DEF CallbackCall
  <2>2. /\ "callback_return" \in Returns /\ "callback_return" \notin Closers \cup TearSteps
        /\ "callback" \notin InitSteps
    BY DEF Returns, Closers, TearSteps, InitSteps
  <2>3. QED
    BY <1>1, <1>2, <2>1, <2>2, LinkCall
<1>5. CASE CallbackReturn(t)
  <2>1. Return(t) /\ pc[t] \in CallbackSteps /\ pc[t] \notin {"start_told"} \cup InitSteps
    BY <1>5 DEF CallbackReturn, CallbackSteps, InitSteps
  <2>2. Caller(t) \notin TearSteps \cup {"close_take"}
    BY <2>1, CallerRuns, Callees DEF TearSteps
  <2>3. CASE Caller(t) # "finish_end"
    BY <1>1, <2>1, <2>2, <2>3, LinkReturn
  <2>4. CASE Caller(t) = "finish_end"
    <3>1. stack[t] \in Seq(Returns) /\ Chained(t)
      BY DEF TypeInv, ControlOK, Control
    <3>2. stack[t] # <<>> /\ 1 \in DOMAIN stack[t] /\ stack[t][1] = "finish_end"
      BY <2>4, <3>1 DEF Caller
    <3>3. t \in Workers
      <4>1. Frames(stack[t], {"finish_end"}) # 0
        BY <3>1, <3>2, FramesNone
      <4>2. QED
        BY <4>1, WorkerClient DEF Arms, Apart
    <3>4. 2 \notin DOMAIN stack[t]
      <4>1. SUFFICES ASSUME 2 \in DOMAIN stack[t] PROVE FALSE
        OBVIOUS
      <4>2. stack[t][2] \in Returns /\ "finish_end" \in Body(stack[t][2])
        BY <3>1, <3>2, <4>1 DEF Chained, Inside
      <4>3. stack[t][2] = "stop_unlock"
        BY <4>2, Callees DEF FinishSteps
      <4>4. stack[t][2] \notin Foreign
        BY <3>3, <4>1, CountTyped DEF Arms, Apart, TypeInv
      <4>5. QED
        BY <4>3, <4>4 DEF Foreign, TearSteps
    <3>5. pc'[t] = "finish_end" /\ stack'[t] = <<>> /\ Bystanders(t)
      <4>1. Tail(stack[t]) = <<>>
        BY <3>1, <3>2, <3>4
      <4>2. QED
        BY <2>1, <2>4, <3>2, <4>1, ReturnForm DEF TypeInv, Callers
    <3>6. Resume(t)' \notin Closers
      BY <3>5 DEF Resume, Caller, TearSteps, RequestSteps, FinishSteps, Closers
    <3>7. Telling(t) => Telling(t)'
      BY <2>1, ReturnForm, TellingReturn DEF TypeInv
    <3>8. t \notin Clients
      BY <3>3, ClientNoWorker
    <3>9. QED
      BY <1>1, <2>1, <3>5, <3>6, <3>7, <3>8, LinksKept DEF InitSteps
  <2>5. QED
    BY <2>3, <2>4
<1>6. QED
  BY <1>3, <1>4, <1>5

(* A step that returns from an operation outside stopAcquisition. *)
LEMMA LeaveLinks ==
  ASSUME TypeInv, Control, Connection, NEW t \in Threads, Return(t) \/ NotifyAndReturn(t), SameLinks,
         pc[t] \in (FreeSteps \ InitSteps) \cup {"lifecycle_unlock", "start_unlock"}
  PROVE  Connection'
<1>1. Caller(t) \in {"open_handles", "callback_return", "idle", "exited"}
  BY CallerRuns, Callees DEF CloseSteps, ArmSteps
<1>2. pc[t] \notin {"start_told"} \cup InitSteps
  BY DEF FreeSteps, InitSteps
<1>3. QED
  BY <1>1, <1>2, LinkReturn DEF TearSteps

(* A client that is told to stop from its own status callback is neither in *)
(* startAcquisition's stop nor in close's.                                  *)
LEMMA DeferredStop ==
  ASSUME TypeInv, Control, Arms, Connection, NEW t \in Clients, pc[t] = "stop_check",
         IsCallbackThread(t)
  PROVE  Caller(t) \notin {"close_take", "start_check"}
<1>1. t \in Threads /\ t \notin Workers /\ t # NoThread
  BY ClientNoWorker, ThreadsAssumption DEF Threads
<1>2. st.dispatching = t
  BY <1>1 DEF IsCallbackThread, TypeInv, DataOK, StateFields
<1>3. Linked(t)
  BY <1>1 DEF Connection
<1>4. Telling(t)
  BY <1>2, <1>3 DEF Linked
<1>5. Caller(t) # "close_take"
  BY <1>2, <1>3 DEF Linked, Resume, Closers
<1>6. ASSUME Caller(t) = "start_check" PROVE FALSE
  <2>1. stack[t] \in Seq(Returns) /\ stack[t] # <<>> /\ Head(stack[t]) = "start_check"
    BY <1>1, <1>6 DEF TypeInv, ControlOK, Caller
  <2>2. Tail(stack[t]) \in Seq(Returns)
    BY <2>1
  <2>3. /\ Frames(stack[t], ArmSteps) = Frames(Tail(stack[t]), ArmSteps) + 1
        /\ Frames(Tail(stack[t]), ArmSteps) \in Nat /\ Frames(stack[t], ArmSteps) \in Nat
    <3>1. Head(stack[t]) \in ArmSteps
      BY <2>1 DEF ArmSteps
    <3>2. Frames(stack[t], ArmSteps) = Frames(Tail(stack[t]), ArmSteps) + One(Head(stack[t]) \in ArmSteps)
      BY <2>1, FramesPop
    <3>3. Frames(Tail(stack[t]), ArmSteps) \in Nat /\ Frames(stack[t], ArmSteps) \in Nat
      BY <2>1, <2>2, FramesFinite
    <3>4. QED
      BY <3>1, <3>2, <3>3 DEF One
  <2>4. Count(t, ArmSteps) \in {0, 1}
    BY <1>1 DEF Control, LocksHeld, One
  <2>5. Frames(Tail(stack[t]), ArmSteps) = 0
    BY <2>3, <2>4 DEF Count, One
  <2>6. \A i \in DOMAIN Tail(stack[t]) : Tail(stack[t])[i] \notin ArmSteps
    BY <2>2, <2>5, FramesNone
  <2>7. \A i \in DOMAIN stack[t] : i = 1 \/ (i - 1 \in DOMAIN Tail(stack[t]) /\ Tail(stack[t])[i - 1] = stack[t][i])
    BY <2>1
  <2>8. stack[t][1] = "start_check"
    BY <2>1
  <2>9. \A i \in DOMAIN stack[t] : stack[t][i] # "start_told"
    BY <2>6, <2>7, <2>8 DEF ArmSteps
  <2>10. QED
    BY <1>4, <2>9 DEF Telling, Within
<1>7. QED
  BY <1>5, <1>6

LEMMA StopLinks ==
  ASSUME TypeInv, Control, Arms, Connection, NEW t \in Threads,
         StopCheck(t) \/ StopLock(t) \/ StopWait(t) \/ StopSignal(t) \/ StopJoin(t) \/ StopUnlock(t)
  PROVE  Connection'
<1>1. SameLinks
  BY DEF TypeInv, DataOK, StateFields, SameLinks, StopCheck, StopLock, StopWait, StopSignal, StopJoin,
     StopUnlock
<1>2. CASE StopCheck(t)
  <2>1. pc[t] = "stop_check"
    BY <1>2 DEF StopCheck
  <2>2. CASE Goto(t, "stop_lock")
    BY <1>1, <2>1, <2>2, LinkGoto DEF InitSteps, Closers
  <2>3. CASE Goto(t, "request_flag") /\ IsCallbackThread(t)
    <3>1. pc'[t] = "request_flag" /\ stack'[t] = stack[t] /\ Bystanders(t)
      BY <2>3, GotoForm DEF TypeInv
    <3>2. Telling(t) => Telling(t)'
      BY <2>1, <3>1, TellingGoto
    <3>3. Caller(t)' = Caller(t)
      BY <3>1 DEF Caller
    <3>4. Caller(t) \notin TearSteps
      BY <2>1, CallerRuns, Callees DEF StopSteps, RequestSteps, TearSteps
    <3>5. Resume(t)' \notin Closers
      BY <3>1, <3>3, <3>4 DEF Resume, TearSteps, RequestSteps, Closers
    <3>6. t \in Clients => Caller(t)' \notin {"close_take", "start_check"}
      BY <2>1, <2>3, <3>3, DeferredStop
    <3>7. QED
      BY <1>1, <2>1, <3>1, <3>2, <3>5, <3>6, LinksKept DEF InitSteps
  <2>4. QED
    BY <1>2, <2>2, <2>3 DEF StopCheck
<1>3. CASE StopLock(t)
  BY <1>1, <1>3, LinkCall DEF StopLock, InitSteps, Closers, TearSteps, RequestSteps, Returns
<1>4. CASE StopWait(t)
  BY <1>1, <1>4, LinkGoto DEF StopWait, InitSteps, Closers, TearSteps
<1>5. CASE StopSignal(t)
  BY <1>1, <1>5, LinkGoto DEF StopSignal, InitSteps, Closers, TearSteps
<1>6. CASE StopJoin(t)
  BY <1>1, <1>6, LinkCall DEF StopJoin, InitSteps, Closers, TearSteps, RequestSteps, Returns
<1>7. CASE StopUnlock(t)
  <2>1. pc[t] = "stop_unlock" /\ Return(t)
    BY <1>7 DEF StopUnlock
  <2>2. Caller(t) \notin StopParts
    BY <2>1, CallerRuns, Callees DEF StopSteps, RequestSteps, StopParts, TearSteps, FinishSteps
  <2>3. QED
    BY <1>1, <2>1, <2>2, LinkReturn DEF InitSteps
<1>8. QED
  BY <1>2, <1>3, <1>4, <1>5, <1>6, <1>7

LEMMA RequestLinks ==
  ASSUME TypeInv, Control, Arms, Connection, NEW t \in Threads, RequestFlag(t) \/ RequestNotify(t)
  PROVE  Connection'
<1>1. SameLinks /\ pc[t] \in RequestSteps
  BY DEF SameLinks, RequestFlag, RequestNotify, RequestSteps
<1>2. CASE Goto(t, "request_notify")
  BY <1>1, <1>2, LinkGoto DEF InitSteps, Closers, RequestSteps
<1>3. CASE Return(t) \/ NotifyAndReturn(t)
  <2>1. Caller(t) \in {"lifecycle_unlock", "stop_wait", "close_take", "start_check", "callback_return",
                       "idle", "exited"}
    BY <1>1, CallerRuns, Callees
  <2>2. Caller(t) # "close_take"
    <3>1. t \in Workers => Caller(t) # "close_take"
      <4>1. stack[t] = <<>> => Caller(t) # "close_take"
        BY DEF Caller
      <4>2. QED
        BY <4>1, NotForeign DEF Arms, Foreign
    <3>2. t \in Clients => Caller(t) # "close_take"
      BY <1>1 DEF Connection, Linked
    <3>3. QED
      BY <3>1, <3>2, WorkerClient
  <2>3. pc[t] \notin {"start_told"} \cup InitSteps
    BY <1>1 DEF RequestSteps, InitSteps
  <2>4. QED
    BY <1>1, <1>3, <2>1, <2>2, <2>3, LinkReturn DEF TearSteps
<1>4. QED
  BY <1>2, <1>3 DEF RequestFlag, RequestNotify

LEMMA FinishLinks ==
  ASSUME TypeInv, Control, Arms, Connection, NEW t \in Threads,
         FinishState(t) \/ FinishTrigger(t) \/ FinishTell(t) \/ FinishEnd(t)
  PROVE  Connection'
<1>1. SameLinks /\ pc[t] \in FinishSteps
  BY DEF TypeInv, DataOK, StateFields, SameLinks, FinishState, FinishTrigger, FinishTell, FinishEnd,
     FinishSteps
<1>2. pc[t] \notin {"start_told"} \cup InitSteps
  BY <1>1 DEF FinishSteps, InitSteps
<1>3. CASE \E q \in FinishSteps : Goto(t, q)
  <2>1. PICK q \in FinishSteps : Goto(t, q)
    BY <1>3
  <2>2. q \notin Closers \cup InitSteps \cup {"open_publish", "open_read"}
    BY DEF Closers, InitSteps, FinishSteps
  <2>3. QED
    BY <1>1, <1>2, <2>1, <2>2, LinkGoto
<1>4. CASE Call(t, "callback", "finish_end")
  BY <1>1, <1>2, <1>4, LinkCall DEF Returns, Closers, InitSteps, TearSteps, RequestSteps, FinishSteps
<1>5. CASE FinishEnd(t)
  <2>1. Return(t) /\ pc[t] = "finish_end"
    BY <1>5 DEF FinishEnd
  <2>2. CASE t \in Clients
    BY <1>1, <1>2, <2>1, <2>2, ClientFinish, LinkReturn DEF TearSteps
  <2>3. CASE t \in Workers
    <3>1. Caller(t) = "exited"
      BY <1>1, <2>3, AtBase DEF Arms, WorkerBase, Caller
    <3>2. QED
      BY <1>1, <1>2, <2>1, <3>1, LinkReturn DEF TearSteps
  <2>4. QED
    BY <2>2, <2>3, WorkerClient
<1>6. QED
  BY <1>3, <1>4, <1>5 DEF FinishState, FinishTrigger, FinishTell, FinishSteps

LEMMA AccessLinks ==
  ASSUME TypeInv, Control, Arms, Connection, NEW t \in Threads,
         TriggerCheck(t) \/ TriggerQueue(t) \/ Feature(t) \/ Cancel(t)
  PROVE  Connection'
<1>1. SameLinks /\ pc[t] \in FreeSteps \ InitSteps
  BY DEF TypeInv, DataOK, DeviceFields, SameLinks, TriggerCheck, TriggerQueue, Feature, Cancel, FreeSteps,
     InitSteps
<1>2. CASE Goto(t, "trigger_queue")
  BY <1>1, <1>2, LinkGoto DEF InitSteps, Closers, StopParts, TearSteps, RequestSteps, FinishSteps, FreeSteps
<1>3. CASE Return(t) \/ NotifyAndReturn(t)
  BY <1>1, <1>3, LeaveLinks
<1>4. QED
  BY <1>2, <1>3 DEF TriggerCheck, TriggerQueue, Feature, Cancel


LEMMA InitLinks ==
  ASSUME TypeInv, Control, Connection, NEW t \in Threads,
         InitAdmit(t) \/ InitCommand(t) \/ InitPoll(t) \/ InitEnd(t)
  PROVE  Connection'
<1>0. t # NoThread /\ Linked(t)
  BY ThreadsAssumption DEF Connection
<1>1. CASE InitAdmit(t) /\ ~InitAdmitted
  <2>1. SameLinks /\ Return(t) /\ pc[t] \in FreeSteps \ InitSteps
    BY <1>1 DEF InitAdmit, SameLinks, FreeSteps, InitSteps
  <2>2. QED
    BY <2>1, LeaveLinks
<1>2. CASE InitAdmit(t) /\ InitAdmitted
  <2>1. /\ pc[t] = "init_admit" /\ Goto(t, "init_command") /\ st'.initializing = t /\ dev' = dev
        /\ st'.closing = st.closing /\ st'.dispatching = st.dispatching /\ st'.device = st.device
        /\ ~st.closing /\ st.device /\ st.initializing = NoThread
    BY <1>2 DEF InitAdmit, InitAdmitted, TypeInv, DataOK, StateFields
  <2>2. pc'[t] = "init_command" /\ stack'[t] = stack[t] /\ Bystanders(t)
    BY <2>1, GotoForm DEF TypeInv
  <2>3. Telling(t) => Telling(t)'
    BY <2>1, <2>2, TellingGoto
  <2>4. Resume(t)' \notin Closers
    BY <2>2 DEF Resume, TearSteps, RequestSteps, FinishSteps, Closers
  <2>5. Linked(t)'
    BY <1>0, <2>1, <2>2, <2>3, <2>4 DEF Linked, InitSteps, RequestSteps, Closers
  <2>6. QED
    BY <2>1, <2>2, <2>5, ConnectionKept DEF Connection
<1>3. CASE InitCommand(t) \/ InitPoll(t)
  <2>1. SameLinks
    BY <1>3 DEF SameLinks, InitCommand, InitPoll
  <2>2. PICK q \in {"init_poll", "init_end"} : Goto(t, q) /\ pc[t] \in {"init_command", "init_poll"}
    BY <1>3 DEF InitCommand, InitPoll
  <2>3. QED
    BY <2>1, <2>2, LinkGoto DEF InitSteps, Closers, StopParts, TearSteps, RequestSteps, FinishSteps
<1>4. CASE InitEnd(t)
  <2>1. /\ pc[t] = "init_end" /\ Return(t) /\ st'.initializing = NoThread /\ dev' = dev
        /\ st'.closing = st.closing /\ st'.dispatching = st.dispatching /\ st'.device = st.device
    BY <1>4 DEF InitEnd, TypeInv, DataOK, StateFields
  <2>2. pc'[t] = Caller(t) /\ stack'[t] = Callers(t) /\ Bystanders(t)
    BY <2>1, ReturnForm DEF TypeInv
  <2>3. Telling(t) => Telling(t)'
    BY <2>1, <2>2, TellingReturn
  <2>4. Caller(t) \in {"open_handles", "callback_return", "idle", "exited"}
    BY <2>1, CallerRuns, Callees DEF FreeSteps
  <2>5. Resume(t)' \notin Closers
    BY <2>2, <2>4 DEF Resume, TearSteps, RequestSteps, FinishSteps, Closers
  <2>6. st.initializing = t
    BY <1>0, <2>1 DEF Linked, InitSteps
  <2>7. Linked(t)'
    BY <1>0, <2>1, <2>2, <2>3, <2>4, <2>5 DEF Linked, InitSteps, RequestSteps, Closers
  <2>8. QED
    BY <2>1, <2>2, <2>6, <2>7, ConnectionKept DEF Connection
<1>5. QED
  BY <1>1, <1>2, <1>3, <1>4

(* The steps of close that change neither the handles nor who is closing. *)
LEMMA LifecycleLinks ==
  ASSUME TypeInv, Control, Connection, NEW t \in Threads,
         CloseLock(t) \/ CloseCancel(t) \/ LifecycleUnlock(t) \/ OpenLock(t) \/ OpenRead(t) \/ OpenCheck(t)
  PROVE  Connection'
<1>1. SameLinks
  BY DEF SameLinks, CloseLock, CloseCancel, LifecycleUnlock, OpenLock, OpenRead, OpenCheck
<1>2. CASE CloseLock(t) \/ CloseCancel(t) \/ OpenCheck(t)
  <2>1. PICK q \in {"close_cancel", "close_claim", "lifecycle_unlock"} :
          Goto(t, q) /\ pc[t] \in {"close_lock", "close_cancel", "open_check"}
    BY <1>2 DEF CloseLock, CloseCancel, OpenCheck
  <2>2. QED
    BY <1>1, <2>1, LinkGoto DEF InitSteps, Closers, StopParts, TearSteps, RequestSteps, FinishSteps
<1>3. CASE LifecycleUnlock(t)
  BY <1>1, <1>3, LeaveLinks DEF LifecycleUnlock
<1>4. CASE OpenLock(t)
  BY <1>1, <1>4, LinkCall DEF OpenLock, InitSteps, Closers, TearSteps, RequestSteps, FinishSteps, Returns
<1>5. CASE OpenRead(t)
  BY <1>1, <1>5, LinkCall DEF OpenRead, InitSteps, Closers, TearSteps, RequestSteps, FinishSteps, Returns
<1>6. QED
  BY <1>2, <1>3, <1>4, <1>5

(* close claims the device, waits, and takes the handles. *)
LEMMA CloseLinks ==
  ASSUME TypeInv, Control, Arms, Connection, NEW t \in Threads,
         CloseClaim(t) \/ CloseWait(t) \/ CloseTake(t) \/ CloseRelease(t) \/ CloseEnd(t)
  PROVE  Connection'
<1>0. t # NoThread /\ Linked(t)
  BY ThreadsAssumption DEF Connection
<1>1. CASE CloseClaim(t) /\ DefersClose(t)
  <2>1. SameLinks
    BY <1>1 DEF SameLinks, CloseClaim
  <2>2. QED
    BY <1>1, <2>1, LinkCall
       DEF CloseClaim, InitSteps, Closers, TearSteps, RequestSteps, FinishSteps, Returns
<1>2. CASE CloseClaim(t) /\ ~DefersClose(t)
  <2>1. /\ pc[t] = "close_claim" /\ Goto(t, "close_wait") /\ st'.closing /\ dev' = dev
        /\ st'.dispatching = st.dispatching /\ st'.device = st.device
        /\ st'.initializing = st.initializing /\ st.dispatching # t
    BY <1>2 DEF CloseClaim, DefersClose, IsCallbackThread, TypeInv, DataOK, StateFields
  <2>2. pc'[t] = "close_wait" /\ stack'[t] = stack[t] /\ Bystanders(t)
    BY <2>1, GotoForm DEF TypeInv
  <2>3. Resume(t)' = "close_wait"
    BY <2>2 DEF Resume, TearSteps, RequestSteps, FinishSteps
  <2>4. Linked(t)'
    BY <1>0, <2>1, <2>2, <2>3 DEF Linked, InitSteps, RequestSteps
  <2>5. QED
    BY <2>1, <2>2, <2>4, ConnectionKept DEF Connection
<1>3. CASE CloseWait(t)
  <2>1. /\ pc[t] = "close_wait" /\ Call(t, "stop_check", "close_take") /\ st' = st /\ dev' = dev
        /\ st.initializing = NoThread
    BY <1>3 DEF CloseWait, InitializationOver
  <2>2. pc'[t] = "stop_check" /\ stack'[t] = <<"close_take">> \o stack[t] /\ Bystanders(t)
    BY <2>1, CallForm DEF TypeInv
  <2>3. Resume(t)' = "close_take" /\ Resume(t) = "close_wait"
    BY <2>1, <2>2, CalledFrom DEF Resume, TearSteps, RequestSteps, FinishSteps
  <2>4. Telling(t) => Telling(t)'
    BY <2>1, <2>2, TellingCall
  <2>5. Linked(t)'
    BY <1>0, <2>1, <2>2, <2>3, <2>4 DEF Linked, InitSteps, RequestSteps, Closers
  <2>6. QED
    BY <2>1, <2>2, <2>5, ConnectionKept DEF Connection
<1>4. CASE CloseTake(t)
  <2>1. /\ pc[t] = "close_take" /\ Goto(t, "close_release") /\ ~st'.device /\ dev' = dev
        /\ st'.closing = st.closing /\ st'.dispatching = st.dispatching
        /\ st'.initializing = st.initializing
    BY <1>4 DEF CloseTake, TypeInv, DataOK, StateFields
  <2>2. pc'[t] = "close_release" /\ stack'[t] = stack[t] /\ Bystanders(t)
    BY <2>1, GotoForm DEF TypeInv
  <2>3. Resume(t)' = "close_release" /\ Resume(t) = "close_take"
    BY <2>1, <2>2 DEF Resume, TearSteps, RequestSteps, FinishSteps
  <2>4. st.closing /\ st.dispatching # t /\ st.initializing = NoThread /\ lock.lifecycle = t
    BY <1>0, <2>1, <2>3, OwnerAt DEF Linked, Closers, Control, LifeSteps
  <2>5. Linked(t)'
    BY <1>0, <2>1, <2>2, <2>3, <2>4 DEF Linked, InitSteps, RequestSteps
  <2>6. QED
    BY <2>1, <2>2, <2>4, <2>5, ConnectionKept
<1>5. CASE CloseRelease(t)
  <2>1. pc[t] = "close_release" /\ st' = st /\ lock.lifecycle = t /\ ~st.device
    BY <1>0, <1>5, OwnerAt DEF CloseRelease, Linked, Control, LifeSteps
  <2>2. CASE Call(t, "callback", "close_end")
    <3>1. pc'[t] = "callback" /\ stack'[t] = <<"close_end">> \o stack[t] /\ Bystanders(t)
      BY <2>2, CallForm DEF TypeInv
    <3>2. Telling(t) => Telling(t)'
      BY <2>1, <3>1, TellingCall
    <3>3. Resume(t)' \notin Closers
      BY <3>1 DEF Resume, TearSteps, RequestSteps, FinishSteps, Closers
    <3>4. Linked(t)'
      BY <1>0, <2>1, <3>1, <3>2, <3>3 DEF Linked, InitSteps, RequestSteps, Closers
    <3>5. QED
      BY <2>1, <3>1, <3>4, ConnectionKept DEF Connection
  <2>3. CASE Goto(t, "close_end")
    <3>1. pc'[t] = "close_end" /\ stack'[t] = stack[t] /\ Bystanders(t)
      BY <2>3, GotoForm DEF TypeInv
    <3>2. Telling(t) => Telling(t)'
      BY <2>1, <3>1, TellingGoto
    <3>3. Resume(t)' \notin Closers
      BY <3>1 DEF Resume, TearSteps, RequestSteps, FinishSteps, Closers
    <3>4. Linked(t)'
      BY <1>0, <2>1, <3>1, <3>2, <3>3 DEF Linked, InitSteps, RequestSteps, Closers
    <3>5. QED
      BY <2>1, <3>1, <3>4, ConnectionKept DEF Connection
  <2>4. QED
    BY <1>5, <2>2, <2>3 DEF CloseRelease
<1>6. CASE CloseEnd(t)
  <2>1. /\ pc[t] = "close_end" /\ Goto(t, "lifecycle_unlock") /\ dev' = dev
        /\ st'.device = st.device /\ st'.dispatching = st.dispatching
        /\ st'.initializing = st.initializing /\ lock.lifecycle = t
    BY <1>6, OwnerAt DEF CloseEnd, TypeInv, DataOK, StateFields, Control, LifeSteps
  <2>2. pc'[t] = "lifecycle_unlock" /\ stack'[t] = stack[t] /\ Bystanders(t)
    BY <2>1, GotoForm DEF TypeInv
  <2>3. Telling(t) => Telling(t)'
    BY <2>1, <2>2, TellingGoto
  <2>4. Resume(t)' \notin Closers
    BY <2>2 DEF Resume, TearSteps, RequestSteps, FinishSteps, Closers
  <2>5. Linked(t)'
    BY <1>0, <2>1, <2>2, <2>3, <2>4 DEF Linked, InitSteps, RequestSteps, Closers
  <2>6. QED
    BY <2>1, <2>2, <2>5, ConnectionKept DEF Connection
<1>7. QED
  BY <1>1, <1>2, <1>3, <1>4, <1>5, <1>6

LEMMA OpenLinks ==
  ASSUME TypeInv, Control, Arms, Connection, NEW t \in Threads, OpenHandles(t) \/ OpenPublish(t)
  PROVE  Connection'
<1>0. t # NoThread /\ Linked(t)
  BY ThreadsAssumption DEF Connection
<1>1. CASE OpenHandles(t) /\ Goto(t, "lifecycle_unlock")
  <2>1. SameLinks /\ pc[t] = "open_handles"
    <3>1. pc'[t] = "lifecycle_unlock"
      BY <1>1, GotoForm DEF TypeInv
    <3>2. ~Goto(t, "open_publish")
      BY <3>1 DEF Goto, TypeInv, ControlOK
    <3>3. QED
      BY <1>1, <3>2 DEF OpenHandles, SameLinks
  <2>2. QED
    BY <1>1, <2>1, LinkGoto DEF InitSteps, Closers, StopParts, TearSteps, RequestSteps, FinishSteps
<1>2. CASE OpenHandles(t) /\ ~Goto(t, "lifecycle_unlock")
  <2>1. /\ pc[t] = "open_handles" /\ Goto(t, "open_publish") /\ st' = st /\ dev'.open /\ ~st.device
        /\ lock.lifecycle = t
    BY <1>2, OwnerAt DEF OpenHandles, TypeInv, DataOK, DeviceFields, Control, LifeSteps
  <2>2. pc'[t] = "open_publish" /\ stack'[t] = stack[t] /\ Bystanders(t)
    BY <2>1, GotoForm DEF TypeInv
  <2>3. Telling(t) => Telling(t)'
    BY <2>1, <2>2, TellingGoto
  <2>4. Resume(t)' \notin Closers
    BY <2>2 DEF Resume, TearSteps, RequestSteps, FinishSteps, Closers
  <2>5. Linked(t)'
    BY <1>0, <2>1, <2>2, <2>3, <2>4 DEF Linked, InitSteps, RequestSteps, Closers
  <2>6. QED
    BY <2>1, <2>2, <2>5, ConnectionKept DEF Connection
<1>3. CASE OpenPublish(t)
  <2>1. /\ pc[t] = "open_publish" /\ Goto(t, "open_read") /\ st'.device /\ dev' = dev /\ dev.open
        /\ st'.closing = st.closing /\ st'.dispatching = st.dispatching
        /\ st'.initializing = st.initializing /\ lock.lifecycle = t
    BY <1>0, <1>3, OwnerAt DEF OpenPublish, Linked, TypeInv, DataOK, StateFields, Control, LifeSteps
  <2>2. pc'[t] = "open_read" /\ stack'[t] = stack[t] /\ Bystanders(t)
    BY <2>1, GotoForm DEF TypeInv
  <2>3. Telling(t) => Telling(t)'
    BY <2>1, <2>2, TellingGoto
  <2>4. Resume(t)' \notin Closers
    BY <2>2 DEF Resume, TearSteps, RequestSteps, FinishSteps, Closers
  <2>5. Linked(t)'
    BY <1>0, <2>1, <2>2, <2>3, <2>4 DEF Linked, InitSteps, RequestSteps, Closers
  <2>6. QED
    BY <2>1, <2>2, <2>5, ConnectionKept DEF Connection
<1>4. QED
  BY <1>1, <1>2, <1>3

LEMMA ArmLinks ==
  ASSUME TypeInv, Control, Connection, NEW t \in Threads,
         StartCheck(t) \/ StartRejected(t) \/ StartInvalid(t) \/ StartPrearm(t) \/ StartReset(t) \/
         StartSpawnFailed(t) \/ StartPublish(t) \/ StartAwait(t) \/ StartFail(t) \/ StartJoin(t) \/
         StartCommit(t) \/ StartRelease(t)
  PROVE  Connection'
<1>1. SameLinks
  <2>1. CASE StartCheck(t) \/ StartRejected(t) \/ StartReset(t) \/ StartAwait(t) \/ StartJoin(t) \/
             StartRelease(t)
    BY <2>1 DEF SameLinks, StartCheck, StartRejected, StartReset, StartAwait, StartJoin, StartRelease
  <2>2. CASE StartInvalid(t) \/ StartPrearm(t)
    BY <2>2 DEF TypeInv, DataOK, StateFields, DeviceFields, SameLinks, StartInvalid, StartPrearm
  <2>3. CASE StartSpawnFailed(t) \/ StartPublish(t) \/ StartFail(t) \/ StartCommit(t)
    BY <2>3 DEF TypeInv, DataOK, StateFields, SameLinks, StartSpawnFailed, StartPublish, StartFail,
       StartCommit
  <2>4. QED
    BY <2>1, <2>2, <2>3
<1>2. PICK q \in ArmSteps : Goto(t, q) /\ pc[t] \in ArmSteps \ {"start_told"}
  BY DEF StartCheck, StartRejected, StartInvalid, StartPrearm, StartReset, StartSpawnFailed,
     StartPublish, StartAwait, StartFail, StartJoin, StartCommit, StartRelease, ArmSteps
<1>3. /\ q \notin Closers \cup {"open_publish", "open_read"} \cup StopParts \cup InitSteps
      /\ pc[t] \notin InitSteps
  BY <1>2 DEF ArmSteps, Closers, InitSteps, StopParts, TearSteps, RequestSteps, FinishSteps
<1>4. QED
  BY <1>1, <1>2, <1>3, LinkGoto

(* The thread that reports an acquisition active, and the arm around it. *)
LEMMA TellLinks ==
  ASSUME TypeInv, Control, Arms, Connection, NEW t \in Threads,
         StartLock(t) \/ StartTell(t) \/ StartTold(t) \/ StartUnlock(t)
  PROVE  Connection'
<1>0. t # NoThread /\ Linked(t)
  BY ThreadsAssumption DEF Connection
<1>1. CASE StartLock(t) /\ Return(t)
  <2>1. SameLinks /\ pc[t] \in FreeSteps \ InitSteps
    BY <1>1 DEF StartLock, SameLinks, FreeSteps, InitSteps
  <2>2. QED
    BY <1>1, <2>1, LeaveLinks
<1>2. CASE StartLock(t) /\ Call(t, "stop_check", "start_check")
  <2>1. SameLinks /\ pc[t] = "start_lock"
    BY <1>2 DEF StartLock, SameLinks
  <2>2. QED
    BY <1>2, <2>1, LinkCall DEF InitSteps, Closers, TearSteps, RequestSteps, FinishSteps, Returns
<1>3. CASE StartTell(t)
  <2>1. /\ pc[t] = "start_tell" /\ Call(t, "callback", "start_told") /\ dev' = dev
        /\ st'.dispatching = t /\ st'.closing = st.closing /\ st'.initializing = st.initializing
        /\ st'.device = st.device
    BY <1>3 DEF StartTell, TypeInv, DataOK, StateFields
  <2>2. pc'[t] = "callback" /\ stack'[t] = <<"start_told">> \o stack[t] /\ Bystanders(t)
    BY <2>1, CallForm DEF TypeInv
  <2>3. Telling(t)'
    <3>1. stack[t] \in Seq(Returns)
      BY DEF TypeInv, ControlOK
    <3>2. 1 \in DOMAIN (<<"start_told">> \o stack[t]) /\ (<<"start_told">> \o stack[t])[1] = "start_told"
      BY <3>1
    <3>3. QED
      BY <2>2, <3>2 DEF Telling, Within
  <2>4. Resume(t)' \notin Closers
    BY <2>2 DEF Resume, TearSteps, RequestSteps, FinishSteps, Closers
  <2>5. Linked(t)'
    BY <1>0, <2>1, <2>2, <2>3, <2>4 DEF Linked, InitSteps, RequestSteps, Closers
  <2>6. QED
    BY <2>1, <2>2, <2>5, ConnectionKept DEF Connection
<1>4. CASE StartTold(t)
  <2>1. /\ pc[t] = "start_told" /\ Goto(t, "start_release") /\ dev' = dev
        /\ st'.dispatching = NoThread /\ st'.closing = st.closing /\ st'.initializing = st.initializing
        /\ st'.device = st.device
    BY <1>4 DEF StartTold, TypeInv, DataOK, StateFields
  <2>2. pc'[t] = "start_release" /\ stack'[t] = stack[t] /\ Bystanders(t)
    BY <2>1, GotoForm DEF TypeInv
  <2>3. Resume(t)' \notin Closers
    BY <2>2 DEF Resume, TearSteps, RequestSteps, FinishSteps, Closers
  <2>4. Linked(t)'
    BY <1>0, <2>1, <2>2, <2>3 DEF Linked, InitSteps, RequestSteps, Closers
  <2>5. QED
    BY <2>1, <2>2, <2>4, ConnectionKept DEF Connection
<1>5. CASE StartUnlock(t)
  <2>1. SameLinks /\ Return(t) /\ pc[t] = "start_unlock"
    BY <1>5 DEF StartUnlock, SameLinks
  <2>2. QED
    BY <2>1, LeaveLinks
<1>6. QED
  BY <1>1, <1>2, <1>3, <1>4, <1>5 DEF StartLock

LEMMA SpawnLinks ==
  ASSUME TypeInv, Control, Arms, Connection, NEW t \in Threads, StartSpawn(t)
  PROVE  Connection'
<1>1. PICK w \in Workers : w = loc[t].id
  <2>1. loc[t].id \in Workers
    BY DEF TypeInv, ArmIdentified, Arming, StartSpawn
  <2>2. QED
    BY <2>1
<1>2. /\ pc[t] = "start_spawn" /\ pc[w] = "none" /\ stack' = stack /\ st' = st /\ dev' = dev
      /\ pc' = [pc EXCEPT ![t] = "start_publish", ![w] = "enter"]
  BY <1>1 DEF StartSpawn, Control, NewWorkers
<1>3. ASSUME NEW u \in Threads PROVE Linked(u)'
  <2>1. pc'[u] = pc[u] \/ (pc[u] = "start_spawn" /\ pc'[u] = "start_publish") \/ (pc[u] = "none" /\ pc'[u] = "enter")
    BY <1>2 DEF TypeInv, ControlOK
  <2>2. Caller(u)' = Caller(u) /\ Second(u)' = Second(u) /\ (Telling(u) => Telling(u)')
    BY <1>2, <2>1 DEF Caller, Callers, Second, Telling, Within
  <2>3. Resume(u)' \in Closers => Resume(u)' = Resume(u)
    BY <2>1, <2>2 DEF Resume, Closers, RequestSteps, FinishSteps, TearSteps
  <2>4. pc'[u] \in InitSteps <=> pc[u] \in InitSteps
    BY <2>1 DEF InitSteps
  <2>5. Linked(u)
    BY DEF Connection
  <2>6. Resume(u)' \in Closers => st.closing /\ st.dispatching # u
    BY <2>3, <2>5 DEF Linked
  <2>7. Resume(u)' \in {"close_take", "close_release"} => st.initializing = NoThread
    BY <2>3, <2>5 DEF Linked, Closers
  <2>8. /\ u \in Clients /\ pc'[u] \in RequestSteps => Caller(u)' \notin {"close_take", "start_check"}
        /\ pc'[u] = "close_release" => ~st.device
        /\ pc'[u] = "open_publish" => dev.open
        /\ pc'[u] = "open_read" => st.device
    BY <2>1, <2>2, <2>5 DEF Linked, RequestSteps
  <2>9. st.dispatching = u => Telling(u)'
    BY <2>2, <2>5 DEF Linked
  <2>10. pc'[u] \in InitSteps <=> st.initializing = u
    BY <2>4, <2>5 DEF Linked
  <2>11. QED
    BY <1>2, <2>6, <2>7, <2>8, <2>9, <2>10 DEF Linked
<1>4. QED
  BY <1>2, <1>3 DEF Connection

(* A worker in acquisitionLoop holds none of what Connection speaks of. *)
LEMMA LoopLinks ==
  ASSUME TypeInv, Control, Arms, Connection, NEW w \in Workers, NEW q \in WorkerBase,
         pc[w] \in WorkerBase, Goto(w, q), SameLinks
  PROVE  Connection'
<1>1. w \in Threads /\ stack[w] = <<>>
  BY WorkerIds, AtBase DEF Arms
<1>2. /\ q \notin InitSteps \cup Closers \cup {"open_publish", "open_read", "start_told"}
      /\ pc[w] \notin InitSteps \cup {"start_told"}
  BY DEF WorkerBase, WorkerSteps, FinishSteps, InitSteps, Closers
<1>3. QED
  BY <1>1, <1>2, LinkGoto

LEMMA EnterLinks ==
  ASSUME TypeInv, Control, Arms, Connection, NEW w \in Workers,
         WorkerEnter(w) \/ WorkerSetup(w) \/ WorkerConfigured(w) \/ WorkerConfigureFailed(w) \/
         WorkerReport(w) \/ WorkerQuit(w) \/ WorkerHold(w) \/ WorkerLoop(w) \/ WorkerTake(w) \/
         WorkerReceive(w) \/ WorkerSdk(w)
  PROVE  Connection'
<1>1. SameLinks
  BY DEF TypeInv, DataOK, StateFields, DeviceFields, SameLinks, Restore, WorkerEnter, WorkerSetup,
     WorkerConfigured, WorkerConfigureFailed, WorkerReport, WorkerQuit, WorkerHold, WorkerLoop,
     WorkerTake, WorkerReceive, WorkerSdk
<1>2. PICK q \in WorkerSteps : Goto(w, q) /\ pc[w] \in WorkerSteps
  BY DEF WorkerEnter, WorkerSetup, WorkerConfigured, WorkerConfigureFailed, WorkerReport, WorkerQuit,
     WorkerHold, WorkerLoop, WorkerTake, WorkerReceive, WorkerSdk, WorkerSteps
<1>3. QED
  BY <1>1, <1>2, LoopLinks DEF WorkerBase

LEMMA ReceiveLinks ==
  ASSUME TypeInv, Control, Arms, Connection, NEW w \in Workers,
         WorkerFrame(w) \/ WorkerBufferError(w) \/ WorkerTimeout(w) \/ WorkerDiagnose(w) \/
         WorkerAfter(w) \/ WorkerDelivered(w) \/ WorkerStop(w) \/ WorkerStopped(w) \/
         WorkerStopFailed(w) \/ WorkerReconnect(w)
  PROVE  Connection'
<1>1. SameLinks
  BY DEF TypeInv, DataOK, StateFields, DeviceFields, SameLinks, Restore, WorkerFrame,
     WorkerBufferError, WorkerTimeout, WorkerDiagnose, WorkerAfter, WorkerDelivered, WorkerStop,
     WorkerStopped, WorkerStopFailed, WorkerReconnect
<1>2. PICK q \in WorkerSteps \cup {"finish_state"} : Goto(w, q) /\ pc[w] \in WorkerSteps
  BY DEF WorkerFrame, WorkerBufferError, WorkerTimeout, AfterTimeout, WorkerDiagnose, WorkerAfter,
     WorkerDelivered, WorkerStop, WorkerStopped, WorkerStopFailed, WorkerReconnect, WorkerSteps
<1>3. QED
  BY <1>1, <1>2, LoopLinks DEF WorkerBase, FinishSteps

LEMMA DeliverLinks ==
  ASSUME TypeInv, Control, Arms, Connection, NEW w \in Workers, WorkerDeliver(w)
  PROVE  Connection'
<1>1. w \in Threads /\ SameLinks /\ pc[w] = "deliver" /\ Call(w, "callback", "delivered")
  BY WorkerIds DEF SameLinks, WorkerDeliver
<1>2. QED
  BY <1>1, LinkCall DEF InitSteps, Closers, TearSteps, RequestSteps, FinishSteps, Returns

------------------------------------------------------------------------------
(* The invariant *)

LEMMA FinishArms ==
  ASSUME TypeInv, Control, Arms, NEW t \in Threads,
         FinishState(t) \/ FinishTrigger(t) \/ FinishTell(t) \/ FinishEnd(t)
  PROVE  Arms'
BY WorkerClient, WorkerTellArms, ClientTellArms, ClientFinishArms, ClientEndArms, WorkerFinishArms,
   WorkerEndArms

LEMMA OperationArms ==
  ASSUME TypeInv, Control, Arms, Connection, CallbacksDoNotArm, NEW t \in Threads,
         ClientCall(t) \/ Operation(t)
  PROVE  Arms'
BY CallsArms, RequestArms, StopArms, KinArms, StopUnlockArms, FinishArms, AccessArms, OpenArms,
   CloseArms, CloseTakeArms, AbandonArms, PrearmArms, ResetArms, SpawnArms, SpawnFailedArms,
   PublishArms, AwaitArms, FailArms, JoinArms, CommitArms, TellArms, ReleaseArms DEF Operation

LEMMA WorkerStepArms ==
  ASSUME TypeInv, Control, Arms, NEW w \in Workers, WorkerStep(w)
  PROVE  Arms'
BY EnterArms, SetupArms, ReportArms, QuitArms, HoldArms, LoopArms, LoopEndArms, DeliverArms
   DEF WorkerStep

LEMMA OperationLinks ==
  ASSUME TypeInv, Control, Arms, Connection, NEW t \in Threads, ClientCall(t) \/ Operation(t)
  PROVE  Connection'
BY CallLinks, RequestLinks, StopLinks, FinishLinks, AccessLinks, InitLinks, LifecycleLinks,
   CloseLinks, OpenLinks, ArmLinks, TellLinks, SpawnLinks DEF Operation

LEMMA WorkerStepLinks ==
  ASSUME TypeInv, Control, Arms, Connection, NEW w \in Workers, WorkerStep(w)
  PROVE  Connection'
BY EnterLinks, ReceiveLinks, DeliverLinks DEF WorkerStep

LEMMA StutterArms ==
  ASSUME Arms, Connection, UNCHANGED vars
  PROVE  Arms' /\ Connection'
<1>1. /\ st' = st /\ hs' = hs /\ loc' = loc /\ pc' = pc /\ stack' = stack /\ dev' = dev
  BY DEF vars
<1>2. \A t : /\ Caller(t)' = Caller(t) /\ At(t)' = At(t) /\ Second(t)' = Second(t)
             /\ (Telling(t)' <=> Telling(t))
  BY <1>1 DEF Caller, Callers, At, Second, Telling, Within
<1>3. \A t : Stage(t)' = Stage(t) /\ Phase(t)' = Phase(t) /\ Resume(t)' = Resume(t)
  BY <1>1, <1>2 DEF Stage, Phase, Resume
<1>4. NoTeardown' <=> NoTeardown
  BY <1>1, <1>3 DEF NoTeardown
<1>5. (NoneLive' <=> NoneLive) /\ \A w : Live(w)' <=> Live(w)
  BY <1>3 DEF NoneLive, Live
<1>6. \A w : (Installs(w)' <=> Installs(w)) /\ (Joinee(w)' <=> Joinee(w)) /\ (Answered(w)' <=> Answered(w))
  BY <1>1, <1>3 DEF Installs, InstallsBy, Joinee, Answered
<1>7. Apart'
  BY <1>1 DEF Arms, Apart, Count, Frames
<1>8. WorkersOK' /\ AcquiringOK'
  BY <1>1, <1>3, <1>5, <1>6 DEF Arms, WorkersOK, AcquiringOK
<1>9. ClaimOK' /\ TeardownOK'
  BY <1>1, <1>3, <1>4, <1>5 DEF Arms, ClaimOK, TeardownOK
<1>10. InstallOK'
  BY <1>1, <1>2, <1>3, <1>4, <1>6 DEF Arms, InstallOK
<1>11. Connection'
  BY <1>1, <1>2, <1>3 DEF Connection, Linked
<1>12. QED
  BY <1>7, <1>8, <1>9, <1>10, <1>11 DEF Arms

LEMMA NextArms ==
  ASSUME CallbacksDoNotArm
  PROVE  TypeInv /\ Control /\ Arms /\ Connection /\ [Next]_vars => Arms' /\ Connection'
<1> SUFFICES ASSUME TypeInv, Control, Arms, Connection, [Next]_vars PROVE Arms' /\ Connection'
  OBVIOUS
<1>1. ASSUME NEW t \in Threads, ClientCall(t) \/ Operation(t) PROVE Arms' /\ Connection'
  BY <1>1, OperationArms, OperationLinks
<1>2. ASSUME NEW w \in Workers, WorkerStep(w) PROVE Arms' /\ Connection'
  BY <1>2, WorkerStepArms, WorkerStepLinks
<1>3. CASE UNCHANGED vars
  BY <1>3, StutterArms
<1>4. QED
  BY <1>1, <1>2, <1>3 DEF Next

LEMMA InitArms == Init => Arms /\ Connection
<1> SUFFICES ASSUME Init PROVE Arms /\ Connection
  OBVIOUS
<1>1. /\ ~st.acquiring /\ ~st.installing /\ st.thread = NoThread /\ st.workerId = NoThread
      /\ st.initializing = NoThread /\ st.dispatching = NoThread /\ (st.device => dev.open)
  BY DEF Init
<1>2. \A t \in Threads : stack[t] = <<>> /\ pc[t] = IF t \in Clients THEN "idle" ELSE "none"
  BY DEF Init
<1>3. \A t \in Threads : /\ Stage(t) \in {"idle", "none"} /\ ~Telling(t) /\ t # NoThread
                         /\ Caller(t) \in {"idle", "exited"} /\ Resume(t) \in {"idle", "none"}
  BY <1>2, ThreadsAssumption
     DEF Stage, Telling, Within, Resume, Caller, TearSteps, RequestSteps, FinishSteps
<1>4. \A w \in Workers : w \in Threads /\ Phase(w) = "none"
  BY <1>2, WorkerIds, ClientNoWorker DEF Phase, PhaseOf, At
<1>5. \A u \in Clients : u \in Threads
  BY DEF Threads
<1>6. Apart
  <2>1. ASSUME NEW w \in Workers PROVE Count(w, Foreign) = 0
    <3>1. pc[w] = "none" /\ stack[w] = <<>>
      BY <1>2, <1>4, ClientNoWorker
    <3>2. pc[w] \notin Foreign
      BY <3>1 DEF Foreign, ArmSteps, TearSteps
    <3>3. QED
      BY <3>1, <3>2, FramesEmpty DEF Count, One
  <2>2. \A t \in Clients : Frames(stack[t], {"finish_end"}) = 0
    BY <1>2, <1>5, FramesEmpty
  <2>3. QED
    BY <2>1, <2>2 DEF Apart
<1>7. WorkersOK /\ AcquiringOK
  BY <1>1, <1>3, <1>4, WorkerIds DEF WorkersOK, AcquiringOK, Live
<1>8. ClaimOK /\ InstallOK
  BY <1>3 DEF ClaimOK, InstallOK
<1>9. TeardownOK
  BY <1>3, <1>5 DEF TeardownOK, Joining, FinishSteps
<1>10. Connection
  <2>1. ASSUME NEW t \in Threads PROVE Linked(t)
    BY <1>1, <1>2, <1>3 DEF Linked, Closers, InitSteps, RequestSteps
  <2>2. QED
    BY <1>1, <2>1 DEF Connection
<1>11. QED
  BY <1>6, <1>7, <1>8, <1>9, <1>10 DEF Arms

LEMMA ArmsInvariant ==
  ASSUME CallbacksDoNotArm
  PROVE  Spec => [](Arms /\ Connection)
<1>1. TypeInv /\ Control /\ (Arms /\ Connection) /\ [Next]_vars => (Arms /\ Connection)'
  BY NextArms
<1>2. QED
  BY <1>1, InitArms, TypeInvariant, ControlInvariant, PTL DEF Spec

------------------------------------------------------------------------------
(* Theorems *)

(* A worker that will return to delivered does so last. *)
LEMMA DeliveredLast ==
  ASSUME TypeInv, Control, NEW w \in Workers, NEW i \in DOMAIN stack[w], stack[w][i] = "delivered"
  PROVE  At(w) = "delivered"
<1>1. w \in Threads
  BY WorkerIds
<1>2. i + 1 \notin DOMAIN stack[w]
  <2>1. ASSUME i + 1 \in DOMAIN stack[w] PROVE FALSE
    <3>1. stack[w][i + 1] \in Returns
      BY <1>1, <2>1 DEF TypeInv, ControlOK
    <3>2. stack[w][i] \in Body(stack[w][i + 1])
      BY <1>1, <2>1 DEF Control, Chained, Inside
    <3>3. QED
      BY <3>1, <3>2, Callees DEF WorkerSteps
  <2>2. QED
    BY <2>1
<1>3. stack[w] # <<>> /\ i = Len(stack[w])
  BY <1>1, <1>2 DEF TypeInv, ControlOK
<1>4. QED
  BY <1>3 DEF At

(* What a worker that uses its handle is doing. *)
LEMMA HandlePhase ==
  ASSUME TypeInv, Control, Arms, NEW w \in Workers, UsesHandle(w)
  PROVE  /\ Phase(w) \in {"enter", "setup", "hold", "running"} /\ Live(w) /\ st.device
         /\ st.acquiring \/ st.installing
<1> DEFINE S == {"enter", "setup", "configure", "report", "hold", "loop", "take", "blocked",
                 "receive", "sdk", "buffer", "diagnose", "after", "deliver", "delivered",
                 "sdk_stop", "stopping"}
<1>1. w \in Threads
  BY WorkerIds
<1>2. Phase(w) \in {"enter", "setup", "hold", "running"}
  <2>1. CASE pc[w] \in S
    <3>1. At(w) = pc[w]
      BY <2>1, AtBase DEF Arms, WorkerBase, WorkerSteps
    <3>2. QED
      BY <2>1, <3>1 DEF Phase, PhaseOf, Ended
  <2>2. CASE \E i \in DOMAIN stack[w] : stack[w][i] \in S
    <3>1. PICK i \in DOMAIN stack[w] : stack[w][i] \in S
      BY <2>2
    <3>2. stack[w][i] \in Returns /\ stack[w][i] = "delivered"
      BY <1>1, <3>1 DEF TypeInv, ControlOK, Returns
    <3>3. At(w) = "delivered"
      BY <3>1, <3>2, DeliveredLast
    <3>4. QED
      BY <3>3 DEF Phase, PhaseOf, Ended
  <2>3. QED
    BY <2>1, <2>2 DEF UsesHandle, Within
<1>3. Live(w) /\ st.device
  BY <1>2 DEF Live, Arms, WorkersOK
<1>4. st.acquiring \/ st.installing
  <2>1. CASE Phase(w) = "running" \/ st.acquiring
    BY <2>1 DEF Arms, AcquiringOK
  <2>2. CASE Phase(w) # "running" /\ ~st.acquiring
    <3>1. PICK a \in Threads : InstallsBy(a, w)
      BY <1>2, <2>2 DEF Arms, WorkersOK, Installs
    <3>2. Stage(a) = "start_join" => Phase(w) \in {"quit", "exited"}
      BY <3>1 DEF InstallsBy, Arms, InstallOK
    <3>3. QED
      BY <1>2, <3>1, <3>2 DEF InstallsBy, Arms, InstallOK
  <2>3. QED
    BY <2>1, <2>2
<1>5. QED
  BY <1>2, <1>3, <1>4

(***************************************************************************)
(* For any number of clients, arms and SDK failures, provided acquisition  *)
(* callbacks do not call startAcquisition: one worker at a time owns the   *)
(* SDK acquisition, the facade reports it as arming or acquiring, and the  *)
(* thread that joined it is done before the next arm begins.               *)
(***************************************************************************)
THEOREM OneArmAtATime == ASSUME CallbacksDoNotArm PROVE Spec => []ArmsDoNotOverlap
<1>1. TypeInv /\ Control /\ Arms => ArmsDoNotOverlap
  <2> SUFFICES ASSUME TypeInv, Control, Arms PROVE ArmsDoNotOverlap
    OBVIOUS
  <2>1. OneReportedWorker
    BY HandlePhase DEF OneReportedWorker, Arms, WorkersOK
  <2>2. ASSUME NEW t \in Threads, \E i \in DOMAIN stack[t] : stack[t][i] = "stop_unlock",
               pc[t] \in {"finish_state", "finish_trigger", "finish_tell"}
        PROVE  ~st.acquiring /\ ~st.installing /\ NoWorkerRuns
    <3>1. t \in Clients
      <4>1. t \in Workers => \A i \in DOMAIN stack[t] : stack[t][i] \notin Foreign
        BY CountTyped DEF Arms, Apart, TypeInv
      <4>2. QED
        BY <2>2, <4>1, WorkerClient DEF Foreign, TearSteps
    <3>2. Stage(t) \in FinishSteps
      BY <2>2 DEF Stage, FinishSteps
    <3>3. NoneLive /\ ~st.installing
      BY <3>1, <3>2 DEF Arms, TeardownOK
    <3>4. ~st.acquiring
      BY <3>3 DEF Arms, AcquiringOK, NoneLive, Live
    <3>5. NoWorkerRuns
      BY <3>3, HandlePhase DEF NoWorkerRuns, NoneLive
    <3>6. QED
      BY <3>3, <3>4, <3>5
  <2>3. QED
    BY <2>1, <2>2 DEF ArmsDoNotOverlap, TeardownTouchesNoOtherArm
<1>2. QED
  BY <1>1, ArmsInvariant, TypeInvariant, ControlInvariant, PTL

(***************************************************************************)
(* No thread ever joins itself: a worker recognises itself as a callback   *)
(* thread in every stop its callbacks request, nested in a close or not.   *)
(***************************************************************************)
THEOREM NoThreadJoinsItself == ASSUME CallbacksDoNotArm PROVE Spec => []NoSelfJoin
<1>1. TypeInv /\ Control /\ Arms => NoSelfJoin
  <2> SUFFICES ASSUME TypeInv, Control, Arms, NEW t \in Threads,
                      pc[t] \in {"stop_join", "start_join"}
               PROVE  loc[t].joinee # t
    BY DEF NoSelfJoin
  <2>1. t \notin Workers
    BY NotForeign DEF Arms, Foreign, ArmSteps, TearSteps
  <2>2. loc[t].joinee \in Workers \cup {NoThread} /\ t # NoThread
    BY ThreadsAssumption DEF TypeInv, DataOK, LocalFields
  <2>3. QED
    BY <2>1, <2>2
<1>2. QED
  BY <1>1, ArmsInvariant, TypeInvariant, ControlInvariant, PTL

(***************************************************************************)
(* close releases no handle in use: not the one open reads the identity    *)
(* through, not the one a motion initialization polls, not the one the     *)
(* worker of the current arm copied.                                       *)
(***************************************************************************)
THEOREM HandlesOutliveTheirUse == ASSUME CallbacksDoNotArm PROVE Spec => []HandleOutlivesUse
<1>1. TypeInv /\ Control /\ Arms /\ Connection => HandleOutlivesUse
  <2> SUFFICES ASSUME TypeInv, Control, Arms, Connection, NEW t \in Threads,
                      pc[t] \in {"open_read", "init_poll"} \/ (t \in Workers /\ UsesHandle(t))
               PROVE  st.device
    BY DEF HandleOutlivesUse, Connection
  <2>1. pc[t] = "open_read" => st.device
    BY DEF Connection, Linked
  <2>2. pc[t] = "init_poll" => st.device
    BY ThreadsAssumption DEF Connection, Linked, InitSteps
  <2>3. QED
    BY <2>1, <2>2, HandlePhase
<1>2. QED
  BY <1>1, ArmsInvariant, TypeInvariant, ControlInvariant, PTL

------------------------------------------------------------------------------
(* Initialization and acquisition *)

Exclusion == st.initializing # NoThread => ~st.acquiring /\ ~st.installing

(* No claim is made: those that there are may be given up. *)
NoNewClaim ==
  /\ st'.initializing \in {st.initializing, NoThread}
  /\ st'.acquiring => st.acquiring
  /\ st'.installing => st.installing

LEMMA CallsUnclaimed ==
  ASSUME TypeInv, NEW t \in Threads,
         ClientCall(t) \/ CallbackCall(t) \/ CallbackReturn(t) \/ RequestFlag(t) \/ RequestNotify(t) \/
         StopCheck(t) \/ StopLock(t) \/ StopWait(t) \/ StopSignal(t) \/ StopJoin(t) \/ StopUnlock(t) \/
         FinishState(t) \/ FinishTrigger(t) \/ FinishTell(t) \/ FinishEnd(t) \/ TriggerCheck(t) \/
         TriggerQueue(t) \/ Feature(t) \/ Cancel(t) \/ InitCommand(t) \/ InitPoll(t) \/ InitEnd(t)
  PROVE  NoNewClaim
BY DEF TypeInv, DataOK, StateFields, NoNewClaim, ClientCall, CallbackCall, CallbackReturn, RequestFlag,
   RequestNotify, StopCheck, StopLock, StopWait, StopSignal, StopJoin, StopUnlock, FinishState,
   FinishTrigger, FinishTell, FinishEnd, TriggerCheck, TriggerQueue, Feature, Cancel, InitCommand,
   InitPoll, InitEnd

LEMMA LifecycleUnclaimed ==
  ASSUME TypeInv, NEW t \in Threads,
         CloseLock(t) \/ CloseCancel(t) \/ CloseClaim(t) \/ CloseWait(t) \/ CloseTake(t) \/
         CloseRelease(t) \/ CloseEnd(t) \/ LifecycleUnlock(t) \/ OpenLock(t) \/ OpenHandles(t) \/
         OpenPublish(t) \/ OpenRead(t) \/ OpenCheck(t)
  PROVE  NoNewClaim
BY DEF TypeInv, DataOK, StateFields, NoNewClaim, CloseLock, CloseCancel, CloseClaim, CloseWait,
   CloseTake, CloseRelease, CloseEnd, LifecycleUnlock, OpenLock, OpenHandles, OpenPublish, OpenRead,
   OpenCheck

LEMMA StartUnclaimed ==
  ASSUME TypeInv, NEW t \in Threads,
         StartLock(t) \/ StartCheck(t) \/ StartRejected(t) \/ StartInvalid(t) \/ StartReset(t) \/
         StartSpawn(t) \/ StartSpawnFailed(t) \/ StartPublish(t) \/ StartAwait(t) \/ StartFail(t) \/
         StartJoin(t) \/ StartTell(t) \/ StartTold(t) \/ StartRelease(t) \/ StartUnlock(t)
  PROVE  NoNewClaim
BY DEF TypeInv, DataOK, StateFields, NoNewClaim, StartLock, StartCheck, StartRejected, StartInvalid,
   StartReset, StartSpawn, StartSpawnFailed, StartPublish, StartAwait, StartFail, StartJoin,
   StartTell, StartTold, StartRelease, StartUnlock

LEMMA WorkerUnclaimed ==
  ASSUME TypeInv, NEW w \in Workers, WorkerStep(w)
  PROVE  NoNewClaim
BY DEF TypeInv, DataOK, StateFields, NoNewClaim, WorkerStep, WorkerEnter, WorkerSetup, WorkerConfigured,
   WorkerConfigureFailed, WorkerReport, WorkerQuit, WorkerHold, WorkerLoop, WorkerTake, WorkerReceive,
   WorkerSdk, WorkerFrame, WorkerBufferError, WorkerTimeout, WorkerDiagnose, WorkerAfter, WorkerDeliver,
   WorkerDelivered, WorkerStop, WorkerStopped, WorkerStopFailed, WorkerReconnect

LEMMA NextExclusion ==
  ASSUME TypeInv, Arms, Exclusion, [Next]_vars
  PROVE  Exclusion'
<1>1. CASE NoNewClaim
  BY <1>1 DEF NoNewClaim, Exclusion
<1>2. ASSUME NEW t \in Threads, InitAdmit(t) PROVE Exclusion'
  BY <1>2 DEF InitAdmit, InitAdmitted, Exclusion, TypeInv, DataOK, StateFields
<1>3. ASSUME NEW t \in Threads, StartPrearm(t) PROVE Exclusion'
  BY <1>3 DEF StartPrearm, StartAdmitted, Exclusion, TypeInv, DataOK, StateFields
<1>4. ASSUME NEW t \in Threads, StartCommit(t) PROVE Exclusion'
  <2>1. Stage(t) = "start_commit" /\ st'.initializing = st.initializing
    BY <1>4 DEF StartCommit, Stage, TypeInv, DataOK, StateFields
  <2>2. st.installing
    BY <2>1 DEF Arms, InstallOK
  <2>3. QED
    BY <2>1, <2>2 DEF Exclusion
<1>5. ASSUME NEW t \in Threads, ClientCall(t) \/ Operation(t) PROVE Exclusion'
  BY <1>1, <1>2, <1>3, <1>4, <1>5, CallsUnclaimed, LifecycleUnclaimed, StartUnclaimed DEF Operation
<1>6. ASSUME NEW w \in Workers, WorkerStep(w) PROVE Exclusion'
  BY <1>1, <1>6, WorkerUnclaimed
<1>7. CASE UNCHANGED vars
  BY <1>7 DEF vars, Exclusion
<1>8. QED
  BY <1>5, <1>6, <1>7 DEF Next

LEMMA ExclusionInvariant ==
  ASSUME CallbacksDoNotArm
  PROVE  Spec => []Exclusion
<1>1. Init => Exclusion
  BY DEF Init, Exclusion
<1>2. TypeInv /\ (Arms /\ Connection) /\ Exclusion /\ [Next]_vars => Exclusion'
  BY NextExclusion
<1>3. QED
  BY <1>1, <1>2, ArmsInvariant, TypeInvariant, PTL DEF Spec

(***************************************************************************)
(* A motion initialization and an acquisition are never admitted over each *)
(* other, and no worker of an earlier acquisition still has the device     *)
(* when an initialization begins.                                          *)
(***************************************************************************)
THEOREM InitializationRunsAlone ==
  ASSUME CallbacksDoNotArm
  PROVE  Spec => []InitExcludesAcquisition
<1>1. TypeInv /\ Control /\ (Arms /\ Connection) /\ Exclusion => InitExcludesAcquisition
  BY HandlePhase DEF InitExcludesAcquisition, Exclusion, NoWorkerRuns
<1>2. QED
  BY <1>1, ArmsInvariant, ExclusionInvariant, TypeInvariant, ControlInvariant, PTL

=============================================================================
