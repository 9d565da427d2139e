\* Two threads arm, stop, request a stop and trigger a software acquisition,
\* as do its callbacks, which also close.
CONSTANTS
  Clients = {c1, c2}
  ClientOps = {"start", "stop", "request", "trigger"}
  CallbackOps = {"stop", "trigger", "close"}
  ConnectionOps = {}
  Faults = {}
  Software = {TRUE}
  Connected = TRUE
  MaxArms = 2
  NoThread = NoThread
SPECIFICATION Spec
SYMMETRY ClientSymmetry
INVARIANTS
  TypeOK
  ArmsDoNotOverlap
  NoSelfJoin
  OneRequestInFlight
  CommandAnswersRequest
  HandleOutlivesUse
PROPERTIES
  InactiveAfterActive
