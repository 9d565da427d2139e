\* Two threads open, close, initialize, cancel, arm and use features; starts and
\* stops may fail.  Callbacks initialize, request a stop and use features, those
\* of the connection close too.
CONSTANTS
  Clients = {c1, c2}
  ClientOps = {"open", "close", "init", "cancel", "start", "feature"}
  CallbackOps = {"init", "request", "feature"}
  ConnectionOps = {"close", "init"}
  Faults = {"stop", "setup"}
  Software = {FALSE, TRUE}
  Connected = FALSE
  MaxArms = 1
  NoThread = NoThread
SPECIFICATION Spec
SYMMETRY ClientSymmetry
INVARIANTS
  HandleOutlivesUse
  InitExcludesAcquisition
  StatusAlternates
  FeaturesAndAcquisitionExclude
PROPERTIES
  CancellationKept
  ImplementsDeviceMode
