\* One thread, every failure of the SDK, of the host and of a callback.
CONSTANTS
  Clients = {c1}
  ClientOps = {"open", "close", "start", "trigger"}
  CallbackOps = {}
  ConnectionOps = {}
  Faults = {"open", "validate", "spawn", "setup", "restore", "buffer", "stop", "throw"}
  Software = {FALSE, TRUE}
  Connected = FALSE
  MaxArms = 2
  NoThread = NoThread
SPECIFICATION Spec
INVARIANTS
  FailedStopIsFinal
  PresetRestored
