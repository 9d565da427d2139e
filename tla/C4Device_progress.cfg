\* Software arms that block until a request or a close, and initializations
\* that a close waits for: each of them ends.
CONSTANTS
  Clients = {c1, c2}
  ClientOps = {"start", "close", "init", "request"}
  CallbackOps = {}
  ConnectionOps = {}
  Faults = {"setup"}
  Software = {TRUE}
  Connected = TRUE
  MaxArms = 1
  NoThread = NoThread
SPECIFICATION FairSpec
PROPERTIES
  RequestedStopIsReported
  LifecycleCallsReturn
