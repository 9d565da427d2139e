\* Expected violation: a request is queued after the acquisition it was made
\* for has ended.
CONSTANTS
  Clients = {c1, c2}
  ClientOps = {"start", "request", "trigger"}
  CallbackOps = {}
  ConnectionOps = {}
  Faults = {}
  Software = {TRUE}
  Connected = TRUE
  MaxArms = 2
  NoThread = NoThread
SPECIFICATION Spec
SYMMETRY ClientSymmetry
PROPERTIES
  AcceptedRequestIsCommanded
