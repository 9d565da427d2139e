\* Expected violation: a close from a callback waits for a closing thread
\* that joins the worker of that callback.
CONSTANTS
  Clients = {c1, c2}
  ClientOps = {"start", "close"}
  CallbackOps = {"close"}
  ConnectionOps = {}
  Faults = {}
  Software = {FALSE}
  Connected = TRUE
  MaxArms = 1
  NoThread = NoThread
SPECIFICATION Spec
SYMMETRY ClientSymmetry
INVARIANTS
  CallbackCloseIsDeferred
