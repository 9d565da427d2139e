\* Expected violation: the destructor waits for the last parameter task only.
SPECIFICATION Spec
CONSTANTS
  Clicks = {"connect", "session"}
  Tools = {}
  Parameters = {"read"}
  Software = {TRUE}
  Diagnostics = FALSE
  MaxClicks = 2
  MaxCalls = 0
  MaxParameters = 2
  MaxArms = 1
  MaxFrames = 0
INVARIANTS
  ParameterWorkEndsBeforeRelease
\* The host stops making requests.
CHECK_DEADLOCK FALSE
