\* Two clicks and two tool calls around two arms: all of them come to an end.
SPECIFICATION FairSpec
CONSTANTS
  Clicks = {"live", "disconnect", "session"}
  Tools = {"discover", "connect", "disconnect", "single", "live-start", "live-stop"}
  Parameters = {}
  Software = {TRUE}
  Diagnostics = FALSE
  MaxClicks = 2
  MaxCalls = 2
  MaxParameters = 0
  MaxArms = 2
  MaxFrames = 1
PROPERTIES
  OperationsComplete
  DestructionEnds
