\* Two clicks, a tool call and a parameter request of every kind around one arm.
SPECIFICATION Spec
CONSTANTS
  Clicks = {"refresh", "connect", "disconnect", "single", "live", "init", "edit", "trigger", "widget", "session"}
  Tools = {"discover", "connect", "disconnect", "single", "live-start", "live-stop"}
  Parameters = {"read", "write", "trigger"}
  Software = {TRUE}
  Diagnostics = FALSE
  MaxClicks = 2
  MaxCalls = 1
  MaxParameters = 1
  MaxArms = 1
  MaxFrames = 1
INVARIANTS
  TypeOK
  SdkWorkExclusive
  OneAnswerPerCall
  WidgetShowsSession
  NoStopLeftPending
  ReleasedDeviceUnused
PROPERTIES
  AnswersAreTrue
