CONSTANTS
  ExternalSources = {"Line0"}
  OtherModes = {"Latched"}
SPECIFICATION Spec
INVARIANTS
  PlanTellsRoutes
  PlanRestsOnOpenGates
\* The policy is evaluated once and stops.
CHECK_DEADLOCK FALSE
