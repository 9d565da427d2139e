\* One profile, one device failure, cancellations and a close at any time.
CONSTANTS
  MaxRuns = 1
  MaxFailures = 1
  MaxPolls = 2
SPECIFICATION FairSpec
INVARIANTS
  OnlyMeantRegisters
  IndependentGroupsContinue
  SuccessIsReal
  CancelIsPrompt
PROPERTIES
  StageMovesWhenConfigured
  ProfileEnds
\* The device may be closed for good.
CHECK_DEADLOCK FALSE
