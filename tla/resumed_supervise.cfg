\* A supervisor that is rate limited once.
SPECIFICATION Spec
CONSTANTS
  PlanMax = 1
  ReviewMax = 1
  CiMax = 1
  CiTimeoutFails = FALSE
  AutoMerge = TRUE
  RemoveMax = 2
  MaxCrashes = 0
  Faults = {"agent_pause"}
PROPERTIES
  ResumedSuperviseGoesOn
CHECK_DEADLOCK FALSE
