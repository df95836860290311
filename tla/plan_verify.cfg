\* The default of plan.max_rounds, and a verifier that is never content.
SPECIFICATION Spec
CONSTANTS
  PlanMax = 4
  ReviewMax = 1
  CiMax = 1
  CiTimeoutFails = FALSE
  AutoMerge = TRUE
  RemoveMax = 2
  MaxCrashes = 0
  Faults = {}
PROPERTIES
  PlanMaxByVerdict
CHECK_DEADLOCK FALSE
