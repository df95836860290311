\* A base branch that moves during the review.
SPECIFICATION OperatedSpec
CONSTANTS
  PlanMax = 1
  ReviewMax = 1
  CiMax = 1
  CiTimeoutFails = FALSE
  AutoMerge = TRUE
  RemoveMax = 2
  MaxCrashes = 0
  Faults = {"base_moves"}
PROPERTIES
  FixingEnds
CHECK_DEADLOCK FALSE
