\* A task whose agent failed once, retried and run again and again.
SPECIFICATION OperatedSpec
CONSTANTS
  PlanMax = 1
  ReviewMax = 1
  CiMax = 1
  CiTimeoutFails = FALSE
  AutoMerge = TRUE
  RemoveMax = 2
  MaxCrashes = 0
  Faults = {"agent_fail"}
PROPERTIES
  PlannedIsImplemented
CHECK_DEADLOCK FALSE
