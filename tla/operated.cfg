\* A user who keeps running and resuming the task, and a crash.
SPECIFICATION OperatedSpec
CONSTANTS
  PlanMax = 1
  ReviewMax = 1
  CiMax = 1
  CiTimeoutFails = FALSE
  AutoMerge = TRUE
  RemoveMax = 2
  MaxCrashes = 1
  Faults <- OperableTrouble
PROPERTIES
  MergedGetsCleaned
\* A merged task is the end: nothing is left to do.
CHECK_DEADLOCK FALSE
