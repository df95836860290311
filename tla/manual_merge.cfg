\* auto_merge off, and the pull request merged by hand.
SPECIFICATION OperatedSpec
CONSTANTS
  PlanMax = 1
  ReviewMax = 1
  CiMax = 1
  CiTimeoutFails = FALSE
  AutoMerge = FALSE
  RemoveMax = 2
  MaxCrashes = 0
  Faults = {"human_merge"}
PROPERTIES
  ManualMergeGetsCleaned
CHECK_DEADLOCK FALSE
