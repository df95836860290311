\* One task, two crashes anywhere, and somebody who pushes to its branch.
SPECIFICATION Spec
CONSTANTS
  PlanMax = 1
  ReviewMax = 1
  CiMax = 1
  CiTimeoutFails = FALSE
  AutoMerge = TRUE
  RemoveMax = 2
  MaxCrashes = 2
  Faults <- HumanPushToo
INVARIANTS
  CleaningMeansMerged
  HalfRetriedNeverRuns
  HeadIsPublished
  ReconcileAgreesWithRun
  OnePullRequest
PROPERTIES
  DeletesOnlyMerged
  ReservedHeadWasReviewed
  RetriedStartsAfresh
\* A merged task is the end: nothing is left to do.
CHECK_DEADLOCK FALSE
