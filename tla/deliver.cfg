\* One task, everything that gets in its way day by day, no crash.
SPECIFICATION RunSpec
CONSTANTS
  PlanMax = 2
  ReviewMax = 1
  CiMax = 1
  CiTimeoutFails = FALSE
  AutoMerge = TRUE
  RemoveMax = 2
  MaxCrashes = 0
  Faults <- IdleAgentToo
INVARIANTS
  TypeOK
  GuardsAccept
  ReservationHeld
  ArmedHeadWasReviewed
  WayOut
  VerifierHasThePlan
  FiledPlanIsNewest
PROPERTIES
  RunEnds
\* A merged task is the end: nothing is left to do.
CHECK_DEADLOCK FALSE
