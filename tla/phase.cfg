\* One phase over four runs, one of which may crash.
SPECIFICATION Spec
CONSTANTS
  Configured = "claude"
  Overrides <- OtherProvider
  MaxRuns = 4
  MaxCrashes = 1
INVARIANTS
  TypeOK
  RetriesBounded
  OverrideForOneRun
  AtMostOneOwn
PROPERTIES
  EachRunEnds
\* The bounds, and a phase that is completed.
CHECK_DEADLOCK FALSE
