\* Three findings that a reviewer may report in any round.
SPECIFICATION Spec
CONSTANTS
  PlanMax = 1
  ReviewMax = 2
  CiMax = 1
  CiTimeoutFails = FALSE
  Ids = {f1, f2, f3}
SYMMETRY Alike
INVARIANTS
  NothingSlips
  FixHasCause
\* A task that is cleaning or queued again has left the module.
CHECK_DEADLOCK FALSE
