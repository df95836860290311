\* Two runs of one issue or of all, two lives of the server, one browser.
SPECIFICATION Spec
CONSTANTS
  Issues = {i1}
  Keys = {k1}
  Operations = {"run", "cleanup"}
  MaxRuns = 2
  MaxStarts = 2
  ServeFaults <- ServerTrouble
  WatchedRuns = 1
  Capacity = 2
  MaxEvents = 3
  MaxNotices = 2
INVARIANTS
  TypeOK
  OneRunPerKey
  NoForgottenRun
  LockSpansRun
  CutOffNotRepeated
  NoSilentGap
PROPERTIES
  EveryRunEnds
\* The bounds, and a server that is not started again.
CHECK_DEADLOCK FALSE
