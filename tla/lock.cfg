\* Three commands, two hosts, two crashes, and tasks.yaml destroyed once.
SPECIFICATION Spec
CONSTANTS
  p1 = p1
  p2 = p2
  p3 = p3
  Procs = {p1, p2, p3}
  Host <- TwoHosts
  MaxClaims = 1
  LockFaults <- AllLockFaults
  Writers = {p1, p2, p3}
  MaxUpdates = 3
  Mixes <- TasksOrPreset
  MaxCrashes = 2
SYMMETRY SameHost
INVARIANTS
  TypeOK
  Exclusive
  HolderIsAtWork
  ReadersSeeWhole
  RestorableToPrevious
  OldTreeKept
PROPERTIES
  NoLostUpdate
  IsSerial
\* Commands end.
CHECK_DEADLOCK FALSE
