\* Safety, refinement and liveness: two writers, three saves, one I/O error, one crash.
SPECIFICATION Spec
CONSTANTS
  Writers = {w1, w2}
  Missing = Missing
  Empty = Empty
  MaxRetry = 2
  MaxSaves = 3
  MaxFaults = 1
  MaxCrashes = 1
INVARIANTS
  TypeOK SingleToken TmpIsOwn AckedDurable NumbersUnique LocalLogIncreasing
  VisibleHead HeadLogged
PROPERTIES
  OldRevisionsFrozen ImplementsHistory SaveEnds PageUnlocked
\* the bounded number of saves makes every behaviour come to rest
CHECK_DEADLOCK FALSE
