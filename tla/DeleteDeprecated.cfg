\* One writer is enough: the delete keeps the number of a deprecated page.
SPECIFICATION Spec
CONSTANTS
  Writers = {w1}
  Missing = Missing
  Empty = Empty
  MaxRetry = 2
  MaxSaves = 2
  MaxFaults = 0
  MaxCrashes = 0
PROPERTIES
  DeleteTakesEffect
\* the bounded number of saves makes every behaviour come to rest
CHECK_DEADLOCK FALSE
