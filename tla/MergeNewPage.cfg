\* Two users create the same page; the second one previews.
SPECIFICATION Spec
CONSTANTS
  Users = {u1, u2}
  LockModes = {"none", "lock"}
  MaxEdits = 3
  MaxRequests <- FewRequests
  MaxExpiries = 0
SYMMETRY UserSymmetry
PROPERTIES
  MergeKeepsSaved
\* the bounded number of requests makes every behaviour come to rest
CHECK_DEADLOCK FALSE
