\* Two users, every setting of edit_locking, time to resolve an edit conflict.
SPECIFICATION Spec
CONSTANTS
  Users = {u1, u2}
  LockModes = {"none", "warn", "lock"}
  MaxEdits = 3
  MaxRequests <- EditRequests
  MaxExpiries = 1
SYMMETRY UserSymmetry
INVARIANTS
  TypeOK FormShowsItsRevision SavedOrDraft LockReturned StrictUnlessRaced
PROPERTIES
  NoEditLost
\* the bounded number of requests makes every behaviour come to rest
CHECK_DEADLOCK FALSE
