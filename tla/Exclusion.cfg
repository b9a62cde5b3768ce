\* Three processes that neither die nor hold a lock for too long.
SPECIFICATION Spec
CONSTANTS
  c1 = c1
  c2 = c2
  c3 = c3
  Client = {c1, c2, c3}
  NoDir = NoDir
  MayExpire = FALSE
  MayCrash = FALSE
SYMMETRY Symmetry
INVARIANTS
  Exclusion
