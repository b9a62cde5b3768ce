\* Three processes; locks may grow too old and processes may die.
SPECIFICATION TSpec
CONSTANTS
  c1 = c1
  c2 = c2
  c3 = c3
  Client = {c1, c2, c3}
  NoDir = NoDir
  MayExpire = TRUE
  MayCrash = TRUE
SYMMETRY Symmetry
INVARIANTS
  TypeOK ExclusionUnlessStolen NothingLeft TagsKept
\* clients come to an end
CHECK_DEADLOCK FALSE
