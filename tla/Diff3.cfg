\* Texts of up to five lines, one change by each author or the same change by both,
\* and texts of six equal lines with lines in front.
SPECIFICATION Spec
CONSTANTS
  OldLine = {a, b}
  NewLine = x
  AlsoNewLine = y
  MaxLength = 5
  Line <- MCLine
  Inputs <- AllChanges
INVARIANTS
  TypeOK NothingAddedIsLost OnlyNewChanged
PROPERTIES
  AlwaysAhead
\* a merge stops when it is done
CHECK_DEADLOCK FALSE
