\* Texts of up to six lines, a change by the other author only.
SPECIFICATION Spec
CONSTANTS
  OldLine = {a, b}
  NewLine = x
  AlsoNewLine = y
  MaxLength = 6
  Line <- MCLine
  Inputs <- OneChangeByOther
INVARIANTS
  OnlyOtherChanged
\* a merge stops when it is done
CHECK_DEADLOCK FALSE
