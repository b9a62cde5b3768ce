\* Two requests, two pages, three changes, one error and one crash.
SPECIFICATION SSpec
CONSTANTS
  Client = {c1, c2}
  Page = {p1, p2}
  Job = {p1, p2}
  NoClient = NoClient
  Dead = Dead
  Torn = Torn
  NoText = NoText
  MaxFaults = 1
  Bounds <- ChangesOrErrors
SYMMETRY Symmetry
INVARIANTS
  TypeOK NothingForgotten HistoryComplete JobsAtRest
PROPERTIES
  ImplementsQueue
\* the changes are bounded
CHECK_DEADLOCK FALSE
