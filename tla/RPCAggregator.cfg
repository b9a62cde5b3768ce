\* Four handlers of at most two calls (handle_page has no more), batches of two.
SPECIFICATION FairSpec
CONSTANTS
  Page = {p1, p2, p3, p4}
  PreCalls <- Token
  NoResult = NoResult
  MaxCalls = 1
  MaxYields = 2
INVARIANTS
  RightResult
PROPERTIES
  AllEnd
\* the scheduler returns when every handler has ended
CHECK_DEADLOCK FALSE
