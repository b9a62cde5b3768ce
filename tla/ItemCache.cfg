\* Two pages, two threads, few saves or few calls.
SPECIFICATION Spec
CONSTANTS
  p1 = p1
  p2 = p2
  t1 = t1
  t2 = t2
  Page = {p1, p2}
  Thread = {t1, t2}
  Existing = {p1}
  Bounds <- FewSavesOrCalls
SYMMETRY Symmetry
INVARIANTS
  TypeOK FreshUnlessRaced ReturnsRecent
\* the calls are bounded
CHECK_DEADLOCK FALSE
