\* Two wikis, two synchronisations, three changes, one fault.
SPECIFICATION Spec
CONSTANTS
  Wiki = {w1, w2}
  Sync = {s1, s2}
  Mark = Mark
  Gone = Gone
  MaxChanges = 3
  MaxSyncs = 2
  MaxFaults = 1
SYMMETRY Symmetry
INVARIANTS
  TypeOK TagsAgree NoEditLost InSync
CONSTRAINT NotRaced
\* changes and synchronisations are bounded
CHECK_DEADLOCK FALSE
