\* Safety: two work items, two workers, two selections, one fault and one edit.
SPECIFICATION Spec
CONSTANTS
  w1 = w1  w2 = w2  i1 = i1  i2 = i2
  Workers = {w1, w2}
  Items = {i1, i2}
  Heads = {1, 2}
  MaxRequests = 4
  MaxCycles = 2
  MaxFaults = 1
  MaxEdits = 1
  MaxTurns = 5
  Gone = Gone
SYMMETRY Symmetry
INVARIANTS
  PendingKeepsAcceptance InvalidationApplied DeliveredIsMerged AckedIsTrue
PROPERTIES
  MergesApprovedHead
CHECK_DEADLOCK FALSE
