\* A review nobody decided before its evidence was taken back; expects a violation.
SPECIFICATION Spec
CONSTANTS
  w1 = w1  w2 = w2  i1 = i1  i2 = i2
  Workers = {w1, w2}
  Items = {i1, i2}
  Heads = {1, 2}
  MaxRequests = 2
  MaxCycles = 2
  MaxFaults = 0
  MaxEdits = 0
  MaxTurns = 2
  Gone = Gone
SYMMETRY Symmetry
INVARIANTS
  ReviewRefreshable
CHECK_DEADLOCK FALSE
