\* Two requests, one fault, one edit, under fairness.
SPECIFICATION FairSpec
CONSTANTS
  w1 = w1  w2 = w2
  Workers = {w1, w2}
  Heads = {0, 1, 2}
  MaxRequests = 2
  MaxFaults = 1
  MaxEdits = 1
  Refuses = FALSE
  NoBinding = NoBinding  Gone = Gone
PROPERTIES
  EffectsSettle RequestsEnd
CHECK_DEADLOCK FALSE
