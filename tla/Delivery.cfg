\* Three requests, one fault, one edit, with refusals; safety.
SPECIFICATION Spec
CONSTANTS
  w1 = w1  w2 = w2
  Workers = {w1, w2}
  Heads = {0, 1, 2}
  MaxRequests = 3
  MaxFaults = 1
  MaxEdits = 1
  Refuses = TRUE
  NoBinding = NoBinding  Gone = Gone
SYMMETRY Symmetry
INVARIANTS
  IntegratedIsProved AckedIsTrue NoRequestDropped
PROPERTIES
  MergedAtPlannedHead CreationIsOver ImplementsDeliveryContract
CHECK_DEADLOCK FALSE
