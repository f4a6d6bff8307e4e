\* Two workers, two assignments, two generations, one fault, under fairness.
SPECIFICATION FairSpec
CONSTANTS
  w1 = w1  w2 = w2
  Workers = {w1, w2}
  MaxAssignments = 2
  MaxGeneration = 2
  MaxClaims = 3
  MaxFaults = 1
  NoWorker = NoWorker
INVARIANTS
  EventsInOrder
PROPERTIES
  ResumedUnderItsAssignment ImplementsAttemptContract CommandsSettle
CHECK_DEADLOCK FALSE
