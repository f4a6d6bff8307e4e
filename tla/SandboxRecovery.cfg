\* Two calls provision an execution twice, cancel and reconcile it, with one fault.
SPECIFICATION Spec
CONSTANTS
  e1 = e1  e2 = e2  s1 = s1  s2 = s2
  p1 = p1  p2 = p2  w1 = w1  rel = rel  fin = fin
  can = can  tmo = tmo  rec = rec  hand = hand
  Executions = {e1}
  MaxGeneration = 2
  Calls = {s1, s2}
  MaxFaults = 1
  NoCall = NoCall  NoMat = NoMat  NoPolicy = NoPolicy
  Commands <- ReissueCommands
  Op <- ReissueOp
  Target <- ReissueTarget
  Policies <- OnePolicy
SYMMETRY Symmetry
INVARIANTS
  RecordsInterlock RuntimeNeverRefuses OneCurrentGeneration
  ReservationRecoverable
PROPERTIES
  StaleOwnerWritesNothing ImplementsContract
CHECK_DEADLOCK FALSE
