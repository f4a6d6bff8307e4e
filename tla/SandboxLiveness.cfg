\* Every cleanup and every reservation is resolved.
SPECIFICATION FairSpec
CONSTANTS
  e1 = e1  e2 = e2  s1 = s1  s2 = s2
  p1 = p1  p2 = p2  w1 = w1  rel = rel  fin = fin
  can = can  tmo = tmo  rec = rec  hand = hand
  Executions = {e1}
  MaxGeneration = 1
  Calls = {s1, s2}
  MaxFaults = 1
  NoCall = NoCall  NoMat = NoMat  NoPolicy = NoPolicy
  Commands <- CompletionCommands
  Op <- CompletionOp
  Target <- CompletionTarget
  Policies <- OnePolicy
PROPERTIES
  CleanupConverges ReservationResolves
CHECK_DEADLOCK FALSE
