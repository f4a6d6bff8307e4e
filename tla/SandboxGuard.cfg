\* Preview, release and timeout race, and two executions compete for the capacity.
SPECIFICATION Spec
CONSTANTS
  e1 = e1  e2 = e2  s1 = s1  s2 = s2
  p1 = p1  p2 = p2  w1 = w1  rel = rel  fin = fin
  can = can  tmo = tmo  rec = rec  hand = hand
  Executions = {e1, e2}
  MaxGeneration = 1
  Calls = {s1, s2}
  MaxFaults = 1
  NoCall = NoCall  NoMat = NoMat  NoPolicy = NoPolicy
  Commands <- GuardCommands
  Op <- GuardOp
  Target <- GuardTarget
  Policies <- ThreePolicies
SYMMETRY Symmetry
INVARIANTS
  CapacityConserved PreviewFenced ReceiptsAreTrue GuardSpentOnce
CHECK_DEADLOCK FALSE
