\* One push, fences of two generations, one fault, under fairness.
SPECIFICATION FairSpec
CONSTANTS
  p1 = p1  a1 = a1  b1 = b1  c0 = c0  c1 = c1  c2 = c2
  Requests = {p1}
  Attempts = {a1}
  Generations = {1, 2}
  Branches = {b1}
  Commits = {c0, c1, c2}
  Terms <- OnePush
  FirstHead <- AtFirst
  Reconcilers = {w1}
  Fencers = {f1}
  Revokers = {v1}
  MaxFaults = 1
  NoCommit = NoCommit  Executor = Executor  Nobody = Nobody
INVARIANTS
  FactsAreTrue FenceShuts
PROPERTIES
  RevokedNeverLands ImplementsPushContract RevocationSettles
CHECK_DEADLOCK FALSE
