\* Two workers and one request, any refusal, one fault, one edit, under fairness.
SPECIFICATION FairSpec
CONSTANTS
  w1 = w1  w2 = w2  m1 = m1  m2 = m2  c1 = c1  c2 = c2
  Workers = {w1, w2}
  Messages = {m1}
  Commits = {c1, c2}
  Refusals <- TwoRefusals
  MaxFaults = 1
  MaxEdits = 1
  NoCommit = NoCommit  NoMessage = NoMessage
INVARIANTS
  BindingIsProved AckedIsTrue NoRequestDropped
PROPERTIES
  NothingUnrecorded ImplementsBranchContract EffectResolves
CHECK_DEADLOCK FALSE
