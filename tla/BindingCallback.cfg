\* As Binding, with one refusal: is an outcome acknowledged in the end?
SPECIFICATION FairSpec
CONSTANTS
  w1 = w1  w2 = w2  m1 = m1  m2 = m2  c1 = c1  c2 = c2
  Workers = {w1, w2}
  Messages = {m1}
  Commits = {c1, c2}
  Refusals <- OneRefusal
  MaxFaults = 1
  MaxEdits = 1
  NoCommit = NoCommit  NoMessage = NoMessage
PROPERTIES
  CallbackConverges
CHECK_DEADLOCK FALSE
