SPECIFICATION ServerSpec
CONSTANTS
  c1 = c1
  c2 = c2
  w1 = w1
  w2 = w2
  Requests = {c1, c2, w1, w2}
  Slots = 2
  Reports <- MCReports
INVARIANTS
  PermitsConserved
  AnswersTruthful
PROPERTY
  NobodyWaitsForever
CHECK_DEADLOCK FALSE
