CONSTANTS
  a = a
  b = b
  c = c
  d = d
  common = common
  rare = rare
  f1 = f1
  f2 = f2
  f3 = f3
  Node = {a, b}
  Term = {common, rare}
  File = {f1, f2, f3}
  Matching <- mcMatching
  Holdings <- mcHoldings3
  Networks <- mcNetworks2
  TTL = 2
  MaxTTL = 2
  MaxNeighbors = 2
  MaxSeen = 4
  Expiry = 9
  MaxResults = 8
  MaxTime = 1
SPECIFICATION Spec
INVARIANTS
  ResultsAnswerSearch
CHECK_DEADLOCK FALSE
