CONSTANTS
  a = a
  b = b
  c = c
  d = d
  common = common
  rare = rare
  f1 = f1
  f2 = f2
  f3 = f3
  Node = {a, b, c, d}
  Term = {common}
  File = {f1, f2, f3}
  Matching <- mcMatching
  Holdings <- mcHoldings4
  Networks <- mcNetworks4
  TTL = 5
  MaxTTL = 3
  MaxNeighbors = 3
  MaxSeen = 4
  Expiry = 9
  MaxResults = 8
  MaxTime = 0
SPECIFICATION Spec
INVARIANTS
  NoDuplicateResults
  NeverOwnNeighbor
  HopBound
  FloodReachesAll
  SearchComplete
PROPERTIES
  ImplementsLookup
CHECK_DEADLOCK FALSE
