CONSTANTS
  a = a
  b = b
  c = c
  d = d
  common = common
  rare = rare
  f1 = f1
  f2 = f2
  f3 = f3
  Node = {a, b, c}
  Term = {common}
  File = {f1, f2, f3}
  Matching <- mcMatching
  Holdings <- mcHoldings3
  Networks <- mcNetworks3
  TTL = 3
  MaxTTL = 2
  MaxNeighbors = 1
  MaxSeen = 1
  Expiry = 1
  MaxResults = 1
  MaxTime = 1
SPECIFICATION FairSpec
INVARIANTS
  TypeOK
PROPERTIES
  FloodDiesOut
CHECK_DEADLOCK FALSE
