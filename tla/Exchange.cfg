CONSTANTS
  find = find
  foreign = foreign
  huge = huge
  MaxCalls = 2
  Kind = {find, foreign, huge}
  Served = {find}
  Size <- mcSize
  Capacity = 2
  ReplySize = 1
  Prefix = 2
  Buffer = 2
  Attempts = 2
  Addresses = 2
  MaxStops = 1
SPECIFICATION FairSpec
INVARIANTS
  TypeOK
  FramesWhole
  ActedAtMostOnce
  LateOnlyIfFailed
  NoSocketLeaks
  NeverBothWait
PROPERTIES
  ImplementsRpc
  CallsReturn
  ThreadsEnd
CHECK_DEADLOCK FALSE
