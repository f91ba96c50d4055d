CONSTANTS
  h1 = h1
  h2 = h2
  p1 = p1
  p2 = p2
  f1 = f1
  f2 = f2
  word = word
  same = same
  content = content
  c1 = c1
  c2 = c2
  c3 = c3
  c4 = c4
  IP = {h1, h2}
  Port = {p1, p2}
  File = {f1, f2}
  Identity = {content}
  NoIdentity = NoIdentity
  Content <- mcContent
  Term = {word, same}
  Parsed <- mcParsed
  Matching <- mcMatching
  Shares <- mcShares
  Conn = {c1, c2, c3, c4}
  Capacity = 3
  MaxNeighbors = 1
  MaxResults = 2
  MaxTime = 1
  NoReply = NoReply
SYMMETRY Symmetry
SPECIFICATION Spec
INVARIANTS
  FreshestReturned
CHECK_DEADLOCK FALSE
