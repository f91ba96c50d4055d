CONSTANTS
  a = a
  b = b
  x = x
  y = y
  Word = 16
  Client = {a, b}
  User = {b}
  Name = {x, y}
  Identity <- mcIdentity
  Shares <- mcShares
  Term <- mcTerm
  NamesWith <- mcNamesWith
  Line <- mcLine
  MaxFiles = 1
  Absent = Absent
  TornName <- mcTornName
  TornIdentity <- mcTornIdentity
  MaxCommands = 2
  MaxEvents = 1
SPECIFICATION Spec
INVARIANTS
  AnswersAreScanned
CHECK_DEADLOCK FALSE
