CONSTANTS
  Size = 1
  PeerCount = 1
  ChunkSize = 1
  MaxDownloads = 1
  NoFile = NoFile
SPECIFICATION Spec
INVARIANT
  InstalledIsExact
CHECK_DEADLOCK FALSE
