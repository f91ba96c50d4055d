CONSTANTS
  Size = 5
  PeerCount = 2
  ChunkSize = 2
  MaxDownloads = 2
  NoFile = NoFile
SPECIFICATION Spec
INVARIANTS
  TypeOK
  InstalledIsWhole
  OnlyRacedPeersCorrupt
  NoWriterAfterClose
  DataFramesAreNext
  LeftoverOnlyIfStranded
PROPERTY
  ImplementsAtomicDownload
CHECK_DEADLOCK FALSE
