CONSTANTS
  Size = 2
  PeerCount = 3
  ChunkSize = 1
  MaxDownloads = 2
  NoFile = NoFile
SPECIFICATION FairSpec
PROPERTY
  DownloadReturns
CHECK_DEADLOCK FALSE
