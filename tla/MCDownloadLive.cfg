CONSTANTS
  a = a
  b = b
  NoPeer = NoPeer
  Peers = {a, b}
  Pieces <- OnePiece
  BlockCount <- OneBlock
  Holds <- AllSeeds
  Corruptors = {a}
  Limit = 1
  EndgameEnabled = FALSE
  Threshold = 0
  EndgameDelay = 1
  BlockTimeout = 1
  DiskMayFail = FALSE
SPECIFICATION FairSpec
PROPERTY DownloadCompletes
