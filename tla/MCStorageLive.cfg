CONSTANTS
  n1 = n1
  n2 = n2
  n3 = n3
  Inodes = {n1, n2}
  None = None
  Pieces <- OnePiece
  Files <- OneFile
  Overlap <- InOneFile
  MaxUp = 1
  MaxSavers = 1
  SlowDisk = TRUE
  DiskFails = FALSE
SPECIFICATION FairSpec
PROPERTY StopReturns
