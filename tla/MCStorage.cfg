CONSTANTS
  n1 = n1
  n2 = n2
  n3 = n3
  Inodes = {n1, n2}
  None = None
  Pieces <- TwoPieces
  Files <- TwoFiles
  Overlap <- Straddling
  MaxUp = 0
  MaxSavers = 1
  SlowDisk = TRUE
  DiskFails = TRUE
SYMMETRY InodeSymmetry
SPECIFICATION Spec
INVARIANTS
  HaveIsOnDisk
  ResumeIsHonest
  ResumeReadable
PROPERTY RestartKeepsProgress
