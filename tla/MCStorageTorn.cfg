CONSTANTS
  n1 = n1
  n2 = n2
  n3 = n3
  Inodes = {n1, n2, n3}
  None = None
  Pieces <- OnePiece
  Files <- OneFile
  Overlap <- InOneFile
  MaxUp = 0
  MaxSavers = 2
  SlowDisk = FALSE
  DiskFails = FALSE
SYMMETRY InodeSymmetry
SPECIFICATION Spec
INVARIANT ResumeReadable
