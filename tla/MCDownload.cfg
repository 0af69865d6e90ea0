CONSTANTS
  a = a
  b = b
  NoPeer = NoPeer
  Peers = {a, b}
  Pieces <- OnePiece
  BlockCount <- TwoBlocks
  Holds <- AllSeeds
  Corruptors = {a, b}
  Limit = 1
  EndgameEnabled = TRUE
  Threshold = 1
  EndgameDelay = 1
  BlockTimeout = 2
  DiskMayFail = TRUE
SYMMETRY PeerSymmetry
SPECIFICATION Spec
INVARIANTS
  TypeOK
  RequestsAgree
  RequestsAreCounted
  VerifiedAgree
  DiskIntegrity
PROPERTY RaceOnlyAtTheEnd
