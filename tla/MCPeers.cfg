\* What is between this client and its peers; one component a behaviour.
SPECIFICATION SumSpec
CONSTANTS
  Explored = {"solo", "swarm", "pool", "up", "pace", "wire", "ext", "pex"}
  a = a
  b = b
  Peers = {a, b}
  NoPeer = NoPeer
  Pieces = {0}
  BlockCount <- TwoBlocks
  Holds <- AllSeeds
  Corruptors = {a, b}
  Limit = 1
  Threshold = 0
  EndgameDelay = 1
  BlockTimeout = 1
  SwarmPeers = {"s"}
  BitfieldFirst = FALSE
  MayCorrupt = TRUE
  MayReturn = TRUE
  MaxCount = 2
  Listeners = {"l", "m"}
  Callers = {"x"}
  Conns = {1, 2}
  NoConn = 0
  MaxConn = 1
  MaxFailures = 2
  Shared = {"b"}
  Slots = 1
  MaxRequests = 1
  Limited = TRUE
  Fickle = TRUE
  MaxTurns = 1
  Rate = 3
  Lengths = {1, 2, 4}
  MaxLength = 4
  MaxClock = 6
  MaxBlocks = 4
  Closers = {"w1", "w2"}
  Messages = 2
  BeyondLast = TRUE
  Dialler = "d"
  Listener = "l"
  Foreign = "l"
  Torrents = {"t1", "t2"}
  Names = {"pex", "meta"}
  Ids = {0, 1, 2}
  UsableIds = {1, 2}
  NoName = "none"
  Broken = Broken
  MaxSends = 1
  Addresses = {"x1", "x2", "x3"}
  Inbound = {"x2"}
  MaxInitial = 2
  MaxLater = 1
  Returns = 2
INVARIANTS
  RequestsAreAlive
  AvailabilityCoversTracked
  PoolIsAccounted
  SendsAreAllowed
  ConnectionsEndOnce
  PeersUnderstandEachOther
  LedgerIsTold
PROPERTY PlanKeepsPeersBusy
SYMMETRY PeerSymmetry
CHECK_DEADLOCK FALSE
