\* What finds peers: trackers, the DHT, magnet links; one component a behaviour.
SPECIFICATION SumSpec
CONSTANTS
  Explored = {"udp", "ann", "srv", "dht", "node", "krpc", "meta", "mag"}
  Askers = {"p", "q"}
  NoAsker = "nobody"
  QueryIds = {1, 2}
  Retries = 1
  Outstanding = 1
  Clients = {"p", "q"}
  MaxRetries = 1
  MaxCalls = 2
  Batches = 1
  Chunks = 3
  Pipeline = 2
  Windows = 1
  Backlog = 1
  SlowPeers = TRUE
  Peers = {"p", "q", "r"}
  Limit = 2
  BadAnswers = TRUE
  Hosts = {"p", "q"}
  Torrents = {"t", "u"}
  TcpPorts = {5, 9}
  UdpPort = 2
  MaxPort = 8
  PeersKept = 2
  PeerTtl = 1
  Rotation = 1
  Rotates = TRUE
  Tokens = 2
  Horizon = 2
  Announcing = {"a"}
  Seeds = {"s"}
  Wants = {0, 1}
  Returned = 1
  Ttl = 1
  NoOne = "nobody"
  MaxAnnounces = 2
  MaxClock = 2
  OnTheWay = 1
INVARIANTS
  RepliesAreOwn
  NearestAreAsked
  MetadataIsPursued
PROPERTIES
  ListsAreTrue
  RetriesSlowDown
CHECK_DEADLOCK FALSE
