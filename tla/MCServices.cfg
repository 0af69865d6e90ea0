\* What runs the torrents and shows them; one component a behaviour.
SPECIFICATION SumSpec
CONSTANTS
  Explored = {"session", "engine", "feed", "set", "desk", "cli", "resume", "hash", "stats", "meters", "web", "shared", "bus",
              "window", "dialogs", "lines"}
  Hashes = {"h"}
  Callers = {"c", "d"}
  MaxEngines = 2
  Callees = {"c", "d"}
  Faults = TRUE
  Emitters = {"engine"}
  MaxEvents = 4
  Capacity = 2
  Sections = {"network", "upload"}
  Values = {"default", "other"}
  Default = "default"
  Built = {"network"}
  MaxSaves = 2
  Procs = {"p", "q"}
  Torrents = {"t"}
  Clicked = {"l"}
  Silent = FALSE
  NoSeed = FALSE
  MaxCtrlC = 3
  Hashed = {0, 1}
  Workers = 1
  Factor = 1
  MaxPools = 2
  MaxBad = 1
  h1 = h1
  p1 = p1
  NoEngine = NoEngine
  Missing = Missing
  Wrong = Wrong
  NotJson = NotJson
  NotUtf8 = NotUtf8
  Never = Never
INVARIANTS
  SessionHoldsTogether
  EngineIsAsItSays
  SavedIsThere
  ShownIsTrue
  EveryoneIsTold
PROPERTIES
  BelievedIsOnDisk
  FeedIsChannel
CHECK_DEADLOCK FALSE
