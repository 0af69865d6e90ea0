\* What the program does with a resume file that is damaged.
SPECIFICATION SumSpec
CONSTANTS
  Explored = {"resume"}
  Hashes = {"h"}
  Callers = {"c", "d"}
  MaxEngines = 2
  Callees = {"c", "d"}
  Faults = TRUE
  Emitters = {"engine"}
  MaxEvents = 4
  Capacity = 2
  Sections = {"network", "upload"}
  Values = {"default", "other"}
  Default = "default"
  Built = {"network"}
  MaxSaves = 1
  Procs = {"p", "q"}
  Torrents = {"t"}
  Clicked = {"l"}
  Silent = FALSE
  NoSeed = FALSE
  MaxCtrlC = 3
  Hashed = {0, 1}
  Workers = 1
  Factor = 1
  MaxPools = 2
  MaxBad = 1
  h1 = h1
  p1 = p1
  NoEngine = NoEngine
  Missing = Missing
  Wrong = Wrong
  NotJson = NotJson
  NotUtf8 = NotUtf8
  Never = Never
INVARIANT CorruptIsNotFatal
CHECK_DEADLOCK FALSE
