SPECIFICATION LocalSpec
CONSTANTS
  Processes = {p1, p2}
  Kinds = {"sealed", "journal", "watermark"}
  Generations = {1, 2}
  Commits = {"a", "b"}
  MaxInstalls = 3
  MaxFaults = 2
  MaxDeaths = 2
  Installers = {p1, p2}
  MaxFiles = 3
  Users = {p1, p2}
  CacheBytes = 3
  CacheChunk = 2
  CacheEntries = 2
  MaxIO = 2
  MaxDamage = 1
  MaxStops = 2
  Names = {n1, n2}
  Chosen = n1
  Blocks = {0, 1}
  FirstFiles = 3
  Contents <- Texts
  StableReadTries = 2
  MaxEdits = 2
  MaxScans = 2
  MaxDepth = 2
  Requests = {p1, p2}
  MaxHandles = 1
  Attempts = 2
  Limit = 2
  MaxInode = 3
  dir = dir
  file = file
  top = top
  FileIn = {1}
  Publishers = {p1, p2}
  Manifests = {m1, m2}
  WeakReads = TRUE
  MaxCommitWalk = 1
  MaxGeneration = 3
  MaxMishaps = 1
SYMMETRY LocalSymmetry
CHECK_DEADLOCK FALSE
INVARIANT AcknowledgedSurvives
INVARIANT HandoffIsConfirmed
INVARIANT CacheIsSound
INVARIANT ScanIsConsistent
INVARIANT ClosureIsExact
INVARIANT ReportIsFinal
INVARIANT InodesAreStable
PROPERTY BaseIsDurable
PROPERTY UnselectedDoesNotShow
