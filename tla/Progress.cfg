SPECIFICATION ProgressSpec
CONSTANTS
  p1 = p1
  p2 = p2
  c1 = c1
  c2 = c2
  j1 = j1
  k1 = k1
  a = a
  b = b
  t1 = t1
  Revisions = {r1, r2, r3}
  None = None
  Roots = {a, b}
  Stamps = {t1}
  MaxTries = 4
  MaxPublications = 3
  Processes = {p1, p2}
  MaxGeneration = 2
  MaxPublicationFaults = 4
  MaxBuilds = 3
  MaxRootAttempts = 2
  Callers = {u1}
  MaxRefusals = 2
  MaxAttempts = 3
  MaxSnapshots = 3
  MaxSweepErrors = 1
  MaxPollErrors = 1
  Workspaces <- Three
  Configs <- Sets
  ConfigPath <- Handoff
  MaxFaults = 2
  MaxDeaths = 2
INVARIANT SessionIsSound
INVARIANT MountsAreApart
PROPERTY SessionOnlyAdvances
PROPERTY PendingIsResolved
PROPERTY RootSettles
PROPERTY SessionCompletes
PROPERTY CatchesUp
PROPERTY StatusIsTrue
PROPERTY KernelCatchesUp
PROPERTY EverythingStops
CHECK_DEADLOCK FALSE
