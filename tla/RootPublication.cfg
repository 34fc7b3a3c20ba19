SPECIFICATION Spec
CONSTANTS
  p1 = p1
  p2 = p2
  a = a
  b = b
  Publishers = {p1, p2}
  Bare = {p1, p2}
  Closures <- Snapshots
  Encrypted = TRUE
  None = None
  MaxAttempts = 2
  MaxBuilds = 2
  MaxFaults = 1
  MaxMishaps = 1
SYMMETRY Symmetry
INVARIANT RootIsKnown
PROPERTY NothingGoesBack
