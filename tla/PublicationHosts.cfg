SPECIFICATION Spec
CONSTANTS
  Publishers = {p1, p2}
  Journals = {j1, j2}
  JournalOf <- OwnJournals
  Keys = {k1, k2}
  KeyOf <- RotatedKeys
  Checkpoint <- NoCheckpoint
  FirstUse <- AllFirstUse
  FirstReference = None
  Revisions = {r1, r2, r3}
  None = None
  MaxGeneration = 3
  MaxTries = 2
  MaxFaults = 1
  MaxMishaps = 0
  Roots = {a, b}
  Stamps = {t1}
  MaxCommitWalk = 10
  p1 = p1
  p2 = p2
  j1 = j1
  j2 = j2
  k1 = k1
  k2 = k2
  a = a
  b = b
  t1 = t1
SYMMETRY RevisionSymmetry
INVARIANT SupersededIsFinal
PROPERTY ImplementsChannel
