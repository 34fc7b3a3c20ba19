SPECIFICATION ViewsSpec
CONSTANTS
  c1 = c1
  c2 = c2
  a = a
  b = b
  t1 = t1
  Consumers = {c1, c2}
  Checkpoint <- OneCheckpoint
  FirstUse <- TrustFirst
  MaxKey = 2
  None = None
  MaxGeneration = 2
  MaxMishaps = 2
  Roots = {a, b}
  Stamps = {t1}
  MaxCommitWalk = 2
  Callers = {u1, u2}
  Signed <- Revisions
  Foreign <- Others
  MaxCaps = 3
  MaxCapBytes = 4
  MaxUpsets = 1
  MaxFailures = 1
INVARIANT HandlesStayReadable
INVARIANT NoFalseAlarm
PROPERTY DenialIsTrue
CHECK_DEADLOCK FALSE
INVARIANT ExposedIsAnchored
PROPERTY ViewsAdvance
