SPECIFICATION DownloadsSpec
CONSTANTS
  r1 = r1
  r2 = r2
  r3 = r3
  big = big
  small = small
  Readers = {r1, r2, r3}
  Plan <- MeetingPlans
  ChunkBytes <- Sizes
  MaxBytes = 3
  MaxSlots = 3
  Impatient = {r1}
  MaxFaults = 1
  u1 = u1
  u2 = u2
  Lookers = {u1, u2}
  Hasty = {u1}
  Loads = {l1, l2}
  CacheEntries = 2
  CacheBytes = 2
INVARIANT MemoryIsAccounted
INVARIANT ReservationsReturn
INVARIANT CancellationIsOwn
INVARIANT AnswersOneSnapshot
PROPERTY NoOvertaking
PROPERTY EverybodyReturns
CHECK_DEADLOCK FALSE
