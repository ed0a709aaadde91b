SPECIFICATION Spec
CONSTANTS
  w1 = w1  w2 = w2  k1 = k1  a = a  b = b  x1 = x1
  c1 = c1  c2 = c2  c3 = c3  c4 = c4
  Workers <- TwoWorkers
  Sweepers <- OneSweeper
  Ids <- TwoIds
  Aliases <- SameOne
  ResolverMayFail = FALSE
  SnapshotReads = TRUE
  Exceptions <- NoException
  ExceptionOf <- DayZero
  ClientEventIds <- ThreeEvents
  NoEvent = NoEvent
  AllowPausedCheckout = TRUE
  OfflineLag = 1
  Day = 2
  Tz = 1
  Grace = 1
  BatchSize = 2
  MaxSessions = 2
  MaxTime = 2
SYMMETRY Interchangeable
CHECK_DEADLOCK FALSE
INVARIANTS
  OneActiveInv
