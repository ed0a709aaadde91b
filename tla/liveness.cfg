SPECIFICATION FairSpec
CONSTANTS
  w1 = w1  w2 = w2  k1 = k1  a = a  b = b  x1 = x1
  c1 = c1  c2 = c2  c3 = c3  c4 = c4
  Workers <- OneWorker
  Sweepers <- OneSweeper
  Ids <- OneId
  Aliases <- Distinct
  ResolverMayFail = FALSE
  SnapshotReads = TRUE
  Exceptions <- NoException
  ExceptionOf <- DayZero
  ClientEventIds <- ThreeEvents
  NoEvent = NoEvent
  AllowPausedCheckout = FALSE
  OfflineLag = 0
  Day = 4
  Tz = 1
  Grace = 1
  BatchSize = 2
  MaxSessions = 2
  MaxTime = 5

CHECK_DEADLOCK FALSE
PROPERTIES
  MidnightCloses GraceTimeoutEnds
