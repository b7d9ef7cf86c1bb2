SPECIFICATION FeedSpec
CONSTANTS
  Jobs = {j1}
  Slots = {s1}
  Procs = {p1}
  ProcOf <- OneProcess
  Cancels = {c1}
  MaxAttempts <- Twice
  MaxCrashes = 1
  MaxDbErrors = 0
  MaxLockLosses = 0
  MaxApiFaults = 0
  MaxEarlyCancels = 0
  MaxStalledCount = 1
  Viewers = {v1}
  Watches <- WatchOne
  MaxLostEvents = 1
  NoJob = NoJob
  NoLock = NoLock
  Orphan = Orphan
  j1 = j1
  s1 = s1
  p1 = p1
  c1 = c1
  v1 = v1
INVARIANTS FeedTellsVerdict
PROPERTIES EventuallySettles ImplementsContract
CHECK_DEADLOCK FALSE
