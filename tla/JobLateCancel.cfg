SPECIFICATION Spec
CONSTANTS
  Jobs = {j1}
  Slots = {s1}
  Procs = {p1}
  ProcOf <- OneProcess
  Cancels = {c1}
  MaxAttempts <- Once
  MaxCrashes = 0
  MaxDbErrors = 0
  MaxLockLosses = 0
  MaxApiFaults = 0
  MaxEarlyCancels = 0
  MaxStalledCount = 1
  NoJob = NoJob
  NoLock = NoLock
  Orphan = Orphan
  j1 = j1
  s1 = s1
  p1 = p1
  c1 = c1
PROPERTY EndedNotCancelled
CHECK_DEADLOCK FALSE
