SPECIFICATION Spec
CONSTANTS
  Jobs = {j1}
  Slots = {s1, s2}
  Procs = {p1, p2}
  ProcOf <- OwnProcess
  Cancels = {c1}
  MaxAttempts <- Twice
  MaxCrashes = 2
  MaxDbErrors = 1
  MaxLockLosses = 1
  MaxApiFaults = 1
  MaxEarlyCancels = 1
  MaxStalledCount = 1
  NoJob = NoJob
  NoLock = NoLock
  Orphan = Orphan
  j1 = j1
  s1 = s1
  s2 = s2
  p1 = p1
  p2 = p2
  c1 = c1
INVARIANTS TypeOK BoundedExecutions LockProtects SettledAgreement
PROPERTIES CancelledIsFinal CancelledNeverStarts
CHECK_DEADLOCK FALSE
