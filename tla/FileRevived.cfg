SPECIFICATION Spec
CONSTANTS
  Files = {f1}
  Slots = {s1}
  Deletes = {d1}
  Downloads = {}
  MaxAttempts = 2
  MaxCrashes = 0
  MaxErrors = 0
  MaxStalledCount = 1
  NoFile = NoFile
  NoLock = NoLock
  Orphan = Orphan
  f1 = f1
  s1 = s1
  d1 = d1
PROPERTY DeletedForGood
CHECK_DEADLOCK FALSE
