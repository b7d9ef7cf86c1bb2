SPECIFICATION FairSpec
CONSTANTS
  Files = {f1}
  Slots = {s1, s2}
  Deletes = {d1, d2}
  Downloads = {g1}
  MaxAttempts = 2
  MaxCrashes = 1
  MaxErrors = 2
  MaxStalledCount = 1
  NoFile = NoFile
  NoLock = NoLock
  Orphan = Orphan
  f1 = f1
  s1 = s1
  s2 = s2
  d1 = d1
  d2 = d2
  g1 = g1
INVARIANTS TypeOK VisibleHasContent DownloadMissesOnlyDeleted SettledFile NothingLeftBehind
PROPERTY EventuallyProcessed
CHECK_DEADLOCK FALSE
