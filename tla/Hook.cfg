SPECIFICATION FairSpec
CONSTANTS
  Events = {e1}
  Webhooks = {w1}
  Urls = {u1}
  UrlOf <- SharedUrl
  Slots = {s1, s2}
  MaxAttempts = 3
  Threshold = 1
  MaxCrashes = 2
  MaxErrors = 2
  MaxChanges = 2
  MaxStalledCount = 1
  NoDelivery = NoDelivery
  NoLock = NoLock
  Orphan = Orphan
  e1 = e1
  w1 = w1
  u1 = u1
  s1 = s1
  s2 = s2
INVARIANTS TypeOK BoundedPosts SettledDelivery DeliveredWasAccepted AttemptsNeverLag
PROPERTIES VerdictIsFinal EventuallyJudged
CHECK_DEADLOCK FALSE
