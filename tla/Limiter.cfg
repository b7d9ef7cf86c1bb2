SPECIFICATION FairSpec
CONSTANTS
  Requests = {r1, r2, r3}
  Limit = 3
  Window = 4
  NoTtl = NoTtl
  MaxCount = 5
  MaxFaults = 1
  r1 = r1
  r2 = r2
  r3 = r3
INVARIANTS TypeOK TwiceTheLimit
PROPERTY Unblocks
CHECK_DEADLOCK FALSE
