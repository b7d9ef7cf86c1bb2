SPECIFICATION FairSpec
CONSTANTS
  Times = {1, 2}
  Ids = {1, 2, 3}
  Limit = 2
  NoCursor = NoCursor
INVARIANTS NoRowTwice NothingSkipped
PROPERTY ScanEnds
CHECK_DEADLOCK FALSE
