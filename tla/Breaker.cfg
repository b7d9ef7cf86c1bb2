SPECIFICATION FairSpec
CONSTANTS
  Callers = {c1, c2, c3}
  Threshold = 5
  ResetTimeout = 3
  NoTtl = NoTtl
  MaxFaults = 1
  c1 = c1
  c2 = c2
  c3 = c3
INVARIANTS TypeOK KeyExpires BoundedOvershoot OpenAtMostReset
PROPERTY Closes
CHECK_DEADLOCK FALSE
