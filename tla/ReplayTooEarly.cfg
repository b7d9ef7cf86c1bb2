SPECIFICATION Spec
CONSTANTS
  Requests = {r1, r2}
  Keys = {k1}
  NoKey = NoKey
  KeyOf <- SameKey
  NoReply = NoReply
  MaxFaults = 0
  k1 = k1
  r1 = r1
  r2 = r2
INVARIANT NoSideEffectsReplay
CHECK_DEADLOCK FALSE
