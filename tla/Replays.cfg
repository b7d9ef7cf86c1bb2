SPECIFICATION Spec
CONSTANTS
  Requests = {r1, r2, r3, r4, r5}
  Keys = {k1}
  NoKey = NoKey
  KeyOf <- OneKey
  NoReply = NoReply
  MaxFaults = 1
  k1 = k1
  r1 = r1
  r2 = r2
  r3 = r3
  r4 = r4
  r5 = r5
INVARIANTS TypeOK ReplaysAgree StoredEndsEffects
CHECK_DEADLOCK FALSE
