SPECIFICATION Spec
SYMMETRY KeysAndRequests
CONSTANTS
  Keys = {k1, k2, k3}
  Users = {dev, ann}
  DevUser = dev
  Requests = {r1, r2, r3}
  NoKey = NoKey
  NoUser = NoUser
  MaxFaults = 1
  k1 = k1
  k2 = k2
  k3 = k3
  dev = dev
  ann = ann
  r1 = r1
  r2 = r2
  r3 = r3
INVARIANTS TypeOK RevokedAdmitsNothing RevocationsAgree
PROPERTY LockedOutForGood
CHECK_DEADLOCK FALSE
