\* Two phones, one order, up to two listeners on the first phone, fair network.
SPECIFICATION FixedAccounts
CONSTANTS
  d1 = d1
  d2 = d2
  u1 = u1
  u2 = u2
  o1 = o1
  o2 = o2
  Devices = {d1, d2}
  Users = {u1, u2}
  Orders = {o1}
  NoUser = NoUser
  MaxClaims = 2
  MaxPending = 2
  MaxQueue = 3
  MaxInbox = 3
INVARIANT EchoNeverDrains
PROPERTY SoleClaimSettles
CHECK_DEADLOCK FALSE
