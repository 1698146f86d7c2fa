\* Two phones, two accounts, one order, one tap per phone and launch.
SPECIFICATION Spec
CONSTANTS
  d1 = d1
  d2 = d2
  u1 = u1
  u2 = u2
  o1 = o1
  o2 = o2
  Devices = {d1, d2}
  Users = {u1, u2}
  Orders = {o1}
  NoUser = NoUser
  MaxClaims = 1
  MaxPending = 2
  MaxQueue = 2
  MaxInbox = 3
SYMMETRY Symmetry
INVARIANTS LastWord CacheCatchesUp AcksAnswerWrites QuietMeansAgreed
PROPERTY LastWriterBoard
CHECK_DEADLOCK FALSE
