\* Two shops post one order each within the same second.
SPECIFICATION Spec
CONSTANTS
  s1 = s1
  s2 = s2
  u1 = u1
  Shops = {s1, s2}
  Shippers = {u1}
  Nobody = Nobody
  Absent = Absent
  Written = Written
  MaxTime = 0
  MaxPosts = 1
SYMMETRY Symmetry
INVARIANTS ListedIsWhole NothingTakenBack
PROPERTY WipedOnlyByRepeat
CHECK_DEADLOCK FALSE
