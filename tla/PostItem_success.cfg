\* One shop posts one order.
SPECIFICATION Spec
CONSTANTS
  s1 = s1
  s2 = s2
  u1 = u1
  Shops = {s1}
  Shippers = {u1}
  Nobody = Nobody
  Absent = Absent
  Written = Written
  MaxTime = 0
  MaxPosts = 1
INVARIANT SuccessIsPosted
CHECK_DEADLOCK FALSE
