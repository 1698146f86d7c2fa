\* One shop, one order, an app that is not killed.
SPECIFICATION NeverKilled
CONSTANTS
  s1 = s1
  s2 = s2
  u1 = u1
  Shops = {s1}
  Shippers = {u1}
  Nobody = Nobody
  Absent = Absent
  Written = Written
  MaxTime = 1
  MaxPosts = 1
PROPERTIES WritesArrive ToldAfterUpload
CHECK_DEADLOCK FALSE
