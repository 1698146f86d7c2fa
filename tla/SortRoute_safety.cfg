\* Three orders whose points lie anywhere on a line of three.
SPECIFICATION FairSpec
CONSTANTS
  o1 = o1
  o2 = o2
  o3 = o3
  Width = 2
  Orders = {o1, o2, o3}
  NoOrder = NoOrder
  Points <- Line
  Distance <- Apart
  Far = 10
INVARIANTS PickupFirst EachStopOnce
PROPERTIES NearestFirst Returns
CHECK_DEADLOCK FALSE
