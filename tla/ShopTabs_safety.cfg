\* Two orders, two shippers, two changes after any start; or one start, two finishes, two forms.
SPECIFICATION TabsSpec
CONSTANTS
  o1 = o1
  o2 = o2
  u1 = u1
  u2 = u2
  shop = shop
  home = home
  office = office
  Orders = {o1, o2}
  Shippers = {u1, u2}
  NoOne = NoOne
  Unposted = Unposted
  Unheard = Unheard
  Blank = Blank
  MaxChanges = 2
  Addresses <- MCAddresses
  Empty = Empty
  NoField = NoField
  MaxAnswers = 2
  MaxForms = 2
  Short = {201}
  Launches <- MCLaunches
SYMMETRY Symmetry
INVARIANTS IndexInRange RowsComplete ShipperShown NoDeadEnd RouteForPanel DistanceOfPanel FormWasOffered EachForItsDelay
CHECK_DEADLOCK FALSE
