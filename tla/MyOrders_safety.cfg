\* Two orders from one shop, two shippers; the launches are in MyOrdersMC.
SPECIFICATION Spec
CONSTANTS
  o1 = o1
  o2 = o2
  home = home
  away = away
  shop = shop
  me = me
  other = other
  Orders = {o1, o2}
  Shippers = {me, other}
  Me = me
  NoOne = NoOne
  Unposted = Unposted
  Unheard = Unheard
  StartOf <- MCStartOf
  FinishOf <- MCFinishOf
  Launches <- MCLaunches
  MaxAsked = 2
INVARIANTS StorageCatchesUp CrashOnlyAfterLoss PinsCover RouteIsCurrent RouteDrawn
CHECK_DEADLOCK FALSE
