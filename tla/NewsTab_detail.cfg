\* The two detail screens.
SPECIFICATION TabSpec
CONSTANTS
  o1 = o1
  o2 = o2
  s1 = s1
  s2 = s2
  Unheard = Unheard
  Orders = {o1, o2}
  MaxAppear = 1
  MaxChanges = 2
  Listed = {o1, o2}
  ShopOf <- MCShopOf
  Nobody = Nobody
  Blank = Blank
  NoText = NoText
  NoPhoto = NoPhoto
  TheList = TheList
  Kinds = {"newsScreen", "storageScreen"}
  MaxBinds = 1
  MaxTakes = 1
INVARIANT DetailIsComplete
CHECK_DEADLOCK FALSE
