\* Two orders; the tab appears once, one drop each; or one card, a cell bound twice.
SPECIFICATION TabSpec
CONSTANTS
  o1 = o1
  o2 = o2
  s1 = s1
  s2 = s2
  Unheard = Unheard
  Orders = {o1, o2}
  MaxAppear = 1
  MaxChanges = 2
  Listed = {o1, o2}
  ShopOf <- MCShopOf
  Nobody = Nobody
  Blank = Blank
  NoText = NoText
  NoPhoto = NoPhoto
  TheList = TheList
  Kinds <- MCKinds
  MaxBinds = 2
  MaxTakes = 1
INVARIANTS RowsExist NothingTwice FreeOrdersListed EveryLabelWritten CardIsOfOneOrder
PROPERTY PostedIsSeen
CHECK_DEADLOCK FALSE
