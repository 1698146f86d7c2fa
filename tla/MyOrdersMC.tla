-------------------------------- MODULE MyOrdersMC --------------------------------
(***************************************************************************)
(* Instances of MyOrders for TLC: two orders picked up at one shop.        *)
(***************************************************************************)
EXTENDS MyOrders

CONSTANTS o1, o2, home, away, shop, me, other

MCStartOf  == [o \in Orders |-> shop]
MCFinishOf == [o \in Orders |-> IF o = o1 THEN home ELSE away]

(* The tabs share the queues and nothing else: each alone, then both.  Then *)
(* a leg is followed, one a route has for a single order or one it has only *)
(* for two.                                                                 *)
Launch(holders, tabs, n, legs) == [holder : holders, tabs : {tabs}, changes : {n}, leg : legs]

OneMine == [o \in Orders |-> IF o = o1 THEN me ELSE NoOne]
AllMine == [o \in Orders |-> me]

MCLaunches ==
  Launch([Orders -> Holders], {"Storage"}, 3, {0})
  \cup Launch({OneMine}, {"Route"}, 1, {0})
  \cup Launch([Orders -> {me, NoOne}], {"Storage", "Route"}, 0, {0})
  \cup Launch({OneMine, AllMine}, {"Route"}, 0, {2, 4})
  \cup Launch({[OneMine EXCEPT ![o2] = Unposted]}, {"Route"}, 1, {2})
==================================================================================
