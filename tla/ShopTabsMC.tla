-------------------------------- MODULE ShopTabsMC --------------------------------
(***************************************************************************)
(* Instances of ShopTabs for TLC: the two tabs share the tab bar and       *)
(* nothing else, so a launch is about one of them, or about the loading    *)
(* screen before them.                                                     *)
(***************************************************************************)
EXTENDS ShopTabs, TLC

CONSTANTS o1, o2, u1, u2, shop, home, office

Symmetry == Permutations(Orders) \cup Permutations(Shippers)

MCAddresses == [start |-> {shop}, finish |-> {home, office}]

(* One image of three hundredths, as all of VbtI.gif, where the launch is   *)
(* about the tabs.                                                          *)
Still == <<[readable |-> TRUE, unclamped |-> 3, clamped |-> 10]>>

Launch(topic, holders, sources) == [about : {topic}, holder : holders, source : sources]
NothingPosted == [o \in Orders |-> Unposted]

MCLaunches ==
  Launch("list", [Orders -> Holders \cup {Unposted}], {Still})
  \cup Launch("posts", {NothingPosted}, {Still})
  \cup Launch("loading", {NothingPosted}, Images(3, {0, 3, 201}, {0, 10}))
===================================================================================
