-------------------------------- MODULE NewsTabMC --------------------------------
(***************************************************************************)
(* Instances of NewsTab for TLC: two orders, of two shops.                 *)
(***************************************************************************)
EXTENDS NewsTab

CONSTANTS o1, o2, s1, s2

MCShopOf == [o \in Listed |-> IF o = o1 THEN s1 ELSE s2]
MCKinds == DOMAIN Cards \cup {TheList}
================================================================================
