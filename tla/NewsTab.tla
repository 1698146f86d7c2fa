--------------------------------- MODULE NewsTab ---------------------------------
(***************************************************************************)
(* The News tab of the shipper app, and any one card of the two apps: the  *)
(* list of orders (NewsList) decides which cells there are and which       *)
(* screen a tap opens, the card (OrderCard) what is on it.  Neither reads  *)
(* what the other writes, so a launch is about the list or about one card. *)
(***************************************************************************)
EXTENDS NewsList, OrderCard

CONSTANT TheList   \* the kind that stands for the list

ASSUME NewsTabAssumption == TheList \notin DOMAIN Cards /\ Kinds \subseteq DOMAIN Cards \cup {TheList}

TabInit ==
  /\ Init /\ CardInit
  /\ kind = TheList => cache = {} /\ photos = {}

TabNext ==
  \/ kind = TheList /\ Next /\ UNCHANGED card
  \/ kind # TheList /\ CardNext /\ UNCHANGED vars

TabSpec == TabInit /\ [][TabNext]_<<vars, card>> /\ Fairness
===================================================================================
