-------------------------------- MODULE MyOrders --------------------------------
(***************************************************************************)
(* The Storage tab and the Route tab of one shipper's phone together: what *)
(* they show of the orders this shipper has taken, while orders are        *)
(* posted, taken and dropped under them.                                   *)
(***************************************************************************)
EXTENDS StorageList, RouteMap

vars == <<database, client, storage, map>>

Init == \E l \in Launches : PhoneInit(l) /\ StorageInit /\ RouteInit(l.leg)

Next ==
  \/ ClientNext /\ UNCHANGED <<storage, map>>
  \/ StorageNext /\ UNCHANGED map
  \/ RouteNext /\ UNCHANGED storage

Spec == Init /\ [][Next]_vars
--------------------------------------------------------------------------------
(* StorageCatchesUp: once nothing is on its way, the Storage tab lists      *)
(* exactly the orders this shipper has taken, although every past value of  *)
(* "Product" has left a listener behind that also rebuilds the list         *)
(* (ServiceGetStorage.swift:29-38).                                         *)
StorageCatchesUp == Quiet /\ storageOpen => storageProducts = Mine(holder)

(* CrashOnlyAfterLoss: a block that goes back to arrayLocation by an index  *)
(* (RouteControllerPresenter.swift:51, :67) finds it out of range only      *)
(* after this shipper has lost an order; posting and taking, by whomever,   *)
(* never does that.                                                         *)
CrashOnlyAfterLoss == ~running => lost

(* PinsCover: once nothing is on its way, both points of every order this   *)
(* shipper has taken have a pin, whatever the blocks found at their indices *)
(* while the list was built anew (RouteControllerPresenter.swift:51, :67),  *)
(* and a pin at anybody else's order is left over from one that was lost.   *)
PinsCover ==
  Quiet /\ routeOpen =>
    LET own == {Pin(o, kind) : o \in Mine(holder), kind \in {"start", "finish"}}
    IN own \subseteq pins /\ (pins \subseteq own \cup {ZeroPin} \/ lost)

(* RouteIsCurrent: once nothing is on its way and the position is known,    *)
(* the route last asked for goes through both located points of every order *)
(* of this shipper and no other (RouteControllerPresenter.swift:36-70).     *)
(* Without an order nothing replaces the last route: a route that is still  *)
(* there then is left over from an order this shipper has lost.             *)
RouteIsCurrent ==
  Quiet /\ routeOpen /\ hasPosition =>
    IF Mine(holder) # {} THEN route = [order : Mine(holder), start : {TRUE}, finish : {TRUE}]
    ELSE route = {} \/ lost

(* RouteDrawn: of the route last asked for every leg is on the map, or      *)
(* under way, or was refused, however the answers are ordered and the       *)
(* routes follow each other; and what else is on the map was asked for      *)
(* earlier and has come since the map was cleared                           *)
(* (RouteControllerPresenter.swift:111-140).                                *)
RouteDrawn ==
  /\ HasLeg(route) => route \in overlays \cup refused \cup ToSet(asking)
  /\ overlays \ {route} # {} => stale
=================================================================================
