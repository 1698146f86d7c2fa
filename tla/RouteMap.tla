--------------------------------- MODULE RouteMap ---------------------------------
(***************************************************************************)
(* The Route tab: pins and a route for the orders this shipper has taken.  *)
(*                                                                         *)
(* Every value of "DetailProduct" empties arrayLocation, fills it with the *)
(* shipper's orders, not located yet, and registers listeners on the       *)
(* coordinates of every order.  A coordinate is entered wherever it fits,  *)
(* and for each place a block is queued that goes back to arrayLocation by *)
(* the index it had: it sets a pin and, once the user's position is known, *)
(* asks for a route: the lines on the map are removed, and directions are  *)
(* asked for from each stop to the next, whose answers add a line to the   *)
(* map as it is when they come.  The order of the stops is in SortRoute.   *)
(* The legs of a route are asked for alike and answered one by one: the    *)
(* module follows one of them, any one, in every route that is so long.    *)
(***************************************************************************)
EXTENDS PhoneClient

CONSTANT MaxAsked   \* bound: directions under way when a route is asked for

ASSUME RouteMapAssumption == MaxAsked \in Nat

VARIABLES
  routeOpen,      \* has the tab been opened?
  arrayLocation,  \* the shipper's orders: which of the two points are known
  hasPosition,    \* startPoint: has the user's position been told?
  coCenter,       \* will the next position be used?
  pins,           \* the pins on the map
  route,          \* the stops of the route last asked for
  leg,            \* the leg that is followed in this launch, or 0 for none
  asking,         \* routes whose leg has been asked for, oldest first
  overlays,       \* routes whose leg is on the map
  refused,        \* history: routes without directions for it since the map was cleared
  stale           \* history: has another route's leg been added since then?

drawing == <<route, leg, asking, overlays, refused, stale>>
map     == <<routeOpen, arrayLocation, hasPosition, coCenter, pins, drawing>>

Pin(o, kind) == [order |-> o, kind |-> kind]
ZeroPin == [order |-> NoOne, kind |-> "zero"]

(* The stops of the route through these locations.                          *)
StopsOf(locations) == {locations[k] : k \in DOMAIN locations}

(* Both points of these orders, (0, 0) for now.                             *)
Unlocated(orders) == [k \in DOMAIN orders |-> [order |-> orders[k], start |-> FALSE, finish |-> FALSE]]

(* The listeners on the coordinates of these orders.                        *)
PlacesOf(orders) ==
  [k \in 1..(2 * Len(orders)) |->
     IF k % 2 = 1 THEN [on |-> "start",  place |-> StartOf[orders[(k + 1) \div 2]]]
                  ELSE [on |-> "finish", place |-> FinishOf[orders[k \div 2]]]]

RouteInit(followed) ==
  /\ routeOpen = FALSE /\ arrayLocation = <<>>
  /\ hasPosition = FALSE /\ coCenter = TRUE
  /\ pins = {} /\ route = {}
  /\ leg = followed /\ asking = <<>> /\ overlays = {} /\ refused = {} /\ stale = FALSE
--------------------------------------------------------------------------------
(* viewDidLoad: getLocation.                                                *)
OpenRoute ==
  /\ running /\ "Route" \in toOpen
  /\ toOpen' = toOpen \ {"Route"}
  /\ routeOpen' = TRUE
  /\ observing' = Append(observing, [on |-> "Route"])
  /\ UNCHANGED <<database, heard, known, located, regs, mainq, running, arrayLocation, hasPosition,
                 coCenter, pins, drawing>>

(* A route has one leg to each of its stops, two for a location.            *)
HasLeg(stops) == leg \in 1..(2 * Cardinality(stops))

(* Mutant: the lines of the last route stay on the map.                     *)
ShowRouteOverLast(locations) ==
  /\ Len(asking) < MaxAsked
  /\ route' = StopsOf(locations)
  /\ asking' = IF HasLeg(route') THEN Append(asking, route') ELSE asking
  /\ UNCHANGED <<leg, overlays, refused, stale>>

(* showRouteForUser: the map is cleared, and directions are asked for.      *)
ShowRoute(locations) ==
  /\ Len(asking) < MaxAsked
  /\ route' = StopsOf(locations)
  /\ asking' = IF HasLeg(route') THEN Append(asking, route') ELSE asking
  /\ overlays' = {} /\ refused' = {} /\ stale' = FALSE
  /\ UNCHANGED leg

DidUpdateLocations ==
  /\ routeOpen /\ running
  /\ coCenter
  /\ hasPosition' = TRUE /\ coCenter' = FALSE
  /\ ShowRoute(arrayLocation)
  /\ UNCHANGED <<database, client, routeOpen, arrayLocation, pins>>

ClickCenterAuto ==
  /\ routeOpen /\ running
  /\ coCenter' = ~coCenter
  /\ UNCHANGED <<database, client, routeOpen, arrayLocation, hasPosition, pins, drawing>>
--------------------------------------------------------------------------------
(* Mutant: orders without a shipper are located too.                        *)
RouteValueWithFree ==
  /\ Comes("Route")
  /\ mainq' = Tail(mainq)
  /\ \E list \in SetToSeqs(Posted(Head(mainq).value)) :
       /\ arrayLocation' =
            Unlocated(Selected(list, {o \in Orders : Head(mainq).value[o] \in {Me, NoOne}}))
       /\ observing' = observing \o PlacesOf(list)
  /\ UNCHANGED <<database, heard, known, located, regs, toOpen, running, routeOpen, hasPosition,
                 coCenter, pins, drawing>>

(* A value of "DetailProduct", in the order of a dictionary.                *)
RouteValue ==
  /\ Comes("Route")
  /\ mainq' = Tail(mainq)
  /\ \E list \in SetToSeqs(Posted(Head(mainq).value)) :
       /\ arrayLocation' = Unlocated(Selected(list, Mine(Head(mainq).value)))
       /\ observing' = observing \o PlacesOf(list)
  /\ UNCHANGED <<database, heard, known, located, regs, toOpen, running, routeOpen, hasPosition,
                 coCenter, pins, drawing>>

(* The coordinate a location names.                                         *)
PlaceOf(l, kind) == IF kind = "start" THEN StartOf[l.order] ELSE FinishOf[l.order]

(* Mutant: only the last location that names it is located.                 *)
PlaceValueLast(kind) ==
  /\ Comes(kind)
  /\ LET p == Head(mainq).value
         fits == {k \in DOMAIN arrayLocation : PlaceOf(arrayLocation[k], kind) = p}
         last == {k \in fits : \A j \in fits : j <= k}
         at == Selected([k \in DOMAIN arrayLocation |-> k], last)
     IN /\ arrayLocation' = [k \in DOMAIN arrayLocation |->
             IF k \in last THEN [arrayLocation[k] EXCEPT ![kind] = TRUE] ELSE arrayLocation[k]]
        /\ mainq' = Tail(mainq) \o [j \in DOMAIN at |-> [kind |-> kind, index |-> at[j]]]
  /\ UNCHANGED <<database, heard, known, located, observing, regs, toOpen, running, routeOpen,
                 hasPosition, coCenter, pins, drawing>>

(* A coordinate: every location that names it is located, and for each a    *)
(* block is queued.                                                         *)
PlaceValue(kind) ==
  /\ Comes(kind)
  /\ LET p == Head(mainq).value
         fits == {k \in DOMAIN arrayLocation : PlaceOf(arrayLocation[k], kind) = p}
         at == Selected([k \in DOMAIN arrayLocation |-> k], fits)
     IN /\ arrayLocation' = [k \in DOMAIN arrayLocation |->
             IF k \in fits THEN [arrayLocation[k] EXCEPT ![kind] = TRUE] ELSE arrayLocation[k]]
        /\ mainq' = Tail(mainq) \o [j \in DOMAIN at |-> [kind |-> kind, index |-> at[j]]]
  /\ UNCHANGED <<database, heard, known, located, observing, regs, toOpen, running, routeOpen,
                 hasPosition, coCenter, pins, drawing>>

IsBlock == running /\ mainq # <<>> /\ "index" \in DOMAIN Head(mainq)

(* Mutant: only a finish asks for the route.                                *)
BlockRouteAtFinish ==
  /\ IsBlock
  /\ Head(mainq).index \in DOMAIN arrayLocation
  /\ mainq' = Tail(mainq)
  /\ LET l == arrayLocation[Head(mainq).index]
         kind == Head(mainq).kind
     IN /\ pins' = pins \cup {IF l[kind] THEN Pin(l.order, kind) ELSE ZeroPin}
        /\ IF hasPosition /\ kind = "finish" THEN ShowRoute(arrayLocation) ELSE UNCHANGED drawing
  /\ UNCHANGED <<database, heard, known, located, observing, regs, toOpen, running, routeOpen,
                 arrayLocation, hasPosition, coCenter>>

(* The block finds its location: a pin, where the point is known by now,    *)
(* and the route.                                                           *)
Block ==
  /\ IsBlock
  /\ Head(mainq).index \in DOMAIN arrayLocation
  /\ mainq' = Tail(mainq)
  /\ LET l == arrayLocation[Head(mainq).index]
         kind == Head(mainq).kind
     IN pins' = pins \cup {IF l[kind] THEN Pin(l.order, kind) ELSE ZeroPin}
  /\ IF hasPosition THEN ShowRoute(arrayLocation)
     ELSE UNCHANGED drawing
  /\ UNCHANGED <<database, heard, known, located, observing, regs, toOpen, running, routeOpen,
                 arrayLocation, hasPosition, coCenter>>

(* It does not: arrayLocation has become shorter, and Swift stops the app.  *)
BlockOutOfRange ==
  /\ IsBlock
  /\ Head(mainq).index \notin DOMAIN arrayLocation
  /\ running' = FALSE
  /\ UNCHANGED <<database, heard, known, located, observing, regs, mainq, toOpen, map>>

--------------------------------------------------------------------------------
(* Directions come, for whatever route: the line is added to the map.       *)
DirectionsFound(k) ==
  /\ running /\ k \in DOMAIN asking
  /\ overlays' = overlays \cup {asking[k]}
  /\ stale' = (stale \/ asking[k] # route)
  /\ asking' = RemoveAt(asking, k)
  /\ UNCHANGED <<database, client, routeOpen, arrayLocation, hasPosition, coCenter, pins, route, leg,
                 refused>>

(* There are none.                                                          *)
DirectionsRefused(k) ==
  /\ running /\ k \in DOMAIN asking
  /\ refused' = refused \cup {asking[k]}
  /\ asking' = RemoveAt(asking, k)
  /\ UNCHANGED <<database, client, routeOpen, arrayLocation, hasPosition, coCenter, pins, route, leg,
                 overlays, stale>>

RouteNext ==
  \/ OpenRoute \/ DidUpdateLocations \/ ClickCenterAuto
  \/ RouteValue \/ PlaceValue("start") \/ PlaceValue("finish")
  \/ Block \/ BlockOutOfRange
  \/ \E k \in DOMAIN asking : DirectionsFound(k)
  \/ \E k \in DOMAIN asking : DirectionsRefused(k)
================================================================================
