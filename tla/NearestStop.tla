------------------------------ MODULE NearestStop ------------------------------
(***************************************************************************)
(* What the shipper's route promises: starting where the shipper is, every *)
(* next stop is a nearest one among those he may make now.  An order's     *)
(* goods are picked up at the shop before they are brought to the          *)
(* receiver.                                                               *)
(***************************************************************************)
EXTENDS Naturals, Sequences, FiniteSets

CONSTANTS
  Orders,     \* the orders of the shipper's route
  NoOrder,    \* the order field of the shipper's own position
  Points,     \* coordinates
  Distance    \* Distance[<<p, q>>]: how far q is from p, order-preserving

VARIABLES
  places,   \* order -> [startPoint, finishPoint]
  route     \* the stops made, the shipper's own position first

Places == [startPoint : Points, finishPoint : Points]
Stop == [kind : {"user", "shop", "receiver"}, order : Orders \cup {NoOrder}, at : Points]

Made(o, kind) == \E k \in DOMAIN route : route[k].kind = kind /\ route[k].order = o

(* The stops he may make now: a shop not yet visited, or the receiver of    *)
(* goods he carries.                                                        *)
Shops     == {[kind |-> "shop", order |-> o, at |-> places[o].startPoint] :
                o \in {p \in Orders : ~Made(p, "shop")}}
Receivers == {[kind |-> "receiver", order |-> o, at |-> places[o].finishPoint] :
                o \in {p \in Orders : Made(p, "shop") /\ ~Made(p, "receiver")}}
Open      == Shops \cup Receivers

From(s) == Distance[<<route[Len(route)].at, s.at>>]

NearestInit ==
  /\ places \in [Orders -> Places]
  /\ \E p \in Points : route = <<[kind |-> "user", order |-> NoOrder, at |-> p]>>

Visit(s) ==
  /\ s \in Open
  /\ \A t \in Open : From(s) <= From(t)
  /\ route' = Append(route, s)
  /\ UNCHANGED places

NearestNext == \E s \in Stop : Visit(s)
NearestSpec == NearestInit /\ [][NearestNext]_<<places, route>>
================================================================================
