------------------------------- MODULE SortRoute -------------------------------
(***************************************************************************)
(* sortRoute of the Route tab: the order in which the map joins the        *)
(* shipper's position, the shops and the receivers of his orders.  One     *)
(* pass of the while loop scans the locations left, remembers the nearest  *)
(* stop, appends it and blanks it; a location whose two points are blank   *)
(* leaves the array.                                                       *)
(*                                                                         *)
(* A blank point is the coordinate (10000, 10000) in the code and a flag   *)
(* here.  Indices start at 1.                                              *)
(***************************************************************************)
EXTENDS Naturals, Sequences, SequencesExt, FiniteSets

CONSTANTS
  Orders,     \* the orders whose UID is the shipper's
  NoOrder,    \* the order field of the shipper's own position
  Points,     \* coordinates on the map
  Distance,   \* Distance[<<p, q>>], any scale that keeps their order
  Far         \* the 10000000 a pass starts from: beyond every distance

ASSUME SortRouteAssumption ==
  /\ IsFiniteSet(Orders) /\ NoOrder \notin Orders
  /\ Far \in Nat
  /\ Distance \in [Points \X Points -> 0..Far]

VARIABLES
  places,        \* order -> its two points
  route,         \* arrayRoutes
  left,          \* arrayStartPointAndFinishPointClone
  index,         \* of the for loop
  minDistance,
  indexSetNil,
  type,          \* is the nearest stop so far a shop?
  pc             \* "while", "for" or "return"

vars == <<places, route, left, index, minDistance, indexSetNil, type, pc>>

Nearest == INSTANCE NearestStop

Stop     == Nearest!Stop
Places   == Nearest!Places
Location == [order : Orders, startNil : BOOLEAN, finishNil : BOOLEAN]

(* The stop a location offers: its shop, or its receiver once the shop is   *)
(* blank.                                                                   *)
Shop(l)     == [kind |-> "shop", order |-> l.order, at |-> places[l.order].startPoint]
Receiver(l) == [kind |-> "receiver", order |-> l.order, at |-> places[l.order].finishPoint]
Offer(l)    == IF l.startNil THEN Receiver(l) ELSE Shop(l)
From(s)     == Distance[<<Last(route).at, s.at>>]
--------------------------------------------------------------------------------
(* The array holds each of the shipper's orders once, in whatever order the *)
(* dictionary of the DetailProduct snapshot was enumerated.                 *)
Init ==
  /\ places \in [Orders -> Places]
  /\ \E p \in Points : route = <<[kind |-> "user", order |-> NoOrder, at |-> p]>>
  /\ left \in {[k \in 1..Cardinality(Orders) |->
                  [order |-> s[k], startNil |-> FALSE, finishNil |-> FALSE]] :
               s \in {t \in [1..Cardinality(Orders) -> Orders] : IsInjective(t)}}
  /\ index = 1 /\ minDistance = Far /\ indexSetNil = 1 /\ type = FALSE
  /\ pc = "while"

BeginPass ==
  /\ pc = "while" /\ left # <<>>
  /\ index' = 1 /\ minDistance' = Far /\ indexSetNil' = 1 /\ type' = FALSE
  /\ pc' = "for"
  /\ UNCHANGED <<places, route, left>>

(* Mutant: a receiver is offered whether or not its shop has been visited.  *)
CompareAnyStop ==
  /\ pc = "for" /\ index <= Len(left)
  /\ LET l == left[index]
         s == IF From(Receiver(l)) < From(Shop(l)) THEN Receiver(l) ELSE Offer(l)
     IN IF minDistance >= From(s)
        THEN /\ minDistance' = From(s) /\ indexSetNil' = index
             /\ type' = (s.kind = "shop")
        ELSE UNCHANGED <<minDistance, indexSetNil, type>>
  /\ index' = index + 1
  /\ UNCHANGED <<places, route, left, pc>>

(* Mutant: the loop does not go on from a stop that is nearer.              *)
CompareWithoutAdvance ==
  /\ pc = "for" /\ index <= Len(left)
  /\ LET s == Offer(left[index])
     IN IF minDistance >= From(s)
        THEN /\ minDistance' = From(s) /\ indexSetNil' = index
             /\ type' = (s.kind = "shop") /\ index' = index
        ELSE index' = index + 1 /\ UNCHANGED <<minDistance, indexSetNil, type>>
  /\ UNCHANGED <<places, route, left, pc>>

(* Mutant: a pass keeps the index of the nearest stop but not its kind.     *)
CompareForgettingKind ==
  /\ pc = "for" /\ index <= Len(left)
  /\ LET s == Offer(left[index])
     IN IF minDistance >= From(s)
        THEN /\ minDistance' = From(s) /\ indexSetNil' = index
             /\ type' = (type \/ s.kind = "shop")
        ELSE UNCHANGED <<minDistance, indexSetNil, type>>
  /\ index' = index + 1
  /\ UNCHANGED <<places, route, left, pc>>

(* One round of the for loop; of two stops equally near the later wins.     *)
Compare ==
  /\ pc = "for" /\ index <= Len(left)
  /\ LET s == Offer(left[index])
     IN IF minDistance >= From(s)
        THEN /\ minDistance' = From(s) /\ indexSetNil' = index
             /\ type' = (s.kind = "shop")
        ELSE UNCHANGED <<minDistance, indexSetNil, type>>
  /\ index' = index + 1
  /\ UNCHANGED <<places, route, left, pc>>

(* setNilForStartPoint or setNilForFinishPoint on the chosen location.      *)
Blanked(l) == IF type THEN [l EXCEPT !.startNil = TRUE] ELSE [l EXCEPT !.finishNil = TRUE]

(* Mutant: a location leaves the array once either point is blank.          *)
IsHalfBlank(l) == l.startNil \/ l.finishNil

IsBlank(l) == l.startNil /\ l.finishNil

(* The end of a pass.                                                       *)
AppendNearest ==
  /\ pc = "for" /\ index > Len(left)
  /\ LET l == left[indexSetNil]
     IN /\ route' = Append(route, IF type THEN Shop(l) ELSE Receiver(l))
        /\ left' = IF IsBlank(Blanked(l)) THEN RemoveAt(left, indexSetNil)
                   ELSE [left EXCEPT ![indexSetNil] = Blanked(l)]
  /\ pc' = "while"
  /\ UNCHANGED <<places, index, minDistance, indexSetNil, type>>

Return ==
  /\ pc = "while" /\ left = <<>>
  /\ pc' = "return"
  /\ UNCHANGED <<places, route, left, index, minDistance, indexSetNil, type>>

Next == BeginPass \/ Compare \/ AppendNearest \/ Return

Spec == Init /\ [][Next]_vars

(* showRouteForUser runs the loops to their end on one thread.              *)
FairSpec == Spec /\ WF_vars(Next)
--------------------------------------------------------------------------------
TypeOK ==
  /\ places \in [Orders -> Places]
  /\ route \in Seq(Stop) /\ route # <<>>
  /\ left \in Seq(Location)
  /\ index \in 1..Len(left) + 1 \/ pc # "for"
  /\ minDistance \in 0..Far
  /\ indexSetNil \in 1..Len(left) \/ pc # "for"
  /\ type \in BOOLEAN
  /\ pc \in {"while", "for", "return"}

Visited(o, kind) == {k \in DOMAIN route : route[k].kind = kind /\ route[k].order = o}

(* PickupFirst: a receiver is never on the route before the shop of the     *)
(* same order, at every moment of the loops.                                *)
PickupFirst == \A o \in Orders : \A k \in Visited(o, "receiver") :
  \E j \in Visited(o, "shop") : j < k

(* EachStopOnce: no shop and no receiver is joined to the route twice,      *)
(* although the array loses elements between the passes that index it, and  *)
(* when the route is returned every order's shop and receiver are on it.    *)
EachStopOnce == \A o \in Orders, kind \in {"shop", "receiver"} :
  /\ \A j, k \in Visited(o, kind) : j = k
  /\ pc = "return" => Visited(o, kind) # {}

(* NearestFirst: each stop appended is a nearest one of those the shipper   *)
(* may make, whatever the ties and the edits of the array.                  *)
NearestFirst == Nearest!NearestSpec

(* Returns: the while loop ends.                                            *)
Returns == <>(pc = "return")
================================================================================
