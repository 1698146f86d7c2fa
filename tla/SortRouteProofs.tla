------------------------------ MODULE SortRouteProofs ------------------------------
(***************************************************************************)
(* Proofs about the route order: whatever the number of orders, the ties   *)
(* and the distances, sortRoute joins every stop once, shops first, and is *)
(* an implementation of "a nearest stop next".                             *)
(***************************************************************************)
EXTENDS SortRoute, SequenceTheorems, FiniteSetTheorems, TLAPS

(* The array holds an order once.                                           *)
OneEach == \A i, j \in 1..Len(left) : left[i].order = left[j].order => i = j

(* The flags of a location say which of its stops are on the route ...      *)
LeftKnown == \A i \in 1..Len(left) :
  /\ left[i].startNil <=> Visited(left[i].order, "shop") # {}
  /\ ~left[i].finishNil
  /\ Visited(left[i].order, "receiver") = {}

(* ... and both stops of an order that left the array are.                  *)
GoneKnown == \A o \in Orders :
  (\A i \in 1..Len(left) : left[i].order # o) =>
    Visited(o, "shop") # {} /\ Visited(o, "receiver") # {}

(* What a pass knows after the locations before index: the distance, index  *)
(* and kind are one stop's, and none of the others is nearer.               *)
PassKnown == pc = "for" =>
  /\ left # <<>> /\ index \in 1..Len(left) + 1
  /\ index = 1 => minDistance = Far /\ indexSetNil = 1
  /\ index > 1 => /\ indexSetNil \in 1..index - 1
                  /\ minDistance = From(Offer(left[indexSetNil]))
                  /\ type <=> ~left[indexSetNil].startNil
  /\ \A j \in 1..index - 1 : minDistance <= From(Offer(left[j]))

OnceOnly == \A o \in Orders, kind \in {"shop", "receiver"} :
  \A j, k \in Visited(o, kind) : j = k

Types ==
  /\ places \in [Orders -> Places]
  /\ route \in Seq(Stop) /\ route # <<>>
  /\ left \in Seq(Location)
  /\ index \in Nat /\ minDistance \in 0..Far /\ indexSetNil \in Nat
  /\ type \in BOOLEAN
  /\ pc \in {"while", "for", "return"}

RouteInv ==
  /\ Types /\ OneEach /\ LeftKnown /\ GoneKnown /\ PassKnown
  /\ PickupFirst /\ OnceOnly
  /\ pc = "return" => left = <<>>
--------------------------------------------------------------------------------
(* Taking an element out of a sequence.                                     *)
LEMMA Removed ==
  ASSUME NEW S, NEW s \in Seq(S), NEW i \in 1..Len(s)
  PROVE  /\ RemoveAt(s, i) \in Seq(S)
         /\ Len(RemoveAt(s, i)) = Len(s) - 1
         /\ \A j \in 1..Len(s) - 1 : RemoveAt(s, i)[j] = s[IF j < i THEN j ELSE j + 1]
<1> DEFINE a == SubSeq(s, 1, i - 1)
           b == SubSeq(s, i + 1, Len(s))
<1>1. Len(s) \in Nat /\ \A k \in 1..Len(s) : s[k] \in S
  BY LenProperties, ElementOfSeq
<1>2. /\ a \in Seq(S) /\ Len(a) = i - 1
      /\ \A k \in 1..i - 1 : a[k] = s[k]
  <2>1. 1 \in Int /\ i - 1 \in Int /\ \A k \in 1..i - 1 : s[k] \in S
    BY <1>1
  <2>2. /\ a \in Seq(S) /\ Len(a) = IF 1 <= i - 1 THEN i - 1 - 1 + 1 ELSE 0
        /\ \A k \in 1..i - 1 - 1 + 1 : a[k] = s[1 + k - 1]
    BY <2>1, SubSeqProperties
  <2> HIDE DEF a
  <2> QED BY <2>2, <1>1
<1>3. /\ b \in Seq(S) /\ Len(b) = Len(s) - i
      /\ \A k \in 1..Len(s) - i : b[k] = s[i + k]
  <2>1. i + 1 \in Int /\ Len(s) \in Int /\ \A k \in i + 1..Len(s) : s[k] \in S
    BY <1>1
  <2>2. /\ b \in Seq(S) /\ Len(b) = IF i + 1 <= Len(s) THEN Len(s) - (i + 1) + 1 ELSE 0
        /\ \A k \in 1..Len(s) - (i + 1) + 1 : b[k] = s[i + 1 + k - 1]
    BY <2>1, SubSeqProperties
  <2> HIDE DEF b
  <2> QED BY <2>2, <1>1
<1>4. RemoveAt(s, i) = a \o b
  BY DEF RemoveAt
<1> HIDE DEF a, b
<1>5. /\ a \o b \in Seq(S) /\ Len(a \o b) = Len(a) + Len(b)
      /\ \A k \in 1..Len(a) + Len(b) :
           (a \o b)[k] = IF k <= Len(a) THEN a[k] ELSE b[k - Len(a)]
  BY <1>2, <1>3, ConcatProperties
<1>6. \A j \in 1..Len(s) - 1 : (a \o b)[j] = s[IF j < i THEN j ELSE j + 1]
  <2> SUFFICES ASSUME NEW j \in 1..Len(s) - 1
               PROVE  (a \o b)[j] = s[IF j < i THEN j ELSE j + 1]
    OBVIOUS
  <2>1. CASE j < i
    BY <2>1, <1>1, <1>2, <1>3, <1>5
  <2>2. CASE ~(j < i)
    <3>1. j - (i - 1) \in 1..Len(s) - i /\ i + (j - (i - 1)) = j + 1 /\ ~(j <= i - 1)
      BY <2>2, <1>1
    <3>2. (a \o b)[j] = b[j - (i - 1)]
      BY <3>1, <1>1, <1>2, <1>3, <1>5
    <3>3. b[j - (i - 1)] = s[i + (j - (i - 1))]
      BY <3>1, <1>3
    <3> QED BY <3>1, <3>2, <3>3, <2>2
  <2> QED BY <2>1, <2>2
<1> QED BY <1>1, <1>2, <1>3, <1>4, <1>5, <1>6

(* A location offers a stop, and a stop has a distance.                     *)
LEMMA OfferFacts ==
  ASSUME Types, NEW l \in Location
  PROVE  /\ Shop(l) \in Stop /\ Receiver(l) \in Stop /\ Offer(l) \in Stop
         /\ Shop(l).at \in Points /\ Receiver(l).at \in Points
         /\ From(Offer(l)) \in 0..Far
         /\ Nearest!From(Offer(l)) = From(Offer(l))
<1>1. l.order \in Orders /\ places[l.order] \in Places
  BY DEF Types, Location
<1>2. places[l.order].startPoint \in Points /\ places[l.order].finishPoint \in Points
  BY <1>1 DEF Places, Nearest!Places
<1>3. Shop(l) \in Stop /\ Receiver(l) \in Stop
  BY <1>1, <1>2 DEF Shop, Receiver, Stop, Nearest!Stop
<1>4. Shop(l).at \in Points /\ Receiver(l).at \in Points /\ Offer(l).at \in Points
  BY <1>2 DEF Shop, Receiver, Offer
<1>5. Len(route) \in 1..Len(route) /\ route[Len(route)] \in Stop
  <2>1. Len(route) \in Nat \ {0}
    BY EmptySeq DEF Types
  <2> QED BY <2>1, ElementOfSeq DEF Types
<1>6. Last(route).at \in Points
  BY <1>5 DEF Last, Stop, Nearest!Stop
<1>7. From(Offer(l)) \in 0..Far
  BY <1>4, <1>6, SortRouteAssumption DEF From
<1>8. Nearest!From(Offer(l)) = From(Offer(l))
  BY DEF From, Nearest!From, Last
<1> QED BY <1>3, <1>4, <1>7, <1>8 DEF Offer

(* What a stop appended to the route changes about the stops visited.       *)
LEMMA Appended ==
  ASSUME route \in Seq(Stop), NEW s \in Stop, route' = Append(route, s)
  PROVE  /\ route' \in Seq(Stop) /\ route' # <<>>
         /\ Len(route) \in Nat
         /\ \A o, kind : Visited(o, kind) \subseteq 1..Len(route)
         /\ \A o, kind : Visited(o, kind)' =
              Visited(o, kind) \cup (IF s.kind = kind /\ s.order = o
                                     THEN {Len(route) + 1} ELSE {})
<1>1. /\ Len(route) \in Nat /\ DOMAIN route = 1..Len(route)
      /\ route' \in Seq(Stop) /\ route' # <<>> /\ DOMAIN route' = 1..Len(route) + 1
      /\ \A k \in 1..Len(route) : route'[k] = route[k]
      /\ route'[Len(route) + 1] = s
  BY AppendProperties, LenProperties
<1>2. \A o, kind : Visited(o, kind) \subseteq 1..Len(route)
  BY <1>1 DEF Visited
<1>3. ASSUME NEW o, NEW kind
      PROVE  Visited(o, kind)' =
               Visited(o, kind) \cup (IF s.kind = kind /\ s.order = o
                                      THEN {Len(route) + 1} ELSE {})
  <2>1. Visited(o, kind)' = {k \in 1..Len(route) + 1 : route'[k].kind = kind /\ route'[k].order = o}
    BY <1>1 DEF Visited
  <2>2. Visited(o, kind) = {k \in 1..Len(route) : route[k].kind = kind /\ route[k].order = o}
    BY <1>1 DEF Visited
  <2> QED BY <1>1, <2>1, <2>2
<1> QED BY <1>1, <1>2, <1>3

(* What NearestStop calls made is what SortRoute calls visited.             *)
LEMMA MadeIsVisited == \A o, kind : Nearest!Made(o, kind) <=> Visited(o, kind) # {}
BY DEF Nearest!Made, Visited
--------------------------------------------------------------------------------
(* At the end of a pass the scan has seen every location: what it remembers *)
(* is a stop of the location at indexSetNil, and a nearest one.             *)
LEMMA EndOfPass ==
  ASSUME RouteInv, AppendNearest
  PROVE  /\ indexSetNil \in 1..Len(left) /\ left[indexSetNil] \in Location
         /\ type <=> ~left[indexSetNil].startNil
         /\ route' = Append(route, Offer(left[indexSetNil]))
         /\ \A j \in 1..Len(left) :
              From(Offer(left[indexSetNil])) <= From(Offer(left[j]))
<1>1. Len(left) \in Nat /\ index = Len(left) + 1 /\ Len(left) # 0
  <2>1. Len(left) \in Nat /\ (left # <<>> => Len(left) # 0)
    BY EmptySeq, LenProperties DEF RouteInv, Types
  <2> QED BY <2>1 DEF RouteInv, PassKnown, AppendNearest
<1>2. /\ indexSetNil \in 1..Len(left)
      /\ type <=> ~left[indexSetNil].startNil
      /\ minDistance = From(Offer(left[indexSetNil]))
      /\ \A j \in 1..Len(left) : minDistance <= From(Offer(left[j]))
  BY <1>1 DEF RouteInv, PassKnown, AppendNearest
<1>3. left[indexSetNil] \in Location
  BY <1>2, ElementOfSeq DEF RouteInv, Types
<1>4. route' = Append(route, Offer(left[indexSetNil]))
  BY <1>2 DEF AppendNearest, Offer
<1> QED BY <1>2, <1>3, <1>4

(* That stop is one the shipper may make now, and so is every other stop    *)
(* he may make the offer of some location: the pass visits a nearest one.   *)
LEMMA PassVisits ==
  ASSUME RouteInv, AppendNearest
  PROVE  Nearest!Visit(Offer(left[indexSetNil]))
<1> DEFINE l == left[indexSetNil]
           s == Offer(l)
<1>1. /\ indexSetNil \in 1..Len(left) /\ l \in Location
      /\ route' = Append(route, s)
      /\ \A j \in 1..Len(left) : From(s) <= From(Offer(left[j]))
  BY EndOfPass
<1>2. l.order \in Orders
  BY <1>1 DEF Location
<1>3. s \in Nearest!Open
  <2>1. CASE l.startNil
    BY <2>1, <1>1, <1>2, MadeIsVisited
       DEF RouteInv, LeftKnown, Offer, Receiver, Nearest!Open, Nearest!Receivers
  <2>2. CASE ~l.startNil
    BY <2>2, <1>1, <1>2, MadeIsVisited
       DEF RouteInv, LeftKnown, Offer, Shop, Nearest!Open, Nearest!Shops
  <2> QED BY <2>1, <2>2
<1>4. ASSUME NEW t \in Nearest!Open
      PROVE  \E j \in 1..Len(left) : t = Offer(left[j])
  <2>1. PICK o \in Orders :
          \/ /\ t = [kind |-> "shop", order |-> o, at |-> places[o].startPoint]
             /\ Visited(o, "shop") = {}
          \/ /\ t = [kind |-> "receiver", order |-> o, at |-> places[o].finishPoint]
             /\ Visited(o, "shop") # {} /\ Visited(o, "receiver") = {}
    BY MadeIsVisited DEF Nearest!Open, Nearest!Shops, Nearest!Receivers
  <2>2. PICK j \in 1..Len(left) : left[j].order = o
    BY <2>1 DEF RouteInv, GoneKnown
  <2>3. t = Offer(left[j])
    BY <2>1, <2>2 DEF RouteInv, LeftKnown, Offer, Shop, Receiver
  <2> QED BY <2>3
<1>5. \A j \in 1..Len(left) : left[j] \in Location
  BY ElementOfSeq DEF RouteInv, Types
<1>6. \A j \in 1..Len(left) : Nearest!From(Offer(left[j])) = From(Offer(left[j]))
  BY <1>5, OfferFacts DEF RouteInv
<1>7. \A t \in Nearest!Open : Nearest!From(s) <= Nearest!From(t)
  <2> SUFFICES ASSUME NEW t \in Nearest!Open PROVE Nearest!From(s) <= Nearest!From(t)
    OBVIOUS
  <2>1. PICK j \in 1..Len(left) : t = Offer(left[j])
    BY <1>4
  <2> QED BY <2>1, <1>1, <1>6
<1> QED BY <1>1, <1>3, <1>7 DEF Nearest!Visit, AppendNearest
--------------------------------------------------------------------------------
(* A stop appended at a moment when it was open keeps the order of an       *)
(* order's stops.                                                           *)
LEMMA KeepsOrder ==
  ASSUME route \in Seq(Stop), PickupFirst, OnceOnly,
         NEW s \in Stop, route' = Append(route, s),
         Visited(s.order, s.kind) = {},
         s.kind = "receiver" => Visited(s.order, "shop") # {}
  PROVE  PickupFirst' /\ OnceOnly'
<1> DEFINE n == Len(route) + 1
<1>1. /\ Len(route) \in Nat
      /\ \A o, kind : Visited(o, kind) \subseteq 1..Len(route)
      /\ \A o, kind : Visited(o, kind)' =
           Visited(o, kind) \cup (IF s.kind = kind /\ s.order = o THEN {n} ELSE {})
  BY Appended
<1>2. PickupFirst'
  <2> SUFFICES ASSUME NEW o \in Orders, NEW k \in Visited(o, "receiver")'
               PROVE  \E j \in Visited(o, "shop")' : j < k
    BY DEF PickupFirst
  <2>1. CASE k \in Visited(o, "receiver")
    <3>1. PICK j \in Visited(o, "shop") : j < k
      BY <2>1 DEF PickupFirst
    <3>2. j \in Visited(o, "shop")'
      BY <1>1
    <3> QED BY <3>1, <3>2
  <2>2. CASE k \notin Visited(o, "receiver")
    <3>1. k = n /\ s.kind = "receiver" /\ s.order = o
      BY <2>2, <1>1
    <3>2. PICK j \in Visited(o, "shop") : TRUE
      BY <3>1
    <3>3. j \in 1..Len(route) /\ j \in Visited(o, "shop")'
      BY <1>1
    <3>4. j < k
      BY <3>1, <3>3, <1>1
    <3> QED BY <3>3, <3>4
  <2> QED BY <2>1, <2>2
<1>3. OnceOnly'
  <2> SUFFICES ASSUME NEW o \in Orders, NEW kind \in {"shop", "receiver"}
               PROVE  \A j, k \in Visited(o, kind)' : j = k
    BY DEF OnceOnly
  <2>1. CASE s.kind = kind /\ s.order = o
    <3>1. Visited(o, kind)' = {n}
      BY <2>1, <1>1
    <3> QED BY <3>1
  <2>2. CASE ~(s.kind = kind /\ s.order = o)
    <3>1. Visited(o, kind)' = Visited(o, kind)
      BY <2>2, <1>1
    <3> QED BY <3>1 DEF OnceOnly
  <2> QED BY <2>1, <2>2
<1> QED BY <1>2, <1>3
--------------------------------------------------------------------------------
(* The array of the first moment enumerates every order once: an injection  *)
(* of 1..n into a set of n orders reaches them all.                         *)
LEMMA RouteInit == Init => RouteInv
<1> SUFFICES ASSUME Init PROVE RouteInv
  OBVIOUS
<1> DEFINE n == Cardinality(Orders)
<1>1. n \in Nat /\ IsFiniteSet(Orders)
  BY SortRouteAssumption, FS_CardinalityType
<1>2. PICK s \in {t \in [1..n -> Orders] : IsInjective(t)} :
        left = [k \in 1..n |-> [order |-> s[k], startNil |-> FALSE, finishNil |-> FALSE]]
  BY DEF Init
<1>3. s \in [1..n -> Orders] /\ \A i, j \in 1..n : s[i] = s[j] => i = j
  BY <1>2 DEF IsInjective
<1>4. \A o \in Orders : \E i \in 1..n : s[i] = o
  <2>1. s \in Injection(1..n, Orders)
    BY <1>2 DEF Injection
  <2>2. Cardinality(1..n) = Cardinality(Orders)
    BY <1>1, FS_Interval
  <2> HIDE DEF n
  <2>3. s \in Surjection(1..n, Orders)
    BY <1>1, <2>1, <2>2, FS_Injection
  <2> QED BY <2>3 DEF Surjection
<1> HIDE DEF n
<1>5. left \in Seq(Location) /\ Len(left) = n
  <2> DEFINE f == [k \in 1..n |-> [order |-> s[k], startNil |-> FALSE, finishNil |-> FALSE]]
             L == Location
  <2>1. f \in [1..n -> L]
    BY <1>3 DEF Location
  <2> HIDE DEF f, L
  <2>2. f \in Seq(L) /\ Len(f) = n
    BY <2>1, <1>1, SeqDef, LenProperties
  <2> QED BY <2>2, <1>2 DEF f, L
<1>6. \A i \in 1..Len(left) :
        left[i] = [order |-> s[i], startNil |-> FALSE, finishNil |-> FALSE]
  BY <1>2, <1>5
<1>7. PICK p \in Points : route = <<[kind |-> "user", order |-> NoOrder, at |-> p]>>
  BY DEF Init
<1>8. route \in Seq(Stop) /\ route # <<>>
  <2>1. [kind |-> "user", order |-> NoOrder, at |-> p] \in Stop
    BY DEF Stop, Nearest!Stop
  <2> QED BY <2>1, <1>7
<1>9. \A o, kind : kind \in {"shop", "receiver"} => Visited(o, kind) = {}
  BY <1>7 DEF Visited
<1>10. Types
  <2>1. index \in Nat /\ minDistance \in 0..Far /\ indexSetNil \in Nat
    BY SortRouteAssumption DEF Init
  <2>2. type \in BOOLEAN
    BY DEF Init
  <2> QED BY <2>1, <2>2, <1>5, <1>8 DEF Init, Types
<1>11. OneEach /\ LeftKnown
  BY <1>3, <1>5, <1>6, <1>9 DEF OneEach, LeftKnown
<1>12. GoneKnown
  BY <1>4, <1>5, <1>6 DEF GoneKnown
<1>13. PickupFirst /\ OnceOnly
  BY <1>9 DEF PickupFirst, OnceOnly
<1>14. PassKnown /\ (pc = "return" => left = <<>>)
  BY DEF PassKnown, Init
<1> QED BY <1>10, <1>11, <1>12, <1>13, <1>14 DEF RouteInv

(* A round that leaves the route and the array alone keeps what is known of *)
(* them.                                                                    *)
LEMMA Unmoved ==
  ASSUME RouteInv, UNCHANGED <<places, route, left>>
  PROVE  OneEach' /\ LeftKnown' /\ GoneKnown' /\ PickupFirst' /\ OnceOnly'
<1>1. \A o, kind : Visited(o, kind)' = Visited(o, kind)
  BY DEF Visited
<1>2. OneEach' /\ LeftKnown' /\ GoneKnown'
  BY <1>1 DEF RouteInv, OneEach, LeftKnown, GoneKnown
<1>3. PickupFirst' /\ OnceOnly'
  BY <1>1 DEF RouteInv, PickupFirst, OnceOnly
<1> QED BY <1>2, <1>3

(* A pass starts with nothing compared.                                     *)
LEMMA BeginPassStep == RouteInv /\ BeginPass => RouteInv'
<1> SUFFICES ASSUME RouteInv, BeginPass PROVE RouteInv'
  OBVIOUS
<1>1. Len(left) \in Nat \ {0}
  BY EmptySeq DEF RouteInv, Types, BeginPass
<1>2. Types'
  <2>1. index' \in Nat /\ minDistance' \in 0..Far /\ indexSetNil' \in Nat
    BY SortRouteAssumption DEF BeginPass
  <2>2. type' \in BOOLEAN
    BY DEF BeginPass
  <2> QED BY <2>1, <2>2 DEF RouteInv, Types, BeginPass
<1>3. PassKnown'
  BY <1>1 DEF PassKnown, BeginPass
<1>4. (pc = "return" => left = <<>>)'
  BY DEF BeginPass
<1> QED BY <1>2, <1>3, <1>4, Unmoved DEF RouteInv, BeginPass

(* A round remembers the nearer stop whole: distance, index and kind.       *)
LEMMA CompareStep == RouteInv /\ Compare => RouteInv'
<1> SUFFICES ASSUME RouteInv, Compare PROVE RouteInv'
  OBVIOUS
<1>1. /\ Len(left) \in Nat /\ index \in 1..Len(left)
      /\ \A j \in 1..Len(left) : left[j] \in Location
  BY LenProperties, ElementOfSeq DEF RouteInv, Types, PassKnown, Compare
<1>2. \A j \in 1..Len(left) : From(Offer(left[j])) \in 0..Far
  BY <1>1, OfferFacts DEF RouteInv
<1>3. \A j \in 1..Len(left) : From(Offer(left[j]))' = From(Offer(left[j]))
  BY DEF Compare, From, Offer, Shop, Receiver
<1>4. Types'
  <2>1. index' \in Nat /\ minDistance' \in 0..Far /\ indexSetNil' \in Nat
    BY <1>1, <1>2 DEF RouteInv, Types, Compare
  <2>2. type' \in BOOLEAN
    BY DEF RouteInv, Types, Compare
  <2> QED BY <2>1, <2>2 DEF RouteInv, Types, Compare
<1>5. minDistance \in Nat
  BY SortRouteAssumption DEF RouteInv, Types
<1>6. PassKnown'
  <2>1. CASE minDistance >= From(Offer(left[index]))
    <3>1. /\ minDistance' = From(Offer(left[index])) /\ indexSetNil' = index
          /\ type' = (Offer(left[index]).kind = "shop")
          /\ index' = index + 1 /\ left' = left
      BY <2>1 DEF Compare
    <3>2. type' <=> ~left[index].startNil
      BY <3>1 DEF Offer, Shop, Receiver
    <3>3. \A j \in 1..index' - 1 : minDistance' <= From(Offer(left[j]))
      BY <3>1, <2>1, <1>1, <1>2, <1>5 DEF RouteInv, PassKnown, Compare
    <3> QED BY <3>1, <3>2, <3>3, <1>1, <1>3 DEF RouteInv, PassKnown, Compare
  <2>2. CASE ~(minDistance >= From(Offer(left[index])))
    <3>1. /\ minDistance' = minDistance /\ indexSetNil' = indexSetNil /\ type' = type
          /\ index' = index + 1 /\ left' = left
      BY <2>2 DEF Compare
    <3>2. index # 1
      BY <2>2, <1>1, <1>2, <1>5 DEF RouteInv, PassKnown, Compare
    <3>3. \A j \in 1..index' - 1 : minDistance' <= From(Offer(left[j]))
      BY <3>1, <2>2, <1>1, <1>2, <1>5 DEF RouteInv, PassKnown, Compare
    <3>4. index > 1 /\ indexSetNil \in 1..index - 1 /\ indexSetNil \in 1..Len(left)
      BY <3>2, <1>1 DEF RouteInv, PassKnown, Compare
    <3> QED BY <3>1, <3>3, <3>4, <1>1, <1>3 DEF RouteInv, PassKnown, Compare
  <2> QED BY <2>1, <2>2
<1>7. (pc = "return" => left = <<>>)'
  BY DEF Compare
<1> QED BY <1>4, <1>6, <1>7, Unmoved DEF RouteInv, Compare

(* The loop returns only an emptied array.                                  *)
LEMMA ReturnStep == RouteInv /\ Return => RouteInv'
<1> SUFFICES ASSUME RouteInv, Return PROVE RouteInv'
  OBVIOUS
<1>1. Types' /\ PassKnown' /\ (pc = "return" => left = <<>>)'
  BY DEF RouteInv, Types, PassKnown, Return
<1> QED BY <1>1, Unmoved DEF RouteInv, Return

(* The end of a pass: a shop appended blanks its point, a receiver appended *)
(* removes its location, and the flags go on telling what is on the route.  *)
LEMMA AppendNearestStep == RouteInv /\ AppendNearest => RouteInv'
<1> SUFFICES ASSUME RouteInv, AppendNearest PROVE RouteInv'
  OBVIOUS
<1> DEFINE n == indexSetNil
           l == left[n]
           s == Offer(l)
           N == Len(left)
<1>1. /\ n \in 1..N /\ l \in Location
      /\ type <=> ~l.startNil
      /\ route' = Append(route, s)
  BY EndOfPass
<1>2. N \in Nat /\ \A j \in 1..N : left[j] \in Location
  BY LenProperties, ElementOfSeq DEF RouteInv, Types
<1>3. s \in Stop /\ s.order = l.order /\ l.order \in Orders
  BY <1>1, OfferFacts DEF RouteInv, Offer, Shop, Receiver, Location
<1>4. /\ route' \in Seq(Stop) /\ route' # <<>>
      /\ \A o, kind : Visited(o, kind)' =
           Visited(o, kind) \cup (IF s.kind = kind /\ s.order = o
                                  THEN {Len(route) + 1} ELSE {})
  BY <1>1, <1>3, Appended DEF RouteInv, Types
<1>5. PickupFirst' /\ OnceOnly'
  <2>1. /\ Visited(s.order, s.kind) = {}
        /\ s.kind = "receiver" => Visited(s.order, "shop") # {}
    BY <1>1, <1>3 DEF RouteInv, LeftKnown, Offer, Shop, Receiver
  <2> HIDE DEF s
  <2> QED BY <2>1, <1>1, <1>3, KeepsOrder DEF RouteInv, Types
<1>6. PassKnown' /\ (pc = "return" => left = <<>>)'
  BY DEF PassKnown, AppendNearest
<1>7. /\ UNCHANGED <<places, index, minDistance, indexSetNil, type>>
      /\ pc' = "while"
  BY DEF AppendNearest
<1>8. CASE type
  <2> DEFINE l2 == [l EXCEPT !.startNil = TRUE]
  <2>1. ~l.startNil /\ ~l.finishNil /\ s.kind = "shop"
    BY <1>1, <1>8 DEF RouteInv, LeftKnown, Offer, Shop
  <2>2. l2 \in Location /\ l2.order = l.order /\ l2.startNil /\ ~l2.finishNil
    BY <1>1, <2>1 DEF Location
  <2>3. left' = [left EXCEPT ![n] = l2]
    BY <1>8, <2>2 DEF AppendNearest, Blanked, IsBlank
  <2> HIDE DEF l2
  <2>4. /\ left' \in Seq(Location) /\ Len(left') = N
        /\ left'[n] = l2
        /\ \A j \in 1..N : j # n => left'[j] = left[j]
    BY <1>1, <2>2, <2>3, ExceptSeq DEF RouteInv, Types
  <2>5. \A j \in 1..N : left'[j].order = left[j].order
    BY <2>2, <2>4
  <2>6. OneEach'
    BY <2>4, <2>5 DEF RouteInv, OneEach
  <2>7. LeftKnown'
    <3> SUFFICES ASSUME NEW i \in 1..N, NEW o, o = left'[i].order
                 PROVE  /\ left'[i].startNil <=> Visited(o, "shop")' # {}
                        /\ ~left'[i].finishNil
                        /\ Visited(o, "receiver")' = {}
      BY <2>4 DEF LeftKnown
    <3>1. CASE i = n
      <4>1. o = l.order /\ left'[i] = l2
        BY <3>1, <2>2, <2>4
      <4>2. Visited(o, "shop")' # {} /\ Visited(o, "receiver")' = Visited(o, "receiver")
        BY <4>1, <2>1, <1>3, <1>4
      <4> QED BY <4>1, <4>2, <2>2, <1>1 DEF RouteInv, LeftKnown
    <3>2. CASE i # n
      <4>1. left'[i] = left[i] /\ o = left[i].order /\ o # l.order
        BY <3>2, <2>4, <1>1 DEF RouteInv, OneEach
      <4>2. \A kind : Visited(o, kind)' = Visited(o, kind)
        BY <4>1, <1>3, <1>4
      <4> QED BY <4>1, <4>2 DEF RouteInv, LeftKnown
    <3> QED BY <3>1, <3>2
  <2>8. GoneKnown'
    BY <2>4, <2>5, <1>4 DEF RouteInv, GoneKnown
  <2>9. Types'
    BY <1>4, <1>7, <2>4 DEF RouteInv, Types
  <2> QED BY <1>5, <1>6, <2>6, <2>7, <2>8, <2>9 DEF RouteInv
<1>9. CASE ~type
  <2>1. l.startNil /\ s.kind = "receiver"
    BY <1>1, <1>9 DEF Offer, Receiver
  <2>2. IsBlank(Blanked(l))
    BY <2>1, <1>1, <1>9 DEF Blanked, IsBlank, Location
  <2>3. left' = RemoveAt(left, n)
    BY <2>2 DEF AppendNearest
  <2> DEFINE old(j) == IF j < n THEN j ELSE j + 1
  <2>4. /\ left' \in Seq(Location) /\ Len(left') = N - 1
        /\ \A j \in 1..N - 1 : left'[j] = left[old(j)]
    BY <1>1, <2>3, Removed DEF RouteInv, Types
  <2>5. /\ \A j \in 1..N - 1 : old(j) \in 1..N /\ old(j) # n
        /\ \A i, j \in 1..N - 1 : old(i) = old(j) => i = j
    BY <1>1, <1>2
  <2>6. \A i \in 1..N : i # n => \E j \in 1..N - 1 : old(j) = i
    <3> SUFFICES ASSUME NEW i \in 1..N, i # n PROVE \E j \in 1..N - 1 : old(j) = i
      OBVIOUS
    <3>1. CASE i < n
      <4>1. i \in 1..N - 1 /\ old(i) = i
        BY <3>1, <1>1, <1>2
      <4> QED BY <4>1
    <3>2. CASE ~(i < n)
      <4>1. i - 1 \in 1..N - 1 /\ old(i - 1) = i
        BY <3>2, <1>1, <1>2
      <4> QED BY <4>1
    <3> QED BY <3>1, <3>2
  <2> HIDE DEF old
  <2>7. OneEach'
    BY <2>4, <2>5 DEF RouteInv, OneEach
  <2>8. LeftKnown'
    <3> SUFFICES ASSUME NEW i \in 1..N - 1, NEW o, o = left'[i].order
                 PROVE  /\ left'[i].startNil <=> Visited(o, "shop")' # {}
                        /\ ~left'[i].finishNil
                        /\ Visited(o, "receiver")' = {}
      BY <2>4 DEF LeftKnown
    <3>1. /\ left'[i] = left[old(i)] /\ old(i) \in 1..N
          /\ o = left[old(i)].order /\ o # l.order
      BY <2>4, <2>5, <1>1 DEF RouteInv, OneEach
    <3>2. \A kind : Visited(o, kind)' = Visited(o, kind)
      BY <3>1, <1>3, <1>4
    <3> QED BY <3>1, <3>2 DEF RouteInv, LeftKnown
  <2>9. GoneKnown'
    <3> SUFFICES ASSUME NEW o \in Orders, \A j \in 1..N - 1 : left'[j].order # o
                 PROVE  Visited(o, "shop")' # {} /\ Visited(o, "receiver")' # {}
      BY <2>4 DEF GoneKnown
    <3>1. \A i \in 1..N : i # n => left[i].order # o
      BY <2>4, <2>6
    <3>2. CASE o = l.order
      <4>1. Visited(o, "shop") # {}
        BY <3>2, <2>1, <1>1 DEF RouteInv, LeftKnown
      <4>2. Visited(o, "receiver")' # {}
        BY <3>2, <2>1, <1>3, <1>4
      <4> QED BY <4>1, <4>2, <1>4
    <3>3. CASE o # l.order
      <4>1. \A i \in 1..N : left[i].order # o
        BY <3>1, <3>3
      <4> QED BY <4>1, <1>4 DEF RouteInv, GoneKnown
    <3> QED BY <3>2, <3>3
  <2>10. Types'
    BY <1>4, <1>7, <2>4 DEF RouteInv, Types
  <2> QED BY <1>5, <1>6, <2>7, <2>8, <2>9, <2>10 DEF RouteInv
<1> QED BY <1>8, <1>9

(* RouteInv is an invariant.                                                *)
LEMMA RouteAlways == Spec => []RouteInv
<1>1. RouteInv /\ UNCHANGED vars => RouteInv'
  <2> SUFFICES ASSUME RouteInv, UNCHANGED vars PROVE RouteInv'
    OBVIOUS
  <2>1. Types' /\ PassKnown' /\ (pc = "return" => left = <<>>)'
    BY DEF vars, RouteInv, Types, PassKnown, From, Offer, Shop, Receiver
  <2> QED BY <2>1, Unmoved DEF vars, RouteInv
<1>2. RouteInv /\ [Next]_vars => RouteInv'
  BY <1>1, BeginPassStep, CompareStep, AppendNearestStep, ReturnStep DEF Next
<1> QED BY <1>2, RouteInit, PTL DEF Spec
--------------------------------------------------------------------------------
(* TypesKept: every variable keeps its type; the loop never leaves the      *)
(* array although it shrinks between the passes.                            *)
THEOREM TypesKept == Spec => []TypeOK
<1>1. RouteInv => TypeOK
  <2> SUFFICES ASSUME RouteInv PROVE TypeOK
    OBVIOUS
  <2>1. CASE pc # "for"
    BY <2>1 DEF RouteInv, Types, TypeOK
  <2>2. CASE pc = "for"
    <3>1. Len(left) \in Nat \ {0} /\ index \in 1..Len(left) + 1
      BY <2>2, EmptySeq DEF RouteInv, Types, PassKnown
    <3>2. indexSetNil \in 1..Len(left)
      BY <2>2, <3>1 DEF RouteInv, PassKnown
    <3> QED BY <3>1, <3>2 DEF RouteInv, Types, TypeOK
  <2> QED BY <2>1, <2>2
<1> QED BY <1>1, RouteAlways, PTL

(* ShopBeforeReceiver: no receiver is on the route before the shop of his   *)
(* order, at any moment of the loops.                                       *)
THEOREM ShopBeforeReceiver == Spec => []PickupFirst
<1>1. RouteInv => PickupFirst
  BY DEF RouteInv
<1> QED BY <1>1, RouteAlways, PTL

(* EveryStopOnce: no stop is joined twice, and the route returned has every *)
(* order's shop and receiver.                                               *)
THEOREM EveryStopOnce == Spec => []EachStopOnce
<1>1. RouteInv => EachStopOnce
  <2> SUFFICES ASSUME RouteInv PROVE EachStopOnce
    OBVIOUS
  <2>1. ASSUME pc = "return", NEW o \in Orders
        PROVE  Visited(o, "shop") # {} /\ Visited(o, "receiver") # {}
    <3>1. Len(left) = 0
      BY <2>1, EmptySeq DEF RouteInv
    <3> QED BY <3>1 DEF RouteInv, GoneKnown
  <2> QED BY <2>1 DEF RouteInv, OnceOnly, EachStopOnce
<1> QED BY <1>1, RouteAlways, PTL

(* ImplementsNearestStop: every step of the loops either appends a nearest  *)
(* one of the stops the shipper may make, or leaves the route alone.        *)
THEOREM ImplementsNearestStop == Spec => NearestFirst
<1>1. Init => Nearest!NearestInit
  BY DEF Init, Nearest!NearestInit, Places
<1>2. RouteInv /\ [Next]_vars => [Nearest!NearestNext]_<<places, route>>
  <2> SUFFICES ASSUME RouteInv, [Next]_vars
               PROVE  [Nearest!NearestNext]_<<places, route>>
    OBVIOUS
  <2>1. CASE AppendNearest
    <3>1. Offer(left[indexSetNil]) \in Stop
      BY <2>1, EndOfPass, OfferFacts DEF RouteInv
    <3> QED BY <3>1, <2>1, PassVisits DEF Nearest!NearestNext, Stop
  <2>2. CASE BeginPass \/ Compare \/ Return \/ UNCHANGED vars
    BY <2>2 DEF BeginPass, Compare, Return, vars
  <2> QED BY <2>1, <2>2 DEF Next
<1> QED BY <1>1, <1>2, RouteAlways, PTL DEF Spec, NearestFirst, Nearest!NearestSpec
================================================================================
