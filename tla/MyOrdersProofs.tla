----------------------------- MODULE MyOrdersProofs -----------------------------
(***************************************************************************)
(* Theorems about the Storage and the Route tab of one shipper's phone,    *)
(* for any orders, places, shippers and launches.                          *)
(***************************************************************************)
EXTENDS MyOrders, SelectionProofs

--------------------------------------------------------------------------------
(* What may be queued where.                                                *)
ProductListener  == [on |-> "Product"]
RouteListener    == [on |-> "Route"]
StorageListeners == [on : {"Storage"}, products : SUBSET Orders]
PlaceListeners   == [on : {"start", "finish"}, place : Places]
MyListeners      == {ProductListener, RouteListener} \cup StorageListeners \cup PlaceListeners

Holding       == [Orders -> Holders]
ProductEvents == [listener : {ProductListener}, value : SUBSET Orders]
StorageEvents == [listener : StorageListeners, value : Holding]
RouteEvents   == [listener : {RouteListener}, value : Holding]
PlaceEvents   == {e \in [listener : PlaceListeners, value : Places] : e.value = e.listener.place}
Blocks        == [kind : {"start", "finish"}, index : Nat \ {0}]
Tasks         == ProductEvents \cup StorageEvents \cup RouteEvents \cup PlaceEvents \cup Blocks

Location == [order : Orders, start : BOOLEAN, finish : BOOLEAN]

MyTypes ==
  /\ holder \in Holding /\ lost \in BOOLEAN /\ running \in BOOLEAN
  /\ heard = Unheard \/ heard \in SUBSET Orders
  /\ known = Unheard \/ known \in Holding
  /\ observing \in Seq(MyListeners) /\ regs \in Seq(MyListeners) /\ mainq \in Seq(Tasks)
  /\ arrayLocation \in Seq(Location) /\ route \in SUBSET Location
  /\ asking \in Seq(SUBSET Location)

(* The Storage tab.  The last of what is queued is of the latest values:    *)
(* first the values of "Product", then the listeners they leave behind,     *)
(* then what those are told of the details.                                 *)
LatestProducts  == {e \in ProductEvents : e.value = heard}
LatestListeners == {l \in StorageListeners : l.products = heard}
LatestStorage   == {e \in StorageEvents : e.listener.products = heard /\ e.value = known}

StorageToldAll ==
  /\ LastIn(mainq, ProductEvents, LatestProducts)
  /\ heard = Unheard => ToSet(mainq) \cap ProductEvents = {}
  /\ known = Unheard => ToSet(mainq) \cap (StorageEvents \cup RouteEvents) = {}
  /\ storageOpen => ProductListener \in ToSet(observing) \cup ToSet(regs)

StorageIsLatest ==
  heard # Unheard /\ ToSet(mainq) \cap ProductEvents = {} =>
    IF ToSet(observing) \cap StorageListeners # {}
    THEN LastIn(observing, StorageListeners, LatestListeners)
    ELSE /\ ToSet(regs) \cap StorageListeners # {}
         /\ LastIn(regs, StorageListeners, LatestListeners)
         /\ LastIn(mainq, StorageEvents, LatestStorage)
         /\ known # Unheard /\ ToSet(mainq) \cap StorageEvents = {} =>
              storageProducts = heard \cap Mine(known)

(* The Route tab.  As long as this shipper has lost nothing, he has more    *)
(* and more orders, and arrayLocation is never made shorter.                *)
More == {p \in Tasks \X Tasks :
           p[1] \in RouteEvents /\ p[2] \in RouteEvents => Mine(p[1].value) \subseteq Mine(p[2].value)}

RouteGrows ==
  /\ Ordered(mainq, More)
  /\ \A e \in ToSet(mainq) \cap RouteEvents :
       Mine(e.value) \subseteq Mine(known) /\ Len(arrayLocation) <= Cardinality(Mine(e.value))
  /\ IF known = Unheard THEN arrayLocation = <<>>
     ELSE Mine(known) \subseteq Mine(holder) /\ Len(arrayLocation) <= Cardinality(Mine(known))
  /\ \A b \in ToSet(mainq) \cap Blocks : b.index \in DOMAIN arrayLocation

NothingOfOthers ==
  /\ \A k \in DOMAIN arrayLocation : arrayLocation[k].order \in Mine(holder)
  /\ \A r \in route : r.order \in Mine(holder)
  /\ pins \subseteq {ZeroPin} \cup {Pin(o, kind) : o \in Mine(holder), kind \in {"start", "finish"}}

(* arrayLocation is of the latest value, or that is still queued.           *)
LatestRoute == {e \in RouteEvents : e.value = known}

RouteIsLatest ==
  /\ LastIn(mainq, RouteEvents, LatestRoute)
  /\ routeOpen => RouteListener \in ToSet(observing) \cup ToSet(regs)
  /\ ToSet(mainq) \cap RouteEvents # {} => RouteListener \in ToSet(regs)
  /\ RouteListener \in ToSet(regs) /\ known # Unheard /\ ToSet(mainq) \cap RouteEvents = {} =>
       {arrayLocation[k].order : k \in DOMAIN arrayLocation} = Mine(known)

(* A point that is not known is awaited; one that is has its pin, or the    *)
(* block that sets it.                                                      *)
Remembered == ToSet(observing) \cup ToSet(regs)
                \cup {e.listener : e \in ToSet(mainq) \cap PlaceEvents}

Awaited(l, kind) == [on |-> kind, place |-> PlaceOf(l, kind)] \in Remembered

PlacesAwaited == \A k \in DOMAIN arrayLocation, kind \in {"start", "finish"} :
  IF arrayLocation[k][kind]
  THEN \/ Pin(arrayLocation[k].order, kind) \in pins
       \/ [kind |-> kind, index |-> k] \in ToSet(mainq)
  ELSE Awaited(arrayLocation[k], kind)

(* The route is through arrayLocation, or will be asked for again.          *)
RouteAwaited == hasPosition =>
  \/ route = StopsOf(arrayLocation) \/ arrayLocation = <<>>
  \/ ToSet(mainq) \cap Blocks # {}
  \/ \E k \in DOMAIN arrayLocation : ~arrayLocation[k].start \/ ~arrayLocation[k].finish

MyInv ==
  /\ MyTypes /\ StorageToldAll /\ StorageIsLatest
  /\ lost \/ (RouteGrows /\ NothingOfOthers /\ running)
  /\ RouteIsLatest /\ PlacesAwaited /\ RouteAwaited /\ RouteDrawn
--------------------------------------------------------------------------------
LEMMA Markers ==
  /\ \A S \in SUBSET Orders : Unheard # S
  /\ \A h \in Holding : Unheard # h
  /\ Me \in Holders /\ NoOne \in Holders /\ Me # NoOne /\ Me # Unposted
  BY PhoneAssumption DEF Holding, Holders

(* What is queued is told apart by its listener, or has none.               *)
LEMMA TaskSorts ==
  /\ \A e \in ProductEvents :
       e \in Tasks /\ e \notin StorageEvents \cup RouteEvents \cup PlaceEvents \cup Blocks
  /\ \A e \in StorageEvents :
       e \in Tasks /\ e \notin ProductEvents \cup RouteEvents \cup PlaceEvents \cup Blocks
  /\ \A e \in RouteEvents :
       e \in Tasks /\ e \notin ProductEvents \cup StorageEvents \cup PlaceEvents \cup Blocks
  /\ \A e \in PlaceEvents :
       e \in Tasks /\ e \notin ProductEvents \cup StorageEvents \cup RouteEvents \cup Blocks
  /\ \A e \in Blocks :
       e \in Tasks /\ e \notin ProductEvents \cup StorageEvents \cup RouteEvents \cup PlaceEvents
<1>1. \A e \in ProductEvents : e.listener.on = "Product" /\ "index" \notin DOMAIN e
  BY DEF ProductEvents, ProductListener
<1>2. \A e \in StorageEvents : e.listener.on = "Storage" /\ "index" \notin DOMAIN e
  BY DEF StorageEvents, StorageListeners
<1>3. \A e \in RouteEvents : e.listener.on = "Route" /\ "index" \notin DOMAIN e
  BY DEF RouteEvents, RouteListener
<1>4. \A e \in PlaceEvents : e.listener.on \in {"start", "finish"} /\ "index" \notin DOMAIN e
  BY DEF PlaceEvents, PlaceListeners
<1>5. \A e \in Blocks : "index" \in DOMAIN e
  BY DEF Blocks
<1> QED BY <1>1, <1>2, <1>3, <1>4, <1>5 DEF Tasks

LEMMA TaskOn ==
  ASSUME NEW e \in Tasks
  PROVE  /\ "index" \in DOMAIN e => e \in Blocks
         /\ "listener" \in DOMAIN e =>
              /\ e.listener.on = "Product" => e \in ProductEvents
              /\ e.listener.on = "Storage" => e \in StorageEvents
              /\ e.listener.on = "Route" => e \in RouteEvents
              /\ e.listener.on \in {"start", "finish"} => e \in PlaceEvents
<1>1. CASE e \in ProductEvents
  BY <1>1 DEF ProductEvents, ProductListener
<1>2. CASE e \in StorageEvents
  BY <1>2 DEF StorageEvents, StorageListeners
<1>3. CASE e \in RouteEvents
  BY <1>3 DEF RouteEvents, RouteListener
<1>4. CASE e \in PlaceEvents
  BY <1>4 DEF PlaceEvents, PlaceListeners
<1>5. CASE e \in Blocks
  BY <1>5 DEF Blocks
<1> QED BY <1>1, <1>2, <1>3, <1>4, <1>5 DEF Tasks

LEMMA ListenerSorts ==
  /\ ProductListener \in MyListeners /\ RouteListener \in MyListeners
  /\ StorageListeners \subseteq MyListeners /\ PlaceListeners \subseteq MyListeners
  /\ ProductListener # RouteListener
  /\ \A l \in StorageListeners : l \notin PlaceListeners \cup {ProductListener, RouteListener}
  /\ \A l \in PlaceListeners : l \notin StorageListeners \cup {ProductListener, RouteListener}
  /\ OfProducts = {ProductListener}
  /\ OfDetails \cap MyListeners = StorageListeners \cup {RouteListener}
  /\ \A p \in Places : OfPlace(p) = {l \in PlaceListeners : l.place = p}
  /\ \A l \in MyListeners : /\ OnPlace(l) <=> l \in PlaceListeners
                            /\ OnDetails(l) <=> l \in StorageListeners \cup {RouteListener}
                            /\ l.on = "Product" <=> l = ProductListener
<1>1. ProductListener.on = "Product" /\ RouteListener.on = "Route"
  BY DEF ProductListener, RouteListener
<1>2. \A l \in StorageListeners : l.on = "Storage"
  BY DEF StorageListeners
<1>3. \A l \in PlaceListeners : l.on \in {"start", "finish"}
  BY DEF PlaceListeners
<1>4. OfProducts = {ProductListener}
  BY DEF OfProducts, ProductListener
<1>5. OfDetails = StorageListeners \cup {RouteListener}
  BY DEF OfDetails, StorageListeners, RouteListener
<1>6. \A p \in Places : OfPlace(p) = {l \in PlaceListeners : l.place = p}
  BY DEF OfPlace, PlaceListeners
<1> QED BY <1>1, <1>2, <1>3, <1>4, <1>5, <1>6 DEF MyListeners, OnPlace, OnDetails

LEMMA TasksFor ==
  ASSUME NEW q \in Seq(MyListeners), NEW v, \A l \in ToSet(q) : Event(l, v) \in Tasks
  PROVE  /\ EventsFor(q, v) \in Seq(Tasks)
         /\ ToSet(EventsFor(q, v)) = {Event(l, v) : l \in ToSet(q)}
<1>1. Len(q) \in Nat /\ DOMAIN q = 1..Len(q) /\ ToSet(q) = {q[k] : k \in 1..Len(q)}
  BY ElementFacts
<1> DEFINE f == EventsFor(q, v)
<1>2. f = [k \in 1..Len(q) |-> Event(q[k], v)]
  BY <1>1 DEF EventsFor
<1>3. \A k \in 1..Len(q) : f[k] = Event(q[k], v) /\ f[k] \in Tasks
  BY <1>1, <1>2
<1>4. f \in Seq(Tasks) /\ DOMAIN f = 1..Len(q)
  BY <1>1, <1>2, <1>3
<1>5. ToSet(f) = {f[k] : k \in 1..Len(q)}
  BY <1>4 DEF ToSet
<1> HIDE DEF f
<1>6. ToSet(f) = {Event(l, v) : l \in ToSet(q)}
  BY <1>1, <1>3, <1>5
<1> QED BY <1>4, <1>6 DEF f

LEMMA EmptyQueue ==
  /\ ToSet(<<>>) = {} /\ Len(<<>>) = 0 /\ DOMAIN <<>> = {}
  /\ \A S : <<>> \in Seq(S)
  BY EmptySeq DEF ToSet

LEMMA MyInitInv == Init => MyInv
<1> SUFFICES ASSUME NEW l \in Launches, PhoneInit(l), StorageInit, RouteInit(l.leg) PROVE MyInv
  BY DEF Init
<1>1. MyTypes
  <2>1. l.holder \in Holding
    BY PhoneAssumption DEF Holding, Holders
  <2> QED BY <2>1, EmptyQueue DEF PhoneInit, RouteInit, MyTypes
<1>2. StorageToldAll /\ StorageIsLatest
  BY EmptyQueue DEF PhoneInit, StorageInit, StorageToldAll, StorageIsLatest, LastIn
<1>3. RouteGrows /\ running
  BY EmptyQueue DEF PhoneInit, RouteInit, RouteGrows, Ordered
<1>4. NothingOfOthers
  BY EmptyQueue DEF PhoneInit, RouteInit, NothingOfOthers
<1>5. RouteIsLatest
  BY EmptyQueue DEF PhoneInit, RouteInit, RouteIsLatest, LastIn
<1>6. PlacesAwaited /\ RouteAwaited
  BY EmptyQueue DEF PhoneInit, RouteInit, PlacesAwaited, RouteAwaited
<1>7. RouteDrawn
  BY EmptyQueue, FS_EmptySet DEF RouteInit, RouteDrawn, HasLeg
<1> QED BY <1>1, <1>2, <1>3, <1>4, <1>5, <1>6, <1>7 DEF MyInv
--------------------------------------------------------------------------------
(* Each part is kept by the steps that do not touch what it is about.       *)
LEMMA StorageKept ==
  ASSUME MyTypes, StorageToldAll, StorageIsLatest,
         UNCHANGED <<heard, known, storageOpen, storageProducts>>,
         SameIn(mainq, mainq', ProductEvents), SameIn(mainq, mainq', StorageEvents),
         ToSet(mainq') \cap RouteEvents # {} => known # Unheard,
         SameIn(observing, observing', StorageListeners), SameIn(regs, regs', StorageListeners),
         ProductListener \in ToSet(observing) \cup ToSet(regs) =>
           ProductListener \in ToSet(observing') \cup ToSet(regs')
  PROVE  StorageToldAll' /\ StorageIsLatest'
<1>1. UNCHANGED <<LatestProducts, LatestListeners, LatestStorage>>
  BY DEF LatestProducts, LatestListeners, LatestStorage
<1>2. StorageToldAll'
  BY <1>1 DEF StorageToldAll, SameIn
<1>3. StorageIsLatest'
  BY <1>1 DEF StorageIsLatest, SameIn
<1> QED BY <1>2, <1>3

LEMMA LatestKept ==
  ASSUME RouteIsLatest, UNCHANGED <<known, arrayLocation>>,
         routeOpen' => RouteListener \in ToSet(observing') \cup ToSet(regs'),
         SameIn(mainq, mainq', RouteEvents),
         RouteListener \in ToSet(regs') <=> RouteListener \in ToSet(regs)
  PROVE  RouteIsLatest'
<1>1. LatestRoute' = LatestRoute
  BY DEF LatestRoute
<1> QED BY <1>1 DEF RouteIsLatest, SameIn

LEMMA PlacesKept ==
  ASSUME PlacesAwaited, UNCHANGED arrayLocation, pins \subseteq pins',
         ToSet(mainq) \cap Blocks \subseteq ToSet(mainq'),
         Remembered \cap PlaceListeners \subseteq Remembered',
         MyTypes
  PROVE  PlacesAwaited'
<1> SUFFICES ASSUME NEW k \in DOMAIN arrayLocation, NEW kind \in {"start", "finish"}
             PROVE  IF arrayLocation[k][kind]
                    THEN \/ Pin(arrayLocation[k].order, kind) \in pins'
                         \/ [kind |-> kind, index |-> k] \in ToSet(mainq')
                    ELSE Awaited(arrayLocation[k], kind)'
  BY DEF PlacesAwaited
<1>1. arrayLocation[k] \in Location /\ k \in Nat \ {0}
  BY ElementFacts, ElementOfSeq DEF MyTypes
<1>2. [kind |-> kind, index |-> k] \in Blocks
  BY <1>1 DEF Blocks
<1>3. [on |-> kind, place |-> PlaceOf(arrayLocation[k], kind)] \in PlaceListeners
  BY <1>1 DEF PlaceListeners, PlaceOf, Places, Location
<1> QED BY <1>2, <1>3 DEF PlacesAwaited, Awaited, PlaceOf

LEMMA GrowsKept ==
  ASSUME RouteGrows, MyTypes, UNCHANGED known, DOMAIN arrayLocation' = DOMAIN arrayLocation,
         arrayLocation' \in Seq(Location), known # Unheard => Mine(holder) \subseteq Mine(holder'),
         Ordered(mainq', More), ToSet(mainq') \cap RouteEvents \subseteq ToSet(mainq),
         \A b \in ToSet(mainq') \cap Blocks : b \in ToSet(mainq) \/ b.index \in DOMAIN arrayLocation
  PROVE  RouteGrows'
<1>1. Len(arrayLocation') = Len(arrayLocation) /\ Len(arrayLocation) \in Nat
  BY ElementFacts DEF MyTypes
<1>2. arrayLocation = <<>> => arrayLocation' = <<>>
  BY <1>1, EmptySeq
<1>3. More' = More
  BY DEF More
<1> QED BY <1>1, <1>2, <1>3 DEF RouteGrows

LEMMA OrderedKept ==
  ASSUME MyTypes, Ordered(mainq, More), NEW new \in Seq(Tasks), ToSet(new) \cap RouteEvents = {}
  PROVE  /\ Ordered(mainq \o new, More)
         /\ mainq # <<>> => Ordered(Tail(mainq) \o new, More)
<1>1. Ordered(new, More)
  <2>1. \A k \in 1..Len(new) : new[k] \in ToSet(new) /\ new[k] \in Tasks
    BY ElementFacts
  <2> QED BY <2>1 DEF Ordered, More
<1>2. \A x \in Tasks, y \in ToSet(new) : <<x, y>> \in More
  <2>1. \A y \in ToSet(new) : y \in Tasks /\ y \notin RouteEvents
    BY ElementFacts
  <2> QED BY <2>1 DEF More
<1>3. mainq \in Seq(Tasks) /\ ToSet(mainq) \subseteq Tasks
  BY ElementFacts DEF MyTypes
<1>4. Ordered(mainq \o new, More)
  BY <1>1, <1>2, <1>3, OrderedConcat
<1>5. ASSUME mainq # <<>> PROVE Ordered(Tail(mainq) \o new, More)
  <2>1. Tail(mainq) \in Seq(Tasks) /\ ToSet(mainq) = {Head(mainq)} \cup ToSet(Tail(mainq))
    BY <1>3, <1>5, TailFacts
  <2>2. Ordered(Tail(mainq), More)
    BY <1>3, <1>5, OrderedTail
  <2>3. PICK t \in Seq(Tasks) : t = Tail(mainq)
    BY <2>1
  <2>4. Ordered(t \o new, More)
    <3>1. \A x \in ToSet(t), y \in ToSet(new) : <<x, y>> \in More
      BY <1>2, <1>3, <2>1, <2>3
    <3>2. Ordered(t, More)
      BY <2>2, <2>3
    <3> QED BY <1>1, <3>1, <3>2, OrderedConcat
  <2> QED BY <2>3, <2>4
<1> QED BY <1>4, <1>5

LEMMA SameInSelf == \A q, X : SameIn(q, q, X)
BY DEF SameIn

LEMMA MineFacts ==
  ASSUME NEW g, NEW h, Mine(g) \subseteq Mine(h)
  PROVE  /\ Mine(h) \in SUBSET Orders /\ IsFiniteSet(Mine(h))
         /\ Cardinality(Mine(g)) \in Nat /\ Cardinality(Mine(h)) \in Nat
         /\ Cardinality(Mine(g)) <= Cardinality(Mine(h))
<1>1. Mine(h) \in SUBSET Orders
  BY DEF Mine
<1>2. IsFiniteSet(Mine(h))
  BY <1>1, PhoneAssumption, FS_Subset
<1>3. IsFiniteSet(Mine(g)) /\ Cardinality(Mine(g)) <= Cardinality(Mine(h))
  BY <1>2, FS_Subset
<1> QED BY <1>1, <1>2, <1>3, FS_CardinalityType
--------------------------------------------------------------------------------
(* An order changes hands: nobody takes one of this shipper's, or he has    *)
(* lost it.                                                                 *)
LEMMA ReassignStep ==
  ASSUME MyInv, NEW o \in Orders, Reassign(o), UNCHANGED <<storage, map>>
  PROVE  MyInv'
<1> USE DEF MyInv
<1>1. PICK h \in Holders \ {Unposted} : holder' = [holder EXCEPT ![o] = h]
  BY DEF Reassign
<1>2. lost' = (lost \/ holder[o] = Me) /\ UNCHANGED client
  BY DEF Reassign
<1>3. /\ UNCHANGED <<heard, known, located, observing, regs, mainq, running, storageOpen, storageProducts>>
      /\ UNCHANGED <<routeOpen, arrayLocation, hasPosition, pins, drawing>>
      /\ UNCHANGED <<route, leg, asking, overlays, refused, stale>>
  BY <1>2 DEF client, storage, map, drawing
<1>4. MyTypes'
  BY <1>1, <1>2, <1>3 DEF MyTypes, Holding
<1>5. StorageToldAll' /\ StorageIsLatest' /\ RouteIsLatest' /\ PlacesAwaited' /\ RouteAwaited' /\ RouteDrawn'
  BY <1>3 DEF StorageToldAll, LatestProducts, StorageIsLatest, LatestListeners, LatestStorage,
     RouteIsLatest, LatestRoute, PlacesAwaited, Awaited, Remembered, RouteAwaited, RouteDrawn, HasLeg
<1>6. ASSUME ~lost' PROVE RouteGrows' /\ NothingOfOthers' /\ running'
  <2>1. ~lost /\ holder[o] # Me
    BY <1>2, <1>6
  <2>2. Mine(holder) \subseteq Mine(holder')
    BY <1>1, <2>1 DEF Mine, MyTypes, Holding
  <2>3. RouteGrows'
    BY <1>3, <2>1, <2>2 DEF RouteGrows, More
  <2>4. NothingOfOthers'
    BY <1>3, <2>1, <2>2 DEF NothingOfOthers
  <2> QED BY <1>3, <2>1, <2>3, <2>4
<1> QED BY <1>4, <1>5, <1>6
--------------------------------------------------------------------------------
(* What the client does, and the tabs when they are opened: tasks are       *)
(* added to the queue, those on the details with what is known now.         *)
LEMMA ClientStep ==
  ASSUME MyInv, MyTypes',
         UNCHANGED <<holder, lost, running, arrayLocation, hasPosition, pins, drawing>>,
         NEW new \in Seq(Tasks), mainq' = mainq \o new, ToSet(new) \cap Blocks = {},
         \A e \in ToSet(new) \cap RouteEvents : e.value = known' /\ known' # Unheard,
         known # Unheard => known' # Unheard,
         known' # known =>
           /\ known' = holder
           /\ RouteListener \in ToSet(regs) => ToSet(new) \cap RouteEvents # {},
         RouteListener \in ToSet(regs) => RouteListener \in ToSet(regs'),
         RouteListener \in ToSet(regs') /\ RouteListener \notin ToSet(regs) /\ known' # Unheard =>
           ToSet(new) \cap RouteEvents # {},
         ToSet(new) \cap RouteEvents # {} => RouteListener \in ToSet(regs'),
         routeOpen' => RouteListener \in ToSet(observing') \cup ToSet(regs'),
         Remembered \cap PlaceListeners \subseteq Remembered'
  PROVE  /\ lost' \/ (RouteGrows' /\ NothingOfOthers' /\ running')
         /\ RouteIsLatest' /\ PlacesAwaited' /\ RouteAwaited' /\ RouteDrawn'
<1> USE DEF MyInv
<1>1. /\ mainq \in Seq(Tasks) /\ ToSet(mainq) \subseteq Tasks /\ ToSet(new) \subseteq Tasks
      /\ ToSet(mainq') = ToSet(mainq) \cup ToSet(new)
  BY ElementFacts, ConcatFacts DEF MyTypes
<1>2. UNCHANGED <<route, leg, asking, overlays, refused, stale>>
  BY DEF drawing
<1>3. RouteDrawn'
  BY <1>2 DEF RouteDrawn, HasLeg
<1>4. PlacesAwaited'
  BY <1>1, PlacesKept
<1>5. RouteAwaited'
  BY <1>1, <1>2 DEF RouteAwaited
<1>6. RouteIsLatest'
  <2>1. CASE ToSet(new) \cap RouteEvents = {}
    <3>1. SameIn(mainq, mainq', RouteEvents)
      BY <1>1, <2>1, Untouched
    <3>2. LastIn(mainq', RouteEvents, LatestRoute')
      <4>1. CASE known' = known
        BY <3>1, <4>1 DEF RouteIsLatest, SameIn, LatestRoute
      <4>2. CASE known' # known
        <5>1. RouteListener \notin ToSet(regs)
          BY <2>1, <4>2
        <5>2. ToSet(mainq') \cap RouteEvents = {}
          BY <3>1, <5>1 DEF RouteIsLatest, SameIn
        <5>3. mainq' \in Seq(Tasks)
          BY DEF MyTypes
        <5> QED BY <5>2, <5>3, LastInAll
      <4> QED BY <4>1, <4>2
    <3>3. ToSet(mainq') \cap RouteEvents = ToSet(mainq) \cap RouteEvents
      BY <3>1 DEF SameIn
    <3> QED BY <2>1, <3>2, <3>3 DEF RouteIsLatest
  <2>2. CASE ToSet(new) \cap RouteEvents # {}
    <3>1. LastIn(new, RouteEvents, LatestRoute')
      BY LastInAll DEF LatestRoute
    <3>2. LastIn(mainq', RouteEvents, LatestRoute')
      BY <1>1, <2>2, <3>1, LastInConcat
    <3> QED BY <1>1, <2>2, <3>2 DEF RouteIsLatest
  <2> QED BY <2>1, <2>2
<1>7. ASSUME ~lost PROVE RouteGrows' /\ NothingOfOthers' /\ running'
  <2>1. known # Unheard => Mine(known) \subseteq Mine(known')
    BY <1>7 DEF RouteGrows
  <2>2. \A e \in ToSet(mainq) \cap RouteEvents : Mine(e.value) \subseteq Mine(known')
    BY <1>7, <2>1 DEF RouteGrows, StorageToldAll
  <2>3. Ordered(new, More)
    <3>1. \A k \in 1..Len(new) : new[k] \in ToSet(new)
      BY ElementFacts
    <3>2. \A d, e \in ToSet(new) : <<d, e>> \in More
      BY <1>1 DEF More
    <3> QED BY <3>1, <3>2 DEF Ordered
  <2>4. \A d \in ToSet(mainq), e \in ToSet(new) : <<d, e>> \in More
    BY <1>1, <2>2 DEF More
  <2>5. Ordered(mainq', More) /\ More' = More
    <3>1. Ordered(mainq, More)
      BY <1>7 DEF RouteGrows
    <3> QED BY <1>1, <2>3, <2>4, <3>1, OrderedConcat DEF More
  <2>6. known' # Unheard => Mine(known') \subseteq Mine(holder) /\ Len(arrayLocation) <= Cardinality(Mine(known'))
    <3>1. CASE known = Unheard
      <4>1. Len(arrayLocation) = 0
        BY <1>7, <3>1, EmptyQueue DEF RouteGrows
      <4>2. Cardinality(Mine(known')) \in Nat
        BY MineFacts
      <4> QED BY <3>1, <4>1, <4>2
    <3>2. CASE known # Unheard
      <4>1. Len(arrayLocation) <= Cardinality(Mine(known)) /\ Mine(known) \subseteq Mine(holder)
        BY <1>7, <3>2 DEF RouteGrows
      <4>2. Len(arrayLocation) \in Nat
        BY ElementFacts DEF MyTypes
      <4>3. /\ Cardinality(Mine(known)) \in Nat /\ Cardinality(Mine(known')) \in Nat
            /\ Cardinality(Mine(known)) <= Cardinality(Mine(known'))
        BY <2>1, <3>2, MineFacts
      <4> QED BY <4>1, <4>2, <4>3
    <3> QED BY <3>1, <3>2
  <2>7. known' = Unheard => arrayLocation = <<>>
    BY <1>7 DEF RouteGrows
  <2>8. \A e \in ToSet(mainq') \cap RouteEvents :
          Mine(e.value) \subseteq Mine(known') /\ Len(arrayLocation) <= Cardinality(Mine(e.value))
    BY <1>1, <1>7, <2>2, <2>6 DEF RouteGrows
  <2>9. RouteGrows'
    BY <1>1, <1>7, <2>5, <2>6, <2>7, <2>8 DEF RouteGrows
  <2>10. NothingOfOthers'
    BY <1>2, <1>7 DEF NothingOfOthers
  <2> QED BY <1>7, <2>9, <2>10
<1> QED BY <1>3, <1>4, <1>5, <1>6, <1>7

LEMMA NewTasks ==
  ASSUME MyTypes, NEW new \in Seq(Tasks), mainq' = mainq \o new
  PROVE  /\ mainq' \in Seq(Tasks) /\ ToSet(mainq') = ToSet(mainq) \cup ToSet(new)
         /\ \A X : ToSet(new) \cap X = {} => SameIn(mainq, mainq', X)
         /\ {e.listener : e \in ToSet(mainq) \cap PlaceEvents}
              \subseteq {e.listener : e \in ToSet(mainq') \cap PlaceEvents}
<1>1. mainq \in Seq(Tasks)
  BY DEF MyTypes
<1>2. mainq' \in Seq(Tasks) /\ ToSet(mainq') = ToSet(mainq) \cup ToSet(new)
  BY <1>1, ConcatFacts
<1>3. \A X : ToSet(new) \cap X = {} => SameIn(mainq, mainq', X)
  BY <1>1, Untouched
<1> QED BY <1>2, <1>3

(* A tab is opened.                                                         *)
LEMMA OpenStep ==
  ASSUME MyInv, (OpenStorage /\ UNCHANGED map) \/ (OpenRoute /\ UNCHANGED storage)
  PROVE  MyInv'
<1> USE DEF MyInv
<1>1. PICK l \in {ProductListener, RouteListener} :
        /\ observing' = Append(observing, l)
        /\ storageOpen' # storageOpen => l = ProductListener
        /\ routeOpen' # routeOpen => l = RouteListener
  BY DEF OpenStorage, OpenRoute, ProductListener, RouteListener, map, storage
<1>2. /\ UNCHANGED <<holder, lost, running, heard, known, regs, mainq, storageProducts>>
      /\ UNCHANGED <<arrayLocation, hasPosition, pins, drawing>>
  BY DEF OpenStorage, OpenRoute, map, storage, database
<1>3. UNCHANGED <<route, leg, asking, overlays, refused, stale>>
  BY <1>2 DEF drawing
<1>4. /\ observing' \in Seq(MyListeners) /\ ToSet(observing') = ToSet(observing) \cup {l}
      /\ SameIn(observing, observing', StorageListeners)
  <2>1. observing \in Seq(MyListeners) /\ l \in MyListeners /\ l \notin StorageListeners
    BY ListenerSorts DEF MyTypes
  <2>2. <<l>> \in Seq(MyListeners) /\ ToSet(<<l>>) = {l}
    BY <2>1, Singleton
  <2>3. observing' = observing \o <<l>>
    BY <1>1, <2>1, AppendIsConcat
  <2>4. observing' \in Seq(MyListeners) /\ ToSet(observing') = ToSet(observing) \cup {l}
    BY <1>1, <2>1, AppendElements
  <2>5. SameIn(observing, observing', StorageListeners)
    BY <2>1, <2>2, <2>3, Untouched
  <2> QED BY <2>4, <2>5
<1>5. MyTypes'
  BY <1>2, <1>3, <1>4 DEF MyTypes
<1>6. StorageToldAll' /\ StorageIsLatest'
  <2>1. StorageToldAll'
    BY <1>1, <1>2, <1>4 DEF StorageToldAll, LatestProducts
  <2>2. StorageIsLatest'
    BY <1>2, <1>4 DEF StorageIsLatest, LatestListeners, LatestStorage, SameIn
  <2> QED BY <2>1, <2>2
<1>7. PICK new : new = <<>>
  OBVIOUS
<1>8. new \in Seq(Tasks) /\ ToSet(new) = {} /\ mainq' = mainq \o new
  BY <1>2, <1>7, EmptyQueue, ConcatEmptySeq DEF MyTypes
<1>9. Remembered \subseteq Remembered'
  BY <1>2, <1>4 DEF Remembered
<1>10. routeOpen' => RouteListener \in ToSet(observing') \cup ToSet(regs')
  BY <1>1, <1>2, <1>4 DEF RouteIsLatest
<1> QED BY <1>2, <1>5, <1>6, <1>8, <1>9, <1>10, ClientStep

LEMMA ObserveStep ==
  ASSUME MyInv, Observe, UNCHANGED <<storage, map>>
  PROVE  MyInv'
<1> USE DEF MyInv
<1>a. PICK l, v : l = Head(observing) /\ v = Value(l)
  OBVIOUS
<1>b. PICK new : new = IF v = Unheard THEN <<>> ELSE <<Event(l, v)>>
  OBVIOUS
<1>c. PICK reg : reg = IF v # Unheard /\ OnPlace(l) THEN <<>> ELSE <<l>>
  OBVIOUS
<1>1. /\ observing # <<>> /\ observing' = Tail(observing)
      /\ mainq' = IF v = Unheard THEN mainq ELSE Append(mainq, Event(l, v))
      /\ regs' = IF v # Unheard /\ OnPlace(l) THEN regs ELSE Append(regs, l)
      /\ UNCHANGED <<holder, lost, running, heard, known, storageOpen, storageProducts>>
      /\ UNCHANGED <<routeOpen, arrayLocation, hasPosition, pins, drawing>>
  BY <1>a DEF Observe, database, storage, map
<1>2. UNCHANGED <<route, leg, asking, overlays, refused, stale>>
  BY <1>1 DEF drawing
<1>3. /\ l \in MyListeners /\ observing' \in Seq(MyListeners)
      /\ ToSet(observing) = {l} \cup ToSet(observing')
      /\ regs \in Seq(MyListeners) /\ mainq \in Seq(Tasks) /\ observing \in Seq(MyListeners)
  BY <1>a, <1>1, TailFacts DEF MyTypes
<1>4. /\ l = ProductListener => v = heard
      /\ l \in StorageListeners \cup {RouteListener} => v = known
      /\ l \in PlaceListeners => v \in {Unheard, l.place}
  <2>1. l = ProductListener => v = heard
    <3>1. l = ProductListener => l.on = "Product" /\ ~OnDetails(l) /\ ~OnPlace(l)
      BY DEF ProductListener, OnDetails, OnPlace
    <3> QED BY <1>a, <3>1 DEF Value
  <2>2. l \in StorageListeners \cup {RouteListener} => v = known
    <3>1. \A m \in StorageListeners \cup {RouteListener} : m.on # "Product" /\ OnDetails(m) /\ ~OnPlace(m)
      BY DEF StorageListeners, RouteListener, OnDetails, OnPlace
    <3> QED BY <1>a, <3>1 DEF Value
  <2>3. l \in PlaceListeners => v \in {Unheard, l.place}
    <3>1. \A m \in PlaceListeners : m.on # "Product" /\ ~OnDetails(m) /\ OnPlace(m)
      BY DEF PlaceListeners, OnDetails, OnPlace
    <3> QED BY <1>a, <3>1 DEF Value
  <2> QED BY <2>1, <2>2, <2>3
<1>5. v # Unheard => /\ Event(l, v).listener = l /\ Event(l, v).value = v /\ Event(l, v) \in Tasks
                     /\ l = ProductListener => Event(l, v) \in ProductEvents
                     /\ l \in StorageListeners => Event(l, v) \in StorageEvents
                     /\ l = RouteListener => Event(l, v) \in RouteEvents
                     /\ l \in PlaceListeners => Event(l, v) \in PlaceEvents
  <2>1. Event(l, v) = [listener |-> l, value |-> v]
    BY DEF Event
  <2>2. v # Unheard /\ l = ProductListener => Event(l, v) \in ProductEvents
    BY <1>4, <2>1 DEF ProductEvents, MyTypes
  <2>3. v # Unheard /\ l \in StorageListeners => Event(l, v) \in StorageEvents
    BY <1>4, <2>1 DEF StorageEvents, MyTypes
  <2>4. v # Unheard /\ l = RouteListener => Event(l, v) \in RouteEvents
    BY <1>4, <2>1 DEF RouteEvents, MyTypes
  <2>5. v # Unheard /\ l \in PlaceListeners => Event(l, v) \in PlaceEvents
    <3>1. l \in PlaceListeners => l.place \in Places
      BY DEF PlaceListeners
    <3> QED BY <1>4, <2>1, <3>1 DEF PlaceEvents
  <2> QED BY <1>3, <2>1, <2>2, <2>3, <2>4, <2>5, TaskSorts DEF MyListeners
<1>6. /\ new \in Seq(Tasks) /\ mainq' = mainq \o new
      /\ ToSet(new) = IF v = Unheard THEN {} ELSE {Event(l, v)}
  <2>1. CASE v = Unheard
    BY <1>b, <1>1, <1>3, <2>1, EmptyQueue, ConcatEmptySeq
  <2>2. CASE v # Unheard
    BY <1>b, <1>1, <1>3, <1>5, <2>2, Singleton, AppendIsConcat
  <2> QED BY <2>1, <2>2
<1>7. /\ reg \in Seq(MyListeners) /\ regs' = regs \o reg
      /\ ToSet(reg) = IF v # Unheard /\ l \in PlaceListeners THEN {} ELSE {l}
  <2>1. OnPlace(l) <=> l \in PlaceListeners
    BY <1>3, ListenerSorts
  <2>2. CASE v # Unheard /\ l \in PlaceListeners
    BY <1>c, <1>1, <1>3, <2>1, <2>2, EmptyQueue, ConcatEmptySeq
  <2>3. CASE ~(v # Unheard /\ l \in PlaceListeners)
    BY <1>c, <1>1, <1>3, <2>1, <2>3, Singleton, AppendIsConcat
  <2> QED BY <2>2, <2>3
<1>8. /\ mainq' \in Seq(Tasks) /\ ToSet(mainq') = ToSet(mainq) \cup ToSet(new)
      /\ \A X : ToSet(new) \cap X = {} => SameIn(mainq, mainq', X)
  BY <1>6, NewTasks
<1>9. /\ regs' \in Seq(MyListeners) /\ ToSet(regs') = ToSet(regs) \cup ToSet(reg)
      /\ \A X : ToSet(reg) \cap X = {} => SameIn(regs, regs', X)
  BY <1>3, <1>7, ConcatFacts, Untouched
<1>10. MyTypes'
  BY <1>1, <1>2, <1>3, <1>8, <1>9 DEF MyTypes
<1>11. StorageToldAll'
  <2>1. LastIn(mainq', ProductEvents, LatestProducts) /\ LatestProducts' = LatestProducts
    <3>1. CASE l = ProductListener /\ v # Unheard
      <4>1. LastIn(new, ProductEvents, LatestProducts) /\ ToSet(new) \cap ProductEvents # {}
        BY <1>4, <1>5, <1>6, <3>1, LastInAll DEF LatestProducts
      <4> QED BY <1>1, <1>3, <1>6, <4>1, LastInConcat DEF LatestProducts
    <3>2. CASE ~(l = ProductListener /\ v # Unheard)
      <4>1. ToSet(new) \cap ProductEvents = {}
        BY <1>5, <1>6, <3>2 DEF ProductEvents
      <4>2. SameIn(mainq, mainq', ProductEvents)
        BY <1>8, <4>1
      <4> QED BY <1>1, <4>2 DEF SameIn, StorageToldAll, LatestProducts
    <3> QED BY <3>1, <3>2
  <2>2. heard = Unheard => ToSet(new) \cap ProductEvents = {}
    BY <1>4, <1>5, <1>6 DEF ProductEvents
  <2>3. known = Unheard => ToSet(new) \cap (StorageEvents \cup RouteEvents) = {}
    BY <1>4, <1>5, <1>6 DEF StorageEvents, RouteEvents
  <2>4. storageOpen => ProductListener \in ToSet(observing') \cup ToSet(regs')
    <3>1. ProductListener \notin PlaceListeners
      BY ListenerSorts
    <3> QED BY <1>3, <1>7, <1>9, <3>1 DEF StorageToldAll
  <2> QED BY <1>1, <1>8, <2>1, <2>2, <2>3, <2>4 DEF StorageToldAll
<1>12. StorageIsLatest'
  <2>1. UNCHANGED <<LatestListeners, LatestStorage>>
    BY <1>1 DEF LatestListeners, LatestStorage
  <2>2. SUFFICES ASSUME heard # Unheard, ToSet(mainq') \cap ProductEvents = {}
        PROVE  IF ToSet(observing') \cap StorageListeners # {}
               THEN LastIn(observing', StorageListeners, LatestListeners)
               ELSE /\ ToSet(regs') \cap StorageListeners # {}
                    /\ LastIn(regs', StorageListeners, LatestListeners)
                    /\ LastIn(mainq', StorageEvents, LatestStorage)
                    /\ known # Unheard /\ ToSet(mainq') \cap StorageEvents = {} =>
                         storageProducts = heard \cap Mine(known)
    BY <1>1, <2>1 DEF StorageIsLatest
  <2>3. ToSet(mainq) \cap ProductEvents = {}
    BY <1>8, <2>2
  <2>4. CASE l \in StorageListeners
    <3>1. LastIn(observing, StorageListeners, LatestListeners)
      BY <1>3, <2>2, <2>3, <2>4 DEF StorageIsLatest
    <3>2. /\ LastIn(observing', StorageListeners, LatestListeners)
          /\ ToSet(observing') \cap StorageListeners = {} => l \in LatestListeners
      BY <1>a, <1>1, <1>3, <2>4, <3>1, LastInTail
    <3>3. ASSUME ToSet(observing') \cap StorageListeners = {}
          PROVE  /\ ToSet(regs') \cap StorageListeners # {}
                 /\ LastIn(regs', StorageListeners, LatestListeners)
                 /\ LastIn(mainq', StorageEvents, LatestStorage)
                 /\ known # Unheard => ToSet(mainq') \cap StorageEvents # {}
      <4>1. l \notin PlaceListeners
        BY <2>4, ListenerSorts
      <4>2. ToSet(reg) = {l}
        BY <1>7, <4>1
      <4>3. LastIn(reg, StorageListeners, LatestListeners)
        BY <1>7, <3>2, <3>3, <4>2, LastInAll
      <4>4. LastIn(regs', StorageListeners, LatestListeners)
        BY <1>3, <1>7, <2>4, <4>2, <4>3, LastInConcat
      <4>5. CASE known = Unheard
        <5>1. ToSet(mainq') \cap StorageEvents = {}
          BY <1>1, <1>11, <4>5 DEF StorageToldAll
        <5>2. LastIn(mainq', StorageEvents, LatestStorage)
          BY <1>8, <5>1, LastInAll
        <5> QED BY <1>9, <2>4, <4>2, <4>4, <4>5, <5>2
      <4>6. CASE known # Unheard
        <5>1. ToSet(new) = {Event(l, known)} /\ Event(l, known) \in StorageEvents /\ l.products = heard
          BY <1>4, <1>5, <1>6, <2>4, <3>2, <3>3, <4>6 DEF LatestListeners
        <5>2. Event(l, known) \in LatestStorage
          BY <5>1 DEF LatestStorage, Event
        <5>3. LastIn(new, StorageEvents, LatestStorage)
          BY <1>6, <5>1, <5>2, LastInAll
        <5>4. LastIn(mainq', StorageEvents, LatestStorage)
          BY <1>3, <1>6, <5>1, <5>3, LastInConcat
        <5> QED BY <1>8, <1>9, <2>4, <4>2, <4>4, <5>1, <5>4
      <4> QED BY <4>5, <4>6
    <3> QED BY <3>2, <3>3
  <2>5. CASE l \notin StorageListeners
    <3>1. SameIn(mainq, mainq', StorageEvents) /\ SameIn(regs, regs', StorageListeners)
      <4>1. ToSet(new) \cap StorageEvents = {}
        BY <1>5, <1>6, <2>5 DEF StorageEvents
      <4>2. ToSet(reg) \cap StorageListeners = {}
        BY <1>7, <2>5
      <4> QED BY <1>8, <1>9, <4>1, <4>2
    <3>2. /\ ToSet(observing') \cap StorageListeners = ToSet(observing) \cap StorageListeners
          /\ LastIn(observing, StorageListeners, LatestListeners) =>
               LastIn(observing', StorageListeners, LatestListeners)
      BY <1>1, <1>3, <2>5, LastInTail
    <3> QED BY <2>2, <2>3, <3>1, <3>2 DEF StorageIsLatest, SameIn
  <2> QED BY <2>4, <2>5
<1>13. Remembered \cap PlaceListeners \subseteq Remembered'
  <2>1. l \in PlaceListeners => l \in Remembered'
    <3>1. CASE v = Unheard
      BY <1>7, <1>9, <3>1 DEF Remembered
    <3>2. CASE v # Unheard
      <4>1. l \in PlaceListeners => Event(l, v) \in ToSet(mainq') \cap PlaceEvents
        BY <1>5, <1>6, <1>8, <3>2
      <4> QED BY <1>5, <3>2, <4>1 DEF Remembered
    <3> QED BY <3>1, <3>2
  <2>2. Remembered \subseteq Remembered' \cup {l}
    BY <1>3, <1>8, <1>9 DEF Remembered
  <2> QED BY <2>1, <2>2
<1>14. ToSet(new) \cap Blocks = {} /\ \A e \in ToSet(new) \cap RouteEvents : e.value = known /\ known # Unheard
  <2>1. v # Unheard => Event(l, v) \notin Blocks
    BY <1>3, <1>5, TaskSorts DEF MyListeners
  <2>2. v # Unheard /\ Event(l, v) \in RouteEvents => l = RouteListener
    BY <1>5 DEF RouteEvents
  <2> QED BY <1>4, <1>5, <1>6, <2>1, <2>2
<1>15. /\ RouteListener \in ToSet(regs') /\ RouteListener \notin ToSet(regs) /\ known # Unheard =>
            ToSet(new) \cap RouteEvents # {}
       /\ ToSet(new) \cap RouteEvents # {} => RouteListener \in ToSet(regs')
       /\ routeOpen => RouteListener \in ToSet(observing') \cup ToSet(regs')
  <2>1. RouteListener \notin PlaceListeners
    BY ListenerSorts
  <2>2. l = RouteListener => RouteListener \in ToSet(regs')
    BY <1>7, <1>9, <2>1
  <2>3. RouteListener \in ToSet(reg) => l = RouteListener
    BY <1>7
  <2>4. v # Unheard /\ Event(l, v) \in RouteEvents => l = RouteListener
    BY <1>5 DEF RouteEvents
  <2> QED BY <1>3, <1>4, <1>5, <1>6, <1>9, <2>2, <2>3, <2>4 DEF RouteIsLatest
<1> QED BY <1>1, <1>6, <1>9, <1>10, <1>11, <1>12, <1>13, <1>14, <1>15, ClientStep

(* The client hears a value of "Product".                                   *)
LEMMA HearProductsStep ==
  ASSUME MyInv, HearProducts, UNCHANGED <<storage, map>>
  PROVE  MyInv'
<1> USE DEF MyInv
<1>1. /\ ProductListener \in ToSet(regs) /\ heard' = Posted(holder)
      /\ UNCHANGED <<holder, lost, running, known, observing, regs, storageOpen, storageProducts>>
      /\ UNCHANGED <<routeOpen, arrayLocation, hasPosition, pins, drawing>>
  BY ListenerSorts DEF HearProducts, Listened, ToSet, database, storage, map
<1>2. UNCHANGED <<route, leg, asking, overlays, refused, stale>>
  BY <1>1 DEF drawing
<1>3. heard' \in SUBSET Orders /\ heard' # Unheard
  BY <1>1, Markers DEF Posted
<1>4. PICK listeners : listeners = Selected(regs, OfProducts)
  OBVIOUS
<1>5. listeners \in Seq(MyListeners) /\ ToSet(listeners) = {ProductListener}
  BY <1>1, <1>4, SelectedSet, ListenerSorts DEF MyTypes
<1>6. PICK new : new = EventsFor(listeners, heard')
  OBVIOUS
<1>7. mainq' = mainq \o new
  BY <1>4, <1>6 DEF HearProducts
<1>8. /\ Event(ProductListener, heard') \in LatestProducts'
      /\ Event(ProductListener, heard') \in ProductEvents
  BY <1>3 DEF Event, ProductEvents, LatestProducts
<1>9. new \in Seq(Tasks) /\ ToSet(new) = {Event(ProductListener, heard')}
  <2>1. \A l \in ToSet(listeners) : Event(l, heard') \in Tasks
    BY <1>5, <1>8, TaskSorts
  <2>2. new \in Seq(Tasks) /\ ToSet(new) = {Event(l, heard') : l \in ToSet(listeners)}
    BY <1>5, <1>6, <2>1, TasksFor
  <2> QED BY <1>5, <2>2
<1>10. /\ mainq' \in Seq(Tasks) /\ ToSet(mainq') = ToSet(mainq) \cup ToSet(new)
       /\ {e.listener : e \in ToSet(mainq) \cap PlaceEvents}
            \subseteq {e.listener : e \in ToSet(mainq') \cap PlaceEvents}
  BY <1>7, <1>9, NewTasks
<1>11. MyTypes'
  BY <1>1, <1>2, <1>3, <1>10 DEF MyTypes
<1>12. ToSet(new) \cap (StorageEvents \cup RouteEvents \cup Blocks) = {}
  BY <1>8, <1>9, TaskSorts
<1>13. StorageToldAll' /\ StorageIsLatest'
  <2>1. LastIn(new, ProductEvents, LatestProducts')
    BY <1>8, <1>9, LastInAll
  <2>2. LastIn(mainq', ProductEvents, LatestProducts')
    BY <1>7, <1>8, <1>9, <2>1, LastInConcat DEF MyTypes
  <2>3. StorageToldAll'
    BY <1>1, <1>3, <1>10, <1>12, <2>2 DEF StorageToldAll
  <2>4. StorageIsLatest'
    BY <1>8, <1>9, <1>10 DEF StorageIsLatest
  <2> QED BY <2>3, <2>4
<1>14. Remembered \subseteq Remembered'
  BY <1>1, <1>10 DEF Remembered
<1>15. routeOpen' => RouteListener \in ToSet(observing') \cup ToSet(regs')
  BY <1>1 DEF RouteIsLatest
<1> QED BY <1>1, <1>7, <1>9, <1>11, <1>12, <1>13, <1>14, <1>15, ClientStep

LEMMA EventSorts ==
  ASSUME NEW l \in StorageListeners \cup {RouteListener}, NEW v \in Holding
  PROVE  /\ Event(l, v) \in Tasks /\ Event(l, v).listener = l /\ Event(l, v).value = v
         /\ l \in StorageListeners <=> Event(l, v) \in StorageEvents
         /\ l = RouteListener <=> Event(l, v) \in RouteEvents
         /\ Event(l, v) \notin ProductEvents \cup PlaceEvents \cup Blocks
<1>1. Event(l, v) = [listener |-> l, value |-> v]
  BY DEF Event
<1>2. Event(l, v).listener = l /\ Event(l, v).value = v
  BY <1>1
<1>3. l \in StorageListeners => Event(l, v) \in StorageEvents
  BY <1>1 DEF StorageEvents
<1>4. l = RouteListener => Event(l, v) \in RouteEvents
  BY <1>1 DEF RouteEvents
<1> QED BY <1>2, <1>3, <1>4, TaskSorts, ListenerSorts

(* The last of the listeners of the Storage tab is told last.               *)
LEMMA LastTold ==
  ASSUME NEW q \in Seq(MyListeners), ToSet(q) \subseteq StorageListeners \cup {RouteListener},
         NEW v \in Holding, NEW Y, LastIn(q, StorageListeners, Y)
  PROVE  LastIn(EventsFor(q, v), StorageEvents, {e \in StorageEvents : e.listener \in Y /\ e.value = v})
<1>1. /\ Len(q) \in Nat /\ DOMAIN q = 1..Len(q)
      /\ \A k \in 1..Len(q) : q[k] \in StorageListeners \cup {RouteListener}
  <2>1. Len(q) \in Nat /\ DOMAIN q = 1..Len(q) /\ ToSet(q) = {q[k] : k \in 1..Len(q)}
    BY ElementFacts
  <2> QED BY <2>1
<1> DEFINE f == EventsFor(q, v)
           Z == {e \in StorageEvents : e.listener \in Y /\ e.value = v}
<1>2. f = [k \in 1..Len(q) |-> Event(q[k], v)]
  BY <1>1 DEF EventsFor
<1>3. \A k \in 1..Len(q) : f[k] = Event(q[k], v) /\ f[k] \in Tasks
  BY <1>1, <1>2, EventSorts
<1>4. Len(f) = Len(q)
  BY <1>1, <1>2, <1>3, FunctionFacts
<1> HIDE DEF f
<1>5. \A k \in 1..Len(q) : /\ q[k] \in StorageListeners <=> f[k] \in StorageEvents
                           /\ f[k].listener = q[k] /\ f[k].value = v
  BY <1>1, <1>3, EventSorts
<1>6. ASSUME NEW k \in 1..Len(f), f[k] \in StorageEvents,
             \A j \in 1..Len(f) : k < j => f[j] \notin StorageEvents
      PROVE  f[k] \in Z
  <2>1. q[k] \in StorageListeners /\ \A j \in 1..Len(q) : k < j => q[j] \notin StorageListeners
    BY <1>4, <1>5, <1>6
  <2>2. q[k] \in Y
    BY <1>4, <2>1 DEF LastIn
  <2> QED BY <1>4, <1>5, <1>6, <2>2
<1> QED BY <1>6 DEF LastIn, f

(* The client hears a value of "DetailProduct".                             *)
LEMMA HearDetailsStep ==
  ASSUME MyInv, HearDetails, UNCHANGED <<storage, map>>
  PROVE  MyInv'
<1> USE DEF MyInv
<1>1. /\ known' = holder
      /\ UNCHANGED <<holder, lost, running, heard, observing, regs, storageOpen, storageProducts>>
      /\ UNCHANGED <<routeOpen, arrayLocation, hasPosition, pins, drawing>>
  BY DEF HearDetails, database, storage, map
<1>2. UNCHANGED <<route, leg, asking, overlays, refused, stale>>
  BY <1>1 DEF drawing
<1>3. known' \in Holding /\ known' # Unheard
  BY <1>1, Markers DEF MyTypes
<1>4. PICK listeners : listeners = Selected(regs, OfDetails)
  OBVIOUS
<1>5. /\ listeners \in Seq(MyListeners)
      /\ ToSet(listeners) = ToSet(regs) \cap (StorageListeners \cup {RouteListener})
      /\ \A Y : LastIn(regs, StorageListeners, Y) => LastIn(listeners, StorageListeners, Y)
  <2>1. regs \in Seq(MyListeners) /\ ToSet(regs) \subseteq MyListeners
    BY ElementFacts DEF MyTypes
  <2>2. listeners \in Seq(MyListeners) /\ ToSet(listeners) = ToSet(regs) \cap OfDetails
    BY <1>4, <2>1, SelectedSet
  <2>3. ToSet(listeners) = ToSet(regs) \cap (StorageListeners \cup {RouteListener})
    BY <2>1, <2>2, ListenerSorts
  <2>4. ToSet(regs) \cap StorageListeners \subseteq OfDetails
    BY ListenerSorts
  <2>5. ASSUME NEW Y, LastIn(regs, StorageListeners, Y) PROVE LastIn(listeners, StorageListeners, Y)
    BY <1>4, <2>1, <2>4, <2>5, LastInSelected
  <2> QED BY <2>2, <2>3, <2>5
<1>6. PICK new : new = EventsFor(listeners, holder)
  OBVIOUS
<1>7. mainq' = mainq \o new
  BY <1>4, <1>6 DEF HearDetails
<1>8. new \in Seq(Tasks) /\ ToSet(new) = {Event(l, holder) : l \in ToSet(listeners)}
  <2>1. \A l \in ToSet(listeners) : Event(l, holder) \in Tasks
    BY <1>1, <1>3, <1>5, EventSorts
  <2> QED BY <1>5, <1>6, <2>1, TasksFor
<1>9. \A l \in ToSet(listeners) :
         /\ Event(l, holder) \in ToSet(new) /\ Event(l, holder).value = holder
         /\ l \in StorageListeners <=> Event(l, holder) \in StorageEvents
         /\ l = RouteListener <=> Event(l, holder) \in RouteEvents
         /\ Event(l, holder) \notin ProductEvents \cup PlaceEvents \cup Blocks
  BY <1>1, <1>3, <1>5, <1>8, EventSorts
<1>10. /\ ToSet(new) \cap (ProductEvents \cup PlaceEvents \cup Blocks) = {}
       /\ \A e \in ToSet(new) : e.value = holder
       /\ ToSet(new) \cap RouteEvents # {} <=> RouteListener \in ToSet(regs)
       /\ ToSet(new) \cap StorageEvents # {} <=> ToSet(regs) \cap StorageListeners # {}
  BY <1>5, <1>8, <1>9
<1>11. /\ mainq' \in Seq(Tasks) /\ ToSet(mainq') = ToSet(mainq) \cup ToSet(new)
       /\ \A X : ToSet(new) \cap X = {} => SameIn(mainq, mainq', X)
       /\ {e.listener : e \in ToSet(mainq) \cap PlaceEvents}
            \subseteq {e.listener : e \in ToSet(mainq') \cap PlaceEvents}
  BY <1>7, <1>8, NewTasks
<1>12. MyTypes'
  BY <1>1, <1>2, <1>3, <1>11 DEF MyTypes
<1>13. SameIn(mainq, mainq', ProductEvents)
  BY <1>10, <1>11
<1>14. UNCHANGED <<LatestProducts, LatestListeners>>
  BY <1>1 DEF LatestProducts, LatestListeners
<1>15. StorageToldAll'
  BY <1>1, <1>3, <1>13, <1>14 DEF StorageToldAll, SameIn
<1>16. StorageIsLatest'
  <2>1. SUFFICES ASSUME heard # Unheard, ToSet(mainq) \cap ProductEvents = {},
                        ToSet(observing) \cap StorageListeners = {}
                 PROVE  /\ LastIn(mainq', StorageEvents, LatestStorage')
                        /\ ToSet(mainq') \cap StorageEvents # {}
    BY <1>1, <1>13, <1>14 DEF StorageIsLatest, SameIn
  <2>2. ToSet(regs) \cap StorageListeners # {} /\ LastIn(regs, StorageListeners, LatestListeners)
    BY <2>1 DEF StorageIsLatest
  <2>3. LastIn(new, StorageEvents,
               {e \in StorageEvents : e.listener \in LatestListeners /\ e.value = holder})
    <3>1. LastIn(listeners, StorageListeners, LatestListeners)
      BY <1>5, <2>2
    <3>2. holder \in Holding /\ ToSet(listeners) \subseteq StorageListeners \cup {RouteListener}
      BY <1>5 DEF MyTypes
    <3> QED BY <1>5, <1>6, <3>1, <3>2, LastTold
  <2>4. {e \in StorageEvents : e.listener \in LatestListeners /\ e.value = holder} \subseteq LatestStorage'
    BY <1>1 DEF LatestListeners, LatestStorage
  <2>5. LastIn(new, StorageEvents, LatestStorage')
    BY <2>3, <2>4 DEF LastIn
  <2>6. ToSet(new) \cap StorageEvents # {}
    BY <1>10, <2>2
  <2>7. LastIn(mainq', StorageEvents, LatestStorage')
    BY <1>7, <1>8, <2>5, <2>6, LastInConcat DEF MyTypes
  <2> QED BY <1>11, <2>6, <2>7
<1>17. Remembered \subseteq Remembered'
  BY <1>1, <1>11 DEF Remembered
<1>18. routeOpen' => RouteListener \in ToSet(observing') \cup ToSet(regs')
  BY <1>1 DEF RouteIsLatest
<1> QED BY <1>1, <1>3, <1>7, <1>8, <1>10, <1>12, <1>15, <1>16, <1>17, <1>18, ClientStep

(* The client hears a coordinate: who listened to it is told, and goes.     *)
LEMMA HearPlaceStep ==
  ASSUME MyInv, NEW p \in Places, HearPlace(p), UNCHANGED <<storage, map>>
  PROVE  MyInv'
<1> USE DEF MyInv
<1>1. /\ UNCHANGED <<holder, lost, running, heard, known, observing, storageOpen, storageProducts>>
      /\ UNCHANGED <<routeOpen, arrayLocation, hasPosition, pins, drawing>>
  BY DEF HearPlace, database, storage, map
<1>2. UNCHANGED <<route, leg, asking, overlays, refused, stale>>
  BY <1>1 DEF drawing
<1>3. regs \in Seq(MyListeners) /\ ToSet(regs) \subseteq MyListeners
  BY ElementFacts DEF MyTypes
<1>4. PICK listeners : listeners = Selected(regs, OfPlace(p))
  OBVIOUS
<1>5. /\ listeners \in Seq(MyListeners)
      /\ ToSet(listeners) = ToSet(regs) \cap {l \in PlaceListeners : l.place = p}
  BY <1>3, <1>4, SelectedSet, ListenerSorts
<1>6. PICK new : new = EventsFor(listeners, p)
  OBVIOUS
<1>7. mainq' = mainq \o new
  BY <1>4, <1>6 DEF HearPlace
<1>8. \A l \in ToSet(listeners) : Event(l, p) \in PlaceEvents /\ Event(l, p).listener = l
  <2>1. \A l \in ToSet(listeners) : l \in PlaceListeners /\ l.place = p
    BY <1>5
  <2> QED BY <2>1 DEF Event, PlaceEvents
<1>9. new \in Seq(Tasks) /\ ToSet(new) = {Event(l, p) : l \in ToSet(listeners)}
  <2>1. \A l \in ToSet(listeners) : Event(l, p) \in Tasks
    BY <1>8, TaskSorts
  <2> QED BY <1>5, <1>6, <2>1, TasksFor
<1>10. ToSet(new) \cap (ProductEvents \cup StorageEvents \cup RouteEvents \cup Blocks) = {}
  BY <1>8, <1>9, TaskSorts
<1>11. /\ mainq' \in Seq(Tasks) /\ ToSet(mainq') = ToSet(mainq) \cup ToSet(new)
       /\ \A X : ToSet(new) \cap X = {} => SameIn(mainq, mainq', X)
  BY <1>7, <1>9, NewTasks
<1>12. /\ regs' \in Seq(MyListeners) /\ ToSet(regs') = ToSet(regs) \ OfPlace(p)
       /\ SameIn(regs, regs', StorageListeners)
       /\ \A l \in ToSet(regs) : l \notin PlaceListeners => l \in ToSet(regs')
  <2>1. regs' = Selected(regs, ToSet(regs) \ OfPlace(p))
    BY DEF HearPlace
  <2>2. regs' \in Seq(MyListeners) /\ ToSet(regs') = ToSet(regs) \ OfPlace(p)
    BY <1>3, <2>1, SelectedSet
  <2>3. ToSet(regs) \cap StorageListeners \subseteq ToSet(regs) \ OfPlace(p)
    BY ListenerSorts
  <2>4. SameIn(regs, regs', StorageListeners)
    BY <1>3, <2>1, <2>3, SelectedSameIn
  <2>5. \A l \in ToSet(regs) : l \notin PlaceListeners => l \in ToSet(regs')
    BY <2>2, ListenerSorts
  <2> QED BY <2>2, <2>4, <2>5
<1>13. MyTypes'
  BY <1>1, <1>2, <1>11, <1>12 DEF MyTypes
<1>14. StorageToldAll' /\ StorageIsLatest'
  <2>1. SameIn(mainq, mainq', ProductEvents) /\ SameIn(mainq, mainq', StorageEvents)
    BY <1>10, <1>11
  <2>2. ToSet(mainq') \cap RouteEvents # {} => known # Unheard
    BY <1>10, <1>11 DEF StorageToldAll
  <2>3. SameIn(observing, observing', StorageListeners)
    BY <1>1, SameInSelf
  <2>4. ProductListener \in ToSet(observing) \cup ToSet(regs) =>
          ProductListener \in ToSet(observing') \cup ToSet(regs')
    BY <1>1, <1>12, ListenerSorts
  <2> QED BY <1>1, <1>12, <2>1, <2>2, <2>3, <2>4, StorageKept
<1>15. Remembered \subseteq Remembered'
  <2>1. \A l \in ToSet(regs) : l \in ToSet(regs') \/ l \in ToSet(listeners)
    BY <1>3, <1>5, <1>12, ListenerSorts
  <2>2. \A l \in ToSet(listeners) : l \in Remembered'
    BY <1>8, <1>9, <1>11 DEF Remembered
  <2> QED BY <1>1, <1>11, <2>1, <2>2 DEF Remembered
<1>16. RouteListener \in ToSet(regs) <=> RouteListener \in ToSet(regs')
  BY <1>12, ListenerSorts
<1>17. routeOpen' => RouteListener \in ToSet(observing') \cup ToSet(regs')
  BY <1>1, <1>16 DEF RouteIsLatest
<1> QED BY <1>1, <1>7, <1>9, <1>10, <1>13, <1>14, <1>15, <1>16, <1>17, ClientStep
--------------------------------------------------------------------------------
(* What the main thread does: the head of the queue goes, tasks are added.  *)
LEMMA TailTasks ==
  ASSUME MyTypes, mainq # <<>>, NEW new \in Seq(Tasks), NEW e, e = Head(mainq),
         mainq' = Tail(mainq) \o new
  PROVE  /\ e \in Tasks /\ Tail(mainq) \in Seq(Tasks) /\ ToSet(mainq) = {e} \cup ToSet(Tail(mainq))
         /\ mainq' \in Seq(Tasks) /\ ToSet(mainq') = ToSet(Tail(mainq)) \cup ToSet(new)
         /\ \A X : e \notin X /\ ToSet(new) \cap X = {} => SameIn(mainq, mainq', X)
<1>1. mainq \in Seq(Tasks)
  BY DEF MyTypes
<1>2. e \in Tasks /\ Tail(mainq) \in Seq(Tasks) /\ ToSet(mainq) = {e} \cup ToSet(Tail(mainq))
  BY <1>1, TailFacts
<1>3. PICK t \in Seq(Tasks) : t = Tail(mainq)
  BY <1>2
<1>4. t \o new \in Seq(Tasks) /\ ToSet(t \o new) = ToSet(t) \cup ToSet(new)
  BY ConcatFacts
<1>5. \A X : e \notin X /\ ToSet(new) \cap X = {} => SameIn(mainq, mainq', X)
  BY <1>1, Untouched
<1> QED BY <1>2, <1>3, <1>4, <1>5

LEMMA TailOnly ==
  ASSUME MyTypes, mainq # <<>>, NEW e, e = Head(mainq), mainq' = Tail(mainq)
  PROVE  /\ e \in Tasks /\ mainq' \in Seq(Tasks) /\ ToSet(mainq) = {e} \cup ToSet(mainq')
         /\ \A X : e \notin X => SameIn(mainq, mainq', X)
         /\ \A X, Y : LastIn(mainq, X, Y) =>
              LastIn(mainq', X, Y) /\ (e \in X /\ ToSet(mainq') \cap X = {} => e \in Y)
<1>1. mainq \in Seq(Tasks)
  BY DEF MyTypes
<1>2. PICK new : new = <<>>
  OBVIOUS
<1>3. new \in Seq(Tasks) /\ ToSet(new) = {}
  BY <1>2, EmptyQueue
<1>4. Tail(mainq) \in Seq(Tasks)
  BY <1>1, TailFacts
<1>5. mainq' = Tail(mainq) \o new
  BY <1>2, <1>4, ConcatEmptySeq
<1>6. /\ e \in Tasks /\ mainq' \in Seq(Tasks) /\ ToSet(mainq) = {e} \cup ToSet(mainq')
      /\ \A X : e \notin X => SameIn(mainq, mainq', X)
  BY <1>3, <1>4, <1>5, TailTasks
<1>7. \A X, Y : LastIn(mainq, X, Y) =>
        LastIn(mainq', X, Y) /\ (e \in X /\ ToSet(mainq') \cap X = {} => e \in Y)
  BY <1>1, LastInTail
<1> QED BY <1>6, <1>7

(* Values for the Storage tab leave the Route tab as it is.                 *)
LEMMA StorageTabStep ==
  ASSUME MyInv, MyTypes',
         UNCHANGED <<holder, lost, running, known, regs, map>>,
         mainq # <<>>, mainq' = Tail(mainq), NEW e \in ProductEvents \cup StorageEvents, e = Head(mainq),
         ToSet(observing) \subseteq ToSet(observing')
  PROVE  /\ lost' \/ (RouteGrows' /\ NothingOfOthers' /\ running')
         /\ RouteIsLatest' /\ PlacesAwaited' /\ RouteAwaited' /\ RouteDrawn'
<1> USE DEF MyInv
<1>1. /\ UNCHANGED <<routeOpen, arrayLocation, hasPosition, pins>>
      /\ UNCHANGED <<route, leg, asking, overlays, refused, stale>>
  BY DEF map, drawing
<1>2. e \notin RouteEvents \cup PlaceEvents \cup Blocks
  BY TaskSorts
<1>3. /\ SameIn(mainq, mainq', RouteEvents) /\ SameIn(mainq, mainq', PlaceEvents)
      /\ SameIn(mainq, mainq', Blocks) /\ ToSet(mainq') \subseteq ToSet(mainq)
  BY <1>2, TailOnly
<1>4. RouteIsLatest'
  <2>1. routeOpen' => RouteListener \in ToSet(observing') \cup ToSet(regs')
    BY <1>1 DEF RouteIsLatest
  <2> QED BY <1>1, <1>3, <2>1, LatestKept
<1>5. PlacesAwaited'
  <2>1. Remembered \subseteq Remembered'
    BY <1>3 DEF Remembered, SameIn
  <2>2. ToSet(mainq) \cap Blocks \subseteq ToSet(mainq')
    BY <1>3 DEF SameIn
  <2> QED BY <1>1, <2>1, <2>2, PlacesKept
<1>6. RouteAwaited' /\ RouteDrawn'
  BY <1>1, <1>3 DEF RouteAwaited, RouteDrawn, SameIn, HasLeg
<1>7. ASSUME ~lost PROVE RouteGrows' /\ NothingOfOthers' /\ running'
  <2>1. Ordered(mainq', More)
    BY <1>7, OrderedTail DEF MyTypes, RouteGrows
  <2>2. RouteGrows'
    BY <1>1, <1>3, <1>7, <2>1, GrowsKept DEF MyTypes
  <2>3. NothingOfOthers'
    BY <1>1, <1>7 DEF NothingOfOthers
  <2> QED BY <1>7, <2>2, <2>3
<1> QED BY <1>4, <1>5, <1>6, <1>7

(* A value of "Product" leaves one more listener behind.                    *)
LEMMA ProductsValueStep ==
  ASSUME MyInv, ProductsValue, UNCHANGED map
  PROVE  MyInv'
<1> USE DEF MyInv
<1>1. PICK e : e = Head(mainq)
  OBVIOUS
<1>2. PICK l : l = [on |-> "Storage", products |-> e.value]
  OBVIOUS
<1>3. /\ mainq # <<>> /\ mainq' = Tail(mainq) /\ "listener" \in DOMAIN e /\ e.listener.on = "Product"
      /\ observing' = Append(observing, l)
      /\ UNCHANGED <<holder, lost, running, heard, known, regs, storageOpen, storageProducts>>
  BY <1>1, <1>2 DEF ProductsValue, Comes, database, storage
<1>4. /\ UNCHANGED <<routeOpen, arrayLocation, hasPosition, pins>>
      /\ UNCHANGED <<route, leg, asking, overlays, refused, stale>>
  BY DEF map, drawing
<1>5. e \in ProductEvents
  BY <1>1, <1>3, TailOnly, TaskOn
<1>6. e.value \in SUBSET Orders /\ l \in StorageListeners /\ l.products = e.value
  BY <1>2, <1>5 DEF ProductEvents, StorageListeners
<1>7. /\ observing \in Seq(MyListeners) /\ observing' \in Seq(MyListeners)
      /\ ToSet(observing') = ToSet(observing) \cup {l}
  BY <1>3, <1>6, ListenerSorts, AppendElements DEF MyTypes
<1>8. /\ mainq' \in Seq(Tasks) /\ ToSet(mainq) = {e} \cup ToSet(mainq')
      /\ \A X : e \notin X => SameIn(mainq, mainq', X)
      /\ \A X, Y : LastIn(mainq, X, Y) =>
           LastIn(mainq', X, Y) /\ (e \in X /\ ToSet(mainq') \cap X = {} => e \in Y)
  BY <1>1, <1>3, TailOnly
<1>9. MyTypes'
  BY <1>3, <1>4, <1>7, <1>8 DEF MyTypes
<1>10. UNCHANGED <<LatestProducts, LatestListeners, LatestStorage>>
  BY <1>3 DEF LatestProducts, LatestListeners, LatestStorage
<1>11. StorageToldAll'
  <2>1. LastIn(mainq', ProductEvents, LatestProducts)
    BY <1>8 DEF StorageToldAll
  <2> QED BY <1>3, <1>7, <1>8, <1>10, <2>1 DEF StorageToldAll
<1>12. StorageIsLatest'
  <2>1. SUFFICES ASSUME heard # Unheard, ToSet(mainq') \cap ProductEvents = {}
                 PROVE  LastIn(observing', StorageListeners, LatestListeners)
    BY <1>3, <1>6, <1>7, <1>10 DEF StorageIsLatest
  <2>2. e \in LatestProducts
    BY <1>5, <1>8, <2>1 DEF StorageToldAll
  <2>3. l \in LatestListeners
    BY <1>6, <2>2 DEF LatestProducts, LatestListeners
  <2>4. PICK new : new = <<l>>
    OBVIOUS
  <2>5. new \in Seq(MyListeners) /\ ToSet(new) = {l} /\ observing' = observing \o new
    <3>1. l \in MyListeners
      BY <1>6, ListenerSorts
    <3> QED BY <1>3, <1>7, <2>4, <3>1, Singleton, AppendIsConcat
  <2>6. LastIn(new, StorageListeners, LatestListeners)
    BY <2>3, <2>5, LastInAll
  <2> QED BY <1>6, <1>7, <2>5, <2>6, LastInConcat
<1> QED BY <1>1, <1>3, <1>5, <1>7, <1>9, <1>11, <1>12, StorageTabStep

(* A value of "DetailProduct" for one of those.                             *)
LEMMA DetailsValueStep ==
  ASSUME MyInv, DetailsValue, UNCHANGED map
  PROVE  MyInv'
<1> USE DEF MyInv
<1>1. PICK e : e = Head(mainq)
  OBVIOUS
<1>2. /\ mainq # <<>> /\ mainq' = Tail(mainq) /\ "listener" \in DOMAIN e /\ e.listener.on = "Storage"
      /\ storageProducts' = e.listener.products \cap Mine(e.value)
      /\ UNCHANGED <<holder, lost, running, heard, known, observing, regs, storageOpen>>
  BY <1>1 DEF DetailsValue, Comes, Merged, database
<1>3. /\ UNCHANGED <<routeOpen, arrayLocation, hasPosition, pins>>
      /\ UNCHANGED <<route, leg, asking, overlays, refused, stale>>
  BY DEF map, drawing
<1>4. e \in StorageEvents
  BY <1>1, <1>2, TailOnly, TaskOn
<1>5. /\ mainq' \in Seq(Tasks) /\ ToSet(mainq) = {e} \cup ToSet(mainq')
      /\ \A X : e \notin X => SameIn(mainq, mainq', X)
      /\ \A X, Y : LastIn(mainq, X, Y) =>
           LastIn(mainq', X, Y) /\ (e \in X /\ ToSet(mainq') \cap X = {} => e \in Y)
  BY <1>1, <1>2, TailOnly
<1>6. MyTypes'
  BY <1>2, <1>3, <1>5 DEF MyTypes
<1>7. UNCHANGED <<LatestProducts, LatestListeners, LatestStorage>>
  BY <1>2 DEF LatestProducts, LatestListeners, LatestStorage
<1>8. SameIn(mainq, mainq', ProductEvents)
  BY <1>4, <1>5, TaskSorts
<1>9. StorageToldAll'
  BY <1>2, <1>5, <1>7, <1>8 DEF StorageToldAll, SameIn
<1>10. StorageIsLatest'
  <2>1. SUFFICES ASSUME heard # Unheard, ToSet(mainq) \cap ProductEvents = {},
                        ToSet(observing) \cap StorageListeners = {}
                 PROVE  /\ LastIn(mainq', StorageEvents, LatestStorage)
                        /\ known # Unheard /\ ToSet(mainq') \cap StorageEvents = {} =>
                             storageProducts' = heard \cap Mine(known)
    BY <1>2, <1>7, <1>8 DEF StorageIsLatest, SameIn
  <2>2. LastIn(mainq, StorageEvents, LatestStorage)
    BY <2>1 DEF StorageIsLatest
  <2>3. LastIn(mainq', StorageEvents, LatestStorage)
    BY <1>5, <2>2
  <2>4. ToSet(mainq') \cap StorageEvents = {} => e \in LatestStorage
    BY <1>4, <1>5, <2>2
  <2> QED BY <1>2, <2>3, <2>4 DEF LatestStorage
<1> QED BY <1>1, <1>2, <1>4, <1>6, <1>9, <1>10, StorageTabStep

(* The shipper's orders in a list of all that are posted, and the listeners *)
(* on the coordinates of that list.                                         *)
LEMMA OwnOrders ==
  ASSUME NEW h \in Holding, NEW list \in SetToSeqs(Posted(h)), NEW own, own = Selected(list, Mine(h))
  PROVE  /\ list \in Seq(Orders) /\ own \in Seq(Orders)
         /\ ToSet(own) = Mine(h) /\ Len(own) = Cardinality(Mine(h))
         /\ Mine(h) \subseteq ToSet(list)
<1>1. Posted(h) \in SUBSET Orders /\ IsFiniteSet(Posted(h))
  <2>1. Posted(h) \in SUBSET Orders
    BY DEF Posted
  <2> QED BY <2>1, PhoneAssumption, FS_Subset
<1>2. /\ list \in [1..Cardinality(Posted(h)) -> Posted(h)]
      /\ \A i, j \in 1..Cardinality(Posted(h)) : list[i] = list[j] => i = j
  BY DEF SetToSeqs
<1>3. /\ list \in Seq(Posted(h)) /\ Len(list) = Cardinality(Posted(h)) /\ Len(list) \in Nat
      /\ ToSet(list) = Posted(h)
  BY <1>1, <1>2, Enumeration
<1>4. list \in Seq(Orders)
  <2>1. list \in [1..Len(list) -> Orders]
    BY <1>1, <1>2, <1>3
  <2> QED BY <1>3, <2>1, FunctionFacts
<1>5. own \in Seq(Orders) /\ ToSet(own) = ToSet(list) \cap Mine(h)
  BY <1>4, SelectedSet
<1>6. Mine(h) \subseteq Posted(h)
  BY Markers DEF Mine, Posted
<1>7. ToSet(own) = Mine(h)
  BY <1>3, <1>5, <1>6
<1>8. \A i, j \in 1..Len(own) : own[i] = own[j] => i = j
  BY <1>2, <1>3, <1>4, SelectedInjective
<1>9. Len(own) = Cardinality(ToSet(own))
  BY <1>5, <1>8, LengthOfSet
<1> QED BY <1>3, <1>4, <1>5, <1>6, <1>7, <1>9

LEMMA PlacesListened ==
  ASSUME NEW list \in Seq(Orders)
  PROVE  /\ PlacesOf(list) \in Seq(PlaceListeners)
         /\ \A o \in ToSet(list) : /\ [on |-> "start", place |-> StartOf[o]] \in ToSet(PlacesOf(list))
                                   /\ [on |-> "finish", place |-> FinishOf[o]] \in ToSet(PlacesOf(list))
<1> DEFINE n == Len(list)
           f == PlacesOf(list)
<1>1. n \in Nat /\ ToSet(list) = {list[k] : k \in 1..n} /\ \A k \in 1..n : list[k] \in Orders
  BY ElementFacts, ElementOfSeq
<1>2. 2 * n \in Nat
  BY <1>1
<1>3. \A k \in 1..n : /\ 2 * k \in 1..2 * n /\ 2 * k - 1 \in 1..2 * n
                      /\ (2 * k) % 2 = 0 /\ (2 * k) \div 2 = k
                      /\ (2 * k - 1) % 2 = 1 /\ ((2 * k - 1) + 1) \div 2 = k
  BY <1>1
<1>4. \A j \in 1..2 * n : /\ j % 2 = 1 => (j + 1) \div 2 \in 1..n
                          /\ j % 2 # 1 => j \div 2 \in 1..n
  BY <1>1
<1>5. \A j \in 1..2 * n : f[j] = IF j % 2 = 1 THEN [on |-> "start", place |-> StartOf[list[(j + 1) \div 2]]]
                                 ELSE [on |-> "finish", place |-> FinishOf[list[j \div 2]]]
  BY <1>2 DEF PlacesOf
<1>6. \A o \in Orders : /\ [on |-> "start", place |-> StartOf[o]] \in PlaceListeners
                        /\ [on |-> "finish", place |-> FinishOf[o]] \in PlaceListeners
  BY DEF PlaceListeners, Places
<1>7. \A j \in 1..2 * n : f[j] \in PlaceListeners
  BY <1>1, <1>4, <1>5, <1>6
<1>8. f \in [1..2 * n -> PlaceListeners]
  BY <1>7 DEF PlacesOf
<1>9. f \in Seq(PlaceListeners) /\ DOMAIN f = 1..2 * n
  BY <1>2, <1>8, FunctionFacts
<1>10. ASSUME NEW k \in 1..n
       PROVE  /\ f[2 * k - 1] = [on |-> "start", place |-> StartOf[list[k]]]
              /\ f[2 * k] = [on |-> "finish", place |-> FinishOf[list[k]]]
  <2>1. PICK i, j : i = 2 * k - 1 /\ j = 2 * k
    OBVIOUS
  <2>2. i \in 1..2 * n /\ i % 2 = 1 /\ (i + 1) \div 2 = k
    BY <1>3, <2>1
  <2>3. j \in 1..2 * n /\ j % 2 # 1 /\ j \div 2 = k
    BY <1>3, <2>1
  <2>4. f[i] = [on |-> "start", place |-> StartOf[list[k]]]
    BY ONLY <1>5, <2>2
  <2>5. f[j] = [on |-> "finish", place |-> FinishOf[list[k]]]
    BY ONLY <1>5, <2>3
  <2> QED BY <2>1, <2>4, <2>5
<1>11. \A j \in 1..2 * n : f[j] \in ToSet(f)
  BY <1>9 DEF ToSet
<1> HIDE DEF f
<1>12. \A o \in ToSet(list) : /\ [on |-> "start", place |-> StartOf[o]] \in ToSet(f)
                              /\ [on |-> "finish", place |-> FinishOf[o]] \in ToSet(f)
  BY <1>1, <1>3, <1>10, <1>11
<1> QED BY <1>9, <1>12 DEF f

(* A value of "DetailProduct" for the Route tab: arrayLocation is built     *)
(* anew, and its points are listened to.                                    *)
LEMMA RouteValueStep ==
  ASSUME MyInv, RouteValue, UNCHANGED storage
  PROVE  MyInv'
<1> USE DEF MyInv
<1>1. PICK e : e = Head(mainq)
  OBVIOUS
<1>2. PICK h : h = e.value
  OBVIOUS
<1>3. /\ mainq # <<>> /\ mainq' = Tail(mainq) /\ "listener" \in DOMAIN e /\ e.listener.on = "Route"
      /\ \E list \in SetToSeqs(Posted(h)) : /\ arrayLocation' = Unlocated(Selected(list, Mine(h)))
                                            /\ observing' = observing \o PlacesOf(list)
      /\ UNCHANGED <<holder, lost, running, heard, known, regs, storageOpen, storageProducts>>
      /\ UNCHANGED <<routeOpen, hasPosition, pins, drawing>>
  BY <1>1, <1>2 DEF RouteValue, Comes, database, storage
<1>4. UNCHANGED <<route, leg, asking, overlays, refused, stale>>
  BY <1>3 DEF drawing
<1>5. e \in RouteEvents
  BY <1>1, <1>3, TailOnly, TaskOn
<1>6. h \in Holding
  BY <1>2, <1>5 DEF RouteEvents
<1>7. PICK list \in SetToSeqs(Posted(h)) : /\ arrayLocation' = Unlocated(Selected(list, Mine(h)))
                                           /\ observing' = observing \o PlacesOf(list)
  BY <1>3
<1>8. PICK own : own = Selected(list, Mine(h))
  OBVIOUS
<1>9. PICK more : more = PlacesOf(list)
  OBVIOUS
<1>10. /\ list \in Seq(Orders) /\ own \in Seq(Orders)
       /\ ToSet(own) = Mine(h) /\ Len(own) = Cardinality(Mine(h)) /\ Len(own) \in Nat
       /\ Mine(h) \subseteq ToSet(list)
       /\ ToSet(own) = {own[k] : k \in 1..Len(own)} /\ DOMAIN own = 1..Len(own)
       /\ \A k \in 1..Len(own) : own[k] \in Orders
  BY <1>6, <1>8, OwnOrders, ElementFacts, ElementOfSeq
<1>11. /\ arrayLocation' = [k \in 1..Len(own) |-> [order |-> own[k], start |-> FALSE, finish |-> FALSE]]
  BY <1>7, <1>8, <1>10 DEF Unlocated
<1>12. /\ arrayLocation' \in Seq(Location) /\ Len(arrayLocation') = Len(own)
       /\ DOMAIN arrayLocation' = 1..Len(own)
       /\ \A k \in 1..Len(own) : /\ arrayLocation'[k].order = own[k]
                                 /\ ~arrayLocation'[k].start /\ ~arrayLocation'[k].finish
  <2>1. arrayLocation' \in [1..Len(own) -> Location]
    BY <1>10, <1>11 DEF Location
  <2>2. arrayLocation' \in Seq(Location) /\ Len(arrayLocation') = Len(own)
    BY <1>10, <2>1, FunctionFacts
  <2> QED BY <1>11, <2>2
<1>13. {arrayLocation'[k].order : k \in DOMAIN arrayLocation'} = Mine(h)
  BY <1>10, <1>12
<1>14. /\ observing \in Seq(MyListeners) /\ more \in Seq(MyListeners) /\ ToSet(more) \subseteq PlaceListeners
       /\ observing' = observing \o more /\ observing' \in Seq(MyListeners)
       /\ ToSet(observing') = ToSet(observing) \cup ToSet(more)
       /\ SameIn(observing, observing', StorageListeners)
       /\ \A o \in Mine(h) : /\ [on |-> "start", place |-> StartOf[o]] \in ToSet(more)
                             /\ [on |-> "finish", place |-> FinishOf[o]] \in ToSet(more)
  <2>1. more \in Seq(PlaceListeners) /\ \A o \in Mine(h) :
           /\ [on |-> "start", place |-> StartOf[o]] \in ToSet(more)
           /\ [on |-> "finish", place |-> FinishOf[o]] \in ToSet(more)
    BY <1>9, <1>10, PlacesListened
  <2>2. ToSet(more) \subseteq PlaceListeners /\ Len(more) \in Nat
    BY <2>1, ElementFacts
  <2>3. more \in Seq(MyListeners)
    BY <2>1 DEF MyListeners
  <2>4. ToSet(more) \cap StorageListeners = {}
    BY <2>2, ListenerSorts
  <2>5. observing \in Seq(MyListeners) /\ observing' = observing \o more
    BY <1>7, <1>9 DEF MyTypes
  <2> QED BY <2>1, <2>2, <2>3, <2>4, <2>5, ConcatFacts, Untouched
<1>15. /\ mainq' \in Seq(Tasks) /\ ToSet(mainq) = {e} \cup ToSet(mainq')
       /\ \A X : e \notin X => SameIn(mainq, mainq', X)
       /\ \A X, Y : LastIn(mainq, X, Y) =>
            LastIn(mainq', X, Y) /\ (e \in X /\ ToSet(mainq') \cap X = {} => e \in Y)
  BY <1>1, <1>3, TailOnly
<1>16. MyTypes'
  BY <1>3, <1>4, <1>12, <1>14, <1>15 DEF MyTypes
<1>17. known # Unheard
  BY <1>5, <1>15 DEF StorageToldAll
<1>18. StorageToldAll' /\ StorageIsLatest'
  <2>1. SameIn(mainq, mainq', ProductEvents) /\ SameIn(mainq, mainq', StorageEvents)
    BY <1>5, <1>15, TaskSorts
  <2>2. SameIn(regs, regs', StorageListeners)
    BY <1>3, SameInSelf
  <2> QED BY <1>3, <1>14, <1>17, <2>1, <2>2, StorageKept
<1>19. ASSUME ~lost PROVE RouteGrows' /\ NothingOfOthers' /\ running'
  <2>1. RouteGrows /\ NothingOfOthers /\ running
    BY <1>19
  <2>2. Ordered(mainq', More) /\ \A d \in ToSet(mainq') : <<e, d>> \in More
    BY <1>1, <1>3, <2>1, OrderedTail DEF MyTypes, RouteGrows
  <2>3. Mine(h) \subseteq Mine(known) /\ Mine(known) \subseteq Mine(holder)
    BY <1>2, <1>5, <1>15, <1>17, <2>1 DEF RouteGrows
  <2>4. \A d \in ToSet(mainq') \cap RouteEvents :
          Mine(d.value) \subseteq Mine(known) /\ Len(arrayLocation') <= Cardinality(Mine(d.value))
    <3>1. ASSUME NEW d \in ToSet(mainq') \cap RouteEvents
          PROVE  Mine(d.value) \subseteq Mine(known) /\ Len(arrayLocation') <= Cardinality(Mine(d.value))
      <4>1. Mine(h) \subseteq Mine(d.value)
        BY <1>2, <1>5, <2>2, <3>1 DEF More
      <4>2. Cardinality(Mine(h)) <= Cardinality(Mine(d.value))
        BY <4>1, MineFacts
      <4>3. Mine(d.value) \subseteq Mine(known)
        BY <1>15, <2>1, <3>1 DEF RouteGrows
      <4> QED BY <1>10, <1>12, <4>2, <4>3
    <3> QED BY <3>1
  <2>5. Len(arrayLocation') <= Cardinality(Mine(known))
    BY <1>10, <1>12, <2>3, MineFacts
  <2>6. \A b \in ToSet(mainq') \cap Blocks : b.index \in DOMAIN arrayLocation'
    <3>1. Len(arrayLocation) <= Cardinality(Mine(h))
      BY <1>2, <1>5, <1>15, <2>1 DEF RouteGrows
    <3>2. Len(arrayLocation) \in Nat /\ DOMAIN arrayLocation = 1..Len(arrayLocation)
      BY ElementFacts DEF MyTypes
    <3>3. 1..Len(arrayLocation) \subseteq 1..Len(own)
      <4>1. PICK m, n : m = Len(arrayLocation) /\ n = Len(own)
        OBVIOUS
      <4>2. m \in Nat /\ n \in Nat /\ m <= n
        BY <1>10, <3>1, <3>2, <4>1
      <4>3. 1..m \subseteq 1..n
        BY ONLY <4>2
      <4> QED BY <4>1, <4>3
    <3>4. DOMAIN arrayLocation \subseteq DOMAIN arrayLocation'
      BY <1>12, <3>2, <3>3
    <3> QED BY <1>15, <2>1, <3>4 DEF RouteGrows
  <2>7. More' = More
    BY DEF More
  <2>8. RouteGrows'
    BY <1>3, <1>17, <2>2, <2>3, <2>4, <2>5, <2>6, <2>7 DEF RouteGrows
  <2>9. NothingOfOthers'
    <3>1. \A k \in DOMAIN arrayLocation' : arrayLocation'[k].order \in Mine(holder)
      BY <1>13, <2>3
    <3> QED BY <1>3, <1>4, <2>1, <3>1 DEF NothingOfOthers
  <2> QED BY <1>3, <2>1, <2>8, <2>9
<1>20. RouteIsLatest'
  <2>1. LatestRoute' = LatestRoute
    BY <1>3 DEF LatestRoute
  <2>2. ToSet(mainq') \cap RouteEvents = {} => e \in LatestRoute
    BY <1>5, <1>15 DEF RouteIsLatest
  <2>3. ToSet(mainq') \cap RouteEvents = {} => h = known
    BY <1>2, <2>2 DEF LatestRoute
  <2>4. LastIn(mainq', RouteEvents, LatestRoute)
    BY <1>15 DEF RouteIsLatest
  <2> QED BY <1>3, <1>5, <1>13, <1>14, <1>15, <2>1, <2>3, <2>4 DEF RouteIsLatest
<1>21. PlacesAwaited'
  <2>1. SUFFICES ASSUME NEW k \in 1..Len(own), NEW kind \in {"start", "finish"}
                 PROVE  ~arrayLocation'[k][kind] /\ Awaited(arrayLocation[k], kind)'
    BY <1>12 DEF PlacesAwaited
  <2>2. ~arrayLocation'[k][kind]
    BY <1>12
  <2>3. arrayLocation'[k].order \in Mine(h)
    BY <1>10, <1>12
  <2>4. PICK o, p : o = arrayLocation'[k].order /\ p = PlaceOf(arrayLocation[k], kind)'
    OBVIOUS
  <2>5. p = IF kind = "start" THEN StartOf[o] ELSE FinishOf[o]
    BY <2>4 DEF PlaceOf
  <2>6. [on |-> kind, place |-> p] \in ToSet(more)
    BY <1>14, <2>3, <2>4, <2>5
  <2>7. [on |-> kind, place |-> p] \in Remembered'
    BY <1>14, <2>6 DEF Remembered
  <2> QED BY <2>2, <2>4, <2>7 DEF Awaited
<1>22. RouteAwaited'
  <2>1. arrayLocation' = <<>> \/ 1 \in DOMAIN arrayLocation'
    <3>1. Len(own) = 0 => arrayLocation' = <<>>
      BY <1>12, EmptySeq
    <3>2. Len(own) # 0 => 1 \in 1..Len(own)
      <4>1. PICK n : n = Len(own)
        OBVIOUS
      <4>2. n \in Nat
        BY <1>10, <4>1
      <4>3. n # 0 => 1 \in 1..n
        BY ONLY <4>2
      <4> QED BY <4>1, <4>3
    <3> QED BY <1>12, <3>1, <3>2
  <2> QED BY <1>12, <2>1 DEF RouteAwaited
<1>23. RouteDrawn'
  BY <1>4 DEF RouteDrawn, HasLeg
<1> QED BY <1>3, <1>16, <1>18, <1>19, <1>20, <1>21, <1>22, <1>23

LEMMA Indices ==
  ASSUME NEW n \in Nat, NEW fits \in SUBSET (1..n), NEW all \in [1..n -> 1..n],
         \A k \in 1..n : all[k] = k
  PROVE  /\ Len(Selected(all, fits)) \in Nat
         /\ DOMAIN Selected(all, fits) = 1..Len(Selected(all, fits))
         /\ fits = {Selected(all, fits)[j] : j \in 1..Len(Selected(all, fits))}
<1>1. all \in Seq(1..n) /\ DOMAIN all = 1..n
  BY FunctionFacts
<1>2. ToSet(all) = 1..n
  BY <1>1 DEF ToSet
<1>3. PICK S : S = 1..n
  OBVIOUS
<1>4. all \in Seq(S)
  BY <1>1, <1>3
<1>5. PICK at : at = Selected(all, fits)
  OBVIOUS
<1>6. at \in Seq(S) /\ ToSet(at) = ToSet(all) \cap fits
  BY ONLY <1>4, <1>5, SelectedSet
<1>7. Len(at) \in Nat /\ DOMAIN at = 1..Len(at) /\ ToSet(at) = {at[j] : j \in 1..Len(at)}
  BY ONLY <1>6, ElementFacts
<1>8. ToSet(at) = fits
  BY <1>2, <1>6
<1> QED BY <1>5, <1>7, <1>8

LEMMA Located ==
  ASSUME NEW l \in Location, NEW kind \in {"start", "finish"}, NEW m, m = [l EXCEPT ![kind] = TRUE]
  PROVE  /\ m \in Location /\ m.order = l.order /\ m[kind]
         /\ \A other \in {"start", "finish"} : other # kind => m[other] = l[other]
<1>1. CASE kind = "start"
  BY <1>1 DEF Location
<1>2. CASE kind = "finish"
  BY <1>2 DEF Location
<1> QED BY <1>1, <1>2

(* A coordinate: the locations that name it are located.                    *)
LEMMA PlaceValueStep ==
  ASSUME MyInv, NEW kind \in {"start", "finish"}, PlaceValue(kind), UNCHANGED storage
  PROVE  MyInv'
<1> USE DEF MyInv
<1>1. PICK e : e = Head(mainq)
  OBVIOUS
<1>2. PICK p, n : p = e.value /\ n = Len(arrayLocation)
  OBVIOUS
<1>3. n \in Nat /\ DOMAIN arrayLocation = 1..n /\ \A k \in 1..n : arrayLocation[k] \in Location
  BY <1>2, ElementFacts, ElementOfSeq DEF MyTypes
<1>4. PICK fits : fits = {k \in 1..n : PlaceOf(arrayLocation[k], kind) = p}
  OBVIOUS
<1>5. PICK at : at = Selected([k \in 1..n |-> k], fits)
  OBVIOUS
<1>6. PICK new : new = [j \in DOMAIN at |-> [kind |-> kind, index |-> at[j]]]
  OBVIOUS
<1>7. /\ mainq # <<>> /\ "listener" \in DOMAIN e /\ e.listener.on = kind
      /\ UNCHANGED <<holder, lost, running, heard, known, observing, regs, storageOpen, storageProducts>>
      /\ UNCHANGED <<routeOpen, hasPosition, pins, drawing>>
  BY <1>1 DEF PlaceValue, Comes, database, storage
<1>8. /\ arrayLocation' = [k \in 1..n |->
           IF k \in fits THEN [arrayLocation[k] EXCEPT ![kind] = TRUE] ELSE arrayLocation[k]]
      /\ mainq' = Tail(mainq) \o new
  BY <1>1, <1>2, <1>3, <1>4, <1>5, <1>6 DEF PlaceValue
<1>9. UNCHANGED <<route, leg, asking, overlays, refused, stale>>
  BY <1>7 DEF drawing
<1>10. /\ new \in Seq(Blocks) /\ ToSet(new) = {[kind |-> kind, index |-> k] : k \in fits}
       /\ ToSet(new) \subseteq Blocks /\ new \in Seq(Tasks)
  <2>1. new \in Seq(Blocks) /\ ToSet(new) = {[kind |-> kind, index |-> k] : k \in fits}
    <3>1. fits \in SUBSET (1..n)
      BY <1>4
    <3>2. PICK all : all = [k \in 1..n |-> k]
      OBVIOUS
    <3>3. all \in [1..n -> 1..n] /\ \A k \in 1..n : all[k] = k
      BY <3>2
    <3>4. at = Selected(all, fits)
      BY <1>5, <3>2
    <3>5. Len(at) \in Nat /\ DOMAIN at = 1..Len(at) /\ fits = {at[j] : j \in 1..Len(at)}
      BY ONLY <1>3, <3>1, <3>3, <3>4, Indices
    <3>6. PICK m : m = Len(at)
      OBVIOUS
    <3>7. /\ m \in Nat
          /\ \A j \in 1..m : at[j] \in fits
          /\ \A k \in fits : \E j \in 1..m : at[j] = k
      BY ONLY <3>5, <3>6
    <3>8. new = [j \in 1..m |-> [kind |-> kind, index |-> at[j]]]
      BY <1>6, <3>5, <3>6
    <3>9. n \in Nat /\ kind \in {"start", "finish"}
      BY <1>3
    <3>10. new \in [1..m -> Blocks] /\ \A j \in 1..m : new[j].kind = kind /\ new[j].index = at[j]
      <4>1. \A j \in 1..m : at[j] \in 1..n
        BY <3>1, <3>7
      <4>2. \A j \in 1..m : [kind |-> kind, index |-> at[j]] \in Blocks
        BY <3>9, <4>1 DEF Blocks
      <4> QED BY <3>8, <4>2
    <3>11. /\ new \in Seq(Blocks)
           /\ \A x \in ToSet(new) : \E k \in fits : x = [kind |-> kind, index |-> k]
           /\ \A k \in fits : [kind |-> kind, index |-> k] \in ToSet(new)
      <4>1. new \in Seq(Blocks) /\ DOMAIN new = 1..m
        BY <3>7, <3>10, FunctionFacts
      <4>2. ToSet(new) = {new[j] : j \in 1..m}
        BY <4>1 DEF ToSet
      <4>3. \A j \in 1..m : new[j] = [kind |-> kind, index |-> at[j]]
        BY <3>8
      <4>4. ASSUME NEW x \in ToSet(new) PROVE \E k \in fits : x = [kind |-> kind, index |-> k]
        <5>1. PICK j \in 1..m : x = new[j]
          BY <4>2
        <5>2. at[j] \in fits /\ x = [kind |-> kind, index |-> at[j]]
          BY <3>7, <4>3, <5>1
        <5> QED BY <5>2
      <4>5. ASSUME NEW k \in fits PROVE [kind |-> kind, index |-> k] \in ToSet(new)
        <5>1. PICK j \in 1..m : at[j] = k
          BY <3>7
        <5> QED BY <4>2, <4>3, <5>1
      <4> QED BY <4>1, <4>4, <4>5
    <3> QED BY ONLY <3>11
  <2>2. ToSet(new) \subseteq Blocks
    BY <2>1, ElementFacts
  <2>3. new \in Seq(Tasks)
    BY <2>1, TaskSorts
  <2> QED BY <2>1, <2>2, <2>3
<1>11. /\ e \in Tasks /\ Tail(mainq) \in Seq(Tasks) /\ ToSet(mainq) = {e} \cup ToSet(Tail(mainq))
       /\ mainq' \in Seq(Tasks) /\ ToSet(mainq') = ToSet(Tail(mainq)) \cup ToSet(new)
       /\ \A X : e \notin X /\ ToSet(new) \cap X = {} => SameIn(mainq, mainq', X)
  BY <1>1, <1>7, <1>8, <1>10, TailTasks
<1>12. /\ e \in PlaceEvents /\ p = e.listener.place /\ p \in Places
       /\ e \notin ProductEvents \cup StorageEvents \cup RouteEvents \cup Blocks
  <2>1. e \in PlaceEvents
    BY <1>7, <1>11, TaskOn
  <2> QED BY <1>2, <2>1, TaskSorts DEF PlaceEvents
<1>13. ToSet(new) \cap (ProductEvents \cup StorageEvents \cup RouteEvents \cup PlaceEvents) = {}
  BY <1>10, TaskSorts
<1>14. /\ SameIn(mainq, mainq', ProductEvents) /\ SameIn(mainq, mainq', StorageEvents)
       /\ SameIn(mainq, mainq', RouteEvents)
  BY <1>11, <1>12, <1>13
<1>15. \A k \in 1..n :
         /\ arrayLocation'[k] \in Location /\ arrayLocation'[k].order = arrayLocation[k].order
         /\ k \in fits => /\ arrayLocation'[k][kind]
                          /\ \A other \in {"start", "finish"} :
                               other # kind => arrayLocation'[k][other] = arrayLocation[k][other]
         /\ k \notin fits => arrayLocation'[k] = arrayLocation[k]
  <2>1. TAKE k \in 1..n
  <2>2. arrayLocation'[k] = IF k \in fits THEN [arrayLocation[k] EXCEPT ![kind] = TRUE] ELSE arrayLocation[k]
    BY <1>8
  <2>3. PICK l, m : l = arrayLocation[k] /\ m = arrayLocation'[k]
    OBVIOUS
  <2>4. l \in Location
    BY <1>3, <2>3
  <2>5. CASE k \in fits
    <3>1. m = [l EXCEPT ![kind] = TRUE]
      BY <2>2, <2>3, <2>5
    <3>2. /\ m \in Location /\ m.order = l.order /\ m[kind]
          /\ \A other \in {"start", "finish"} : other # kind => m[other] = l[other]
      BY <2>4, <3>1, Located
    <3> QED BY <2>3, <2>5, <3>2
  <2>6. CASE k \notin fits
    BY <2>2, <2>3, <2>4, <2>6
  <2> QED BY <2>5, <2>6
<1>16. arrayLocation' \in Seq(Location) /\ DOMAIN arrayLocation' = 1..n
  <2>1. arrayLocation' \in [1..n -> Location]
    BY <1>8, <1>15
  <2> QED BY <1>3, <2>1, FunctionFacts
<1>17. MyTypes'
  BY <1>7, <1>9, <1>11, <1>16 DEF MyTypes
<1>18. StorageToldAll' /\ StorageIsLatest'
  <2>1. ToSet(mainq') \cap RouteEvents # {} => known # Unheard
    BY <1>14 DEF StorageToldAll, SameIn
  <2> QED BY <1>7, <1>14, <2>1, SameInSelf, StorageKept
<1>19. ASSUME ~lost PROVE RouteGrows' /\ NothingOfOthers' /\ running'
  <2>1. RouteGrows /\ NothingOfOthers /\ running
    BY <1>19
  <2>2. Ordered(mainq', More)
    <3>1. Ordered(mainq, More) /\ ToSet(new) \cap RouteEvents = {}
      BY <1>13, <2>1 DEF RouteGrows
    <3> QED BY <1>7, <1>8, <1>10, <3>1, OrderedKept
  <2>3. \A b \in ToSet(mainq') \cap Blocks : b \in ToSet(mainq) \/ b.index \in DOMAIN arrayLocation
    BY <1>3, <1>4, <1>10, <1>11
  <2>4. ToSet(mainq') \cap RouteEvents \subseteq ToSet(mainq)
    BY <1>14 DEF SameIn
  <2>5. RouteGrows'
    BY <1>3, <1>7, <1>16, <2>1, <2>2, <2>3, <2>4, GrowsKept
  <2>6. NothingOfOthers'
    BY <1>3, <1>7, <1>9, <1>15, <1>16, <2>1 DEF NothingOfOthers
  <2> QED BY <1>7, <2>1, <2>5, <2>6
<1>20. RouteIsLatest'
  <2>1. LatestRoute' = LatestRoute
    BY <1>7 DEF LatestRoute
  <2>2. {arrayLocation'[k].order : k \in DOMAIN arrayLocation'} = {arrayLocation[k].order : k \in DOMAIN arrayLocation}
    BY <1>3, <1>15, <1>16
  <2> QED BY <1>7, <1>14, <2>1, <2>2 DEF RouteIsLatest, SameIn
<1>21. PlacesAwaited'
  <2>1. SUFFICES ASSUME NEW k \in 1..n, NEW kd \in {"start", "finish"}
                 PROVE  IF arrayLocation'[k][kd]
                        THEN \/ Pin(arrayLocation'[k].order, kd) \in pins'
                             \/ [kind |-> kd, index |-> k] \in ToSet(mainq')
                        ELSE Awaited(arrayLocation[k], kd)'
    BY <1>16 DEF PlacesAwaited
  <2>a. pins' = pins /\ arrayLocation'[k].order = arrayLocation[k].order
    BY <1>7, <1>15
  <2>2. IF arrayLocation[k][kd]
        THEN \/ Pin(arrayLocation[k].order, kd) \in pins
             \/ [kind |-> kd, index |-> k] \in ToSet(mainq)
        ELSE Awaited(arrayLocation[k], kd)
    BY <1>3 DEF PlacesAwaited
  <2>3. [kind |-> kd, index |-> k] \in ToSet(mainq) => [kind |-> kd, index |-> k] \in ToSet(mainq')
    <3>1. [kind |-> kd, index |-> k] \in Blocks
      BY <1>3 DEF Blocks
    <3> QED BY <1>11, <1>12, <3>1
  <2>4. CASE k \in fits /\ kd = kind
    <3>1. [kind |-> kd, index |-> k] \in ToSet(mainq')
      BY <1>10, <1>11, <2>4
    <3> QED BY <1>15, <2>4, <3>1
  <2>5. CASE ~(k \in fits /\ kd = kind)
    <3>1. arrayLocation'[k][kd] = arrayLocation[k][kd]
      BY <1>15, <2>5
    <3>2. CASE arrayLocation[k][kd]
      BY <2>2, <2>3, <2>a, <3>1, <3>2
    <3>3. CASE ~arrayLocation[k][kd]
      <4>1. PICK l : l = [on |-> kd, place |-> PlaceOf(arrayLocation[k], kd)]
        OBVIOUS
      <4>2. l \in Remembered
        BY <2>2, <3>3, <4>1 DEF Awaited
      <4>3. l # e.listener
        <5>1. l.on = kd /\ l.place = PlaceOf(arrayLocation[k], kd)
          BY <4>1
        <5>2. CASE kd # kind
          BY <1>7, <5>1, <5>2
        <5>3. CASE kd = kind
          BY <1>4, <1>12, <2>5, <5>1, <5>3
        <5> QED BY <5>2, <5>3
      <4>4. l \in Remembered'
        <5>1. \A d \in ToSet(mainq) : d = e \/ d \in ToSet(mainq')
          BY <1>11
        <5> QED BY <1>7, <4>2, <4>3, <5>1 DEF Remembered
      <4>5. Awaited(arrayLocation[k], kd)'
        <5>1. PlaceOf(arrayLocation[k], kd)' = PlaceOf(arrayLocation[k], kd)
          BY <1>15 DEF PlaceOf
        <5> QED BY <4>1, <4>4, <5>1 DEF Awaited
      <4> QED BY <3>1, <3>3, <4>5
    <3> QED BY <3>2, <3>3
  <2> QED BY <2>4, <2>5
<1>22. RouteAwaited'
  <2>1. ToSet(mainq) \cap Blocks \subseteq ToSet(mainq')
    BY <1>11, <1>12
  <2>2. CASE fits = {}
    <3>1. arrayLocation' = arrayLocation
      <4>1. arrayLocation = [k \in 1..n |-> arrayLocation[k]]
        BY <1>3, ElementOfSeq, LenProperties DEF MyTypes
      <4> QED BY <1>8, <2>2, <4>1
    <3> QED BY <1>7, <1>9, <2>1, <3>1 DEF RouteAwaited, StopsOf
  <2>3. CASE fits # {}
    <3>1. PICK k \in fits : TRUE
      BY <2>3
    <3>2. [kind |-> kind, index |-> k] \in ToSet(new)
      BY <1>10
    <3>3. ToSet(mainq') \cap Blocks # {}
      BY <1>10, <1>11, <3>2
    <3> QED BY <3>3 DEF RouteAwaited
  <2> QED BY <2>2, <2>3
<1>23. RouteDrawn'
  BY <1>9 DEF RouteDrawn, HasLeg
<1> QED BY <1>7, <1>17, <1>18, <1>19, <1>20, <1>21, <1>22, <1>23

(* A route is asked for: it goes through arrayLocation as it is.            *)
LEMMA ShowRouteFacts ==
  ASSUME MyTypes, ShowRoute(arrayLocation)
  PROVE  /\ route' = StopsOf(arrayLocation) /\ route' \in SUBSET Location
         /\ asking' \in Seq(SUBSET Location) /\ RouteDrawn'
<1>1. route' = StopsOf(arrayLocation) /\ UNCHANGED leg /\ overlays' = {}
      /\ asking' = IF HasLeg(route') THEN Append(asking, route') ELSE asking
  BY DEF ShowRoute
<1>2. route' \in SUBSET Location
  <2>1. arrayLocation \in Seq(Location)
    BY DEF MyTypes
  <2>2. ToSet(arrayLocation) \subseteq Location
    BY <2>1, ElementFacts
  <2> QED BY <1>1, <2>2 DEF StopsOf, ToSet
<1>3. asking \in Seq(SUBSET Location)
  BY DEF MyTypes
<1>4. /\ asking' \in Seq(SUBSET Location)
      /\ HasLeg(route') => route' \in ToSet(asking')
  BY <1>1, <1>2, <1>3, AppendElements
<1>5. HasLeg(route)' <=> HasLeg(route')
  BY <1>1 DEF HasLeg
<1>6. RouteDrawn'
  BY <1>1, <1>4, <1>5 DEF RouteDrawn
<1> QED BY <1>1, <1>2, <1>4, <1>6

(* A block finds its location.                                              *)
LEMMA BlockStep ==
  ASSUME MyInv, Block, UNCHANGED storage
  PROVE  MyInv'
<1> USE DEF MyInv
<1>1. PICK e : e = Head(mainq)
  OBVIOUS
<1>2. PICK j, kind : j = e.index /\ kind = e.kind
  OBVIOUS
<1>3. /\ mainq # <<>> /\ "index" \in DOMAIN e /\ j \in DOMAIN arrayLocation /\ mainq' = Tail(mainq)
      /\ pins' = pins \cup {IF arrayLocation[j][kind] THEN Pin(arrayLocation[j].order, kind) ELSE ZeroPin}
      /\ IF hasPosition THEN ShowRoute(arrayLocation) ELSE UNCHANGED drawing
      /\ UNCHANGED <<holder, lost, running, heard, known, observing, regs, storageOpen, storageProducts>>
      /\ UNCHANGED <<routeOpen, arrayLocation, hasPosition>>
  BY <1>1, <1>2 DEF Block, IsBlock, database, storage
<1>4. /\ e \in Tasks /\ mainq' \in Seq(Tasks) /\ ToSet(mainq) = {e} \cup ToSet(mainq')
      /\ \A X : e \notin X => SameIn(mainq, mainq', X)
  BY <1>1, <1>3, TailOnly
<1>5. /\ e \in Blocks /\ kind \in {"start", "finish"} /\ e = [kind |-> kind, index |-> j]
      /\ e \notin ProductEvents \cup StorageEvents \cup RouteEvents \cup PlaceEvents
  <2>1. e \in Blocks
    BY <1>3, <1>4, TaskOn
  <2> QED BY <1>2, <2>1, TaskSorts DEF Blocks
<1>6. /\ SameIn(mainq, mainq', ProductEvents) /\ SameIn(mainq, mainq', StorageEvents)
      /\ SameIn(mainq, mainq', RouteEvents) /\ SameIn(mainq, mainq', PlaceEvents)
  BY <1>4, <1>5
<1>7. /\ route' \in SUBSET Location /\ asking' \in Seq(SUBSET Location) /\ RouteDrawn'
      /\ hasPosition => route' = StopsOf(arrayLocation)
      /\ ~hasPosition => route' = route
  <2>1. CASE hasPosition
    BY <1>3, <2>1, ShowRouteFacts
  <2>2. CASE ~hasPosition
    <3>1. UNCHANGED <<route, leg, asking, overlays, refused, stale>>
      BY <1>3, <2>2 DEF drawing
    <3> QED BY <2>2, <3>1 DEF MyTypes, RouteDrawn, HasLeg
  <2> QED BY <2>1, <2>2
<1>8. MyTypes'
  BY <1>3, <1>4, <1>7 DEF MyTypes
<1>9. StorageToldAll' /\ StorageIsLatest'
  <2>1. ToSet(mainq') \cap RouteEvents # {} => known # Unheard
    BY <1>4 DEF StorageToldAll
  <2> QED BY <1>3, <1>6, <2>1, SameInSelf, StorageKept
<1>10. ASSUME ~lost PROVE RouteGrows' /\ NothingOfOthers' /\ running'
  <2>1. RouteGrows /\ NothingOfOthers /\ running
    BY <1>10
  <2>2. Ordered(mainq', More)
    BY <1>3, <2>1, OrderedTail DEF MyTypes, RouteGrows
  <2>3. RouteGrows'
    BY <1>3, <1>4, <2>1, <2>2, GrowsKept DEF MyTypes
  <2>4. \A k \in DOMAIN arrayLocation : arrayLocation[k].order \in Mine(holder)
    BY <2>1 DEF NothingOfOthers
  <2>5. \A r \in route' : r.order \in Mine(holder)
    BY <1>7, <2>1, <2>4 DEF NothingOfOthers, StopsOf
  <2>6. pins' \subseteq {ZeroPin} \cup {Pin(o, kd) : o \in Mine(holder), kd \in {"start", "finish"}}
    BY <1>3, <1>5, <2>1, <2>4 DEF NothingOfOthers
  <2>7. NothingOfOthers'
    BY <1>3, <2>4, <2>5, <2>6 DEF NothingOfOthers
  <2> QED BY <1>3, <2>1, <2>3, <2>7
<1>11. RouteIsLatest'
  BY <1>3, <1>6, LatestKept DEF RouteIsLatest
<1>12. PlacesAwaited'
  <2>1. Remembered \subseteq Remembered'
    BY <1>3, <1>6 DEF Remembered, SameIn
  <2>2. SUFFICES ASSUME NEW k \in DOMAIN arrayLocation, NEW kd \in {"start", "finish"}
                 PROVE  IF arrayLocation[k][kd]
                        THEN \/ Pin(arrayLocation[k].order, kd) \in pins'
                             \/ [kind |-> kd, index |-> k] \in ToSet(mainq')
                        ELSE Awaited(arrayLocation[k], kd)'
    BY <1>3 DEF PlacesAwaited
  <2>3. CASE arrayLocation[k][kd]
    <3>1. Pin(arrayLocation[k].order, kd) \in pins \/ [kind |-> kd, index |-> k] \in ToSet(mainq)
      BY <2>3 DEF PlacesAwaited
    <3>2. CASE k = j /\ kd = kind
      BY <1>3, <2>3, <3>2
    <3>3. CASE ~(k = j /\ kd = kind)
      <4>1. [kind |-> kd, index |-> k] # e
        BY <1>5, <3>3
      <4> QED BY <1>3, <1>4, <2>3, <3>1, <4>1
    <3> QED BY <3>2, <3>3
  <2>4. CASE ~arrayLocation[k][kd]
    <3>1. Awaited(arrayLocation[k], kd)
      BY <2>4 DEF PlacesAwaited
    <3>2. Awaited(arrayLocation[k], kd)'
      BY <1>3, <2>1, <3>1 DEF Awaited, PlaceOf
    <3> QED BY <2>4, <3>2
  <2> QED BY <2>3, <2>4
<1>13. RouteAwaited'
  BY <1>3, <1>7 DEF RouteAwaited, StopsOf
<1> QED BY <1>3, <1>7, <1>8, <1>9, <1>10, <1>11, <1>12, <1>13

(* It does not: this shipper has lost an order.                             *)
LEMMA BlockOutOfRangeStep ==
  ASSUME MyInv, BlockOutOfRange, UNCHANGED storage
  PROVE  MyInv'
<1> USE DEF MyInv
<1>1. PICK e : e = Head(mainq)
  OBVIOUS
<1>2. /\ mainq # <<>> /\ "index" \in DOMAIN e /\ e.index \notin DOMAIN arrayLocation /\ running' = FALSE
      /\ UNCHANGED <<holder, lost, heard, known, observing, regs, mainq, storageOpen, storageProducts>>
      /\ UNCHANGED <<routeOpen, arrayLocation, hasPosition, pins, drawing>>
  BY <1>1 DEF BlockOutOfRange, IsBlock, database, storage, map
<1>3. UNCHANGED <<route, leg, asking, overlays, refused, stale>>
  BY <1>2 DEF drawing
<1>4. lost
  <2>1. e \in ToSet(mainq) /\ e \in Tasks
    BY <1>1, <1>2, TailFacts DEF MyTypes
  <2>2. e \in ToSet(mainq) \cap Blocks
    BY <1>2, <2>1, TaskOn
  <2> QED BY <1>2, <2>2 DEF RouteGrows
<1>5. MyTypes'
  BY <1>2, <1>3 DEF MyTypes
<1>6. StorageToldAll' /\ StorageIsLatest' /\ RouteIsLatest' /\ PlacesAwaited' /\ RouteAwaited' /\ RouteDrawn'
  BY <1>2, <1>3 DEF StorageToldAll, LatestProducts, StorageIsLatest, LatestListeners, LatestStorage,
     RouteIsLatest, LatestRoute, PlacesAwaited, Awaited, Remembered, RouteAwaited, RouteDrawn, HasLeg
<1> QED BY <1>2, <1>4, <1>5, <1>6

(* The position is told, the button clicked, directions are answered: only  *)
(* the route and its lines change.                                          *)
LEMMA DrawingStep ==
  ASSUME MyInv, UNCHANGED <<database, client, storage, routeOpen, arrayLocation, pins>>,
         \/ UNCHANGED <<hasPosition, route>> /\ asking' \in Seq(SUBSET Location) /\ RouteDrawn'
         \/ hasPosition' /\ ShowRoute(arrayLocation)
  PROVE  MyInv'
<1> USE DEF MyInv
<1>1. /\ UNCHANGED <<holder, lost, running, heard, known, observing, regs, mainq>>
      /\ UNCHANGED <<storageOpen, storageProducts, routeOpen, arrayLocation, pins>>
  BY DEF database, client, storage
<1>2. route' \in SUBSET Location /\ asking' \in Seq(SUBSET Location) /\ RouteDrawn'
      /\ (route' = StopsOf(arrayLocation) \/ UNCHANGED <<hasPosition, route>>)
  BY ShowRouteFacts DEF MyTypes
<1>3. MyTypes'
  BY <1>1, <1>2 DEF MyTypes
<1>4. StorageToldAll' /\ StorageIsLatest' /\ RouteIsLatest' /\ PlacesAwaited'
  <2>1. StorageToldAll'
    BY <1>1 DEF StorageToldAll, LatestProducts
  <2>2. StorageIsLatest'
    BY <1>1 DEF StorageIsLatest, LatestListeners, LatestStorage
  <2>3. RouteIsLatest'
    BY <1>1 DEF RouteIsLatest, LatestRoute
  <2>4. PlacesAwaited'
    BY <1>1 DEF PlacesAwaited, Awaited, Remembered
  <2> QED BY <2>1, <2>2, <2>3, <2>4
<1>5. RouteAwaited'
  BY <1>1, <1>2 DEF RouteAwaited, StopsOf
<1>6. ASSUME ~lost PROVE RouteGrows' /\ NothingOfOthers' /\ running'
  <2>1. RouteGrows'
    BY <1>1, <1>6 DEF RouteGrows, More
  <2>2. NothingOfOthers'
    BY <1>1, <1>2, <1>6 DEF NothingOfOthers, StopsOf
  <2> QED BY <1>1, <1>6, <2>1, <2>2
<1> QED BY <1>1, <1>2, <1>3, <1>4, <1>5, <1>6

LEMMA AnswerStep ==
  ASSUME MyInv, NEW k \in DOMAIN asking, DirectionsFound(k) \/ DirectionsRefused(k), UNCHANGED storage
  PROVE  MyInv'
<1> USE DEF MyInv
<1>1. PICK r, d : r = asking[k] /\ d = asking'
  OBVIOUS
<1>2. /\ UNCHANGED <<database, client, storage, routeOpen, arrayLocation, hasPosition, pins, route, leg>>
      /\ d = RemoveAt(asking, k)
      /\ \/ overlays' = overlays \cup {r} /\ stale' = (stale \/ r # route) /\ UNCHANGED refused
         \/ refused' = refused \cup {r} /\ UNCHANGED <<overlays, stale>>
  BY <1>1 DEF DirectionsFound, DirectionsRefused
<1>3. asking \in Seq(SUBSET Location)
  BY DEF MyTypes
<1>4. d \in Seq(SUBSET Location) /\ ToSet(asking) \subseteq ToSet(d) \cup {r}
  <2>1. /\ d \in Seq(SUBSET Location) /\ Len(asking) \in Nat /\ DOMAIN asking = 1..Len(asking)
        /\ DOMAIN d = 1..Len(asking) - 1
        /\ \A j \in 1..Len(asking) - 1 : d[j] = IF j < k THEN asking[j] ELSE asking[j + 1]
    BY <1>2, <1>3, RemoveAtFacts
  <2>2. PICK n : n = Len(asking)
    OBVIOUS
  <2>3. ASSUME NEW j \in 1..n PROVE asking[j] = r \/ asking[j] \in ToSet(d)
    <3>1. CASE j = k
      BY <1>1, <3>1
    <3>2. CASE j < k
      <4>1. j \in 1..n - 1 /\ d[j] = asking[j]
        BY <2>1, <2>2, <3>2
      <4> QED BY <2>1, <2>2, <4>1 DEF ToSet
    <3>3. CASE j > k
      <4>1. PICK i : i = j - 1
        OBVIOUS
      <4>2. i \in 1..n - 1 /\ ~(i < k) /\ i + 1 = j
        BY <2>1, <2>2, <3>3, <4>1
      <4>3. d[i] = asking[j]
        BY <2>1, <2>2, <4>2
      <4> QED BY <2>1, <2>2, <4>2, <4>3 DEF ToSet
    <3>4. j \in Nat /\ k \in Nat
      BY <2>1, <2>2
    <3> QED BY <3>1, <3>2, <3>3, <3>4
  <2> QED BY <2>1, <2>2, <2>3 DEF ToSet
<1>5. RouteDrawn'
  <2>1. HasLeg(route)' <=> HasLeg(route)
    BY <1>2 DEF HasLeg
  <2>2. HasLeg(route) => route \in overlays' \cup refused' \cup ToSet(d)
    BY <1>2, <1>4 DEF RouteDrawn
  <2>3. overlays' \ {route} # {} => stale'
    BY <1>2 DEF RouteDrawn
  <2> QED BY <1>1, <1>2, <2>1, <2>2, <2>3 DEF RouteDrawn
<1> QED BY <1>1, <1>2, <1>4, <1>5, DrawingStep
--------------------------------------------------------------------------------
LEMMA MyStutter == MyInv /\ UNCHANGED vars => MyInv'
<1> SUFFICES ASSUME MyInv, UNCHANGED vars PROVE MyInv'
  OBVIOUS
<1>1. UNCHANGED <<database, client, storage, routeOpen, arrayLocation, pins, hasPosition>>
  BY DEF vars, map
<1>2. UNCHANGED <<route, leg, asking, overlays, refused, stale>>
  BY DEF vars, map, drawing
<1>3. asking' \in Seq(SUBSET Location) /\ RouteDrawn'
  BY <1>2 DEF MyInv, MyTypes, RouteDrawn, HasLeg
<1> QED BY <1>1, <1>2, <1>3, DrawingStep

LEMMA MyStep == MyInv /\ [Next]_vars => MyInv'
<1> SUFFICES ASSUME MyInv, [Next]_vars PROVE MyInv'
  OBVIOUS
<1>1. CASE ClientNext /\ UNCHANGED <<storage, map>>
  <2>1. CASE \E o \in Orders : Reassign(o)
    BY <1>1, <2>1, ReassignStep
  <2>2. CASE Observe
    BY <1>1, <2>2, ObserveStep
  <2>3. CASE HearProducts
    BY <1>1, <2>3, HearProductsStep
  <2>4. CASE HearDetails
    BY <1>1, <2>4, HearDetailsStep
  <2>5. CASE \E p \in Places : HearPlace(p)
    BY <1>1, <2>5, HearPlaceStep
  <2> QED BY <1>1, <2>1, <2>2, <2>3, <2>4, <2>5 DEF ClientNext
<1>2. CASE StorageNext /\ UNCHANGED map
  <2>1. CASE OpenStorage
    BY <1>2, <2>1, OpenStep
  <2>2. CASE ProductsValue
    BY <1>2, <2>2, ProductsValueStep
  <2>3. CASE DetailsValue
    BY <1>2, <2>3, DetailsValueStep
  <2> QED BY <1>2, <2>1, <2>2, <2>3 DEF StorageNext
<1>3. CASE RouteNext /\ UNCHANGED storage
  <2>1. CASE OpenRoute
    BY <1>3, <2>1, OpenStep
  <2>2. CASE DidUpdateLocations
    <3>1. hasPosition' /\ ShowRoute(arrayLocation)
      BY <2>2 DEF DidUpdateLocations
    <3> QED BY <1>3, <2>2, <3>1, DrawingStep DEF DidUpdateLocations
  <2>3. CASE ClickCenterAuto
    <3>1. UNCHANGED <<hasPosition, route, leg, asking, overlays, refused, stale>>
      BY <2>3 DEF ClickCenterAuto, drawing
    <3>2. asking' \in Seq(SUBSET Location) /\ RouteDrawn'
      BY <3>1 DEF MyInv, MyTypes, RouteDrawn, HasLeg
    <3> QED BY <1>3, <2>3, <3>1, <3>2, DrawingStep DEF ClickCenterAuto
  <2>4. CASE RouteValue
    BY <1>3, <2>4, RouteValueStep
  <2>5. CASE PlaceValue("start") \/ PlaceValue("finish")
    BY <1>3, <2>5, PlaceValueStep
  <2>6. CASE Block
    BY <1>3, <2>6, BlockStep
  <2>7. CASE BlockOutOfRange
    BY <1>3, <2>7, BlockOutOfRangeStep
  <2>8. CASE \E k \in DOMAIN asking : DirectionsFound(k) \/ DirectionsRefused(k)
    BY <1>3, <2>8, AnswerStep
  <2> QED BY <1>3, <2>1, <2>2, <2>3, <2>4, <2>5, <2>6, <2>7, <2>8 DEF RouteNext
<1>4. CASE UNCHANGED vars
  BY <1>4, MyStutter
<1> QED BY <1>1, <1>2, <1>3, <1>4 DEF Next

LEMMA MyInductive == Spec => []MyInv
<1>1. Init => MyInv
  BY MyInitInv
<1>2. MyInv /\ [Next]_vars => MyInv'
  BY MyStep
<1> QED BY <1>1, <1>2, PTL DEF Spec
--------------------------------------------------------------------------------
(* At rest every place is known, so every location has both of its points   *)
(* and its pins.                                                            *)
LEMMA AtRest ==
  ASSUME MyInv, Quiet
  PROVE  /\ routeOpen => RouteListener \in ToSet(regs) /\ known = holder
                         /\ {arrayLocation[k].order : k \in DOMAIN arrayLocation} = Mine(holder)
         /\ \A k \in DOMAIN arrayLocation :
              /\ arrayLocation[k].start /\ arrayLocation[k].finish
              /\ Pin(arrayLocation[k].order, "start") \in pins
              /\ Pin(arrayLocation[k].order, "finish") \in pins
<1> USE DEF MyInv
<1>1. /\ ToSet(mainq) = {} /\ ToSet(observing) = {}
      /\ regs \in Seq(MyListeners) /\ ToSet(regs) \subseteq MyListeners
      /\ \A l \in ToSet(regs) : ~OnPlace(l)
  <2>1. regs \in Seq(MyListeners)
    BY DEF MyTypes
  <2>2. ToSet(regs) \subseteq MyListeners
    BY <2>1, ElementFacts
  <2> QED BY <2>1, <2>2, EmptyQueue DEF Quiet, ToSet
<1>2. ASSUME routeOpen
      PROVE  /\ RouteListener \in ToSet(regs) /\ known = holder
             /\ {arrayLocation[k].order : k \in DOMAIN arrayLocation} = Mine(holder)
  <2>1. RouteListener \in ToSet(regs)
    BY <1>1, <1>2 DEF RouteIsLatest
  <2>2. RouteListener \in OfDetails
    BY DEF OfDetails, RouteListener
  <2>3. known = holder
    BY <2>1, <2>2 DEF Quiet, Listened, ToSet
  <2>4. known # Unheard
    BY <2>3, Markers DEF MyTypes
  <2> QED BY <1>1, <2>1, <2>3, <2>4 DEF RouteIsLatest
<1>3. ASSUME NEW k \in DOMAIN arrayLocation, NEW kind \in {"start", "finish"}
      PROVE  arrayLocation[k][kind] /\ Pin(arrayLocation[k].order, kind) \in pins
  <2>1. ~Awaited(arrayLocation[k], kind)
    <3>1. PICK l : l = [on |-> kind, place |-> PlaceOf(arrayLocation[k], kind)]
      OBVIOUS
    <3>2. OnPlace(l)
      BY <3>1 DEF OnPlace
    <3>3. l \notin Remembered
      BY <1>1, <3>2 DEF Remembered
    <3> QED BY <3>1, <3>3 DEF Awaited
  <2> QED BY <1>1, <2>1 DEF PlacesAwaited
<1> QED BY <1>2, <1>3

(* StorageCatchesUp: the listener of the last value of "Product" is told    *)
(* last, so at rest the Storage tab shows this shipper's orders.            *)
THEOREM StorageIsComplete == Spec => []StorageCatchesUp
<1>1. ASSUME MyInv, Quiet, storageOpen PROVE storageProducts = Mine(holder)
  <2> USE DEF MyInv
  <2>1. ToSet(mainq) = {} /\ ToSet(observing) = {}
    BY <1>1, EmptyQueue DEF Quiet
  <2>2. ProductListener \in ToSet(regs)
    BY <1>1, <2>1 DEF StorageToldAll
  <2>3. heard = Posted(holder) /\ heard # Unheard
    <3>1. Listened(OfProducts)
      BY <2>2, ListenerSorts DEF Listened, ToSet
    <3> QED BY <1>1, <3>1, Markers DEF Quiet, Posted
  <2>4. ToSet(regs) \cap StorageListeners # {}
    BY <1>1, <2>1, <2>3 DEF StorageIsLatest
  <2>5. known = holder /\ known # Unheard
    <3>1. Listened(OfDetails)
      BY <2>4, ListenerSorts DEF Listened, ToSet
    <3> QED BY <1>1, <3>1, Markers DEF Quiet, MyTypes
  <2>6. storageProducts = heard \cap Mine(known)
    BY <1>1, <2>1, <2>3, <2>5 DEF StorageIsLatest
  <2>7. Mine(holder) \subseteq Posted(holder)
    BY Markers DEF Mine, Posted
  <2> QED BY <2>3, <2>5, <2>6, <2>7
<1>2. MyInv => StorageCatchesUp
  BY <1>1 DEF StorageCatchesUp
<1> QED BY <1>2, MyInductive, PTL

(* CrashOnlyAfterLoss: while this shipper loses nothing, arrayLocation only *)
(* grows, so every block that is queued finds its index.                    *)
THEOREM NoCrashWithoutLoss == Spec => []CrashOnlyAfterLoss
<1>1. MyInv => CrashOnlyAfterLoss
  BY DEF MyInv, CrashOnlyAfterLoss
<1> QED BY <1>1, MyInductive, PTL

(* PinsCover: every point is either known, with its pin or the block that   *)
(* sets it, or still listened to.                                           *)
THEOREM OwnOrdersHavePins == Spec => []PinsCover
<1>1. ASSUME MyInv, Quiet, routeOpen
      PROVE  LET own == {Pin(o, kind) : o \in Mine(holder), kind \in {"start", "finish"}}
             IN own \subseteq pins /\ (pins \subseteq own \cup {ZeroPin} \/ lost)
  <2>1. {arrayLocation[k].order : k \in DOMAIN arrayLocation} = Mine(holder)
    BY <1>1, AtRest
  <2>2. \A k \in DOMAIN arrayLocation, kind \in {"start", "finish"} : Pin(arrayLocation[k].order, kind) \in pins
    BY <1>1, AtRest
  <2>3. \A o \in Mine(holder), kind \in {"start", "finish"} : Pin(o, kind) \in pins
    BY <2>1, <2>2
  <2>4. lost \/ pins \subseteq {ZeroPin} \cup {Pin(o, kind) : o \in Mine(holder), kind \in {"start", "finish"}}
    BY <1>1 DEF MyInv, NothingOfOthers
  <2> QED BY <2>3, <2>4
<1>2. MyInv => PinsCover
  BY <1>1 DEF PinsCover
<1> QED BY <1>2, MyInductive, PTL

(* RouteIsCurrent: the last block of a list asks for the route when every   *)
(* point is known, and a position that comes later asks for it again.       *)
THEOREM RouteIsOfOwnOrders == Spec => []RouteIsCurrent
<1>1. ASSUME MyInv, Quiet, routeOpen, hasPosition
      PROVE  IF Mine(holder) # {} THEN route = [order : Mine(holder), start : {TRUE}, finish : {TRUE}]
             ELSE route = {} \/ lost
  <2>1. {arrayLocation[k].order : k \in DOMAIN arrayLocation} = Mine(holder)
    BY <1>1, AtRest
  <2>2. \A k \in DOMAIN arrayLocation : arrayLocation[k].start /\ arrayLocation[k].finish
    BY <1>1, AtRest
  <2>3. CASE Mine(holder) # {}
    <3>1. arrayLocation # <<>>
      BY <2>1, <2>3, EmptyQueue
    <3>2. ToSet(mainq) = {}
      BY <1>1, EmptyQueue DEF Quiet
    <3>3. route = StopsOf(arrayLocation)
      BY <1>1, <2>2, <3>1, <3>2 DEF MyInv, RouteAwaited
    <3>4. \A k \in DOMAIN arrayLocation :
            arrayLocation[k] = [order |-> arrayLocation[k].order, start |-> TRUE, finish |-> TRUE]
      <4>1. \A k \in DOMAIN arrayLocation : arrayLocation[k] \in Location
        BY <1>1, ElementFacts, ElementOfSeq DEF MyInv, MyTypes
      <4>2. \A l \in Location : l.start /\ l.finish => l = [order |-> l.order, start |-> TRUE, finish |-> TRUE]
        BY DEF Location
      <4> QED BY <2>2, <4>1, <4>2
    <3>5. ASSUME NEW r \in route PROVE r \in [order : Mine(holder), start : {TRUE}, finish : {TRUE}]
      <4>1. PICK k \in DOMAIN arrayLocation : r = arrayLocation[k]
        BY <3>3 DEF StopsOf
      <4>2. PICK o \in Mine(holder) : o = arrayLocation[k].order
        BY <2>1
      <4>3. r = [order |-> o, start |-> TRUE, finish |-> TRUE]
        BY <3>4, <4>1, <4>2
      <4> QED BY <4>3
    <3>6. ASSUME NEW r \in [order : Mine(holder), start : {TRUE}, finish : {TRUE}] PROVE r \in route
      <4>1. r = [order |-> r.order, start |-> TRUE, finish |-> TRUE] /\ r.order \in Mine(holder)
        OBVIOUS
      <4>2. PICK k \in DOMAIN arrayLocation : arrayLocation[k].order = r.order
        BY <2>1, <4>1
      <4>3. r = arrayLocation[k]
        BY <3>4, <4>1, <4>2
      <4> QED BY <3>3, <4>3 DEF StopsOf
    <3> QED BY <2>3, <3>5, <3>6
  <2>4. CASE Mine(holder) = {}
    BY <1>1, <2>4 DEF MyInv, NothingOfOthers
  <2> QED BY <2>3, <2>4
<1>2. MyInv => RouteIsCurrent
  BY <1>1 DEF RouteIsCurrent
<1> QED BY <1>2, MyInductive, PTL

(* RouteDrawn: every answer is of a route that was asked for, and takes one *)
(* request away.                                                            *)
THEOREM EveryLegAccountedFor == Spec => []RouteDrawn
<1>1. MyInv => RouteDrawn
  BY DEF MyInv
<1> QED BY <1>1, MyInductive, PTL
================================================================================
