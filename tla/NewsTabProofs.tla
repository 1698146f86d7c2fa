------------------------------ MODULE NewsTabProofs ------------------------------
(***************************************************************************)
(* Theorems about the News tab of the shipper app, for any orders and      *)
(* bounds: its list (NewsList), then any one card of the app (OrderCard).  *)
(***************************************************************************)
EXTENDS NewsTab, SelectionProofs

--------------------------------------------------------------------------------
(* What may be queued where.                                                *)
Statuses        == {"unposted", "posted", "taken", "released"}
DetailListeners == [type : {"detail"}, order : Orders, index : Nat \ {0}]
NewsListeners   == OfProducts \cup DetailListeners

PlainEvents   == [listener : {PlainListener}, value : SUBSET Orders]
FilterEvents  == [listener : {FilterListener}, value : SUBSET Orders]
ProductEvents == PlainEvents \cup FilterEvents
DetailEvents  == [listener : DetailListeners, value : Statuses]
NewsEvents    == ProductEvents \cup DetailEvents

NewsTypes ==
  /\ status \in [Orders -> Statuses] /\ known \in [Orders -> Statuses]
  /\ heard = Unheard \/ heard \in SUBSET Posted
  /\ observing \in Seq(NewsListeners) /\ regs \in Seq(NewsListeners)
  /\ mainq \in Seq(NewsEvents)
  /\ products \in Seq(Orders) /\ rows \in Seq(Orders)

(* The lists that wait are longer and longer, no shorter than the one the   *)
(* presenter has, and the last of them is all the client has heard of.      *)
Longer == {p \in NewsEvents \X NewsEvents :
             p[1] \in ProductEvents /\ p[2] \in ProductEvents => p[1].value \subseteq p[2].value}
Latest == {e \in ProductEvents : e.value = heard}

NewsGrows ==
  /\ Ordered(mainq, Longer)
  /\ \A e \in ToSet(mainq) \cap ProductEvents :
       heard # Unheard /\ e.value \subseteq heard /\ Len(products) <= Cardinality(e.value)
  /\ IF heard = Unheard THEN products = <<>> ELSE Len(products) <= Cardinality(heard)

(* The plain listener is the first of all.                                  *)
PlainFirst ==
  IF regs # <<>> THEN regs[1] = PlainListener
  ELSE /\ mainq = <<>> /\ heard = Unheard
       /\ IF observing # <<>> THEN observing[1] = PlainListener ELSE screen = "closed"

NothingReleased ==
  /\ \A o \in Orders : status[o] # "released" /\ known[o] # "released"
  /\ \A e \in ToSet(mainq) : e \in DetailEvents => e.value # "released"

(* The table and the list are what was heard last, or that is still queued. *)
ListIsLatest ==
  /\ LastIn(mainq, PlainEvents, Latest) /\ LastIn(mainq, ProductEvents, Latest)
  /\ heard # Unheard /\ ToSet(mainq) \cap PlainEvents = {} => ToSet(rows) = heard
  /\ heard # Unheard /\ ToSet(mainq) \cap ProductEvents = {} => ToSet(products) = heard

NewsInv ==
  /\ NewsTypes /\ NewsGrows /\ PlainFirst /\ RowsExist /\ NothingTwice
  /\ dropped = {} => NothingReleased /\ ListIsLatest
--------------------------------------------------------------------------------
LEMMA Markers ==
  /\ \A S \in SUBSET Orders : Unheard # S
  /\ PlainListener.type = "plain" /\ FilterListener.type = "filter"
  /\ \A l \in DetailListeners : l.type = "detail" /\ l \notin OfProducts
  /\ PlainListener \in NewsListeners /\ FilterListener \in NewsListeners
  /\ Posted \in SUBSET Orders
<1>1. PlainListener.type = "plain" /\ FilterListener.type = "filter"
  BY DEF PlainListener, FilterListener
<1>2. \A l \in DetailListeners : l.type = "detail"
  BY DEF DetailListeners
<1> QED BY <1>1, <1>2, NewsListAssumption DEF OfProducts, NewsListeners, Posted

(* Larger sets of orders have no fewer of them.                             *)
LEMMA Counts ==
  ASSUME NEW S \in SUBSET Orders, NEW T \in SUBSET S
  PROVE  /\ IsFiniteSet(S) /\ Cardinality(S) \in Nat /\ Cardinality(T) \in Nat
         /\ Cardinality(T) <= Cardinality(S)
<1>1. IsFiniteSet(S) /\ IsFiniteSet(T)
  BY NewsListAssumption, FS_Subset
<1> QED BY <1>1, FS_Subset, FS_CardinalityType

LEMMA ListsFacts ==
  ASSUME NEW S \in SUBSET Orders, NEW l \in Lists(S)
  PROVE  /\ l \in Seq(Orders) /\ Len(l) = Cardinality(S) /\ Len(l) \in Nat
         /\ DOMAIN l = 1..Len(l) /\ ToSet(l) = S /\ IsInjective(l)
         /\ \A k \in 1..Len(l) : l[k] \in Orders
<1>1. l \in [1..Cardinality(S) -> S] /\ IsInjective(l)
  BY DEF Lists
<1>2. \A i, j \in 1..Cardinality(S) : l[i] = l[j] => i = j
  BY <1>1 DEF IsInjective
<1>3. IsFiniteSet(S)
  BY Counts
<1>4. /\ l \in Seq(S) /\ Len(l) = Cardinality(S) /\ Len(l) \in Nat
      /\ DOMAIN l = 1..Cardinality(S) /\ ToSet(l) = S
  BY <1>1, <1>2, <1>3, Enumeration
<1>5. \A k \in 1..Len(l) : l[k] \in Orders
  BY <1>1, <1>4
<1>6. l \in Seq(Orders)
  BY <1>4, <1>5
<1> QED BY <1>1, <1>4, <1>5, <1>6

LEMMA NewsEventsFor ==
  ASSUME NEW q \in Seq(NewsListeners), NEW v, \A l \in ToSet(q) : Event(l, v) \in NewsEvents
  PROVE  /\ EventsFor(q, v) \in Seq(NewsEvents)
         /\ ToSet(EventsFor(q, v)) = {Event(l, v) : l \in ToSet(q)}
<1>1. Len(q) \in Nat /\ DOMAIN q = 1..Len(q) /\ ToSet(q) = {q[k] : k \in 1..Len(q)}
  BY ElementFacts
<1> DEFINE f == EventsFor(q, v)
<1>2. f = [k \in 1..Len(q) |-> Event(q[k], v)]
  BY <1>1 DEF EventsFor
<1>3. \A k \in 1..Len(q) : f[k] = Event(q[k], v) /\ f[k] \in NewsEvents
  BY <1>1, <1>2
<1>4. f \in Seq(NewsEvents) /\ DOMAIN f = 1..Len(q)
  BY <1>1, <1>2, <1>3
<1>5. ToSet(f) = {f[k] : k \in 1..Len(q)}
  BY <1>4 DEF ToSet
<1> HIDE DEF f
<1>6. ToSet(f) = {Event(l, v) : l \in ToSet(q)}
  BY <1>1, <1>3, <1>5
<1> QED BY <1>4, <1>6 DEF f

LEMMA EmptyQueue ==
  /\ ToSet(<<>>) = {} /\ Len(<<>>) = 0 /\ DOMAIN <<>> = {}
  /\ \A S : <<>> \in Seq(S)
  BY EmptySeq DEF ToSet

(* What an event is, by its listener's type.                                *)
LEMMA EventTypes ==
  ASSUME NEW e \in NewsEvents
  PROVE  /\ e.listener.type = "plain" => e \in PlainEvents
         /\ e.listener.type = "filter" => e \in FilterEvents /\ e \notin PlainEvents
         /\ e.listener.type = "detail" => e \in DetailEvents /\ e \notin ProductEvents
  BY DEF NewsEvents, ProductEvents, PlainEvents, FilterEvents, DetailEvents, PlainListener,
         FilterListener, DetailListeners

LEMMA NewsInitInv == Init => NewsInv
<1> SUFFICES ASSUME Init PROVE NewsInv
  OBVIOUS
<1>1. NewsTypes
  BY EmptyQueue DEF Init, NewsTypes, Statuses
<1>2. NewsGrows /\ PlainFirst /\ RowsExist /\ NothingTwice
  BY EmptyQueue DEF Init, NewsGrows, PlainFirst, RowsExist, NothingTwice, IsInjective, Ordered
<1>3. NothingReleased /\ ListIsLatest
  BY EmptyQueue DEF Init, NothingReleased, ListIsLatest, LastIn
<1> QED BY <1>1, <1>2, <1>3 DEF NewsInv
--------------------------------------------------------------------------------
(* The database: what was posted stays posted.                              *)
LEMMA DatabaseStep ==
  ASSUME NewsInv, NEW o \in Orders, Post(o) \/ Take(o) \/ Drop(o)
  PROVE  NewsInv'
<1> USE DEF NewsInv
<1>1. /\ UNCHANGED <<known, heard, regs, observing, mainq, screen, products, rows>>
      /\ \/ status' = [status EXCEPT ![o] = "posted"] /\ dropped' = dropped
         \/ status' = [status EXCEPT ![o] = "taken"] /\ dropped' = dropped
         \/ status' = [status EXCEPT ![o] = "released"] /\ dropped' = dropped \cup {o}
  BY DEF Post, Take, Drop, client, tab
<1>2. status' \in [Orders -> Statuses] /\ Posted \subseteq Posted'
  BY <1>1 DEF NewsTypes, Posted, Statuses
<1>3. NewsTypes'
  BY <1>1, <1>2 DEF NewsTypes
<1>4. UNCHANGED <<NewsGrows, PlainFirst, RowsExist, NothingTwice, ListIsLatest>>
  BY <1>1 DEF NewsGrows, PlainFirst, RowsExist, NothingTwice, ListIsLatest, Latest
<1>5. dropped' = {} => NothingReleased'
  BY <1>1 DEF NothingReleased, NewsTypes
<1>6. dropped' = {} => dropped = {}
  BY <1>1
<1> QED BY <1>3, <1>4, <1>5, <1>6
--------------------------------------------------------------------------------
(* The screen: two more listeners, or none.                                 *)
LEMMA GetDataStep ==
  ASSUME NewsInv, GetData, screen' # "closed",
         UNCHANGED <<status, dropped, known, heard, regs, mainq, products, rows>>
  PROVE  NewsInv'
<1> USE DEF NewsInv
<1>a. PICK more : more = <<PlainListener, FilterListener>>
  OBVIOUS
<1>1. observing' = observing \o more
  BY <1>a DEF GetData
<1>2. more \in Seq(NewsListeners) /\ Len(more) = 2 /\ more[1] = PlainListener
  BY <1>a, Markers, TwoElements
<1>3. /\ observing' \in Seq(NewsListeners) /\ Len(observing') = Len(observing) + 2
      /\ Len(observing) \in Nat
      /\ \A k \in 1..Len(observing) : observing'[k] = observing[k]
      /\ observing'[Len(observing) + 1] = PlainListener
  <2>1. observing \in Seq(NewsListeners)
    BY DEF NewsTypes
  <2>2. /\ observing \o more \in Seq(NewsListeners) /\ Len(observing \o more) = Len(observing) + Len(more)
        /\ \A k \in 1..Len(observing) : (observing \o more)[k] = observing[k]
        /\ \A k \in 1..Len(more) : (observing \o more)[Len(observing) + k] = more[k]
    <3>1. more \in Seq(NewsListeners)
      BY <1>2
    <3>2. observing \o more \in Seq(NewsListeners) /\ Len(observing \o more) = Len(observing) + Len(more)
      BY ONLY <2>1, <3>1, ConcatFacts
    <3>3. \A k \in 1..Len(observing) : (observing \o more)[k] = observing[k]
      BY ONLY <2>1, <3>1, ConcatFacts
    <3>4. \A k \in 1..Len(more) : (observing \o more)[Len(observing) + k] = more[k]
      BY ONLY <2>1, <3>1, ConcatFacts
    <3> QED BY <3>2, <3>3, <3>4
  <2>3. Len(observing) \in Nat
    BY <2>1, ElementFacts
  <2> QED BY <1>1, <1>2, <2>2, <2>3
<1>4. PlainFirst'
  <2>1. CASE regs # <<>>
    BY <2>1 DEF PlainFirst
  <2>2. CASE regs = <<>> /\ observing # <<>>
    <3>1. observing[1] = PlainListener /\ Len(observing) # 0
      BY <2>2, EmptySeq DEF PlainFirst, NewsTypes
    <3>2. observing'[1] = PlainListener
      BY <1>3, <3>1
    <3>3. observing' # <<>>
      BY <1>3, <3>1, EmptyQueue
    <3> QED BY <2>2, <3>2, <3>3 DEF PlainFirst
  <2>3. CASE regs = <<>> /\ observing = <<>>
    <3>1. observing'[1] = PlainListener /\ observing' # <<>>
      BY <1>3, <2>3, EmptyQueue
    <3> QED BY <2>3, <3>1 DEF PlainFirst
  <2> QED BY <2>1, <2>2, <2>3
<1>5. NewsTypes'
  BY <1>3 DEF NewsTypes, Posted
<1>6. UNCHANGED <<NewsGrows, RowsExist, NothingTwice, NothingReleased, ListIsLatest>>
  BY DEF NewsGrows, RowsExist, NothingTwice, NothingReleased, ListIsLatest, Latest
<1> QED BY <1>4, <1>5, <1>6

LEMMA LeaveStep ==
  ASSUME NewsInv, DidSelectRow \/ LeaveTab
  PROVE  NewsInv'
<1> USE DEF NewsInv
<1>1. /\ screen = "shown" /\ screen' = "away"
      /\ UNCHANGED <<status, dropped, known, heard, regs, observing, mainq, products, rows>>
  BY DEF DidSelectRow, LeaveTab, database, client
<1>2. UNCHANGED <<NewsTypes, NewsGrows, RowsExist, NothingTwice, NothingReleased, ListIsLatest>>
  BY <1>1 DEF NewsTypes, Posted, NewsGrows, RowsExist, NothingTwice, NothingReleased, ListIsLatest, Latest
<1>3. PlainFirst'
  BY <1>1 DEF PlainFirst
<1> QED BY <1>1, <1>2, <1>3
--------------------------------------------------------------------------------
(* What the client does: it raises new events, each with the value it knows *)
(* now, and one of the plain listener for every list that is new.           *)
LEMMA ClientStep ==
  ASSUME NewsInv, NewsTypes', UNCHANGED <<status, dropped, screen, products, rows>>,
         NEW new \in Seq(NewsEvents), mainq' = mainq \o new,
         \A e \in ToSet(new) \cap ProductEvents : e.value = heard' /\ heard' # Unheard,
         heard # Unheard => heard' # Unheard /\ heard \subseteq heard',
         heard' # heard => ToSet(new) \cap PlainEvents # {},
         PlainFirst', dropped = {} => NothingReleased'
  PROVE  NewsInv'
<1> USE DEF NewsInv
<1>1. mainq \in Seq(NewsEvents) /\ ToSet(new) \subseteq NewsEvents /\ ToSet(mainq) \subseteq NewsEvents
  BY ElementFacts DEF NewsTypes
<1>2. ToSet(mainq') = ToSet(mainq) \cup ToSet(new)
  BY <1>1, ConcatFacts
<1>3. RowsExist' /\ NothingTwice'
  BY DEF RowsExist, NothingTwice
<1>4. NewsGrows'
  <2>1. Ordered(new, Longer)
    <3>1. \A k \in 1..Len(new) : new[k] \in ToSet(new)
      BY ElementFacts
    <3>2. \A d, e \in ToSet(new) : <<d, e>> \in Longer
      BY <1>1 DEF Longer
    <3> QED BY <3>1, <3>2 DEF Ordered
  <2>2. ASSUME NEW d \in ToSet(mainq), NEW e \in ToSet(new) PROVE <<d, e>> \in Longer
    <3>1. d \in ProductEvents => heard # Unheard /\ d.value \subseteq heard
      BY DEF NewsGrows
    <3> QED BY <1>1, <3>1 DEF Longer
  <2>3. Ordered(mainq', Longer)
    BY <1>1, <2>1, <2>2, OrderedConcat DEF NewsGrows
  <2>4. IF heard' = Unheard THEN products = <<>> ELSE Len(products) <= Cardinality(heard')
    <3>1. CASE heard = Unheard
      <4>1. products = <<>> /\ Len(products) = 0
        BY <3>1, EmptyQueue DEF NewsGrows
      <4>2. heard' # Unheard => heard' \in SUBSET Orders
        BY DEF NewsTypes, Posted
      <4>3. heard' # Unheard => Cardinality(heard') \in Nat
        BY <4>2, Counts
      <4> QED BY <4>1, <4>3
    <3>2. CASE heard # Unheard
      <4>1. heard' \in SUBSET Orders /\ heard \in SUBSET heard' /\ heard' # Unheard
        BY <3>2 DEF NewsTypes, Posted
      <4>2. Len(products) <= Cardinality(heard) /\ Len(products) \in Nat
        BY <3>2, ElementFacts DEF NewsGrows, NewsTypes
      <4>3. Cardinality(heard) <= Cardinality(heard') /\ Cardinality(heard) \in Nat
            /\ Cardinality(heard') \in Nat
        BY <4>1, Counts
      <4> QED BY <4>1, <4>2, <4>3
    <3> QED BY <3>1, <3>2
  <2>5. \A e \in ToSet(mainq') \cap ProductEvents :
          heard' # Unheard /\ e.value \subseteq heard' /\ Len(products) <= Cardinality(e.value)
    <3>1. \A e \in ToSet(mainq) \cap ProductEvents :
            heard # Unheard /\ e.value \subseteq heard /\ Len(products) <= Cardinality(e.value)
      BY DEF NewsGrows
    <3> QED BY <1>2, <2>4, <3>1
  <2> QED BY <2>3, <2>4, <2>5 DEF NewsGrows
<1>5. ASSUME ListIsLatest PROVE ListIsLatest'
  <2>1. LastIn(new, PlainEvents, Latest') /\ LastIn(new, ProductEvents, Latest')
    BY LastInAll DEF Latest, ProductEvents
  <2>2. CASE ToSet(new) \cap PlainEvents = {}
    <3>1. heard' = heard /\ Latest' = Latest
      BY <2>2 DEF Latest
    <3>2. LastIn(mainq', PlainEvents, Latest) /\ LastIn(mainq', ProductEvents, Latest)
      BY <1>1, <1>5, <2>1, <3>1, LastInConcat DEF ListIsLatest
    <3> QED BY <1>2, <1>5, <3>1, <3>2 DEF ListIsLatest
  <2>3. CASE ToSet(new) \cap PlainEvents # {}
    <3>1. ToSet(new) \cap ProductEvents # {}
      BY <2>3 DEF ProductEvents
    <3>2. LastIn(mainq', PlainEvents, Latest') /\ LastIn(mainq', ProductEvents, Latest')
      BY <1>1, <2>1, <2>3, <3>1, LastInConcat
    <3> QED BY <1>2, <2>3, <3>1, <3>2 DEF ListIsLatest
  <2> QED BY <2>2, <2>3
<1> QED BY <1>3, <1>4, <1>5

LEMMA ObserveStep ==
  ASSUME NewsInv, Observe
  PROVE  NewsInv'
<1> USE DEF NewsInv
<1>a. PICK l, v : l = Head(observing) /\ v = Snapshot(l)
  OBVIOUS
<1>b. PICK new : new = IF Complete(l) THEN <<Event(l, v)>> ELSE <<>>
  OBVIOUS
<1>1. /\ observing # <<>> /\ regs' = Append(regs, l) /\ observing' = Tail(observing)
      /\ mainq' = IF Complete(l) THEN Append(mainq, Event(l, v)) ELSE mainq
      /\ UNCHANGED <<status, dropped, known, heard, screen, products, rows>>
  BY <1>a DEF Observe, database, tab
<1>2. /\ l \in NewsListeners /\ l = observing[1] /\ observing' \in Seq(NewsListeners)
  BY <1>a, <1>1, TailFacts DEF NewsTypes
<1>3. Complete(l) => /\ Event(l, v) \in NewsEvents
                     /\ Event(l, v) \in ProductEvents => v = heard /\ heard # Unheard
                     /\ Event(l, v) \in DetailEvents => l.order \in Orders /\ v = known[l.order]
  <2>1. CASE l \in DetailListeners
    <3>1. l.type = "detail" /\ l \notin OfProducts /\ l.order \in Orders
      BY <2>1, Markers DEF DetailListeners
    <3>2. v = known[l.order] /\ v \in Statuses
      BY <1>a, <3>1 DEF Snapshot, NewsTypes
    <3> QED BY <2>1, <3>1, <3>2
            DEF Event, NewsEvents, ProductEvents, PlainEvents, FilterEvents, DetailEvents, OfProducts
  <2>2. CASE l \in OfProducts
    <3>1. l.type # "detail" /\ l \notin DetailListeners
      BY <2>2, Markers DEF OfProducts
    <3>2. v = heard /\ (Complete(l) => heard # Unheard)
      BY <1>a, <3>1 DEF Snapshot, Complete
    <3>3. heard # Unheard => heard \in SUBSET Orders
      BY Markers DEF NewsTypes
    <3> QED BY <2>2, <3>1, <3>2, <3>3
            DEF Event, NewsEvents, ProductEvents, PlainEvents, FilterEvents, DetailEvents, OfProducts
  <2> QED BY <1>2, <2>1, <2>2 DEF NewsListeners
<1>4. /\ new \in Seq(NewsEvents) /\ mainq' = mainq \o new
      /\ ToSet(new) = IF Complete(l) THEN {Event(l, v)} ELSE {}
  <2>1. mainq \in Seq(NewsEvents)
    BY DEF NewsTypes
  <2>2. CASE Complete(l)
    BY <1>b, <1>1, <1>3, <2>1, <2>2, Singleton, AppendIsConcat
  <2>3. CASE ~Complete(l)
    BY <1>b, <1>1, <2>1, <2>3, EmptyQueue, ConcatEmptySeq
  <2> QED BY <2>2, <2>3
<1>5. mainq' \in Seq(NewsEvents) /\ ToSet(mainq') = ToSet(mainq) \cup ToSet(new)
  BY <1>4, ConcatFacts DEF NewsTypes
<1>6. /\ regs' \in Seq(NewsListeners) /\ Len(regs) \in Nat /\ Len(regs') = Len(regs) + 1
      /\ \A k \in 1..Len(regs) : regs'[k] = regs[k]
      /\ regs'[Len(regs) + 1] = l
  <2>1. regs \in Seq(NewsListeners)
    BY DEF NewsTypes
  <2>2. /\ Append(regs, l) \in Seq(NewsListeners) /\ Len(regs) \in Nat
        /\ Len(Append(regs, l)) = Len(regs) + 1 /\ Append(regs, l)[Len(regs) + 1] = l
        /\ \A k \in 1..Len(regs) : Append(regs, l)[k] = regs[k]
    BY <1>2, <2>1, AppendFacts
  <2> QED BY <1>1, <2>2
<1>7. NewsTypes'
  BY <1>1, <1>2, <1>5, <1>6 DEF NewsTypes, Posted
<1>8. PlainFirst'
  <2>1. regs' # <<>>
    BY <1>6, EmptyQueue
  <2>2. CASE regs # <<>>
    <3>1. Len(regs) # 0 /\ regs[1] = PlainListener
      BY <2>2, EmptySeq DEF PlainFirst, NewsTypes
    <3>2. regs'[1] = PlainListener
      BY <1>6, <3>1
    <3> QED BY <2>1, <3>2 DEF PlainFirst
  <2>3. CASE regs = <<>>
    <3>1. l = PlainListener
      BY <1>1, <1>2, <2>3 DEF PlainFirst
    <3>2. regs'[1] = PlainListener
      BY <1>6, <2>3, <3>1, EmptyQueue
    <3> QED BY <2>1, <3>2 DEF PlainFirst
  <2> QED BY <2>2, <2>3
<1>9. dropped = {} => NothingReleased'
  <2>1. Event(l, v).value = v
    BY DEF Event
  <2> QED BY <1>1, <1>3, <1>4, <1>5, <2>1 DEF NothingReleased
<1>10. \A e \in ToSet(new) \cap ProductEvents : e.value = heard' /\ heard' # Unheard
  <2>1. Event(l, v).value = v
    BY DEF Event
  <2> QED BY <1>1, <1>3, <1>4, <2>1
<1> QED BY <1>1, <1>4, <1>7, <1>8, <1>9, <1>10, ClientStep

LEMMA HearProductsStep ==
  ASSUME NewsInv, HearProducts
  PROVE  NewsInv'
<1> USE DEF NewsInv
<1>a. PICK q, v : q = Selected(regs, OfProducts) /\ v = Posted
  OBVIOUS
<1>b. PICK new : new = EventsFor(q, v)
  OBVIOUS
<1>1. /\ Listened(OfProducts) /\ heard' = v /\ mainq' = mainq \o new
      /\ UNCHANGED <<status, dropped, known, regs, observing, screen, products, rows>>
  BY <1>a, <1>b DEF HearProducts, database, tab
<1>2. q \in Seq(NewsListeners) /\ ToSet(q) = ToSet(regs) \cap OfProducts
  BY <1>a, SelectedSet DEF NewsTypes
<1>3. regs # <<>>
  BY <1>1, EmptyQueue DEF Listened
<1>4. PlainListener \in ToSet(q)
  <2>1. regs[1] = PlainListener /\ Len(regs) \in Nat \ {0} /\ ToSet(regs) = {regs[k] : k \in 1..Len(regs)}
    BY <1>3, EmptySeq, ElementFacts DEF PlainFirst, NewsTypes
  <2>2. 1 \in 1..Len(regs)
    BY <2>1
  <2> QED BY <1>2, <2>1, <2>2 DEF OfProducts
<1>5. v \in SUBSET Orders /\ v # Unheard
  BY <1>a, Markers
<1>6. \A l \in ToSet(q) : /\ Event(l, v) \in ProductEvents /\ Event(l, v) \in NewsEvents
                          /\ Event(l, v).value = v /\ Event(l, v) \notin DetailEvents
  <2>1. \A l \in OfProducts : l \notin DetailListeners
    BY Markers
  <2> QED BY <1>2, <1>5, <2>1
          DEF OfProducts, Event, ProductEvents, PlainEvents, FilterEvents, NewsEvents, DetailEvents
<1>7. new \in Seq(NewsEvents) /\ ToSet(new) = {Event(l, v) : l \in ToSet(q)}
  BY <1>b, <1>2, <1>6, NewsEventsFor
<1>8. mainq' \in Seq(NewsEvents) /\ ToSet(mainq') = ToSet(mainq) \cup ToSet(new)
  BY <1>1, <1>7, ConcatFacts DEF NewsTypes
<1>9. NewsTypes'
  BY <1>a, <1>1, <1>8 DEF NewsTypes, Posted
<1>10. ToSet(new) \cap PlainEvents # {}
  <2>1. Event(PlainListener, v) \in ToSet(new)
    BY <1>4, <1>7
  <2>2. Event(PlainListener, v) \in PlainEvents
    BY <1>5 DEF Event, PlainEvents
  <2> QED BY <2>1, <2>2
<1>11. heard # Unheard => heard \subseteq heard'
  BY <1>a, <1>1 DEF NewsTypes
<1>12. PlainFirst' /\ (dropped = {} => NothingReleased')
  BY <1>1, <1>3, <1>6, <1>7, <1>8 DEF PlainFirst, NothingReleased
<1>13. \A e \in ToSet(new) : e.value = heard' /\ heard' # Unheard
  BY <1>1, <1>5, <1>6, <1>7
<1> QED BY <1>1, <1>5, <1>7, <1>9, <1>10, <1>11, <1>12, <1>13, ClientStep

LEMMA HearDetailStep ==
  ASSUME NewsInv, NEW o \in Orders, HearDetail(o)
  PROVE  NewsInv'
<1> USE DEF NewsInv
<1>a. PICK q, v : q = Selected(regs, OfDetail(o)) /\ v = status[o]
  OBVIOUS
<1>b. PICK new : new = EventsFor(q, v)
  OBVIOUS
<1>1. /\ Listened(OfDetail(o)) /\ known' = [known EXCEPT ![o] = v] /\ mainq' = mainq \o new
      /\ UNCHANGED <<status, dropped, heard, regs, observing, screen, products, rows>>
  BY <1>a, <1>b DEF HearDetail, database, tab
<1>2. q \in Seq(NewsListeners) /\ ToSet(q) = ToSet(regs) \cap OfDetail(o)
  BY <1>a, SelectedSet DEF NewsTypes
<1>3. regs # <<>>
  BY <1>1, EmptyQueue DEF Listened
<1>4. v \in Statuses
  BY <1>a DEF NewsTypes
<1>5. \A l \in ToSet(q) : l \in DetailListeners /\ l \notin OfProducts
  <2>1. \A l \in ToSet(q) : l \in NewsListeners /\ l.type = "detail"
    BY <1>2, ElementFacts DEF OfDetail
  <2> QED BY <2>1, Markers DEF NewsListeners, OfProducts
<1>6. \A l \in ToSet(q) : /\ Event(l, v) \in DetailEvents /\ Event(l, v) \in NewsEvents
                          /\ Event(l, v).value = v /\ Event(l, v) \notin ProductEvents
  BY <1>4, <1>5 DEF OfProducts, Event, ProductEvents, PlainEvents, FilterEvents, NewsEvents, DetailEvents
<1>7. new \in Seq(NewsEvents) /\ ToSet(new) = {Event(l, v) : l \in ToSet(q)}
  BY <1>b, <1>2, <1>6, NewsEventsFor
<1>8. mainq' \in Seq(NewsEvents) /\ ToSet(mainq') = ToSet(mainq) \cup ToSet(new)
  BY <1>1, <1>7, ConcatFacts DEF NewsTypes
<1>9. NewsTypes'
  BY <1>1, <1>4, <1>8 DEF NewsTypes, Posted
<1>10. PlainFirst' /\ (dropped = {} => NothingReleased')
  BY <1>a, <1>1, <1>3, <1>6, <1>7, <1>8 DEF PlainFirst, NothingReleased, NewsTypes
<1>11. \A e \in ToSet(new) : e \notin ProductEvents
  BY <1>6, <1>7
<1> QED BY <1>1, <1>7, <1>9, <1>10, <1>11, ClientStep
--------------------------------------------------------------------------------
(* What the main thread does: it takes an event, and the list becomes one   *)
(* that is no longer than any that waits.                                   *)
LEMMA EventTaken ==
  ASSUME NewsInv, NEW e, mainq # <<>>, e = Head(mainq), mainq' = Tail(mainq)
  PROVE  /\ mainq' \in Seq(NewsEvents) /\ e \in NewsEvents
         /\ ToSet(mainq) = {e} \cup ToSet(mainq')
         /\ Ordered(mainq', Longer)
         /\ e \in ProductEvents =>
              /\ heard # Unheard /\ e.value \in SUBSET heard /\ heard \in SUBSET Orders
              /\ Len(products) <= Cardinality(e.value)
              /\ \A d \in ToSet(mainq') \cap ProductEvents :
                    d.value \in SUBSET Orders /\ e.value \in SUBSET d.value
         /\ ListIsLatest =>
              /\ LastIn(mainq', PlainEvents, Latest) /\ LastIn(mainq', ProductEvents, Latest)
              /\ e \in PlainEvents /\ ToSet(mainq') \cap PlainEvents = {} => e.value = heard
              /\ e \in ProductEvents /\ ToSet(mainq') \cap ProductEvents = {} => e.value = heard
<1> USE DEF NewsInv
<1>1. /\ mainq \in Seq(NewsEvents) /\ mainq' \in Seq(NewsEvents) /\ e \in NewsEvents
      /\ ToSet(mainq) = {e} \cup ToSet(mainq')
  BY TailFacts DEF NewsTypes
<1>2. Ordered(mainq', Longer) /\ \A d \in ToSet(mainq') : <<e, d>> \in Longer
  BY <1>1, OrderedTail DEF NewsGrows
<1>3. ASSUME e \in ProductEvents
      PROVE  /\ heard # Unheard /\ e.value \in SUBSET heard /\ heard \in SUBSET Orders
             /\ Len(products) <= Cardinality(e.value)
             /\ \A d \in ToSet(mainq') \cap ProductEvents :
                   d.value \in SUBSET Orders /\ e.value \in SUBSET d.value
  <2>1. heard # Unheard /\ e.value \subseteq heard /\ Len(products) <= Cardinality(e.value)
    BY <1>1, <1>3 DEF NewsGrows
  <2>2. heard \in SUBSET Orders
    BY <2>1, Markers DEF NewsTypes
  <2>3. \A d \in ProductEvents : d.value \in SUBSET Orders
    BY DEF ProductEvents, PlainEvents, FilterEvents
  <2>4. \A d \in ToSet(mainq') \cap ProductEvents : e.value \subseteq d.value
    BY <1>2, <1>3 DEF Longer
  <2> QED BY <2>1, <2>2, <2>3, <2>4
<1>4. ListIsLatest =>
        /\ LastIn(mainq', PlainEvents, Latest) /\ LastIn(mainq', ProductEvents, Latest)
        /\ e \in PlainEvents /\ ToSet(mainq') \cap PlainEvents = {} => e \in Latest
        /\ e \in ProductEvents /\ ToSet(mainq') \cap ProductEvents = {} => e \in Latest
  BY <1>1, LastInTail DEF ListIsLatest
<1> QED BY <1>1, <1>2, <1>3, <1>4 DEF Latest

(* What is common to the three events.                                      *)
LEMMA MainStep ==
  ASSUME NewsInv, NEW e, mainq # <<>>, e = Head(mainq), mainq' = Tail(mainq),
         UNCHANGED <<status, dropped, known, heard, regs, screen>>,
         observing' \in Seq(NewsListeners), products' \in Seq(Orders), rows' \in Seq(Orders),
         \/ Len(products') <= Len(products)
         \/ e \in ProductEvents /\ Len(products') = Cardinality(e.value)
  PROVE  /\ NewsTypes' /\ NewsGrows' /\ PlainFirst'
         /\ dropped' = {} => NothingReleased' /\ dropped = {}
<1> USE DEF NewsInv
<1>1. /\ mainq' \in Seq(NewsEvents) /\ ToSet(mainq) = {e} \cup ToSet(mainq') /\ Ordered(mainq', Longer)
      /\ e \in ProductEvents =>
           /\ heard # Unheard /\ e.value \in SUBSET heard /\ heard \in SUBSET Orders
           /\ \A d \in ToSet(mainq') \cap ProductEvents :
                 d.value \in SUBSET Orders /\ e.value \in SUBSET d.value
  BY EventTaken
<1>2. NewsTypes'
  BY <1>1 DEF NewsTypes, Posted
<1>3. PlainFirst'
  BY DEF PlainFirst
<1>4. dropped' = {} => NothingReleased' /\ dropped = {}
  BY <1>1 DEF NothingReleased
<1>5. Len(products) \in Nat /\ Len(products') \in Nat
  BY ElementFacts DEF NewsTypes
<1>6. NewsGrows'
  <2>1. CASE Len(products') <= Len(products)
    <3>1. \A S \in SUBSET Orders : Len(products) <= Cardinality(S) => Len(products') <= Cardinality(S)
      BY <1>5, <2>1, Counts
    <3>2. heard # Unheard => heard \in SUBSET Orders
      BY Markers DEF NewsTypes
    <3>3. products = <<>> => products' = <<>>
      BY <1>5, <2>1, EmptyQueue, EmptySeq
    <3>4. \A d \in ProductEvents : d.value \in SUBSET Orders
      BY DEF ProductEvents, PlainEvents, FilterEvents
    <3> QED BY <1>1, <3>1, <3>2, <3>3, <3>4 DEF NewsGrows
  <2>2. CASE e \in ProductEvents /\ Len(products') = Cardinality(e.value)
    <3>1. \A d \in ToSet(mainq') \cap ProductEvents : Cardinality(e.value) <= Cardinality(d.value)
      BY <1>1, <2>2, Counts
    <3>2. Cardinality(e.value) <= Cardinality(heard)
      BY <1>1, <2>2, Counts
    <3> QED BY <1>1, <2>2, <3>1, <3>2 DEF NewsGrows
  <2> QED BY <2>1, <2>2
<1> QED BY <1>2, <1>3, <1>4, <1>6

LEMMA PlainEventStep ==
  ASSUME NewsInv, PlainEvent
  PROVE  NewsInv'
<1> USE DEF NewsInv
<1>a. PICK e, v : e = Head(mainq) /\ v = e.value
  OBVIOUS
<1>1. /\ mainq # <<>> /\ e.listener.type = "plain" /\ mainq' = Tail(mainq)
      /\ UNCHANGED <<status, dropped, known, heard, regs, screen, observing>>
  BY <1>a DEF PlainEvent, Next1, Done, database, client, tab
<1>2. PICK list \in Lists(v) : products' = list /\ rows' = list
  BY <1>a DEF PlainEvent
<1>3. e \in PlainEvents /\ e \in ProductEvents /\ v \in SUBSET Orders
  <2>1. e \in PlainEvents
    BY <1>a, <1>1, EventTaken, EventTypes
  <2> QED BY <1>a, <2>1 DEF PlainEvents, ProductEvents
<1>4. /\ list \in Seq(Orders) /\ Len(list) = Cardinality(v) /\ Len(list) \in Nat
      /\ ToSet(list) = v /\ IsInjective(list)
  BY <1>3, ListsFacts
<1>5. NewsTypes' /\ NewsGrows' /\ PlainFirst' /\ (dropped' = {} => NothingReleased' /\ dropped = {})
  BY <1>a, <1>1, <1>2, <1>3, <1>4, MainStep DEF NewsTypes
<1>6. RowsExist' /\ NothingTwice'
  BY <1>2, <1>4 DEF RowsExist, NothingTwice
<1>7. ASSUME ListIsLatest PROVE ListIsLatest'
  <2>1. /\ LastIn(mainq', PlainEvents, Latest) /\ LastIn(mainq', ProductEvents, Latest)
        /\ ToSet(mainq') \cap PlainEvents = {} => v = heard
    BY <1>a, <1>1, <1>3, <1>7, EventTaken
  <2>2. ToSet(mainq') \cap ProductEvents = {} => ToSet(mainq') \cap PlainEvents = {}
    BY DEF ProductEvents
  <2>3. Latest' = Latest
    BY <1>1 DEF Latest
  <2> QED BY <1>1, <1>2, <1>4, <2>1, <2>2, <2>3 DEF ListIsLatest
<1> QED BY <1>5, <1>6, <1>7

LEMMA FilterEventStep ==
  ASSUME NewsInv, FilterEvent
  PROVE  NewsInv'
<1> USE DEF NewsInv
<1>a. PICK e, v : e = Head(mainq) /\ v = e.value
  OBVIOUS
<1>1. /\ mainq # <<>> /\ e.listener.type = "filter" /\ mainq' = Tail(mainq)
      /\ UNCHANGED <<status, dropped, known, heard, regs, screen, rows>>
  BY <1>a DEF FilterEvent, Next1, Done, database, client, tab
<1>2. PICK list \in Lists(v) :
        /\ products' = list
        /\ observing' = observing \o
             [k \in DOMAIN list |-> [type |-> "detail", order |-> list[k], index |-> k]]
  BY <1>a DEF FilterEvent
<1>3. e \in FilterEvents /\ e \in ProductEvents /\ v \in SUBSET Orders
  <2>1. e \in FilterEvents
    BY <1>a, <1>1, EventTaken, EventTypes
  <2> QED BY <1>a, <2>1 DEF FilterEvents, ProductEvents
<1>4. /\ list \in Seq(Orders) /\ Len(list) = Cardinality(v) /\ Len(list) \in Nat
      /\ DOMAIN list = 1..Len(list) /\ ToSet(list) = v /\ IsInjective(list)
      /\ \A k \in 1..Len(list) : list[k] \in Orders
  BY <1>3, ListsFacts
<1>5. observing' \in Seq(NewsListeners)
  <2>1. PICK more : more = [k \in DOMAIN list |-> [type |-> "detail", order |-> list[k], index |-> k]]
    OBVIOUS
  <2>2. \A k \in 1..Len(list) : [type |-> "detail", order |-> list[k], index |-> k] \in NewsListeners
    BY <1>4 DEF NewsListeners, DetailListeners
  <2>3. more \in [1..Len(list) -> NewsListeners]
    BY <1>4, <2>1, <2>2
  <2>4. more \in Seq(NewsListeners)
    BY <1>4, <2>3, FunctionFacts
  <2>5. observing' = observing \o more
    BY <1>2, <2>1
  <2>6. observing \in Seq(NewsListeners)
    BY DEF NewsTypes
  <2> QED BY <2>4, <2>5, <2>6, ConcatFacts
<1>6. NewsTypes' /\ NewsGrows' /\ PlainFirst' /\ (dropped' = {} => NothingReleased' /\ dropped = {})
  BY <1>a, <1>1, <1>2, <1>3, <1>4, <1>5, MainStep DEF NewsTypes
<1>7. RowsExist' /\ NothingTwice'
  <2>1. Len(products) <= Cardinality(v)
    BY <1>a, <1>1, <1>3, EventTaken
  <2>2. Len(rows) \in Nat /\ Len(products) \in Nat
    BY ElementFacts DEF NewsTypes
  <2> QED BY <1>1, <1>2, <1>4, <2>1, <2>2 DEF RowsExist, NothingTwice
<1>8. ASSUME ListIsLatest PROVE ListIsLatest'
  <2>1. /\ LastIn(mainq', PlainEvents, Latest) /\ LastIn(mainq', ProductEvents, Latest)
        /\ ToSet(mainq') \cap ProductEvents = {} => v = heard
        /\ ToSet(mainq) = {e} \cup ToSet(mainq')
    BY <1>a, <1>1, <1>3, <1>8, EventTaken
  <2>2. e \notin PlainEvents
    BY <1>3, Markers DEF PlainEvents, FilterEvents
  <2>3. Latest' = Latest
    BY <1>1 DEF Latest
  <2>4. heard # Unheard /\ ToSet(mainq') \cap PlainEvents = {} => ToSet(rows) = heard
    BY <1>8, <2>1, <2>2 DEF ListIsLatest
  <2> QED BY <1>1, <1>2, <1>4, <2>1, <2>3, <2>4 DEF ListIsLatest
<1> QED BY <1>6, <1>7, <1>8

LEMMA DetailEventStep ==
  ASSUME NewsInv, DetailEvent
  PROVE  NewsInv'
<1> USE DEF NewsInv
<1>a. PICK e, i : e = Head(mainq) /\ i = e.listener.index
  OBVIOUS
<1>1. /\ mainq # <<>> /\ e.listener.type = "detail" /\ mainq' = Tail(mainq)
      /\ UNCHANGED <<status, dropped, known, heard, regs, screen, observing>>
      /\ IF IsHidden(e) THEN products' = RemoveAt(products, i) /\ rows' = products'
                        ELSE UNCHANGED <<products, rows>>
  BY <1>a DEF DetailEvent, Next1, Done, database, client, tab
<1>2. /\ e \in DetailEvents /\ e \notin ProductEvents /\ e \notin PlainEvents
      /\ ToSet(mainq) = {e} \cup ToSet(mainq')
  <2>1. e \in DetailEvents /\ e \notin ProductEvents /\ ToSet(mainq) = {e} \cup ToSet(mainq')
    BY <1>a, <1>1, EventTaken, EventTypes
  <2> QED BY <2>1 DEF ProductEvents
<1>3. products \in Seq(Orders) /\ rows \in Seq(Orders) /\ Len(products) \in Nat /\ DOMAIN products = 1..Len(products)
  BY ElementFacts DEF NewsTypes
<1>4. IsHidden(e) =>
        /\ products' \in Seq(Orders) /\ Len(products') = Len(products) - 1
        /\ IsInjective(products')
  <2>1. SUFFICES ASSUME IsHidden(e)
                 PROVE  /\ products' \in Seq(Orders) /\ Len(products') = Len(products) - 1
                        /\ IsInjective(products')
    OBVIOUS
  <2>2. i \in DOMAIN products
    BY <1>a, <1>2, <1>3, <2>1 DEF IsHidden, DetailEvents, DetailListeners
  <2>3. /\ RemoveAt(products, i) \in Seq(Orders) /\ Len(RemoveAt(products, i)) = Len(products) - 1
        /\ DOMAIN RemoveAt(products, i) = 1..Len(products) - 1
        /\ \A j \in 1..Len(products) - 1 :
             RemoveAt(products, i)[j] = IF j < i THEN products[j] ELSE products[j + 1]
    BY <1>3, <2>2, RemoveAtFacts
  <2>4. products' = RemoveAt(products, i)
    BY <1>1, <2>1
  <2>5. \A j, k \in 1..Len(products) : products[j] = products[k] => j = k
    BY <1>3 DEF NothingTwice, IsInjective
  <2>6. ASSUME NEW j \in 1..Len(products) - 1, NEW k \in 1..Len(products) - 1, products'[j] = products'[k]
        PROVE  j = k
    <3>1. PICK x \in 1..Len(products) : products'[j] = products[x] /\ x = (IF j < i THEN j ELSE j + 1)
      BY <1>3, <2>3, <2>4
    <3>2. PICK y \in 1..Len(products) : products'[k] = products[y] /\ y = (IF k < i THEN k ELSE k + 1)
      BY <1>3, <2>3, <2>4
    <3>3. x = y
      BY <2>5, <2>6, <3>1, <3>2
    <3> QED BY <1>3, <2>2, <3>1, <3>2, <3>3
  <2> QED BY <2>3, <2>4, <2>6 DEF IsInjective
<1>5. /\ products' \in Seq(Orders) /\ rows' \in Seq(Orders) /\ Len(products') <= Len(products)
      /\ RowsExist' /\ NothingTwice'
  <2>1. CASE IsHidden(e)
    <3>1. Len(products') \in Nat /\ Len(products') <= Len(products)
      BY <1>3, <1>4, <2>1, ElementFacts
    <3> QED BY <1>1, <1>4, <2>1, <3>1 DEF RowsExist, NothingTwice
  <2>2. CASE ~IsHidden(e)
    BY <1>1, <1>3, <2>2 DEF RowsExist, NothingTwice
  <2> QED BY <2>1, <2>2
<1>6. NewsTypes' /\ NewsGrows' /\ PlainFirst' /\ (dropped' = {} => NothingReleased' /\ dropped = {})
  BY <1>a, <1>1, <1>5, MainStep DEF NewsTypes
<1>7. ASSUME dropped = {} PROVE ListIsLatest'
  <2>1. /\ LastIn(mainq', PlainEvents, Latest) /\ LastIn(mainq', ProductEvents, Latest)
    BY <1>a, <1>1, <1>7, EventTaken
  <2>2. ~IsHidden(e)
    BY <1>2, <1>7 DEF IsHidden, NothingReleased
  <2>3. UNCHANGED <<products, rows, heard, Latest>>
    BY <1>1, <2>2 DEF Latest
  <2> QED BY <1>2, <1>7, <2>1, <2>3 DEF ListIsLatest
<1> QED BY <1>5, <1>6, <1>7
--------------------------------------------------------------------------------
LEMMA NewsStep == NewsInv /\ [Next]_vars => NewsInv'
<1> SUFFICES ASSUME NewsInv, [Next]_vars PROVE NewsInv'
  OBVIOUS
<1>1. CASE UNCHANGED vars
  <2>1. UNCHANGED <<status, dropped, known, heard, regs, observing, mainq, screen, products, rows>>
    BY <1>1 DEF vars
  <2>2. UNCHANGED <<NewsTypes, NewsGrows, PlainFirst, RowsExist, NothingTwice, NothingReleased, ListIsLatest>>
    BY <2>1 DEF NewsTypes, Posted, NewsGrows, PlainFirst, RowsExist, NothingTwice, NothingReleased,
                ListIsLatest, Latest
  <2> QED BY <2>1, <2>2 DEF NewsInv
<1>2. CASE \E o \in Orders : Post(o) \/ Take(o) \/ Drop(o)
  BY <1>2, DatabaseStep
<1>3. CASE \E o \in Orders : HearDetail(o)
  BY <1>3, HearDetailStep
<1>4. CASE Observe
  BY <1>4, ObserveStep
<1>5. CASE HearProducts
  BY <1>5, HearProductsStep
<1>6. CASE ViewDidLoad \/ ViewDidAppear
  <2>1. /\ GetData /\ screen' # "closed"
        /\ UNCHANGED <<status, dropped, known, heard, regs, mainq, products, rows>>
    BY <1>6 DEF ViewDidLoad, ViewDidAppear, database, client
  <2> QED BY <2>1, GetDataStep
<1>7. CASE DidSelectRow \/ LeaveTab
  BY <1>7, LeaveStep
<1>8. CASE PlainEvent
  BY <1>8, PlainEventStep
<1>9. CASE FilterEvent
  BY <1>9, FilterEventStep
<1>10. CASE DetailEvent
  BY <1>10, DetailEventStep
<1> QED
  BY <1>1, <1>2, <1>3, <1>4, <1>5, <1>6, <1>7, <1>8, <1>9, <1>10 DEF Next

LEMMA NewsInductive == TabSpec => []NewsInv
<1>1. TabInit => NewsInv
  BY NewsInitInv DEF TabInit
<1>2. [TabNext]_<<vars, card>> => [Next]_vars
  BY DEF TabNext
<1> QED BY <1>1, <1>2, NewsStep, PTL DEF TabSpec

(* A row that is tapped or drawn has its order in the list, at whatever     *)
(* stale index rows have been removed and in whatever order lists are       *)
(* loaded (NewsControllerPresenter.swift:28-47, 61-66, 107-112).            *)
THEOREM RowsHaveOrders == TabSpec => []RowsExist
<1>1. NewsInv => RowsExist
  BY DEF NewsInv
<1> QED BY <1>1, NewsInductive, PTL

(* No order is twice in the list or in the table, however often it is       *)
(* loaded (NewsControllerPresenter.swift:28-47).                            *)
THEOREM NoOrderTwice == TabSpec => []NothingTwice
<1>1. NewsInv => NothingTwice
  BY DEF NewsInv
<1> QED BY <1>1, NewsInductive, PTL

(* While no shipper has dropped an order, the table and the list have the   *)
(* same orders once nothing is on its way, and every order that nobody has  *)
(* taken is one of them (NewsControllerPresenter.swift:28-47).              *)
THEOREM NothingMissing == TabSpec => []FreeOrdersListed
<1>1. NewsInv => FreeOrdersListed
  <2> SUFFICES ASSUME NewsInv, Quiet, dropped = {}
               PROVE  /\ Range(rows) = Range(products)
                      /\ {o \in Posted : status[o] = "posted"} \subseteq Range(rows)
    BY DEF FreeOrdersListed
  <2>1. ToSet(mainq) = {} /\ heard = Posted /\ heard # Unheard
    BY EmptyQueue, Markers DEF Quiet
  <2>2. ToSet(rows) = Posted /\ ToSet(products) = Posted
    BY <2>1 DEF NewsInv, ListIsLatest
  <2> QED BY <2>2 DEF Range, ToSet
<1> QED BY <1>1, NewsInductive, PTL
--------------------------------------------------------------------------------
(* The cards.  Which record each label is written from.                     *)
Names  == {"Login", "DetailProduct", "Coordinate", "Item", "Receiver"}
Labels == {"photo", "time", "price", "places", "name", "goods", "receiver"}
From(k) == [name |-> "Login", price |-> "DetailProduct", places |-> "Coordinate",
            goods |-> "Item", receiver |-> "Receiver", photo |-> Cards[k].photo, time |-> "nothing"]

AskedBy(k) == ToSet(Cards[k].ask) \cup ToSet(Cards[k].join)

RecordsOf(o) == {Record(n, o) : n \in Names}

(* The answers that are still to come, and whether one will write label l,  *)
(* at once or because the detail makes the card ask for it.                 *)
OnTheWay    == ToSet(asked) \cup ToSet(coming) \cup (ToSet(waiting) \ cache)
Expected(n) == \E r \in OnTheWay : r.name = n
Awaited(l)  ==
  \/ Expected(From(kind)[l])
  \/ From(kind)[l] \in ToSet(Cards[kind].join) /\ Expected("DetailProduct")
  \/ l = "photo" /\ loading # <<>>

(* What label l must be when nothing is awaited for it.                     *)
Good(l) == IF mixed THEN shown[l] # Blank \/ (kind \in Screens /\ l = "time")
           ELSE shown[l] \in Of(order, l)

CardTypes ==
  /\ kind \in Kinds /\ order \in Listed \cup {Nobody} /\ newer \subseteq Listed /\ mixed \in BOOLEAN
  /\ asked \in Seq(Records) /\ waiting \in Seq(Records) /\ coming \in Seq(Records)
  /\ loading \in Seq(Records) /\ photos \subseteq Records
  /\ kind \in DOMAIN Cards => shown = [l \in Cards[kind].labels |-> shown[l]]
  /\ kind \in Screens => shown["time"] = Blank
  /\ kind \in DOMAIN Cards =>
       \A r \in ToSet(asked) \cup ToSet(waiting) \cup ToSet(coming) : r.name \in AskedBy(kind)

(* Every label is good or awaited, and unless the card has mixed orders all *)
(* that is under way is of the order it is bound to.                        *)
CardInv ==
  /\ CardTypes
  /\ order # Nobody =>
       /\ kind \in DOMAIN Cards
       /\ \A l \in Cards[kind].labels : Good(l) \/ Awaited(l)
       /\ ~mixed => /\ OnTheWay \subseteq RecordsOf(order)
                    /\ ToSet(loading) \subseteq {Record(Cards[kind].photo, order)}
                    /\ newer \subseteq {order}

(* The five kinds of card.                                                  *)
LEMMA CardFacts ==
  ASSUME NEW k \in DOMAIN Cards
  PROVE  /\ Cards[k].labels \subseteq Labels /\ Cards[k].now \subseteq Cards[k].labels
         /\ Cards[k].photo \in {"Login", "Item"}
         /\ "photo" \in Cards[k].labels /\ "photo" \notin Cards[k].now
         /\ Cards[k].ask \in Seq(Names) /\ Cards[k].join \in Seq(Names)
         /\ \A l \in Cards[k].labels \ Cards[k].now :
              \/ From(k)[l] \in ToSet(Cards[k].ask)
              \/ From(k)[l] \in ToSet(Cards[k].join) /\ "DetailProduct" \in ToSet(Cards[k].ask)
              \/ k \in Screens /\ l = "time"
              \/ k = "shopCell" /\ l = "photo"
         /\ \A l \in Cards[k].now : l # "photo" /\ l # "goods"
         /\ k \in Screens => Cards[k].now = {} /\ "time" \in Cards[k].labels
         /\ k # "shopCell" => "name" \notin Cards[k].now
         /\ k = "shopCell" => AskedBy(k) = {} /\ Cards[k].photo = "Item"
         /\ "Item" \in AskedBy(k) => Cards[k].photo = "Item"
<1>1. k \in {"newsCell", "storageCell", "newsScreen", "storageScreen", "shopCell"}
  BY DEF Cards
<1>2. /\ <<>> \in Seq(Names) /\ ToSet(<<>>) = {}
      /\ <<"Login", "DetailProduct">> \in Seq(Names)
      /\ ToSet(<<"Login", "DetailProduct">>) = {"Login", "DetailProduct"}
      /\ <<"Login", "Coordinate">> \in Seq(Names)
      /\ ToSet(<<"Login", "Coordinate">>) = {"Login", "Coordinate"}
      /\ <<"Coordinate", "Item">> \in Seq(Names)
      /\ ToSet(<<"Coordinate", "Item">>) = {"Coordinate", "Item"}
      /\ <<"Coordinate">> \in Seq(Names) /\ ToSet(<<"Coordinate">>) = {"Coordinate"}
      /\ <<"Receiver", "Coordinate", "Item">> \in Seq(Names)
      /\ ToSet(<<"Receiver", "Coordinate", "Item">>) = {"Receiver", "Coordinate", "Item"}
  BY DEF Names, ToSet
<1>f. /\ From(k)["name"] = "Login" /\ From(k)["price"] = "DetailProduct"
      /\ From(k)["places"] = "Coordinate" /\ From(k)["goods"] = "Item"
      /\ From(k)["receiver"] = "Receiver" /\ From(k)["photo"] = Cards[k].photo
  BY DEF From
<1>3. CASE k = "newsCell"
  <2>1. Cards[k] = NewsCell
    BY <1>3 DEF Cards
  <2>2. /\ Cards[k].labels = {"photo", "time", "price", "places", "name"}
        /\ Cards[k].now = {"time"}
        /\ Cards[k].ask = <<"Login", "DetailProduct">> /\ Cards[k].join = <<"Coordinate">> /\ Cards[k].photo = "Login"
    BY <2>1 DEF NewsCell, NewsCellLabels
  <2> QED BY <1>2, <1>f, <1>3, <2>2 DEF Labels, Screens, AskedBy
<1>4. CASE k = "storageCell"
  <2>1. Cards[k] = StorageCell
    BY <1>4 DEF Cards
  <2>2. /\ Cards[k].labels = {"photo", "time", "price", "places", "name"}
        /\ Cards[k].now = {"time", "price"}
        /\ Cards[k].ask = <<"Login", "Coordinate">> /\ Cards[k].join = <<>> /\ Cards[k].photo = "Login"
    BY <2>1 DEF StorageCell, StorageCellLabels
  <2> QED BY <1>2, <1>f, <1>4, <2>2 DEF Labels, Screens, AskedBy
<1>5. CASE k = "newsScreen"
  <2>1. Cards[k] = NewsScreen
    BY <1>5 DEF Cards
  <2>2. /\ Cards[k].labels = {"photo", "time", "price", "places", "name", "goods"}
        /\ Cards[k].now = {}
        /\ Cards[k].ask = <<"Login", "DetailProduct">> /\ Cards[k].join = <<"Coordinate", "Item">> /\ Cards[k].photo = "Item"
    BY <2>1 DEF NewsScreen, NewsScreenLabels
  <2> QED BY <1>2, <1>f, <1>5, <2>2 DEF Labels, Screens, AskedBy
<1>6. CASE k = "storageScreen"
  <2>1. Cards[k] = StorageScreen
    BY <1>6 DEF Cards
  <2>2. /\ Cards[k].labels = {"photo", "time", "price", "places", "name", "goods", "receiver"}
        /\ Cards[k].now = {}
        /\ Cards[k].ask = <<"Login", "DetailProduct">> /\ Cards[k].join = <<"Receiver", "Coordinate", "Item">> /\ Cards[k].photo = "Item"
    BY <2>1 DEF StorageScreen, StorageScreenLabels
  <2> QED BY <1>2, <1>f, <1>6, <2>2 DEF Labels, Screens, AskedBy
<1>7. CASE k = "shopCell"
  BY <1>2, <1>7 DEF Cards, ShopCell, ShopCellLabels, Labels, From, Screens, AskedBy
<1> QED BY <1>1, <1>3, <1>4, <1>5, <1>6, <1>7

(* The types the apps read fit those the shop app writes, but for the item. *)
LEMMA SchemasFit ==
  ASSUME NEW x
  PROVE  /\ Text({"fullName", "Phonenumber", "CMND"}, Login, x) = x
         /\ Text({"tienShip", "tienUng"}, DetailProduct, x) = x
         /\ Text({"NameCoordinates"}, Coordinate, x) = x
         /\ Text({"nameReceiver", "phoneReceiver"}, Receiver, x) = x
         /\ \A l \in {"time", "price", "places", "receiver", "name"} : ProductApp(x)[l] = x
<1>1. Text({"fullName", "Phonenumber", "CMND"}, Login, x) = x
  BY DEF Text, Login, Fits, WrittenLogin
<1>2. Text({"tienShip", "tienUng"}, DetailProduct, x) = x
  BY DEF Text, DetailProduct, Fits, WrittenDetailProduct
<1>3. Text({"NameCoordinates"}, Coordinate, x) = x
  BY DEF Text, Coordinate, Fits, WrittenCoordinate
<1>4. AsTexts(WrittenReceiver) = WrittenReceiver
  BY DEF AsTexts, WrittenReceiver
<1>5. Text({"nameReceiver", "phoneReceiver"}, Receiver, x) = x
  BY <1>4 DEF Text, Receiver, Fits, WrittenReceiver
<1>6. Text({"IdDetailProduct"}, ShopDetail, x) = x /\ Text({"tienShip", "tienUng", "status"}, ShopDetail, x) = x
  BY DEF Text, ShopDetail, Fits, WrittenDetailProduct
<1>7. Text({"NameCoordinates"}, CoordinateApp, x) = x
  BY DEF Text, CoordinateApp, Fits, WrittenCoordinate
<1>8. Text({"nameReceiver", "phoneReceiver"}, ShopReceive, x) = x
  BY <1>4 DEF Text, ShopReceive, Fits, WrittenReceiver
<1>9. Text({"fullName", "Phonenumber"}, ShipInfo, x) = x
  BY DEF Text, ShipInfo, Fits, WrittenLogin
<1> QED BY <1>1, <1>2, <1>3, <1>5, <1>6, <1>7, <1>8, <1>9 DEF ProductApp

LEMMA RecordFacts ==
  /\ \A n \in Names, o \in Listed : Record(n, o) \in Records /\ Record(n, o).name = n
  /\ \A o : Record("Login", o).key = ShopOf[o]
  /\ \A o : \A n \in Names \ {"Login"} : Record(n, o).key = o
  /\ \A r \in Records : r.name \in Names
  /\ \A r \in Records : r.name = "Login" => r.key \in {ShopOf[o] : o \in Listed}
  /\ \A r \in Records : r.name # "Login" => r.key \in Listed /\ r = Record(r.name, r.key)
<1>1. Records = {Record(n, o) : n \in Names, o \in Listed}
  BY DEF Records, Names
<1>2. ASSUME NEW n \in Names, NEW o \in Listed
      PROVE  Record(n, o) \in Records /\ Record(n, o).name = n
  BY <1>1 DEF Record
<1>3. \A o : Record("Login", o).key = ShopOf[o]
  BY DEF Record
<1>4. \A o : \A n \in Names \ {"Login"} : Record(n, o).key = o
  BY DEF Record
<1>5. ASSUME NEW r \in Records
      PROVE  /\ r.name \in Names
             /\ r.name = "Login" => r.key \in {ShopOf[o] : o \in Listed}
             /\ r.name # "Login" => r.key \in Listed /\ r = Record(r.name, r.key)
  <2>1. PICK n \in Names, o \in Listed : r = Record(n, o)
    BY <1>1
  <2> QED BY <1>2, <1>3, <1>4, <2>1
<1> QED BY <1>2, <1>3, <1>4, <1>5

LEMMA MarkersApart ==
  /\ Blank \notin Records /\ Blank \notin Listed /\ Blank \notin {ShopOf[o] : o \in Listed}
  /\ Blank # NoText /\ Blank # NoPhoto /\ NoText \notin Records /\ Nobody \notin Listed
BY OrderCardAssumption

(* What a label may show of the order is not Blank.                         *)
LEMMA OfFacts ==
  ASSUME kind \in DOMAIN Cards, order \in Listed, NEW l \in Cards[kind].labels
  PROVE  Blank \notin Of(order, l) \/ (kind \in Screens /\ l = "time")
<1>1. Cards[kind].photo \in Names
  BY CardFacts DEF Names
<1>2. Record(Cards[kind].photo, order) \in Records /\ ShopOf[order] \in {ShopOf[o] : o \in Listed}
  BY <1>1, RecordFacts
<1> QED BY <1>2, MarkersApart DEF Of

LEMMA CardInitInv == TabInit => CardInv
<1> SUFFICES ASSUME TabInit PROVE CardInv
  OBVIOUS
<1> USE DEF TabInit, CardInit
<1>1. <<>> \in Seq(Records) /\ ToSet(<<>>) = {}
  BY EmptyQueue
<1>2. kind \in DOMAIN Cards => shown = [l \in Cards[kind].labels |-> shown[l]]
  OBVIOUS
<1>3. kind \in Screens => shown["time"] = Blank
  <2>1. Screens \subseteq DOMAIN Cards
    BY DEF Screens, Cards
  <2> QED BY <2>1, CardFacts
<1> QED BY <1>1, <1>2, <1>3 DEF CardInv, CardTypes

(* An answer moves on, or one is added: the labels are awaited as before.   *)
LEMMA AwaitedOn ==
  ASSUME CardInv, order # Nobody, UNCHANGED <<kind, order, shown, loading>>,
         mixed' = mixed \/ mixed' = TRUE, OnTheWay \subseteq OnTheWay'
  PROVE  \A l \in Cards[kind].labels : (Good(l) \/ Awaited(l))'
<1> SUFFICES ASSUME NEW l \in Cards[kind].labels PROVE (Good(l) \/ Awaited(l))'
  OBVIOUS
<1>1. kind \in DOMAIN Cards /\ order \in Listed /\ (Good(l) \/ Awaited(l))
  BY DEF CardInv, CardTypes
<1>2. Awaited(l) => Awaited(l)'
  BY DEF Awaited, Expected
<1>3. Good(l) => Good(l)'
  BY <1>1, OfFacts DEF Good, Of
<1> QED BY <1>1, <1>2, <1>3

(* A value of record n is handled: the labels written from other records    *)
(* are awaited as before.                                                   *)
LEMMA AwaitedElsewhere ==
  ASSUME CardInv, order # Nobody, UNCHANGED <<kind, order, mixed>>,
         NEW r \in Records, OnTheWay \subseteq OnTheWay' \cup {r},
         NEW l \in Cards[kind].labels, From(kind)[l] # r.name, shown'[l] = shown[l],
         l = "photo" /\ loading # <<>> => loading' # <<>>,
         r.name = "DetailProduct" => \A n \in ToSet(Cards[kind].join) : Expected(n)'
  PROVE  (Good(l) \/ Awaited(l))'
<1>1. Good(l) \/ Awaited(l)
  BY DEF CardInv
<1>2. Good(l) => Good(l)'
  BY DEF Good, Of
<1>3. \A n : Expected(n) /\ n # r.name => Expected(n)'
  BY DEF Expected
<1>4. Awaited(l) => Awaited(l)'
  BY <1>3 DEF Awaited
<1> QED BY <1>1, <1>2, <1>4

LEMMA AskingFacts ==
  ASSUME NEW names \in Seq(Names), NEW o \in Listed
  PROVE  /\ Asking(names, o) \in Seq(Records)
         /\ ToSet(Asking(names, o)) \subseteq RecordsOf(o)
         /\ \A n \in ToSet(names) : Record(n, o) \in ToSet(Asking(names, o))
         /\ \A m \in ToSet(Asking(names, o)) : m.name \in ToSet(names)
<1>1. /\ Len(names) \in Nat /\ DOMAIN names = 1..Len(names)
      /\ ToSet(names) = {names[k] : k \in 1..Len(names)}
      /\ \A k \in 1..Len(names) : names[k] \in Names
  BY ElementFacts, ElementOfSeq
<1>2. PICK a : a = Asking(names, o)
  OBVIOUS
<1>3. a = [k \in 1..Len(names) |-> Record(names[k], o)]
  BY <1>1, <1>2 DEF Asking
<1>4. a \in [1..Len(names) -> Records]
  BY <1>1, <1>3, RecordFacts
<1>5. a \in Seq(Records) /\ Len(a) = Len(names)
  BY <1>1, <1>4, FunctionFacts
<1>6. ToSet(a) = {a[k] : k \in 1..Len(names)}
  BY <1>5, ElementFacts
<1>7. \A k \in 1..Len(names) : a[k] = Record(names[k], o) /\ a[k] \in RecordsOf(o)
  BY <1>1, <1>3 DEF RecordsOf
<1>8. \A k \in 1..Len(names) : a[k].name = names[k]
  BY <1>1, <1>7, RecordFacts
<1> QED BY <1>1, <1>2, <1>5, <1>6, <1>7, <1>8

(* What a handler leaves to come.                                           *)
LEMMA HandledFacts ==
  ASSUME CardTypes, coming # <<>>, coming' = Tail(coming), UNCHANGED <<waiting, cache>>,
         NEW M, asked' \in Seq(Records), ToSet(asked') = ToSet(asked) \cup M
  PROVE  /\ Head(coming) \in Records /\ Head(coming) \in OnTheWay /\ coming' \in Seq(Records)
         /\ ToSet(coming') \subseteq ToSet(coming)
         /\ OnTheWay \subseteq OnTheWay' \cup {Head(coming)}
         /\ OnTheWay' \subseteq OnTheWay \cup M /\ M \subseteq OnTheWay'
<1>1. /\ Head(coming) \in Records /\ Tail(coming) \in Seq(Records)
      /\ ToSet(coming) = {Head(coming)} \cup ToSet(Tail(coming))
  BY TailFacts DEF CardTypes
<1> QED BY <1>1 DEF OnTheWay

LEMMA AskedForStep ==
  ASSUME CardInv, AskedFor
  PROVE  CardInv'
<1>1. PICK r \in Records : r = Head(asked)
  BY TailFacts DEF CardInv, CardTypes, AskedFor
<1>2. asked' \in Seq(Records) /\ ToSet(asked) = {r} \cup ToSet(asked')
  BY <1>1, TailFacts DEF CardInv, CardTypes, AskedFor
<1>3. /\ coming' \in Seq(Records)
      /\ ToSet(coming') = IF r \in cache THEN ToSet(coming) \cup {r} ELSE ToSet(coming)
  <2>1. Append(coming, r) \in Seq(Records) /\ ToSet(Append(coming, r)) = ToSet(coming) \cup {r}
    BY AppendElements DEF CardInv, CardTypes
  <2> QED BY <1>1, <2>1 DEF CardInv, CardTypes, AskedFor
<1>4. /\ waiting' \in Seq(Records)
      /\ ToSet(waiting') = ToSet(waiting) \/ ToSet(waiting') = ToSet(waiting) \cup {r}
      /\ r \notin cache => ToSet(waiting') = ToSet(waiting) \cup {r}
  BY <1>1, AppendElements DEF CardInv, CardTypes, AskedFor
<1>5. OnTheWay' = OnTheWay
  BY <1>2, <1>3, <1>4 DEF OnTheWay, AskedFor
<1>6. CardTypes'
  BY <1>2, <1>3, <1>4 DEF CardInv, CardTypes, AskedFor
<1>7. order # Nobody => \A l \in Cards[kind].labels : (Good(l) \/ Awaited(l))'
  BY <1>5, AwaitedOn DEF AskedFor
<1> QED BY <1>5, <1>6, <1>7 DEF CardInv, AskedFor

LEMMA FirstValueStep ==
  ASSUME CardInv, NEW r \in Records, FirstValue(r)
  PROVE  CardInv'
<1>1. r \in ToSet(waiting)
  BY ElementFacts DEF CardInv, CardTypes, FirstValue, Contains
<1>2. Answers(r) \in Seq(Records) /\ ToSet(Answers(r)) = {r}
  BY <1>1, SelectedSet DEF Answers, CardInv, CardTypes
<1>3. coming' \in Seq(Records) /\ ToSet(coming') = ToSet(coming) \cup {r}
  BY <1>2, ConcatFacts DEF CardInv, CardTypes, FirstValue
<1>4. /\ waiting' \in Seq(Records)
      /\ ToSet(waiting') = ToSet(waiting) \/ ToSet(waiting') = ToSet(waiting) \ {r}
  <2>1. /\ Selected(waiting, ToSet(waiting) \ {r}) \in Seq(Records)
        /\ ToSet(Selected(waiting, ToSet(waiting) \ {r})) = ToSet(waiting) \cap (ToSet(waiting) \ {r})
    BY SelectedSet DEF CardInv, CardTypes
  <2> QED BY <2>1 DEF CardInv, CardTypes, FirstValue
<1>5. OnTheWay' = OnTheWay
  BY <1>1, <1>3, <1>4 DEF OnTheWay, FirstValue
<1>6. CardTypes'
  BY <1>1, <1>3, <1>4 DEF CardInv, CardTypes, FirstValue
<1>7. order # Nobody => \A l \in Cards[kind].labels : (Good(l) \/ Awaited(l))'
  BY <1>5, AwaitedOn DEF FirstValue
<1> QED BY <1>5, <1>6, <1>7 DEF CardInv, FirstValue

LEMMA ChangeStep ==
  ASSUME CardInv, NEW o \in Listed, ChangesHands(o) \/ NewValue(o)
  PROVE  CardInv'
<1>1. CASE ChangesHands(o)
  <2>1. OnTheWay' = OnTheWay
    BY <1>1 DEF OnTheWay, ChangesHands
  <2>2. CardTypes' /\ (mixed' = mixed \/ mixed' = TRUE)
    BY <1>1 DEF CardInv, CardTypes, ChangesHands
  <2>3. order # Nobody => \A l \in Cards[kind].labels : (Good(l) \/ Awaited(l))'
    BY <1>1, <2>1, <2>2, AwaitedOn DEF ChangesHands
  <2> QED BY <1>1, <2>1, <2>2, <2>3 DEF CardInv, ChangesHands
<1>2. CASE NewValue(o)
  <2>1. PICK r \in Records : r = Record("DetailProduct", o) /\ r \in RecordsOf(o)
    BY RecordFacts DEF RecordsOf, Names
  <2>2. Answers(r) \in Seq(Records) /\ ToSet(Answers(r)) \subseteq {r} \cap ToSet(waiting)
    BY SelectedSet DEF Answers, CardInv, CardTypes
  <2>3. coming' \in Seq(Records) /\ ToSet(coming') = ToSet(coming) \cup ToSet(Answers(r))
    BY <1>2, <2>1, <2>2, ConcatFacts DEF CardInv, CardTypes, NewValue
  <2>4. OnTheWay \subseteq OnTheWay' /\ OnTheWay' \subseteq OnTheWay \cup {r}
    BY <1>2, <2>2, <2>3 DEF OnTheWay, NewValue
  <2>5. CardTypes'
    BY <1>2, <2>2, <2>3 DEF CardInv, CardTypes, NewValue
  <2>6. order # Nobody => \A l \in Cards[kind].labels : (Good(l) \/ Awaited(l))'
    BY <1>2, <2>4, AwaitedOn DEF NewValue
  <2>7. order # Nobody /\ ~mixed => o = order
    BY <1>2 DEF CardInv, NewValue
  <2> QED BY <1>2, <2>1, <2>4, <2>5, <2>6, <2>7 DEF CardInv, NewValue
<1> QED BY <1>1, <1>2

(* A value has come, and its labels are dealt with.                         *)
LEMMA ValueStep ==
  ASSUME CardInv, kind \in DOMAIN Cards, NEW name, Comes(name), NEW r, r = Head(coming),
         NEW M, asked' \in Seq(Records), ToSet(asked') = ToSet(asked) \cup M,
         \A o : r \in RecordsOf(o) => M \subseteq RecordsOf(o),
         \A m \in M : m.name \in AskedBy(kind),
         name = "DetailProduct" => \A n \in ToSet(Cards[kind].join) : \E m \in M : m.name = n,
         loading' \in Seq(Records), loading # <<>> => loading' # <<>>,
         \/ ToSet(loading') = ToSet(loading)
         \/ name = Cards[kind].photo /\ ToSet(loading') \subseteq ToSet(loading) \cup {r},
         shown' = [l \in Cards[kind].labels |-> shown'[l]],
         \A l \in Cards[kind].labels : From(kind)[l] # name => shown'[l] = shown[l],
         \A l \in Cards[kind].labels :
           order # Nobody /\ From(kind)[l] = name => (Good(l) \/ Awaited(l))'
  PROVE  CardInv'
<1>1. r \in Records /\ r.name = name /\ name \in Names
  <2>1. coming \in Seq(Records) /\ coming # <<>> /\ r.name = name
    BY DEF CardInv, CardTypes, Comes
  <2> QED BY <2>1, RecordFacts, TailFacts
<1>2. /\ r \in OnTheWay /\ coming' \in Seq(Records) /\ ToSet(coming') \subseteq ToSet(coming)
      /\ OnTheWay \subseteq OnTheWay' \cup {r}
      /\ OnTheWay' \subseteq OnTheWay \cup M /\ M \subseteq OnTheWay'
  BY HandledFacts DEF Comes, CardInv
<1>3. ASSUME order # Nobody, NEW l \in Cards[kind].labels PROVE (Good(l) \/ Awaited(l))'
  <2>1. CASE From(kind)[l] = name
    BY <1>3, <2>1
  <2>2. CASE From(kind)[l] # name
    <3>1. shown'[l] = shown[l]
      BY <2>2
    <3>2. name = "DetailProduct" => \A n \in ToSet(Cards[kind].join) : Expected(n)'
      BY <1>2 DEF Expected
    <3> QED BY <1>1, <1>2, <1>3, <2>2, <3>1, <3>2, AwaitedElsewhere DEF Comes
  <2> QED BY <2>1, <2>2
<1>4. CardTypes'
  <2>1. kind \in Screens => shown'["time"] = shown["time"]
    <3>1. From(kind)["time"] = "nothing" /\ "nothing" \notin Names
      BY DEF From, Names
    <3> QED BY <1>1, <3>1, CardFacts
  <2>2. \A m \in ToSet(asked') \cup ToSet(waiting') \cup ToSet(coming') : m.name \in AskedBy(kind)
    BY <1>2 DEF CardInv, CardTypes, Comes
  <2> QED BY <1>2, <2>1, <2>2 DEF CardInv, CardTypes, Comes
<1>5. ASSUME order # Nobody, ~mixed
      PROVE  /\ OnTheWay' \subseteq RecordsOf(order)
             /\ ToSet(loading') \subseteq {Record(Cards[kind].photo, order)}
  <2>1. r \in RecordsOf(order)
    BY <1>2, <1>5 DEF CardInv
  <2>2. r = Record(name, order)
    <3>1. PICK n \in Names : r = Record(n, order)
      BY <2>1 DEF RecordsOf
    <3>2. Record(n, order).name = n
      BY DEF Record
    <3> QED BY <1>1, <3>1, <3>2
  <2> QED BY <1>2, <1>5, <2>1, <2>2 DEF CardInv
<1> QED BY <1>3, <1>4, <1>5 DEF CardInv, Comes

LEMMA PhotoFacts ==
  ASSUME CardTypes, NEW url, url \in Records \/ url = NoText, NEW D, "photo" \in D,
         NEW s, s = [l \in D |-> s[l]], LoadPhoto(url, s)
  PROVE  /\ loading' \in Seq(Records) /\ (loading # <<>> => loading' # <<>>)
         /\ \/ ToSet(loading') = ToSet(loading)
            \/ url # NoText /\ ToSet(loading') = ToSet(loading) \cup {url}
         /\ shown' = [l \in D |-> shown'[l]]
         /\ \A l \in D : l # "photo" => shown'[l] = s[l]
         /\ \/ shown'["photo"] = NoPhoto
            \/ url # NoText /\ shown'["photo"] = url
            \/ loading' # <<>>
<1>1. url \in Records => /\ Append(loading, url) \in Seq(Records)
                         /\ ToSet(Append(loading, url)) = ToSet(loading) \cup {url}
  BY AppendElements DEF CardTypes
<1>2. url \in Records => Append(loading, url) # <<>>
  BY <1>1, ElementFacts
<1>3. photos \subseteq Records /\ NoText \notin Records
  BY MarkersApart DEF CardTypes
<1>4. /\ loading' \in Seq(Records) /\ (loading # <<>> => loading' # <<>>)
      /\ \/ ToSet(loading') = ToSet(loading)
         \/ url # NoText /\ ToSet(loading') = ToSet(loading) \cup {url}
  BY <1>1, <1>2, <1>3 DEF LoadPhoto, CardTypes
<1>5. \/ shown'["photo"] = NoPhoto
      \/ url # NoText /\ shown'["photo"] = url
      \/ loading' # <<>>
  BY <1>2, <1>3 DEF LoadPhoto
<1>6. shown' = [l \in D |-> shown'[l]] /\ \A l \in D : l # "photo" => shown'[l] = s[l]
  BY DEF LoadPhoto
<1> QED BY <1>4, <1>5, <1>6

(* The order whose record has come: that of the card, unless it is mixed.   *)
LEMMA ComesFacts ==
  ASSUME CardInv, kind \in DOMAIN Cards, NEW name, Comes(name), NEW r, r = Head(coming)
  PROVE  /\ r \in Records /\ r.name = name /\ name \in Names /\ kind # "shopCell"
         /\ name = "Item" => Cards[kind].photo = "Item"
         /\ name = "Login" => r.key \in {ShopOf[o] : o \in Listed}
         /\ name # "Login" => r.key \in Listed /\ r = Record(name, r.key)
         /\ order # Nobody /\ ~mixed =>
              /\ r = Record(name, order)
              /\ name = "Login" => r.key = ShopOf[order]
              /\ name # "Login" => r.key = order
<1>1. r \in Records /\ r.name = name /\ r \in ToSet(coming)
  <2>1. coming \in Seq(Records) /\ coming # <<>> /\ r.name = name
    BY DEF CardInv, CardTypes, Comes
  <2> QED BY <2>1, TailFacts
<1>2. r.name \in AskedBy(kind)
  BY <1>1 DEF CardInv, CardTypes
<1>3. ASSUME order # Nobody, ~mixed PROVE r = Record(name, order)
  <2>1. r \in RecordsOf(order)
    BY <1>1, <1>3 DEF CardInv, OnTheWay
  <2>2. PICK n \in Names : r = Record(n, order)
    BY <2>1 DEF RecordsOf
  <2>3. Record(n, order).name = n
    BY DEF Record
  <2> QED BY <1>1, <2>2, <2>3
<1>4. kind # "shopCell" /\ (name = "Item" => Cards[kind].photo = "Item")
  BY <1>1, <1>2, CardFacts
<1> QED BY <1>1, <1>3, <1>4, RecordFacts

(* A label written by a handler.                                            *)
LEMMA WrittenLabel ==
  ASSUME CardInv, kind \in DOMAIN Cards, order # Nobody, UNCHANGED <<kind, order, mixed>>,
         NEW l \in Cards[kind].labels,
         mixed => shown'[l] # Blank, ~mixed => shown'[l] \in Of(order, l)
  PROVE  Good(l)'
BY DEF Good, Of, CardInv, CardTypes

LEMMA FromFacts ==
  ASSUME NEW k \in DOMAIN Cards, NEW l \in Labels
  PROVE  /\ From(k)[l] = "Login" => l \in {"name", "photo"}
         /\ From(k)[l] = "DetailProduct" => l = "price"
         /\ From(k)[l] = "Coordinate" => l = "places"
         /\ From(k)[l] = "Receiver" => l = "receiver"
         /\ From(k)[l] = "Item" => l \in {"goods", "photo"}
         /\ l = "name" => From(k)[l] = "Login"
         /\ l = "goods" => From(k)[l] = "Item"
         /\ l = "photo" => From(k)[l] = Cards[k].photo
BY CardFacts DEF From, Labels

(* A value that only writes labels.                                         *)
LEMMA LabelStep ==
  ASSUME CardInv, kind \in DOMAIN Cards, NEW name \in Names \ {"DetailProduct"}, Comes(name),
         UNCHANGED <<asked, loading>>,
         shown' = [l \in Cards[kind].labels |-> shown'[l]],
         \A l \in Cards[kind].labels : From(kind)[l] # name => shown'[l] = shown[l],
         \A l \in Cards[kind].labels : order # Nobody /\ From(kind)[l] = name => Good(l)'
  PROVE  CardInv'
<1>1. PICK r : r = Head(coming)
  OBVIOUS
<1>2. PICK M : M = {}
  OBVIOUS
<1>3. /\ asked' \in Seq(Records) /\ ToSet(asked') = ToSet(asked) \cup M
      /\ loading' \in Seq(Records) /\ ToSet(loading') = ToSet(loading)
  BY <1>2 DEF CardInv, CardTypes
<1>4. \A o : r \in RecordsOf(o) => M \subseteq RecordsOf(o)
  BY <1>2
<1>5. name = "DetailProduct" => \A n \in ToSet(Cards[kind].join) : \E m \in M : m.name = n
  OBVIOUS
<1>6. \A l \in Cards[kind].labels : order # Nobody /\ From(kind)[l] = name => (Good(l) \/ Awaited(l))'
  OBVIOUS
<1>7. \A m \in M : m.name \in AskedBy(kind)
  BY <1>2
<1> QED BY <1>1, <1>3, <1>4, <1>5, <1>6, <1>7, ValueStep

LEMMA PlainValueStep ==
  ASSUME CardInv, kind \in DOMAIN Cards, CoordinateValue \/ ReceiverValue \/ DetailProductValue
  PROVE  CardInv'
<1>1. PICK r : r = Head(coming)
  OBVIOUS
<1>s. /\ shown = [l \in Cards[kind].labels |-> shown[l]] /\ Cards[kind].labels \subseteq Labels
      /\ asked \in Seq(Records) /\ loading \in Seq(Records) /\ ToSet(asked) = ToSet(asked) \cup {}
  BY CardFacts DEF CardInv, CardTypes
<1>2. CASE CoordinateValue
  <2>1. /\ r \in Records /\ Comes("Coordinate") /\ r.key \in Listed /\ kind # "shopCell"
        /\ order # Nobody /\ ~mixed => r.key = order
    BY <1>1, <1>2, ComesFacts DEF CoordinateValue
  <2>2. shown' = [shown EXCEPT !["places"] = r.key]
    BY <1>1, <1>2, SchemasFit DEF CoordinateValue
  <2>3. /\ shown' = [l \in Cards[kind].labels |-> shown'[l]]
        /\ \A l \in Cards[kind].labels : shown'[l] = IF l = "places" THEN r.key ELSE shown[l]
    BY <1>s, <2>2
  <2>4. \A l \in Cards[kind].labels : From(kind)[l] # "Coordinate" => shown'[l] = shown[l]
    BY <2>3 DEF From
  <2>5. ASSUME NEW l \in Cards[kind].labels, order # Nobody, From(kind)[l] = "Coordinate"
        PROVE  Good(l)'
    <3>1. l = "places" /\ shown'[l] = r.key
      BY <1>s, <2>3, <2>5, FromFacts
    <3> QED BY <2>1, <2>5, <3>1, WrittenLabel, MarkersApart DEF Of, Comes
  <2> QED BY <1>1, <1>2, <1>s, <2>1, <2>3, <2>4, <2>5, LabelStep DEF CoordinateValue, Names
<1>3. CASE ReceiverValue
  <2>1. /\ r \in Records /\ Comes("Receiver") /\ r.key \in Listed /\ kind # "shopCell"
        /\ order # Nobody /\ ~mixed => r.key = order
    BY <1>1, <1>3, ComesFacts DEF ReceiverValue
  <2>2. shown' = [shown EXCEPT !["receiver"] = r.key]
    BY <1>1, <1>3, SchemasFit DEF ReceiverValue
  <2>3. /\ shown' = [l \in Cards[kind].labels |-> shown'[l]]
        /\ \A l \in Cards[kind].labels : shown'[l] = IF l = "receiver" THEN r.key ELSE shown[l]
    BY <1>s, <2>2
  <2>4. \A l \in Cards[kind].labels : From(kind)[l] # "Receiver" => shown'[l] = shown[l]
    BY <2>3 DEF From
  <2>5. ASSUME NEW l \in Cards[kind].labels, order # Nobody, From(kind)[l] = "Receiver"
        PROVE  Good(l)'
    <3>1. l = "receiver" /\ shown'[l] = r.key
      BY <1>s, <2>3, <2>5, FromFacts
    <3> QED BY <2>1, <2>5, <3>1, WrittenLabel, MarkersApart DEF Of, Comes
  <2> QED BY <1>1, <1>3, <1>s, <2>1, <2>3, <2>4, <2>5, LabelStep DEF ReceiverValue, Names
<1>4. CASE DetailProductValue
  <2>1. /\ r \in Records /\ Comes("DetailProduct") /\ r.key \in Listed /\ kind # "shopCell"
        /\ order # Nobody /\ ~mixed => r.key = order
        /\ r = Record("DetailProduct", r.key)
    BY <1>1, <1>4, ComesFacts DEF DetailProductValue
  <2>2. shown' = [shown EXCEPT !["price"] = r.key]
    BY <1>1, <1>4, SchemasFit DEF DetailProductValue
  <2>3. /\ shown' = [l \in Cards[kind].labels |-> shown'[l]]
        /\ \A l \in Cards[kind].labels : shown'[l] = IF l = "price" THEN r.key ELSE shown[l]
    BY <1>s, <2>2
  <2>4. \A l \in Cards[kind].labels : From(kind)[l] # "DetailProduct" => shown'[l] = shown[l]
    BY <2>3 DEF From
  <2>5. ASSUME NEW l \in Cards[kind].labels, order # Nobody, From(kind)[l] = "DetailProduct"
        PROVE  Good(l)'
    <3>1. l = "price" /\ shown'[l] = r.key
      BY <1>s, <2>3, <2>5, FromFacts
    <3> QED BY <2>1, <2>5, <3>1, WrittenLabel, MarkersApart DEF Of, Comes
  <2>6. PICK a \in Seq(Records) : /\ a = Asking(Cards[kind].join, r.key)
                                  /\ ToSet(a) \subseteq RecordsOf(r.key)
                                  /\ \A m \in ToSet(a) : m.name \in AskedBy(kind)
                                  /\ \A n \in ToSet(Cards[kind].join) : Record(n, r.key) \in ToSet(a)
    BY <2>1, CardFacts, AskingFacts DEF AskedBy
  <2>7. asked' \in Seq(Records) /\ ToSet(asked') = ToSet(asked) \cup ToSet(a)
    BY <1>1, <1>4, <1>s, <2>6, ConcatFacts DEF DetailProductValue
  <2>8. \A o : r \in RecordsOf(o) => o = r.key
    <3>1. SUFFICES ASSUME NEW o, r \in RecordsOf(o) PROVE o = r.key
      OBVIOUS
    <3>2. PICK n \in Names : r = Record(n, o)
      BY <3>1 DEF RecordsOf
    <3>3. n = "DetailProduct"
      BY <2>1, <3>2 DEF Record
    <3> QED BY <2>1, <3>2, <3>3, RecordFacts DEF Names
  <2>9. \A n \in ToSet(Cards[kind].join) : \E m \in ToSet(a) : m.name = n
    BY <2>6 DEF Record
  <2>10. PICK M : M = ToSet(a)
    OBVIOUS
  <2>11. \A o : r \in RecordsOf(o) => M \subseteq RecordsOf(o)
    BY <2>6, <2>8, <2>10
  <2>12. /\ loading' \in Seq(Records) /\ ToSet(loading') = ToSet(loading)
         /\ loading # <<>> => loading' # <<>>
         /\ \A m \in M : m.name \in AskedBy(kind)
    BY <1>4, <2>6, <2>10, <1>s DEF DetailProductValue
  <2>13. \A l \in Cards[kind].labels :
           order # Nobody /\ From(kind)[l] = "DetailProduct" => (Good(l) \/ Awaited(l))'
    BY <2>5
  <2> QED BY <1>1, <2>1, <2>3, <2>4, <2>7, <2>9, <2>10, <2>11, <2>12, <2>13, ValueStep
<1> QED BY <1>2, <1>3, <1>4

(* A value that may have the photo's url.                                   *)
LEMMA PhotoStep ==
  ASSUME CardInv, kind \in DOMAIN Cards, NEW name \in {"Login", "Item"}, Comes(name),
         NEW r, r = Head(coming), NEW s, s = [l \in Cards[kind].labels |-> s[l]],
         NEW url, url = r \/ url = NoText,
         IF Cards[kind].photo = name THEN LoadPhoto(url, s) ELSE shown' = s /\ UNCHANGED loading,
         UNCHANGED asked,
         \A l \in Cards[kind].labels : From(kind)[l] # name => s[l] = shown[l],
         \A l \in Cards[kind].labels \ {"photo"} :
           order # Nobody /\ From(kind)[l] = name =>
             /\ mixed => s[l] # Blank
             /\ ~mixed => s[l] \in Of(order, l)
  PROVE  CardInv'
<1>2. /\ r \in Records /\ kind # "shopCell" /\ name \in Names
      /\ order # Nobody /\ ~mixed => r = Record(name, order)
  BY ComesFacts
<1>s. /\ Cards[kind].labels \subseteq Labels
      /\ asked \in Seq(Records) /\ loading \in Seq(Records) /\ CardTypes
      /\ "photo" \in Cards[kind].labels
  BY CardFacts DEF CardInv, CardTypes
<1>8. /\ loading' \in Seq(Records) /\ (loading # <<>> => loading' # <<>>)
      /\ \/ ToSet(loading') = ToSet(loading)
         \/ name = Cards[kind].photo /\ ToSet(loading') \subseteq ToSet(loading) \cup {r}
      /\ shown' = [l \in Cards[kind].labels |-> shown'[l]]
      /\ \A l \in Cards[kind].labels : l # "photo" => shown'[l] = s[l]
      /\ Cards[kind].photo # name => shown'["photo"] = s["photo"]
      /\ Cards[kind].photo = name =>
           shown'["photo"] = NoPhoto \/ shown'["photo"] = r \/ loading' # <<>>
  <2>1. CASE Cards[kind].photo = name
    <3> DEFINE D == Cards[kind].labels
    <3>1. "photo" \in D /\ s = [l \in D |-> s[l]] /\ (url \in Records \/ url = NoText)
          /\ LoadPhoto(url, s) /\ CardTypes
      BY <1>2, <1>s, <2>1
    <3> HIDE DEF D
    <3>2. /\ loading' \in Seq(Records) /\ (loading # <<>> => loading' # <<>>)
          /\ \/ ToSet(loading') = ToSet(loading)
             \/ url # NoText /\ ToSet(loading') = ToSet(loading) \cup {url}
          /\ shown' = [l \in D |-> shown'[l]]
          /\ \A l \in D : l # "photo" => shown'[l] = s[l]
          /\ \/ shown'["photo"] = NoPhoto
             \/ url # NoText /\ shown'["photo"] = url
             \/ loading' # <<>>
      BY <3>1, PhotoFacts
    <3> QED BY <2>1, <3>2 DEF D
  <2>2. CASE Cards[kind].photo # name
    BY <1>s, <2>2
  <2> QED BY <2>1, <2>2
<1>f. From(kind)["photo"] = Cards[kind].photo
  BY <1>s, FromFacts
<1>9. \A l \in Cards[kind].labels : From(kind)[l] # name => shown'[l] = shown[l]
  BY <1>8, <1>f
<1>10. ASSUME NEW l \in Cards[kind].labels, order # Nobody, From(kind)[l] = name
       PROVE  (Good(l) \/ Awaited(l))'
  <2>2. CASE l # "photo"
    <3>1. shown'[l] = s[l]
      BY <1>8, <2>2
    <3>2. Good(l)'
      BY <1>10, <2>2, <3>1, WrittenLabel DEF Comes
    <3> QED BY <3>2
  <2>3. CASE l = "photo" /\ loading' # <<>>
    BY <2>3 DEF Awaited
  <2>4. CASE l = "photo" /\ loading' = <<>>
    <3>1. (shown'[l] = NoPhoto \/ shown'[l] = r) /\ Cards[kind].photo = name
      BY <1>8, <1>10, <1>f, <2>4
    <3>2. Good(l)'
      BY <1>10, <1>2, <2>4, <3>1, WrittenLabel, MarkersApart DEF Of, Comes
    <3> QED BY <3>2
  <2> QED BY <2>2, <2>3, <2>4
<1>11. PICK M : M = {}
  OBVIOUS
<1>12. /\ asked' \in Seq(Records) /\ ToSet(asked') = ToSet(asked) \cup M
       /\ \A o : r \in RecordsOf(o) => M \subseteq RecordsOf(o)
       /\ \A m \in M : m.name \in AskedBy(kind)
       /\ name # "DetailProduct"
  BY <1>11, <1>s
<1> QED BY <1>8, <1>9, <1>10, <1>12, ValueStep

LEMMA LoginStep ==
  ASSUME CardInv, kind \in DOMAIN Cards, LoginValue
  PROVE  CardInv'
<1>1. PICK r : r = Head(coming)
  OBVIOUS
<1>2. /\ Comes("Login") /\ kind # "shopCell" /\ r.key \in {ShopOf[o] : o \in Listed}
      /\ order # Nobody /\ ~mixed => r.key = ShopOf[order]
  BY <1>1, ComesFacts DEF LoginValue
<1>s. shown = [l \in Cards[kind].labels |-> shown[l]] /\ Cards[kind].labels \subseteq Labels
  BY CardFacts DEF CardInv, CardTypes
<1>3. PICK s : s = [shown EXCEPT !["name"] = r.key]
  OBVIOUS
<1>4. /\ s = [l \in Cards[kind].labels |-> s[l]]
      /\ \A l \in Cards[kind].labels : s[l] = IF l = "name" THEN r.key ELSE shown[l]
  BY <1>s, <1>3
<1>5. PICK url : url = Url(Login, "avata", r)
  OBVIOUS
<1>6. url = r \/ url = NoText
  BY <1>5 DEF Url
<1>7. IF Cards[kind].photo = "Login" THEN LoadPhoto(url, s) ELSE shown' = s /\ UNCHANGED loading
  BY <1>1, <1>3, <1>5, SchemasFit DEF LoginValue
<1>8. \A l \in Cards[kind].labels : From(kind)[l] # "Login" => s[l] = shown[l]
  BY <1>4, <1>s, FromFacts
<1>9. ASSUME NEW l \in Cards[kind].labels \ {"photo"}, order # Nobody, From(kind)[l] = "Login"
      PROVE  /\ mixed => s[l] # Blank
             /\ ~mixed => s[l] \in Of(order, l)
  <2>1. l = "name"
    BY <1>9, <1>s, FromFacts
  <2> QED BY <1>2, <1>4, <1>9, <2>1, MarkersApart DEF Of
<1>10. UNCHANGED asked
  BY DEF LoginValue
<1> QED BY <1>1, <1>2, <1>4, <1>6, <1>7, <1>8, <1>9, <1>10, PhotoStep

LEMMA ItemStep ==
  ASSUME CardInv, kind \in DOMAIN Cards, ItemValue
  PROVE  CardInv'
<1>1. PICK r : r = Head(coming)
  OBVIOUS
<1>2. /\ Comes("Item") /\ r.key \in Listed /\ Cards[kind].photo = "Item"
      /\ order # Nobody /\ ~mixed => r.key = order
  BY <1>1, ComesFacts DEF ItemValue
<1>s. shown = [l \in Cards[kind].labels |-> shown[l]] /\ Cards[kind].labels \subseteq Labels
  BY CardFacts DEF CardInv, CardTypes
<1>3. PICK g : g = Text({"Mass", "Title", "Description"}, Item, r.key)
  OBVIOUS
<1>g. g = r.key \/ g = NoText
  BY <1>3 DEF Text
<1>4. PICK s : s = [shown EXCEPT !["goods"] = g]
  OBVIOUS
<1>5. /\ s = [l \in Cards[kind].labels |-> s[l]]
      /\ \A l \in Cards[kind].labels : s[l] = IF l = "goods" THEN g ELSE shown[l]
  BY <1>s, <1>4
<1>6. PICK url : url = Url(Item, "ImageItem", r)
  OBVIOUS
<1>7. (url = r \/ url = NoText) /\ LoadPhoto(url, s) /\ UNCHANGED asked
  <2>1. url = r \/ url = NoText
    BY <1>6 DEF Url
  <2> QED BY <1>1, <1>3, <1>4, <1>6, <2>1 DEF ItemValue
<1>8. \A l \in Cards[kind].labels : From(kind)[l] # "Item" => s[l] = shown[l]
  BY <1>5, <1>s, FromFacts
<1>9. ASSUME NEW l \in Cards[kind].labels \ {"photo"}, order # Nobody, From(kind)[l] = "Item"
      PROVE  /\ mixed => s[l] # Blank
             /\ ~mixed => s[l] \in Of(order, l)
  <2>1. l = "goods"
    BY <1>9, <1>s, FromFacts
  <2> QED BY <1>2, <1>5, <1>9, <1>g, <2>1, MarkersApart DEF Of
<1> QED BY <1>1, <1>2, <1>5, <1>7, <1>8, <1>9, PhotoStep

LEMMA PhotoLoadedStep ==
  ASSUME CardInv, kind \in DOMAIN Cards, NEW k \in DOMAIN loading, PhotoLoaded(k)
  PROVE  CardInv'
<1>1. /\ loading \in Seq(Records) /\ Len(loading) \in Nat /\ DOMAIN loading = 1..Len(loading)
      /\ ToSet(loading) = {loading[j] : j \in 1..Len(loading)}
  BY ElementFacts DEF CardInv, CardTypes
<1>2. loading[k] \in Records /\ loading[k] \in ToSet(loading)
  BY <1>1, ElementOfSeq
<1>3. loading' \in Seq(Records) /\ ToSet(loading') \subseteq ToSet(loading)
  <2>1. PICK q : q = RemoveAt(loading, k)
    OBVIOUS
  <2>2. /\ q \in Seq(Records) /\ Len(q) = Len(loading) - 1
        /\ \A j \in 1..Len(loading) - 1 : q[j] = IF j < k THEN loading[j] ELSE loading[j + 1]
    BY <1>1, <2>1, RemoveAtFacts
  <2>3. ToSet(q) = {q[j] : j \in 1..Len(q)}
    BY <2>2, ElementFacts
  <2>4. \A j \in 1..Len(q) : q[j] \in ToSet(loading)
    BY <1>1, <2>2
  <2> QED BY <2>1, <2>2, <2>3, <2>4 DEF PhotoLoaded
<1>4. PICK new : /\ new = loading[k] \/ new = NoPhoto
                 /\ shown' = [shown EXCEPT !["photo"] = new]
  BY DEF PhotoLoaded
<1>5. /\ shown = [l \in Cards[kind].labels |-> shown[l]] /\ "photo" \in Cards[kind].labels
  BY CardFacts DEF CardInv, CardTypes
<1>6. /\ shown' = [l \in Cards[kind].labels |-> shown'[l]] /\ shown'["photo"] = new
      /\ \A l \in Cards[kind].labels : l # "photo" => shown'[l] = shown[l]
  BY <1>4, <1>5
<1>7. CardTypes'
  <2>1. kind \in Screens => shown'["time"] = shown["time"]
    BY <1>6, CardFacts
  <2>2. photos' \subseteq Records
    BY <1>2 DEF PhotoLoaded, CardInv, CardTypes
  <2> QED BY <1>3, <1>6, <2>1, <2>2 DEF CardInv, CardTypes, PhotoLoaded, fetch
<1>8. ASSUME order # Nobody, NEW l \in Cards[kind].labels PROVE (Good(l) \/ Awaited(l))'
  <2>1. CASE l = "photo"
    <3>1. UNCHANGED <<kind, order, mixed>>
      BY DEF PhotoLoaded
    <3>2. ~mixed => loading[k] = Record(Cards[kind].photo, order)
      BY <1>2, <1>8 DEF CardInv
    <3>3. Good(l)'
      BY <1>2, <1>4, <1>6, <1>8, <2>1, <3>1, <3>2, WrittenLabel, MarkersApart DEF Of
    <3> QED BY <3>3
  <2>2. CASE l # "photo"
    <3>1. Good(l) \/ Awaited(l)
      BY <1>8 DEF CardInv
    <3>2. shown'[l] = shown[l]
      BY <1>6, <2>2
    <3> QED BY <2>2, <3>1, <3>2 DEF PhotoLoaded, fetch, Good, Of, Awaited, Expected, OnTheWay
  <2> QED BY <2>1, <2>2
<1> QED BY <1>3, <1>7, <1>8 DEF CardInv, PhotoLoaded, fetch, OnTheWay

LEMMA SettledFacts == Settled => OnTheWay = {} /\ ToSet(loading) = {} /\ newer = {}
BY EmptyQueue DEF Settled, OnTheWay

(* A cell or a screen of the shipper app is bound.                          *)
LEMMA BindStep ==
  ASSUME CardInv, kind \in DOMAIN Cards, NEW o \in Listed, CellForRowAt(o) \/ ChangUIView(o)
  PROVE  CardInv'
<1>0. /\ kind # "shopCell" /\ Bind(o) /\ shown' = Written(o)
      /\ asked' = asked \o Asking(Cards[kind].ask, o) /\ UNCHANGED loading
  BY DEF CellForRowAt, ChangUIView, Screens
<1>1. PICK a \in Seq(Records) : /\ a = Asking(Cards[kind].ask, o)
                                /\ ToSet(a) \subseteq RecordsOf(o)
                                /\ \A m \in ToSet(a) : m.name \in ToSet(Cards[kind].ask)
                                /\ \A n \in ToSet(Cards[kind].ask) : Record(n, o) \in ToSet(a)
  BY CardFacts, AskingFacts
<1>2. asked' \in Seq(Records) /\ ToSet(asked') = ToSet(asked) \cup ToSet(a)
  BY <1>0, <1>1, ConcatFacts DEF CardInv, CardTypes
<1>3. OnTheWay' = OnTheWay \cup ToSet(a)
  BY <1>0, <1>2 DEF OnTheWay, Bind
<1>4. shown = [l \in Cards[kind].labels |-> shown[l]] /\ Cards[kind].labels \subseteq Labels
  BY CardFacts DEF CardInv, CardTypes
<1>5. /\ shown' = [l \in Cards[kind].labels |-> shown'[l]]
      /\ \A l \in Cards[kind].labels : shown'[l] = IF l \in Cards[kind].now THEN o ELSE shown[l]
  BY <1>0, <1>4 DEF Written
<1>6. CardTypes'
  <2>1. kind \in Screens => shown'["time"] = Blank
    BY <1>5, CardFacts DEF CardInv, CardTypes
  <2>2. \A m \in ToSet(a) : m.name \in AskedBy(kind)
    BY <1>1 DEF AskedBy
  <2>3. mixed' \in BOOLEAN /\ order' \in Listed
    BY <1>0 DEF Bind, Settled
  <2> QED BY <1>0, <1>2, <1>5, <2>1, <2>2, <2>3 DEF CardInv, CardTypes, Bind
<1>7. ASSUME NEW n \in ToSet(Cards[kind].ask) PROVE Expected(n)'
  <2>1. Record(n, o) \in OnTheWay' /\ Record(n, o).name = n
    BY <1>1, <1>3 DEF Record
  <2> QED BY <2>1 DEF Expected
<1>8. ASSUME NEW l \in Cards[kind].labels PROVE (Good(l) \/ Awaited(l))'
  <2>0. UNCHANGED kind /\ order' = o
    BY <1>0 DEF Bind
  <2>1. CASE l \in Cards[kind].now
    <3>1. shown'[l] = o /\ l # "photo" /\ l # "goods" /\ l # "name" /\ kind \notin Screens
      BY <1>0, <1>5, <2>1, CardFacts
    <3> QED BY <2>0, <3>1, MarkersApart DEF Good, Of
  <2>2. CASE l \notin Cards[kind].now /\ kind \in Screens /\ l = "time"
    <3>1. shown'[l] = Blank
      BY <1>6, <2>0, <2>2 DEF CardTypes
    <3> QED BY <2>0, <2>2, <3>1 DEF Good, Of
  <2>3. CASE l \notin Cards[kind].now /\ ~(kind \in Screens /\ l = "time")
    <3>1. \/ From(kind)[l] \in ToSet(Cards[kind].ask)
          \/ From(kind)[l] \in ToSet(Cards[kind].join) /\ "DetailProduct" \in ToSet(Cards[kind].ask)
      BY <1>0, <2>3, CardFacts
    <3> QED BY <1>7, <2>0, <3>1 DEF Awaited
  <2> QED BY <2>1, <2>2, <2>3
<1>9. ~mixed' => OnTheWay = {} /\ ToSet(loading) = {} /\ newer = {}
  BY <1>0, SettledFacts DEF Bind
<1> QED BY <1>0, <1>1, <1>3, <1>6, <1>8, <1>9 DEF CardInv, Bind

(* A cell of the shop app is bound.                                         *)
LEMMA ShopBindStep ==
  ASSUME CardInv, kind \in DOMAIN Cards, NEW o \in Listed, ConfigDataForCell(o)
  PROVE  CardInv'
<1>0. /\ kind = "shopCell" /\ Bind(o) /\ UNCHANGED asked
      /\ \E url \in {NoText, Url(ShopItem, "ImageItem", Record("Item", o))} : LoadPhoto(url, Written(o))
  BY DEF ConfigDataForCell
<1>1. Cards[kind].photo = "Item" /\ Cards[kind].labels = ShopCellLabels
      /\ Cards[kind].now = ShopCellLabels \ {"photo"}
  BY <1>0 DEF Cards, ShopCell
<1>2. PICK r \in Records : r = Record("Item", o)
  BY RecordFacts DEF Names
<1>3. PICK url : (url = NoText \/ url = r) /\ LoadPhoto(url, Written(o))
  BY <1>0, <1>2 DEF Url
<1>4. PICK s : s = Written(o)
  OBVIOUS
<1>5. shown = [l \in Cards[kind].labels |-> shown[l]] /\ CardTypes
  BY DEF CardInv, CardTypes
<1>6. s = [l \in Cards[kind].labels |-> s[l]] /\ \A l \in Cards[kind].labels \ {"photo"} : s[l] = o
  <2>1. s = [l \in Cards[kind].labels |-> IF l \in Cards[kind].now THEN ProductApp(o)[l] ELSE shown[l]]
    BY <1>0, <1>4, <1>5 DEF Written
  <2>2. \A l \in ShopCellLabels \ {"photo"} : ProductApp(o)[l] = o
    BY SchemasFit DEF ShopCellLabels
  <2> QED BY <1>1, <2>1, <2>2
<1> DEFINE D == Cards[kind].labels
<1>d. "photo" \in D
  BY CardFacts
<1>7. /\ loading' \in Seq(Records)
      /\ \/ ToSet(loading') = ToSet(loading)
         \/ url # NoText /\ ToSet(loading') = ToSet(loading) \cup {url}
      /\ shown' = [l \in D |-> shown'[l]]
      /\ \A l \in D : l # "photo" => shown'[l] = s[l]
      /\ \/ shown'["photo"] = NoPhoto
         \/ url # NoText /\ shown'["photo"] = url
         \/ loading' # <<>>
  <2>1. s = [l \in D |-> s[l]] /\ LoadPhoto(url, s) /\ (url \in Records \/ url = NoText)
    BY <1>2, <1>3, <1>4, <1>6
  <2> HIDE DEF D
  <2> QED BY <1>5, <1>d, <2>1, PhotoFacts
<1>8. CardTypes'
  <2>1. mixed' \in BOOLEAN /\ order' \in Listed /\ kind \notin Screens
    BY <1>0 DEF Bind, Settled, Screens
  <2> QED BY <1>0, <1>7, <2>1 DEF CardInv, CardTypes, Bind
<1>9. ASSUME NEW l \in Cards[kind].labels PROVE (Good(l) \/ Awaited(l))'
  <2>0. UNCHANGED kind /\ order' = o
    BY <1>0 DEF Bind
  <2>1. CASE l # "photo"
    <3>1. shown'[l] = o /\ l # "goods" /\ kind \notin Screens
      BY <1>0, <1>1, <1>6, <1>7, <2>1 DEF ShopCellLabels, Screens
    <3> QED BY <1>0, <2>0, <2>1, <3>1, MarkersApart DEF Good, Of
  <2>2. CASE l = "photo" /\ loading' # <<>>
    BY <2>2 DEF Awaited
  <2>3. CASE l = "photo" /\ loading' = <<>>
    <3>1. shown'[l] = NoPhoto \/ shown'[l] = r
      BY <1>3, <1>7, <2>3
    <3> QED BY <1>1, <1>2, <2>0, <2>3, <3>1, MarkersApart DEF Good, Of
  <2> QED BY <2>1, <2>2, <2>3
<1>10. ~mixed' => OnTheWay = {} /\ ToSet(loading) = {} /\ newer = {}
  BY <1>0, SettledFacts DEF Bind
<1>11. OnTheWay' = OnTheWay
  BY <1>0 DEF Bind, OnTheWay
<1> QED BY <1>0, <1>1, <1>2, <1>3, <1>7, <1>8, <1>9, <1>10, <1>11 DEF CardInv, Bind

LEMMA CardStep == CardInv /\ kind \in DOMAIN Cards /\ CardNext => CardInv'
<1> SUFFICES ASSUME CardInv, kind \in DOMAIN Cards, CardNext PROVE CardInv'
  OBVIOUS
<1>1. ASSUME NEW o \in Listed, CellForRowAt(o) \/ ChangUIView(o) \/ ConfigDataForCell(o) PROVE CardInv'
  BY <1>1, BindStep, ShopBindStep
<1>2. ASSUME NEW o \in Listed, ChangesHands(o) \/ NewValue(o) PROVE CardInv'
  BY <1>2, ChangeStep
<1>3. CASE AskedFor
  BY <1>3, AskedForStep
<1>4. ASSUME NEW r \in Records, FirstValue(r) PROVE CardInv'
  BY <1>4, FirstValueStep
<1>5. ASSUME NEW k \in DOMAIN loading, PhotoLoaded(k) PROVE CardInv'
  BY <1>5, PhotoLoadedStep
<1>6. CASE LoginValue
  BY <1>6, LoginStep
<1>7. CASE DetailProductValue \/ CoordinateValue \/ ReceiverValue
  BY <1>7, PlainValueStep
<1>8. CASE ItemValue
  BY <1>8, ItemStep
<1> QED BY <1>1, <1>2, <1>3, <1>4, <1>5, <1>6, <1>7, <1>8 DEF CardNext

LEMMA CardInductive == TabSpec => []CardInv
<1>1. CardInv /\ [TabNext]_<<vars, card>> => CardInv'
  <2> SUFFICES ASSUME CardInv, [TabNext]_<<vars, card>> PROVE CardInv'
    OBVIOUS
  <2>1. CASE UNCHANGED card
    BY <2>1 DEF card, fetch, CardInv, CardTypes, Good, Of, Awaited, Expected, OnTheWay
  <2>2. CASE kind # TheList /\ CardNext
    <3>1. kind \in DOMAIN Cards
      BY <2>2, NewsTabAssumption DEF CardInv, CardTypes
    <3> QED BY <2>2, <3>1, CardStep
  <2> QED BY <2>1, <2>2 DEF TabNext
<1> QED BY <1>1, CardInitInv, PTL DEF TabSpec

(* With every answer in, no label is awaited.                               *)
LEMMA SettledLabels ==
  ASSUME CardInv, Settled, order # Nobody
  PROVE  /\ kind \in DOMAIN Cards /\ order \in Listed /\ DOMAIN shown = Cards[kind].labels
         /\ \A l \in DOMAIN shown : Good(l)
<1>1. OnTheWay = {} /\ loading = <<>>
  BY SettledFacts DEF Settled
<1>2. \A l : ~Awaited(l)
  BY <1>1 DEF Awaited, Expected
<1> QED BY <1>2 DEF CardInv, CardTypes

(* Whatever the client and the photo cache had, in whatever order answers   *)
(* come and cells are used again, no label of a card is left unwritten but  *)
(* the time on a detail screen (PresenterDetailNewController.swift:39-98).  *)
THEOREM LabelsAreWritten == TabSpec => []EveryLabelWritten
<1>1. CardInv => EveryLabelWritten
  <2> SUFFICES ASSUME CardInv, Settled, order # Nobody, NEW l \in DOMAIN shown, shown[l] = Blank
               PROVE  kind \in Screens /\ l = "time"
    BY DEF EveryLabelWritten
  <2>1. kind \in DOMAIN Cards /\ order \in Listed /\ l \in Cards[kind].labels /\ Good(l)
    BY SettledLabels
  <2> QED BY <2>1, OfFacts DEF Good
<1> QED BY <1>1, CardInductive, PTL

(* A cell bound anew with nothing outstanding shows its own order in every  *)
(* label, although the listeners of its earlier rows are still there        *)
(* (NewsControllerPresenter.swift:61-104).                                  *)
THEOREM OneOrderOnACard == TabSpec => []CardIsOfOneOrder
<1>1. CardInv => CardIsOfOneOrder
  BY SettledLabels DEF CardIsOfOneOrder, Good
<1> QED BY <1>1, CardInductive, PTL
================================================================================
