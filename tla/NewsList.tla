-------------------------------- MODULE NewsList --------------------------------
(***************************************************************************)
(* The News tab of the shipper app: the list of orders to choose from.     *)
(*                                                                         *)
(* getData registers two listeners on "Product".  The first fills the      *)
(* table.  The second fills the list again, without reloading the table,   *)
(* and registers a listener on the DetailProduct of every order, which     *)
(* remembers the index the order had in the list: when the status becomes  *)
(* "Chưa nhận" (released) it removes whatever is at that index by then.    *)
(* getData runs when the tab loads and again whenever it appears, and no   *)
(* listener is ever removed.                                               *)
(*                                                                         *)
(* observe() is queued for the client; the client keeps what it has heard  *)
(* of the database and queues value events for the main thread, in the     *)
(* order of registration.  The list of a snapshot is the enumeration of a  *)
(* Swift dictionary: any order.  Shops post and shippers take and drop     *)
(* orders at any time (PostItem, OrderSync).                               *)
(***************************************************************************)
EXTENDS Naturals, Sequences, SequencesExt, FiniteSets, Selection

CONSTANTS
  Orders,      \* orders the shops may post
  Unheard,     \* the client has no value of "Product" yet
  MaxAppear,   \* bound: times the tab appears
  MaxChanges   \* bound: times the shippers take or drop an order

ASSUME NewsListAssumption ==
  /\ IsFiniteSet(Orders) /\ MaxAppear \in Nat /\ MaxChanges \in Nat
  /\ \A S \in SUBSET Orders : Unheard # S

VARIABLES
  status,    \* order -> the status in the database
  changes,   \* how often the shippers have taken or dropped an order
  dropped,   \* the orders that have been dropped at some time
  known,     \* order -> the status the client has heard
  heard,     \* the orders of the last "Product" value the client has heard, or Unheard
  observing, \* calls of observe() the client has not come to, oldest first
  regs,      \* the listeners the client holds, in the order of registration
  mainq,     \* value events queued for the main thread
  screen,    \* what the tab shows
  appears,   \* how often it has appeared
  products,  \* the presenter's list
  rows       \* the list the table was last loaded from

vars == <<status, changes, dropped, known, heard, observing, regs, mainq, screen, appears,
          products, rows>>

Posted == {o \in Orders : status[o] # "unposted"}

PlainListener  == [type |-> "plain"]
FilterListener == [type |-> "filter"]

(* The value a listener's path has for the client, or none yet.             *)
Complete(l)   == IF l.type = "detail" THEN known[l.order] # "unposted" ELSE heard # Unheard
Snapshot(l)   == IF l.type = "detail" THEN known[l.order] ELSE heard
Event(l, v)   == [listener |-> l, value |-> v]
Lists(S)      == {l \in [1..Cardinality(S) -> S] : IsInjective(l)}
--------------------------------------------------------------------------------
Init ==
  /\ status = [o \in Orders |-> "unposted"]
  /\ changes = 0 /\ dropped = {}
  /\ known = [o \in Orders |-> "unposted"]
  /\ heard = Unheard
  /\ observing = <<>> /\ regs = <<>> /\ mainq = <<>>
  /\ screen = "closed" /\ appears = 0
  /\ products = <<>> /\ rows = <<>>

database == <<status, changes, dropped>>
client   == <<known, heard, regs>>
tab      == <<screen, appears>>
--------------------------------------------------------------------------------
(* The database: a shop posts, a shipper takes, the shipper drops.          *)
Post(o) ==
  /\ status[o] = "unposted"
  /\ status' = [status EXCEPT ![o] = "posted"]
  /\ UNCHANGED <<changes, dropped, client, observing, mainq, tab, products, rows>>

Take(o) ==
  /\ status[o] \in {"posted", "released"}
  /\ changes < MaxChanges
  /\ changes' = changes + 1
  /\ status' = [status EXCEPT ![o] = "taken"]
  /\ UNCHANGED <<dropped, client, observing, mainq, tab, products, rows>>

Drop(o) ==
  /\ status[o] = "taken"
  /\ changes < MaxChanges
  /\ changes' = changes + 1
  /\ status' = [status EXCEPT ![o] = "released"]
  /\ dropped' = dropped \cup {o}
  /\ UNCHANGED <<client, observing, mainq, tab, products, rows>>
--------------------------------------------------------------------------------
(* The client: it registers a listener, and raises its first event if it    *)
(* knows the value; it hears of a change, and raises an event for every     *)
(* listener of the path.                                                    *)
Observe ==
  /\ observing # <<>>
  /\ LET l == Head(observing) IN
       /\ regs' = Append(regs, l)
       /\ mainq' = IF Complete(l) THEN Append(mainq, Event(l, Snapshot(l))) ELSE mainq
  /\ observing' = Tail(observing)
  /\ UNCHANGED <<database, known, heard, tab, products, rows>>

(* A value event for each of these listeners.                               *)
EventsFor(listeners, v) == [k \in DOMAIN listeners |-> Event(listeners[k], v)]
OfProducts  == {PlainListener, FilterListener}
OfDetail(o) == [type : {"detail"}, order : {o}, index : Nat]
Listened(listeners) == \E k \in DOMAIN regs : regs[k] \in listeners

HearProducts ==
  /\ heard # Posted
  /\ Listened(OfProducts)
  /\ heard' = Posted
  /\ mainq' = mainq \o EventsFor(Selected(regs, OfProducts), Posted)
  /\ UNCHANGED <<database, known, observing, regs, tab, products, rows>>

HearDetail(o) ==
  /\ known[o] # status[o]
  /\ Listened(OfDetail(o))
  /\ known' = [known EXCEPT ![o] = status[o]]
  /\ mainq' = mainq \o EventsFor(Selected(regs, OfDetail(o)), status[o])
  /\ UNCHANGED <<database, heard, observing, regs, tab, products, rows>>
--------------------------------------------------------------------------------
(* Mutant: only the filtering listener is registered.                       *)
GetDataFilterOnly == observing' = Append(observing, FilterListener)

GetData == observing' = observing \o <<PlainListener, FilterListener>>

(* The tab is opened: viewDidLoad, then viewDidAppear; it appears again     *)
(* after a detail screen or another tab.                                    *)
ViewDidLoad ==
  /\ screen = "closed"
  /\ screen' = "loaded"
  /\ GetData
  /\ UNCHANGED <<database, client, mainq, appears, products, rows>>

ViewDidAppear ==
  /\ screen \in {"loaded", "away"}
  /\ appears < MaxAppear
  /\ screen' = "shown"
  /\ appears' = appears + 1
  /\ GetData
  /\ UNCHANGED <<database, client, mainq, products, rows>>

(* A row is tapped, or another tab.  A detail screen of the row covers the  *)
(* tab; what it does there is in OrderSync.                                 *)
DidSelectRow ==
  /\ screen = "shown" /\ rows # <<>>
  /\ screen' = "away"
  /\ UNCHANGED <<database, client, observing, mainq, appears, products, rows>>

LeaveTab ==
  /\ screen = "shown"
  /\ screen' = "away"
  /\ UNCHANGED <<database, client, observing, mainq, appears, products, rows>>
--------------------------------------------------------------------------------
(* The next event on the main thread is one for a listener of this type.    *)
Next1(type) == mainq # <<>> /\ Head(mainq).listener.type = type
Done == mainq' = Tail(mainq)

PlainEvent ==
  /\ Next1("plain") /\ Done
  /\ \E list \in Lists(Head(mainq).value) : products' = list /\ rows' = list
  /\ UNCHANGED <<database, client, observing, tab>>

(* Mutant: the new list is added to the old one.                            *)
FilterEventAppending ==
  /\ Next1("filter") /\ Done
  /\ \E list \in Lists(Head(mainq).value) :
       /\ products' = products \o list
       /\ observing' = observing \o
            [k \in DOMAIN list |-> [type |-> "detail", order |-> list[k], index |-> k]]
  /\ UNCHANGED <<database, client, tab, rows>>

FilterEvent ==
  /\ Next1("filter") /\ Done
  /\ \E list \in Lists(Head(mainq).value) :
       /\ products' = list
       /\ observing' = observing \o
            [k \in DOMAIN list |-> [type |-> "detail", order |-> list[k], index |-> k]]
  /\ UNCHANGED <<database, client, tab, rows>>

(* Mutant: "chưa nhận" is compared with, for "Chưa nhận".                   *)
IsHiddenWhenPosted(e) == e.value = "posted" /\ e.listener.index <= Len(products)

IsHidden(e) == e.value = "released" /\ e.listener.index <= Len(products)

(* Mutant: the row goes without a reload of the table.                      *)
DetailEventWithoutReload ==
  /\ Next1("detail") /\ Done
  /\ products' = IF IsHidden(Head(mainq)) THEN RemoveAt(products, Head(mainq).listener.index)
                                          ELSE products
  /\ UNCHANGED <<database, client, observing, tab, rows>>

DetailEvent ==
  /\ Next1("detail") /\ Done
  /\ IF IsHidden(Head(mainq))
     THEN /\ products' = RemoveAt(products, Head(mainq).listener.index)
          /\ rows' = products'
     ELSE UNCHANGED <<products, rows>>
  /\ UNCHANGED <<database, client, observing, tab>>
--------------------------------------------------------------------------------
Next ==
  \/ \E o \in Orders : Post(o) \/ Take(o) \/ Drop(o) \/ HearDetail(o)
  \/ Observe \/ HearProducts
  \/ ViewDidLoad \/ ViewDidAppear \/ DidSelectRow \/ LeaveTab
  \/ PlainEvent \/ FilterEvent \/ DetailEvent

Spec == Init /\ [][Next]_vars

(* The client and the main thread work; the connection comes back.          *)
Fairness ==
  /\ WF_vars(Observe)
  /\ WF_vars(HearProducts)
  /\ WF_vars(PlainEvent \/ FilterEvent \/ DetailEvent)
  /\ \A o \in Orders : WF_vars(HearDetail(o))

FairSpec == Spec /\ Fairness
--------------------------------------------------------------------------------
(* RowsExist: the table never has a row the list does not have, although    *)
(* the list is replaced without a reload and shortened at indices computed  *)
(* earlier; cellForRowAt and didSelectRowAt index the list with the table's *)
(* row, unguarded (NewsControllerPresenter.swift:61-66, 107-112).           *)
RowsExist == Len(rows) <= Len(products)

(* NothingTwice: however many listeners fill and filter the list, an order  *)
(* is in it at most once, and in the table at most once (28-47).            *)
NothingTwice == IsInjective(products) /\ IsInjective(rows)

Quiet == /\ screen # "closed" /\ observing = <<>> /\ mainq = <<>>
         /\ heard = Posted /\ \A o \in Posted : known[o] = status[o]

(* FreeOrdersListed: as long as no shipper has dropped any order, the table *)
(* and the list have the same orders once everything is quiet, and every    *)
(* order that nobody has taken is one of them: whatever was loaded, hidden  *)
(* by an index or registered again meanwhile, none that is free is gone     *)
(* (34-46).  Whether taken ones are there is left open: the report says     *)
(* no (2500), the filter hides only the ones that were dropped.             *)
FreeOrdersListed == Quiet /\ dropped = {} =>
  /\ Range(rows) = Range(products)
  /\ {o \in Posted : status[o] = "posted"} \subseteq Range(rows)

Unknown(o) == heard = Unheard \/ o \notin heard

(* PostedIsSeen: once the tab has been opened, an order the phone has not   *)
(* heard of comes up in the table, whatever is registered, queued, removed  *)
(* and loaded again meanwhile (29-36).                                      *)
PostedIsSeen == \A o \in Orders :
  (o \in Posted /\ Unknown(o) /\ screen # "closed") ~> (o \in Range(rows))
================================================================================
