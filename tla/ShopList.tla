-------------------------------- MODULE ShopList --------------------------------
(***************************************************************************)
(* The list of a shop's own orders in the shop app, and who has taken      *)
(* them.                                                                   *)
(*                                                                         *)
(* A value of "Product/<shop>" empties the list, adds a blank row for each *)
(* order, in the order of a dictionary, and registers a listener on the    *)
(* order's DetailProduct that remembers the row's index.  That listener    *)
(* fills the row and, each time, registers further listeners with the same *)
(* index: on the places, the customer and the goods (one listener here,    *)
(* "Parts": the four are alike), and on the Login record of the shipper.   *)
(* No listener is ever removed, so one of an earlier value still writes    *)
(* to the row that was its order's then.                                   *)
(*                                                                         *)
(* Parts and Login records are written before they are named and never     *)
(* change: a listener on one fires once.  The table is reloaded after each *)
(* change of the list and shows it as it is.                               *)
(***************************************************************************)
EXTENDS Naturals, Sequences, SequencesExt, FiniteSets, Selection

CONSTANTS
  Orders,      \* orders this shop may post
  Shippers,    \* uids of shippers
  NoOne,       \* "" in UID; shown as "Chua co Shipper"
  Unposted,    \* the order is not in the database yet
  Unheard,     \* the client has no value of a path yet
  Blank,       \* a field of a row that has not been filled
  MaxChanges   \* bound: posts, takes and drops

ASSUME ShopListAssumption ==
  /\ IsFiniteSet(Orders) /\ MaxChanges \in Nat
  /\ NoOne \notin Shippers /\ {Unposted, Unheard, Blank} \cap (Shippers \cup {NoOne} \cup Orders) = {}
  /\ \A S \in SUBSET Orders : Unheard # S

VARIABLES
  holder,     \* order -> who has taken it
  changes,    \* how often that has changed
  takers,     \* history: order -> everyone who has had it
  products,   \* the orders of the last "Product" value the client heard, or Unheard
  details,    \* order -> holder in the last DetailProduct the client heard, or Unheard
  fixed,      \* the parts and Login records the client has heard
  observing,  \* calls of observe() the client has not come to
  regs,       \* the listeners it holds, in the order of registration
  mainq,      \* value events queued for the main thread
  open,       \* has the list been opened?
  loads,      \* history: how often the list was filled
  late,       \* history: orders that changed hands with a Login record still to come
  rows        \* dataProductApp: whose detail, whose parts, which shipper

database == <<holder, changes, takers>>
client   == <<products, details, fixed, observing, regs, mainq>>
list     == <<open, loads, late, rows>>
vars     == <<database, client, list>>

Holders == Shippers \cup {NoOne}
Posted  == {o \in Orders : holder[o] # Unposted}
BlankRow == [detail |-> Blank, parts |-> Blank, shipper |-> Blank]

ProductListener == [on |-> "Product"]
RowListener(on, key, i) == [on |-> on, key |-> key, index |-> i]

(* What the client has heard of a listener's path.                          *)
View(l) == CASE l.on = "Product" -> products
             [] l.on = "Detail"  -> details[l.key]
             [] OTHER            -> IF <<l.on, l.key>> \in fixed THEN l.key ELSE Unheard

Event(l, v) == [listener |-> l, value |-> v]
EventsFor(listeners, v) == [k \in DOMAIN listeners |-> Event(listeners[k], v)]
On(on, key) == [on : {on}, key : {key}, index : Nat]
Listened(listeners) == \E k \in DOMAIN regs : regs[k] \in listeners
--------------------------------------------------------------------------------
Init ==
  /\ holder \in [Orders -> Holders \cup {Unposted}]
  /\ changes = 0 /\ takers = [o \in Orders |-> {holder[o]}]
  /\ products = Unheard /\ details = [o \in Orders |-> Unheard] /\ fixed = {}
  /\ observing = <<>> /\ regs = <<>> /\ mainq = <<>>
  /\ open = FALSE /\ loads = 0 /\ late = {} /\ rows = <<>>

(* The shop posts an order; shippers take and drop it.                      *)
Reassign(o) ==
  /\ changes < MaxChanges
  /\ \E h \in Holders \ {holder[o]} :
       /\ holder[o] = Unposted => h = NoOne
       /\ holder' = [holder EXCEPT ![o] = h]
       /\ takers' = [takers EXCEPT ![o] = @ \cup {h}]
  /\ changes' = changes + 1
  /\ UNCHANGED <<client, list>>

(* viewDidLoad: paserDataFromFirebase.                                      *)
OpenList ==
  /\ ~open
  /\ open' = TRUE
  /\ observing' = <<ProductListener>>
  /\ UNCHANGED <<database, products, details, fixed, regs, mainq, loads, late, rows>>
--------------------------------------------------------------------------------
(* The client registers a listener and raises its first event if it can.    *)
Observe ==
  /\ observing # <<>>
  /\ LET l == Head(observing) IN
       /\ regs' = IF l.on \in {"Parts", "Login"} /\ View(l) # Unheard THEN regs ELSE Append(regs, l)
       /\ mainq' = IF View(l) = Unheard THEN mainq ELSE Append(mainq, Event(l, View(l)))
  /\ observing' = Tail(observing)
  /\ UNCHANGED <<database, products, details, fixed, list>>

HearProducts ==
  /\ Listened({ProductListener})
  /\ products # Posted
  /\ products' = Posted
  /\ mainq' = Append(mainq, Event(ProductListener, products'))
  /\ UNCHANGED <<database, details, fixed, observing, regs, list>>

HearDetail(o) ==
  /\ details[o] # holder[o]
  /\ Listened(On("Detail", o))
  /\ details' = [details EXCEPT ![o] = holder[o]]
  /\ mainq' = mainq \o EventsFor(Selected(regs, On("Detail", o)), holder[o])
  /\ UNCHANGED <<database, products, fixed, observing, regs, list>>

(* A path whose value never changes.                                        *)
HearFixed(on, key) ==
  /\ Listened(On(on, key))
  /\ fixed' = fixed \cup {<<on, key>>}
  /\ mainq' = mainq \o EventsFor(Selected(regs, On(on, key)), key)
  /\ regs' = Selected(regs, ToSet(regs) \ On(on, key))
  /\ UNCHANGED <<database, products, details, observing, list>>
--------------------------------------------------------------------------------
Remembered == ToSet(observing) \cup ToSet(regs) \cup {e.listener : e \in ToSet(mainq)}
AwaitedLogins == {l \in Remembered : l.on = "Login"}

Comes(on) == mainq # <<>> /\ Head(mainq).listener.on = on

(* Mutant: every listener remembers the last row.                           *)
ProductValueLastIndex ==
  /\ Comes("Product")
  /\ mainq' = Tail(mainq)
  /\ \E listed \in SetToSeqs(Head(mainq).value) :
       /\ rows' = [i \in DOMAIN listed |-> BlankRow]
       /\ observing' = observing \o
            [i \in DOMAIN listed |-> RowListener("Detail", listed[i], Len(listed))]
  /\ loads' = IF Head(mainq).value = {} THEN loads ELSE loads + 1
  /\ UNCHANGED <<database, products, details, fixed, regs, late, open>>

(* Mutant: a row is added when its detail comes.                            *)
ProductValueLazily ==
  /\ Comes("Product")
  /\ mainq' = Tail(mainq)
  /\ \E listed \in SetToSeqs(Head(mainq).value) :
       /\ rows' = <<>>
       /\ observing' = observing \o
            [i \in DOMAIN listed |-> RowListener("Detail", listed[i], i)]
  /\ loads' = IF Head(mainq).value = {} THEN loads ELSE loads + 1
  /\ UNCHANGED <<database, products, details, fixed, regs, late, open>>

(* The list is filled with blank rows, a listener for each.                 *)
ProductValue ==
  /\ Comes("Product")
  /\ mainq' = Tail(mainq)
  /\ \E listed \in SetToSeqs(Head(mainq).value) :
       /\ rows' = [i \in DOMAIN listed |-> BlankRow]
       /\ observing' = observing \o
            [i \in DOMAIN listed |-> RowListener("Detail", listed[i], i)]
  /\ loads' = IF Head(mainq).value = {} THEN loads ELSE loads + 1
  /\ UNCHANGED <<database, products, details, fixed, regs, late, open>>

(* Mutant: an order that has been dropped keeps its last shipper.           *)
DetailValueKeepingShipper ==
  /\ Comes("Detail")
  /\ mainq' = Tail(mainq)
  /\ LET l == Head(mainq).listener
         h == Head(mainq).value
     IN /\ l.index \in DOMAIN rows
        /\ rows' = [rows EXCEPT ![l.index].detail = l.key]
        /\ observing' = observing \o <<RowListener("Parts", l.key, l.index)>>
             \o (IF h = NoOne THEN <<>> ELSE <<RowListener("Login", h, l.index)>>)
  /\ late' = IF \E l \in AwaitedLogins : l.index = Head(mainq).listener.index
             THEN late \cup {Head(mainq).listener.key} ELSE late
  /\ UNCHANGED <<database, products, details, fixed, regs, open, loads>>

(* A DetailProduct: its own fields, and listeners for the rest.  An order   *)
(* nobody has taken says so at once.                                        *)
DetailValue ==
  /\ Comes("Detail")
  /\ mainq' = Tail(mainq)
  /\ LET l == Head(mainq).listener
         h == Head(mainq).value
     IN /\ l.index \in DOMAIN rows
        /\ rows' = [rows EXCEPT ![l.index].detail = l.key,
                                ![l.index].shipper = IF h = NoOne THEN NoOne ELSE @]
        /\ observing' = observing \o <<RowListener("Parts", l.key, l.index)>>
             \o (IF h = NoOne THEN <<>> ELSE <<RowListener("Login", h, l.index)>>)
  /\ late' = IF \E l \in AwaitedLogins : l.index = Head(mainq).listener.index
             THEN late \cup {Head(mainq).listener.key} ELSE late
  /\ UNCHANGED <<database, products, details, fixed, regs, open, loads>>

PartsValue ==
  /\ Comes("Parts")
  /\ mainq' = Tail(mainq)
  /\ LET l == Head(mainq).listener IN
       /\ l.index \in DOMAIN rows
       /\ rows' = [rows EXCEPT ![l.index].parts = l.key]
  /\ UNCHANGED <<database, products, details, fixed, observing, regs, late, open, loads>>

LoginValue ==
  /\ Comes("Login")
  /\ mainq' = Tail(mainq)
  /\ LET l == Head(mainq).listener IN
       /\ l.index \in DOMAIN rows
       /\ rows' = [rows EXCEPT ![l.index].shipper = l.key]
  /\ UNCHANGED <<database, products, details, fixed, observing, regs, late, open, loads>>

ListNext ==
  \/ \E o \in Orders : Reassign(o)
  \/ Observe
  \/ HearProducts
  \/ \E o \in Orders : HearDetail(o)
  \/ \E o \in Orders : HearFixed("Parts", o)
  \/ \E u \in Shippers : HearFixed("Login", u)
  \/ ProductValue
  \/ DetailValue
  \/ PartsValue
  \/ LoginValue

Next == OpenList \/ ListNext

Spec == Init /\ [][Next]_vars
--------------------------------------------------------------------------------
(* IndexInRange: every index a listener remembers, of this value of Product *)
(* or of an earlier one, is a row of the list: the write to                 *)
(* dataProductApp[index] never stops the app (ListNewsPresenter.swift:52,   *)
(* :60, :68, :76, :84, :92, :101).                                          *)
IndexInRange == \A l \in Remembered : l.on # "Product" => l.index \in DOMAIN rows

(* Nothing is on its way to the phone or queued in it.                      *)
Quiet ==
  /\ open /\ observing = <<>> /\ mainq = <<>>
  /\ products = Posted
  /\ \A o \in Posted : details[o] = holder[o]
  /\ \A k \in DOMAIN regs : regs[k].on \in {"Product", "Detail"}

(* RowsComplete: once nothing is on its way the list has a row for each     *)
(* order of the shop, and no field of a row is still blank, although later  *)
(* values start from blank rows and wait for listeners on paths that may    *)
(* have been heard long ago; and as long as the list was filled only once,  *)
(* a row is one order, detail and parts, and every order has its row        *)
(* (ListNewsPresenter.swift:40-90).  (After a second post, listeners of the *)
(* first value write over other orders' rows.)                              *)
RowsComplete ==
  Quiet =>
    /\ Len(rows) = Cardinality(Posted)
    /\ \A i \in DOMAIN rows : Blank \notin {rows[i].detail, rows[i].parts, rows[i].shipper}
    /\ loads = 1 => /\ {rows[i].detail : i \in DOMAIN rows} = Posted
                    /\ \A i \in DOMAIN rows : rows[i].parts = rows[i].detail

(* ShipperShown: as long as the list was filled only once, the shipper in a *)
(* row has had that order, and is the one who has it (or nobody has it and  *)
(* the row says so) unless it changed hands while an earlier shipper's      *)
(* Login record was still awaited: that one, coming late, replaces who came *)
(* after him (ListNewsPresenter.swift:91-105).                              *)
ShipperShown ==
  Quiet /\ loads = 1 => \A i \in DOMAIN rows :
    LET o == rows[i].detail IN
      rows[i].shipper \in takers[o] /\ (o \notin late => rows[i].shipper = holder[o])
================================================================================
