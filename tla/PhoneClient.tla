------------------------------- MODULE PhoneClient -------------------------------
(***************************************************************************)
(* What the Storage and the Route tab of one shipper's phone share: the    *)
(* orders in the database, what the database client has heard of them, the *)
(* listeners it holds, and the main thread.                                *)
(*                                                                         *)
(* observe() is queued for the client.  The client raises a first event    *)
(* for a listener whose value it knows, and an event for every listener of *)
(* a path whose value changes, in the order of registration; the main      *)
(* thread runs the events and the blocks they queue, one after the other.  *)
(* Coordinates are written before the order that names them and never      *)
(* change: a listener on one fires once.  The echo of this phone's own     *)
(* writes is in OrderSync; here they are changes of the database.          *)
(***************************************************************************)
EXTENDS Naturals, Sequences, SequencesExt, FiniteSets, Selection

CONSTANTS
  Orders,       \* orders the shops may post
  Shippers,     \* uids of shippers
  Me,           \* the shipper of this phone
  NoOne,        \* "" in UID
  Unposted,     \* the order is not in the database yet
  Unheard,      \* the client has no value of a path yet
  StartOf,      \* order -> the coordinate its start is at
  FinishOf,     \* order -> the coordinate its finish is at
  Launches      \* bound: who has the orders at the start, tabs opened, changes seen,
                \* and the leg of the route that is followed

ASSUME PhoneAssumption ==
  /\ IsFiniteSet(Orders)
  /\ Me \in Shippers /\ NoOne \notin Shippers /\ Unposted \notin Shippers \cup {NoOne}
  /\ Launches \subseteq
       [holder : [Orders -> Shippers \cup {NoOne, Unposted}],
        tabs : SUBSET {"Storage", "Route"}, changes : Nat, leg : Nat]
  /\ \A S \in SUBSET Orders : Unheard # S
  /\ \A h \in [Orders -> Shippers \cup {NoOne, Unposted}] : Unheard # h

VARIABLES
  holder,     \* order -> who has taken it
  changes,    \* posts, takes and drops that are still to come
  lost,       \* history: has this shipper lost an order?
  heard,      \* the orders of the last "Product" value, or Unheard
  known,      \* order -> holder in the last "DetailProduct" value, or Unheard
  located,    \* the coordinates the client has heard
  observing,  \* calls of observe() the client has not come to
  regs,       \* the listeners it holds, in the order of registration
  mainq,      \* what is queued for the main thread
  toOpen,     \* the tabs he has still to open
  running     \* the app has not crashed

database == <<holder, changes, lost>>
client   == <<heard, known, located, observing, regs, mainq, toOpen, running>>

Holders == Shippers \cup {NoOne, Unposted}
Posted(h) == {o \in Orders : h[o] # Unposted}
Mine(h) == {o \in Orders : h[o] = Me}
Places == {StartOf[o] : o \in Orders} \cup {FinishOf[o] : o \in Orders}

(* A listener is what it listens to, with what its callback remembers.      *)
OnDetails(l) == l.on \in {"Storage", "Route"}
OnPlace(l)   == l.on \in {"start", "finish"}

OfProducts == {[on |-> "Product"]}
OfDetails  == [on : {"Storage"}, products : SUBSET Orders] \cup {[on |-> "Route"]}
OfPlace(p) == [on : {"start", "finish"}, place : {p}]
Listened(listeners) == \E k \in DOMAIN regs : regs[k] \in listeners

Value(l) == CASE l.on = "Product" -> heard
              [] OnDetails(l)     -> known
              [] OnPlace(l)       -> IF l.place \in located THEN l.place ELSE Unheard

Event(l, v) == [listener |-> l, value |-> v]

(* An event with value v for each of these listeners.                       *)
EventsFor(listeners, v) == [k \in DOMAIN listeners |-> Event(listeners[k], v)]

PhoneInit(l) ==
  /\ lost = FALSE
  /\ heard = Unheard /\ known = Unheard /\ located = {}
  /\ observing = <<>> /\ regs = <<>> /\ mainq = <<>>
  /\ holder = l.holder /\ toOpen = l.tabs /\ changes = l.changes
  /\ running = TRUE
--------------------------------------------------------------------------------
(* A shop posts an order; a shipper takes a posted order, whoever has it;   *)
(* a shipper drops one.                                                     *)
Reassign(o) ==
  /\ running /\ changes > 0
  /\ holder' \in {[holder EXCEPT ![o] = h] : h \in Holders \ {Unposted}}
  /\ holder[o] = Unposted => holder'[o] = NoOne
  /\ holder'[o] # holder[o]
  /\ changes' = changes - 1
  /\ lost' = (lost \/ holder[o] = Me)
  /\ UNCHANGED client

Observe ==
  /\ running /\ observing # <<>>
  /\ LET l == Head(observing) IN
       IF Value(l) = Unheard
       THEN regs' = Append(regs, l) /\ UNCHANGED mainq
       ELSE /\ regs' = IF OnPlace(l) THEN regs ELSE Append(regs, l)
            /\ mainq' = Append(mainq, Event(l, Value(l)))
  /\ observing' = Tail(observing)
  /\ UNCHANGED <<database, heard, known, located, toOpen, running>>

HearProducts ==
  /\ running /\ heard # Posted(holder)
  /\ Listened(OfProducts)
  /\ heard' = Posted(holder)
  /\ mainq' = mainq \o EventsFor(Selected(regs, OfProducts), heard')
  /\ UNCHANGED <<database, known, located, observing, regs, toOpen, running>>

(* Mutant: the listeners are called latest first.                           *)
HearDetailsReversed ==
  /\ running /\ known # holder
  /\ Listened(OfDetails)
  /\ known' = holder
  /\ mainq' = mainq \o EventsFor(Reverse(Selected(regs, OfDetails)), holder)
  /\ UNCHANGED <<database, heard, located, observing, regs, toOpen, running>>

HearDetails ==
  /\ running /\ known # holder
  /\ Listened(OfDetails)
  /\ known' = holder
  /\ mainq' = mainq \o EventsFor(Selected(regs, OfDetails), holder)
  /\ UNCHANGED <<database, heard, located, observing, regs, toOpen, running>>

HearPlace(p) ==
  /\ running /\ Listened(OfPlace(p))
  /\ located' = located \cup {p}
  /\ mainq' = mainq \o EventsFor(Selected(regs, OfPlace(p)), p)
  /\ regs' = Selected(regs, ToSet(regs) \ OfPlace(p))
  /\ UNCHANGED <<database, heard, known, observing, toOpen, running>>

ClientNext ==
  \/ \E o \in Orders : Reassign(o)
  \/ Observe \/ HearProducts \/ HearDetails
  \/ \E p \in Places : HearPlace(p)

(* The main thread comes to an event for a listener on this.                *)
Comes(on) == running /\ mainq # <<>> /\ "listener" \in DOMAIN Head(mainq) /\ Head(mainq).listener.on = on

(* Nothing is on its way to the phone or queued in it.                      *)
Quiet ==
  /\ running /\ observing = <<>> /\ mainq = <<>>
  /\ \A k \in DOMAIN regs : ~OnPlace(regs[k])
  /\ Listened(OfProducts) => heard = Posted(holder)
  /\ Listened(OfDetails) => known = holder
================================================================================
