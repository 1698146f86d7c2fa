-------------------------------- MODULE OrderCard --------------------------------
(***************************************************************************)
(* What one cell of a list, or one detail screen, shows of an order.       *)
(*                                                                         *)
(* An order is spread over five records; the card asks for them one after  *)
(* the other, with a listener each, and writes to its labels whenever a    *)
(* value comes.  A cell is used again for another row while the answers    *)
(* of the first are on their way, and no listener is ever removed.  Photos *)
(* come from a cache in front of URLSession.                               *)
(*                                                                         *)
(* The shop app writes the records and the shipper app reads them, each    *)
(* with its own idea of the fields' types; a field that does not fit is "".*)
(* The two places of an order are alike and are one here.  A block queued  *)
(* by a callback only to write labels is run with the callback.            *)
(***************************************************************************)
EXTENDS Naturals, Sequences, SequencesExt, FiniteSets, Selection

CONSTANTS
  Kinds,      \* kinds of card looked at
  Listed,     \* orders a card can be bound to
  ShopOf,     \* order -> the shop that posted it
  Nobody,     \* no order
  Blank,      \* what a label shows before it is written to
  NoText,     \* "", a field that was not found
  NoPhoto,    \* the picture that says there is no photo
  MaxBinds,   \* bound: times a cell is bound
  MaxTakes    \* bound: times an order changes hands

VARIABLES
  kind,     \* the kind of this card
  order,    \* the order it was last bound to, or Nobody
  binds,    \* how often it was bound
  shown,    \* label -> what it shows
  cache,    \* the records the client has
  newer,    \* orders whose detail has changed and not come yet
  takes,    \* how often that has happened
  asked,    \* calls of observe() the client has not come to
  waiting,  \* its listeners, in the order of registration
  coming,   \* values queued for the main thread
  loading,  \* photos URLSession is loading
  photos,   \* photos in the cache
  mixed     \* history: bound with answers outstanding, or an earlier order has changed

fetch == <<cache, newer, takes, asked, waiting, coming>>
card    == <<kind, order, binds, shown, fetch, loading, photos, mixed>>
--------------------------------------------------------------------------------
(* What the shop app writes, by type.                                       *)
WrittenItem == [IdItem |-> "text", Title |-> "text", Description |-> "text",
                ImageItem |-> "text", Mass |-> "number"]
WrittenLogin == [UID |-> "text", Phonenumber |-> "text", fullName |-> "text",
                 IdTypeAccount |-> "number", CMND |-> "text", avata |-> "text"]
WrittenReceiver == [IdReceiver |-> "text", nameReceiver |-> "text", phoneReceiver |-> "text"]
WrittenCoordinate == [IdCoordinates |-> "text", NameCoordinates |-> "text",
                      Latitude |-> "number", Longitude |-> "number"]
WrittenDetailProduct == [IdDetailProduct |-> "text", IdStartPoint |-> "text",
  IdFinishPoint |-> "text", idItem |-> "text", idReceiver |-> "text", UID |-> "text",
  status |-> "text", tienShip |-> "number", tienUng |-> "number"]

(* The fields of a value that are there with the type they are read as.     *)
Fits(value, types) == {f \in DOMAIN types \cap DOMAIN value : types[f] = value[f]}

(* A cast to [String: String]: all of it or nothing.                        *)
AsTexts(value) == IF \A f \in DOMAIN value : value[f] = "text" THEN value ELSE [f \in {} |-> ""]

(* What the shipper app finds in them.                                      *)
Item == Fits(AsTexts(WrittenItem), [IdItem |-> "text", Description |-> "text",
  Mass |-> "text", Title |-> "text", ImageItem |-> "text"])
Receiver == Fits(AsTexts(WrittenReceiver),
  [IdReceiver |-> "text", nameReceiver |-> "text", phoneReceiver |-> "text"])
Login == Fits(WrittenLogin, [CMND |-> "text", IdTypeAccount |-> "number",
  Phonenumber |-> "text", UID |-> "text", avata |-> "text", fullName |-> "text"])
Coordinate == Fits(WrittenCoordinate, [IdCoordinates |-> "text", Latitude |-> "number",
  Longitude |-> "number", NameCoordinates |-> "text"])
DetailProduct == Fits(WrittenDetailProduct, [IdDetailProduct |-> "text",
  IdFinishPoint |-> "text", IdStartPoint |-> "text", idItem |-> "text",
  tienShip |-> "number", tienUng |-> "number", UID |-> "text", idReceiver |-> "text",
  status |-> "text"])

(* What the shop app finds in them, by the label it is for.                 *)
ShopItem == Fits(WrittenItem, [Description |-> "text", Title |-> "text", Mass |-> "number",
  ImageItem |-> "text"])
ShopReceive == Fits(AsTexts(WrittenReceiver),
  [phoneReceiver |-> "text", nameReceiver |-> "text"])
CoordinateApp == Fits(WrittenCoordinate, [IdCoordinates |-> "text", Latitude |-> "number",
  Longitude |-> "number", NameCoordinates |-> "text"])
ShopDetail == Fits(WrittenDetailProduct, [IdDetailProduct |-> "text",
  IdFinishPoint |-> "text", IdStartPoint |-> "text", UID |-> "text", idItem |-> "text",
  idReceiver |-> "text", tienShip |-> "number", tienUng |-> "number", status |-> "text"])
ShipInfo == Fits(WrittenLogin, [Phonenumber |-> "text", fullName |-> "text"])

Text(fields, found, key) == IF fields \subseteq found THEN key ELSE NoText
--------------------------------------------------------------------------------
Url(found, field, r) == IF field \in found THEN r ELSE NoText

(* A row of the shop app: the text of each label.                           *)
ProductApp(o) ==
  [time     |-> Text({"IdDetailProduct"}, ShopDetail, o),
   price    |-> Text({"tienShip", "tienUng", "status"}, ShopDetail, o),
   places   |-> Text({"NameCoordinates"}, CoordinateApp, o),
   receiver |-> Text({"nameReceiver", "phoneReceiver"}, ShopReceive, o),
   name     |-> Text({"fullName", "Phonenumber"}, ShipInfo, o)]

(* The labels of each kind of card.                                         *)
NewsCellLabels      == {"photo", "time", "price", "places", "name"}
StorageCellLabels   == {"photo", "time", "price", "places", "name"}
NewsScreenLabels    == {"photo", "time", "price", "places", "name", "goods"}
StorageScreenLabels == {"photo", "time", "price", "places", "name", "goods", "receiver"}
ShopCellLabels      == {"photo", "time", "price", "places", "receiver", "name"}

(* The labels written when it is bound, the records asked for then, those   *)
(* asked for with each value of the detail, and whose photo it shows.       *)
NewsCell == [labels |-> NewsCellLabels, now |-> {"time"},
  ask |-> <<"Login", "DetailProduct">>, join |-> <<"Coordinate">>, photo |-> "Login"]
StorageCell == [labels |-> StorageCellLabels, now |-> {"time", "price"},
  ask |-> <<"Login", "Coordinate">>, join |-> <<>>, photo |-> "Login"]
NewsScreen == [labels |-> NewsScreenLabels, now |-> {},
  ask |-> <<"Login", "DetailProduct">>, join |-> <<"Coordinate", "Item">>, photo |-> "Item"]
StorageScreen == [labels |-> StorageScreenLabels, now |-> {},
  ask |-> <<"Login", "DetailProduct">>, join |-> <<"Receiver", "Coordinate", "Item">>,
  photo |-> "Item"]
ShopCell == [labels |-> ShopCellLabels, now |-> ShopCellLabels \ {"photo"},
  ask |-> <<>>, join |-> <<>>, photo |-> "Item"]

Cards == [newsCell |-> NewsCell, storageCell |-> StorageCell, newsScreen |-> NewsScreen,
          storageScreen |-> StorageScreen, shopCell |-> ShopCell]
Screens == {"newsScreen", "storageScreen"}

Record(name, o) == [name |-> name, key |-> IF name = "Login" THEN ShopOf[o] ELSE o]
Records == {Record(name, o) : name \in {"Login", "DetailProduct", "Coordinate", "Item", "Receiver"},
                              o \in Listed}

(* getLogin, getDetailProduct, getStartPoint, ... of the two services.      *)
Asking(names, o) == [k \in DOMAIN names |-> Record(names[k], o)]

ASSUME OrderCardAssumption ==
  /\ Listed \subseteq DOMAIN ShopOf /\ Nobody \notin Listed
  /\ {Blank, NoText, NoPhoto} \cap (Listed \cup {ShopOf[o] : o \in Listed} \cup Records) = {}
  /\ Blank \notin {NoText, NoPhoto}
  /\ MaxBinds \in Nat /\ MaxTakes \in Nat
--------------------------------------------------------------------------------
(* Mutant: there is one place in the cache for all avatars.                 *)
LoadPhotoOfAnyone(url, s) ==
  /\ shown' = [s EXCEPT !["photo"] =
       IF url = NoText THEN NoPhoto
       ELSE IF \E p \in photos : p.name = url.name THEN CHOOSE p \in photos : p.name = url.name ELSE @]
  /\ loading' = IF url # NoText /\ \A p \in photos : p.name # url.name
                THEN Append(loading, url) ELSE loading

(* The photo at a url, for a card that shows s otherwise: at once when it   *)
(* is cached or there is no url, else when it has been loaded.              *)
LoadPhoto(url, s) ==
  /\ shown' = [s EXCEPT !["photo"] =
       IF url \in photos THEN url ELSE IF url = NoText THEN NoPhoto ELSE @]
  /\ loading' = IF url \in photos \cup {NoText} THEN loading ELSE Append(loading, url)

(* Mutant: a photo that cannot be loaded is nobody's concern.               *)
PhotoLoadedSilently(k) ==
  /\ k \in DOMAIN loading
  /\ loading' = RemoveAt(loading, k)
  /\ \E ok \in BOOLEAN :
       /\ photos' = IF ok THEN photos \cup {loading[k]} ELSE photos
       /\ shown' = IF ok THEN [shown EXCEPT !["photo"] = loading[k]] ELSE shown
  /\ UNCHANGED <<kind, order, binds, fetch, mixed>>

(* URLSession has an answer.                                                *)
PhotoLoaded(k) ==
  /\ k \in DOMAIN loading
  /\ loading' = RemoveAt(loading, k)
  /\ \E ok \in BOOLEAN :
       /\ photos' = IF ok THEN photos \cup {loading[k]} ELSE photos
       /\ shown' = [shown EXCEPT !["photo"] = IF ok THEN loading[k] ELSE NoPhoto]
  /\ UNCHANGED <<kind, order, binds, fetch, mixed>>
--------------------------------------------------------------------------------
(* Every answer is in.                                                      *)
Settled ==
  /\ asked = <<>> /\ coming = <<>> /\ loading = <<>> /\ newer = {}
  /\ ToSet(waiting) \subseteq cache

CardInit ==
  /\ kind \in Kinds
  /\ order = Nobody /\ binds = 0
  /\ shown = [l \in IF kind \in DOMAIN Cards THEN Cards[kind].labels ELSE {} |-> Blank]
  /\ cache \in {{}, {r \in Records : r.name = "Login"}, Records}
  /\ newer = {} /\ takes = 0 /\ asked = <<>> /\ waiting = <<>> /\ coming = <<>>
  /\ loading = <<>> /\ photos \in {{}, {r \in Records : r.name \in {"Login", "Item"}}}
  /\ mixed = FALSE

(* What binding writes at once.                                             *)
Written(o) == [l \in DOMAIN shown |->
  IF l \notin Cards[kind].now THEN shown[l]
  ELSE IF kind = "shopCell" THEN ProductApp(o)[l] ELSE o]

Bind(o) ==
  /\ kind \in DOMAIN Cards /\ binds < MaxBinds
  /\ order' = o /\ binds' = binds + 1
  /\ mixed' = ~Settled
  /\ UNCHANGED <<kind, cache, newer, takes, waiting, coming, photos>>

(* A cell of the shipper app, new or used again.                            *)
CellForRowAt(o) ==
  /\ kind \in {"newsCell", "storageCell"} /\ Bind(o)
  /\ shown' = Written(o)
  /\ asked' = asked \o Asking(Cards[kind].ask, o)
  /\ UNCHANGED loading

(* A detail screen, once.                                                   *)
ChangUIView(o) ==
  /\ kind \in Screens /\ binds = 0 /\ Bind(o)
  /\ shown' = Written(o)
  /\ asked' = asked \o Asking(Cards[kind].ask, o)
  /\ UNCHANGED loading

(* A cell of the shop app: the row has everything, but perhaps no url yet.  *)
ConfigDataForCell(o) ==
  /\ kind = "shopCell" /\ Bind(o)
  /\ \E url \in {NoText, Url(ShopItem, "ImageItem", Record("Item", o))} : LoadPhoto(url, Written(o))
  /\ UNCHANGED asked
--------------------------------------------------------------------------------
(* The client.  All but the detail never change once they are written, and  *)
(* they are written before the order is listed (PostItem).                  *)
AskedFor ==
  /\ asked # <<>>
  /\ LET r == Head(asked) IN
       /\ waiting' = IF r.name # "DetailProduct" /\ r \in cache THEN waiting ELSE Append(waiting, r)
       /\ coming' = IF r \in cache THEN Append(coming, r) ELSE coming
  /\ asked' = Tail(asked)
  /\ UNCHANGED <<kind, order, binds, shown, cache, newer, takes, loading, photos, mixed>>

Answers(r) == Selected(waiting, {r})

FirstValue(r) ==
  /\ r \notin cache /\ Contains(waiting, r)
  /\ cache' = cache \cup {r}
  /\ coming' = coming \o Answers(r)
  /\ waiting' = IF r.name = "DetailProduct" THEN waiting ELSE Selected(waiting, ToSet(waiting) \ {r})
  /\ UNCHANGED <<kind, order, binds, shown, newer, takes, asked, loading, photos, mixed>>

(* The order is taken or dropped, and the client hears of it.               *)
ChangesHands(o) ==
  /\ takes < MaxTakes
  /\ Record("DetailProduct", o) \in cache /\ Contains(waiting, Record("DetailProduct", o))
  /\ takes' = takes + 1
  /\ newer' = newer \cup {o}
  /\ mixed' = (mixed \/ o # order)
  /\ UNCHANGED <<kind, order, binds, shown, cache, asked, waiting, coming, loading, photos>>

NewValue(o) ==
  /\ o \in newer
  /\ newer' = newer \ {o}
  /\ coming' = coming \o Answers(Record("DetailProduct", o))
  /\ UNCHANGED <<kind, order, binds, shown, cache, takes, asked, waiting, loading, photos, mixed>>
--------------------------------------------------------------------------------
(* A value comes to the callback of its listener.                           *)
Comes(name) ==
  /\ coming # <<>> /\ Head(coming).name = name
  /\ coming' = Tail(coming)
  /\ UNCHANGED <<kind, order, binds, cache, newer, takes, waiting, photos, mixed>>

LoginValue ==
  /\ Comes("Login")
  /\ LET r == Head(coming)
         s == [shown EXCEPT !["name"] = Text({"fullName", "Phonenumber", "CMND"}, Login, r.key)]
     IN IF Cards[kind].photo = "Login"
        THEN LoadPhoto(Url(Login, "avata", r), s)
        ELSE shown' = s /\ UNCHANGED loading
  /\ UNCHANGED asked

DetailProductValue ==
  /\ Comes("DetailProduct")
  /\ LET o == Head(coming).key IN
       /\ shown' = [shown EXCEPT !["price"] = Text({"tienShip", "tienUng"}, DetailProduct, o)]
       /\ asked' = asked \o Asking(Cards[kind].join, o)
  /\ UNCHANGED loading

CoordinateValue ==
  /\ Comes("Coordinate")
  /\ shown' = [shown EXCEPT !["places"] = Text({"NameCoordinates"}, Coordinate, Head(coming).key)]
  /\ UNCHANGED <<asked, loading>>

ReceiverValue ==
  /\ Comes("Receiver")
  /\ shown' = [shown EXCEPT !["receiver"] =
       Text({"nameReceiver", "phoneReceiver"}, Receiver, Head(coming).key)]
  /\ UNCHANGED <<asked, loading>>

ItemValue ==
  /\ Comes("Item")
  /\ LET r == Head(coming) IN
       LoadPhoto(Url(Item, "ImageItem", r),
         [shown EXCEPT !["goods"] = Text({"Mass", "Title", "Description"}, Item, r.key)])
  /\ UNCHANGED asked

CardNext ==
  \/ \E o \in Listed : CellForRowAt(o) \/ ChangUIView(o) \/ ConfigDataForCell(o)
  \/ \E o \in Listed : ChangesHands(o) \/ NewValue(o)
  \/ AskedFor
  \/ \E r \in Records : FirstValue(r)
  \/ \E k \in DOMAIN loading : PhotoLoaded(k)
  \/ LoginValue \/ DetailProductValue \/ CoordinateValue \/ ReceiverValue \/ ItemValue
--------------------------------------------------------------------------------
(* EveryLabelWritten: once every answer is in, no label of a bound card     *)
(* waits for one, whatever the client and the photo cache had before and    *)
(* whichever photos failed; only the time on the detail screens is never    *)
(* written (PresenterDetailNewController.swift:39-98,                       *)
(* LoadImageFromService.swift:16-35).                                       *)
EveryLabelWritten ==
  Settled /\ order # Nobody =>
    \A l \in DOMAIN shown : shown[l] = Blank => kind \in Screens /\ l = "time"

(* What label l of a card may show of order o.                              *)
Of(o, l) == CASE l = "name"  -> {IF kind = "shopCell" THEN o ELSE ShopOf[o]}
              [] l = "photo" -> {NoPhoto, Record(Cards[kind].photo, o)}
              [] l = "goods" -> {o, NoText}
              [] OTHER       -> IF kind \in Screens /\ l = "time" THEN {Blank} ELSE {o}

(* CardIsOfOneOrder: a cell that was bound anew when no answer for its      *)
(* earlier rows was outstanding, and none of those orders has changed hands *)
(* since, shows its own order in every label once every answer is in,       *)
(* although the listeners of the earlier rows are still there, and no label *)
(* but the goods is "": the types the shipper app reads fit those the shop  *)
(* app writes (NewsControllerPresenter.swift:61-104).                       *)
CardIsOfOneOrder ==
  Settled /\ order # Nobody /\ ~mixed => \A l \in DOMAIN shown : shown[l] \in Of(order, l)

(* DetailIsComplete: what the report (paragraph 2894) says a detail screen  *)
(* shows: the time, who posted the order, its places, the goods and the     *)
(* money.                                                                   *)
DetailIsComplete ==
  Settled /\ order # Nobody /\ kind \in Screens =>
    \A l \in {"time", "name", "price", "places", "goods"} : shown[l] \notin {Blank, NoText}
================================================================================
