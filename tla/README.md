# A TLA+ model of the Shipper and Shop apps

The repository holds two iOS apps written in Swift. **Shop** (`src/Shop`) lets a shop post
delivery orders; **AppShipper** (`src/AppShipper`) lets a shipper look at the orders, take
some, follow a route through their pickup and delivery places, and drop them again. The apps
never talk to each other: all they share is one Firebase realtime database. The Firebase SDK is
vendored (`src/AppShipper/Pods`), so its behaviour is modelled from its source; the database
server, Google sign-in, Firebase Auth and Storage, and MapKit are not in the repository and are
modelled from how the apps use them ("external" in `PROJECT.json`).

There are no tests to speak of. What the program is meant to do is in
`src/Bao-Cao-Tieu-Luan.docx` ("the report"). A citation such as *report 2500* is the number of
the paragraph in that file's `word/document.xml`, counted from 1.

## 1. Inventory

### The database

| tree | written by | read by |
|---|---|---|
| `Product/<shop>/<time>` | the shop, last step of a post | News and Storage tabs, the shop's list |
| `DetailProduct/<time>` | the shop; then `UID` and `status` by shippers | every list and detail screen, Route tab |
| `Coordinate`, `Receiver`, `Item` | the shop, before the DetailProduct | cards, detail screens, Route tab |
| `Login/<uid>` | sign-up of either app | both logins, cards |

Who has an order is the field `DetailProduct.UID`, and `status` beside it is "chưa nhận"
(posted), "Đã nhận" (taken) or "Chưa nhận" (released; a capital letter tells it from posted).

### Components

| component | state it keeps | operations | what makes it correct |
|---|---|---|---|
| Order claims (News detail, Storage detail) | listeners left behind by taps; the two fields | `getNew`, `deleteProduct` | phones, their caches and the server end up agreeing; a record is never half taken; who wins |
| Database client (SDK) | server cache, unacknowledged writes, listeners, events queued for the main thread | set/update, observe, acknowledgement, disconnect, reconnect | every write arrives once it can; caches catch up |
| Posting (`clickPostItem`) | stage of a post, keys, outstanding reads, alert | a chain of writes, each after a read of the one before | an order that is listed is whole; the alert ends |
| News tab | list, table rows, listeners with remembered indices | `getData`, the filter, appearing, a tap | no crash, no duplicate, nothing lost, new orders come up |
| Storage tab | list of the shipper's orders | `getStorageProducts` | shows exactly the orders taken |
| Route tab | `arrayLocation`, pins, last route, its directions, position | `getLocation`, blocks going back by index, directions | every stop has its pin, the route is the current one and is drawn |
| Route order (`sortRoute`) | the array it edits while scanning | two nested loops | pickup before delivery, each stop once, nearest next, ends |
| Cards and detail screens | labels, listeners per record, photo cache | `cellForRowAt`, `changUIView`, `configDataForCell`, photo loads | a card is about one order and is complete |
| Shipper session | stored uid, Login listeners, screen | Google sign-in, sign-up, log-out, launch | members only, the right account now and at the next launch |
| Shop session | stored uid, pending registration, screen | register, login, launch, log-out | one registration, no endless loading |
| Shop's list | rows filled through remembered indices | `paserDataFromFirebase` | no crash, rows complete and of one order, right shipper |
| Choosing the places | two text fields, panel, distance, routes, forms, tab bar | search, geocode, directions, push, cancel | the form is for the places shown; there is always a way on |
| Loading-screen GIF | images, delays, divisor, frames | `animatedImageWithSource` | every image for its own time; no division by zero |
| Tab bars, layout, dead code | – | – | not modelled (section 8) |

### What is hard here

* **Listeners that write.** Both taps on an order use `observe`, not a transaction, and write
  inside the callback. No listener of the program is ever removed, so a phone goes on answering
  everybody's later writes.
* **Three places for one value.** A phone shows its own outstanding writes over what the server
  last said; events about both are queued for the main thread and run later.
* **Connections that drop, apps that are killed.** Writes are kept in memory until acknowledged
  and sent *again* after a reconnection; persistence is off, so killing the app loses them.
* **Indices remembered across reloads.** The News tab, the Route tab and the shop's list let
  listeners and queued blocks go back to an array by an index it had earlier.
* **Requests nobody cancels.** Geocoding, directions, photos and Login records answer whenever
  they do, in any order, to screens that show something else by then.
* **A post in many steps** over five records with a client that answers reads from unsent writes.

The full list, line by line, with the property that covers each item or the reason why none
does, is `hazards` in `PROJECT.json`.

## 2. Modules

| module | component | its actions are |
|---|---|---|
| `OrderBoard` | abstract: what the records promise | `Take`, `PutBack`; `BoardSpec` (last writer wins), `StrictSpec` (exclusive) |
| `OrderSync` | claims and client, several phones | taps, callbacks, server, delivery, disconnect, reconnect, relaunch, accounts |
| `OrderSyncProofs` | theorems about `OrderSync` | |
| `NearestStop` | abstract: nearest permitted stop next | one stop |
| `SortRoute` | `sortRoute` | one action per round of each loop |
| `SortRouteProofs` | theorems about `SortRoute` | |
| `PostItem` | posting | clicks, upload, answers to reads, alert, client, kill, a shipper elsewhere |
| `PostItemProofs` | theorems about `PostItem` | |
| `NewsList` | News tab | client, three kinds of event, appearing, leaving, a tap |
| `OrderCard` | cells, detail screens, photo cache, the two schemas | binding, values, photos |
| `NewsTab` | `NewsList` and any one card | |
| `NewsTabProofs` | theorems about `NewsTab` | |
| `Accounts`, `ShipperSession`, `ShopSession` | sessions | one per handler |
| `Sessions` | both sessions over one Auth and one Login tree | |
| `SessionsProofs` | theorems about `Sessions` | |
| `PhoneClient`, `StorageList`, `RouteMap` | the client as two tabs share it; the tabs | events, main-thread blocks, directions |
| `MyOrders` | both tabs on one phone | |
| `MyOrdersProofs` | theorems about `MyOrders` | |
| `ShopList`, `CreateNews` | the shop's list; the map | events; searches and their answers |
| `GifFrames` | the animation of the loading screen | one per round of each loop |
| `ShopTabs` | the loading screen, then list and map behind one tab bar | |
| `ShopTabsProofs` | theorems about `ShopTabs` | |
| `Selection`, `SelectionProofs` | the elements of a sequence that are in a set, in order; facts about it and about sequences | |

`…MC` modules only give constants their values for TLC.

How state corresponds to code, where it is not obvious:

* A database value is reduced to what a property can tell apart: in `OrderSync` the two
  claim fields, in `PostItem` presence and the keys, in the lists which orders there are and who
  has them. Names, prices and coordinates are model values. In `OrderCard` a record is the set
  of its fields *with their types*, because the two apps disagree about one.
* `pend` and `applied` (`OrderSync`, `PostItem`): the client's outstanding writes, and how many
  of them the server has applied on this connection. `Disconnect` sets `applied` back to 0, which is
  what makes `restoreState` (`FPersistentConnection.m` 827–851) send them again.
* `View` is what the SDK's sync tree answers: the server cache with the outstanding writes over
  it. A value event is queued only if that view changed, or to a new listener if it is known.
* `regs`, `observing`, `mainq`, `inbox` are the listeners in order of registration, calls of
  `observe` on their way to the SDK's queue, events and blocks waiting for the main thread, and
  messages from the server. A tap registers its listener whether or not the phone has the record (`Register`): the row it
  belongs to comes from `Product` alone. Its first event is queued with it, or comes with the record.
* The enumeration of a Swift dictionary has a random order: `Lists` (`NewsList`), `ProductValue`
  (`ShopList`) choose any.
* "history" variables (`changes`, `takers`, `loads`, `late`, `mixed`, `dropped`, `lost`, `reached`, `cut`, `overtaken`, `stale`, …) are in no
  guard of a program step; properties use them, and bounds where they count.

What is merged into one step, and why it loses nothing:

* A callback and the local application of the writes it makes (`OrderSync`): the SDK does the second
  on its own queue before it looks at anything else from this phone.
* `OrderCard` runs a block that only writes labels with the callback that queued it, and the
  completion of a photo load with its main-thread block. Blocks run in order, so labels can only
  be seen later than here, never in another order.
* Signing in with Google is *not* one step: the button opens Google's page (`TapGoogle`), Google's callback signs out whoever was in
  (`DidSignIn`), Auth answers the credential (`GoogleAnswered`), and tabs may open between any two of them.
* `ShipperSession.SignUpAnswered` opens the tabs before the events its write raises; the block and
  the events commute but for whose tabs stay, and that order is kept.
* `CreateNews.SearchFound` dismisses the search controller in the same step, and the
  chain of two geocoder calls of `Push` reads the second text when it needs it.
* `RouteMap` follows one leg of every route, the same in a launch: the requests of one `drawMyRoute` are made
  in a row, and an answer touches nothing but the map's lines, so the other legs behave alike and apart.
* `GifFrames` counts equal frames in a row; the duration is the sum of the delays.
* `PhoneClient` and `ShopList` treat records that never change as listeners that fire once.
* `NewsTab`, `MyOrders` and `ShopTabs` are told by `TheList` or `Launches` what a launch is about. The parts share
  no variable that one writes and the other reads, except the queues in `MyOrders`, for
  which one launch opens both tabs.

## 3. Runs

`tlc -config <cfg> <module>`; states are distinct states of the complete search.

| run | cfg | states | question |
|---|---|---|---|
| `order_safety` | `OrderSync_safety` | 1,175,751 | do phones, caches and the database agree, whatever the network does? |
| `order_live` | `OrderSync_live` | 198,970 | does a lone claim reach the database and stay; what do two opposite listeners of one phone do? |
| `order_exclusive` | `OrderSync_exclusive` | – | *violated*: is a taken order out of others' reach? |
| `route_sort` | `SortRoute_safety` | 306,348 | is the greedy route right, with every tie? |
| `post_safety` | `PostItem_safety` | 1,173,659 | is a listed order whole; can a read come back empty; what takes an order back from its shipper? |
| `post_live` | `PostItem_live` | 6,496 | does every write arrive, and does the alert say so after the upload? |
| `post_success` | `PostItem_success` | – | *violated*: does "Thành công" mean posted? |
| `news_safety` | `NewsTab_safety` | 736,095 | is the News tab safe and complete; is a card about one order? |
| `card_detail` | `NewsTab_detail` | – | *violated*: does a detail screen show what the report says? |
| `sessions` | `Sessions_safety` | 691,620 | is the right person signed in, and is it he or nobody at the next launch? |
| `my_orders` | `MyOrders_safety` | 3,063,574 | do Storage and Route catch up with the shipper's orders; is the route drawn? |
| `shop_tabs` | `ShopTabs_safety` | 2,775,102 | is the shop's list right; does the map lead where it says; is the animation in time? |

`CHECK_DEADLOCK FALSE` is everywhere because the system does stop: when nothing is under way and
nobody taps. Where something must go on, a liveness property says so.

Every property carries a comment with what it says and the code it is about, and has a mutant in
`PROJECT.json`: a plausible bug in one definition that makes TLC find the property violated.
Mutated definitions stand beside the original in the module, under a comment "Mutant:".

### Bounds, and why they are enough

* **`OrderSync_safety`**: two phones and two accounts on one order; one listener a phone and launch, two
  outstanding writes, two queued callbacks, three messages. Interference is always between two
  listeners on one record, and records do not interact, so two phones and one order show each kind.
  Three messages are needed: with two, a data message can be held back only by the bound. The proof (section 5)
  has no such bound for the properties it covers, since it holds for every value of these constants.
* **`OrderSync_live`** has two listeners on the first phone. The two answer each other for ever, so
  the main queue grows: `MaxQueue = 3` shows the first rounds, `EchoNeverStops` proves the rest.
  `FirstDrops` (`OrderSyncMC`) lets the first phone take, drop and take again over a connection that drops, while the
  second only takes; it leaves out symmetric and idle moves, not kinds of move.
* **`SortRoute_safety`**: three orders (six stops) on a line of three points: all ties and returns occur.
  The code takes the square root of squared differences of longitude and latitude; on a line that is exact.
* **`PostItem_safety`**: two shops in the *same* second, the only way their keys meet. **`PostItem_live`**:
  two seconds, so that the clock may turn between the reads of one post.
* **`NewsTab_safety`**: the tab loads and appears once (four listeners), two orders posted, two takes or drops; a cell is bound twice (the second time over the listeners of the first), one change of hands.
* **`Sessions_safety`**: two persons on either phone, two Google sign-ins in a launch: the page of the second may be open when
  the listener of the first opens the tabs. `SessionsProofs` holds for any number.
* **`MyOrders_safety`**: three changes for Storage; for Route (whose blocks multiply) one, by which
  this shipper gets a second order or loses his only one; none with both open. Legs
  are followed with a single order that is lost (leg 2) and with one or two (legs 2 and 4, the last of either), two answers
  under way (`MaxAsked`): enough for the answers of two routes to cross, and to come after a third has cleared the map.
  The loss of one order of several, and longer histories, are the theorems' (section 5).
* **`ShopTabs_safety`**: every start and two changes for the list; one start, two finishes, two answers
  in flight and two forms for the map (one answer to overtake another; one form over another). Up to three images, with no delay,
  3 hundredths (all of `VbtI.gif`) or 201: 2.01 s is 2009 ms after `Int(2.01 * 1000.0)`, so coprime delays occur and the
  loop of `gcdForPair` runs more than once. `Short` names the delays that are cut so.

### Fairness

Users owe nothing: no tap is fair, nor is a kill or a log-out. Weak fairness is assumed of the main
thread, the client's queue, its reconnection (`FPersistentConnection` retries for ever) and loops on one
thread; *strong* fairness of `ServerApply`, deliveries and answers to reads, which a dropped connection disables
again and again. An upload ends, well or badly (`putData` calls its completion). Nothing is assumed of geocoder or directions. The liveness runs of `PostItem` use
`NeverKilled`: a killed app forgets what it had to send, which is what the code does.

## 4. What the code turned out to do

Three runs end in a counterexample and are `findings`:

* **`order_exclusive`** — report 2500 says a taken order is not there for other shippers until it
  is dropped. `getNew` writes without looking; a second shipper takes a taken order, and the first phone then
  takes it back when it hears of it. The filter of the News tab hides *released* orders and shows taken ones.
* **`post_success`** — the check that a post has arrived reads the client's own outstanding write. The promise
  that does hold is in `NothingTakenBack`: the order is posted or still on its way.
* **`card_detail`** — the shop writes `Mass` as a number, the shipper app reads the whole `Item` as
  `[String: String]`: title, mass, description and photo never show on a detail screen; the time label is never set.

Also met while modelling, each by reading the lines named, and without a run of its own:

* A shipper who drops an order taken in the same launch starts an echo that never ends
  (`EchoNeverDrains` states it, `EchoNeverStops` proves it).
* An unacknowledged post that is sent again wipes the `UID` a shipper has written meanwhile; `WipedOnlyByRepeat`
  says that this and a post of the same second are the only ways.
* Two shops posting in the same second share `Item` and `DetailProduct`.
* `DetailCreateNewsPresenter.swift:153` stores the start's `longitude?.binade`: 64 for 106° east
  (report 2798 says a coordinate has its longitude). The distance label (`CreateNewsControllerPresenter.swift:63`) is a power of two for the same reason, and may be an earlier pair's.
* Without a photo, or when the upload fails, the alert of a post stays without a button.
* Nearest-first is not shortest (report 2508, 2904 speak of the route with least petrol).
* Google's callback signs out whoever is stored (`AppDelegate.swift:42`). If the listener of an earlier sign-in has opened that
  person's tabs meanwhile, they stay on screen with nothing stored, also when the new sign-in is then refused or is of no member
  (`cut`; `SameAccountNextLaunch` says that this is the only way the next launch differs from the screen, and that it then asks).
* Sign-up stores `true` where `checkLogined` expects a uid, so that login is not remembered (report 2480).
* A late Login record puts an earlier shipper in the shop's list, and after a second post its rows mix orders
  (report 2488); the Storage cell shows the shop's name where the report has the receiver's.
* A failed second load of a photo replaces the photo; a reused cell with answers outstanding mixes two orders.
* After the last order is dropped, the old route and pins stay. Directions drawn late overlay newer ones
  (`RouteDrawn` says what may be on the map). On the shop's map a late distance replaces the panel's (`DistanceOfPanel`).
* An image of the loading GIF that cannot be read stops the app (`ServiceLogin.swift:168`), and one delay cut below its value
  (2.01 s) makes the divisor 1 ms and the animation thousands of frames.
* The tab bar can be hidden while another tab is selected (`CreateNewsController.swift:135`), leaving no way back;
  a double tap opens two forms and success pops whichever is on top; `clickSwitchPoin` is connected to no view.
* The shop's log-out ends in a cast that fails (`DetailShop.swift:41`).

## 5. Proofs

Every safety invariant and every action property that a passing run checks is a theorem, and so are both refinements.
A theorem holds for every value of the constants that satisfies the `ASSUME`s of its module. These say
only what the code gives: markers of the model ("nobody", "not heard of yet", "no text", an empty label) are no data, sets of
orders are finite, bounds are naturals, launches have the types they are used with. Bounds never carry an argument.

All proofs have one shape: the property is not inductive, so an invariant that implies it is named, and there is a
lemma per action (or per group of actions that touch the same conjuncts) that the invariant is kept.

### `OrderSyncProofs` (1,492 obligations): any number of phones, users, orders

| theorem | statement |
|---|---|
| `TypeCorrect` | `Spec => []TypeOK` |
| `ListenerHasLastWord` | `Spec => []LastWord` |
| `EchoNeverStops` | `Spec => []EchoNeverDrains` |
| `ImplementsLastWriterBoard` | `Spec => LastWriterBoard`, the refinement of `OrderBoard` |
| `CacheHoldsRecord` | `Spec => []CacheCatchesUp` |
| `AcksAreForWrites` | `Spec => []AcksAnswerWrites` |
| `RestMeansAgreement` | `Spec => []QuietMeansAgreed` |

`LastWord` is not inductive as it stands: a callback takes its event off the queue and writes
the post of the listener the event names, so events must name listeners that exist, and an acknowledgement takes a write off the
overlay, so there must be one to take. The inductive invariant is

    IInv == TypeOK /\ EventsValid /\ AppliedBound /\ NotHeard /\ Asserted

`EventsValid` says a queued event names a listener of its phone, `AppliedBound` that the server has applied no
more writes of a connection than the phone holds, `NotHeard` that nothing is queued or outstanding for an order whose record
the phone does not have (so the arrival of the record changes the view, and every listener gets its event), and `Asserted` is `LastWord`
for the other orders, with the queue as a set of events, which is what a step changes. It is kept because every change of a phone's view queues an event for every listener
(`RaisedFacts`), whatever changed it: an own write, data, an acknowledgement. A block of lemmas
first establishes what laying outstanding writes over a cache gives when one is appended
or removed (`OverlayAppend`, `OverlayTailOther`, …). `EchoNeverDrains` follows from `LastWord`: once the record is there, the view cannot
be equal to two different posts, so an event is queued. The refinement needs `TypeOK`: the write `ServerApply`
applies is a post some tap can make, so it is a `Take` or a `PutBack` of the board.

The three about the network need what is *under way*, `NetInv`: a connection that is down carries nothing (`DownIsEmpty`), `applied` is
the number of acknowledgements under way (`AcksCounted`), and the last news of an order on its way to a connected phone carries
the server's record of it; if there is none, the cache holds that record (`InboxCatchesUp`). A phone that is told old
news is thus always told the newest behind it, because messages of one connection stay in order and a reconnection starts from the
record itself. `QuietMeansAgreed` joins both invariants: with nothing under way or queued, cache, view and server are one.

### `SortRouteProofs` (610): any number of orders, any distances

| theorem | statement |
|---|---|
| `TypesKept` | `Spec => []TypeOK` |
| `ShopBeforeReceiver` | `Spec => []PickupFirst` |
| `EveryStopOnce` | `Spec => []EachStopOnce` |
| `ImplementsNearestStop` | `Spec => NearestFirst`, the refinement of `NearestStop` |

The loops never look at the route they build: they know what is on it only from the flags of the array. So the
inductive invariant `RouteInv` ties the two together. `OneEach`: the array has an order once, which must survive
the removal of an element (`Removed` says where the others go). `LeftKnown`: a location has its start blank
exactly if its shop is on the route. `GoneKnown`: an order not in the array has both stops on the route.
`PassKnown`: in the middle of a scan, the distance, the index and the kind remembered are one stop's, and none
scanned is nearer. At the end of a pass (`EndOfPass`, `PassVisits`) the
stop chosen is then permitted and nearest among *all* permitted ones, which is a step of `NearestStop`.

### `PostItemProofs` (1,765): any number of shops, shippers, posts and seconds, clocks that collide included

| theorem | statement |
|---|---|
| `PostedWhole` | `Spec => []ListedIsWhole` |
| `KeptForReads` | `Spec => []NothingTakenBack` |
| `OnlyRepeatsWipe` | `Spec => WipedOnlyByRepeat` |
| `PostTypes` | `Spec => []TypeOK` |

A `Product` on the server is whole only because of what the queue behind it looked
like. `InOrder` says what that is, for a database, a queue and the number of writes applied on this connection: those
have their paths in the database, and every write comes after the ones it relies on (`Needs`: a detail on its four children,
a product on its detail), which are in the database or further ahead in the *same* queue. `OrderAppend`, `OrderTail`,
`OrderApply` and `OrderGrows` say that adding a write that relies on what was found, acknowledging the oldest, applying the
next one and anything another phone or a shipper writes keep it; a disconnection sets the
number to 0, which only weakens it; a kill empties the queue. `Database` is the order's half: details and products that
are there rely on what is there. `Post` ties a stage to what can be found: the three places and the
receiver once the post has begun, the item once it is uploaded, and so on, and bounds the reads by it, so that
`NothingTakenBack` follows and each push relies on what was found. It does not matter whose post a path belongs to: two shops
in the same second write the same detail, and either of the two makes the order whole.

`OnlyRepeatsWipe` is about a *step*: one that takes an order back from its shipper applies a detail write a second time,
or one of another shop that posted in the same second, or of a phone that has posted more than once. `RepeatInv` says that a phone
that has posted once holds at most one detail write, and that an order of its own in the database comes from a write it has
already got through (`reached`). So the only detail it can apply over its own is that one, again.

### `SessionsProofs` (875): any number of persons and Google sign-ins

| theorem | statement |
|---|---|
| `Once` | `Spec => []RegisteredOnce` |
| `MembersOnly` | `Spec => []OnlyMembersInside` |
| `SameAccount` | `Spec => []SameAccountNextLaunch` |
| `LatestSignIn` | `Spec => []LastSignInWins` |
| `TypesHold` | `Spec => []TypeOK` |

`Once` needs that whoever is being registered has an account already (`OnceInv`): the check the apps make is
Auth's, not their own. `MembersOnly` needs that what is queued for the main thread is honest (`InsideInv`): a block
that opens tabs is for a member, a value event lists only members, and the uid stored is a member's or the flag.
A member is somebody with a Login record on the server or unacknowledged, or one that was lost with a killed app.

The other two hold in launches without a sign-up (`joined`), whose block opens tabs past everything else. `SignInInv` says that what is
stored is whose tabs are open, or nothing if Google's callback came over them (`cut`), and where
the main thread is heading (`Ends`): a value event that opens tabs becomes a block *behind* all that are queued, so the last such
event decides, then the last block, then the tabs that are open; and each of the three belongs to the last claimant who is a
member (`Wins`), because every change of the Login tree queues an event for every listener in the order of registration.

### `NewsTabProofs` (1,861): any orders, any number of appearances, any card

| theorem | statement |
|---|---|
| `RowsHaveOrders` | `TabSpec => []RowsExist` |
| `NoOrderTwice` | `TabSpec => []NothingTwice` |
| `NothingMissing` | `TabSpec => []FreeOrdersListed` |
| `LabelsAreWritten` | `TabSpec => []EveryLabelWritten` |
| `OneOrderOnACard` | `TabSpec => []CardIsOfOneOrder` |

Why has the table never a row more than the list, although the list is replaced without a reload? Orders are never deleted from
the database, so the lists that wait on the main thread are of more and more orders, none shorter than the list that is there
(`NewsGrows`). The plain listener, which reloads the table, is the first of all (`PlainFirst`), so a list that is heard is always shown. As long as
nothing was dropped, the filter removes nothing (`NothingReleased`; whether it should remove *taken* orders, as report 2500 has it, is left open by
`FreeOrdersListed`), and list and table are the last value heard, or that is queued (`ListIsLatest`).
`CardInv` says of each label of a card that it is right or that an answer which will write it is on its way (`Awaited`); and of a card
that was not bound over outstanding answers, that all of those are of its order.

### `MyOrdersProofs` (2,603): any orders, places, shippers and launches

| theorem | statement |
|---|---|
| `StorageIsComplete` | `Spec => []StorageCatchesUp` |
| `NoCrashWithoutLoss` | `Spec => []CrashOnlyAfterLoss` |
| `OwnOrdersHavePins` | `Spec => []PinsCover` |
| `RouteIsOfOwnOrders` | `Spec => []RouteIsCurrent` |
| `EveryLegAccountedFor` | `Spec => []RouteDrawn` |

`MyInv` is a chain of hand-overs. Storage: the last "Product" value queued is the latest, else the last listener it left
behind is of the latest, else the last value *that* listener was told is (`StorageToldAll`, `StorageIsLatest`). Route: an array that
blocks go back to by index may only grow, which holds until the shipper loses an order (`RouteGrows`): the crash after a loss is
the code's. A point not known is waited for, a known one has its pin or the block that sets it (`PlacesAwaited`); the route is
through the array, or will be asked for again (`RouteAwaited`).

### `ShopTabsProofs` (2,745): any addresses, orders, shippers, images and delays

| theorem | statement |
|---|---|
| `MapHasNoDeadEnd` | `TabsSpec => []NoDeadEnd` |
| `PanelHasRoute` | `TabsSpec => []RouteForPanel` |
| `PanelHasDistance` | `TabsSpec => []DistanceOfPanel` |
| `FormsWereOffered` | `TabsSpec => []FormWasOffered` |
| `RowsAreThere` | `TabsSpec => []IndexInRange` |
| `RowsAreComplete` | `TabsSpec => []RowsComplete` |
| `RowsShowTheShipper` | `TabsSpec => []ShipperShown` |
| `FramesKeepDelays` | `TabsSpec => []EachForItsDelay` |

Three invariants, one for each part. `CreateInv`: what the panel says are the texts of the two fields, one of the two ways on is
there, and unless an answer overtook another the route asked for last is the panel's. `ListInv`: as in the News tab the lists
only grow, so that an index stays in range; a row waits for its listeners (`RowsAwaited`); and a list that was filled once
is in the order of *one* enumeration of the dictionary (`OneListing`), which is what ties a row's three parts to one order. `GifInv`
follows `gcdForPair` by *common divisors* instead of a gcd function: whatever divides both numbers at hand divides the
divisor so far and the delay, and what divides all delays divides both. At the end the divisor divides every delay, so the
integer division that counts the frames is exact, and two images have frames in the proportion of their delays.

### `SelectionProofs` (834): lemmas only

The lists and listeners above need to know which elements `Selected(s, T)` has, where they stand and which is the last, for sequences
of any length. It is a recursive function; its facts are proved by induction over a *set* of numbers (a smallest counterexample,
`WFMin`), since the library's induction theorems take an operator and no installed prover can instantiate those. `Ordered` and
`LastIn` (every pair of a sequence in order is in a relation; the last element of one set is in another) get lemmas for appending,
concatenating and taking the tail, which is all that queues do.

### Only model-checked

* Liveness: `SoleClaimSettles`, `Returns` (`SortRoute`), `WritesArrive`, `ToldAfterUpload`, `PostedIsSeen`, `LoadingEnds`. The
  prover handles neither liveness under fairness nor `ENABLED`.
* The three properties that are violated.
* What a recursive definition computes for *every* input, other than by the induction above.

## 6. Plan

Done, in this order: claims over the client, with the abstract boards and the proofs; the route
order; posting; the News tab; the sessions; Storage and Route; the shop's list and map; cards and schemas; the proofs
about the route order, the sessions and posting; the directions of a route; the distance on the map; the loading screen; what a
repeated post takes back; the proofs about the network under the claims, sign-ins, repeated posts, and all of the News tab, Storage,
Route, the shop's list, the map and the loading screen.

What could still be modelled is small: the echo of a phone's own writes under its Storage and Route tabs (a change of
the database there, which covers it from the tabs' point of view).

Left for the proofs: no safety property that a run checks. Worth adding are the safety half of the liveness runs (what must hold for
the next fair step to be possible: a post that waits has a read under way, a loop of the GIF or of `sortRoute` has a measure
that falls), and an abstract specification of posting (an order is absent, under way or posted whole) that `PostItem` refines.

## 7. Types

`TypeOK` is proved for `OrderSync`, `SortRoute`, `Sessions` and `PostItem`, so no run spends time on it. The types of the other
modules (`NewsTypes`, `CardTypes`, `MyTypes`, `CreateTypes`, `ListTypes`, `GifTypes`) are the first conjuncts of the inductive
invariants in the proof modules.

## 8. Not modelled

* **Tab bars, screens, storyboards, extensions**: wiring and layout without state; who the tabs are built for is in the sessions.
* **Commented-out code** (`Model.swift`, `TabBarHomeShop.swift`, `DetailShopPresenter.swift`).
* **Other vendored SDKs**: only their answers, as external actions, failing where they may fail. All C and C++ in the
  repository is vendored below `Pods/` (leveldb, nanopb, headers of the Google SDKs), twice: none of it is the apps' own logic. leveldb
  is linked for the persistence the apps leave off, nanopb serves the measurement SDK. The map therefore covers none of the C
  files; of the two apps' own 5,895 lines of Swift it names 38 %, the rest being layout, outlets, imports, storyboard wiring, and
  code that is commented out or called by nothing.
* Of the database client: queries, transactions, `onDisconnect`, persistence (off), the wire protocol.
* Map regions, annotations' looks, colours, text formats; the photo picker; that iOS may empty `NSCache`.
