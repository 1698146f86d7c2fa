----------------------------- MODULE ShopTabsProofs -----------------------------
(***************************************************************************)
(* Theorems about the shop app's tabs, for any addresses, orders, shippers *)
(* and bounds: the map on which an order is begun (CreateNews), the list   *)
(* of the shop's orders (ShopList), the frames of the loading screen       *)
(* (GifFrames).                                                            *)
(***************************************************************************)
EXTENDS ShopTabs, SelectionProofs

--------------------------------------------------------------------------------
(* The inductive invariant.                                                 *)
Names  == UNION {Addresses[f] : f \in Fields}
Texts  == [Fields -> Names \cup {Empty}]
Form   == [places : Texts, shown : Texts]

CreateTypes ==
  /\ text \in Texts /\ label \in Texts
  /\ info \in BOOLEAN /\ panel \in BOOLEAN /\ create \in BOOLEAN
  /\ naming \subseteq [field : Fields, address : Names]
  /\ routing \in Seq(Texts)
  /\ opening \in Seq(Form) /\ forms \in Seq(Form)

(* The panel shows the texts of the two fields, and one of the two ways on  *)
(* is always there.                                                         *)
PanelShowsTexts == panel => label = text /\ Filled(text)
WayOn == create \/ panel

(* As long as no answer overtook another, the route asked for last is the   *)
(* panel's: the others will be drawn before it.                             *)
LastIsPanels == panel /\ ~overtaken =>
  \/ label \in refused
  \/ routing = <<>> /\ timeExpect = label
  \/ routing # <<>> /\ routing[Len(routing)] = label

OpenedAsShown ==
  /\ \A k \in DOMAIN opening : opening[k].places = opening[k].shown
  /\ \A k \in DOMAIN forms : forms[k].places = forms[k].shown

CreateInv == /\ CreateTypes /\ PanelShowsTexts /\ WayOn
             /\ RouteForPanel /\ LastIsPanels /\ OpenedAsShown

LEMMA NamesFilled == Empty \notin Names
  BY CreateNewsAssumption DEF Names, Fields

LEMMA CreateInitInv == CreateInit => CreateInv
<1> SUFFICES ASSUME CreateInit PROVE CreateInv
  OBVIOUS
<1>1. NoText \in Texts
  BY DEF NoText, Texts
<1>2. \A S : <<>> \in Seq(S)
  OBVIOUS
<1>3. DOMAIN <<>> = {}
  OBVIOUS
<1>4. CreateTypes
  BY <1>1, <1>2 DEF CreateInit, CreateTypes
<1> QED BY <1>3, <1>4 DEF CreateInit, CreateInv, PanelShowsTexts, WayOn, RouteForPanel,
                         LastIsPanels, OpenedAsShown

(* Searching and the buttons that leave the panel alone.                    *)
LEMMA SearchStep ==
  ASSUME CreateInv,
         \/ ClickCreateProduct
         \/ \E f \in Fields : TapPoint(f)
         \/ CancelSearch \/ SearchButtonClicked
         \/ \E f \in Fields : \E a \in Addresses[f] : SearchFound(f, a)
         \/ SearchFailed
         \/ \E n \in naming : NotNamed(n)
  PROVE  CreateInv'
<1>1. /\ UNCHANGED <<text, label, panel, create, routes, opening, forms>>
      /\ info' \in BOOLEAN
  BY DEF CreateInv, CreateTypes, ClickCreateProduct, TapPoint, CancelSearch, SearchButtonClicked,
         SearchFound, SearchFailed, NotNamed, input, stack
<1>2. naming' \subseteq [field : Fields, address : Names]
  <2>1. \A f \in Fields : \A a \in Addresses[f] : [field |-> f, address |-> a] \in [field : Fields, address : Names]
    BY DEF Names
  <2> QED BY <2>1 DEF CreateInv, CreateTypes, ClickCreateProduct, TapPoint, CancelSearch,
         SearchButtonClicked, SearchFound, SearchFailed, NotNamed, search
<1> QED BY <1>1, <1>2 DEF CreateInv, CreateTypes, PanelShowsTexts, WayOn, RouteForPanel,
                         LastIsPanels, OpenedAsShown, Filled, routes

(* An address comes: the second one opens the panel and asks for a route.   *)
LEMMA NamedStep ==
  ASSUME CreateInv, NEW n \in naming, Named(n)
  PROVE  CreateInv'
<1>1. n.field \in Fields /\ n.address \in Names /\ n.address # Empty
  BY NamesFilled DEF CreateInv, CreateTypes
<1>2. PICK t \in Texts : t = [text EXCEPT ![n.field] = n.address]
  BY <1>1 DEF CreateInv, CreateTypes, Texts
<1>3. /\ text' = t /\ EvenAfterInport(t)
      /\ naming' = naming \ {n}
      /\ UNCHANGED <<refused, drawn, timeExpect, opening, forms>>
  BY <1>2 DEF Named
<1>4. Filled(text) => Filled(t)
  BY <1>1, <1>2 DEF Filled, CreateInv, CreateTypes, Texts
<1>5. CASE Filled(t)
  <2>1. /\ panel' = TRUE /\ label' = t /\ info' = FALSE /\ create' = FALSE
        /\ routing' = Append(routing, t) /\ overtaken' = (overtaken /\ routing # <<>>)
    BY <1>3, <1>5 DEF EvenAfterInport
  <2>2. routing \in Seq(Texts)
    BY DEF CreateInv, CreateTypes
  <2>3. /\ routing' \in Seq(Texts) /\ Len(routing) \in Nat
        /\ Len(routing') = Len(routing) + 1 /\ DOMAIN routing' = 1..Len(routing) + 1
        /\ routing'[Len(routing) + 1] = t
    BY <2>1, <2>2, AppendFacts
  <2>4. routing' # <<>>
    BY <2>3
  <2>5. CreateTypes'
    BY <1>3, <2>1, <2>3 DEF CreateInv, CreateTypes
  <2>6. PanelShowsTexts' /\ WayOn'
    BY <1>3, <1>5, <2>1 DEF PanelShowsTexts, WayOn, Filled
  <2>7. RouteForPanel' /\ LastIsPanels'
    BY <2>1, <2>3, <2>4 DEF RouteForPanel, LastIsPanels
  <2>8. OpenedAsShown'
    BY <1>3 DEF CreateInv, OpenedAsShown
  <2> QED BY <2>5, <2>6, <2>7, <2>8 DEF CreateInv
<1>6. CASE ~Filled(t)
  <2>1. panel' = FALSE /\ UNCHANGED <<label, info, create, routing, overtaken>>
    BY <1>3, <1>6 DEF EvenAfterInport
  <2>2. create
    BY <1>4, <1>6 DEF CreateInv, PanelShowsTexts, WayOn
  <2>3. CreateTypes'
    BY <1>3, <2>1 DEF CreateInv, CreateTypes
  <2>4. OpenedAsShown'
    BY <1>3 DEF CreateInv, OpenedAsShown
  <2> QED BY <2>1, <2>2, <2>3, <2>4 DEF CreateInv, PanelShowsTexts, WayOn, RouteForPanel, LastIsPanels
<1> QED BY <1>5, <1>6

LEMMA RouteStep ==
  ASSUME CreateInv, NEW k \in DOMAIN routing, RouteFound(k) \/ RouteRefused(k)
  PROVE  CreateInv'
<1>1. routing \in Seq(Texts)
  BY DEF CreateInv, CreateTypes
<1>2. PICK q \in Seq(Texts) : q = routing
  BY <1>1
<1>3. PICK s \in Seq(Texts) : s = RemoveAt(q, k)
  BY <1>2, RemoveAtFacts
<1>4. /\ Len(q) \in Nat /\ k \in 1..Len(q) /\ DOMAIN q = 1..Len(q)
      /\ Len(s) = Len(q) - 1 /\ DOMAIN s = 1..Len(q) - 1
      /\ \A j \in 1..Len(q) - 1 : s[j] = IF j < k THEN q[j] ELSE q[j + 1]
  BY <1>2, <1>3, RemoveAtFacts
<1>5. /\ routing' = s /\ UNCHANGED <<text, label, info, panel, create, naming, opening, forms>>
  BY <1>2, <1>3 DEF RouteFound, RouteRefused, input, search, stack
<1>6. CreateTypes' /\ PanelShowsTexts' /\ WayOn' /\ OpenedAsShown'
  BY <1>3, <1>5 DEF CreateInv, CreateTypes, PanelShowsTexts, WayOn, OpenedAsShown, Filled
<1>7. q[k] \in drawn' \cup refused' /\ drawn \subseteq drawn' /\ refused \subseteq refused'
  BY <1>2 DEF RouteFound, RouteRefused
<1>8. RouteForPanel'
  <2>1. SUFFICES ASSUME panel, label \notin drawn' \cup refused'
                 PROVE  \E j \in DOMAIN s : s[j] = label
    BY <1>5 DEF RouteForPanel
  <2>2. PICK j \in 1..Len(q) : q[j] = label
    BY <1>2, <1>4, <1>7, <2>1 DEF CreateInv, RouteForPanel
  <2>3. j # k
    BY <1>7, <2>1, <2>2
  <2>4. CASE j < k
    <3>1. j \in 1..Len(q) - 1
      BY <1>4, <2>4
    <3> QED BY <1>4, <2>2, <2>4, <3>1
  <2>5. CASE j > k
    <3>1. j - 1 \in 1..Len(q) - 1 /\ ~(j - 1 < k) /\ (j - 1) + 1 = j
      BY <1>4, <2>5
    <3>2. s[j - 1] = q[j]
      BY <1>4, <3>1
    <3> QED BY <1>4, <2>2, <3>1, <3>2
  <2> QED BY <1>4, <2>3, <2>4, <2>5
<1>9. LastIsPanels'
  <2>1. SUFFICES ASSUME panel, ~overtaken', label \notin refused'
                 PROVE  \/ s = <<>> /\ timeExpect' = label
                        \/ s # <<>> /\ s[Len(s)] = label
    BY <1>5 DEF LastIsPanels
  <2>2. ~overtaken /\ (RouteFound(k) => ~(k > 1))
    <3>1. RouteFound(k) => (overtaken' <=> overtaken \/ k > 1)
      BY DEF RouteFound
    <3>2. RouteRefused(k) => (overtaken' <=> overtaken)
      BY DEF RouteRefused
    <3> QED BY <2>1, <3>1, <3>2, Zenon
  <2>3. q # <<>> /\ q[Len(q)] = label
    BY <1>2, <1>4, <1>7, <2>1, <2>2 DEF CreateInv, LastIsPanels
  <2>4. CASE k # Len(q)
    <3>1. Len(s) \in 1..Len(q) - 1 /\ Len(s) >= k /\ Len(s) + 1 = Len(q)
      BY <1>4, <2>4
    <3>2. s[Len(s)] = q[Len(q)]
      BY <1>4, <3>1
    <3> QED BY <2>3, <3>1, <3>2
  <2>5. CASE k = Len(q)
    <3>1. RouteFound(k)
      BY <1>2, <2>1, <2>3, <2>5 DEF RouteRefused
    <3>2. k = 1
      BY <1>4, <2>2, <3>1
    <3>3. timeExpect' = q[k]
      BY <1>2, <3>1 DEF RouteFound
    <3>4. s = <<>>
      BY <1>3, <1>4, <2>5, <3>2, EmptySeq
    <3> QED BY <2>3, <2>5, <3>3, <3>4
  <2> QED BY <2>4, <2>5
<1> QED BY <1>6, <1>8, <1>9 DEF CreateInv

(* The form is asked for, comes, or does not.                               *)
LEMMA OpeningStep ==
  ASSUME CreateInv,
         \/ ClickDetailCreateNews
         \/ \E k \in DOMAIN opening : Push(k)
         \/ \E k \in DOMAIN opening : NotPushed(k)
  PROVE  CreateInv'
<1> DEFINE AsShown(q) == \A k \in DOMAIN q : q[k].places = q[k].shown
<1>1. /\ opening \in Seq(Form) /\ forms \in Seq(Form) /\ text \in Texts /\ label \in Texts
      /\ AsShown(opening) /\ AsShown(forms)
  BY DEF CreateInv, CreateTypes, OpenedAsShown
<1>2. ASSUME NEW q \in Seq(Form), NEW f \in Form, AsShown(q), f.places = f.shown
      PROVE  Append(q, f) \in Seq(Form) /\ AsShown(Append(q, f))
  <2>1. /\ Append(q, f) \in Seq(Form) /\ Len(q) \in Nat /\ DOMAIN q = 1..Len(q)
        /\ DOMAIN Append(q, f) = 1..Len(q) + 1 /\ Append(q, f)[Len(q) + 1] = f
        /\ \A j \in 1..Len(q) : Append(q, f)[j] = q[j]
    BY AppendFacts
  <2>2. ASSUME NEW j \in 1..Len(q) + 1 PROVE Append(q, f)[j].places = Append(q, f)[j].shown
    BY <1>2, <2>1
  <2> QED BY <2>1, <2>2
<1>3. ASSUME NEW q \in Seq(Form), NEW k \in DOMAIN q, AsShown(q)
      PROVE  RemoveAt(q, k) \in Seq(Form) /\ AsShown(RemoveAt(q, k)) /\ q[k] \in Form
  <2>1. /\ RemoveAt(q, k) \in Seq(Form) /\ Len(q) \in Nat /\ DOMAIN q = 1..Len(q)
        /\ DOMAIN RemoveAt(q, k) = 1..Len(q) - 1
        /\ \A j \in 1..Len(q) - 1 : RemoveAt(q, k)[j] = IF j < k THEN q[j] ELSE q[j + 1]
    BY RemoveAtFacts
  <2>2. ASSUME NEW j \in 1..Len(q) - 1
        PROVE  RemoveAt(q, k)[j].places = RemoveAt(q, k)[j].shown
    <3>1. j \in DOMAIN q /\ j + 1 \in DOMAIN q
      BY <2>1
    <3> QED BY <1>3, <2>1, <3>1
  <2> QED BY <2>1, <2>2, ElementOfSeq
<1> HIDE DEF AsShown
<1>4. opening' \in Seq(Form) /\ forms' \in Seq(Form) /\ AsShown(opening') /\ AsShown(forms')
  <2>1. CASE ClickDetailCreateNews
    <3>1. label = text
      BY <2>1 DEF CreateInv, PanelShowsTexts, ClickDetailCreateNews
    <3>2. PICK f \in Form : f = [places |-> text, shown |-> label]
      BY <1>1 DEF Form
    <3>3. opening' = Append(opening, f) /\ forms' = forms /\ f.places = f.shown
      BY <2>1, <3>1, <3>2 DEF ClickDetailCreateNews
    <3> QED BY <1>1, <1>2, <3>3
  <2>2. CASE \E k \in DOMAIN opening : Push(k)
    <3> PICK k \in DOMAIN opening : Push(k)
      BY <2>2
    <3>1. PICK f \in Form : f = opening[k]
      BY <1>1, <1>3
    <3>2. f.places = f.shown
      BY <1>1, <3>1 DEF AsShown
    <3>3. forms' = Append(forms, f) /\ opening' = RemoveAt(opening, k)
      BY <3>1 DEF Push
    <3>4. forms' \in Seq(Form) /\ AsShown(forms')
      BY <1>1, <1>2, <3>2, <3>3
    <3>5. opening' \in Seq(Form) /\ AsShown(opening')
      BY <1>1, <1>3, <3>3
    <3> QED BY <3>4, <3>5
  <2>3. CASE \E k \in DOMAIN opening : NotPushed(k)
    <3> PICK k \in DOMAIN opening : NotPushed(k)
      BY <2>3
    <3>1. forms' = forms /\ opening' = RemoveAt(opening, k)
      BY DEF NotPushed
    <3>2. RemoveAt(opening, k) \in Seq(Form) /\ AsShown(RemoveAt(opening, k))
      BY <1>1, <1>3
    <3>3. opening' \in Seq(Form) /\ AsShown(opening')
      BY <3>1, <3>2
    <3>4. forms' \in Seq(Form) /\ AsShown(forms')
      BY <1>1, <3>1
    <3> QED BY <3>3, <3>4
  <2> QED BY <2>1, <2>2, <2>3
<1>5. UNCHANGED <<input, search, routes>>
  BY DEF ClickDetailCreateNews, Push, NotPushed
<1>6. CreateTypes' /\ OpenedAsShown'
  BY <1>4, <1>5 DEF CreateInv, CreateTypes, OpenedAsShown, AsShown, input, search, routes
<1> QED BY <1>5, <1>6 DEF CreateInv, PanelShowsTexts, WayOn, RouteForPanel, LastIsPanels, Filled,
                          input, routes

(* The panel is left: the fields are emptied, whatever is still awaited.    *)
LEMMA ResetStep ==
  ASSUME CreateInv, panel' = FALSE, create' = TRUE, info' = FALSE, text' = NoText,
         label' = label, naming' = naming, routing' = routing, opening' = opening,
         forms' = forms \/ (forms # <<>> /\ forms' = Front(forms))
  PROVE  CreateInv'
<1>1. NoText \in Texts
  BY DEF NoText, Texts
<1>2. forms \in Seq(Form)
  BY DEF CreateInv, CreateTypes
<1>3. forms' \in Seq(Form) /\ \A k \in DOMAIN forms' : k \in DOMAIN forms /\ forms'[k] = forms[k]
  <2>1. CASE forms' = forms
    BY <1>2, <2>1
  <2>2. CASE forms # <<>> /\ forms' = Front(forms)
    <3>1. /\ Front(forms) \in Seq(Form) /\ Len(forms) \in Nat \ {0} /\ DOMAIN forms = 1..Len(forms)
          /\ DOMAIN Front(forms) = 1..Len(forms) - 1
          /\ \A j \in 1..Len(forms) - 1 : Front(forms)[j] = forms[j]
      BY <1>2, <2>2, FrontFacts
    <3> QED BY <2>2, <3>1
  <2> QED BY <2>1, <2>2
<1>4. CreateTypes'
  BY <1>1, <1>3 DEF CreateInv, CreateTypes
<1>5. OpenedAsShown'
  BY <1>3 DEF CreateInv, OpenedAsShown
<1> QED BY <1>4, <1>5 DEF CreateInv, PanelShowsTexts, WayOn, RouteForPanel, LastIsPanels

LEMMA LeaveAloneStep ==
  ASSUME CreateInv, UNCHANGED <<input, search, routes, opening>>,
         forms' = forms \/ (forms # <<>> /\ forms' = Front(forms))
  PROVE  CreateInv'
<1>1. forms \in Seq(Form)
  BY DEF CreateInv, CreateTypes
<1>2. forms' \in Seq(Form) /\ \A k \in DOMAIN forms' : k \in DOMAIN forms /\ forms'[k] = forms[k]
  <2>1. CASE forms' = forms
    BY <1>1, <2>1
  <2>2. CASE forms # <<>> /\ forms' = Front(forms)
    <3>1. /\ Front(forms) \in Seq(Form) /\ Len(forms) \in Nat \ {0} /\ DOMAIN forms = 1..Len(forms)
          /\ DOMAIN Front(forms) = 1..Len(forms) - 1
          /\ \A j \in 1..Len(forms) - 1 : Front(forms)[j] = forms[j]
      BY <1>1, <2>2, FrontFacts
    <3> QED BY <2>2, <3>1
  <2> QED BY <2>1, <2>2
<1>3. CreateTypes'
  BY <1>2 DEF CreateInv, CreateTypes, input, search, routes
<1>4. OpenedAsShown'
  BY <1>2 DEF CreateInv, OpenedAsShown
<1> QED BY <1>3, <1>4 DEF CreateInv, PanelShowsTexts, WayOn, RouteForPanel, LastIsPanels, Filled,
                          input, routes

LEMMA CreateStep ==
  ASSUME CreateInv, [TabsNext]_tabs
  PROVE  CreateInv'
<1>1. CASE UNCHANGED tab
  <2>1. UNCHANGED <<input, search, routes, opening>> /\ forms' = forms
    BY <1>1 DEF tab, stack
  <2> QED BY <2>1, LeaveAloneStep
<1>2. CASE LeaveTab
  <2>1. UNCHANGED <<input, search, routes, opening>> /\ forms' = forms
    BY <1>2 DEF LeaveTab
  <2> QED BY <2>1, LeaveAloneStep
<1>3. CASE ReturnTab
  BY <1>3, ResetStep DEF ReturnTab, ViewDidAppear, search
<1>4. CASE PopForm
  <2>1. CASE Len(forms) = 1
    BY <1>4, <2>1, ResetStep DEF PopForm, ViewDidAppear, search
  <2>2. CASE Len(forms) # 1
    BY <1>4, <2>2, LeaveAloneStep DEF PopForm, routes
  <2> QED BY <2>1, <2>2
<1>5. CASE CreateNext
  <2>1. CASE ClickCancelDetailViewPost
    BY <2>1, ResetStep DEF ClickCancelDetailViewPost, search, routes
  <2> QED BY <1>5, <2>1, SearchStep, NamedStep, RouteStep, OpeningStep DEF CreateNext
<1> QED BY <1>1, <1>2, <1>3, <1>4, <1>5 DEF TabsNext, SelectTab, tabs

LEMMA CreateInductive == TabsSpec => []CreateInv
<1>1. TabsInit => CreateInv
  BY CreateInitInv DEF TabsInit
<1>2. CreateInv /\ [TabsNext]_tabs => CreateInv'
  BY CreateStep
<1> QED BY <1>1, <1>2, PTL DEF TabsSpec
--------------------------------------------------------------------------------
(* On the map there is always a way on, in whatever order addresses, forms  *)
(* and tabs come and go (CreateNewsController.swift:128-160).               *)
THEOREM MapHasNoDeadEnd == TabsSpec => []NoDeadEnd
<1>1. CreateInv => NoDeadEnd
  BY DEF CreateInv, WayOn, NoDeadEnd
<1> QED BY <1>1, CreateInductive, PTL

(* The route between the addresses on the panel is drawn, awaited or was    *)
(* refused (CreateNewsController.swift:128-165).                            *)
THEOREM PanelHasRoute == TabsSpec => []RouteForPanel
<1>1. CreateInv => RouteForPanel
  BY DEF CreateInv
<1> QED BY <1>1, CreateInductive, PTL

(* The distance beside the panel's addresses is theirs once no answer is    *)
(* awaited, unless it was refused or an answer overtook another             *)
(* (CreateNewsControllerPresenter.swift:25-70).                             *)
THEOREM PanelHasDistance == TabsSpec => []DistanceOfPanel
<1>1. CreateInv => DistanceOfPanel
  BY DEF CreateInv, LastIsPanels, DistanceOfPanel
<1> QED BY <1>1, CreateInductive, PTL

(* A form is for two addresses the panel showed together                    *)
(* (CreateNewsControllerPresenter.swift:189-201).                           *)
THEOREM FormsWereOffered == TabsSpec => []FormWasOffered
<1>1. CreateInv => FormWasOffered
  BY DEF CreateInv, OpenedAsShown, FormWasOffered
<1> QED BY <1>1, CreateInductive, PTL
--------------------------------------------------------------------------------
(* The list of the shop's orders (ShopList).  What may be queued where.     *)
DetailListeners == [on : {"Detail"}, key : Orders, index : Nat]
PartsListeners  == [on : {"Parts"}, key : Orders, index : Nat]
LoginListeners  == [on : {"Login"}, key : Shippers, index : Nat]
RowListeners    == DetailListeners \cup PartsListeners \cup LoginListeners
ListListeners   == {ProductListener} \cup RowListeners

ProductEvents == [listener : {ProductListener}, value : SUBSET Orders]
DetailEvents  == [listener : DetailListeners, value : Holders]
PartsEvents   == [listener : PartsListeners, value : Orders]
LoginEvents   == [listener : LoginListeners, value : Shippers]
ListEvents    == ProductEvents \cup DetailEvents \cup PartsEvents \cup LoginEvents

Row == [detail : Orders \cup {Blank}, parts : Orders \cup {Blank}, shipper : Holders \cup {Blank}]

ListTypes ==
  /\ holder \in [Orders -> Holders \cup {Unposted}]
  /\ takers \in [Orders -> SUBSET (Holders \cup {Unposted})]
  /\ products = Unheard \/ products \in SUBSET Posted
  /\ details \in [Orders -> Holders \cup {Unheard}]
  /\ observing \in Seq(ListListeners) /\ regs \in Seq(ListListeners)
  /\ mainq \in Seq(ListEvents)
  /\ loads \in Nat /\ rows \in Seq(Row)

(* The listings that wait are of more and more orders, no shorter than the  *)
(* list, and the last is of all the orders the client has heard of.         *)
Longer == {p \in ListEvents \X ListEvents :
             p[1] \in ProductEvents /\ p[2] \in ProductEvents => p[1].value \subseteq p[2].value}
Latest == {e \in ProductEvents : e.value = products}

ListGrows ==
  /\ Ordered(mainq, Longer)
  /\ \A e \in ToSet(mainq) \cap ProductEvents :
       products # Unheard /\ e.value \subseteq products /\ Len(rows) <= Cardinality(e.value)
  /\ IF products = Unheard THEN rows = <<>> ELSE Len(rows) <= Cardinality(products)
  /\ loads = 0 => rows = <<>>
  /\ ~open => observing = <<>> /\ regs = <<>> /\ mainq = <<>>

ListIsLatest ==
  /\ LastIn(mainq, ProductEvents, Latest)
  /\ ToSet(mainq) \cap ProductEvents = {} /\ products # Unheard =>
       Len(rows) = Cardinality(products)

(* A row waits for its listeners.                                           *)
At(on, i) == {l \in Remembered : l.on = on /\ l.index = i}

Awaited(l) ==
  \/ l \in ToSet(observing)
  \/ l \in ToSet(regs) /\ details[l.key] = Unheard
  \/ \E e \in ToSet(mainq) : e.listener = l

DetailsOfPosted == \A l \in Remembered : l.on = "Detail" => l.key \in Posted

RowsAwaited == \A i \in DOMAIN rows :
  IF rows[i].detail = Blank THEN \E l \in At("Detail", i) : Awaited(l)
  ELSE /\ rows[i].parts = Blank => At("Parts", i) # {}
       /\ rows[i].shipper = Blank => At("Login", i) # {}

(* Who has an order, as far as the phone has heard.                         *)
DetailEventsOf(o) == {e \in DetailEvents : e.listener.key = o}
LatestOf(o) == {e \in DetailEvents : e.value = details[o]}

TakersHeard ==
  /\ \A o \in Orders : holder[o] \in takers[o] /\ details[o] \in takers[o] \cup {Unheard}
  /\ \A e \in ToSet(mainq) \cap DetailEvents : e.value \in takers[e.listener.key]
  /\ \A o \in Orders : LastIn(mainq, DetailEventsOf(o), LatestOf(o))

(* Row i is of order o and the shipper in it the one last heard of, unless  *)
(* something is still on its way.                                           *)
ShipperIsLatest(i, o) ==
  \/ details[o] = Unheard
  \/ \E l \in ToSet(observing) \cap DetailListeners : l.key = o
  \/ ToSet(mainq) \cap DetailEventsOf(o) # {}
  \/ /\ \A l \in At("Login", i) : l.key = details[o]
     /\ At("Login", i) = {} => rows[i].shipper = details[o]

ListedAs(S, listed) ==
  /\ Len(rows) = Cardinality(S)
  /\ \A l \in Remembered :
       /\ l.on \in {"Detail", "Parts"} => l.key = listed[l.index]
       /\ l.on = "Login" => l.key \in takers[listed[l.index]]
  /\ \A i \in DOMAIN rows :
       /\ rows[i].detail \in {Blank, listed[i]} /\ rows[i].parts \in {Blank, listed[i]}
       /\ rows[i].shipper \in takers[listed[i]] \cup {Blank}
       /\ listed[i] \notin late => ShipperIsLatest(i, listed[i])

(* As long as the list was filled only once, its rows are the orders of one *)
(* listing.                                                                 *)
OneListing == loads = 1 =>
  \E S \in SUBSET Posted : \E listed \in SetToSeqs(S) : ListedAs(S, listed)

ListInv == /\ ListTypes /\ ListGrows /\ ListIsLatest /\ IndexInRange /\ DetailsOfPosted
           /\ RowsAwaited /\ TakersHeard /\ OneListing
--------------------------------------------------------------------------------
LEMMA MarkersDiffer ==
  /\ Unheard \notin Holders \cup Orders /\ Unposted \notin Holders /\ Blank \notin Holders \cup Orders
  /\ \A S \in SUBSET Orders : Unheard # S
  /\ NoOne \in Holders /\ Shippers \subseteq Holders /\ NoOne \notin Shippers
  BY ShopListAssumption DEF Holders

(* Larger sets of orders have no fewer of them.                             *)
LEMMA Counts ==
  ASSUME NEW S \in SUBSET Orders, NEW T \in SUBSET S
  PROVE  /\ IsFiniteSet(S) /\ Cardinality(S) \in Nat /\ Cardinality(T) \in Nat
         /\ Cardinality(T) <= Cardinality(S)
         /\ Cardinality(S) = Cardinality(T) => S = T
         /\ S = {} => Cardinality(S) = 0
         /\ Cardinality(S) = 0 => S = {}
<1>1. IsFiniteSet(S) /\ IsFiniteSet(T)
  BY ShopListAssumption, FS_Subset
<1> QED BY <1>1, FS_Subset, FS_CardinalityType, FS_EmptySet

LEMMA ListingFacts ==
  ASSUME NEW S \in SUBSET Orders, NEW listed \in SetToSeqs(S)
  PROVE  /\ listed \in Seq(S) /\ Len(listed) = Cardinality(S) /\ Len(listed) \in Nat
         /\ DOMAIN listed = 1..Len(listed) /\ ToSet(listed) = S
         /\ \A i \in 1..Len(listed) : listed[i] \in S
         /\ \A i, j \in 1..Len(listed) : listed[i] = listed[j] => i = j
<1>1. /\ listed \in [1..Cardinality(S) -> S]
      /\ \A i, j \in 1..Cardinality(S) : listed[i] = listed[j] => i = j
  BY DEF SetToSeqs
<1>2. IsFiniteSet(S)
  BY Counts
<1> QED BY <1>1, <1>2, Enumeration

LEMMA ListEventsFor ==
  ASSUME NEW q \in Seq(ListListeners), NEW v, \A l \in ToSet(q) : Event(l, v) \in ListEvents
  PROVE  /\ EventsFor(q, v) \in Seq(ListEvents)
         /\ ToSet(EventsFor(q, v)) = {Event(l, v) : l \in ToSet(q)}
<1>1. Len(q) \in Nat /\ DOMAIN q = 1..Len(q) /\ ToSet(q) = {q[k] : k \in 1..Len(q)}
  BY ElementFacts
<1> DEFINE f == EventsFor(q, v)
<1>2. f = [k \in 1..Len(q) |-> Event(q[k], v)]
  BY <1>1 DEF EventsFor
<1>3. \A k \in 1..Len(q) : f[k] = Event(q[k], v) /\ f[k] \in ListEvents
  BY <1>1, <1>2
<1>4. f \in Seq(ListEvents) /\ DOMAIN f = 1..Len(q)
  BY <1>1, <1>2, <1>3
<1>5. ToSet(f) = {f[k] : k \in 1..Len(q)}
  BY <1>4 DEF ToSet
<1> HIDE DEF f
<1>6. ToSet(f) = {Event(l, v) : l \in ToSet(q)}
  BY <1>1, <1>3, <1>5
<1> QED BY <1>4, <1>6 DEF f

LEMMA EmptyQueue ==
  /\ ToSet(<<>>) = {} /\ Len(<<>>) = 0 /\ DOMAIN <<>> = {}
  /\ \A S : <<>> \in Seq(S)
  BY EmptySeq DEF ToSet

LEMMA ListInitInv == Init => ListInv
<1> SUFFICES ASSUME Init PROVE ListInv
  OBVIOUS
<1>1. ListTypes
  BY EmptyQueue DEF Init, ListTypes, Posted
<1>2. Remembered = {}
  BY EmptyQueue DEF Init, Remembered
<1>3. ListGrows
  BY EmptyQueue DEF Init, ListGrows, Ordered
<1>4. ListIsLatest
  BY EmptyQueue DEF Init, ListIsLatest, LastIn
<1>5. IndexInRange /\ DetailsOfPosted /\ RowsAwaited
  BY <1>2, EmptyQueue DEF Init, IndexInRange, DetailsOfPosted, RowsAwaited
<1>6. TakersHeard
  BY EmptyQueue DEF Init, TakersHeard, LastIn
<1>7. OneListing
  BY DEF Init, OneListing
<1> QED BY <1>1, <1>3, <1>4, <1>5, <1>6, <1>7 DEF ListInv
--------------------------------------------------------------------------------
(* An order changes hands: what was posted stays posted, who had it had it. *)
LEMMA ReassignStep ==
  ASSUME ListInv, NEW o \in Orders, Reassign(o)
  PROVE  ListInv'
<1> USE DEF ListInv
<1>1. PICK h \in Holders \ {holder[o]} :
        /\ holder' = [holder EXCEPT ![o] = h]
        /\ takers' = [takers EXCEPT ![o] = @ \cup {h}]
  BY DEF Reassign
<1>2. UNCHANGED <<client, list>>
  BY DEF Reassign
<1>3. /\ holder' \in [Orders -> Holders \cup {Unposted}]
      /\ takers' \in [Orders -> SUBSET (Holders \cup {Unposted})]
      /\ Posted \subseteq Posted'
      /\ \A p \in Orders : takers[p] \subseteq takers'[p] /\ holder'[p] \in takers'[p]
  BY <1>1, MarkersDiffer DEF ListTypes, Posted, TakersHeard
<1>4. UNCHANGED <<Remembered, Latest>> /\ UNCHANGED <<IndexInRange, RowsAwaited>>
  BY <1>2 DEF client, list, Remembered, Latest, IndexInRange, RowsAwaited, At, Awaited
<1>5. ListTypes' /\ DetailsOfPosted'
  BY <1>2, <1>3, <1>4 DEF client, list, ListTypes, DetailsOfPosted
<1>6. ListGrows' /\ ListIsLatest' /\ IndexInRange' /\ RowsAwaited'
  BY <1>2, <1>4 DEF client, list, ListGrows, ListIsLatest
<1>7. TakersHeard'
  <2>1. \A p \in Orders : DetailEventsOf(p)' = DetailEventsOf(p) /\ LatestOf(p)' = LatestOf(p)
    BY <1>2 DEF client, DetailEventsOf, LatestOf
  <2>2. \A e \in ToSet(mainq) \cap DetailEvents : e.listener.key \in Orders
    BY DEF DetailEvents, DetailListeners
  <2> QED BY <1>2, <1>3, <2>1, <2>2 DEF client, TakersHeard
<1>8. OneListing'
  <2>1. SUFFICES ASSUME loads = 1
        PROVE \E S \in SUBSET Posted' : \E listed \in SetToSeqs(S) : ListedAs(S, listed)'
    BY <1>2 DEF OneListing, list
  <2>2. PICK S \in SUBSET Posted : \E listed \in SetToSeqs(S) : ListedAs(S, listed)
    BY <2>1 DEF OneListing
  <2>3. PICK listed \in SetToSeqs(S) : ListedAs(S, listed)
    BY <2>2
  <2>4. S \in SUBSET Orders /\ S \in SUBSET Posted'
    BY <1>3 DEF Posted
  <2>5. \A i \in DOMAIN rows : listed[i] \in Orders /\ i \in 1..Len(listed)
    BY <2>3, <2>4, ListingFacts, ElementFacts DEF ListedAs, ListTypes
  <2>6. \A i \in DOMAIN rows : ShipperIsLatest(i, listed[i]) => ShipperIsLatest(i, listed[i])'
    BY <1>2, <1>4 DEF client, list, ShipperIsLatest, DetailEventsOf, At
  <2>7. \A l \in Remembered : l.on = "Login" => l.index \in DOMAIN rows
    <3>1. \A l \in Remembered : l.on # "Product" => l.index \in DOMAIN rows
      BY DEF IndexInRange
    <3> QED BY <3>1
  <2>8. ListedAs(S, listed)'
    BY <1>2, <1>3, <1>4, <2>3, <2>5, <2>6, <2>7 DEF list, ListedAs
  <2> QED BY <2>3, <2>4, <2>8
<1> QED BY <1>5, <1>6, <1>7, <1>8

LEMMA OpenListStep ==
  ASSUME ListInv, OpenList
  PROVE  ListInv'
<1> USE DEF ListInv
<1>1. observing = <<>> /\ regs = <<>> /\ mainq = <<>>
  BY DEF OpenList, ListGrows
<1>2. /\ observing' = <<ProductListener>> /\ regs' = <<>> /\ mainq' = <<>> /\ open'
      /\ UNCHANGED <<database, products, details, fixed, loads, late, rows>>
  BY <1>1 DEF OpenList
<1>3. ProductListener \in ListListeners /\ ProductListener.on = "Product"
  BY DEF ListListeners, ProductListener
<1>4. observing' \in Seq(ListListeners) /\ ToSet(observing') = {ProductListener}
  BY <1>2, <1>3, Singleton
<1>5. Remembered = {} /\ Remembered' = {ProductListener}
  BY <1>1, <1>2, <1>4, EmptyQueue DEF Remembered
<1>6. ListTypes' /\ DetailsOfPosted' /\ IndexInRange'
  BY <1>2, <1>3, <1>4, <1>5, EmptyQueue
     DEF database, ListTypes, Posted, DetailsOfPosted, IndexInRange
<1>7. ListGrows' /\ ListIsLatest'
  BY <1>1, <1>2 DEF database, ListGrows, ListIsLatest, Latest
<1>8. \A on, i : At(on, i) = {} /\ (on # "Product" => At(on, i)' = {})
  BY <1>3, <1>5 DEF At
<1>9. RowsAwaited'
  BY <1>2, <1>8 DEF RowsAwaited
<1>10. TakersHeard'
  BY <1>1, <1>2 DEF database, TakersHeard, DetailEventsOf, LatestOf
<1>11. OneListing'
  <2>1. SUFFICES ASSUME loads = 1
        PROVE \E S \in SUBSET Posted' : \E listed \in SetToSeqs(S) : ListedAs(S, listed)'
    BY <1>2 DEF OneListing
  <2>2. PICK S \in SUBSET Posted : \E listed \in SetToSeqs(S) : ListedAs(S, listed)
    BY <2>1 DEF OneListing
  <2>3. PICK listed \in SetToSeqs(S) : ListedAs(S, listed)
    BY <2>2
  <2>4. ToSet(observing) \cap DetailListeners = {}
    BY <1>1, EmptyQueue
  <2>5. \A i \in DOMAIN rows : ShipperIsLatest(i, listed[i]) => ShipperIsLatest(i, listed[i])'
    BY <1>1, <1>2, <1>8, <2>4 DEF ShipperIsLatest, DetailEventsOf
  <2>6. ListedAs(S, listed)'
    BY <1>2, <1>3, <1>5, <2>3, <2>5 DEF database, ListedAs
  <2>7. Posted' = Posted
    BY <1>2 DEF database, Posted
  <2> QED BY <2>3, <2>6, <2>7
<1> QED BY <1>6, <1>7, <1>9, <1>10, <1>11
--------------------------------------------------------------------------------
(* What the client does: it raises new events, each with the value it knows *)
(* now, and one for every value that is new.                                *)
LEMMA ClientStep ==
  ASSUME ListInv, ListTypes', open, UNCHANGED <<database, list>>, Remembered' = Remembered,
         NEW new \in Seq(ListEvents), mainq' = mainq \o new,
         \A e \in ToSet(new) \cap ProductEvents : e.value = products' /\ products' # Unheard,
         products # Unheard => products' # Unheard /\ products \subseteq products',
         products' # products => ToSet(new) \cap ProductEvents # {},
         \A o \in Orders : details'[o] \in takers[o] \cup {Unheard},
         \A e \in ToSet(new) \cap DetailEvents :
            e.value = details'[e.listener.key] /\ e.value \in takers[e.listener.key],
         \A o \in Orders : details'[o] # details[o] => ToSet(new) \cap DetailEventsOf(o) # {},
         \A l \in Remembered : l.on = "Detail" /\ Awaited(l) => Awaited(l)',
         \A o \in Orders : \A l \in ToSet(observing) \cap DetailListeners :
            l.key = o => \/ l \in ToSet(observing') \/ details'[o] = Unheard
                         \/ ToSet(mainq') \cap DetailEventsOf(o) # {}
  PROVE  ListInv'
<1> USE DEF ListInv
<1>1. UNCHANGED <<holder, takers, loads, late, rows, open, Posted>>
  BY DEF database, list, Posted
<1>2. mainq \in Seq(ListEvents) /\ ToSet(new) \subseteq ListEvents /\ ToSet(mainq) \subseteq ListEvents
  BY ElementFacts DEF ListTypes
<1>3. ToSet(mainq') = ToSet(mainq) \cup ToSet(new)
  BY <1>2, ConcatFacts
<1>4. \A on, i : At(on, i)' = At(on, i)
  BY DEF At
<1>5. IndexInRange' /\ DetailsOfPosted'
  BY <1>1 DEF IndexInRange, DetailsOfPosted
<1>6. RowsAwaited'
  <2>1. \A i : \A l \in At("Detail", i) : Awaited(l) => Awaited(l)'
    BY DEF At
  <2> QED BY <1>1, <1>4, <2>1 DEF RowsAwaited
<1>7. ListGrows'
  <2>1. Ordered(new, Longer)
    <3>1. \A k \in 1..Len(new) : new[k] \in ToSet(new)
      BY ElementFacts
    <3>2. \A d, e \in ToSet(new) : <<d, e>> \in Longer
      BY <1>2 DEF Longer
    <3> QED BY <3>1, <3>2 DEF Ordered
  <2>2. ASSUME NEW d \in ToSet(mainq), NEW e \in ToSet(new) PROVE <<d, e>> \in Longer
    <3>1. d \in ProductEvents => products # Unheard /\ d.value \subseteq products
      BY DEF ListGrows
    <3> QED BY <1>2, <3>1 DEF Longer
  <2>3. Ordered(mainq', Longer)
    BY <1>2, <2>1, <2>2, OrderedConcat DEF ListGrows
  <2>4. IF products' = Unheard THEN rows = <<>> ELSE Len(rows) <= Cardinality(products')
    <3>1. CASE products = Unheard
      <4>1. rows = <<>> /\ Len(rows) = 0
        BY <3>1, EmptyQueue DEF ListGrows
      <4>2. products' # Unheard => products' \in SUBSET Orders
        BY <1>1 DEF ListTypes, Posted
      <4> QED BY <4>1, <4>2, Counts
    <3>2. CASE products # Unheard
      <4>1. products' \in SUBSET Orders /\ products \in SUBSET products' /\ products' # Unheard
        BY <1>1, <3>2 DEF ListTypes, Posted
      <4>2. Len(rows) <= Cardinality(products) /\ Len(rows) \in Nat
        BY <3>2, ElementFacts DEF ListGrows, ListTypes
      <4>3. Cardinality(products) <= Cardinality(products') /\ Cardinality(products) \in Nat
            /\ Cardinality(products') \in Nat
        BY <4>1, Counts
      <4> QED BY <4>1, <4>2, <4>3
    <3> QED BY <3>1, <3>2
  <2>5. \A e \in ToSet(mainq') \cap ProductEvents :
          products' # Unheard /\ e.value \subseteq products' /\ Len(rows) <= Cardinality(e.value)
    <3>1. \A e \in ToSet(mainq) \cap ProductEvents :
            products # Unheard /\ e.value \subseteq products /\ Len(rows) <= Cardinality(e.value)
      BY DEF ListGrows
    <3> QED BY <1>3, <2>4, <3>1
  <2> QED BY <1>1, <2>3, <2>4, <2>5 DEF ListGrows
<1>8. ListIsLatest'
  <2>1. CASE ToSet(new) \cap ProductEvents = {}
    <3>1. products' = products /\ Latest' = Latest
      BY <2>1 DEF Latest
    <3>2. LastIn(mainq', ProductEvents, Latest)
      BY <1>2, <2>1, LastInConcat DEF ListIsLatest
    <3> QED BY <1>1, <1>3, <2>1, <3>1, <3>2 DEF ListIsLatest
  <2>2. CASE ToSet(new) \cap ProductEvents # {}
    <3>1. LastIn(new, ProductEvents, Latest')
      BY LastInAll DEF Latest
    <3>2. LastIn(mainq', ProductEvents, Latest')
      BY <1>2, <2>2, <3>1, LastInConcat
    <3> QED BY <1>3, <2>2, <3>2 DEF ListIsLatest
  <2> QED BY <2>1, <2>2
<1>9. TakersHeard'
  <2>1. \A o : DetailEventsOf(o)' = DetailEventsOf(o)
    BY DEF DetailEventsOf
  <2>2. ASSUME NEW o \in Orders PROVE LastIn(mainq', DetailEventsOf(o), LatestOf(o)')
    <3>1. LastIn(mainq, DetailEventsOf(o), LatestOf(o))
      BY DEF TakersHeard
    <3>2. CASE ToSet(new) \cap DetailEventsOf(o) = {}
      <4>1. LatestOf(o)' = LatestOf(o)
        BY <3>2 DEF LatestOf
      <4> QED BY <1>2, <3>1, <3>2, <4>1, LastInConcat
    <3>3. CASE ToSet(new) \cap DetailEventsOf(o) # {}
      <4>1. LastIn(new, DetailEventsOf(o), LatestOf(o)')
        BY LastInAll DEF LatestOf, DetailEventsOf
      <4> QED BY <1>2, <3>3, <4>1, LastInConcat
    <3> QED BY <3>2, <3>3
  <2>3. \A e \in ToSet(mainq') \cap DetailEvents : e.value \in takers[e.listener.key]
    BY <1>3 DEF TakersHeard
  <2>4. \A o \in Orders : holder[o] \in takers[o]
    BY DEF TakersHeard
  <2> QED BY <1>1, <2>1, <2>2, <2>3, <2>4 DEF TakersHeard
<1>10. OneListing'
  <2>1. SUFFICES ASSUME loads = 1
        PROVE \E S \in SUBSET Posted' : \E listed \in SetToSeqs(S) : ListedAs(S, listed)'
    BY <1>1 DEF OneListing
  <2>2. PICK S \in SUBSET Posted : \E listed \in SetToSeqs(S) : ListedAs(S, listed)
    BY <2>1 DEF OneListing
  <2>3. PICK listed \in SetToSeqs(S) : ListedAs(S, listed)
    BY <2>2
  <2>4. \A i \in DOMAIN rows : listed[i] \in Orders
    <3>1. S \in SUBSET Orders
      BY DEF Posted
    <3>2. Len(listed) = Cardinality(S) /\ \A i \in 1..Len(listed) : listed[i] \in S
      BY <2>3, <3>1, ListingFacts
    <3>3. DOMAIN rows = 1..Len(rows) /\ Len(rows) = Cardinality(S)
      BY <2>3, ElementFacts DEF ListedAs, ListTypes
    <3> QED BY <3>1, <3>2, <3>3
  <2>5. ASSUME NEW i \in DOMAIN rows, ShipperIsLatest(i, listed[i])
        PROVE  ShipperIsLatest(i, listed[i])'
    <3> DEFINE o == listed[i]
    <3>1. o \in Orders
      BY <2>4
    <3> HIDE DEF o
    <3>2. CASE ToSet(new) \cap DetailEventsOf(o) # {}
      BY <1>3, <3>2 DEF ShipperIsLatest, DetailEventsOf, o
    <3>3. CASE ToSet(new) \cap DetailEventsOf(o) = {}
      <4>1. details'[o] = details[o]
        BY <3>1, <3>3
      <4>2. DetailEventsOf(o)' = DetailEventsOf(o)
        BY DEF DetailEventsOf, o
      <4>3. CASE details[o] = Unheard
        BY <4>1, <4>3 DEF ShipperIsLatest, o
      <4>4. CASE \E l \in ToSet(observing) \cap DetailListeners : l.key = o
        BY <3>1, <4>4 DEF ShipperIsLatest, DetailEventsOf, o
      <4>5. CASE ToSet(mainq) \cap DetailEventsOf(o) # {}
        BY <1>3, <4>5 DEF ShipperIsLatest, DetailEventsOf, o
      <4>6. CASE /\ \A l \in At("Login", i) : l.key = details[o]
                 /\ At("Login", i) = {} => rows[i].shipper = details[o]
        BY <1>1, <1>4, <4>1, <4>6 DEF ShipperIsLatest, o
      <4> QED BY <2>5, <4>3, <4>4, <4>5, <4>6 DEF ShipperIsLatest, o
    <3> QED BY <3>2, <3>3
  <2>6. ListedAs(S, listed)'
    BY <1>1, <2>3, <2>5 DEF ListedAs
  <2> QED BY <1>1, <2>3, <2>6
<1> QED BY <1>5, <1>6, <1>7, <1>8, <1>9, <1>10

(* It registers a listener.                                                 *)
LEMMA ObserveStep ==
  ASSUME ListInv, Observe
  PROVE  ListInv'
<1> USE DEF ListInv
<1>a. PICK l, v : l = Head(observing) /\ v = View(l)
  OBVIOUS
<1>b. PICK new : new = IF v = Unheard THEN <<>> ELSE <<Event(l, v)>>
  OBVIOUS
<1>1. /\ observing # <<>> /\ observing' = Tail(observing)
      /\ regs' = IF l.on \in {"Parts", "Login"} /\ v # Unheard THEN regs ELSE Append(regs, l)
      /\ mainq' = IF v = Unheard THEN mainq ELSE Append(mainq, Event(l, v))
      /\ UNCHANGED <<database, products, details, fixed, list>>
  BY <1>a DEF Observe
<1>2. open /\ UNCHANGED <<holder, takers, loads, rows, Posted>>
  BY <1>1 DEF ListGrows, database, list, Posted
<1>3. /\ l \in ListListeners /\ Tail(observing) \in Seq(ListListeners)
      /\ ToSet(observing) = {l} \cup ToSet(observing')
  BY <1>a, <1>1, TailFacts DEF ListTypes
<1>4. l \in Remembered /\ (l.on = "Detail" => l.key \in Posted)
  BY <1>3 DEF Remembered, DetailsOfPosted
<1>5. v # Unheard =>
        /\ Event(l, v) \in ListEvents
        /\ l = ProductListener => Event(l, v) \in ProductEvents /\ v = products
        /\ l \in DetailListeners => Event(l, v) \in DetailEvents /\ v = details[l.key]
        /\ l \in PartsListeners => Event(l, v) \in PartsEvents
        /\ l \in LoginListeners => Event(l, v) \in LoginEvents
  <2>1. CASE l = ProductListener
    <3>1. l.on = "Product" /\ v = products
      BY <1>a, <2>1 DEF ProductListener, View
    <3>2. products # Unheard => products \in SUBSET Orders
      BY DEF ListTypes, Posted
    <3> QED BY <2>1, <3>1, <3>2
        DEF Event, ListEvents, ProductEvents, ProductListener, DetailListeners, PartsListeners, LoginListeners
  <2>2. CASE l \in DetailListeners
    <3>1. l.on = "Detail" /\ v = details[l.key] /\ l.key \in Orders
      BY <1>a, <2>2 DEF DetailListeners, View
    <3>2. v # Unheard => v \in Holders
      BY <3>1 DEF ListTypes
    <3> QED BY <2>2, <3>1, <3>2
        DEF Event, ListEvents, DetailEvents, ProductListener, DetailListeners, PartsListeners, LoginListeners
  <2>3. CASE l \in PartsListeners
    <3>1. l.on = "Parts" /\ l.key \in Orders /\ (v # Unheard => v = l.key)
      BY <1>a, <2>3 DEF PartsListeners, View
    <3> QED BY <2>3, <3>1
        DEF Event, ListEvents, PartsEvents, ProductListener, DetailListeners, PartsListeners, LoginListeners
  <2>4. CASE l \in LoginListeners
    <3>1. l.on = "Login" /\ l.key \in Shippers /\ (v # Unheard => v = l.key)
      BY <1>a, <2>4 DEF LoginListeners, View
    <3> QED BY <2>4, <3>1
        DEF Event, ListEvents, LoginEvents, ProductListener, DetailListeners, PartsListeners, LoginListeners
  <2> QED BY <1>3, <2>1, <2>2, <2>3, <2>4 DEF ListListeners, RowListeners
<1>6. l.on \in {"Parts", "Login"} <=> l \notin DetailListeners /\ l # ProductListener
  BY <1>3 DEF ListListeners, RowListeners, ProductListener, DetailListeners, PartsListeners, LoginListeners
<1>7. /\ new \in Seq(ListEvents) /\ mainq' = mainq \o new
      /\ ToSet(new) = IF v = Unheard THEN {} ELSE {Event(l, v)}
  <2>1. CASE v = Unheard
    BY <1>b, <1>1, <2>1, EmptyQueue, ConcatEmptySeq DEF ListTypes
  <2>2. CASE v # Unheard
    BY <1>b, <1>1, <1>5, <2>2, Singleton, AppendIsConcat DEF ListTypes
  <2> QED BY <2>1, <2>2
<1>8. /\ mainq' \in Seq(ListEvents) /\ ToSet(mainq') = ToSet(mainq) \cup ToSet(new)
      /\ regs' \in Seq(ListListeners)
      /\ ToSet(regs') = IF l.on \in {"Parts", "Login"} /\ v # Unheard THEN ToSet(regs)
                        ELSE ToSet(regs) \cup {l}
  <2>1. mainq' \in Seq(ListEvents) /\ ToSet(mainq') = ToSet(mainq) \cup ToSet(new)
    BY <1>7, ConcatFacts DEF ListTypes
  <2>2. /\ Append(regs, l) \in Seq(ListListeners) /\ regs \in Seq(ListListeners)
        /\ ToSet(Append(regs, l)) = ToSet(regs) \cup {l}
    <3>1. regs \in Seq(ListListeners) /\ l \in ListListeners
      BY <1>3 DEF ListTypes
    <3>2. Append(regs, l) \in Seq(ListListeners)
      BY ONLY <3>1, AppendElements
    <3>3. ToSet(Append(regs, l)) = ToSet(regs) \cup {l}
      BY ONLY <3>1, AppendElements
    <3> QED BY <3>1, <3>2, <3>3
  <2> QED BY <1>1, <2>1, <2>2
<1>9. Event(l, v).listener = l /\ Event(l, v).value = v
  BY DEF Event
<1>10. Remembered' = Remembered
  BY <1>3, <1>7, <1>8, <1>9 DEF Remembered
<1>11. ListTypes'
  BY <1>1, <1>2, <1>3, <1>8 DEF ListTypes
<1>12. \A e \in ToSet(new) \cap ProductEvents : e.value = products' /\ products' # Unheard
  <2>1. \A e \in ProductEvents : e.listener = ProductListener
    BY DEF ProductEvents
  <2> QED BY <1>1, <1>5, <1>7, <1>9, <2>1
<1>13. \A e \in ToSet(new) \cap DetailEvents :
          e.value = details'[e.listener.key] /\ e.value \in takers[e.listener.key]
  <2>1. \A e \in DetailEvents : e.listener \in DetailListeners /\ e.listener.key \in Orders
    BY DEF DetailEvents, DetailListeners
  <2>2. \A o \in Orders : details[o] \in takers[o] \cup {Unheard}
    BY DEF TakersHeard
  <2> QED BY <1>1, <1>5, <1>7, <1>9, <2>1, <2>2
<1>14. \A m \in Remembered : m.on = "Detail" /\ Awaited(m) => Awaited(m)'
  <2>1. l.on = "Detail" => l \in DetailListeners
    BY <1>6, <1>3 DEF ListListeners, RowListeners, ProductListener, PartsListeners, LoginListeners
  <2>2. l.on = "Detail" => Awaited(l)'
    <3>1. CASE v = Unheard
      <4>1. l \in DetailListeners => v = details[l.key]
        BY <1>a DEF DetailListeners, View
      <4> QED BY <1>1, <1>8, <2>1, <3>1, <4>1 DEF Awaited
    <3>2. CASE v # Unheard
      BY <1>7, <1>8, <1>9, <3>2 DEF Awaited
    <3> QED BY <3>1, <3>2
  <2>3. \A m \in Remembered : m # l /\ Awaited(m) => Awaited(m)'
    BY <1>1, <1>3, <1>8 DEF Awaited
  <2> QED BY <2>2, <2>3
<1>15. \A o \in Orders : \A m \in ToSet(observing) \cap DetailListeners :
          m.key = o => \/ m \in ToSet(observing') \/ details'[o] = Unheard
                       \/ ToSet(mainq') \cap DetailEventsOf(o) # {}
  <2>1. l \in DetailListeners /\ details[l.key] # Unheard => Event(l, v) \in DetailEventsOf(l.key) \cap ToSet(new)
    <3>1. l \in DetailListeners => v = details[l.key]
      BY <1>a DEF DetailListeners, View
    <3> QED BY <1>5, <1>7, <1>9, <3>1 DEF DetailEventsOf
  <2> QED BY <1>1, <1>3, <1>8, <2>1
<1>16. \A o \in Orders : details'[o] \in takers[o] \cup {Unheard}
  BY <1>1 DEF TakersHeard
<1> QED BY <1>1, <1>2, <1>7, <1>10, <1>11, <1>12, <1>13, <1>14, <1>15, <1>16, ClientStep

(* It hears of the shop's orders ...                                        *)
LEMMA HearProductsStep ==
  ASSUME ListInv, HearProducts
  PROVE  ListInv'
<1> USE DEF ListInv
<1>a. PICK e : e = Event(ProductListener, products')
  OBVIOUS
<1>b. PICK new : new = <<e>>
  OBVIOUS
<1>1. /\ Listened({ProductListener}) /\ products # Posted /\ products' = Posted
      /\ mainq' = Append(mainq, e)
      /\ UNCHANGED <<database, details, fixed, observing, regs, list>>
  BY <1>a DEF HearProducts
<1>2. ProductListener \in ToSet(regs) /\ regs # <<>> /\ open
  <2>1. PICK k \in DOMAIN regs : regs[k] = ProductListener
    BY <1>1 DEF Listened
  <2>2. ProductListener \in ToSet(regs)
    BY <2>1 DEF ToSet
  <2> QED BY <2>2, EmptyQueue DEF ListGrows
<1>3. UNCHANGED <<holder, takers, loads, rows, Posted>> /\ Posted \in SUBSET Orders
  BY <1>1 DEF database, list, Posted
<1>4. /\ products' # Unheard /\ e \in ProductEvents /\ e.value = products' /\ e.listener = ProductListener
      /\ e \in ListEvents /\ e \notin DetailEvents
  <2>1. e = [listener |-> ProductListener, value |-> Posted]
    BY <1>a, <1>1 DEF Event
  <2>2. ProductListener \notin DetailListeners
    BY DEF ProductListener, DetailListeners
  <2> QED BY <1>1, <1>3, <2>1, <2>2, MarkersDiffer DEF ProductEvents, ListEvents, DetailEvents
<1>5. new \in Seq(ListEvents) /\ ToSet(new) = {e} /\ mainq' = mainq \o new
  BY <1>b, <1>1, <1>4, Singleton, AppendIsConcat DEF ListTypes
<1>6. mainq' \in Seq(ListEvents) /\ ToSet(mainq') = ToSet(mainq) \cup {e}
  BY <1>5, ConcatFacts DEF ListTypes
<1>7. Remembered' = Remembered
  BY <1>1, <1>2, <1>4, <1>6 DEF Remembered
<1>8. ListTypes'
  BY <1>1, <1>3, <1>6 DEF ListTypes
<1>9. \A l \in Remembered : Awaited(l) => Awaited(l)'
  BY <1>1, <1>6 DEF Awaited
<1>10. products # Unheard => products \subseteq products'
  BY <1>1 DEF ListTypes
<1>11. \A o \in Orders : details'[o] \in takers[o] \cup {Unheard}
  BY <1>1 DEF TakersHeard
<1> QED BY <1>1, <1>2, <1>3, <1>4, <1>5, <1>7, <1>8, <1>9, <1>10, <1>11, ClientStep

(* ... of who has an order ...                                              *)
LEMMA HearDetailStep ==
  ASSUME ListInv, NEW o \in Orders, HearDetail(o)
  PROVE  ListInv'
<1> USE DEF ListInv
<1>a. PICK q, h : q = Selected(regs, On("Detail", o)) /\ h = holder[o]
  OBVIOUS
<1>b. PICK new : new = EventsFor(q, h)
  OBVIOUS
<1>1. /\ Listened(On("Detail", o)) /\ details # [details EXCEPT ![o] = h]
      /\ details' = [details EXCEPT ![o] = h]
      /\ mainq' = mainq \o new
      /\ UNCHANGED <<database, products, fixed, observing, regs, list>>
  BY <1>a, <1>b DEF HearDetail, ListTypes
<1>2. q \in Seq(ListListeners) /\ ToSet(q) = ToSet(regs) \cap On("Detail", o)
  BY <1>a, SelectedSet DEF ListTypes
<1>3. PICK m \in ToSet(q) : TRUE
  <2>1. PICK k \in DOMAIN regs : regs[k] \in On("Detail", o)
    BY <1>1 DEF Listened
  <2> QED BY <1>2, <2>1 DEF ToSet
<1>4. \A l \in ToSet(q) : l \in DetailListeners /\ l.key = o /\ l.on = "Detail" /\ l \in Remembered
  BY <1>2 DEF On, DetailListeners, Remembered
<1>5. o \in Posted /\ h \in Holders /\ open
  <2>1. o \in Posted
    BY <1>3, <1>4 DEF DetailsOfPosted
  <2>2. regs # <<>>
    BY <1>2, <1>3, EmptyQueue
  <2> QED BY <1>a, <2>1, <2>2 DEF Posted, ListTypes, ListGrows
<1>6. \A l \in ToSet(q) : /\ Event(l, h) \in DetailEvents /\ Event(l, h) \in ListEvents
                          /\ Event(l, h).listener = l /\ Event(l, h).value = h
                          /\ Event(l, h) \notin ProductEvents
  <2>1. ProductListener \notin DetailListeners
    BY DEF ProductListener, DetailListeners
  <2> QED BY <1>4, <1>5, <2>1 DEF Event, DetailEvents, ListEvents, ProductEvents
<1>7. new \in Seq(ListEvents) /\ ToSet(new) = {Event(l, h) : l \in ToSet(q)}
  BY <1>b, <1>2, <1>6, ListEventsFor
<1>8. mainq' \in Seq(ListEvents) /\ ToSet(mainq') = ToSet(mainq) \cup ToSet(new)
  BY <1>1, <1>7, ConcatFacts DEF ListTypes
<1>9. Remembered' = Remembered
  BY <1>1, <1>2, <1>6, <1>7, <1>8 DEF Remembered
<1>10. UNCHANGED <<holder, takers, loads, rows, Posted>>
  BY <1>1 DEF database, list, Posted
<1>11. ListTypes'
  BY <1>1, <1>5, <1>8, <1>10 DEF ListTypes
<1>12. \A e \in ToSet(new) : e \notin ProductEvents /\ e.listener.key = o /\ e.value = h
  BY <1>4, <1>6, <1>7
<1>13. details'[o] = h /\ \A p \in Orders : p # o => details'[p] = details[p]
  BY <1>1 DEF ListTypes
<1>14. h \in takers[o] /\ \A p \in Orders : details'[p] \in takers[p] \cup {Unheard}
  BY <1>a, <1>13 DEF TakersHeard
<1>15. \A p \in Orders : details'[p] # details[p] => ToSet(new) \cap DetailEventsOf(p) # {}
  BY <1>3, <1>4, <1>6, <1>7, <1>13 DEF DetailEventsOf
<1>16. \A l \in Remembered : l.on = "Detail" /\ Awaited(l) => Awaited(l)'
  <2>1. ASSUME NEW l \in ToSet(regs), l.on = "Detail" PROVE l.key # o \/ l \in ToSet(q)
    <3>1. l \in DetailListeners
      BY <2>1, ElementFacts
         DEF ListTypes, ListListeners, RowListeners, ProductListener, PartsListeners, LoginListeners
    <3> QED BY <1>2, <3>1 DEF DetailListeners, On
  <2>2. ASSUME NEW l \in ToSet(regs), l.on = "Detail" PROVE l.key \in Orders
    BY <2>2 DEF DetailsOfPosted, Remembered, Posted
  <2> QED BY <1>1, <1>6, <1>7, <1>8, <1>13, <2>1, <2>2 DEF Awaited
<1> QED BY <1>1, <1>5, <1>7, <1>9, <1>11, <1>12, <1>13, <1>14, <1>15, <1>16, ClientStep

(* ... and of a path whose value never changes.                             *)
LEMMA HearFixedStep ==
  ASSUME ListInv, NEW on, NEW key, HearFixed(on, key),
         (on = "Parts" /\ key \in Orders) \/ (on = "Login" /\ key \in Shippers)
  PROVE  ListInv'
<1> USE DEF ListInv
<1>a. PICK q, r : q = Selected(regs, On(on, key)) /\ r = Selected(regs, ToSet(regs) \ On(on, key))
  OBVIOUS
<1>b. PICK new : new = EventsFor(q, key)
  OBVIOUS
<1>1. /\ Listened(On(on, key)) /\ mainq' = mainq \o new /\ regs' = r
      /\ UNCHANGED <<database, products, details, observing, list>>
  BY <1>a, <1>b DEF HearFixed
<1>2. /\ q \in Seq(ListListeners) /\ ToSet(q) = ToSet(regs) \cap On(on, key)
      /\ r \in Seq(ListListeners) /\ ToSet(r) = ToSet(regs) \ On(on, key)
  BY <1>a, SelectedSet DEF ListTypes
<1>3. open
  <2>1. PICK k \in DOMAIN regs : regs[k] \in On(on, key)
    BY <1>1 DEF Listened
  <2> QED BY <2>1, EmptyQueue DEF ListGrows
<1>4. \A l \in ToSet(q) : l \in PartsListeners \cup LoginListeners /\ l.key = key /\ l.on = on
  BY <1>2 DEF On, PartsListeners, LoginListeners
<1>5. \A l \in ToSet(q) : /\ Event(l, key) \in PartsEvents \cup LoginEvents /\ Event(l, key) \in ListEvents
                          /\ Event(l, key).listener = l
                          /\ Event(l, key) \notin ProductEvents \cup DetailEvents
  BY <1>4 DEF Event, DetailEvents, ListEvents, ProductEvents, PartsEvents, LoginEvents,
              PartsListeners, LoginListeners, DetailListeners, ProductListener
<1>6. new \in Seq(ListEvents) /\ ToSet(new) = {Event(l, key) : l \in ToSet(q)}
  BY <1>b, <1>2, <1>5, ListEventsFor
<1>7. mainq' \in Seq(ListEvents) /\ ToSet(mainq') = ToSet(mainq) \cup ToSet(new)
  BY <1>1, <1>6, ConcatFacts DEF ListTypes
<1>8. Remembered' = Remembered
  <2>1. {e.listener : e \in ToSet(new)} = ToSet(q)
    BY <1>5, <1>6
  <2>2. ToSet(regs') \cup ToSet(q) = ToSet(regs)
    BY <1>1, <1>2
  <2>3. {e.listener : e \in ToSet(mainq')} = {e.listener : e \in ToSet(mainq)} \cup ToSet(q)
    BY <1>7, <2>1
  <2> QED BY <1>1, <2>2, <2>3 DEF Remembered
<1>9. UNCHANGED <<holder, takers, loads, rows, Posted>>
  BY <1>1 DEF database, list, Posted
<1>10. ListTypes'
  BY <1>1, <1>2, <1>7, <1>9 DEF ListTypes
<1>11. \A e \in ToSet(new) : e \notin ProductEvents \cup DetailEvents
  BY <1>5, <1>6
<1>12. \A l \in Remembered : l.on = "Detail" /\ Awaited(l) => Awaited(l)'
  <2>1. \A l \in ToSet(q) : l.on # "Detail"
    BY <1>4
  <2>2. \A l \in ToSet(regs) : l.on = "Detail" => l \in ToSet(regs')
    BY <1>1, <1>2, <2>1
  <2> QED BY <1>1, <1>7, <2>2 DEF Awaited
<1>13. \A p \in Orders : details'[p] \in takers[p] \cup {Unheard}
  BY <1>1 DEF TakersHeard
<1> QED BY <1>1, <1>3, <1>6, <1>8, <1>10, <1>11, <1>12, <1>13, ClientStep
--------------------------------------------------------------------------------
(* What the main thread does: it takes an event.                            *)
LEMMA EventTypes ==
  ASSUME NEW e \in ListEvents
  PROVE  /\ e.listener \in ListListeners
         /\ e.listener.on = "Product" => e \in ProductEvents
         /\ e.listener.on = "Detail" => e \in DetailEvents /\ e \notin ProductEvents
         /\ e.listener.on = "Parts" => e \in PartsEvents /\ e \notin ProductEvents \cup DetailEvents
         /\ e.listener.on = "Login" => e \in LoginEvents /\ e \notin ProductEvents \cup DetailEvents
  BY DEF ListEvents, ProductEvents, DetailEvents, PartsEvents, LoginEvents, ListListeners,
         RowListeners, ProductListener, DetailListeners, PartsListeners, LoginListeners

LEMMA EventTaken ==
  ASSUME ListInv, NEW e, mainq # <<>>, e = Head(mainq), mainq' = Tail(mainq)
  PROVE  /\ mainq' \in Seq(ListEvents) /\ e \in ListEvents
         /\ ToSet(mainq) = {e} \cup ToSet(mainq')
         /\ e.listener \in Remembered /\ open
         /\ Ordered(mainq', Longer) /\ LastIn(mainq', ProductEvents, Latest)
         /\ \A o \in Orders : LastIn(mainq', DetailEventsOf(o), LatestOf(o))
         /\ e \in ProductEvents =>
              /\ \A d \in ToSet(mainq') \cap ProductEvents : e.value \subseteq d.value
              /\ ToSet(mainq') \cap ProductEvents = {} => e.value = products
         /\ \A o \in Orders : e \in DetailEventsOf(o) /\ ToSet(mainq') \cap DetailEventsOf(o) = {}
                                => e.value = details[o]
<1> USE DEF ListInv
<1>1. /\ mainq \in Seq(ListEvents) /\ mainq' \in Seq(ListEvents) /\ e \in ListEvents
      /\ ToSet(mainq) = {e} \cup ToSet(mainq')
  BY TailFacts DEF ListTypes
<1>2. e.listener \in Remembered /\ open
  BY <1>1 DEF Remembered, ListGrows
<1>3. Ordered(mainq', Longer) /\ \A d \in ToSet(mainq') : <<e, d>> \in Longer
  BY <1>1, OrderedTail DEF ListGrows
<1>4. /\ LastIn(mainq', ProductEvents, Latest)
      /\ e \in ProductEvents /\ ToSet(mainq') \cap ProductEvents = {} => e \in Latest
  BY <1>1, LastInTail DEF ListIsLatest
<1>5. ASSUME NEW o \in Orders
      PROVE  /\ LastIn(mainq', DetailEventsOf(o), LatestOf(o))
             /\ e \in DetailEventsOf(o) /\ ToSet(mainq') \cap DetailEventsOf(o) = {} => e \in LatestOf(o)
  <2>1. LastIn(mainq, DetailEventsOf(o), LatestOf(o))
    BY DEF TakersHeard
  <2> QED BY <1>1, <2>1, LastInTail
<1>6. \A d \in ToSet(mainq') \cap ProductEvents : e \in ProductEvents => e.value \subseteq d.value
  BY <1>3 DEF Longer
<1> QED BY <1>1, <1>2, <1>3, <1>4, <1>5, <1>6 DEF Latest, LatestOf

(* An event that fills a row, and asks for more of it perhaps.              *)
LEMMA RowStep ==
  ASSUME ListInv, NEW e, mainq # <<>>, e = Head(mainq), mainq' = Tail(mainq), e \notin ProductEvents,
         UNCHANGED <<database, products, details, fixed, regs, open, loads>>,
         NEW more \in Seq(ListListeners), observing' = observing \o more,
         \A l \in ToSet(more) : l.on \in {"Parts", "Login"} /\ l.index \in DOMAIN rows,
         rows' \in Seq(Row), DOMAIN rows' = DOMAIN rows
  PROVE  /\ ListTypes' /\ ListGrows' /\ ListIsLatest' /\ IndexInRange' /\ DetailsOfPosted'
         /\ TakersHeard' /\ Len(rows') = Len(rows)
         /\ ToSet(observing') = ToSet(observing) \cup ToSet(more)
         /\ Remembered \subseteq Remembered' \cup {e.listener}
         /\ Remembered' \subseteq Remembered \cup ToSet(more) /\ ToSet(more) \subseteq Remembered'
         /\ \A l \in Remembered : l # e.listener /\ Awaited(l) => Awaited(l)'
<1> USE DEF ListInv
<1>1. /\ mainq' \in Seq(ListEvents) /\ e \in ListEvents /\ ToSet(mainq) = {e} \cup ToSet(mainq') /\ open
      /\ Ordered(mainq', Longer) /\ LastIn(mainq', ProductEvents, Latest)
      /\ \A o \in Orders : LastIn(mainq', DetailEventsOf(o), LatestOf(o))
  BY EventTaken
<1>2. /\ observing' \in Seq(ListListeners)
      /\ ToSet(observing') = ToSet(observing) \cup ToSet(more)
  BY ConcatFacts DEF ListTypes
<1>3. /\ Remembered \subseteq Remembered' \cup {e.listener}
      /\ Remembered' \subseteq Remembered \cup ToSet(more) /\ ToSet(more) \subseteq Remembered'
  BY <1>1, <1>2 DEF Remembered
<1>4. \A l \in Remembered : l # e.listener /\ Awaited(l) => Awaited(l)'
  BY <1>1, <1>2 DEF Awaited
<1>5. UNCHANGED <<holder, takers, Posted, Latest>>
      /\ \A o : DetailEventsOf(o)' = DetailEventsOf(o) /\ LatestOf(o)' = LatestOf(o)
  BY DEF database, Posted, Latest, DetailEventsOf, LatestOf
<1>6. Len(rows') = Len(rows)
  <2>1. DOMAIN rows = 1..Len(rows) /\ DOMAIN rows' = 1..Len(rows')
        /\ Len(rows) \in Nat /\ Len(rows') \in Nat
    BY ElementFacts DEF ListTypes
  <2> QED BY <2>1
<1>7. rows = <<>> => rows' = <<>>
  BY <1>6, EmptySeq DEF ListTypes
<1>8. ListTypes'
  BY <1>1, <1>2, <1>5 DEF ListTypes
<1>9. ListGrows' /\ ListIsLatest'
  BY <1>1, <1>5, <1>6, <1>7 DEF ListGrows, ListIsLatest
<1>10. IndexInRange' /\ DetailsOfPosted'
  BY <1>3, <1>5 DEF IndexInRange, DetailsOfPosted
<1>11. TakersHeard'
  BY <1>1, <1>5 DEF TakersHeard
<1> QED BY <1>2, <1>3, <1>4, <1>6, <1>8, <1>9, <1>10, <1>11

(* The rows in the order of one listing.                                    *)
LEMMA ListedFacts ==
  ASSUME ListInv, loads = 1
  PROVE  \E S \in SUBSET Posted : \E listed \in SetToSeqs(S) :
           /\ ListedAs(S, listed) /\ S \in SUBSET Orders
           /\ \A i \in DOMAIN rows : listed[i] \in S
           /\ \A i, j \in DOMAIN rows : listed[i] = listed[j] => i = j
<1>1. PICK S \in SUBSET Posted : \E listed \in SetToSeqs(S) : ListedAs(S, listed)
  BY DEF OneListing, ListInv
<1>2. PICK listed \in SetToSeqs(S) : ListedAs(S, listed)
  BY <1>1
<1>3. S \in SUBSET Orders
  BY DEF Posted
<1>4. /\ Len(listed) = Cardinality(S) /\ \A i \in 1..Len(listed) : listed[i] \in S
      /\ \A i, j \in 1..Len(listed) : listed[i] = listed[j] => i = j
  BY <1>2, <1>3, ListingFacts
<1>5. DOMAIN rows = 1..Len(rows) /\ Len(rows) = Cardinality(S)
  BY <1>2, ElementFacts DEF ListedAs, ListTypes, ListInv
<1> QED BY <1>2, <1>3, <1>4, <1>5

LEMMA PartsValueStep ==
  ASSUME ListInv, PartsValue
  PROVE  ListInv'
<1> USE DEF ListInv
<1>a. PICK e, l : e = Head(mainq) /\ l = e.listener
  OBVIOUS
<1>1. /\ mainq # <<>> /\ l.on = "Parts" /\ mainq' = Tail(mainq) /\ l.index \in DOMAIN rows
      /\ rows' = [rows EXCEPT ![l.index].parts = l.key]
      /\ UNCHANGED <<database, products, details, fixed, observing, regs, late, open, loads>>
  BY <1>a DEF PartsValue, Comes
<1>2. /\ e \in ListEvents /\ ToSet(mainq) = {e} \cup ToSet(mainq') /\ l \in Remembered
  BY <1>a, <1>1, EventTaken
<1>3. e \notin ProductEvents \cup DetailEvents /\ l.key \in Orders
  <2>1. e \in PartsEvents /\ e \notin ProductEvents \cup DetailEvents
    BY <1>a, <1>1, <1>2, EventTypes
  <2> QED BY <1>a, <2>1 DEF PartsEvents, PartsListeners
<1>4. /\ rows' \in Seq(Row) /\ DOMAIN rows' = DOMAIN rows
      /\ \A i \in DOMAIN rows : /\ rows'[i].detail = rows[i].detail
                                /\ rows'[i].shipper = rows[i].shipper
                                /\ i # l.index => rows'[i] = rows[i]
      /\ rows'[l.index].parts = l.key
  <2>1. Len(rows) \in Nat /\ rows \in [1..Len(rows) -> Row] /\ DOMAIN rows = 1..Len(rows)
    BY LenProperties DEF ListTypes
  <2>2. rows' \in [1..Len(rows) -> Row]
    BY <1>1, <1>3, <2>1 DEF Row
  <2>3. \A i \in DOMAIN rows : rows[i] \in Row
    BY <2>1
  <2>4. \A i \in DOMAIN rows :
          rows'[i] = IF i = l.index THEN [rows[i] EXCEPT !.parts = l.key] ELSE rows[i]
    BY <1>1, <2>1
  <2>5. \A i \in DOMAIN rows : /\ rows'[i].detail = rows[i].detail
                               /\ rows'[i].shipper = rows[i].shipper
                               /\ i # l.index => rows'[i] = rows[i]
    BY <2>3, <2>4 DEF Row
  <2>6. rows'[l.index].parts = l.key
    BY <1>1, <2>3, <2>4 DEF Row
  <2>7. rows' \in Seq(Row) /\ DOMAIN rows' = DOMAIN rows
    <3>1. rows' \in Seq(Row) /\ DOMAIN rows' = 1..Len(rows)
      BY ONLY <2>1, <2>2, FunctionFacts
    <3> QED BY <2>1, <3>1
  <2> QED BY <2>5, <2>6, <2>7
<1>5. PICK more : more = <<>>
  OBVIOUS
<1>6. more \in Seq(ListListeners) /\ ToSet(more) = {} /\ observing' = observing \o more
  BY <1>1, <1>5, EmptyQueue, ConcatEmptySeq DEF ListTypes
<1>7. /\ ListTypes' /\ ListGrows' /\ ListIsLatest' /\ IndexInRange' /\ DetailsOfPosted'
      /\ TakersHeard' /\ Len(rows') = Len(rows)
      /\ Remembered \subseteq Remembered' \cup {l} /\ Remembered' \subseteq Remembered
      /\ \A m \in Remembered : m # l /\ Awaited(m) => Awaited(m)'
  BY <1>a, <1>1, <1>3, <1>4, <1>6, RowStep
<1>8. /\ \A i : At("Detail", i)' = At("Detail", i) /\ At("Login", i)' = At("Login", i)
      /\ \A i : i # l.index => At("Parts", i)' = At("Parts", i)
  BY <1>1, <1>7 DEF At
<1>9. RowsAwaited'
  <2>1. ASSUME NEW i \in DOMAIN rows, rows[i].detail = Blank
        PROVE  \E m \in At("Detail", i)' : Awaited(m)'
    <3>1. PICK m \in At("Detail", i) : Awaited(m)
      BY <2>1 DEF RowsAwaited
    <3>2. m # l /\ m \in Remembered
      BY <1>1 DEF At
    <3> QED BY <1>7, <1>8, <3>1, <3>2
  <2>2. \A i \in DOMAIN rows : rows[i].detail # Blank =>
          (rows[i].parts = Blank => At("Parts", i) # {}) /\ (rows[i].shipper = Blank => At("Login", i) # {})
    BY DEF RowsAwaited
  <2>3. l.key # Blank
    BY <1>3, MarkersDiffer
  <2> QED BY <1>4, <1>8, <2>1, <2>2, <2>3 DEF RowsAwaited
<1>10. OneListing'
  <2>1. UNCHANGED <<loads, takers, details, late, observing, Posted>>
    BY <1>1 DEF database, Posted
  <2>2. SUFFICES ASSUME loads = 1
        PROVE \E S \in SUBSET Posted' : \E listed \in SetToSeqs(S) : ListedAs(S, listed)'
    BY <2>1 DEF OneListing
  <2>a. PICK S \in SUBSET Posted : \E listed \in SetToSeqs(S) : ListedAs(S, listed)
    BY <2>2, ListedFacts
  <2>3. PICK listed \in SetToSeqs(S) : ListedAs(S, listed)
    BY <2>a
  <2>4. \A i \in DOMAIN rows : ShipperIsLatest(i, listed[i]) => ShipperIsLatest(i, listed[i])'
    <3>1. \A o : ToSet(mainq') \cap DetailEventsOf(o) = ToSet(mainq) \cap DetailEventsOf(o)
      BY <1>2, <1>3 DEF DetailEventsOf
    <3>2. \A o : DetailEventsOf(o)' = DetailEventsOf(o)
      BY DEF DetailEventsOf
    <3> QED BY <1>4, <1>8, <2>1, <3>1, <3>2 DEF ShipperIsLatest
  <2>5. l.key = listed[l.index]
    BY <1>1, <1>2, <2>3 DEF ListedAs
  <2>6. ListedAs(S, listed)'
    BY <1>1, <1>4, <1>7, <2>1, <2>3, <2>4, <2>5 DEF ListedAs
  <2> QED BY <2>1, <2>3, <2>6
<1> QED BY <1>7, <1>9, <1>10

LEMMA LoginValueStep ==
  ASSUME ListInv, LoginValue
  PROVE  ListInv'
<1> USE DEF ListInv
<1>a. PICK e, l : e = Head(mainq) /\ l = e.listener
  OBVIOUS
<1>1. /\ mainq # <<>> /\ l.on = "Login" /\ mainq' = Tail(mainq) /\ l.index \in DOMAIN rows
      /\ rows' = [rows EXCEPT ![l.index].shipper = l.key]
      /\ UNCHANGED <<database, products, details, fixed, observing, regs, late, open, loads>>
  BY <1>a DEF LoginValue, Comes
<1>2. /\ e \in ListEvents /\ ToSet(mainq) = {e} \cup ToSet(mainq') /\ l \in Remembered
  BY <1>a, <1>1, EventTaken
<1>3. e \notin ProductEvents \cup DetailEvents /\ l.key \in Shippers
  <2>1. e \in LoginEvents /\ e \notin ProductEvents \cup DetailEvents
    BY <1>a, <1>1, <1>2, EventTypes
  <2> QED BY <1>a, <2>1 DEF LoginEvents, LoginListeners
<1>4. /\ rows' \in Seq(Row) /\ DOMAIN rows' = DOMAIN rows
      /\ \A i \in DOMAIN rows : /\ rows'[i].detail = rows[i].detail
                                /\ rows'[i].parts = rows[i].parts
                                /\ i # l.index => rows'[i] = rows[i]
      /\ rows'[l.index].shipper = l.key
  <2>1. Len(rows) \in Nat /\ rows \in [1..Len(rows) -> Row] /\ DOMAIN rows = 1..Len(rows)
    BY LenProperties DEF ListTypes
  <2>2. rows' \in [1..Len(rows) -> Row]
    BY <1>1, <1>3, <2>1, MarkersDiffer DEF Row
  <2>3. \A i \in DOMAIN rows : rows[i] \in Row
    BY <2>1
  <2>4. \A i \in DOMAIN rows :
          rows'[i] = IF i = l.index THEN [rows[i] EXCEPT !.shipper = l.key] ELSE rows[i]
    BY <1>1, <2>1
  <2>5. \A i \in DOMAIN rows : /\ rows'[i].detail = rows[i].detail
                               /\ rows'[i].parts = rows[i].parts
                               /\ i # l.index => rows'[i] = rows[i]
    BY <2>3, <2>4 DEF Row
  <2>6. rows'[l.index].shipper = l.key
    BY <1>1, <2>3, <2>4 DEF Row
  <2>7. rows' \in Seq(Row) /\ DOMAIN rows' = DOMAIN rows
    <3>1. rows' \in Seq(Row) /\ DOMAIN rows' = 1..Len(rows)
      BY ONLY <2>1, <2>2, FunctionFacts
    <3> QED BY <2>1, <3>1
  <2> QED BY <2>5, <2>6, <2>7
<1>5. PICK more : more = <<>>
  OBVIOUS
<1>6. more \in Seq(ListListeners) /\ ToSet(more) = {} /\ observing' = observing \o more
  BY <1>1, <1>5, EmptyQueue, ConcatEmptySeq DEF ListTypes
<1>7. /\ ListTypes' /\ ListGrows' /\ ListIsLatest' /\ IndexInRange' /\ DetailsOfPosted'
      /\ TakersHeard' /\ Len(rows') = Len(rows)
      /\ Remembered \subseteq Remembered' \cup {l} /\ Remembered' \subseteq Remembered
      /\ \A m \in Remembered : m # l /\ Awaited(m) => Awaited(m)'
  BY <1>a, <1>1, <1>3, <1>4, <1>6, RowStep
<1>8. /\ \A i : At("Detail", i)' = At("Detail", i) /\ At("Parts", i)' = At("Parts", i)
      /\ \A i : i # l.index => At("Login", i)' = At("Login", i)
      /\ At("Login", l.index)' \subseteq At("Login", l.index)
  BY <1>1, <1>7 DEF At
<1>9. RowsAwaited'
  <2>1. ASSUME NEW i \in DOMAIN rows, rows[i].detail = Blank
        PROVE  \E m \in At("Detail", i)' : Awaited(m)'
    <3>1. PICK m \in At("Detail", i) : Awaited(m)
      BY <2>1 DEF RowsAwaited
    <3>2. m # l /\ m \in Remembered
      BY <1>1 DEF At
    <3> QED BY <1>7, <1>8, <3>1, <3>2
  <2>2. \A i \in DOMAIN rows : rows[i].detail # Blank =>
          (rows[i].parts = Blank => At("Parts", i) # {}) /\ (rows[i].shipper = Blank => At("Login", i) # {})
    BY DEF RowsAwaited
  <2>3. l.key # Blank
    BY <1>3, MarkersDiffer
  <2> QED BY <1>4, <1>8, <2>1, <2>2, <2>3 DEF RowsAwaited
<1>10. OneListing'
  <2>1. UNCHANGED <<loads, takers, details, late, observing, Posted>>
    BY <1>1 DEF database, Posted
  <2>2. SUFFICES ASSUME loads = 1
        PROVE \E S \in SUBSET Posted' : \E listed \in SetToSeqs(S) : ListedAs(S, listed)'
    BY <2>1 DEF OneListing
  <2>a. PICK S \in SUBSET Posted : \E listed \in SetToSeqs(S) : ListedAs(S, listed)
    BY <2>2, ListedFacts
  <2>3. PICK listed \in SetToSeqs(S) : ListedAs(S, listed)
    BY <2>a
  <2>4. ASSUME NEW i \in DOMAIN rows, ShipperIsLatest(i, listed[i])
        PROVE  ShipperIsLatest(i, listed[i])'
    <3>1. \A o : ToSet(mainq') \cap DetailEventsOf(o) = ToSet(mainq) \cap DetailEventsOf(o)
      BY <1>2, <1>3 DEF DetailEventsOf
    <3>2. \A o : DetailEventsOf(o)' = DetailEventsOf(o)
      BY DEF DetailEventsOf
    <3>3. CASE i # l.index
      BY <1>4, <1>8, <2>1, <2>4, <3>1, <3>2, <3>3 DEF ShipperIsLatest
    <3>4. CASE i = l.index
      <4>1. l \in At("Login", i)
        BY <1>1, <1>2, <3>4 DEF At
      <4> QED BY <1>4, <1>8, <2>1, <2>4, <3>1, <3>2, <3>4, <4>1 DEF ShipperIsLatest
    <3> QED BY <3>3, <3>4
  <2>5. l.key \in takers[listed[l.index]]
    BY <1>1, <1>2, <2>3 DEF ListedAs
  <2>6. ListedAs(S, listed)'
    <3>1. \A i \in DOMAIN rows : rows'[i].shipper \in takers[listed[i]] \cup {Blank}
      BY <1>4, <2>3, <2>5 DEF ListedAs
    <3> QED BY <1>1, <1>4, <1>7, <2>1, <2>3, <2>4, <3>1 DEF ListedAs
  <2> QED BY <2>1, <2>3, <2>6
<1> QED BY <1>7, <1>9, <1>10

LEMMA DetailValueStep ==
  ASSUME ListInv, DetailValue
  PROVE  ListInv'
<1> USE DEF ListInv
<1>a. PICK e, l, h : e = Head(mainq) /\ l = e.listener /\ h = e.value
  OBVIOUS
<1>b. PICK parts, login : /\ parts = RowListener("Parts", l.key, l.index)
                          /\ login = RowListener("Login", h, l.index)
  OBVIOUS
<1>c. PICK more : more = <<parts>> \o (IF h = NoOne THEN <<>> ELSE <<login>>)
  OBVIOUS
<1>1. /\ mainq # <<>> /\ l.on = "Detail" /\ mainq' = Tail(mainq) /\ l.index \in DOMAIN rows
      /\ rows' = [rows EXCEPT ![l.index].detail = l.key,
                              ![l.index].shipper = IF h = NoOne THEN NoOne ELSE @]
      /\ observing' = (observing \o <<parts>>) \o (IF h = NoOne THEN <<>> ELSE <<login>>)
      /\ late' = IF \E m \in AwaitedLogins : m.index = l.index THEN late \cup {l.key} ELSE late
      /\ UNCHANGED <<database, products, details, fixed, regs, open, loads>>
  BY <1>a, <1>b DEF DetailValue, Comes
<1>2. /\ e \in ListEvents /\ ToSet(mainq) = {e} \cup ToSet(mainq') /\ l \in Remembered
      /\ \A o \in Orders : e \in DetailEventsOf(o) /\ ToSet(mainq') \cap DetailEventsOf(o) = {}
                             => h = details[o]
  BY <1>a, <1>1, EventTaken
<1>3. /\ e \in DetailEvents /\ e \notin ProductEvents /\ l \in DetailListeners
      /\ l.key \in Orders /\ l.index \in Nat /\ h \in Holders
  <2>1. e \in DetailEvents /\ e \notin ProductEvents
    BY <1>a, <1>1, <1>2, EventTypes
  <2> QED BY <1>a, <2>1 DEF DetailEvents, DetailListeners
<1>4. /\ parts \in ListListeners /\ parts.on = "Parts" /\ parts.key = l.key /\ parts.index = l.index
      /\ h # NoOne => login \in ListListeners
      /\ login.on = "Login" /\ login.key = h /\ login.index = l.index
  BY <1>b, <1>3 DEF RowListener, ListListeners, RowListeners, PartsListeners, LoginListeners, Holders
<1>5. /\ more \in Seq(ListListeners) /\ observing' = observing \o more
      /\ ToSet(more) = IF h = NoOne THEN {parts} ELSE {parts, login}
  <2>1. PICK last : last = IF h = NoOne THEN <<>> ELSE <<login>>
    OBVIOUS
  <2>2. last \in Seq(ListListeners) /\ ToSet(last) = IF h = NoOne THEN {} ELSE {login}
    <3>1. CASE h = NoOne
      BY <2>1, <3>1, EmptyQueue
    <3>2. CASE h # NoOne
      BY <1>4, <2>1, <3>2, Singleton
    <3> QED BY <3>1, <3>2
  <2>3. <<parts>> \in Seq(ListListeners) /\ ToSet(<<parts>>) = {parts}
    BY <1>4, Singleton
  <2>4. more = <<parts>> \o last /\ observing' = (observing \o <<parts>>) \o last
    BY <1>c, <1>1, <2>1
  <2>5. more \in Seq(ListListeners) /\ ToSet(more) = ToSet(<<parts>>) \cup ToSet(last)
    BY <2>2, <2>3, <2>4, ConcatFacts
  <2>6. observing' = observing \o more
    BY <2>2, <2>3, <2>4, ConcatAssociative DEF ListTypes
  <2> QED BY <2>2, <2>3, <2>5, <2>6
<1>6. /\ rows' \in Seq(Row) /\ DOMAIN rows' = DOMAIN rows
      /\ \A i \in DOMAIN rows : /\ rows'[i].parts = rows[i].parts
                                /\ i # l.index => rows'[i] = rows[i]
      /\ rows'[l.index].detail = l.key
      /\ rows'[l.index].shipper = IF h = NoOne THEN NoOne ELSE rows[l.index].shipper
  <2>1. Len(rows) \in Nat /\ rows \in [1..Len(rows) -> Row] /\ DOMAIN rows = 1..Len(rows)
    BY LenProperties DEF ListTypes
  <2>2. \A i \in DOMAIN rows : rows[i] \in Row
    BY <2>1
  <2>3. PICK r : r = [rows[l.index] EXCEPT !.detail = l.key,
                                           !.shipper = IF h = NoOne THEN NoOne ELSE @]
    OBVIOUS
  <2>4. r \in Row /\ r.detail = l.key /\ r.parts = rows[l.index].parts
        /\ r.shipper = IF h = NoOne THEN NoOne ELSE rows[l.index].shipper
    BY <1>1, <1>3, <2>2, <2>3, MarkersDiffer DEF Row
  <2>5. \A i \in DOMAIN rows : rows'[i] = IF i = l.index THEN r ELSE rows[i]
    BY <1>1, <2>1, <2>3
  <2>6. rows' \in [1..Len(rows) -> Row]
    <3>1. DOMAIN rows' = 1..Len(rows) /\ rows' = [i \in DOMAIN rows' |-> rows'[i]]
      BY <1>1, <2>1
    <3> QED BY <2>1, <2>2, <2>4, <2>5, <3>1
  <2>7. rows' \in Seq(Row) /\ DOMAIN rows' = DOMAIN rows
    <3>1. rows' \in Seq(Row) /\ DOMAIN rows' = 1..Len(rows)
      BY ONLY <2>1, <2>6, FunctionFacts
    <3> QED BY <2>1, <3>1
  <2> QED BY <1>1, <2>4, <2>5, <2>7
<1>7. /\ ListTypes' /\ ListGrows' /\ ListIsLatest' /\ IndexInRange' /\ DetailsOfPosted'
      /\ TakersHeard' /\ Len(rows') = Len(rows)
      /\ ToSet(observing') = ToSet(observing) \cup ToSet(more)
      /\ Remembered \subseteq Remembered' \cup {l} /\ Remembered' \subseteq Remembered \cup ToSet(more)
      /\ ToSet(more) \subseteq Remembered'
      /\ \A m \in Remembered : m # l /\ Awaited(m) => Awaited(m)'
  <2>1. \A m \in ToSet(more) : m.on \in {"Parts", "Login"} /\ m.index \in DOMAIN rows
    BY <1>1, <1>4, <1>5
  <2> QED BY <1>a, <1>1, <1>3, <1>5, <1>6, <2>1, RowStep
<1>8. /\ \A i : i # l.index => /\ At("Detail", i)' = At("Detail", i)
                               /\ At("Parts", i)' = At("Parts", i)
                               /\ At("Login", i)' = At("Login", i)
      /\ parts \in At("Parts", l.index)'
      /\ At("Login", l.index)' = At("Login", l.index) \cup (IF h = NoOne THEN {} ELSE {login})
  BY <1>1, <1>4, <1>5, <1>7 DEF At
<1>9. RowsAwaited'
  <2>1. ASSUME NEW i \in DOMAIN rows, i # l.index, rows[i].detail = Blank
        PROVE  \E m \in At("Detail", i)' : Awaited(m)'
    <3>1. PICK m \in At("Detail", i) : Awaited(m)
      BY <2>1 DEF RowsAwaited
    <3>2. m # l /\ m \in Remembered
      BY <2>1, <3>1 DEF At
    <3> QED BY <1>7, <1>8, <2>1, <3>1, <3>2
  <2>2. \A i \in DOMAIN rows : rows[i].detail # Blank =>
          (rows[i].parts = Blank => At("Parts", i) # {}) /\ (rows[i].shipper = Blank => At("Login", i) # {})
    BY DEF RowsAwaited
  <2>3. l.key # Blank /\ NoOne # Blank
    BY <1>3, MarkersDiffer
  <2>4. ASSUME NEW i \in DOMAIN rows
        PROVE  IF rows'[i].detail = Blank THEN \E m \in At("Detail", i)' : Awaited(m)'
               ELSE /\ rows'[i].parts = Blank => At("Parts", i)' # {}
                    /\ rows'[i].shipper = Blank => At("Login", i)' # {}
    <3>1. CASE i = l.index
      BY <1>6, <1>8, <2>3, <3>1
    <3>2. CASE i # l.index
      BY <1>6, <1>8, <2>1, <2>2, <3>2
    <3> QED BY <3>1, <3>2
  <2> QED BY <1>6, <2>4 DEF RowsAwaited
<1>10. OneListing'
  <2>1. UNCHANGED <<loads, takers, details, Posted>> /\ late \subseteq late'
    BY <1>1 DEF database, Posted
  <2>2. SUFFICES ASSUME loads = 1
        PROVE \E S \in SUBSET Posted' : \E listed \in SetToSeqs(S) : ListedAs(S, listed)'
    BY <2>1 DEF OneListing
  <2>a. PICK S \in SUBSET Posted : \E listed \in SetToSeqs(S) :
           /\ ListedAs(S, listed) /\ \A i \in DOMAIN rows : listed[i] \in Orders
           /\ \A i, j \in DOMAIN rows : listed[i] = listed[j] => i = j
    BY <2>2, ListedFacts
  <2>3. PICK listed \in SetToSeqs(S) :
           /\ ListedAs(S, listed) /\ \A i \in DOMAIN rows : listed[i] \in Orders
           /\ \A i, j \in DOMAIN rows : listed[i] = listed[j] => i = j
    BY <2>a
  <2>4. l.key = listed[l.index] /\ h \in takers[l.key]
    BY <1>a, <1>1, <1>2, <1>3, <2>3 DEF ListedAs, TakersHeard
  <2>5. \A o : DetailEventsOf(o)' = DetailEventsOf(o)
    BY DEF DetailEventsOf
  <2>6. ASSUME NEW i \in DOMAIN rows, listed[i] \notin late'
        PROVE  ShipperIsLatest(i, listed[i])'
    <3>1. CASE i # l.index
      <4>1. listed[i] # l.key /\ listed[i] \notin late
        BY <1>1, <2>1, <2>3, <2>4, <2>6, <3>1
      <4>2. ShipperIsLatest(i, listed[i])
        BY <2>3, <4>1 DEF ListedAs
      <4>3. ToSet(mainq') \cap DetailEventsOf(listed[i]) = ToSet(mainq) \cap DetailEventsOf(listed[i])
        BY <1>a, <1>2, <4>1 DEF DetailEventsOf
      <4> QED BY <1>6, <1>7, <1>8, <2>1, <2>5, <3>1, <4>2, <4>3 DEF ShipperIsLatest
    <3>2. CASE i = l.index
      <4>1. At("Login", i) = {}
        BY <1>1, <2>4, <2>6, <3>2 DEF AwaitedLogins, At
      <4>2. e \in DetailEventsOf(l.key)
        BY <1>a, <1>3 DEF DetailEventsOf
      <4>3. CASE ToSet(mainq') \cap DetailEventsOf(l.key) # {}
        BY <2>4, <2>5, <3>2, <4>3 DEF ShipperIsLatest
      <4>4. CASE ToSet(mainq') \cap DetailEventsOf(l.key) = {}
        <5>1. h = details[l.key]
          BY <1>2, <1>3, <4>2, <4>4
        <5> QED BY <1>4, <1>6, <1>8, <2>1, <2>4, <3>2, <4>1, <5>1 DEF ShipperIsLatest
      <4> QED BY <4>3, <4>4
    <3> QED BY <3>1, <3>2
  <2>7. \A m \in Remembered' : /\ m.on \in {"Detail", "Parts"} => m.key = listed[m.index]
                               /\ m.on = "Login" => m.key \in takers[listed[m.index]]
    <3>1. \A m \in Remembered : /\ m.on \in {"Detail", "Parts"} => m.key = listed[m.index]
                                /\ m.on = "Login" => m.key \in takers[listed[m.index]]
      BY <2>3 DEF ListedAs
    <3>2. \A m \in ToSet(more) : /\ m.on \in {"Detail", "Parts"} => m.key = listed[m.index]
                                 /\ m.on = "Login" => m.key \in takers[listed[m.index]]
      BY <1>4, <1>5, <2>4
    <3> QED BY <1>7, <3>1, <3>2
  <2>8. ASSUME NEW i \in DOMAIN rows
        PROVE  /\ rows'[i].detail \in {Blank, listed[i]} /\ rows'[i].parts \in {Blank, listed[i]}
               /\ rows'[i].shipper \in takers[listed[i]] \cup {Blank}
    <3>1. /\ rows[i].detail \in {Blank, listed[i]} /\ rows[i].parts \in {Blank, listed[i]}
          /\ rows[i].shipper \in takers[listed[i]] \cup {Blank}
      BY <2>3 DEF ListedAs
    <3> QED BY <1>6, <2>4, <3>1
  <2>9. ListedAs(S, listed)'
    BY <1>6, <1>7, <2>1, <2>3, <2>6, <2>7, <2>8 DEF ListedAs
  <2> QED BY <2>1, <2>3, <2>9
<1> QED BY <1>7, <1>9, <1>10

(* The list is filled: with one blank row for each order, which waits.      *)
LEMMA ProductValueStep ==
  ASSUME ListInv, ProductValue
  PROVE  ListInv'
<1> USE DEF ListInv
<1>a. PICK e, v : e = Head(mainq) /\ v = e.value
  OBVIOUS
<1>b. /\ mainq # <<>> /\ e.listener.on = "Product" /\ mainq' = Tail(mainq)
      /\ \E listed \in SetToSeqs(v) :
           /\ rows' = [i \in DOMAIN listed |-> BlankRow]
           /\ observing' = observing \o
                [i \in DOMAIN listed |-> RowListener("Detail", listed[i], i)]
      /\ loads' = IF v = {} THEN loads ELSE loads + 1
      /\ UNCHANGED <<database, products, details, fixed, regs, late, open>>
  BY <1>a DEF ProductValue, Comes
<1>c. PICK listed \in SetToSeqs(v) :
           /\ rows' = [i \in DOMAIN listed |-> BlankRow]
           /\ observing' = observing \o
                [i \in DOMAIN listed |-> RowListener("Detail", listed[i], i)]
  BY <1>b
<1>d. PICK more : more = [i \in DOMAIN listed |-> RowListener("Detail", listed[i], i)]
  OBVIOUS
<1>1. /\ mainq' \in Seq(ListEvents) /\ e \in ListEvents
      /\ ToSet(mainq) = {e} \cup ToSet(mainq') /\ open
      /\ Ordered(mainq', Longer) /\ LastIn(mainq', ProductEvents, Latest)
      /\ \A o \in Orders : LastIn(mainq', DetailEventsOf(o), LatestOf(o))
      /\ e \in ProductEvents =>
           /\ \A d \in ToSet(mainq') \cap ProductEvents : v \subseteq d.value
           /\ ToSet(mainq') \cap ProductEvents = {} => v = products
  BY <1>a, <1>b, EventTaken
<1>2. e \in ProductEvents /\ v \in SUBSET Orders /\ e.listener = ProductListener
  <2>1. e \in ProductEvents
    BY <1>b, <1>1, EventTypes
  <2> QED BY <1>a, <2>1 DEF ProductEvents
<1>3. /\ products # Unheard /\ products \in SUBSET Posted /\ products \in SUBSET Orders
      /\ v \subseteq products /\ Len(rows) <= Cardinality(v)
  BY <1>a, <1>1, <1>2 DEF ListGrows, ListTypes, Posted
<1>4. PICK n \in Nat : n = Cardinality(v)
  BY <1>2, Counts
<1>5. /\ DOMAIN listed = 1..n /\ \A i \in 1..n : listed[i] \in v /\ listed[i] \in Posted
      /\ \A i, j \in 1..n : listed[i] = listed[j] => i = j
  BY <1>2, <1>3, <1>4, ListingFacts
<1>6. /\ rows' \in Seq(Row) /\ Len(rows') = n /\ DOMAIN rows' = 1..n
      /\ \A i \in 1..n : rows'[i] = BlankRow
  <2>1. BlankRow \in Row
    BY DEF BlankRow, Row
  <2>2. rows' \in [1..n -> Row] /\ \A i \in 1..n : rows'[i] = BlankRow
    BY <1>c, <1>5, <2>1
  <2> QED BY <2>2, FunctionFacts
<1>7. /\ more \in Seq(ListListeners)
      /\ ToSet(more) = {RowListener("Detail", listed[i], i) : i \in 1..n}
      /\ \A i \in 1..n : RowListener("Detail", listed[i], i) \in DetailListeners
  <2>1. \A i \in 1..n : RowListener("Detail", listed[i], i) \in DetailListeners
    BY <1>5 DEF RowListener, DetailListeners, Posted
  <2>2. DetailListeners \subseteq ListListeners
    BY DEF ListListeners, RowListeners
  <2>3. more \in [1..n -> ListListeners] /\ \A i \in 1..n : more[i] = RowListener("Detail", listed[i], i)
    BY <1>d, <1>5, <2>1, <2>2
  <2>4. more \in Seq(ListListeners) /\ DOMAIN more = 1..n
    BY <2>3, FunctionFacts
  <2>5. ToSet(more) = {more[i] : i \in 1..n}
    BY <2>4 DEF ToSet
  <2> QED BY <2>1, <2>3, <2>4, <2>5
<1>8. \A i, k : /\ RowListener("Detail", k, i).on = "Detail"
                /\ RowListener("Detail", k, i).key = k /\ RowListener("Detail", k, i).index = i
  BY DEF RowListener
<1>9. /\ observing' \in Seq(ListListeners) /\ observing' = observing \o more
      /\ ToSet(observing') = ToSet(observing) \cup ToSet(more)
  <2>1. observing' = observing \o more
    BY <1>c, <1>d
  <2>2. observing \in Seq(ListListeners)
    BY DEF ListTypes
  <2>3. observing \o more \in Seq(ListListeners)
    BY <1>7, <2>2, ConcatFacts
  <2>4. ToSet(observing \o more) = ToSet(observing) \cup ToSet(more)
    BY <1>7, <2>2, ConcatFacts
  <2> QED BY <2>1, <2>3, <2>4
<1>10. Remembered' \subseteq Remembered \cup ToSet(more)
  BY <1>b, <1>1, <1>9 DEF Remembered
<1>11. UNCHANGED <<holder, takers, details, products, Posted, Latest>>
       /\ \A o : DetailEventsOf(o)' = DetailEventsOf(o) /\ LatestOf(o)' = LatestOf(o)
  BY <1>b DEF database, Posted, Latest, DetailEventsOf, LatestOf
<1>12. loads' \in Nat /\ (loads' = 0 => loads = 0 /\ v = {})
  BY <1>b DEF ListTypes
<1>13. ListTypes'
  BY <1>b, <1>1, <1>6, <1>9, <1>11, <1>12 DEF ListTypes
<1>14. ListGrows'
  <2>1. \A d \in ToSet(mainq') \cap ProductEvents :
          products # Unheard /\ d.value \subseteq products /\ v \subseteq d.value
    BY <1>1, <1>2 DEF ListGrows
  <2>2. \A d \in ToSet(mainq') \cap ProductEvents : n <= Cardinality(d.value)
    <3>1. \A d \in ToSet(mainq') \cap ProductEvents : d.value \in SUBSET Orders /\ v \in SUBSET d.value
      BY <2>1 DEF ProductEvents
    <3> QED BY <1>4, <3>1, Counts
  <2>3. n <= Cardinality(products)
    BY <1>3, <1>4, Counts
  <2>4. loads' = 0 => rows' = <<>>
    BY <1>4, <1>6, <1>12, FS_EmptySet, EmptySeq
  <2> QED BY <1>b, <1>1, <1>3, <1>6, <1>11, <2>1, <2>2, <2>3, <2>4 DEF ListGrows
<1>15. ListIsLatest'
  BY <1>1, <1>2, <1>4, <1>6, <1>11 DEF ListIsLatest
<1>16. IndexInRange' /\ DetailsOfPosted'
  <2>1. Len(rows) \in Nat /\ DOMAIN rows = 1..Len(rows) /\ Len(rows) <= n
    BY <1>3, <1>4, ElementFacts DEF ListTypes
  <2>2. \A i \in DOMAIN rows : i \in 1..n
    BY <2>1
  <2>3. ASSUME NEW l \in Remembered'
        PROVE  /\ l.on # "Product" => l.index \in 1..n
               /\ l.on = "Detail" => l.key \in Posted
    <3>1. CASE l \in Remembered
      BY <2>2, <3>1 DEF IndexInRange, DetailsOfPosted
    <3>2. CASE l \in ToSet(more)
      BY <1>5, <1>7, <1>8, <3>2
    <3> QED BY <1>10, <3>1, <3>2
  <2> QED BY <1>6, <1>11, <2>3 DEF IndexInRange, DetailsOfPosted
<1>17. \A i \in 1..n : RowListener("Detail", listed[i], i) \in ToSet(observing')
  BY <1>7, <1>9
<1>18. RowsAwaited'
  <2>1. ASSUME NEW i \in 1..n PROVE \E l \in At("Detail", i)' : Awaited(l)'
    <3>1. PICK l : l = RowListener("Detail", listed[i], i)
      OBVIOUS
    <3>2. l \in ToSet(observing') /\ l.on = "Detail" /\ l.index = i
      BY <1>8, <1>17, <3>1
    <3>3. l \in At("Detail", i)' /\ Awaited(l)'
      BY <3>2 DEF At, Awaited, Remembered
    <3> QED BY <3>3
  <2> QED BY <1>6, <2>1 DEF RowsAwaited, BlankRow
<1>19. TakersHeard'
  BY <1>1, <1>11 DEF TakersHeard
<1>20. OneListing'
  <2>1. SUFFICES ASSUME loads' = 1
        PROVE \E S \in SUBSET Posted' : \E l \in SetToSeqs(S) : ListedAs(S, l)'
    BY DEF OneListing
  <2>2. rows = <<>>
    <3>1. CASE v = {}
      <4>1. n = 0
        BY <1>4, <3>1, FS_EmptySet
      <4>2. Len(rows) = 0
        BY <1>3, <1>4, <4>1, ElementFacts DEF ListTypes
      <4> QED BY <4>2, EmptySeq DEF ListTypes
    <3>2. CASE v # {}
      <4>1. loads = 0
        BY <1>b, <2>1, <3>2 DEF ListTypes
      <4> QED BY <4>1 DEF ListGrows
    <3> QED BY <3>1, <3>2
  <2>3. \A l \in Remembered' : l.on = "Product" \/ l \in ToSet(more)
    BY <1>10, <2>2, EmptyQueue DEF IndexInRange
  <2>4. ASSUME NEW i \in 1..n PROVE ShipperIsLatest(i, listed[i])'
    <3>1. PICK l : l = RowListener("Detail", listed[i], i)
      OBVIOUS
    <3>2. l \in ToSet(observing') \cap DetailListeners /\ l.key = listed[i]
      BY <1>7, <1>8, <1>17, <3>1
    <3> QED BY <3>2 DEF ShipperIsLatest
  <2>5. ListedAs(v, listed)'
    <3>1. \A l \in Remembered' : /\ l.on \in {"Detail", "Parts"} => l.key = listed[l.index]
                                 /\ l.on = "Login" => l.key \in takers'[listed[l.index]]
      BY <1>7, <1>8, <2>3
    <3>2. \A i \in 1..n : /\ rows'[i].detail = Blank /\ rows'[i].parts = Blank
                          /\ rows'[i].shipper = Blank
      BY <1>6 DEF BlankRow
    <3> QED BY <1>4, <1>6, <2>4, <3>1, <3>2 DEF ListedAs
  <2>6. v \in SUBSET Posted'
    BY <1>3, <1>11
  <2> QED BY <2>5, <2>6
<1> QED BY <1>13, <1>14, <1>15, <1>16, <1>18, <1>19, <1>20
--------------------------------------------------------------------------------
LEMMA ListStep == ListInv /\ [Next]_vars => ListInv'
<1> SUFFICES ASSUME ListInv, [Next]_vars PROVE ListInv'
  OBVIOUS
<1>1. CASE UNCHANGED vars
  <2>1. UNCHANGED <<holder, takers, products, details, fixed, observing, regs, mainq,
                    open, loads, late, rows>>
    BY <1>1 DEF vars, database, client, list
  <2>2. UNCHANGED <<Remembered, Posted, Latest>>
        /\ \A o : DetailEventsOf(o)' = DetailEventsOf(o) /\ LatestOf(o)' = LatestOf(o)
    BY <2>1 DEF Remembered, Posted, Latest, DetailEventsOf, LatestOf
  <2>3. \A on, i : At(on, i)' = At(on, i)
    BY <2>2 DEF At
  <2>4. \A l : Awaited(l)' <=> Awaited(l)
    BY <2>1 DEF Awaited
  <2>5. \A i, o : ShipperIsLatest(i, o)' <=> ShipperIsLatest(i, o)
    BY <2>1, <2>2, <2>3 DEF ShipperIsLatest
  <2>6. \A S, l : ListedAs(S, l)' <=> ListedAs(S, l)
    BY <2>1, <2>2, <2>5 DEF ListedAs
  <2>7. ListTypes' /\ ListGrows'
    BY <2>1, <2>2 DEF ListInv, ListTypes, ListGrows
  <2>8. ListIsLatest' /\ IndexInRange' /\ DetailsOfPosted' /\ TakersHeard'
    BY <2>1, <2>2 DEF ListInv, ListIsLatest, IndexInRange, DetailsOfPosted, TakersHeard
  <2>9. RowsAwaited'
    BY <2>1, <2>3, <2>4 DEF ListInv, RowsAwaited
  <2>10. OneListing'
    BY <2>1, <2>2, <2>6 DEF ListInv, OneListing
  <2> QED BY <2>7, <2>8, <2>9, <2>10 DEF ListInv
<1>2. CASE OpenList
  BY <1>2, OpenListStep
<1>3. CASE \E o \in Orders : Reassign(o)
  BY <1>3, ReassignStep
<1>4. CASE Observe
  BY <1>4, ObserveStep
<1>5. CASE HearProducts
  BY <1>5, HearProductsStep
<1>6. CASE \E o \in Orders : HearDetail(o)
  BY <1>6, HearDetailStep
<1>7. CASE \E o \in Orders : HearFixed("Parts", o)
  <2> SUFFICES ASSUME NEW o \in Orders, HearFixed("Parts", o) PROVE ListInv'
    BY <1>7
  <2> QED BY HearFixedStep
<1>8. CASE \E u \in Shippers : HearFixed("Login", u)
  BY <1>8, HearFixedStep
<1>9. CASE ProductValue
  BY <1>9, ProductValueStep
<1>10. CASE DetailValue
  BY <1>10, DetailValueStep
<1>11. CASE PartsValue
  BY <1>11, PartsValueStep
<1>12. CASE LoginValue
  BY <1>12, LoginValueStep
<1> QED
  BY <1>1, <1>2, <1>3, <1>4, <1>5, <1>6, <1>7, <1>8, <1>9, <1>10, <1>11, <1>12 DEF Next, ListNext

LEMMA ListInductive == TabsSpec => []ListInv
<1>1. TabsInit => ListInv
  BY ListInitInv DEF TabsInit
<1>2. [TabsNext]_tabs => [Next]_vars
  BY DEF TabsNext, tabs, SelectTab, Next
<1> QED BY <1>1, <1>2, ListStep, PTL DEF TabsSpec

(* The write of a row's field never stops the app: every index a listener   *)
(* remembers is a row of the list, however often the list has been filled   *)
(* since (ListNewsPresenter.swift:40-105).                                  *)
THEOREM RowsAreThere == TabsSpec => []IndexInRange
<1>1. ListInv => IndexInRange
  BY DEF ListInv
<1> QED BY <1>1, ListInductive, PTL

(* Once nothing is on its way the list has a complete row for each order of *)
(* the shop, and the rows are those orders if it was filled only once       *)
(* (ListNewsPresenter.swift:40-90).                                         *)
THEOREM RowsAreComplete == TabsSpec => []RowsComplete
<1>1. ListInv => RowsComplete
  <2> SUFFICES ASSUME ListInv, Quiet PROVE
        /\ Len(rows) = Cardinality(Posted)
        /\ \A i \in DOMAIN rows : Blank \notin {rows[i].detail, rows[i].parts, rows[i].shipper}
        /\ loads = 1 => /\ {rows[i].detail : i \in DOMAIN rows} = Posted
                        /\ \A i \in DOMAIN rows : rows[i].parts = rows[i].detail
    BY DEF RowsComplete
  <2> USE DEF ListInv
  <2>1. /\ ToSet(observing) = {} /\ ToSet(mainq) = {} /\ products = Posted /\ Posted \in SUBSET Orders
        /\ \A o \in Posted : details[o] # Unheard
    <3>1. ToSet(observing) = {} /\ ToSet(mainq) = {} /\ products = Posted
      BY EmptyQueue DEF Quiet
    <3>2. \A o \in Posted : details[o] \in Holders
      BY MarkersDiffer DEF Quiet, Posted, ListTypes
    <3> QED BY <3>1, <3>2, MarkersDiffer DEF Posted
  <2>2. Remembered = ToSet(regs) /\ \A l \in Remembered : l.on \in {"Product", "Detail"}
    BY <2>1 DEF Remembered, Quiet, ToSet
  <2>3. Len(rows) = Cardinality(Posted)
    BY <2>1, MarkersDiffer DEF ListIsLatest
  <2>4. ASSUME NEW i \in DOMAIN rows PROVE Blank \notin {rows[i].detail, rows[i].parts, rows[i].shipper}
    <3>1. At("Parts", i) = {} /\ At("Login", i) = {}
      BY <2>2 DEF At
    <3>2. \A l \in At("Detail", i) : ~Awaited(l)
      BY <2>1, <2>2 DEF At, Awaited, DetailsOfPosted
    <3> QED BY <3>1, <3>2 DEF RowsAwaited
  <2>5. ASSUME loads = 1
        PROVE  /\ {rows[i].detail : i \in DOMAIN rows} = Posted
               /\ \A i \in DOMAIN rows : rows[i].parts = rows[i].detail
    <3>1. PICK S \in SUBSET Posted : \E listed \in SetToSeqs(S) : ListedAs(S, listed)
      BY <2>5 DEF OneListing
    <3>2. PICK listed \in SetToSeqs(S) : ListedAs(S, listed)
      BY <3>1
    <3>3. S = Posted
      BY <2>1, <2>3, <3>2, Counts DEF ListedAs
    <3>4. \A i \in DOMAIN rows : rows[i].detail = listed[i] /\ rows[i].parts = listed[i]
      BY <2>4, <3>2 DEF ListedAs
    <3>5. DOMAIN listed = DOMAIN rows /\ {listed[i] : i \in DOMAIN listed} = Posted
      BY <2>1, <2>3, <3>3, ListingFacts, ElementFacts DEF ListTypes, ToSet
    <3> QED BY <3>4, <3>5
  <2> QED BY <2>3, <2>4, <2>5
<1> QED BY <1>1, ListInductive, PTL

(* As long as the list was filled only once, the shipper in a row is the    *)
(* one who has the order, unless it changed hands while an earlier          *)
(* shipper's record was awaited, and has had it in any case                 *)
(* (ListNewsPresenter.swift:91-105).                                        *)
THEOREM RowsShowTheShipper == TabsSpec => []ShipperShown
<1>1. ListInv => ShipperShown
  <2> SUFFICES ASSUME ListInv, Quiet, loads = 1, NEW i \in DOMAIN rows
               PROVE  /\ rows[i].shipper \in takers[rows[i].detail]
                      /\ rows[i].detail \notin late => rows[i].shipper = holder[rows[i].detail]
    BY DEF ShipperShown
  <2> USE DEF ListInv
  <2>1. /\ ToSet(observing) = {} /\ ToSet(mainq) = {}
        /\ \A o \in Posted : details[o] = holder[o] /\ details[o] # Unheard
    <3>1. ToSet(observing) = {} /\ ToSet(mainq) = {}
      BY EmptyQueue DEF Quiet
    <3>2. \A o \in Posted : details[o] = holder[o] /\ details[o] \in Holders
      BY MarkersDiffer DEF Quiet, Posted, ListTypes
    <3> QED BY <3>1, <3>2, MarkersDiffer
  <2>2. At("Login", i) = {} /\ At("Parts", i) = {} /\ \A l \in At("Detail", i) : ~Awaited(l)
    <3>1. Remembered = ToSet(regs) /\ \A l \in Remembered : l.on \in {"Product", "Detail"}
      BY <2>1 DEF Remembered, Quiet, ToSet
    <3> QED BY <2>1, <3>1 DEF At, Awaited, DetailsOfPosted
  <2>3. rows[i].detail # Blank /\ rows[i].shipper # Blank
    BY <2>2 DEF RowsAwaited
  <2>4. PICK S \in SUBSET Posted : \E listed \in SetToSeqs(S) :
           ListedAs(S, listed) /\ \A j \in DOMAIN rows : listed[j] \in S
    BY ListedFacts
  <2>5. PICK listed \in SetToSeqs(S) : ListedAs(S, listed) /\ \A j \in DOMAIN rows : listed[j] \in S
    BY <2>4
  <2>6. rows[i].detail = listed[i] /\ rows[i].shipper \in takers[listed[i]] /\ listed[i] \in Posted
    BY <2>3, <2>5 DEF ListedAs
  <2>7. listed[i] \notin late => rows[i].shipper = details[listed[i]]
    BY <2>1, <2>2, <2>5, <2>6 DEF ListedAs, ShipperIsLatest
  <2> QED BY <2>1, <2>6, <2>7
<1> QED BY <1>1, ListInductive, PTL
--------------------------------------------------------------------------------
(* The frames of the animation (GifFrames).                                 *)
Whole == Nat \ {0}

Divides(d, n) == \E k \in Nat : n = d * k

LEMMA Remainder ==
  ASSUME NEW n \in Nat, NEW d \in Nat, d > 0
  PROVE  /\ n = d * (n \div d) + (n % d) /\ n % d >= 0 /\ n % d < d
         /\ n \div d \in Nat /\ n % d \in Nat
OBVIOUS

(* A divisor leaves no remainder, and fits in as often as its quotient.     *)
LEMMA DividesIsMod ==
  ASSUME NEW n \in Nat, NEW d \in Whole
  PROVE  /\ Divides(d, n) <=> n % d = 0
         /\ Divides(d, n) => n = d * (n \div d)
<1>0. d \in Nat /\ d > 0
  BY DEF Whole
<1>1. \E q, r \in Nat : q = n \div d /\ r = n % d /\ r < d /\ n = d * q + r
  BY <1>0, Remainder
<1> PICK q \in Nat, r \in Nat : q = n \div d /\ r = n % d /\ r < d /\ n = d * q + r
  BY <1>1
<1>2. ASSUME NEW k \in Nat, n = d * k PROVE r = 0
  <2>1. d * (k - q) = r /\ d \in Nat /\ d > 0
    BY <1>1, <1>2 DEF Whole
  <2>2. k - q < 1 /\ k - q > -1
    BY <1>1, <2>1
  <2>3. k - q = 0
    BY <2>2
  <2> QED BY <2>1, <2>3
<1>3. r = 0 => n = d * q
  BY <1>1 DEF Whole
<1> QED BY <1>1, <1>2, <1>3 DEF Divides

LEMMA DividesFacts ==
  ASSUME NEW a \in Nat, NEW b \in Whole, NEW d \in Whole
  PROVE  /\ Divides(d, d)
         /\ Divides(d, b) => d <= b
         /\ Divides(d, b) /\ Divides(b, a) => Divides(d, a)
<1>1. Divides(d, d)
  <2>1. d = d * 1
    BY DEF Whole
  <2> QED BY <2>1 DEF Divides
<1>2. ASSUME Divides(d, b) PROVE d <= b
  <2>1. PICK k \in Nat : b = d * k
    BY <1>2 DEF Divides
  <2>2. k # 0
    BY <2>1 DEF Whole
  <2>3. k >= 1
    BY <2>2
  <2> QED BY <2>1, <2>3 DEF Whole
<1>3. ASSUME Divides(d, b), Divides(b, a) PROVE Divides(d, a)
  <2>1. PICK k \in Nat, m \in Nat : b = d * k /\ a = b * m
    BY <1>3 DEF Divides
  <2>2. a = d * (k * m) /\ k * m \in Nat
    BY <2>1 DEF Whole
  <2> QED BY <2>2 DEF Divides
<1> QED BY <1>1, <1>2, <1>3

(* One round of gcdForPair keeps the common divisors.                       *)
LEMMA CommonDivisors ==
  ASSUME NEW a \in Nat, NEW b \in Whole, NEW d \in Whole
  PROVE  Divides(d, a) /\ Divides(d, b) <=> Divides(d, b) /\ Divides(d, a % b)
<1>0. b \in Nat /\ b > 0 /\ d \in Nat /\ d > 0
  BY DEF Whole
<1>1. PICK q \in Nat, r \in Nat : q = a \div b /\ r = a % b /\ r < b /\ a = b * q + r
  BY <1>0, Remainder
<1>2. ASSUME NEW k \in Nat, b = d * k
      PROVE  Divides(d, a) <=> Divides(d, r)
  <2>1. ASSUME NEW m \in Nat, a = d * m PROVE Divides(d, r)
    <3>1. b * q = d * (k * q) /\ k * q \in Nat /\ d \in Nat /\ d > 0
      BY <1>2 DEF Whole
    <3>2. PICK x \in Nat : x = k * q
      BY <3>1
    <3>3. b * q = d * x
      BY <3>1, <3>2
    <3>4. d * m = d * x + r
      BY <1>1, <2>1, <3>3
    <3>5. r = d * (m - x)
      BY <1>0, <3>4
    <3>6. m - x > -1
      BY <1>0, <1>1, <3>5
    <3>7. m - x \in Nat
      BY <3>6
    <3> QED BY <3>5, <3>7 DEF Divides
  <2>2. ASSUME NEW m \in Nat, r = d * m PROVE Divides(d, a)
    <3>1. b * q = d * (k * q) /\ k * q \in Nat /\ d \in Nat
      BY <1>2 DEF Whole
    <3>2. PICK x \in Nat : x = k * q
      BY <3>1
    <3>3. b * q = d * x
      BY <3>1, <3>2
    <3>4. a = d * x + d * m
      BY <1>1, <2>2, <3>3
    <3>5. a = d * (x + m) /\ x + m \in Nat
      BY <1>0, <3>4
    <3> QED BY <3>5 DEF Divides
  <2> QED BY <2>1, <2>2 DEF Divides
<1> QED BY <1>1, <1>2 DEF Divides

(* The delays that have been read, the images that could be read among      *)
(* them, and the divisors all delays have.                                  *)
GifTypes ==
  /\ source \in Seq(Image) /\ index \in Whole
  /\ step \in {"read", "divide", "repeat", "done", "stopped"}
  /\ images \in Seq(Nat) /\ delays \in Seq(Whole)
  /\ pair \in {<<>>} \cup (Whole \X Whole) /\ gcd \in Whole
  /\ frames \in Seq([image : Nat, times : Nat])

Common(d) == \A i \in 1..Len(delays) : Divides(d, delays[i])

ReadSoFar ==
  /\ Len(delays) <= Len(source) /\ Len(images) <= Len(delays)
  /\ Len(images) = Len(delays) => \A i \in 1..Len(images) : images[i] = i
  /\ (\A i \in 1..Len(delays) : source[i].readable) => Len(images) = Len(delays)

Reading ==
  /\ step = "read" => index = Len(delays) + 1 /\ gcd = 1
  /\ step # "read" => Len(delays) = Len(source)
  /\ step \in {"read", "divide"} => frames = <<>>
  /\ step \in {"read", "repeat", "done"} => pair = <<>>

(* No divisor of all delays is larger than gcd.                             *)
Largest == IF delays = <<>> THEN gcd = 1
           ELSE \A d \in Whole : Common(d) => Divides(d, gcd)

Dividing == step = "divide" =>
  /\ index <= Len(delays) + 1 /\ Largest
  /\ \A i \in 1..index - 1 : Divides(gcd, delays[i])
  /\ pair # <<>> =>
       /\ index <= Len(delays)
       /\ \A d \in Whole : Common(d) => Divides(d, pair[1]) /\ Divides(d, pair[2])
       /\ \A d \in Whole : Divides(d, pair[1]) /\ Divides(d, pair[2]) =>
                             Divides(d, gcd) /\ Divides(d, delays[index])

Repeating == step \in {"repeat", "done"} =>
  /\ Largest /\ Common(gcd) /\ Len(frames) <= Len(images)
  /\ \A i \in 1..Len(frames) :
       frames[i].image = images[i] /\ frames[i].times = delays[i] \div gcd
  /\ step = "repeat" => index = Len(frames) + 1
  /\ step = "done" => Len(frames) = Len(source)

Unread == step = "stopped" => \E i \in DOMAIN source : ~source[i].readable

GifInv == GifTypes /\ ReadSoFar /\ Reading /\ Dividing /\ Repeating /\ Unread

LEMMA GifInitInv == TabsInit => GifInv
<1> SUFFICES ASSUME TabsInit PROVE GifInv
  OBVIOUS
<1>1. /\ step = "read" /\ index = 1 /\ images = <<>> /\ delays = <<>>
      /\ pair = <<>> /\ gcd = 1 /\ frames = <<>> /\ source \in Seq(Image)
  BY ShopTabsAssumption DEF TabsInit, GifInit
<1>2. Len(<<>>) = 0 /\ 1..0 = {} /\ Len(source) \in Nat
  BY <1>1, LenProperties
<1>3. GifTypes
  BY <1>1 DEF GifTypes, Whole
<1> QED BY <1>1, <1>2, <1>3 DEF GifInv, ReadSoFar, Reading, Dividing, Repeating, Unread

(* A delay is never nothing.                                                *)
LEMMA DelayIsWhole ==
  ASSUME NEW image \in Image PROVE Milliseconds(Delay(image)) \in Whole
<1>1. image.unclamped \in Nat /\ image.clamped \in Nat
  BY DEF Image
<1>2. Delay(image) \in Nat /\ Delay(image) >= 1
  BY <1>1 DEF Delay
<1> QED BY <1>2 DEF Milliseconds, Whole

LEMMA ReadStep ==
  ASSUME GifInv, Read PROVE GifInv'
<1>1. /\ source \in Seq(Image) /\ images \in Seq(Nat) /\ delays \in Seq(Whole)
      /\ Len(source) \in Nat /\ Len(images) \in Nat /\ Len(delays) \in Nat
      /\ DOMAIN source = 1..Len(source) /\ index \in 1..Len(source)
      /\ index = Len(delays) + 1 /\ gcd = 1 /\ frames = <<>> /\ pair = <<>> /\ step = "read"
  BY LenProperties DEF GifInv, GifTypes, Reading, Read
<1>2. source[index] \in Image
  BY <1>1, ElementOfSeq
<1>3. PICK m \in Whole : m = Milliseconds(Delay(source[index]))
  BY <1>2, DelayIsWhole
<1>4. /\ delays' = Append(delays, m) /\ index' = index + 1
      /\ images' = IF source[index].readable THEN Append(images, index) ELSE images
      /\ UNCHANGED <<source, step, pair, gcd, frames>>
  BY <1>3 DEF Read
<1>5. /\ delays' \in Seq(Whole) /\ Len(delays') = Len(delays) + 1
      /\ \A i \in 1..Len(delays) : delays'[i] = delays[i]
  BY <1>1, <1>4, AppendProperties
<1>6. /\ images' \in Seq(Nat)
      /\ source[index].readable =>
           /\ Len(images') = Len(images) + 1
           /\ \A i \in 1..Len(images) : images'[i] = images[i]
           /\ images'[Len(images) + 1] = index
      /\ ~source[index].readable => images' = images
  BY <1>1, <1>4, AppendProperties
<1>7. GifTypes'
  BY <1>1, <1>4, <1>5, <1>6 DEF GifInv, GifTypes, Whole
<1>8. ReadSoFar'
  <2>1. Len(delays') <= Len(source') /\ Len(images') <= Len(delays')
    BY <1>1, <1>4, <1>5, <1>6 DEF GifInv, ReadSoFar
  <2>2. ASSUME Len(images') = Len(delays'), NEW i \in 1..Len(images') PROVE images'[i] = i
    <3>1. source[index].readable
      BY <1>1, <1>5, <1>6, <2>2 DEF GifInv, ReadSoFar
    <3>2. Len(images) = Len(delays)
      BY <1>1, <1>5, <1>6, <2>2, <3>1
    <3>3. CASE i \in 1..Len(images)
      BY <1>6, <3>1, <3>2, <3>3 DEF GifInv, ReadSoFar
    <3>4. CASE i = Len(images) + 1
      BY <1>1, <1>6, <3>1, <3>2, <3>4
    <3> QED BY <1>1, <1>6, <2>2, <3>1, <3>3, <3>4
  <2>3. ASSUME \A i \in 1..Len(delays') : source'[i].readable PROVE Len(images') = Len(delays')
    <3>1. source[index].readable /\ \A i \in 1..Len(delays) : source[i].readable
      BY <1>1, <1>4, <1>5, <2>3
    <3> QED BY <1>5, <1>6, <3>1 DEF GifInv, ReadSoFar
  <2> QED BY <2>1, <2>2, <2>3 DEF ReadSoFar
<1>9. Reading'
  BY <1>1, <1>4, <1>5 DEF Reading
<1> QED BY <1>1, <1>4, <1>7, <1>8, <1>9 DEF GifInv, Dividing, Repeating, Unread

LEMMA AllReadStep ==
  ASSUME GifInv, AllRead PROVE GifInv'
<1>1. /\ source \in Seq(Image) /\ delays \in Seq(Whole)
      /\ Len(source) \in Nat /\ Len(delays) \in Nat
      /\ DOMAIN source = 1..Len(source) /\ index \notin 1..Len(source)
      /\ index = Len(delays) + 1 /\ Len(delays) <= Len(source)
      /\ frames = <<>> /\ pair = <<>>
  BY LenProperties DEF GifInv, GifTypes, ReadSoFar, Reading, AllRead
<1>2. Len(delays) = Len(source)
  BY <1>1
<1>3. /\ step' = "divide" /\ index' = 1 /\ gcd' = IF delays = <<>> THEN 1 ELSE delays[1]
      /\ UNCHANGED <<source, images, delays, pair, frames>>
  BY DEF AllRead
<1>4. delays # <<>> => 1 \in 1..Len(delays) /\ delays[1] \in Whole
  BY <1>1, EmptySeq, ElementOfSeq
<1>5. GifTypes'
  BY <1>3, <1>4 DEF GifInv, GifTypes, Whole
<1>6. Largest'
  <2>1. ASSUME delays # <<>>, NEW d \in Whole, Common(d)' PROVE Divides(d, gcd')
    BY <1>3, <1>4, <2>1 DEF Common
  <2> QED BY <1>3, <2>1 DEF Largest
<1>7. Dividing'
  <2>1. 1..index' - 1 = {} /\ index' <= Len(delays') + 1
    BY <1>1, <1>3
  <2> QED BY <1>1, <1>3, <1>6, <2>1 DEF Dividing
<1> QED BY <1>1, <1>2, <1>3, <1>5, <1>7 DEF GifInv, ReadSoFar, Reading, Repeating, Unread

LEMMA PairStep ==
  ASSUME GifInv, Pair PROVE GifInv'
<1>1. /\ delays \in Seq(Whole) /\ Len(delays) \in Nat /\ index \in 1..Len(delays) /\ gcd \in Whole
      /\ step = "divide" /\ Largest /\ \A i \in 1..index - 1 : Divides(gcd, delays[i])
  BY LenProperties DEF GifInv, GifTypes, Dividing, Pair
<1>2. PICK m \in Whole : m = delays[index]
  BY <1>1, ElementOfSeq
<1>3. /\ pair' = IF m < gcd THEN <<gcd, m>> ELSE <<m, gcd>>
      /\ UNCHANGED <<source, step, index, images, delays, gcd, frames>>
  BY <1>2 DEF Pair
<1>4. /\ pair' \in Whole \X Whole
      /\ \A d \in Whole : Divides(d, pair'[1]) /\ Divides(d, pair'[2]) <=>
                            Divides(d, gcd) /\ Divides(d, m)
  BY <1>1, <1>2, <1>3
<1>5. GifTypes' /\ ReadSoFar' /\ Reading' /\ Repeating' /\ Unread'
  BY <1>1, <1>3, <1>4 DEF GifInv, GifTypes, ReadSoFar, Reading, Repeating, Unread
<1>6. \A d \in Whole : Common(d)' <=> Common(d)
  BY <1>3 DEF Common
<1>7. delays # <<>>
  BY <1>1
<1>8. ASSUME NEW d \in Whole, Common(d) PROVE Divides(d, gcd) /\ Divides(d, m)
  BY <1>1, <1>2, <1>7, <1>8 DEF Largest, Common
<1>9. Largest'
  BY <1>3, <1>6, <1>7, <1>8 DEF Largest
<1>10. Dividing'
  BY <1>1, <1>2, <1>3, <1>4, <1>6, <1>8, <1>9 DEF Dividing
<1> QED BY <1>5, <1>10 DEF GifInv

LEMMA DivideStep ==
  ASSUME GifInv, Divide PROVE GifInv'
<1>1. /\ delays \in Seq(Whole) /\ Len(delays) \in Nat /\ index \in 1..Len(delays) /\ gcd \in Whole
      /\ pair \in Whole \X Whole /\ step = "divide" /\ Largest
      /\ \A i \in 1..index - 1 : Divides(gcd, delays[i])
      /\ \A d \in Whole : Common(d) => Divides(d, pair[1]) /\ Divides(d, pair[2])
      /\ \A d \in Whole : Divides(d, pair[1]) /\ Divides(d, pair[2]) =>
                            Divides(d, gcd) /\ Divides(d, delays[index])
  BY LenProperties DEF GifInv, GifTypes, Dividing, Divide, Whole
<1>2. PICK a \in Whole, b \in Whole : pair = <<a, b>> /\ pair[1] = a /\ pair[2] = b
  BY <1>1
<1>3. a \in Nat /\ b \in Nat /\ b > 0 /\ index \in Nat
  BY <1>1 DEF Whole
<1>4. PICK rest \in Nat : rest = a % b
  BY <1>3, Remainder
<1>5. delays # <<>>
  BY <1>1
<1>6. UNCHANGED <<source, step, images, delays, frames>>
  BY DEF Divide
<1>7. \A d \in Whole : Common(d)' <=> Common(d)
  BY <1>6 DEF Common
<1>8. CASE rest = 0
  <2>1. gcd' = b /\ pair' = <<>> /\ index' = index + 1
    BY <1>2, <1>4, <1>8 DEF Divide
  <2>2. Divides(b, a) /\ Divides(b, b)
    BY <1>3, <1>4, <1>8, DividesIsMod, DividesFacts
  <2>3. Divides(b, gcd) /\ Divides(b, delays[index])
    BY <1>1, <1>2, <2>2
  <2>4. ASSUME NEW i \in 1..index PROVE Divides(b, delays[i])
    <3>1. CASE i = index
      BY <2>3, <3>1
    <3>2. CASE i # index
      <4>1. i \in 1..index - 1 /\ i \in 1..Len(delays)
        BY <1>1, <2>4, <3>2
      <4>2. PICK m \in Whole : m = delays[i]
        BY <1>1, <4>1, ElementOfSeq
      <4>3. Divides(gcd, m) /\ m \in Nat
        BY <1>1, <4>1, <4>2 DEF Whole
      <4> QED BY <1>1, <2>3, <4>2, <4>3, DividesFacts
    <3> QED BY <3>1, <3>2
  <2>5. 1..index' - 1 = 1..index /\ index' <= Len(delays') + 1 /\ index' \in Whole
    BY <1>1, <1>3, <1>6, <2>1 DEF Whole
  <2>6. Largest'
    BY <1>1, <1>2, <1>5, <1>6, <1>7, <2>1 DEF Largest
  <2>7. Dividing'
    BY <1>6, <2>1, <2>4, <2>5, <2>6 DEF Dividing
  <2>8. GifTypes' /\ ReadSoFar' /\ Reading' /\ Repeating' /\ Unread'
    BY <1>1, <1>6, <2>1, <2>5 DEF GifInv, GifTypes, ReadSoFar, Reading, Repeating, Unread
  <2> QED BY <2>7, <2>8 DEF GifInv
<1>9. CASE rest # 0
  <2>1. pair' = <<b, rest>> /\ UNCHANGED <<gcd, index>> /\ rest \in Whole
    BY <1>2, <1>4, <1>9 DEF Divide, Whole
  <2>2. pair' \in Whole \X Whole /\ pair'[1] = b /\ pair'[2] = rest
    BY <2>1
  <2>3. \A d \in Whole : Divides(d, b) /\ Divides(d, rest) <=> Divides(d, a) /\ Divides(d, b)
    BY <1>3, <1>4, CommonDivisors
  <2>4. Largest'
    BY <1>1, <1>5, <1>6, <1>7, <2>1 DEF Largest
  <2>5. Dividing'
    BY <1>1, <1>2, <1>6, <1>7, <2>1, <2>2, <2>3, <2>4 DEF Dividing
  <2>6. GifTypes' /\ ReadSoFar' /\ Reading' /\ Repeating' /\ Unread'
    BY <1>1, <1>6, <2>1, <2>2 DEF GifInv, GifTypes, ReadSoFar, Reading, Repeating, Unread
  <2> QED BY <2>5, <2>6 DEF GifInv
<1> QED BY <1>8, <1>9

LEMMA RepeatSteps ==
  ASSUME GifInv, AllDivided \/ Repeat \/ AllRepeated \/ Stops PROVE GifInv'
<1>1. /\ source \in Seq(Image) /\ delays \in Seq(Whole) /\ images \in Seq(Nat) /\ gcd \in Whole
      /\ frames \in Seq([image : Nat, times : Nat]) /\ index \in Nat /\ index >= 1
      /\ Len(source) \in Nat /\ Len(delays) \in Nat /\ Len(images) \in Nat /\ Len(frames) \in Nat
      /\ DOMAIN source = 1..Len(source) /\ DOMAIN delays = 1..Len(delays)
      /\ DOMAIN images = 1..Len(images)
      /\ Len(images) <= Len(delays) /\ Len(delays) = Len(source)
  BY LenProperties DEF GifInv, GifTypes, ReadSoFar, Reading, Whole, AllDivided, Repeat, AllRepeated, Stops
<1>2. UNCHANGED <<source, images, delays, pair, gcd>>
  BY DEF AllDivided, Repeat, AllRepeated, Stops
<1>3. ReadSoFar' /\ (Largest => Largest') /\ (Common(gcd) => Common(gcd)')
  BY <1>2 DEF GifInv, ReadSoFar, Largest, Common
<1>4. CASE AllDivided
  <2>1. /\ step' = "repeat" /\ index' = 1 /\ frames' = frames
        /\ step = "divide" /\ index \notin 1..Len(delays) /\ frames = <<>>
    BY <1>1, <1>4 DEF AllDivided, GifInv, Reading
  <2>2. index = Len(delays) + 1 /\ 1..index - 1 = 1..Len(delays)
    BY <1>1, <2>1 DEF GifInv, Dividing
  <2>3. Largest /\ Common(gcd) /\ pair = <<>>
    BY <1>1, <2>1, <2>2 DEF GifInv, GifTypes, Dividing, Common
  <2>4. Len(frames) = 0 /\ 1..0 = {}
    BY <2>1
  <2> QED BY <1>1, <1>2, <1>3, <2>1, <2>3, <2>4
          DEF GifInv, GifTypes, Whole, Reading, Dividing, Repeating, Unread
<1>5. CASE Repeat
  <2>1. /\ step = "repeat" /\ index \in 1..Len(images) /\ index = Len(frames) + 1
        /\ index' = index + 1 /\ step' = step
    BY <1>1, <1>5 DEF Repeat, GifInv, Repeating
  <2>2. PICK f \in [image : Nat, times : Nat] :
          f.image = images[index] /\ f.times = delays[index] \div gcd /\ frames' = Append(frames, f)
    <3>1. images[index] \in Nat /\ delays[index] \in Whole
      BY <1>1, <2>1, ElementOfSeq
    <3>2. delays[index] \div gcd \in Nat
      <4>1. delays[index] \in Nat /\ gcd \in Nat /\ gcd > 0
        BY <1>1, <3>1 DEF Whole
      <4> QED BY <4>1, Remainder
    <3> QED BY <1>5, <3>1, <3>2 DEF Repeat
  <2>3. /\ frames' \in Seq([image : Nat, times : Nat]) /\ Len(frames') = Len(frames) + 1
        /\ \A i \in 1..Len(frames) : frames'[i] = frames[i]
        /\ frames'[Len(frames) + 1] = f
    BY <1>1, <2>2, AppendProperties
  <2>4. GifTypes'
    BY <1>1, <1>2, <2>1, <2>3 DEF GifInv, GifTypes, Whole
  <2>5. ASSUME NEW i \in 1..Len(frames')
        PROVE  frames'[i].image = images[i] /\ frames'[i].times = delays[i] \div gcd
    <3>1. CASE i = Len(frames) + 1
      BY <2>1, <2>2, <2>3, <3>1
    <3>2. CASE i # Len(frames) + 1
      <4>1. i \in 1..Len(frames)
        BY <1>1, <2>3, <2>5, <3>2
      <4> QED BY <2>1, <2>3, <4>1 DEF GifInv, Repeating
    <3> QED BY <3>1, <3>2
  <2>6. Repeating'
    BY <1>1, <1>2, <1>3, <2>1, <2>3, <2>5 DEF GifInv, Repeating
  <2> QED BY <1>2, <1>3, <2>1, <2>4, <2>6 DEF GifInv, Reading, Dividing, Unread
<1>6. CASE AllRepeated
  <2>1. /\ step = "repeat" /\ step' = "done" /\ UNCHANGED <<index, frames>>
        /\ index \notin 1..Len(source) /\ index = Len(frames) + 1 /\ Len(frames) <= Len(images)
    BY <1>1, <1>6 DEF AllRepeated, GifInv, Repeating
  <2>2. Len(frames) = Len(source)
    BY <1>1, <2>1
  <2> QED BY <1>1, <1>2, <1>3, <2>1, <2>2
          DEF GifInv, GifTypes, Whole, Reading, Dividing, Repeating, Unread
<1>7. CASE Stops
  <2>1. step' = "stopped" /\ UNCHANGED <<index, frames>>
    BY <1>7 DEF Stops
  <2>2. ~(step = "divide" /\ pair # <<>> /\ pair[2] = 0)
    BY DEF GifInv, GifTypes, Whole
  <2>3. index \in 1..Len(source) /\ index \notin 1..Len(images)
    BY <1>1, <1>7, <2>2 DEF Stops
  <2>4. Len(images) # Len(delays)
    BY <1>1, <2>3
  <2>5. PICK i \in 1..Len(source) : ~source[i].readable
    BY <1>1, <2>4 DEF GifInv, ReadSoFar
  <2> QED BY <1>1, <1>2, <1>3, <2>1, <2>5
          DEF GifInv, GifTypes, Whole, Reading, Dividing, Repeating, Unread
<1> QED BY <1>4, <1>5, <1>6, <1>7

LEMMA GifInductive == TabsSpec => []GifInv
<1>1. ASSUME GifInv, [TabsNext]_tabs PROVE GifInv'
  <2>1. CASE UNCHANGED gif
    BY <1>1, <2>1 DEF gif, GifInv, GifTypes, ReadSoFar, Reading, Dividing, Repeating, Unread,
                      Largest, Common
  <2>2. CASE GifNext
    BY <1>1, <2>2, ReadStep, AllReadStep, PairStep, DivideStep, RepeatSteps DEF GifNext
  <2> QED BY <1>1, <2>1, <2>2 DEF TabsNext, SelectTab, tabs
<1> QED BY <1>1, GifInitInv, PTL DEF TabsSpec

(* FramesKeepDelays: whatever delays the images of the loading screen have, *)
(* a finished animation has every image in order, any two of them as often  *)
(* as their delays are long, with the largest common divisor there is, and  *)
(* only an image that cannot be read stops the app before (ServiceLogin     *)
(* .swift:92-179).                                                          *)
THEOREM FramesKeepDelays == TabsSpec => []EachForItsDelay
<1>1. ASSUME GifInv PROVE EachForItsDelay
  <2>1. /\ source \in Seq(Image) /\ delays \in Seq(Whole) /\ gcd \in Nat /\ gcd > 0
        /\ frames \in Seq([image : Nat, times : Nat])
        /\ Len(source) \in Nat /\ Len(delays) \in Nat
        /\ DOMAIN source = 1..Len(source) /\ DOMAIN delays = 1..Len(delays)
        /\ DOMAIN frames = 1..Len(frames) /\ gcd \in Whole
    BY <1>1, LenProperties DEF GifInv, GifTypes, Whole
  <2>2. ASSUME step = "done"
        PROVE  /\ Len(frames) = Len(source) /\ Len(delays) = Len(source)
               /\ Len(images) = Len(source) /\ \A i \in 1..Len(source) : images[i] = i
    <3>1. /\ Len(images) \in Nat /\ Len(images) <= Len(delays) /\ Len(frames) <= Len(images)
          /\ Len(delays) = Len(source) /\ Len(frames) = Len(source)
      BY <1>1, <2>2, LenProperties DEF GifInv, GifTypes, ReadSoFar, Reading, Repeating
    <3>2. Len(images) = Len(delays)
      BY <2>1, <3>1
    <3> QED BY <1>1, <3>1, <3>2 DEF GifInv, ReadSoFar
  <2>3. ASSUME step = "done"
        PROVE  [i \in DOMAIN frames |-> frames[i].image] = [i \in DOMAIN source |-> i]
    <3>1. \A i \in 1..Len(frames) : frames[i].image = i
      BY <1>1, <2>2, <2>3 DEF GifInv, Repeating
    <3> QED BY <2>1, <2>2, <2>3, <3>1
  <2>4. ASSUME step = "done", NEW i \in DOMAIN frames
        PROVE  /\ frames[i].times \in Nat /\ frames[i].times > 0
               /\ delays[i] \in Nat /\ delays[i] = gcd * frames[i].times
    <3>1. /\ i \in 1..Len(delays) /\ frames[i].times = delays[i] \div gcd
          /\ Divides(gcd, delays[i])
      BY <1>1, <2>1, <2>2, <2>4 DEF GifInv, Repeating, Common
    <3>2. PICK n \in Whole : n = delays[i]
      BY <2>1, <3>1, ElementOfSeq
    <3>3. PICK k \in Nat : k = n \div gcd /\ n = gcd * k
      <4>1. n \in Nat /\ n \div gcd \in Nat /\ n = gcd * (n \div gcd)
        BY <2>1, <3>1, <3>2, Remainder, DividesIsMod DEF Whole
      <4> QED BY <4>1
    <3>4. k # 0
      BY <2>1, <3>2, <3>3 DEF Whole
    <3> QED BY <2>1, <3>1, <3>2, <3>3, <3>4 DEF Whole
  <2>5. ASSUME step = "done", NEW i \in DOMAIN frames, NEW j \in DOMAIN frames
        PROVE  frames[i].times * delays[j] = frames[j].times * delays[i]
    <3>1. PICK a \in Nat, b \in Nat : /\ a = frames[i].times /\ delays[i] = gcd * a
                                      /\ b = frames[j].times /\ delays[j] = gcd * b
      BY <2>4, <2>5
    <3>2. a * (gcd * b) = b * (gcd * a)
      BY <2>1
    <3> QED BY <3>1, <3>2
  <2>6. ASSUME step = "done", NEW d \in gcd + 1 .. Max({0} \cup ToSet(delays)), DividesAll(d)
        PROVE  FALSE
    <3>1. CASE delays = <<>>
      <4>1. ToSet(delays) = {} /\ Max({0}) = 0
        BY <3>1 DEF ToSet, Max
      <4>2. {0} \cup ToSet(delays) = {0}
        BY <4>1
      <4> QED BY <2>1, <2>6, <4>1, <4>2
    <3>2. CASE delays # <<>>
      <4>1. d \in Whole /\ d > gcd
        BY <2>1, <2>6 DEF Whole
      <4>2. ASSUME NEW i \in 1..Len(delays) PROVE Divides(d, delays[i])
        <5>1. delays[i] \in Nat /\ delays[i] % d = 0
          BY <2>1, <2>6, <4>2, ElementOfSeq DEF DividesAll, Whole
        <5> QED BY <4>1, <5>1, DividesIsMod
      <4>3. Divides(d, gcd)
        BY <1>1, <2>6, <3>2, <4>1, <4>2 DEF GifInv, Repeating, Largest, Common
      <4> QED BY <2>1, <4>1, <4>3, DividesFacts DEF Whole
    <3> QED BY <3>1, <3>2
  <2>7. step = "stopped" => \E i \in DOMAIN source : ~source[i].readable
    BY <1>1 DEF GifInv, Unread
  <2> QED BY <2>3, <2>4, <2>5, <2>6, <2>7 DEF EachForItsDelay
<1> QED BY <1>1, GifInductive, PTL
================================================================================
