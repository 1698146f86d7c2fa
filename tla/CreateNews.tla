------------------------------- MODULE CreateNews -------------------------------
(***************************************************************************)
(* The "Tạo mới" tab of the shop app: two places are searched on a map,    *)
(* and the form of a new order is opened for them.                         *)
(*                                                                         *)
(* A place that is found is turned into an address in the background; when *)
(* both text fields have one, a panel with the two takes the place of the  *)
(* fields, a route is asked for, and "Tạo nội dung đơn hàng" geocodes both *)
(* and pushes the form.  None of these requests is ever cancelled: each    *)
(* answer does its work whatever the screen shows by then.                 *)
(*                                                                         *)
(* The geocoder and the directions are MapKit: any request may fail.  Map  *)
(* regions, annotations and the look of the map are left out.              *)
(***************************************************************************)
EXTENDS Naturals, Sequences, SequencesExt, FiniteSets

CONSTANTS
  Addresses,   \* field -> what a place found for it can be called
  Empty,       \* a text field with nothing in it
  NoField,     \* no search controller is on screen
  MaxAnswers,  \* bound: answers under way when a search starts
  MaxForms     \* bound: forms open or being opened when one more is asked for

ASSUME CreateNewsAssumption ==
  /\ DOMAIN Addresses = {"start", "finish"} /\ NoField \notin DOMAIN Addresses
  /\ \A f \in DOMAIN Addresses : Empty \notin Addresses[f]
  /\ MaxAnswers \in Nat /\ MaxForms \in Nat

VARIABLES
  text,       \* field -> the text in it
  label,      \* field -> the text beside it on the panel
  info,       \* are the two fields on screen?        (viewInfoPost)
  panel,      \* is the panel?                        (viewDetailPoint)
  create,     \* is "Tạo bài đăng" enabled?           (createPostButton)
  bar,        \* is the tab bar on screen?
  away,       \* is another tab selected?
  asking,     \* the field whose search controller is on screen, or NoField
  searching,  \* a search is under way, and touches are ignored
  naming,     \* places found whose address is not there yet
  routing,    \* pairs of addresses whose route has been asked for, oldest first
  refused,    \* history: pairs without a route since the map came on screen
  drawn,      \* pairs whose route is on the map
  timeExpect, \* the pair whose distance is beside the panel's, or Empty
  overtaken,  \* history: has a route asked for later been answered before one
              \* that is still awaited, or was when this one was asked for?
  opening,    \* forms being opened, oldest tap first: their pair, and (history)
              \* the pair the panel showed at the tap
  forms       \* the forms on top of the map, the lowest first

input  == <<text, label, info, panel, create>>
search == <<asking, searching, naming>>
routes == <<routing, refused, drawn, timeExpect, overtaken>>
stack  == <<bar, away, opening, forms>>
tab    == <<input, search, routes, stack>>

Fields    == DOMAIN Addresses
NoText    == [f \in Fields |-> Empty]
Filled(t) == \A f \in Fields : t[f] # Empty

OnMap == ~away /\ forms = <<>>
Touch == asking = NoField /\ ~searching   \* nothing covers the screen
--------------------------------------------------------------------------------
CreateInit ==
  /\ text = NoText /\ label = NoText
  /\ info = FALSE /\ panel = FALSE /\ create = TRUE
  /\ bar = TRUE /\ away = FALSE
  /\ asking = NoField /\ searching = FALSE /\ naming = {}
  /\ routing = <<>> /\ refused = {} /\ drawn = {}
  /\ timeExpect = Empty /\ overtaken = FALSE
  /\ opening = <<>> /\ forms = <<>>

(* "Tạo bài đăng" shows the fields or hides them.                           *)
ClickCreateProduct ==
  /\ OnMap /\ Touch /\ create
  /\ info' = ~info
  /\ UNCHANGED <<text, label, panel, create, search, routes, stack>>

(* A tap on a field puts up a search controller; its cancel button takes it *)
(* down.                                                                    *)
TapPoint(f) ==
  /\ OnMap /\ Touch /\ info
  /\ asking' = f
  /\ UNCHANGED <<input, searching, naming, routes, stack>>

CancelSearch ==
  /\ asking # NoField /\ ~searching
  /\ asking' = NoField
  /\ UNCHANGED <<input, searching, naming, routes, stack>>

SearchButtonClicked ==
  /\ asking # NoField /\ ~searching
  /\ Cardinality(naming) + Len(routing) < MaxAnswers
  /\ searching' = TRUE
  /\ UNCHANGED <<input, asking, naming, routes, stack>>

(* The search ends: its bar is hidden and the user leaves it, or nothing    *)
(* was found.                                                               *)
SearchFound(f, a) ==
  /\ searching /\ asking = f
  /\ naming' = naming \cup {[field |-> f, address |-> a]}
  /\ searching' = FALSE /\ asking' = NoField
  /\ UNCHANGED <<input, routes, stack>>

SearchFailed ==
  /\ searching
  /\ searching' = FALSE
  /\ UNCHANGED <<input, asking, naming, routes, stack>>
--------------------------------------------------------------------------------
(* Mutant: no second route is asked for when the labels stay as they are.   *)
EvenAfterInportSameLabels(t) ==
  IF Filled(t)
  THEN /\ panel' = TRUE /\ bar' = FALSE
       /\ label' = t /\ info' = FALSE /\ create' = FALSE
       /\ routing' = IF label = t THEN routing ELSE Append(routing, t)
       /\ overtaken' = (overtaken /\ routing # <<>>)
  ELSE /\ panel' = FALSE
       /\ UNCHANGED <<bar, label, info, create, routing, overtaken>>

(* evenAfterInportFullContentPoin, with texts t: directions are asked for,  *)
(* once both addresses have been geocoded.                                  *)
EvenAfterInport(t) ==
  IF Filled(t)
  THEN /\ panel' = TRUE /\ bar' = FALSE
       /\ label' = t /\ info' = FALSE /\ create' = FALSE
       /\ routing' = Append(routing, t)
       /\ overtaken' = (overtaken /\ routing # <<>>)
  ELSE /\ panel' = FALSE
       /\ UNCHANGED <<bar, label, info, create, routing, overtaken>>

(* The address of a place comes, or there is none.                          *)
Named(n) ==
  /\ n \in naming
  /\ naming' = naming \ {n}
  /\ text' = [text EXCEPT ![n.field] = n.address]
  /\ EvenAfterInport(text')
  /\ UNCHANGED <<asking, searching, refused, drawn, timeExpect, away, opening, forms>>

NotNamed(n) ==
  /\ n \in naming
  /\ naming' = naming \ {n}
  /\ UNCHANGED <<input, asking, searching, routes, stack>>

(* Mutant: a distance is written beside an empty label only.                *)
RouteFoundFillingOnce(k) ==
  /\ k \in DOMAIN routing
  /\ drawn' = drawn \cup {routing[k]}
  /\ timeExpect' = IF timeExpect = Empty THEN routing[k] ELSE timeExpect
  /\ overtaken' = (overtaken \/ k > 1)
  /\ routing' = RemoveAt(routing, k)
  /\ UNCHANGED <<input, search, refused, stack>>

(* Directions come: the line is added to the map, and the distance replaces *)
(* the one beside the panel's addresses (the power of two below it does).   *)
RouteFound(k) ==
  /\ k \in DOMAIN routing
  /\ drawn' = drawn \cup {routing[k]}
  /\ timeExpect' = routing[k]
  /\ overtaken' = (overtaken \/ k > 1)
  /\ routing' = RemoveAt(routing, k)
  /\ UNCHANGED <<input, search, refused, stack>>

(* An address cannot be geocoded, or there are no directions.               *)
RouteRefused(k) ==
  /\ k \in DOMAIN routing
  /\ refused' = refused \cup {routing[k]}
  /\ routing' = RemoveAt(routing, k)
  /\ UNCHANGED <<input, search, drawn, timeExpect, overtaken, stack>>
--------------------------------------------------------------------------------
(* "Tạo nội dung đơn hàng": it can be tapped again before the form comes.   *)
ClickDetailCreateNews ==
  /\ OnMap /\ Touch /\ panel
  /\ Len(opening) + Len(forms) < MaxForms
  /\ opening' = Append(opening, [places |-> text, shown |-> label])
  /\ UNCHANGED <<input, search, routes, bar, away, forms>>

(* Mutant: the finish is read from its field when the start is geocoded.    *)
PushReadingFinish(k) ==
  /\ k \in DOMAIN opening
  /\ forms' = Append(forms, [opening[k] EXCEPT !.places.finish = text.finish])
  /\ opening' = RemoveAt(opening, k)
  /\ bar' = FALSE
  /\ UNCHANGED <<input, search, routes, away>>

(* Both addresses have coordinates: the form is pushed, whatever is on      *)
(* screen.  Or one has none, and nothing happens.                           *)
Push(k) ==
  /\ k \in DOMAIN opening
  /\ forms' = Append(forms, opening[k])
  /\ opening' = RemoveAt(opening, k)
  /\ bar' = FALSE
  /\ UNCHANGED <<input, search, routes, away>>

NotPushed(k) ==
  /\ k \in DOMAIN opening
  /\ opening' = RemoveAt(opening, k)
  /\ UNCHANGED <<input, search, routes, bar, away, forms>>

(* Mutant: "Tạo bài đăng" stays disabled.                                   *)
ClickCancelStayingDisabled ==
  /\ OnMap /\ Touch /\ panel
  /\ panel' = FALSE /\ info' = FALSE
  /\ text' = NoText
  /\ bar' = TRUE
  /\ UNCHANGED <<label, create, search, routes, away, opening, forms>>

ClickCancelDetailViewPost ==
  /\ OnMap /\ Touch /\ panel
  /\ panel' = FALSE /\ info' = FALSE /\ create' = TRUE
  /\ text' = NoText
  /\ bar' = TRUE
  /\ UNCHANGED <<label, search, routes, away, opening, forms>>
--------------------------------------------------------------------------------
(* The map comes back on screen.                                            *)
ViewDidAppear ==
  /\ bar' = TRUE
  /\ text' = NoText
  /\ info' = FALSE /\ panel' = FALSE /\ create' = TRUE
  /\ drawn' = {} /\ refused' = {}
  /\ UNCHANGED label

LeaveTab ==
  /\ ~away /\ bar /\ Touch
  /\ away' = TRUE
  /\ UNCHANGED <<input, search, routes, bar, opening, forms>>

(* Whatever hides the tab bar while another tab is selected leaves no way   *)
(* back but a launch.                                                       *)
ReturnTab ==
  /\ away /\ bar /\ forms = <<>>
  /\ away' = FALSE
  /\ ViewDidAppear
  /\ UNCHANGED <<search, routing, timeExpect, overtaken, opening, forms>>

(* The form on top is taken off; under the last one is the map.             *)
PopForm ==
  /\ ~away /\ forms # <<>>
  /\ forms' = Front(forms)
  /\ IF Len(forms) = 1 THEN ViewDidAppear ELSE UNCHANGED <<input, bar, refused, drawn>>
  /\ UNCHANGED <<search, routing, timeExpect, overtaken, away, opening>>

CreateNext ==
  \/ ClickCreateProduct
  \/ \E f \in Fields : TapPoint(f)
  \/ CancelSearch
  \/ SearchButtonClicked
  \/ \E f \in Fields : \E a \in Addresses[f] : SearchFound(f, a)
  \/ SearchFailed
  \/ \E n \in naming : Named(n)
  \/ \E n \in naming : NotNamed(n)
  \/ \E k \in DOMAIN routing : RouteFound(k)
  \/ \E k \in DOMAIN routing : RouteRefused(k)
  \/ ClickDetailCreateNews
  \/ \E k \in DOMAIN opening : Push(k)
  \/ \E k \in DOMAIN opening : NotPushed(k)
  \/ ClickCancelDetailViewPost
--------------------------------------------------------------------------------
(* NoDeadEnd: on the map there is always a way on: "Tạo bài đăng" is        *)
(* enabled, or the panel with its two buttons is there, in whatever order   *)
(* addresses arrive over resets, other tabs and forms                       *)
(* (CreateNewsController.swift:128-160).                                    *)
NoDeadEnd == OnMap => create \/ panel

(* RouteForPanel: the route between the two addresses on the panel is on    *)
(* the map, or on its way, or was not found: clearing the map, late answers *)
(* and repeated searches never leave the panel without it                   *)
(* (CreateNewsController.swift:128-165).                                    *)
RouteForPanel ==
  panel => \/ label \in drawn \cup refused
           \/ \E k \in DOMAIN routing : routing[k] = label

(* DistanceOfPanel: once no route is awaited any more, the distance beside  *)
(* the two addresses on the panel is theirs, unless theirs was refused or   *)
(* an answer overtook an earlier one; neither cancelling nor the map coming *)
(* back clears the label (CreateNewsControllerPresenter.swift:25-70).       *)
DistanceOfPanel ==
  panel /\ routing = <<>> /\ ~overtaken => timeExpect = label \/ label \in refused

(* FormWasOffered: a form is for two addresses the panel showed together,   *)
(* although texts are emptied and filled again while the two are being      *)
(* geocoded (CreateNewsControllerPresenter.swift:189-201).                  *)
FormWasOffered == \A k \in DOMAIN forms : forms[k].places = forms[k].shown
================================================================================
