----------------------------- MODULE ShipperSession -----------------------------
(***************************************************************************)
(* Who is signed in to the shipper app, on one phone.                      *)
(*                                                                         *)
(* Signing in with Google takes three answers: Google's own page calls the *)
(* app back, which signs out whoever was in; the authentication service    *)
(* takes the credential, upon which the app registers a listener on the    *)
(* whole "Login" tree; each value of the tree in which the listener's      *)
(* person has a record stores that person's uid and opens the tabs, now    *)
(* and whenever the tree changes.  Nothing removes the listener, not even  *)
(* logging out, so tabs may open at any time.  Signing up writes           *)
(* a Login record, stores `true` where the others store the uid, and opens *)
(* the tabs.  At launch a stored string opens the tabs.                    *)
(***************************************************************************)
EXTENDS Accounts

CONSTANTS
  Flag,          \* `true` in UserDefaults
  Unheard,       \* the client has no value of "Login" yet
  MaxListeners   \* bound: Google sign-ins in one launch

ASSUME ShipperAssumption == Flag \notin Persons \cup {Nobody} /\ MaxListeners \in Nat

VARIABLES
  stored,     \* UserDefaults "userSignedIn"
  screen,     \* "signin" or "tabs"
  account,    \* whose tabs they are
  asked,      \* calls of the authentication service not yet answered
  listening,  \* whose Login listeners the client holds, oldest first
  seen,       \* the members the server has told the client of, or Unheard
  outbox,     \* Login records not yet acknowledged
  mainq,      \* what is queued for the main thread
  joined,     \* who has signed up since the launch
  lost,       \* whose Login record went down with the app
  cut         \* history: Google called back over the tabs on screen

shipper == <<stored, screen, account, asked, listening, seen, outbox, mainq, joined, lost, cut>>

(* "google": Google's page is open; "credential", "signup": the             *)
(* authentication service was called.                                       *)
Calls  == [how : {"google", "credential", "signup"}, who : Persons]
Events == [type : {"value"}, who : Persons, members : SUBSET Persons]
Blocks == [type : {"enter", "open"}, who : Persons]

View(heard, unsent) == heard \cup unsent

(* Mutant: the latest listener is called first.                             *)
ValuesReversed(whose, members) ==
  [k \in DOMAIN whose |->
     [type |-> "value", who |-> whose[Len(whose) + 1 - k], members |-> members]]

(* A value of "Login" for each listener.                                    *)
Values(whose, members) ==
  [k \in DOMAIN whose |-> [type |-> "value", who |-> whose[k], members |-> members]]

ShipperInit ==
  /\ stored = Nobody /\ screen = "signin" /\ account = Nobody
  /\ asked = {} /\ listening = <<>> /\ seen = Unheard /\ outbox = {} /\ mainq = <<>>
  /\ joined = {} /\ lost = {} /\ cut = FALSE
--------------------------------------------------------------------------------
(* Google sign-ins that may still register a listener.                      *)
SigningIn == {c \in asked : c.how # "signup"}

(* The Google button opens Google's page.                                   *)
TapGoogle(p) ==
  /\ screen = "signin"
  /\ Len(listening) + Cardinality(SigningIn) < MaxListeners
  /\ asked' = asked \cup {[how |-> "google", who |-> p]}
  /\ UNCHANGED <<service, stored, screen, account, listening, seen, outbox, mainq, joined, lost, cut>>

(* Google calls back: whoever is stored is signed out, even when the        *)
(* listener of an earlier sign-in has opened the tabs in the meantime, and  *)
(* the credential goes to the authentication service.                       *)
DidSignIn(p) ==
  /\ [how |-> "google", who |-> p] \in asked
  /\ asked' = (asked \ {[how |-> "google", who |-> p]}) \cup {[how |-> "credential", who |-> p]}
  /\ stored' = Nobody
  /\ cut' = (screen = "tabs")
  /\ UNCHANGED <<service, screen, account, listening, seen, outbox, mainq, joined, lost>>

TapSignUp(p) ==
  /\ screen = "signin"
  /\ asked' = asked \cup {[how |-> "signup", who |-> p]}
  /\ UNCHANGED <<service, stored, screen, account, listening, seen, outbox, mainq, joined, lost, cut>>

GoogleAnswered(p) ==
  /\ [how |-> "credential", who |-> p] \in asked
  /\ asked' = asked \ {[how |-> "credential", who |-> p]}
  /\ SignInWithGoogle(p)
  /\ listening' = Append(listening, p)
  /\ mainq' = IF seen = Unheard THEN mainq ELSE mainq \o Values(<<p>>, View(seen, outbox))
  /\ UNCHANGED <<logins, stored, screen, account, seen, outbox, joined, lost, cut>>

(* The account is created: its Login record is written, which the listeners *)
(* hear at once, and the tabs open.                                         *)
SignUpAnswered(p) ==
  /\ [how |-> "signup", who |-> p] \in asked
  /\ asked' = asked \ {[how |-> "signup", who |-> p]}
  /\ CreateUser(p)
  /\ outbox' = outbox \cup {p}
  /\ stored' = Flag
  /\ joined' = joined \cup {p}
  /\ mainq' = mainq \o <<[type |-> "open", who |-> p]>> \o
       (IF seen = Unheard THEN <<>> ELSE Values(listening, View(seen, outbox')))
  /\ UNCHANGED <<logins, screen, account, listening, seen, lost, cut>>

(* The service refuses, or cannot be reached.                               *)
Refused ==
  /\ \E c \in asked : asked' = asked \ {c}
  /\ UNCHANGED <<service, stored, screen, account, listening, seen, outbox, mainq, joined, lost, cut>>
--------------------------------------------------------------------------------
(* The client hears of the Login records it did not know.                   *)
HearLogins ==
  /\ listening # <<>>
  /\ seen # logins
  /\ seen' = logins
  /\ mainq' = IF seen # Unheard /\ View(seen, outbox) = View(logins, outbox)
              THEN mainq ELSE mainq \o Values(listening, View(logins, outbox))
  /\ UNCHANGED <<service, stored, screen, account, asked, listening, outbox, joined, lost, cut>>

(* The server takes a record and says so; what it says last to a listener   *)
(* includes the record.                                                     *)
ShipperRecorded(p) ==
  /\ p \in outbox
  /\ RecordLogin(p)
  /\ outbox' = outbox \ {p}
  /\ seen' = IF seen = Unheard THEN Unheard ELSE seen \cup {p}
  /\ UNCHANGED <<auth, stored, screen, account, asked, listening, mainq, joined, lost, cut>>

(* Mutant: any value of the tree opens the tabs.                            *)
LoginValueUnchecked ==
  /\ mainq # <<>> /\ Head(mainq).type = "value"
  /\ mainq' = Append(Tail(mainq), [type |-> "enter", who |-> Head(mainq).who])
  /\ UNCHANGED <<service, stored, screen, account, asked, listening, seen, outbox, joined, lost, cut>>

LoginValue ==
  /\ mainq # <<>> /\ Head(mainq).type = "value"
  /\ mainq' = IF Head(mainq).who \in Head(mainq).members
              THEN Append(Tail(mainq), [type |-> "enter", who |-> Head(mainq).who])
              ELSE Tail(mainq)
  /\ UNCHANGED <<service, stored, screen, account, asked, listening, seen, outbox, joined, lost, cut>>

(* Mutant: a uid that is already stored is kept.                            *)
EnterKeepingStored ==
  /\ mainq # <<>> /\ Head(mainq).type \in {"enter", "open"}
  /\ mainq' = Tail(mainq)
  /\ screen' = "tabs" /\ account' = Head(mainq).who
  /\ stored' = IF Head(mainq).type = "enter" /\ stored = Nobody THEN Head(mainq).who ELSE stored
  /\ cut' = FALSE
  /\ UNCHANGED <<service, asked, listening, seen, outbox, joined, lost>>

(* The tabs become the root of the window; a Google sign-in also stores the *)
(* uid.                                                                     *)
Enter ==
  /\ mainq # <<>> /\ Head(mainq).type \in {"enter", "open"}
  /\ mainq' = Tail(mainq)
  /\ screen' = "tabs" /\ account' = Head(mainq).who
  /\ stored' = IF Head(mainq).type = "enter" THEN Head(mainq).who ELSE stored
  /\ cut' = FALSE
  /\ UNCHANGED <<service, asked, listening, seen, outbox, joined, lost>>

Logout ==
  /\ screen = "tabs"
  /\ stored' = Nobody
  /\ screen' = "signin" /\ account' = Nobody /\ cut' = FALSE
  /\ UNCHANGED <<service, asked, listening, seen, outbox, mainq, joined, lost>>

(* Mutant: whatever is stored opens the tabs.                               *)
RelaunchUnchecked ==
  /\ IF stored # Nobody
     THEN screen' = "tabs" /\ account' = stored
     ELSE screen' = "signin" /\ account' = Nobody
  /\ asked' = {} /\ listening' = <<>> /\ seen' = Unheard /\ mainq' = <<>> /\ joined' = {}
  /\ outbox' = {} /\ lost' = lost \cup outbox /\ cut' = FALSE
  /\ UNCHANGED <<service, stored>>

(* The app is killed and launched again: checkLogined.                      *)
Relaunch ==
  /\ IF stored \in Persons
     THEN screen' = "tabs" /\ account' = stored
     ELSE screen' = "signin" /\ account' = Nobody
  /\ asked' = {} /\ listening' = <<>> /\ seen' = Unheard /\ mainq' = <<>> /\ joined' = {}
  /\ outbox' = {} /\ lost' = lost \cup outbox /\ cut' = FALSE
  /\ UNCHANGED <<service, stored>>

ShipperNext ==
  \/ \E p \in Persons : \/ TapGoogle(p) \/ DidSignIn(p) \/ TapSignUp(p)
                        \/ GoogleAnswered(p) \/ SignUpAnswered(p) \/ ShipperRecorded(p)
  \/ Refused \/ HearLogins \/ LoginValue \/ Enter \/ Logout \/ Relaunch
--------------------------------------------------------------------------------
ShipperTypeOK ==
  /\ stored \in Persons \cup {Nobody, Flag}
  /\ screen \in {"signin", "tabs"} /\ account \in Persons \cup {Nobody}
  /\ asked \subseteq Calls
  /\ listening \in Seq(Persons)
  /\ seen \in {Unheard} \cup SUBSET Persons
  /\ outbox \subseteq Persons /\ joined \subseteq Persons /\ lost \subseteq Persons
  /\ mainq \in Seq(Events \cup Blocks)
  /\ cut \in BOOLEAN

Inside(p) == screen = "tabs" /\ account = p

(* OnlyMembersInside: whoever's tabs are open, through whichever of the     *)
(* listeners, sign-ups and relaunches, has a Login record, in the database  *)
(* or on its way there, unless killing the app destroyed it                 *)
(* (AppDelegate.swift:30-36, 47-58).                                        *)
OnlyMembersInside == \A p \in Persons :
  Inside(p) => p \in logins \cup outbox \cup lost

(* SameAccountNextLaunch: however many listeners answer one change of the   *)
(* Login tree, the account on screen is the one the next launch opens,      *)
(* unless Google's callback signed it out over its own tabs                 *)
(* (AppDelegate.swift:42): then nothing is stored and the next launch asks  *)
(* for a sign-in.  It never opens another account.  As long as nobody has   *)
(* signed up in this launch (AppDelegate.swift:52-57,                       *)
(* SignUpControllerPesenter.swift:30).                                      *)
SameAccountNextLaunch == \A p \in Persons :
  Inside(p) /\ joined = {} => stored = (IF cut THEN Nobody ELSE p)

(* The members among the persons with a listener, the latest sign-in last.  *)
Claimants == Selected(listening, View(seen, outbox))

(* LastSignInWins: several listeners answer every change of the tree; once  *)
(* nothing is queued, the tabs on screen are those of the latest Google     *)
(* sign-in of a member, not of one who signed in and out before.            *)
LastSignInWins ==
  (screen = "tabs" /\ mainq = <<>> /\ joined = {} /\ seen # Unheard /\ Claimants # <<>>)
  => account = Claimants[Len(Claimants)]
================================================================================
