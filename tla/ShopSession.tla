------------------------------- MODULE ShopSession -------------------------------
(***************************************************************************)
(* Who is signed in to the shop app, on one phone.                         *)
(*                                                                         *)
(* Registering creates the account, uploads the photo and then writes the  *)
(* Login record; it opens nothing.  Logging in asks the authentication     *)
(* service alone, behind a loading screen, and stores the uid.  A launch   *)
(* with a stored uid shows the loading screen until the Login record of    *)
(* that uid is heard; there is no way back from it.  Logging out forgets   *)
(* the uid and then casts nil to Int, which ends the app.                  *)
(***************************************************************************)
EXTENDS Accounts

VARIABLES
  kept,       \* UserDefaults "UID"
  page,       \* "login", "loading" (by e-mail), "waiting" (by uid), "home" or "off"
  owner,      \* whose page it is
  uploading,  \* registrations whose photo is being uploaded
  unsent      \* Login records not yet acknowledged

shop == <<kept, page, owner, uploading, unsent>>

ShopInit ==
  /\ kept = Nobody /\ page = "login" /\ owner = Nobody
  /\ uploading = {} /\ unsent = {}
--------------------------------------------------------------------------------
(* "Đăng ký": the account is created and the photo goes up, or there is no  *)
(* photo and nothing more happens.                                          *)
Register(p) ==
  /\ page = "login"
  /\ CreateUser(p)
  /\ uploading' \in {uploading, uploading \cup {p}}
  /\ UNCHANGED <<logins, kept, page, owner, unsent>>

PhotoUploaded(p) ==
  /\ p \in uploading
  /\ uploading' = uploading \ {p}
  /\ unsent' = unsent \cup {p}
  /\ UNCHANGED <<service, kept, page, owner>>

PhotoFailed(p) ==
  /\ p \in uploading
  /\ uploading' = uploading \ {p}
  /\ UNCHANGED <<service, kept, page, owner, unsent>>

ShopRecorded(p) ==
  /\ p \in unsent
  /\ RecordLogin(p)
  /\ unsent' = unsent \ {p}
  /\ UNCHANGED <<auth, kept, page, owner, uploading>>
--------------------------------------------------------------------------------
ClickLogin(p) ==
  /\ page = "login"
  /\ page' = "loading" /\ owner' = p
  /\ UNCHANGED <<service, kept, uploading, unsent>>

(* Whether the account has a password that matches is left open.            *)
LoginSuccess ==
  /\ page = "loading" /\ owner \in auth
  /\ kept' = owner
  /\ page' = "home"
  /\ UNCHANGED <<service, owner, uploading, unsent>>

(* Mutant: the loading screen stays after an error.                         *)
LoginErrorIgnored ==
  /\ page = "loading"
  /\ UNCHANGED <<service, kept, page, owner, uploading, unsent>>

LoginError ==
  /\ page = "loading"
  /\ page' = "login" /\ owner' = Nobody
  /\ UNCHANGED <<service, kept, uploading, unsent>>

(* The Login record of the stored uid is heard.  A value without a record   *)
(* changes nothing.                                                         *)
RecordHeard ==
  /\ page = "waiting" /\ owner \in logins
  /\ page' = "home"
  /\ UNCHANGED <<service, kept, owner, uploading, unsent>>

(* The app ends, by the cast or by the user, and what it had to send goes   *)
(* with it.                                                                 *)
LogoutShop ==
  /\ page = "home"
  /\ kept' = Nobody
  /\ page' = "off" /\ owner' = Nobody /\ uploading' = {} /\ unsent' = {}
  /\ UNCHANGED service

KillShop ==
  /\ page # "off"
  /\ page' = "off" /\ owner' = Nobody /\ uploading' = {} /\ unsent' = {}
  /\ UNCHANGED <<service, kept>>

LaunchShop ==
  /\ page = "off"
  /\ page' = IF kept = Nobody THEN "login" ELSE "waiting"
  /\ owner' = kept
  /\ UNCHANGED <<service, kept, uploading, unsent>>

ShopNext ==
  \/ \E p \in Persons : \/ Register(p) \/ PhotoUploaded(p) \/ PhotoFailed(p)
                        \/ ShopRecorded(p) \/ ClickLogin(p)
  \/ LoginSuccess \/ LoginError \/ RecordHeard
  \/ LogoutShop \/ KillShop \/ LaunchShop

ShopFairness ==
  /\ WF_shop(LoginSuccess \/ LoginError)
  /\ WF_shop(RecordHeard)
--------------------------------------------------------------------------------
ShopTypeOK ==
  /\ kept \in Persons \cup {Nobody}
  /\ page \in {"login", "loading", "waiting", "home", "off"}
  /\ owner \in Persons \cup {Nobody}
  /\ uploading \subseteq Persons /\ unsent \subseteq Persons

(* LoadingEnds: the loading screen of a login, or of a launch whose uid has *)
(* a Login record, does not stay for ever (ServiceLoginPresenter.swift:     *)
(* 27-58).                                                                  *)
LoadingEnds == \A p \in Persons :
  (page = "loading" \/ (page = "waiting" /\ owner = p /\ p \in logins)) ~> page \in {"home", "login", "off"}
================================================================================
