-------------------------------- MODULE Sessions --------------------------------
(***************************************************************************)
(* A shipper's phone and a shop's phone over one authentication service    *)
(* and one "Login" tree: a registration on either is a change of the tree  *)
(* that the listeners of the shipper app answer.                           *)
(***************************************************************************)
EXTENDS ShipperSession, ShopSession

Init ==
  /\ auth = {} /\ logins = {}
  /\ ShipperInit /\ ShopInit

vars == <<service, shipper, shop>>

Next ==
  \/ ShipperNext /\ UNCHANGED shop
  \/ ShopNext /\ UNCHANGED shipper

Spec == Init /\ [][Next]_vars /\ ShopFairness

TypeOK == auth \subseteq Persons /\ logins \subseteq Persons /\ ShipperTypeOK /\ ShopTypeOK

(* RegisteredOnce: the Login record of a person, which says whether it is a *)
(* shop or a shipper, is written by one app and written once: no second     *)
(* registration, in either app, after a kill or over a record that has not  *)
(* arrived yet, replaces it (SignUpControllerPesenter.swift:29,             *)
(* SignPresenter.swift:83).                                                 *)
RegisteredOnce ==
  /\ outbox \cap (unsent \cup uploading) = {}
  /\ unsent \cap uploading = {}
  /\ logins \cap (outbox \cup unsent \cup uploading) = {}
================================================================================
