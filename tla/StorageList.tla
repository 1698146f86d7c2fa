------------------------------- MODULE StorageList -------------------------------
(***************************************************************************)
(* The Storage tab: the orders this shipper has taken.  Every value of     *)
(* "Product" registers one more listener on "DetailProduct", which         *)
(* remembers the products of its value and builds the list from them each  *)
(* time it is called.                                                      *)
(***************************************************************************)
EXTENDS PhoneClient

VARIABLES
  storageOpen,      \* has the tab been opened?
  storageProducts   \* the orders of the list and of the table

storage == <<storageOpen, storageProducts>>

StorageInit == storageOpen = FALSE /\ storageProducts = {}

(* viewDidLoad: getData.                                                    *)
OpenStorage ==
  /\ running /\ "Storage" \in toOpen
  /\ toOpen' = toOpen \ {"Storage"}
  /\ storageOpen' = TRUE
  /\ observing' = Append(observing, [on |-> "Product"])
  /\ UNCHANGED <<database, heard, known, located, regs, mainq, running, storageProducts>>

(* A value of "Product": one more listener on the details.                  *)
ProductsValue ==
  /\ Comes("Product")
  /\ mainq' = Tail(mainq)
  /\ observing' = Append(observing, [on |-> "Storage", products |-> Head(mainq).value])
  /\ UNCHANGED <<database, heard, known, located, regs, toOpen, running, storage>>

(* Mutant: orders without a shipper are listed with the shipper's own.      *)
MergedWithFree(products, details) == {o \in products : details[o] \in {Me, NoOne}}

(* mergeProductsAndDetailProducts                                           *)
Merged(products, details) == products \cap Mine(details)

DetailsValue ==
  /\ Comes("Storage")
  /\ mainq' = Tail(mainq)
  /\ storageProducts' = Merged(Head(mainq).listener.products, Head(mainq).value)
  /\ UNCHANGED <<database, heard, known, located, observing, regs, toOpen, running, storageOpen>>

StorageNext == OpenStorage \/ ProductsValue \/ DetailsValue
================================================================================
