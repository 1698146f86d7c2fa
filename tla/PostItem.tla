-------------------------------- MODULE PostItem --------------------------------
(***************************************************************************)
(* Posting an order in the shop app: clickPostItem and what follows it.    *)
(*                                                                         *)
(* The form is written to the database in stages: the two coordinates and  *)
(* the receiver at once, the item when its photo has been uploaded, then   *)
(* the DetailProduct once the first four can be read, then the Product     *)
(* once the DetailProduct can be read, and "Thành công" once the Product   *)
(* can be read.  Reads are answered from the client's own outstanding      *)
(* writes as well as from the database.  Every key but the places and the  *)
(* receiver is the time of day in seconds.                                 *)
(*                                                                         *)
(* The client keeps a write until it is acknowledged and sends it again    *)
(* after a reconnection; killing the app forgets it.  A shipper takes a    *)
(* posted order at any time (the other app; see OrderSync).                *)
(***************************************************************************)
EXTENDS Naturals, Sequences, FiniteSets

CONSTANTS
  Shops,      \* phones running the shop app, one account each
  Shippers,   \* uids of shippers
  Nobody,     \* "" in the UID field
  Absent,     \* no value under a key
  Written,    \* the value of a place, a receiver or an item: nothing here looks inside
  MaxTime,    \* bound: seconds that pass
  MaxPosts    \* bound: orders accepted from one phone

ASSUME PostItemAssumption ==
  /\ Nobody \notin Shippers
  /\ MaxTime \in Nat /\ MaxPosts \in Nat

VARIABLES
  now,       \* the second all the phones' clocks show
  server,    \* path -> the value in the database, or Absent
  conn,      \* shop -> is its client connected?
  pend,      \* shop -> its unacknowledged writes, oldest first
  applied,   \* shop -> how many of them the server has applied on this connection
  reached,   \* history: shop -> how many of them it has applied, on any connection
  stage,     \* shop -> how far the post has come
  keys,      \* shop -> the keys of the item, the detail and the product
  reads,     \* shop -> the paths whose read has not been answered
  alert,     \* shop -> the alert on screen
  posts      \* shop -> orders accepted so far

vars == <<now, server, conn, pend, applied, reached, stage, keys, reads, alert, posts>>

Times == 0..MaxTime

(* A shop posts from one place, to one customer.                            *)
Start(s)      == [root |-> "start", key |-> s]
Finish(s)     == [root |-> "finish", key |-> s]
Recipient(s)  == [root |-> "receiver", key |-> s]
Item(t)       == [root |-> "item", key |-> t]
Detail(t)     == [root |-> "detail", key |-> t]
Product(s, t) == [root |-> "product", key |-> <<s, t>>]

Paths == {Start(s) : s \in Shops} \cup {Finish(s) : s \in Shops}
         \cup {Recipient(s) : s \in Shops} \cup {Item(t) : t \in Times}
         \cup {Detail(t) : t \in Times} \cup {Product(s, t) : s \in Shops, t \in Times}

Children(s, t)    == {Start(s), Finish(s), Recipient(s), Item(t)}
DetailBy(s, t)    == [by |-> s, uid |-> Nobody, children |-> Children(s, t)]
ProductOf(t)      == [detail |-> t]

Details  == [by : Shops, uid : Shippers \cup {Nobody},
             children : {Children(s, t) : s \in Shops, t \in Times}]
Products == [detail : Times]
Values   == {Absent, Written} \cup Details \cup Products
Write    == [path : Paths, value : Values \ {Absent}]

(* Nothing that is written reads as no value.                               *)
ASSUME AbsentAssumption == Absent \notin {Written} \cup Details \cup Products

Pending(s, p) == \E k \in DOMAIN pend[s] : pend[s][k].path = p
--------------------------------------------------------------------------------
Init ==
  /\ now = 0
  /\ server = [p \in Paths |-> Absent]
  /\ conn = [s \in Shops |-> TRUE]
  /\ pend = [s \in Shops |-> <<>>]
  /\ applied = [s \in Shops |-> 0]
  /\ reached = [s \in Shops |-> 0]
  /\ stage = [s \in Shops |-> "form"]
  /\ keys = [s \in Shops |-> [item |-> 0, detail |-> 0, product |-> 0]]
  /\ reads = [s \in Shops |-> {}]
  /\ alert = [s \in Shops |-> "none"]
  /\ posts = [s \in Shops |-> 0]

Tick ==
  /\ now < MaxTime
  /\ now' = now + 1
  /\ UNCHANGED <<server, conn, pend, applied, reached, stage, keys, reads, alert, posts>>

(* A field is empty: the alert gets its button at once.                     *)
ClickIncomplete(s) ==
  /\ stage[s] = "form" /\ alert[s] = "none"
  /\ alert' = [alert EXCEPT ![s] = "incomplete"]
  /\ UNCHANGED <<now, server, conn, pend, applied, reached, stage, keys, reads, posts>>

(* "Đăng bài" with every field filled in.  The alert comes up without a     *)
(* button and the button that posts is disabled.  With no photo the fourth  *)
(* enter() of the group is never matched.  The clock is read twice.         *)
Click(s) ==
  /\ stage[s] = "form" /\ alert[s] = "none"
  /\ posts[s] < MaxPosts
  /\ \E photo \in BOOLEAN, later \in {now, now + 1} \cap Times :
       /\ keys' = [keys EXCEPT ![s] = [item |-> now, detail |-> later, product |-> 0]]
       /\ now' = later
       /\ stage' = [stage EXCEPT ![s] = IF photo THEN "uploading" ELSE "stuck"]
  /\ pend' = [pend EXCEPT ![s] = @ \o
       <<[path |-> Start(s), value |-> Written], [path |-> Finish(s), value |-> Written],
         [path |-> Recipient(s), value |-> Written]>>]
  /\ alert' = [alert EXCEPT ![s] = "waiting"]
  /\ posts' = [posts EXCEPT ![s] = @ + 1]
  /\ UNCHANGED <<server, conn, applied, reached, reads>>

(* The photo is in the storage and has a URL: the item is set, the group is *)
(* left and the four children are read back.                                *)
Uploaded(s) ==
  /\ stage[s] = "uploading"
  /\ conn[s]
  /\ pend' = [pend EXCEPT ![s] = Append(@, [path |-> Item(keys[s].item), value |-> Written])]
  /\ stage' = [stage EXCEPT ![s] = "children"]
  /\ reads' = [reads EXCEPT ![s] = Children(s, keys[s].item)]
  /\ UNCHANGED <<now, server, conn, applied, reached, keys, alert, posts>>

(* Either call of the storage fails: the completion returns.                *)
UploadFailed(s) ==
  /\ stage[s] = "uploading"
  /\ stage' = [stage EXCEPT ![s] = "stuck"]
  /\ UNCHANGED <<now, server, conn, pend, applied, reached, keys, reads, alert, posts>>

(* Mutant: only the database answers a read.                                *)
FoundOnServer(s, p) == server[p] # Absent

(* A read of p is answered: the client's own write is enough, and without   *)
(* one the server is asked.  A read that finds nothing leaves no group; if  *)
(* it is the Product's, the alert gets a button that says so.               *)
Found(s, p)    == Pending(s, p) \/ server[p] # Absent
Answered(s, p) == p \in reads[s] /\ (Pending(s, p) \/ conn[s])

AnswerOne(s) ==
  /\ \E p \in reads[s] :
       /\ Answered(s, p)
       /\ Found(s, p) => reads[s] # {p}
       /\ reads' = [reads EXCEPT ![s] = IF Found(s, p) THEN @ \ {p} ELSE {}]
       /\ stage' = [stage EXCEPT ![s] = IF Found(s, p) THEN @ ELSE "stuck"]
       /\ alert' = [alert EXCEPT ![s] = IF Found(s, p) \/ stage[s] # "product" THEN @ ELSE "failed"]
  /\ UNCHANGED <<now, server, conn, pend, applied, reached, keys, posts>>

LastAnswer(s) == \E p \in reads[s] : Answered(s, p) /\ Found(s, p) /\ reads[s] = {p}

(* Mutant: the Product goes out with the DetailProduct still to come.       *)
PushProductFirst(s) ==
  /\ stage[s] = "children" /\ LastAnswer(s)
  /\ pend' = [pend EXCEPT ![s] = @ \o
       <<[path |-> Product(s, now), value |-> ProductOf(keys[s].detail)],
         [path |-> Detail(keys[s].detail), value |-> DetailBy(s, keys[s].item)]>>]
  /\ stage' = [stage EXCEPT ![s] = "detail"]
  /\ reads' = [reads EXCEPT ![s] = {Detail(keys[s].detail)}]
  /\ UNCHANGED <<now, server, conn, applied, reached, keys, alert, posts>>

(* The last child is there: the DetailProduct is set and read back.         *)
PushDetail(s) ==
  /\ stage[s] = "children" /\ LastAnswer(s)
  /\ pend' = [pend EXCEPT ![s] =
       Append(@, [path |-> Detail(keys[s].detail), value |-> DetailBy(s, keys[s].item)])]
  /\ stage' = [stage EXCEPT ![s] = "detail"]
  /\ reads' = [reads EXCEPT ![s] = {Detail(keys[s].detail)}]
  /\ UNCHANGED <<now, server, conn, applied, reached, keys, alert, posts>>

(* Mutant: the DetailProduct goes out once more behind its Product.         *)
PushProductWithDetail(s) ==
  /\ stage[s] = "detail" /\ LastAnswer(s)
  /\ pend' = [pend EXCEPT ![s] = @ \o
       <<[path |-> Product(s, now), value |-> ProductOf(keys[s].detail)],
         [path |-> Detail(keys[s].detail), value |-> DetailBy(s, keys[s].item)]>>]
  /\ keys' = [keys EXCEPT ![s].product = now]
  /\ stage' = [stage EXCEPT ![s] = "product"]
  /\ reads' = [reads EXCEPT ![s] = {Product(s, now)}]
  /\ UNCHANGED <<now, server, conn, applied, reached, alert, posts>>

(* The DetailProduct is there: the Product is set and observed.             *)
PushProduct(s) ==
  /\ stage[s] = "detail" /\ LastAnswer(s)
  /\ pend' = [pend EXCEPT ![s] =
       Append(@, [path |-> Product(s, now), value |-> ProductOf(keys[s].detail)])]
  /\ keys' = [keys EXCEPT ![s].product = now]
  /\ stage' = [stage EXCEPT ![s] = "product"]
  /\ reads' = [reads EXCEPT ![s] = {Product(s, now)}]
  /\ UNCHANGED <<now, server, conn, applied, reached, alert, posts>>

(* isSetSucessRootProduct finds the Product: "Thành công".                  *)
Success(s) ==
  /\ stage[s] = "product" /\ LastAnswer(s)
  /\ alert' = [alert EXCEPT ![s] = "success"]
  /\ reads' = [reads EXCEPT ![s] = {}]
  /\ UNCHANGED <<now, server, conn, pend, applied, reached, stage, keys, posts>>

(* The alert's button, if it has one: after a success the form is popped,   *)
(* after a failure the button that posts stays disabled.                    *)
TapAlert(s) ==
  /\ alert[s] \in {"incomplete", "success", "failed"}
  /\ alert' = [alert EXCEPT ![s] = "none"]
  /\ stage' = [stage EXCEPT ![s] = IF alert[s] = "failed" THEN @ ELSE "form"]
  /\ UNCHANGED <<now, server, conn, pend, applied, reached, keys, reads, posts>>
--------------------------------------------------------------------------------
ServerApply(s) ==
  /\ conn[s] /\ applied[s] < Len(pend[s])
  /\ LET w == pend[s][applied[s] + 1] IN server' = [server EXCEPT ![w.path] = w.value]
  /\ applied' = [applied EXCEPT ![s] = @ + 1]
  /\ reached' = [reached EXCEPT ![s] = IF applied[s] = @ THEN @ + 1 ELSE @]
  /\ UNCHANGED <<now, conn, pend, stage, keys, reads, alert, posts>>

Ack(s) ==
  /\ applied[s] > 0
  /\ pend' = [pend EXCEPT ![s] = Tail(@)]
  /\ applied' = [applied EXCEPT ![s] = @ - 1]
  /\ reached' = [reached EXCEPT ![s] = @ - 1]
  /\ UNCHANGED <<now, server, conn, stage, keys, reads, alert, posts>>

(* Mutant: what was sent counts as delivered when the connection drops.     *)
DisconnectTrusting(s) ==
  /\ conn[s]
  /\ conn' = [conn EXCEPT ![s] = FALSE]
  /\ applied' = [applied EXCEPT ![s] = Len(pend[s])]
  /\ UNCHANGED <<now, server, pend, reached, stage, keys, reads, alert, posts>>

Disconnect(s) ==
  /\ conn[s]
  /\ conn' = [conn EXCEPT ![s] = FALSE]
  /\ applied' = [applied EXCEPT ![s] = 0]
  /\ UNCHANGED <<now, server, pend, reached, stage, keys, reads, alert, posts>>

Reconnect(s) ==
  /\ ~conn[s]
  /\ conn' = [conn EXCEPT ![s] = TRUE]
  /\ UNCHANGED <<now, server, pend, applied, reached, stage, keys, reads, alert, posts>>

(* The app is killed and started again.                                     *)
Kill(s) ==
  /\ stage[s] # "form" \/ pend[s] # <<>>
  /\ pend' = [pend EXCEPT ![s] = <<>>]
  /\ applied' = [applied EXCEPT ![s] = 0]
  /\ reached' = [reached EXCEPT ![s] = 0]
  /\ stage' = [stage EXCEPT ![s] = "form"]
  /\ reads' = [reads EXCEPT ![s] = {}]
  /\ alert' = [alert EXCEPT ![s] = "none"]
  /\ UNCHANGED <<now, server, conn, keys, posts>>

Listed(t) == \E s \in Shops, k \in Times : server[Product(s, k)] = ProductOf(t)

(* A shipper's "Nhận" reaches the database.                                 *)
ShipperTakes(t, u) ==
  /\ Listed(t)
  /\ server[Detail(t)] # Absent
  /\ server' = [server EXCEPT ![Detail(t)].uid = u]
  /\ UNCHANGED <<now, conn, pend, applied, reached, stage, keys, reads, alert, posts>>
--------------------------------------------------------------------------------
Answer(s) == AnswerOne(s) \/ PushDetail(s) \/ PushProduct(s) \/ Success(s)

Running ==
  \/ Tick
  \/ \E s \in Shops :
       \/ ClickIncomplete(s) \/ Click(s)
       \/ Uploaded(s) \/ UploadFailed(s)
       \/ AnswerOne(s) \/ PushDetail(s) \/ PushProduct(s) \/ Success(s)
       \/ TapAlert(s)
       \/ ServerApply(s) \/ Ack(s) \/ Disconnect(s) \/ Reconnect(s)
  \/ \E t \in Times, u \in Shippers : ShipperTakes(t, u)

Next == Running \/ \E s \in Shops : Kill(s)

Spec == Init /\ [][Next]_vars

(* The client reconnects for ever and gets through again and again; the     *)
(* storage ends every upload one way or the other.  Nobody has to tap.      *)
Fairness == \A s \in Shops :
  /\ WF_vars(Reconnect(s))
  /\ WF_vars(Uploaded(s) \/ UploadFailed(s))
  /\ SF_vars(Answer(s))
  /\ SF_vars(ServerApply(s))
  /\ SF_vars(Ack(s))

FairSpec == Spec /\ Fairness
--------------------------------------------------------------------------------
TypeOK ==
  /\ now \in Times
  /\ server \in [Paths -> Values]
  /\ conn \in [Shops -> BOOLEAN]
  /\ pend \in [Shops -> Seq(Write)]
  /\ applied \in [Shops -> Nat]
  /\ reached \in [Shops -> Nat]
  /\ stage \in [Shops -> {"form", "uploading", "children", "detail", "product", "stuck"}]
  /\ keys \in [Shops -> [item : Times, detail : Times, product : Times]]
  /\ reads \in [Shops -> SUBSET Paths]
  /\ alert \in [Shops -> {"none", "incomplete", "waiting", "success", "failed"}]
  /\ posts \in [Shops -> 0..MaxPosts]

(* ListedIsWhole: a Product in the database, which puts an order on every   *)
(* shipper's News tab, always has its DetailProduct, and that its two       *)
(* coordinates, its receiver and its item, wherever a connection or an app  *)
(* stops (DetailCreateNewsPresenter.swift:67-87).                           *)
ListedIsWhole == \A t \in Times : Listed(t) =>
  /\ server[Detail(t)] # Absent
  /\ \A p \in server[Detail(t)].children : server[p] # Absent

(* NothingTakenBack: what the pipeline waits to read, and the Product       *)
(* behind every "Thành công", is in the database or still among the writes  *)
(* the client will send, for want of a connection, after an acknowledgement *)
(* or a repeated write: no read comes back empty, which would leave the     *)
(* alert without a button, and no success is shown for an order the client  *)
(* has dropped (isSetSucessRootProduct, 177-198).                           *)
NothingTakenBack == \A s \in Shops :
  \A p \in reads[s] \cup (IF alert[s] = "success" THEN {Product(s, keys[s].product)} ELSE {}) :
     Found(s, p)

(* WipedOnlyByRepeat: once a shipper has taken an order, its "uid" goes     *)
(* back to "" only because another shop posted in the same second, because  *)
(* the shop's setValue (114), applied before the shipper came, is sent      *)
(* again over a new connection, or because the shop has posted once more:   *)
(* nothing one post does after its order can be seen touches it.            *)
Taken(t) == server[Detail(t)] # Absent /\ server[Detail(t)].uid # Nobody

WipedOnlyByRepeat == [][\A t \in Times : Taken(t) /\ ~Taken(t)' =>
  LET s == server[Detail(t)].by IN
  \/ server'[Detail(t)].by # s
  \/ applied'[s] = applied[s] + 1 /\ reached'[s] = reached[s]
  \/ posts[s] > 1]_vars

(* WritesArrive: in an app that is not killed, what has been written        *)
(* reaches the database, however often the connection drops.                *)
WritesArrive == \A s \in Shops : \A p \in Paths : Pending(s, p) ~> server[p] # Absent

(* ToldAfterUpload: once the photo is stored the alert gets its "Thành      *)
(* công": none of the six reads is left waiting.                            *)
ToldAfterUpload == \A s \in Shops :
  (stage[s] = "children") ~> (alert[s] = "success")

(* "tao ham kiem tra set thanh cong hay chua" (176): success is shown when  *)
(* the Product has been set, in the database.                               *)
SuccessIsPosted == \A s \in Shops :
  alert[s] = "success" => server[Product(s, keys[s].product)] # Absent
================================================================================
